--------------------------- MODULE MCLocalBackup ---------------------------
(***************************************************************************)
(* Two overlapping backups of small sources, on an empty repository or on  *)
(* one that holds an older backup, current, of an earlier envelope epoch   *)
(* or sealed with random nonces.                                           *)
(***************************************************************************)
EXTENDS LocalBackup, TLC

S1 == <<"a", "b">>
S2 == <<"b", "a", "b">>
S3 == <<"b", "a", "b", "c">>

Config(tag, source, dedup, encrypt) ==
    [tag |-> tag, source |-> source, dedup |-> dedup, encrypt |-> encrypt,
     pass |-> "x", rotate |-> FALSE, codec |-> "zstd", level |-> 0, params |-> 0,
     output |-> "registry", verify |-> "quick", grown |-> 0]

Dedup == Config(1, S1, TRUE, TRUE)
Moved == Config(2, S2, TRUE, TRUE)

\* The ways to configure a run that the properties tell apart; the plain backup of S3
\* would need one layer more than there may be, so its layers grow.
MCConfigs ==
    {Dedup,
     [Moved EXCEPT !.level = 9],
     [Moved EXCEPT !.rotate = TRUE, !.codec = "gzip", !.pass = "y", !.verify = "full"],
     [Config(1, S3, FALSE, TRUE) EXCEPT !.output = "tar", !.grown = 3],
     [Config(1, S3, FALSE, FALSE) EXCEPT !.output = "daemon"],
     [Config(2, S1, TRUE, FALSE) EXCEPT !.params = 2]}

\* The only overlaps of interest for a shared directory: plain backups.
MCPlain == {Config(1, S1, FALSE, FALSE), Config(2, S2, FALSE, FALSE)}

\* An image of S2 that an earlier run left, sealed by key; an older envelope
\* derived its nonces from the plaintext.
OldImage(key) ==
    LET blob(i) == LET new == Seal(0, key, key.mode, "zstd", "data", i - 1,
                                   [plain |-> <<2, S2[i]>>, codec |-> "zstd", level |-> 5])
                   IN  IF key.epoch = EnvelopeVersion THEN new
                       ELSE [new EXCEPT !.aad.version = key.epoch,
                                        !.nonce = <<"plain", key.id, S2[i]>>]
        layer(from, content) ==
            [path |-> dataBlobPath(from, content), digest |-> content, content |-> content,
             from |-> from, to |-> from + Len(content) - 1]
        layers == <<layer(0, <<blob(1)>>), layer(1, <<blob(2), blob(3)>>)>>
    IN  [created |-> 1, codec |-> "zstd", level |-> 5, params |-> 2, key |-> key, pass |-> "x",
         rows |-> [i \in 1..3 |-> [ps |-> <<2, S2[i]>>, ss |-> blob(i),
                                  p |-> layers[IF i = 1 THEN 1 ELSE 2].path]],
         layers |-> layers, source |-> S2]

Holding(key) ==
    LET image == OldImage(key)
    IN  [tags |-> (1 :> None @@ 2 :> image),
         blobs |-> {OciLayer(image.layers[k]) : k \in 1..2},
         sealed |-> {image.rows[i].ss : i \in 1..3}]

MCRepositories ==
    {[tags |-> (1 :> None @@ 2 :> None), blobs |-> {}, sealed |-> {}],
     Holding(NewKey(0, TRUE)),
     Holding([NewKey(0, TRUE) EXCEPT !.epoch = 2]),
     Holding(NewKey(0, FALSE))}

MCEmpty == {[tags |-> (1 :> None @@ 2 :> None), blobs |-> {}, sealed |-> {}]}

Symmetry == Permutations(Procs)
=============================================================================
