---------------------------- MODULE LocalBackup ----------------------------
(***************************************************************************)
(* Backups that build their layers on this host (pkg/backup/pipeline.go):  *)
(* each run may look for a base to deduplicate against in the repository,  *)
(* settles level, parameters and key, cuts the archive into chunks, seals  *)
(* them into spools of the temporary directory, rolls the spools into OCI  *)
(* layers and publishes the image.  Runs of several processes overlap and  *)
(* share the repository and, when SharedTemp, the temporary directory.     *)
(*                                                                         *)
(* Data abstraction.  The archive of a source is a sequence of units, and  *)
(* each unit is a chunk; the chunking parameters are part of a chunk's     *)
(* plaintext, codec and level of its compressed form.  SHA-256 and HMAC    *)
(* are taken as injective: a digest is the digested value, a nonce the     *)
(* tuple it is derived from.  Stored chunks all count one byte.            *)
(***************************************************************************)
EXTENDS Integers, Sequences, FiniteSets, SequencesExt

CONSTANTS
    Procs,         \* backup processes
    Configs,       \* the configurations a run may have
    Repositories,  \* what the repository may hold at first
    LayerCut,      \* units whose stored digest satisfies the layer predicate
    TargetLayerBytes, MinLayerBytes, \* LayerLimits
    MaxDataLayers, \* data layers of an image (118)
    FallbackAt,    \* layers after which boundaries become fixed (110)
    MinChunkSize,  \* chunk.MinChunkSize
    DefaultLevel,  \* the default of Codec.Levels
    DefaultParams, \* chunk.DefaultCDCParams
    SharedTemp,    \* the processes run with one --temp-dir (the default)
    MaxRuns,       \* bound: runs started
    MaxFaults,     \* bound: failures met
    None           \* no image, no key, no spool

ASSUME BackupAssumption ==
    /\ TargetLayerBytes \in Nat \ {0} /\ MinLayerBytes \in Nat \ {0}
    /\ MaxDataLayers \in Nat \ {0}
    /\ FallbackAt \in Nat /\ MinChunkSize \in Nat \ {0}
    /\ SharedTemp \in BOOLEAN /\ MaxRuns \in Nat /\ MaxFaults \in Nat

EnvelopeVersion == 3

VARIABLES
    pc,      \* control point of each process's Run
    run,     \* its local state, the builder
    started, \* runs started, which number them
    now,     \* wall clock, in the seconds of CreatedAt
    tags,    \* tag -> the image it names, or None
    blobs,   \* data layers the registry holds
    files,   \* images written by --output tar, oci-layout or daemon
    names,   \* spool path -> file
    bytes,   \* file -> its stored chunks
    packed,  \* layer files in the temporary directories
    sealed,  \* every blob sealed so far
    results, \* what the runs returned, by number
    faults

vars == <<pc, run, started, now, tags, blobs, files, names, bytes, packed,
          sealed, results, faults>>
repoVars == <<tags, blobs, files>>
diskVars == <<names, bytes, packed>>

-----------------------------------------------------------------------------
(* Keys and seals: pkg/crypt.                                              *)

\* NewKeyMaterial and NewDedupKeyMaterial: fresh secrets with their attestation.
NewKey(n, dedup) ==
    [id |-> n, schema |-> 2, epoch |-> EnvelopeVersion,
     mode |-> IF dedup THEN "convergent" ELSE "random",
     reuse |-> IF dedup THEN "convergent-dedup" ELSE "never"]

(* Mutant: the epoch a key attests is not compared.                        *)
ReusableForAnyEpoch(k) ==
    k.schema >= 2 /\ k.mode = "convergent" /\ k.reuse = "convergent-dedup"

\* KeyMaterial.ReusableFor(EnvelopeVersion, NonceConvergent).
ReusableFor(k) ==
    /\ k.schema >= 2
    /\ k.epoch = EnvelopeVersion
    /\ k.mode = "convergent"
    /\ k.reuse = "convergent-dedup"

\* AAD: the position is authenticated outside convergent mode only.
AAD(codec, mode, role, i) ==
    [version |-> EnvelopeVersion, codec |-> codec, mode |-> mode, role |-> role,
     at |-> IF mode = "convergent" THEN 0 ELSE i]

(* Mutant: the nonce comes from the plaintext instead of the sealed bytes. *)
convergentNonceOfPlain(key, aad, payload) == <<"hmac", key.id, aad, payload.plain>>

\* convergentNonce: from the authenticated data and the bytes to encrypt.
convergentNonce(key, aad, payload) == <<"hmac", key.id, aad, payload>>

\* sealer.Seal of blob i of run n; a random nonce is fresh.
Seal(n, key, mode, codec, role, i, payload) ==
    LET aad == AAD(codec, mode, role, i)
    IN  [key |-> key.id, aad |-> aad, message |-> payload,
         nonce |-> IF mode = "convergent" THEN convergentNonce(key, aad, payload)
                                          ELSE <<"rand", n, role, i>>]

-----------------------------------------------------------------------------
(* What a run settles before it reads the sources.                         *)

(* Mutant: a level nobody asked for is the codec's default.                *)
resolveLevelDefault(c, base) == IF c.level # 0 THEN c.level ELSE DefaultLevel

\* resolveLevel: asked for, else inherited through the same codec, else the default.
resolveLevel(c, base) ==
    IF c.level # 0 THEN c.level
    ELSE IF c.dedup /\ base # None /\ base.codec = c.codec THEN base.level
    ELSE DefaultLevel

\* The CDC parameters of a run: given, else those of a CDC base, else the default.
cdcParams(c, base) ==
    IF c.params # 0 THEN c.params
    ELSE IF c.dedup /\ base # None /\ base.params # 0 THEN base.params
    ELSE DefaultParams

\* UnwrapKeys: the passphrase opens the key file it was wrapped with.
Unwraps(c, image) == image.key # None /\ image.pass = c.pass

\* reuseDedupKey: the base's key when it opens and attests that it may seal again.
reuseDedupKey(c, base) ==
    IF /\ c.dedup /\ base # None /\ ~c.rotate
       /\ Unwraps(c, base) /\ ReusableFor(base.key)
    THEN base.key
    ELSE None

-----------------------------------------------------------------------------
(* Layers.                                                                 *)

\* Estimate counts the sources before they are read, and a source may have grown
\* by then.
Estimate(c) == Len(c.source) - c.grown

ceilDiv(a, b) == (a + b - 1) \div b

\* PlanLayers: more layers than an image may have make the layers larger instead;
\* a single layer is no larger than what is expected.
PlanLayers(estimated) ==
    LET wanted == IF ceilDiv(estimated, TargetLayerBytes) > MaxDataLayers
                  THEN ceilDiv(estimated, MaxDataLayers) ELSE TargetLayerBytes
        layer  == Max({wanted, MinLayerBytes})
    IN  IF estimated <= 0 THEN MinLayerBytes
        ELSE IF ceilDiv(estimated, layer) = 1 THEN Max({Min({layer, estimated}), MinLayerBytes})
        ELSE layer

\* fixedBoundary and contentBoundary on the spool's size and the last chunk; a
\* stored digest is random, so the predicate may as well follow the unit.
ShouldClose(r, unit) ==
    LET size == r.spool.size
    IN  IF r.closeAt > 0 THEN size >= r.closeAt
        ELSE \/ size >= 4 * r.layerBytes
             \/ size >= r.layerBytes \div 4 /\ unit \in LayerCut

\* shouldRollLayer: a final layer without a bound stays available.
shouldRollLayer(r, unit) ==
    Len(r.layers) < MaxDataLayers - 1 /\ ShouldClose(r, unit)

\* The boundary after a roll: fixed once a dedup run has FallbackAt layers.
BoundaryAfterRoll(r) ==
    LET share == ceilDiv(Estimate(r.cfg) - r.at, 8)
    IN  IF r.cfg.dedup /\ ~r.fallback /\ Len(r.layers) >= FallbackAt
        THEN [r EXCEPT !.fallback = TRUE,
                       !.closeAt = IF share < MinChunkSize THEN MinChunkSize ELSE share]
        ELSE r

(* Mutant: the data file is named after the layer's ordinal.               *)
dataBlobPathOrdinal(k, digest) == k

\* dataBlobPath: the data file of layer k is named after its content.
dataBlobPath(k, digest) == digest

\* An OCI layer: a tar with one file, of this name and content.
OciLayer(layer) == <<layer.path, layer.content>>

Dir(p) == IF SharedTemp THEN "tmp" ELSE p
SpoolPath(p) == <<Dir(p), Len(run[p].layers)>>
Hole == "hole"

\* A write at an offset of a file another process may have truncated.
WriteAt(content, off, x) ==
    [i \in 1..(IF off + 1 > Len(content) THEN off + 1 ELSE Len(content)) |->
        IF i = off + 1 THEN x ELSE IF i <= Len(content) THEN content[i] ELSE Hole]

\* The files somebody can still reach: by a name, or by an open descriptor.
Reachable(ns, rs) ==
    {ns[path] : path \in DOMAIN ns}
    \cup {rs[p].spool.file : p \in {q \in Procs : rs[q] # None /\ rs[q].spool # None}}

\* Names ns and process states rs, and the contents bs that remain reachable.
Disk(ns, rs, bs) ==
    /\ names' = ns /\ run' = rs
    /\ bytes' = [f \in Reachable(ns, rs) |-> bs[f]]

Without(f, x) == [y \in DOMAIN f \ {x} |-> f[y]]
With(f, x, v) == [y \in DOMAIN f \cup {x} |-> IF y = x THEN v ELSE f[y]]

-----------------------------------------------------------------------------
Init ==
    /\ tags \in {r.tags : r \in Repositories}
    /\ \E r \in Repositories : r.tags = tags /\ blobs = r.blobs /\ sealed = r.sealed
    /\ pc = [p \in Procs |-> "idle"] /\ run = [p \in Procs |-> None]
    /\ started = 0 /\ now = 1 /\ files = {}
    /\ names = <<>> /\ bytes = <<>> /\ packed = {}
    /\ results = <<>> /\ faults = 0

\* What the process does next, in its local state.
Step(p, r, next) ==
    /\ run' = [run EXCEPT ![p] = r]
    /\ pc' = [pc EXCEPT ![p] = next]

(* Mutant: nothing is deferred that removes the layer files.               *)
ReturnForgets(p, outcome) ==
    /\ pc' = [pc EXCEPT ![p] = "idle"]
    /\ results' = [results EXCEPT ![run[p].n] = outcome]
    /\ UNCHANGED packed
    /\ Disk(names, [run EXCEPT ![p] = None], bytes)

\* Run returns.  cleanup is deferred only once finalize has succeeded: it takes
\* the layer files with it, and an earlier return leaves them and the spool.
Return(p, outcome) ==
    /\ pc' = [pc EXCEPT ![p] = "idle"]
    /\ results' = [results EXCEPT ![run[p].n] = outcome]
    /\ packed' = IF run[p].final THEN {f \in packed : f[1] # run[p].n} ELSE packed
    /\ Disk(names, [run EXCEPT ![p] = None], bytes)

\* Validate: what is refused before any work is done.
Validate(c) ==
    /\ c.source # <<>>
    /\ c.output \in {"registry", "daemon", "oci-layout", "tar"}
    /\ c.encrypt => c.pass # None

\* Run: configuration, preflight and the proof of push access.
Begin(p) ==
    /\ pc[p] = "idle" /\ started < MaxRuns
    /\ \E c \in Configs, t \in {now, now + 1} :
          /\ Validate(c)
          /\ now' = t
          /\ Step(p, [n |-> started + 1, cfg |-> c, created |-> t, unread |-> <<>>,
                      base |-> None, key |-> None, level |-> 0, params |-> 0, layerBytes |-> 0,
                      at |-> 0, rows |-> <<>>, spool |-> None, layers |-> <<>>,
                      digest |-> None, closeAt |-> 0, fallback |-> FALSE,
                      pushed |-> 0, final |-> FALSE],
                  IF c.dedup /\ c.output = "registry" THEN "list" ELSE "plan")
    /\ started' = started + 1
    /\ results' = Append(results, "none")
    /\ UNCHANGED <<repoVars, diskVars, sealed, faults>>

\* findDedupBase lists the tags; when it cannot, the run goes on without a base.
ListTags(p) ==
    /\ pc[p] = "list"
    /\ \/ /\ Step(p, [run[p] EXCEPT !.unread = SetToSortSeq({t \in DOMAIN tags : tags[t] # None}, <)],
                  "scan")
          /\ UNCHANGED faults
       \/ /\ faults < MaxFaults /\ faults' = faults + 1
          /\ Step(p, run[p], "plan")
    /\ UNCHANGED <<started, now, repoVars, diskVars, sealed, results>>

\* The newest readable image wins; a tie goes to the greater tag.
Newer(r, tag, image) ==
    r.base # None =>
        \/ image.created > r.base.created
        \/ image.created = r.base.created /\ tag > r.base.tag

\* One tag of the listing: unreadable ones are skipped, and so are key files
\* that cannot be read.
ReadTag(p) ==
    LET r    == run[p]
        tag  == Head(r.unread)
        rest == [r EXCEPT !.unread = Tail(@)]
        seen == With(tags[tag], "tag", tag)
    IN  /\ pc[p] = "scan" /\ r.unread # <<>>
        /\ \/ /\ Step(p, IF Newer(r, tag, tags[tag]) THEN [rest EXCEPT !.base = seen] ELSE rest, "scan")
              /\ UNCHANGED faults
           \/ /\ faults < MaxFaults /\ faults' = faults + 1
              /\ \/ Step(p, rest, "scan")
                 \/ /\ Newer(r, tag, tags[tag]) /\ tags[tag].key # None
                    /\ Step(p, [rest EXCEPT !.base = [seen EXCEPT !.key = None]], "scan")
        /\ UNCHANGED <<started, now, repoVars, diskVars, sealed, results>>

\* Parameters, level, plan, space check and key material, in that order.
Plan(p) ==
    LET r == run[p]
        c == r.cfg
        reused == reuseDedupKey(c, r.base)
    IN  /\ \/ pc[p] = "plan"
           \/ pc[p] = "scan" /\ r.unread = <<>>
        /\ Step(p, [r EXCEPT !.params = IF c.dedup THEN cdcParams(c, r.base) ELSE 0,
                             !.level = resolveLevel(c, r.base),
                             !.key = IF ~c.encrypt THEN None
                                     ELSE IF reused # None THEN reused ELSE NewKey(r.n, c.dedup),
                             !.layerBytes = PlanLayers(Estimate(c)),
                             !.closeAt = IF c.dedup THEN 0 ELSE PlanLayers(Estimate(c))],
                "store")
        /\ UNCHANGED <<started, now, repoVars, diskVars, sealed, results, faults>>

\* newSpool (os.Create) when no spool is open: a file of that name is truncated,
\* whoever has it open.
CreateSpool(p) ==
    LET path == SpoolPath(p)
        f == IF path \in DOMAIN names THEN names[path] ELSE <<run[p].n, Len(run[p].layers)>>
    IN  IF run[p].spool # None
        THEN [names |-> names, bytes |-> bytes, spool |-> run[p].spool]
        ELSE [names |-> With(names, path, f), bytes |-> With(bytes, f, <<>>),
              spool |-> [file |-> f, size |-> 0]]

\* One turn of build's loop: the next chunk is compressed, sealed, written to the
\* spool and entered in the chunk table; its layer may be due.
StoreChunk(p) ==
    LET r       == run[p]
        c       == r.cfg
        unit    == c.source[r.at + 1]
        plain   == <<r.params, unit>>
        payload == [plain |-> plain, codec |-> c.codec, level |-> r.level]
        mode    == IF c.dedup THEN "convergent" ELSE "random"
        blob    == Seal(r.n, r.key, mode, c.codec, "data", r.at, payload)
        stored  == IF c.encrypt THEN blob ELSE payload
        disk    == CreateSpool(p)
        spool   == [disk.spool EXCEPT !.size = @ + 1]
        next    == [r EXCEPT !.at = @ + 1, !.spool = spool,
                             !.rows = Append(@, [ps |-> plain, ss |-> stored, p |-> None])]
    IN  /\ pc[p] = "store" /\ r.at < Len(c.source)
        /\ Disk(disk.names, [run EXCEPT ![p] = next],
                [disk.bytes EXCEPT ![spool.file] = WriteAt(@, disk.spool.size, stored)])
        /\ sealed' = IF c.encrypt THEN sealed \cup {blob} ELSE sealed
        /\ pc' = [pc EXCEPT ![p] = IF next.at = Len(c.source) \/ shouldRollLayer(next, unit)
                                   THEN "roll" ELSE "store"]
        /\ UNCHANGED <<started, now, repoVars, packed, results, faults>>

(* Mutant: the rows of the earlier layers are renamed as well.             *)
RollDigestRenames(p) ==
    LET r      == run[p]
        digest == bytes[r.spool.file]
    IN  /\ pc[p] = "roll" /\ Len(r.layers) < MaxDataLayers
        /\ Step(p, [r EXCEPT !.digest = digest,
                             !.rows = [i \in DOMAIN @ |->
                                         [@[i] EXCEPT !.p = dataBlobPath(Len(r.layers), digest)]]],
                "pack")
        /\ UNCHANGED <<started, now, repoVars, diskVars, sealed, results, faults>>

\* rollLayer, first half: the digest of the open spool file, from its start to
\* its end, names the data file in the rows of this layer.
RollDigest(p) ==
    LET r      == run[p]
        digest == bytes[r.spool.file]
        from   == IF r.layers = <<>> THEN 0 ELSE Last(r.layers).to + 1
        path   == dataBlobPath(Len(r.layers), digest)
    IN  /\ pc[p] = "roll" /\ Len(r.layers) < MaxDataLayers
        /\ Step(p, [r EXCEPT !.digest = digest,
                             !.rows = [i \in DOMAIN @ |->
                                         IF i > from THEN [@[i] EXCEPT !.p = path] ELSE @[i]]],
                "pack")
        /\ UNCHANGED <<started, now, repoVars, diskVars, sealed, results, faults>>

\* rollLayer, second half: NewFileLayer opens the spool again by name and packs
\* exactly its size, then the spool goes.
RollPack(p) ==
    LET r       == run[p]
        path    == SpoolPath(p)
        content == IF path \in DOMAIN names THEN bytes[names[path]] ELSE <<>>
        layer   == [path |-> r.rows[Len(r.rows)].p, digest |-> r.digest, content |-> content,
                    from |-> IF r.layers = <<>> THEN 0 ELSE Last(r.layers).to + 1,
                    to |-> r.at - 1]
        next    == BoundaryAfterRoll([r EXCEPT !.layers = Append(@, layer), !.spool = None,
                                               !.digest = None])
    IN  /\ pc[p] = "pack" /\ Len(content) = r.spool.size
        /\ packed' = packed \cup {<<r.n, Len(r.layers)>>}
        /\ Disk(Without(names, path), [run EXCEPT ![p] = next], bytes)
        /\ pc' = [pc EXCEPT ![p] = IF r.at = Len(r.cfg.source) THEN "finalize" ELSE "store"]
        /\ UNCHANGED <<started, now, repoVars, sealed, results, faults>>

\* rollLayer fails: at the layer limit, which leaves the spool, as a failing Close of
\* it does; in the digest or the packing, which must fail when the spool's name is gone
\* or leads to a file of another size, and then whatever has that name is removed.
RollFails(p) ==
    LET r       == run[p]
        path    == SpoolPath(p)
        full    == pc[p] = "roll" /\ Len(r.layers) >= MaxDataLayers
        lost    == /\ pc[p] = "pack"
                   /\ path \in DOMAIN names => Len(bytes[names[path]]) # r.spool.size
        left    == IF pc[p] = "roll" THEN {names} ELSE {}
        removed == IF full THEN {} ELSE {Without(names, path)}
    IN  /\ pc[p] \in {"roll", "pack"}
        /\ faults' = IF full \/ lost THEN faults ELSE faults + 1
        /\ full \/ lost \/ faults < MaxFaults
        /\ \E ns \in left \cup removed : Disk(ns, [run EXCEPT ![p] = None], bytes)
        /\ pc' = [pc EXCEPT ![p] = "idle"]
        /\ results' = [results EXCEPT ![r.n] = "err"]
        /\ UNCHANGED <<started, now, repoVars, packed, sealed>>

\* finalize: the sealed index and private metadata, then the manifest.
Finalize(p) ==
    LET r    == run[p]
        c    == r.cfg
        mode == IF c.dedup THEN "convergent" ELSE "random"
        meta(role, what) == Seal(r.n, r.key, mode, "zstd", role, 0,
                                 [plain |-> what, codec |-> "zstd", level |-> 0])
    IN  /\ pc[p] = "finalize"
        /\ sealed' = IF c.encrypt
                     THEN sealed \cup {meta("index", c.source), meta("private", <<r.n, r.rows>>)}
                     ELSE sealed
        /\ Step(p, [r EXCEPT !.final = TRUE], "push")
        /\ UNCHANGED <<started, now, repoVars, diskVars, results, faults>>

\* buildImages: the image of a run, with its key file.
Image(r) ==
    [created |-> r.created, codec |-> r.cfg.codec, level |-> r.level, params |-> r.params,
     key |-> r.key, pass |-> IF r.cfg.encrypt THEN r.cfg.pass ELSE None,
     rows |-> r.rows, layers |-> r.layers, source |-> r.cfg.source]

\* pushRegistry, the blobs: one the registry has already is not sent again.
PushLayer(p) ==
    LET r    == run[p]
        blob == OciLayer(r.layers[r.pushed + 1])
    IN  /\ pc[p] = "push" /\ r.cfg.output = "registry" /\ r.pushed < Len(r.layers)
        /\ blobs' = blobs \cup {blob}
        /\ Step(p, [r EXCEPT !.pushed = @ + 1], "push")
        /\ UNCHANGED <<started, now, tags, files, diskVars, sealed, results, faults>>

\* pushRegistry, the manifests: the tag names the image, which quick verification
\* reads back inside the push.
Publish(p) ==
    LET r == run[p]
    IN  /\ pc[p] = "push" /\ r.cfg.output = "registry" /\ r.pushed = Len(r.layers)
        /\ tags' = [tags EXCEPT ![r.cfg.tag] = Image(r)]
        /\ IF r.cfg.verify = "full"
           THEN Step(p, r, "verify") /\ UNCHANGED <<diskVars, results>>
           ELSE Return(p, "ok")
        /\ UNCHANGED <<started, now, blobs, files, sealed, faults>>

\* VerifyStored: every layer is one pass over its chunks, against the blob's
\* digest and the chunk table.
LayerVerifies(image, layer) ==
    /\ layer.content = [i \in 1..(layer.to - layer.from + 1) |-> image.rows[layer.from + i].ss]
    /\ layer.digest = layer.content
    /\ layer.path = image.rows[layer.from + 1].p

\* verifyPushedFull opens the image again under the tag.
VerifyFull(p) ==
    LET image == tags[run[p].cfg.tag]
    IN  /\ pc[p] = "verify"
        /\ Return(p, IF \A k \in DOMAIN image.layers : LayerVerifies(image, image.layers[k])
                     THEN "ok" ELSE "err")
        /\ UNCHANGED <<started, now, repoVars, sealed, faults>>

\* pushLocal: the other outputs write the image outside a registry.
WriteOutput(p) ==
    /\ pc[p] = "push" /\ run[p].cfg.output # "registry"
    /\ files' = files \cup {Image(run[p])}
    /\ Return(p, "ok")
    /\ UNCHANGED <<started, now, tags, blobs, sealed, faults>>

\* Any call of a run may fail, and Run returns the error.
Fail(p) ==
    /\ pc[p] \in {"plan", "store", "finalize", "push", "verify"}
    /\ faults < MaxFaults /\ faults' = faults + 1
    /\ Return(p, "err")
    /\ UNCHANGED <<started, now, repoVars, sealed>>

\* The process dies: nothing it had in the temporary directory is removed.
Crash(p) ==
    /\ pc[p] # "idle"
    /\ faults < MaxFaults /\ faults' = faults + 1
    /\ pc' = [pc EXCEPT ![p] = "idle"]
    /\ results' = [results EXCEPT ![run[p].n] = "killed"]
    /\ Disk(names, [run EXCEPT ![p] = None], bytes)
    /\ UNCHANGED <<started, now, repoVars, packed, sealed>>

Run(p) ==
    \/ Begin(p) \/ ListTags(p) \/ ReadTag(p) \/ Plan(p)
    \/ StoreChunk(p) \/ RollDigest(p) \/ RollPack(p) \/ RollFails(p) \/ Finalize(p)
    \/ PushLayer(p) \/ Publish(p) \/ VerifyFull(p) \/ WriteOutput(p)
    \/ Fail(p) \/ Crash(p)

Next == \E p \in Procs : Run(p)
Spec == Init /\ [][Next]_vars

-----------------------------------------------------------------------------
(* Every image the repository or an output holds is described by its own   *)
(* metadata: its layers hold, in order and without a gap, the stored       *)
(* chunks the table lists, under the digests and names it gives, and those *)
(* are the chunks of the source, in no more layers than an image may have, *)
(* whatever the estimate was.  Runs overlap, crash and leave their spools  *)
(* behind (newSpool, rollLayer, PlanLayers, shouldRollLayer).              *)
PublishedIsDescribed ==
    \A image \in ({tags[t] : t \in DOMAIN tags} \ {None}) \cup files :
        /\ \A k \in DOMAIN image.layers :
              /\ LayerVerifies(image, image.layers[k])
              /\ image.layers[k].from = IF k = 1 THEN 0 ELSE image.layers[k - 1].to + 1
        /\ Last(image.layers).to + 1 = Len(image.rows)
        /\ Len(image.layers) <= MaxDataLayers
        /\ [i \in DOMAIN image.rows |-> image.rows[i].ps[2]] = image.source

(* A run that returns success, whatever its output and its verification,   *)
(* has left no spool and no layer file in the temporary directory          *)
(* (rollLayer, cleanup).                                                   *)
SuccessLeavesNothing ==
    \A n \in DOMAIN results : results[n] = "ok" =>
        /\ \A f \in packed : f[1] # n
        /\ \A path \in DOMAIN names : names[path][1] # n

(* No key seals under two envelope versions or two nonce modes, and no two *)
(* different messages, or one message under two headers, are sealed under  *)
(* one key and nonce: whatever level, codec or position a chunk has in     *)
(* runs that share a key (convergentNonce, ReusableFor, reuseDedupKey).    *)
SealsAreSafe ==
    \A s, t \in sealed :
        s.key = t.key =>
            /\ s.aad.version = t.aad.version /\ s.aad.mode = t.aad.mode
            /\ s.nonce = t.nonce => s = t

(* A run that seals with the key, the codec, the level and the parameters  *)
(* of its base, asked for or inherited, and meets the chunks of one of the *)
(* base's layers in a layer of its own, at whatever position, has that     *)
(* layer in the registry already (findDedupBase, resolveLevel, AAD,        *)
(* dataBlobPath).                                                          *)
UnchangedIsSkipped ==
    \A p \in Procs :
        LET r == run[p]
            Plains(rows, layer) == [i \in 1..(layer.to - layer.from + 1) |-> rows[layer.from + i].ps]
        IN  r # None /\ pc[p] = "push" /\ r.base # None
            /\ r.cfg.dedup /\ r.key = r.base.key /\ (r.cfg.encrypt <=> r.base.pass # None)
            /\ r.cfg.codec = r.base.codec /\ r.cfg.level \in {0, r.base.level} =>
            \A k \in DOMAIN r.layers, j \in DOMAIN r.base.layers :
                Plains(r.rows, r.layers[k]) = Plains(r.base.rows, r.base.layers[j])
                    => OciLayer(r.layers[k]) \in blobs
=============================================================================
