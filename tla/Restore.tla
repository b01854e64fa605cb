------------------------------- MODULE Restore -------------------------------
(***************************************************************************)
(* Reading a backup back: restore to a tar file, verify and list           *)
(* (pkg/recovery, pkg/restore, pkg/index, internal/cli/restore.go and      *)
(* read_commands.go), several commands sharing the layer cache.            *)
(*                                                                         *)
(* The plaintext is a tar of Total blocks of 512 bytes: the records of the *)
(* entries, each from its TarOffset to the next one's, then the two-block  *)
(* trailer.  It is cut into chunks regardless of records, and consecutive  *)
(* chunks share a data layer.  A block is the position it was archived at, *)
(* Zero for a trailer block and Junk for bytes the archive never held.     *)
(*                                                                         *)
(* A published chunk may be damaged: "broken" bytes do not open, do not    *)
(* decompress or have the wrong size, "altered" ones decompress to the     *)
(* right number of wrong bytes.                                            *)
(***************************************************************************)
EXTENDS LayerCache

CONSTANTS
    Plain,      \* Chunk.Pb: blocks of plaintext of each chunk
    LayerOf,    \* the layer each chunk lies in
    Entries,    \* Index.Entries: [offset, parents, link], entries by number
    Commands,   \* the commands that may run: [Procs -> options], a set
    NoLink

Chunks == DOMAIN Plain
Archived == DOMAIN Entries

VARIABLES
    opts,       \* the command line of each process
    encrypted,  \* Manifest.Encryption.Enabled
    metadata,   \* "ok", or what of the metadata does not read or belong
    damage,     \* the state of each published chunk
    pc,         \* where the command is
    ranges,     \* the ranges of the stream to write
    span,       \* the one being walked, a position in ranges
    pass,       \* of a partial recovery: 1 proves the range loads, 2 writes it
    off,        \* the next block of the range, or the chunk being verified
    memo,       \* cacheIndex: the chunk held in memory, or NoChunk
    bad,        \* chunks that failed to load
    skipped,    \* entries dropped
    out,        \* the blocks written to the tar
    file,       \* the output path: "absent", "old" or "new"
    result      \* what the command exits with

readVars == <<opts, encrypted, metadata, damage, pc, ranges, span, pass, off,
              memo, bad, skipped, out, file, result>>
vars == <<cacheVars, readVars>>

NoChunk == 0
Zero == -1
Junk == -2

-----------------------------------------------------------------------------
\* computeLayout: prefix[i] blocks precede the end of chunk i.
prefix[i \in 0..Len(Plain)] == IF i = 0 THEN 0 ELSE prefix[i - 1] + Plain[i]
Total == prefix[Len(Plain)]

\* sort.Search over the prefix sums: the chunk that covers a block.
ChunkAt == [o \in 0 .. Total - 1 |-> Min({i \in Chunks : prefix[i] > o})]

ContentEnd == IF Total >= 2 THEN Total - 2 ELSE Total
EntryEnd(i) == IF i < Len(Entries) THEN Entries[i + 1].offset ELSE ContentEnd
ChunksOf(i) == {ChunkAt[o] : o \in Entries[i].offset .. EntryEnd(i) - 1}

\* The backup as it was made: a tar of the entries, from its first block to the two of
\* the trailer, whose offsets grow (validateEntries); a command selects entries of it.
ASSUME RestoreAssumption ==
    /\ Plain \in Seq(Nat \ {0}) /\ LayerOf \in [Chunks -> Layers]
    /\ Entries \in Seq([offset : Nat, parents : SUBSET Archived,
                        link : Archived \cup {NoLink}])
    /\ Total >= 2
    /\ IF Entries = <<>> THEN ContentEnd = 0 ELSE Entries[1].offset = 0
    /\ \A i \in Archived : Entries[i].offset < EntryEnd(i)
    /\ \A command \in Commands, p \in Procs : command[p].selected \subseteq Archived

\* selectionSet: the selected entries and their parent directories, then the
\* targets of the hard links among them, until nothing is added.
SelectionSet(sel) ==
    LET with == sel \cup UNION {Entries[i].parents : i \in sel}
        grown[n \in 0 .. Len(Entries)] ==
            IF n = 0 THEN with
            ELSE grown[n - 1] \cup {Entries[i].link : i \in
                     {j \in grown[n - 1] : Entries[j].link # NoLink}}
    IN  grown[Len(Entries)]

Filtered(p) == opts[p].selected # {}
Wanted(p) == IF Filtered(p) THEN SelectionSet(opts[p].selected) ELSE Archived
RangeOf(i) == [start |-> Entries[i].offset, end |-> EntryEnd(i)]

\* The loops over the entries of the index, which pass over those not in S.
InOrder(S) ==
    LET taken[n \in 0 .. Len(Entries)] ==
            IF n = 0 THEN <<>>
            ELSE IF n \in S THEN Append(taken[n - 1], n) ELSE taken[n - 1]
    IN  taken[Len(Entries)]

\* StreamSelectedTar merges ranges that touch.
Extended(acc, i) ==
    IF acc # <<>> /\ acc[Len(acc)].end = Entries[i].offset
    THEN [acc EXCEPT ![Len(acc)] = [start |-> @.start, end |-> EntryEnd(i)]]
    ELSE Append(acc, RangeOf(i))

Merged(S) ==
    LET merged[n \in 0 .. Len(Entries)] ==
            IF n = 0 THEN <<>>
            ELSE IF n \in S THEN Extended(merged[n - 1], n) ELSE merged[n - 1]
    IN  merged[Len(Entries)]

\* streamTarPartial walks one range per entry.
PerEntry(S) == [n \in DOMAIN InOrder(S) |-> RangeOf(InOrder(S)[n])]

\* StreamTar, StreamSelectedTar and the two partial variants.
Spans(p) ==
    CASE opts[p].keepGoing -> PerEntry(Wanted(p))
      [] ~opts[p].keepGoing /\ Filtered(p) -> Merged(Wanted(p))
      [] OTHER -> << [start |-> 0, end |-> Total] >>

FreshTrailer(p) == opts[p].keepGoing \/ Filtered(p)

\* Mutant: --no-verify applies to every backup.
MustVerifyAsked(p) == opts[p].verify

\* mustVerify: --no-verify applies to unencrypted backups only.
MustVerify(p) == opts[p].verify \/ encrypted

\* What the archive holds at a block, and what an undetected alteration shows.
Content(o) == IF o >= ContentEnd THEN Zero ELSE o
Seen(o) == IF damage[ChunkAt[o]] = "altered" THEN Junk ELSE Content(o)

fixed == <<opts, encrypted, metadata, damage>>
walking == <<ranges, span, pass, off, memo, bad, skipped>>

RestoreInit ==
    /\ CacheInit
    /\ opts \in Commands
    /\ encrypted \in BOOLEAN
    /\ metadata \in {"ok", "image", "layer", "table", "private", "binding", "index"}
    /\ damage \in [Chunks -> {"ok", "broken", "altered"}]
    /\ pc = [p \in Procs |-> "off"]
    /\ ranges = [p \in Procs |-> <<>>] /\ span = [p \in Procs |-> 1]
    /\ pass = [p \in Procs |-> 1]
    /\ off = [p \in Procs |-> 0] /\ memo = [p \in Procs |-> NoChunk]
    /\ bad = [p \in Procs |-> {}] /\ skipped = [p \in Procs |-> {}]
    /\ out = [p \in Procs |-> <<>>]
    /\ file = [p \in Procs |-> IF opts[p].old THEN "old" ELSE "absent"]
    /\ result = [p \in Procs |-> "none"]

-----------------------------------------------------------------------------
Goto(p, where) == pc' = [pc EXCEPT ![p] = where]

\* The command returns: Backup.Close releases the private layer files.
Exit(p, how) ==
    /\ Goto(p, "done")
    /\ result' = [result EXCEPT ![p] = how]
    /\ CloseSource(p)

\* restoreTar removes the tar of a stream that failed.
Abort(p) ==
    /\ Exit(p, "failed")
    /\ file' = [file EXCEPT ![p] = IF pc[p] \in {"walk", "load"} /\ opts[p].cmd = "restore"
                                   THEN "absent" ELSE @]

\* FromRegistry, FromOCILayout and FromDaemon: the reference leads to an image
\* of the platform, with the digest the user expects.
ImageOpens == metadata # "image"

\* loadMeta: the image has a metadata layer with the files of a backup.
MetaReads == metadata # "layer"

\* ReadManifest and ReadChunkTable: both parse, have a schema this version knows
\* and belong to each other (ValidateChunkTable).
TableReads == metadata # "table"

\* OpenBlobSource: all of that before anything else is believed.  It is the whole of
\* verify --quick, which returns before it unlocks or reads anything more.
OpenBackup(p) ==
    /\ pc[p] = "off" /\ opts[p].cmd # "none"
    /\ IF ImageOpens /\ MetaReads /\ TableReads
       THEN IF opts[p].cmd = "quick" THEN Exit(p, "ok")
            ELSE Goto(p, "unlock") /\ UNCHANGED <<recent, result>>
       ELSE Exit(p, "failed")
    /\ UNCHANGED <<cached, age, tmp, caching, task, faults, unpruned>>
    /\ UNCHANGED <<fixed, walking, out, file>>

\* ReadPrivate opens under the key, and MergePrivate fits the manifest and table.
PrivateReads == metadata # "private"

\* Binding.Check: the sealed metadata names this manifest and this table.
BindingHolds == metadata # "binding"

\* unlockBackup: a credential given for an unencrypted backup is refused
\* (requireEncryption); an encrypted one needs the right credential.
Unlocks(p) ==
    IF encrypted THEN opts[p].key = "right" /\ PrivateReads /\ BindingHolds
    ELSE opts[p].key = "none" \/ opts[p].allowUnencrypted

NeedsIndex(p) == opts[p].cmd = "list" \/ (opts[p].cmd = "restore" /\ FreshTrailer(p))

Unlock(p) ==
    /\ pc[p] = "unlock"
    /\ \/ /\ Unlocks(p)
          /\ Goto(p, CASE NeedsIndex(p) -> "index"
                       [] ~NeedsIndex(p) /\ opts[p].cmd = "restore" -> "create"
                       [] OTHER -> "walk")
          /\ UNCHANGED <<recent, result>>
       \/ ~Unlocks(p) /\ Exit(p, "failed")
    /\ UNCHANGED <<cached, age, tmp, caching, task, faults, unpruned>>
    /\ UNCHANGED <<fixed, walking, out, file>>

\* index.ReadIndex: opens under the key, parses, and its entries are valid.
IndexReads == metadata # "index"

\* Backup.Index, then the filters; ls, find and inspect print it and are done.
\* The last step of verify reads it too.
ReadIndex(p) ==
    /\ pc[p] = "index"
    /\ \/ ~IndexReads /\ Exit(p, "failed")
       \/ /\ IndexReads /\ opts[p].cmd = "restore"
          /\ Goto(p, "create") /\ UNCHANGED <<recent, result>>
       \/ /\ IndexReads /\ opts[p].cmd # "restore"
          /\ Exit(p, IF bad[p] = {} THEN "ok" ELSE "failed")
    /\ UNCHANGED <<cached, age, tmp, caching, task, faults, unpruned>>
    /\ UNCHANGED <<fixed, walking, out, file>>

\* Mutant: --overwrite is not passed on to the open.
CreateTarNew(p) ==
    /\ pc[p] = "create"
    /\ IF file[p] = "old"
       THEN Exit(p, "failed") /\ UNCHANGED <<file, ranges, off>>
       ELSE /\ file' = [file EXCEPT ![p] = "new"]
            /\ ranges' = [ranges EXCEPT ![p] = Spans(p)]
            /\ off' = [off EXCEPT ![p] = Spans(p)[1].start]
            /\ Goto(p, "walk") /\ UNCHANGED <<recent, result>>
    /\ UNCHANGED <<cached, age, tmp, caching, task, faults, unpruned>>
    /\ UNCHANGED <<fixed, span, pass, memo, bad, skipped, out>>

\* restoreTar: an existing path is truncated with --overwrite and refused
\* without (O_EXCL).
CreateTar(p) ==
    /\ pc[p] = "create"
    /\ IF file[p] = "old" /\ ~opts[p].overwrite
       THEN Exit(p, "failed") /\ UNCHANGED <<file, ranges, off>>
       ELSE /\ file' = [file EXCEPT ![p] = "new"]
            /\ ranges' = [ranges EXCEPT ![p] = Spans(p)]
            /\ off' = [off EXCEPT ![p] = Spans(p)[1].start]
            /\ Goto(p, "walk") /\ UNCHANGED <<recent, result>>
    /\ UNCHANGED <<cached, age, tmp, caching, task, faults, unpruned>>
    /\ UNCHANGED <<fixed, span, pass, memo, bad, skipped, out>>

-----------------------------------------------------------------------------
\* The streams: walk the ranges chunk by chunk.
Streaming(p) == pc[p] = "walk" /\ opts[p].cmd = "restore"
Current(p) == ranges[p][span[p]]
InSpan(p) == span[p] =< Len(ranges[p]) /\ off[p] < Current(p).end

\* load asks the source for a chunk that is not in memory.
Load(p) ==
    /\ Streaming(p) /\ InSpan(p)
    /\ LET i == ChunkAt[off[p]] IN
       /\ i # memo[p] /\ i \notin bad[p]
       /\ Materialize(p, LayerOf[i])
    /\ memo' = [memo EXCEPT ![p] = NoChunk]
    /\ Goto(p, "load")
    /\ UNCHANGED <<fixed, ranges, span, pass, off, bad, skipped, out, file, result>>

\* Mutant: a partial recovery drops the entry in either pass.
FailsSkips(p) ==
    IF opts[p].keepGoing
    THEN /\ skipped' = [skipped EXCEPT ![p] = @ \cup {InOrder(Wanted(p))[span[p]]}]
         /\ span' = [span EXCEPT ![p] = @ + 1]
         /\ off' = [off EXCEPT ![p] = IF span[p] < Len(ranges[p])
                                      THEN ranges[p][span[p] + 1].start ELSE @]
         /\ pass' = [pass EXCEPT ![p] = 1]
         /\ Goto(p, "walk")
         /\ UNCHANGED <<file, recent, result>>
    ELSE Abort(p) /\ UNCHANGED <<skipped, span, off, pass>>

\* The range does not load.  The plain streams fail; a partial recovery drops
\* the entry while it is only proving it, and fails once it is writing it.
Fails(p) ==
    IF opts[p].keepGoing /\ pass[p] = 1
    THEN /\ skipped' = [skipped EXCEPT ![p] = @ \cup {InOrder(Wanted(p))[span[p]]}]
         /\ span' = [span EXCEPT ![p] = @ + 1]
         /\ off' = [off EXCEPT ![p] = IF span[p] < Len(ranges[p])
                                      THEN ranges[p][span[p] + 1].start ELSE @]
         /\ Goto(p, "walk")
         /\ UNCHANGED <<file, recent, result, pass>>
    ELSE Abort(p) /\ UNCHANGED <<skipped, span, off, pass>>

\* A chunk that already failed is not read again.
KnownBad(p) ==
    /\ Streaming(p) /\ InSpan(p)
    /\ ChunkAt[off[p]] \in bad[p]
    /\ Fails(p)
    /\ UNCHANGED <<cached, age, tmp, caching, task, faults, unpruned>>
    /\ UNCHANGED <<fixed, ranges, memo, bad, out>>

\* Opener.Open: the envelope parses and, under a key, authenticates; then the
\* payload decompresses to the size the table gives.
Unseals(i) == damage[i] # "broken"

\* The chunk's bytes arrive and are opened, decompressed, measured and, when
\* they must be, verified against the recorded digest: only then are they used.
Opens(p, i) == Unseals(i) /\ (damage[i] = "altered" => ~MustVerify(p))

Loaded(p) ==
    /\ pc[p] = "load" /\ opts[p].cmd = "restore"
    /\ task[p].at = "ready" /\ Opens(p, ChunkAt[off[p]])
    /\ memo' = [memo EXCEPT ![p] = ChunkAt[off[p]]]
    /\ BlobReturned(p)
    /\ Goto(p, "walk")
    /\ UNCHANGED <<cached, age, tmp, recent, caching, faults, unpruned>>
    /\ UNCHANGED <<fixed, ranges, span, pass, off, bad, skipped, out, file, result>>

\* An unverified full stream writes while it decompresses, so a chunk that
\* breaks half way has already left some of its bytes.
LoadFailed(p) ==
    LET i == ChunkAt[off[p]] IN
    /\ pc[p] = "load" /\ opts[p].cmd = "restore"
    /\ task[p].at = "failed" \/ (task[p].at = "ready" /\ ~Opens(p, i))
    /\ bad' = [bad EXCEPT ![p] = @ \cup {i}]
    /\ \E n \in 0 .. (IF task[p].at = "ready" /\ ~FreshTrailer(p) /\ ~MustVerify(p)
                      THEN Plain[i] - 1 ELSE 0) :
          out' = [out EXCEPT ![p] = @ \o [k \in 1..n |-> Junk]]
    /\ BlobReturned(p)
    /\ Fails(p)
    /\ UNCHANGED <<cached, age, tmp, caching, faults, unpruned>>
    /\ UNCHANGED <<fixed, ranges, memo>>

\* The part of the range that lies in the loaded chunk: proved by pass 1,
\* written otherwise.
Writes(p) == ~opts[p].keepGoing \/ pass[p] = 2

Consume(p) ==
    LET i == ChunkAt[off[p]]
        to == Min({prefix[i], Current(p).end}) IN
    /\ Streaming(p) /\ InSpan(p)
    /\ i = memo[p]
    /\ out' = [out EXCEPT ![p] = IF Writes(p)
                                 THEN @ \o [k \in 1 .. to - off[p] |-> Seen(off[p] + k - 1)]
                                 ELSE @]
    /\ off' = [off EXCEPT ![p] = to]
    /\ UNCHANGED <<cacheVars, fixed, ranges, pc, span, pass, memo, bad, skipped, file, result>>

\* The end of a range: pass 2 over it, or the next range.
NextSpan(p) ==
    /\ Streaming(p)
    /\ span[p] =< Len(ranges[p]) /\ off[p] = Current(p).end
    /\ IF ~Writes(p)
       THEN /\ pass' = [pass EXCEPT ![p] = 2]
            /\ off' = [off EXCEPT ![p] = Current(p).start]
            /\ UNCHANGED span
       ELSE /\ pass' = [pass EXCEPT ![p] = 1]
            /\ span' = [span EXCEPT ![p] = @ + 1]
            /\ off' = [off EXCEPT ![p] = IF span[p] < Len(ranges[p])
                                         THEN ranges[p][span[p] + 1].start ELSE @]
    /\ UNCHANGED <<cacheVars, fixed, ranges, pc, memo, bad, skipped, out, file, result>>

\* A fresh trailer ends every tar that is not the whole stream; the command
\* fails when entries were dropped, and leaves the tar it wrote.
EndStream(p) ==
    /\ Streaming(p) /\ span[p] > Len(ranges[p])
    /\ out' = [out EXCEPT ![p] = IF FreshTrailer(p) THEN @ \o <<Zero, Zero>> ELSE @]
    /\ Exit(p, IF skipped[p] = {} THEN "ok" ELSE "failed")
    /\ UNCHANGED <<cached, age, tmp, caching, task, faults, unpruned>>
    /\ UNCHANGED <<fixed, walking, file>>

\* The context is cancelled, or writing the tar fails.
Interrupted(p) ==
    /\ Streaming(p) /\ faults < MaxFaults
    /\ faults' = faults + 1
    /\ Abort(p)
    /\ UNCHANGED <<cached, age, tmp, caching, task, unpruned>>
    /\ UNCHANGED <<fixed, walking, out>>

-----------------------------------------------------------------------------
\* verify reads every chunk twice: the stored bytes against the stored digest,
\* then the plaintext against its size and digest; then the index.
Verifying(p) == opts[p].cmd = "verify"

VerifyLoad(p) ==
    /\ Verifying(p) /\ pc[p] = "walk" /\ off[p] < Len(Plain)
    /\ Materialize(p, LayerOf[off[p] + 1])
    /\ Goto(p, "load")
    /\ UNCHANGED <<fixed, walking, out, file, result>>

\* Mutant: with --continue a chunk that fails is reported and forgotten.
VerifyChunkForgets(p) ==
    LET i == off[p] + 1
        fails == task[p].at = "failed" \/ damage[i] # "ok" IN
    /\ Verifying(p) /\ pc[p] = "load" /\ task[p].at \in {"ready", "failed"}
    /\ BlobReturned(p)
    /\ bad' = [bad EXCEPT ![p] = IF fails /\ ~opts[p].keepGoing THEN @ \cup {i} ELSE @]
    /\ IF fails /\ ~opts[p].keepGoing
       THEN Exit(p, "failed") /\ UNCHANGED <<off, pass>>
       ELSE /\ Goto(p, "walk")
            /\ pass' = [pass EXCEPT ![p] = IF fails \/ @ = 2 THEN 1 ELSE 2]
            /\ off' = [off EXCEPT ![p] = IF fails \/ pass[p] = 2 THEN @ + 1 ELSE @]
            /\ UNCHANGED <<recent, result>>
    /\ UNCHANGED <<cached, age, tmp, caching, faults, unpruned>>
    /\ UNCHANGED <<fixed, ranges, span, memo, skipped, out, file>>

VerifyChunk(p) ==
    LET i == off[p] + 1
        fails == task[p].at = "failed" \/ damage[i] # "ok" IN
    /\ Verifying(p) /\ pc[p] = "load" /\ task[p].at \in {"ready", "failed"}
    /\ BlobReturned(p)
    /\ bad' = [bad EXCEPT ![p] = IF fails THEN @ \cup {i} ELSE @]
    /\ IF fails /\ ~opts[p].keepGoing
       THEN Exit(p, "failed") /\ UNCHANGED <<off, pass>>
       ELSE /\ Goto(p, "walk")
            /\ pass' = [pass EXCEPT ![p] = IF fails \/ @ = 2 THEN 1 ELSE 2]
            /\ off' = [off EXCEPT ![p] = IF fails \/ pass[p] = 2 THEN @ + 1 ELSE @]
            /\ UNCHANGED <<recent, result>>
    /\ UNCHANGED <<cached, age, tmp, caching, faults, unpruned>>
    /\ UNCHANGED <<fixed, ranges, span, memo, skipped, out, file>>

VerifyEnd(p) ==
    /\ Verifying(p) /\ pc[p] = "walk" /\ off[p] = Len(Plain)
    /\ Goto(p, "index")
    /\ UNCHANGED <<cacheVars, fixed, walking, out, file, result>>

-----------------------------------------------------------------------------
\* The process is killed: its temporary and private files stay, and so does the
\* tar it was writing.
Killed(p) ==
    /\ pc[p] \notin {"off", "done", "killed"}
    /\ Goto(p, "killed")
    /\ task' = [task EXCEPT ![p] = Idle]
    /\ unpruned' = (unpruned \/ Pruning(p))
    /\ UNCHANGED <<cached, age, tmp, recent, caching, faults>>
    /\ UNCHANGED <<fixed, walking, out, file, result>>

Command(p) ==
    \/ Unlock(p) \/ ReadIndex(p) \/ CreateTar(p)
    \/ Load(p) \/ KnownBad(p) \/ Loaded(p) \/ LoadFailed(p) \/ Consume(p)
    \/ NextSpan(p) \/ EndStream(p)
    \/ VerifyLoad(p) \/ VerifyChunk(p) \/ VerifyEnd(p)
    \/ pc[p] = "load" /\ CacheStep(p) /\ UNCHANGED readVars

RestoreNext == \E p \in Procs : OpenBackup(p) \/ Command(p) \/ Interrupted(p) \/ Killed(p)

RestoreSpec == RestoreInit /\ [][RestoreNext]_vars

-----------------------------------------------------------------------------
\* The blocks of the entries of S, in the archive's order, up to each block of it.
Selected(S) == UNION {Entries[i].offset .. EntryEnd(i) - 1 : i \in S}
Kept(S) ==
    LET kept[o \in 0 .. ContentEnd] ==
            IF o = 0 THEN <<>>
            ELSE IF o - 1 \in Selected(S) THEN Append(kept[o - 1], Content(o - 1))
                 ELSE kept[o - 1]
    IN  kept

\* The tar of a set of entries as the backup recorded them.
Tar(S) == Kept(S)[ContentEnd] \o <<Zero, Zero>>

(* A tar a finished restore leaves behind is exactly the archive's records *)
(* of the entries asked for, in order and whole, with a trailer, without   *)
(* those that touch a chunk which failed to load; none is dropped unless   *)
(* the exit code says so, and a restore that stops early leaves no tar.    *)
(* Blocks are compared when the digests were checked (not with --no-verify *)
(* on an unencrypted backup).                                              *)
KeptTarIsWhole ==
    \A p \in Procs :
        (pc[p] = "done" /\ file[p] = "new") =>
            /\ skipped[p] = {i \in Wanted(p) : ChunksOf(i) \cap bad[p] # {}}
            /\ (result[p] = "ok") <=> (skipped[p] = {})
            /\ Len(out[p]) = Len(Tar(Wanted(p) \ skipped[p]))
            /\ MustVerify(p) => out[p] = Tar(Wanted(p) \ skipped[p])

(* No byte that the backup does not vouch for reaches the tar, not even of *)
(* a restore that then fails: a chunk is verified before it is written     *)
(* (streamOneChunk, plainChunkBytes), on an encrypted backup whatever      *)
(* --no-verify says.                                                       *)
OnlyVerifiedBytes ==
    \A p \in Procs : (opts[p].verify \/ encrypted) => Junk \notin Range(out[p])

(* verify without --quick answers ok only for a backup every chunk of      *)
(* which restores.                                                         *)
VerifiedIsIntact ==
    \A p \in Procs : (Verifying(p) /\ result[p] = "ok") =>
        /\ metadata = "ok" \/ (metadata \in {"private", "binding"} /\ ~encrypted)
        /\ \A i \in Chunks : damage[i] = "ok"

(* What a command says of its work is true: restore of the tar it keeps    *)
(* (KeptTarIsWhole: the archive's records of the entries asked for, whole  *)
(* and in order, those dropped being the ones a damaged chunk touches) and *)
(* a full verify of the backup (VerifiedIsIntact).                         *)
SuccessIsTrue == KeptTarIsWhole /\ VerifiedIsIntact

(* An intact backup restores: a lone restore with the right credential and *)
(* no fault on its way never fails, whatever the cache held, whatever the  *)
(* selection and with or without a cache.                                  *)
IntactRestores ==
    \A p \in Procs :
        (/\ pc[p] = "done" /\ \A q \in Procs \ {p} : pc[q] = "off"
         /\ faults = 0 /\ metadata = "ok" /\ \A i \in Chunks : damage[i] = "ok"
         /\ Unlocks(p) /\ (opts[p].old => opts[p].overwrite)) => result[p] = "ok"

(* What the help text says of verify --quick (read_commands.go:207-208):   *)
(* that it "validates manifest, index and layer digests".  The code stops  *)
(* before the index.                                                       *)
QuickReadsIndex ==
    \A p \in Procs : (opts[p].cmd = "quick" /\ result[p] = "ok") => IndexReads

=============================================================================
