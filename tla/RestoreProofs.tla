---------------------------- MODULE RestoreProofs ----------------------------
(***************************************************************************)
(* What a restore, a verify and the layer cache promise, for every archive *)
(* and any number of commands at once: the walk keeps the invariant of     *)
(* RestoreSteps, and the theorems that follow from it.                     *)
(***************************************************************************)
EXTENDS RestoreSteps

\* A leaf that names no prover is left to Zenon; arithmetic and tuples go to the SMT solver.
USE ZenonT(30)

-----------------------------------------------------------------------------
(* The walk.                                                               *)

\* Where a walk is, it is among blocks of the archive.
LEMMA WalkTypes ==
  ASSUME Backup, NEW q \in Procs, ReadInv(q), Reading(q)
  PROVE  /\ ranges[q] = Spans(q) /\ Len(ranges[q]) \in Nat
         /\ span[q] \in 1 .. Len(ranges[q]) + 1 /\ pass[q] \in {1, 2}
         /\ Within(q) => /\ span[q] \in 1 .. Len(ranges[q])
                         /\ Current(q).start \in Nat /\ Current(q).end \in Nat /\ off[q] \in Nat
                         /\ Current(q).start < Current(q).end /\ Current(q).end <= Total
                         /\ Current(q).start <= off[q] /\ off[q] <= Current(q).end
                         /\ FreshTrailer(q) => Current(q).end <= ContentEnd
         /\ InSpan(q) => Within(q) /\ off[q] < Current(q).end /\ off[q] \in 0 .. Total - 1
<1>1. /\ ranges[q] = Spans(q) /\ span[q] \in 1 .. Len(ranges[q]) + 1 /\ pass[q] \in {1, 2}
      /\ Within(q) => off[q] \in Current(q).start .. Current(q).end
    BY ZenonT(30) DEF ReadInv, Placed
<1> DEFINE R == ranges[q]
           n == span[q]
<1>2. /\ Len(R) \in Nat
      /\ \A k \in 1..Len(R) :
              /\ R[k].start \in Nat /\ R[k].end \in Nat
              /\ R[k].start < R[k].end /\ R[k].end <= Total
              /\ FreshTrailer(q) => R[k].end <= ContentEnd
    BY <1>1, SpansTyped
<1>3. ASSUME Within(q)
      PROVE  /\ n \in 1 .. Len(R) /\ R[n].start \in Nat /\ R[n].end \in Nat /\ off[q] \in Nat
             /\ R[n].start < R[n].end /\ R[n].end <= Total
             /\ R[n].start <= off[q] /\ off[q] <= R[n].end
             /\ FreshTrailer(q) => R[n].end <= ContentEnd
  <2>1. n \in 1 .. Len(R)
      BY <1>1, <1>2, <1>3, SMTT(30) DEF Within
  <2>2. off[q] \in R[n].start .. R[n].end
      BY <1>1, <1>3 DEF Current
  <2>3. /\ R[n].start \in Nat /\ R[n].end \in Nat
        /\ R[n].start < R[n].end /\ R[n].end <= Total
        /\ FreshTrailer(q) => R[n].end <= ContentEnd
      BY <1>2, <2>1
  <2> HIDE DEF R, n
  <2> QED BY <2>1, <2>2, <2>3, SMTT(30)
<1>4. ASSUME InSpan(q) PROVE Within(q) /\ off[q] < Current(q).end /\ off[q] \in 0 .. Total - 1
  <2>1. Within(q) /\ off[q] < R[n].end
      BY <1>4 DEF InSpan, Within, Current
  <2>2. Total \in Nat
      BY Sizes
  <2> HIDE DEF R, n
  <2>3. off[q] \in 0 .. Total - 1
      BY <1>3, <2>1, <2>2, SMTT(30)
  <2> QED BY <2>1, <2>3 DEF Current, R, n
<1> QED BY <1>1, <1>2, <1>3, <1>4, ZenonT(30) DEF Current

\* The chunks of the entries a partial recovery has passed.
LEMMA PassedBehind ==
  ASSUME Backup, NEW q \in Procs, ReadInv(q), Reading(q), opts[q].keepGoing, Within(q),
         NEW i \in Passed(q)
  PROVE  /\ i \in Archived /\ LastChunk(i) \in Chunks
         /\ \A o \in Current(q).start .. Total - 1 : LastChunk(i) <= ChunkAt[o]
<1> DEFINE S == Wanted(q)
           R == ranges[q]
           n == span[q]
<1>1. /\ ranges[q] = Spans(q) /\ Len(R) \in Nat /\ n \in 1..Len(R)
      /\ Current(q).start \in Nat
    BY WalkTypes
<1>2. S \in SUBSET Archived /\ R = PerEntry(S)
    BY <1>1, WantedArchived, SpansCover
<1>3. Edge(R, n) = Current(q).start /\ n \in 1 .. Len(R) + 1
    BY <1>1, SMTT(30) DEF Edge, Current
<1>4. i \in Before(S, Edge(R, n))
    BY DEF Passed, Frontier
<1> HIDE DEF S, R, n
<1>5. i \in S /\ Entries[i].offset \in Nat /\ EntryEnd(i) \in Nat /\ EntryEnd(i) <= Edge(R, n)
    BY <1>2, <1>3, <1>4, BeforeEnds
<1>6. i \in Archived
    BY <1>2, <1>5
<1>7. LastChunk(i) \in Chunks
    BY <1>6, ChunksBounded
<1>8. Entries[i].offset < EntryEnd(i)
    BY <1>6, EntryTypes
<1>9. ASSUME NEW o \in Current(q).start .. Total - 1 PROVE LastChunk(i) <= ChunkAt[o]
  <2>1. /\ EntryEnd(i) - 1 \in 0 .. Total - 1 /\ o \in 0 .. Total - 1 /\ EntryEnd(i) - 1 <= o
      BY <1>1, <1>3, <1>5, <1>8, Sizes, SMTT(30)
  <2> QED BY <2>1, ChunksGrow DEF LastChunk
<1> QED BY <1>6, <1>7, <1>9

\* A step of the walk.
LEMMA WalkKeeps ==
  ASSUME NEW q \in Procs, ReadInv(q), opts[q].cmd = "restore", pc[q] \in {"create", "walk", "load"},
         UNCHANGED fixed, pc'[q] \in {"walk", "load"}, Placed(q)', Written(q)', Proved(q)', Clean(q)'
  PROVE  ReadInv(q)'
<1>1. /\ opts' = opts /\ metadata' = metadata /\ encrypted' = encrypted
      /\ Verifying(q)' = Verifying(q)
    BY FixedKeeps
<1>2. Fresh(q)' /\ Filed(q)' /\ Finished(q)'
    BY <1>1 DEF Fresh, Filed, Finished
<1>3. Opened(q)'
    BY <1>1 DEF ReadInv, Opened
<1>4. Verified(q)'
    BY <1>1 DEF Verified, Verifying
<1> QED BY <1>2, <1>3, <1>4, ZenonT(30) DEF ReadInv

\* A step that loads: nothing is written and the walk does not move.
LEMMA LoadingKeeps ==
  ASSUME NEW q \in Procs, ReadInv(q), Reading(q), pc'[q] \in {"walk", "load"},
         UNCHANGED <<fixed, ranges, span, pass, off, bad, skipped, out, file, result>>,
         Placed(q)', Proved(q)'
  PROVE  ReadInv(q)'
<1>1. /\ ranges' = ranges /\ span' = span /\ pass' = pass /\ off' = off /\ bad' = bad
      /\ skipped' = skipped /\ out' = out /\ opts' = opts
    BY FixedKeeps
<1>2. /\ Wanted(q)' = Wanted(q) /\ FreshTrailer(q)' = FreshTrailer(q)
      /\ MustVerify(q)' = MustVerify(q)
    BY FixedKeeps
<1>3. Clean(q)'
    BY <1>1, <1>2, ZenonT(30) DEF ReadInv, Clean
<1>4. /\ Within(q)' = Within(q) /\ Current(q)' = Current(q) /\ Writes(q)' = Writes(q)
    BY <1>1, ZenonT(30) DEF Within, Current, Writes
<1>5. Written(q)'
  <2>1. Position(q)' = Position(q)
      BY <1>1, <1>4, ZenonT(30) DEF Position
  <2> QED BY <1>1, <1>2, <1>4, <2>1, ZenonT(30) DEF ReadInv, Written, Shows
<1> QED BY <1>3, <1>5, WalkKeeps DEF Reading

\* The walk asks for a chunk it does not have in memory.
LEMMA LoadKeeps ==
  ASSUME Tables, Backup, NEW q \in Procs, ReadInv(q), Load(q)
  PROVE  ReadInv(q)'
<1>1. /\ pc[q] = "walk" /\ Reading(q) /\ InSpan(q)
      /\ ChunkAt[off[q]] # memo[q] /\ ChunkAt[off[q]] \notin bad[q]
      /\ UNCHANGED <<fixed, ranges, span, pass, off, bad, skipped, out, file, result>>
    BY ZenonT(30) DEF Load, Streaming, Reading
<1>2. pc'[q] = "load" /\ memo'[q] = NoChunk
    BY DEF Load, Goto, Tables
<1>3. /\ Wanted(q)' = Wanted(q) /\ Spans(q)' = Spans(q) /\ MustVerify(q)' = MustVerify(q)
      /\ opts' = opts /\ damage' = damage
    BY <1>1, FixedKeeps
<1>4. /\ Within(q)' = Within(q) /\ Current(q)' = Current(q) /\ InSpan(q)' = InSpan(q)
      /\ Passed(q)' = Passed(q)
    BY <1>1, <1>3, ZenonT(30) DEF Within, Current, InSpan, Passed, Frontier
<1>5. Placed(q)'
    BY <1>1, <1>2, <1>3, <1>4, ZenonT(30) DEF ReadInv, Placed
<1>6. Proved(q)'
  <2>1. SUFFICES ASSUME opts[q].keepGoing PROVE Proved(q)'
      BY <1>3 DEF Proved
  <2>2. skipped[q] = {i \in Passed(q) : ChunksOf(i) \cap bad[q] # {}}
      BY <1>1, <2>1, ZenonT(30) DEF ReadInv, Proved
  <2>3. (skipped[q] = {i \in Passed(q) : ChunksOf(i) \cap bad[q] # {}})'
      BY <1>1, <1>4, <2>2, ZenonT(30)
  <2>4. Within(q) /\ off[q] < Current(q).end /\ off[q] \in 0 .. Total - 1
        /\ Current(q).start \in Nat /\ Current(q).start <= off[q]
        /\ Current(q).end \in Nat
      BY <1>1, WalkTypes
  <2>5. ASSUME pass[q] = 1, NEW i \in Passed(q) \ skipped[q]
        PROVE  LastChunk(i) < ChunkAt[off[q]]
    <3>1. LastChunk(i) < ChunkAt[off[q]] \/ LastChunk(i) = memo[q]
        BY <1>1, <2>1, <2>4, <2>5, ZenonT(30) DEF ReadInv, Proved
    <3>2. LastChunk(i) \in Chunks /\ LastChunk(i) <= ChunkAt[off[q]]
      <4>1. off[q] \in Current(q).start .. Total - 1
          BY <2>4, SMTT(30)
      <4> QED BY <1>1, <2>1, <2>4, <4>1, PassedBehind
    <3>3. Chunks = 1 .. Len(Plain) /\ ChunkAt[off[q]] \in Chunks
        BY <2>4, Sizes, ChunkCovers
    <3> QED BY <1>1, <3>1, <3>2, <3>3, SMTT(30)
  <2>6. ASSUME pass[q] = 1, NEW o \in Current(q).start .. off[q] - 1
        PROVE  ChunkAt[o] \notin bad[q]
      BY <1>1, <2>1, <2>4, <2>6, ZenonT(30) DEF ReadInv, Proved
  <2>7. ASSUME pass[q] = 2, NEW o \in Current(q).start .. Current(q).end - 1
        PROVE  ChunkAt[o] \notin bad[q]
      BY <1>1, <2>1, <2>4, <2>7, ZenonT(30) DEF ReadInv, Proved
  <2>8. off[q] # Current(q).end
      BY <2>4, SMTT(30)
  <2>9. /\ pass' = pass /\ off' = off /\ bad' = bad /\ skipped' = skipped
      BY <1>1
  <2> QED BY <1>4, <2>3, <2>5, <2>6, <2>7, <2>8, <2>9, ZenonT(30) DEF Proved
<1> QED BY <1>1, <1>2, <1>5, <1>6, LoadingKeeps

\* The chunk opens, and is verified where digests are checked.
LEMMA LoadedKeeps ==
  ASSUME Tables, Backup, NEW q \in Procs, ReadInv(q), Loaded(q)
  PROVE  ReadInv(q)'
<1>1. /\ pc[q] = "load" /\ Reading(q) /\ Opens(q, ChunkAt[off[q]])
      /\ UNCHANGED <<fixed, ranges, span, pass, off, bad, skipped, out, file, result>>
    BY ZenonT(30) DEF Loaded, Reading
<1>2. pc'[q] = "walk" /\ memo'[q] = ChunkAt[off[q]]
    BY DEF Loaded, Goto, Tables
<1>3. /\ Wanted(q)' = Wanted(q) /\ Spans(q)' = Spans(q) /\ MustVerify(q)' = MustVerify(q)
      /\ opts' = opts /\ damage' = damage
    BY <1>1, FixedKeeps
<1>4. /\ Within(q)' = Within(q) /\ Current(q)' = Current(q) /\ Passed(q)' = Passed(q)
    BY <1>1, <1>3, ZenonT(30) DEF Within, Current, Passed, Frontier
<1>5. memo[q] = NoChunk /\ InSpan(q) /\ ChunkAt[off[q]] \notin bad[q]
    BY <1>1, ZenonT(30) DEF ReadInv, Placed
<1>6. ChunkAt[off[q]] \in Chunks /\ Within(q) /\ off[q] # Current(q).end /\ Chunks = 1 .. Len(Plain)
    BY <1>1, <1>5, WalkTypes, ChunkCovers, Sizes, SMTT(30)
<1>7. MustVerify(q) => damage[ChunkAt[off[q]]] # "altered"
    BY <1>1 DEF Opens
<1>8. pc'[q] # "load"
    BY <1>2
<1>9. Placed(q)'
    BY <1>1, <1>2, <1>3, <1>4, <1>5, <1>6, <1>7, <1>8, ZenonT(30) DEF ReadInv, Placed
<1>10. Proved(q)'
  <2>1. SUFFICES ASSUME opts[q].keepGoing PROVE Proved(q)'
      BY <1>3 DEF Proved
  <2>2. skipped[q] = {i \in Passed(q) : ChunksOf(i) \cap bad[q] # {}}
      BY <1>1, <2>1, ZenonT(30) DEF ReadInv, Proved
  <2>3. (skipped[q] = {i \in Passed(q) : ChunksOf(i) \cap bad[q] # {}})'
      BY <1>1, <1>4, <2>2, ZenonT(30)
  <2>5. ASSUME pass[q] = 1, NEW i \in Passed(q) \ skipped[q]
        PROVE  LastChunk(i) < ChunkAt[off[q]]
    <3>1. LastChunk(i) < ChunkAt[off[q]] \/ LastChunk(i) = memo[q]
        BY <1>1, <1>6, <2>1, <2>5, ZenonT(30) DEF ReadInv, Proved
    <3>2. LastChunk(i) \in Chunks
        BY <1>1, <1>6, <2>1, PassedBehind
    <3> QED BY <1>5, <1>6, <3>1, <3>2, SMTT(30) DEF NoChunk
  <2>6. ASSUME pass[q] = 1, NEW o \in Current(q).start .. off[q] - 1
        PROVE  ChunkAt[o] \notin bad[q]
      BY <1>1, <1>6, <2>1, <2>6, ZenonT(30) DEF ReadInv, Proved
  <2>7. ASSUME pass[q] = 2, NEW o \in Current(q).start .. Current(q).end - 1
        PROVE  ChunkAt[o] \notin bad[q]
      BY <1>1, <1>6, <2>1, <2>7, ZenonT(30) DEF ReadInv, Proved
  <2>9. /\ pass' = pass /\ off' = off /\ bad' = bad /\ skipped' = skipped
      BY <1>1
  <2> QED BY <1>4, <1>6, <2>3, <2>5, <2>6, <2>7, <2>9, ZenonT(30) DEF Proved
<1> QED BY <1>1, <1>2, <1>9, <1>10, LoadingKeeps

\* A step that brings the walk to the start of range n, or behind the last one.
LEMMA StartKeeps ==
  ASSUME Backup, NEW q \in Procs, ReadInv(q), opts[q].cmd = "restore",
         pc[q] \in {"create", "walk", "load"}, UNCHANGED fixed, pc'[q] = "walk",
         NEW n \in 1 .. Len(Spans(q)) + 1,
         ranges'[q] = Spans(q), span'[q] = n, pass'[q] = 1,
         n <= Len(Spans(q)) => off'[q] = Spans(q)[n].start,
         memo'[q] # NoChunk => /\ memo'[q] \in Chunks \ bad'[q]
                               /\ MustVerify(q) => damage[memo'[q]] # "altered",
         ~opts[q].keepGoing => bad'[q] = {} /\ skipped'[q] = {},
         Clean(q)',
         ~FreshTrailer(q) => /\ Len(out'[q]) = Len(Blocks(0, off'[q]))
                             /\ MustVerify(q) => out'[q] = Blocks(0, off'[q])
                             /\ n > Len(Spans(q)) => off'[q] = Total,
         FreshTrailer(q) =>
             /\ Len(out'[q]) = Len(Kept(Wanted(q) \ skipped'[q])[Edge(Spans(q), n)])
             /\ MustVerify(q) => out'[q] = Kept(Wanted(q) \ skipped'[q])[Edge(Spans(q), n)],
         opts[q].keepGoing =>
             /\ skipped'[q] = {i \in Before(Wanted(q), Edge(Spans(q), n)) :
                                  ChunksOf(i) \cap bad'[q] # {}}
             /\ n <= Len(Spans(q)) =>
                   \A i \in Before(Wanted(q), Edge(Spans(q), n)) \ skipped'[q] :
                       LastChunk(i) < ChunkAt[Spans(q)[n].start] \/ LastChunk(i) = memo'[q]
  PROVE  ReadInv(q)'
<1> DEFINE R == Spans(q)
           S == Wanted(q)
<1>1. /\ opts' = opts /\ damage' = damage /\ Wanted(q)' = S /\ Spans(q)' = R
      /\ FreshTrailer(q)' = FreshTrailer(q) /\ MustVerify(q)' = MustVerify(q)
    BY FixedKeeps
<1>2. Len(R) \in Nat /\ \A k \in 1..Len(R) : /\ R[k].start \in Nat /\ R[k].end \in Nat
                                             /\ R[k].start < R[k].end
    BY SpansTyped
<1>3. /\ Within(q)' <=> n <= Len(R)
      /\ Current(q)' = R[n] /\ Frontier(q)' = Edge(R, n) /\ Passed(q)' = Before(S, Edge(R, n))
    BY <1>1, ZenonT(30) DEF Within, Current, Frontier, Passed
<1>4. n <= Len(R) => /\ n \in 1..Len(R) /\ off'[q] = R[n].start
                     /\ off'[q] \in R[n].start .. R[n].end
                     /\ R[n].start .. off'[q] - 1 = {}
    BY <1>2, SMTT(30)
<1>5. pc'[q] # "load" /\ pass'[q] # 2
    BY SMTT(30)
<1>6. Placed(q)'
  <2>1. n \in 1 .. Len(R) + 1 /\ pass'[q] \in {1, 2}
      OBVIOUS
  <2> QED BY <1>1, <1>3, <1>4, <1>5, <2>1, ZenonT(30) DEF Placed
<1>7. Written(q)'
  <2>1. Position(q)' = Edge(R, n)
    <3>1. CASE n <= Len(R)
      <4>1. Position(q)' = R[n].start
          BY <1>3, <1>4, <3>1, ZenonT(30) DEF Position
      <4> QED BY <3>1, <4>1 DEF Edge
    <3>2. CASE ~(n <= Len(R))
        BY <1>3, <3>2, ZenonT(30) DEF Position, Edge
    <3> QED BY <3>1, <3>2
  <2>2. ~(n <= Len(R)) => n > Len(R)
      BY <1>2, SMTT(30)
  <2>3. ASSUME ~FreshTrailer(q)
        PROVE  Shows(q, Blocks(0, off[q]))' /\ (~Within(q)' => off'[q] = Total)
      BY <1>1, <1>3, <2>2, <2>3, ZenonT(30) DEF Shows
  <2>4. ASSUME FreshTrailer(q)
        PROVE  Shows(q, Kept(Wanted(q) \ skipped[q])[Position(q)])'
      BY <1>1, <2>1, <2>4, ZenonT(30) DEF Shows
  <2> QED BY <1>1, <2>3, <2>4, ZenonT(30) DEF Written
<1>8. Proved(q)'
  <2>1. SUFFICES ASSUME opts[q].keepGoing PROVE Proved(q)'
      BY <1>1 DEF Proved
  <2>2. (skipped[q] = {i \in Passed(q) : ChunksOf(i) \cap bad[q] # {}})'
      BY <1>3, <2>1, ZenonT(30)
  <2>3. ASSUME n <= Len(R)
        PROVE  /\ \A o \in R[n].start .. off'[q] - 1 : ChunkAt[o] \notin bad'[q]
               /\ \A i \in Before(S, Edge(R, n)) \ skipped'[q] :
                     LastChunk(i) < ChunkAt[off'[q]] \/ LastChunk(i) = memo'[q]
    <3>1. R[n].start .. off'[q] - 1 = {} /\ off'[q] = R[n].start
        BY <1>4, <2>3
    <3>2. \A i \in Before(S, Edge(R, n)) \ skipped'[q] :
              LastChunk(i) < ChunkAt[R[n].start] \/ LastChunk(i) = memo'[q]
        BY <2>1, <2>3, ZenonT(30)
    <3> HIDE DEF R, S
    <3> QED BY <3>1, <3>2, ZenonT(30)
  <2> QED BY <1>3, <1>5, <2>2, <2>3, ZenonT(30) DEF Proved
<1> QED BY <1>6, <1>7, <1>8, WalkKeeps

\* The tar is created: nothing is written yet.
LEMMA CreateTarKeeps ==
  ASSUME Tables, Backup, NEW q \in Procs, ReadInv(q), CreateTar(q)
  PROVE  ReadInv(q)'
<1>1. /\ pc[q] = "create" /\ opts[q].cmd = "restore"
      /\ UNCHANGED <<fixed, span, pass, memo, bad, skipped, out>>
    BY DEF CreateTar, ReadInv, Filed
<1>2. CASE file[q] = "old" /\ ~opts[q].overwrite
  <2>1. Exit(q, "failed") /\ UNCHANGED <<file, ranges, off>>
      BY <1>2, ZenonT(30) DEF CreateTar
  <2>2. UNCHANGED <<fixed, walking, out>> /\ file'[q] # "new"
      BY <1>1, <1>2, <2>1 DEF walking
  <2> QED BY <2>1, <2>2, ExitKeeps
<1>3. CASE ~(file[q] = "old" /\ ~opts[q].overwrite)
  <2>1. /\ ranges' = [ranges EXCEPT ![q] = Spans(q)]
        /\ off' = [off EXCEPT ![q] = Spans(q)[1].start] /\ Goto(q, "walk")
      BY <1>3, ZenonT(30) DEF CreateTar
  <2>2. /\ ranges'[q] = Spans(q) /\ off'[q] = Spans(q)[1].start /\ pc'[q] = "walk"
      BY <2>1 DEF Goto, Tables
  <2>3. /\ span'[q] = 1 /\ pass'[q] = 1 /\ memo'[q] = NoChunk
        /\ bad'[q] = {} /\ skipped'[q] = {} /\ out'[q] = <<>>
      BY <1>1 DEF ReadInv, Fresh
  <2>4. Clean(q)'
      BY <1>1, FixedKeeps, ZenonT(30) DEF ReadInv, Clean
  <2>5. ASSUME ~FreshTrailer(q)
        PROVE  Blocks(0, off'[q]) = <<>> /\ Len(Spans(q)) = 1
    <3>1. Spans(q) = << [start |-> 0, end |-> Total] >>
        BY <2>5, SpansCover
    <3>2. off'[q] = 0
        BY <2>2, <3>1, SMTT(30)
    <3> QED BY <3>1, <3>2, SMTT(30) DEF Blocks
  <2>6. ASSUME FreshTrailer(q)
        PROVE  /\ Kept(Wanted(q) \ {})[Edge(Spans(q), 1)] = <<>>
               /\ Before(Wanted(q), Edge(Spans(q), 1)) = {}
    <3>1. Wanted(q) \in SUBSET Archived /\ Cover(Wanted(q), Spans(q), ContentEnd)
        BY <2>6, WantedArchived, SpansCover
    <3>2. Len(Spans(q)) \in Nat
        BY SpansTyped
    <3>3. 0 \in 0 .. Len(Spans(q)) /\ 0 + 1 = 1
        BY <3>2, SMTT(30)
    <3>4. Kept(Wanted(q) \ {})[Edge(Spans(q), 0 + 1)] = Kept(Wanted(q) \ {})[Done(Spans(q), 0)]
        BY <3>1, <3>3, GapKept, ZenonT(30)
    <3>5. Kept(Wanted(q) \ {})[0] = <<>>
        BY KeptLoop, ZenonT(30)
    <3>6. Before(Wanted(q), Edge(Spans(q), 1)) = {}
        BY <3>1, BeforeFirst
    <3>7. Done(Spans(q), 0) = 0
        BY DEF Done
    <3> QED BY <3>3, <3>4, <3>5, <3>6, <3>7, ZenonT(30)
  <2>7. 1 \in 1 .. Len(Spans(q)) + 1
      BY SpansTyped, SMTT(30)
  <2>8. FreshTrailer(q) => /\ out'[q] = Kept(Wanted(q) \ skipped'[q])[Edge(Spans(q), 1)]
                           /\ Before(Wanted(q), Edge(Spans(q), 1)) = {}
      BY <2>3, <2>6, ZenonT(30)
  <2>9. opts[q].keepGoing =>
             /\ skipped'[q] = {i \in Before(Wanted(q), Edge(Spans(q), 1)) :
                                  ChunksOf(i) \cap bad'[q] # {}}
             /\ \A i \in Before(Wanted(q), Edge(Spans(q), 1)) \ skipped'[q] :
                       LastChunk(i) < ChunkAt[Spans(q)[1].start] \/ LastChunk(i) = memo'[q]
      BY <2>3, <2>8 DEF FreshTrailer
  <2>10. ASSUME ~FreshTrailer(q)
         PROVE  out'[q] = Blocks(0, off'[q]) /\ ~(1 > Len(Spans(q)))
    <3>1. Blocks(0, off'[q]) = <<>> /\ Len(Spans(q)) = 1
        BY <2>5, <2>10, ZenonT(30)
    <3> QED BY <2>3, <3>1, SMTT(30)
  <2>11. pc[q] \in {"create", "walk", "load"}
      BY <1>1
  <2> QED BY <1>1, <2>2, <2>3, <2>4, <2>7, <2>8, <2>9, <2>10, <2>11, StartKeeps, ZenonT(30)
<1> QED BY <1>2, <1>3

\* The entries dropped end before the range of the walk.
LEMMA DroppedBehind ==
  ASSUME Backup, NEW q \in Procs, ReadInv(q), Reading(q), Within(q), NEW i \in skipped[q]
  PROVE  EntryEnd(i) <= Current(q).start
<1>1. opts[q].keepGoing
    BY ZenonT(30) DEF ReadInv, Placed
<1>2. i \in Passed(q)
    BY <1>1 DEF ReadInv, Proved
<1> DEFINE S == Wanted(q)
           R == ranges[q]
           n == span[q]
<1>3. R = Spans(q) /\ Len(R) \in Nat /\ n \in 1..Len(R)
    BY WalkTypes
<1>4. S \in SUBSET Archived /\ R = PerEntry(S)
    BY <1>1, <1>3, WantedArchived, SpansCover
<1>5. Edge(R, n) = Current(q).start /\ n \in 1 .. Len(R) + 1
    BY <1>3, SMTT(30) DEF Edge, Current
<1>6. i \in Before(S, Edge(R, n))
    BY <1>2 DEF Passed, Frontier
<1> HIDE DEF S, R, n
<1>7. EntryEnd(i) <= Edge(R, n)
    BY <1>4, <1>5, <1>6, BeforeEnds
<1> QED BY <1>5, <1>7

\* The part of a range that lies in the chunk in memory.
LEMMA PieceFits ==
  ASSUME Backup, NEW q \in Procs, ReadInv(q), Consume(q)
  PROVE  LET c == ChunkAt[off[q]]
             to == Min({prefix[c], Current(q).end})
         IN  /\ Reading(q) /\ Within(q) /\ InSpan(q) /\ c = memo[q] /\ memo[q] # NoChunk
             /\ to \in Nat /\ off[q] < to /\ to <= Current(q).end
             /\ \A x \in off[q] .. to - 1 : ChunkAt[x] = c
<1> DEFINE c == ChunkAt[off[q]]
           to == Min({prefix[c], Current(q).end})
<1>1. Reading(q) /\ InSpan(q) /\ c = memo[q]
    BY DEF Consume, Streaming, Reading
<1>2. /\ Within(q) /\ off[q] < Current(q).end /\ off[q] \in 0 .. Total - 1
      /\ Current(q).end \in Nat /\ off[q] \in Nat /\ Current(q).end <= Total
    BY <1>1, WalkTypes
<1>3. c \in Chunks /\ off[q] < prefix[c]
    BY <1>2, ChunkCovers
<1>4. prefix[c] \in Nat
    BY <1>3, PrefixSums, Sizes, SMTT(30)
<1>5. to \in {prefix[c], Current(q).end} /\ to <= prefix[c] /\ to <= Current(q).end
  <2>1. {prefix[c], Current(q).end} \in SUBSET Nat /\ {prefix[c], Current(q).end} # {}
      BY <1>2, <1>4
  <2>2. /\ to \in {prefix[c], Current(q).end}
        /\ \A y \in {prefix[c], Current(q).end} : to <= y
      BY <2>1, MinIsLeast
  <2> HIDE DEF to, c
  <2> QED BY <2>2
<1>6. memo[q] # NoChunk
    BY <1>1, <1>3, Sizes, SMTT(30) DEF NoChunk
<1> HIDE DEF to
<1>7. to \in Nat /\ off[q] < to
    BY <1>2, <1>3, <1>4, <1>5
<1>8. ASSUME NEW x \in off[q] .. to - 1 PROVE ChunkAt[x] = c
  <2>1. x \in 0 .. Total - 1 /\ off[q] <= x /\ x < prefix[c]
      BY <1>2, <1>4, <1>5, <1>7, Sizes, SMTT(30)
  <2> QED BY <1>2, <2>1, SameChunk
<1> QED BY <1>1, <1>2, <1>5, <1>6, <1>7, <1>8, ZenonT(30) DEF to

\* What is written of it.
Piece(a, b) == [k \in 1 .. b - a |-> Seen(a + k - 1)]

\* A piece of one chunk has the length of its blocks, and when verified is those blocks.
LEMMA PieceShown ==
  ASSUME Backup, NEW q \in Procs, NEW c, NEW a \in Nat, NEW b \in Nat, a <= b,
         \A x \in a .. b - 1 : ChunkAt[x] = c,
         MustVerify(q) => damage[c] # "altered"
  PROVE  /\ Piece(a, b) \in Seq(Int) /\ Len(Piece(a, b)) = b - a
         /\ MustVerify(q) => Piece(a, b) = Blocks(a, b)
<1> DEFINE X == [k \in 1 .. b - a |-> Seen(a + k - 1)]
<1>1. b - a \in Nat
    BY SMTT(30)
<1>2. ASSUME NEW k \in 1 .. b - a
      PROVE  /\ a + k - 1 \in Nat /\ ChunkAt[a + k - 1] = c /\ Content(a + k - 1) \in Int
  <2>1. a + k - 1 \in Nat /\ a + k - 1 \in a .. b - 1
      BY SMTT(30)
  <2> QED BY <2>1, ContentInt, ZenonT(30)
<1>3. \A k \in 1 .. b - a : Seen(a + k - 1) \in Int
    BY <1>2, SMTT(30) DEF Seen, Junk
<1>4. X \in [1 .. b - a -> Int]
    BY <1>3
<1>5. X \in Seq(Int) /\ Len(X) = b - a
  <2> HIDE DEF X
  <2> QED BY <1>1, <1>4, SMTT(30)
<1>6. ASSUME MustVerify(q) PROVE X = Blocks(a, b)
  <2>1. \A k \in 1 .. b - a : Seen(a + k - 1) = Content(a + k - 1)
      BY <1>2, <1>6 DEF Seen
  <2> QED BY <2>1, ZenonT(30) DEF Blocks
<1> QED BY <1>5, <1>6 DEF Piece

\* Appending as much to as much.
Alike(u, x, v, y) ==
    /\ u \in Seq(Int) /\ x \in Seq(Int) /\ v \in Seq(Int) /\ y \in Seq(Int)
    /\ Len(u) = Len(v) /\ Len(x) = Len(y)

\* Joining sequences of the same lengths gives the same length.
LEMMA ConcatLen ==
  ASSUME NEW u, NEW x, NEW v, NEW y, Alike(u, x, v, y)
  PROVE  Len(u \o x) = Len(v \o y)
<1>1. Len(u \o x) = Len(u) + Len(x)
    BY JoinLength, ZenonT(30) DEF Alike
<1>2. Len(v \o y) = Len(v) + Len(y)
    BY JoinLength, ZenonT(30) DEF Alike
<1> QED BY <1>1, <1>2, ZenonT(30) DEF Alike

\* A piece of a range is proved or written.
LEMMA ConsumeKeeps ==
  ASSUME Tables, Backup, NEW q \in Procs, ReadInv(q), Consume(q)
  PROVE  ReadInv(q)'
<1> DEFINE c == ChunkAt[off[q]]
           to == Min({prefix[c], Current(q).end})
           X == Piece(off[q], to)
           S == Wanted(q)
           R == ranges[q]
           n == span[q]
<1>1. /\ Reading(q) /\ Within(q) /\ InSpan(q) /\ c = memo[q] /\ memo[q] # NoChunk
      /\ to \in Nat /\ off[q] < to /\ to <= Current(q).end
      /\ \A x \in off[q] .. to - 1 : ChunkAt[x] = c
    BY PieceFits, ZenonT(30)
<1>2. /\ pc[q] = "walk"
      /\ out' = [out EXCEPT ![q] = IF Writes(q) THEN @ \o X ELSE @]
      /\ off' = [off EXCEPT ![q] = to]
      /\ UNCHANGED <<fixed, ranges, pc, span, pass, memo, bad, skipped>>
    BY ZenonT(30) DEF Consume, Streaming, Piece
<1>3. /\ R = Spans(q) /\ Len(R) \in Nat /\ n \in 1..Len(R)
      /\ Current(q).start \in Nat /\ Current(q).end \in Nat /\ off[q] \in Nat
      /\ Current(q).start < Current(q).end /\ Current(q).end <= Total
      /\ Current(q).start <= off[q] /\ off[q] \in 0 .. Total - 1
      /\ FreshTrailer(q) => Current(q).end <= ContentEnd
    BY <1>1, WalkTypes
<1>4. c \in Chunks \ bad[q] /\ (MustVerify(q) => damage[c] # "altered")
    BY <1>1, ZenonT(30) DEF ReadInv, Placed
<1>5. /\ X \in Seq(Int) /\ Len(X) = to - off[q]
      /\ MustVerify(q) => X = Blocks(off[q], to)
  <2> HIDE DEF c, to
  <2>1. off[q] <= to
      BY <1>1, <1>3, SMTT(30)
  <2>2. /\ off[q] \in Nat /\ to \in Nat /\ \A x \in off[q] .. to - 1 : ChunkAt[x] = c
        /\ MustVerify(q) => damage[c] # "altered"
      BY <1>1, <1>3, <1>4, ZenonT(30)
  <2> QED BY <2>1, <2>2, PieceShown, ZenonT(30)
<1>6. /\ out'[q] = IF Writes(q) THEN out[q] \o X ELSE out[q]
      /\ off'[q] = to
  <2> HIDE DEF X, to
  <2> QED BY <1>2 DEF Tables
<1>7. /\ opts' = opts /\ damage' = damage /\ S' = S /\ Spans(q)' = Spans(q)
      /\ FreshTrailer(q)' = FreshTrailer(q) /\ MustVerify(q)' = MustVerify(q)
    BY <1>2, FixedKeeps, ZenonT(30)
<1>8. /\ ranges' = ranges /\ pc' = pc /\ span' = span /\ pass' = pass /\ memo' = memo
      /\ bad' = bad /\ skipped' = skipped
    BY <1>2
<1>9. /\ Within(q)' = Within(q) /\ Current(q)' = Current(q) /\ Writes(q)' = Writes(q)
      /\ Passed(q)' = Passed(q)
    BY <1>7, <1>8, ZenonT(30) DEF Within, Current, Writes, Passed, Frontier
<1>10. out[q] \in Seq(Int) /\ (MustVerify(q) => \A k \in 1 .. Len(out[q]) : out[q][k] # Junk)
    BY ZenonT(30) DEF ReadInv, Clean
<1> HIDE DEF X, to, c
<1>11. Placed(q)'
  <2>1. to \in Current(q).start .. Current(q).end
      BY <1>1, <1>3, SMTT(30)
  <2>2. pc[q] # "load"
      BY <1>2
  <2> QED BY <1>1, <1>6, <1>7, <1>8, <1>9, <2>1, <2>2, ZenonT(30) DEF ReadInv, Placed
<1>12. Clean(q)'
  <2>1. CASE ~Writes(q)
    <3>1. out'[q] = out[q]
        BY <1>6, <2>1
    <3> QED BY <1>7, <1>10, <3>1, ZenonT(30) DEF Clean
  <2>2. CASE Writes(q)
    <3>1. out'[q] = out[q] \o X
        BY <1>6, <2>2
    <3>2. out'[q] \in Seq(Int)
        BY <1>5, <1>10, <3>1, SMTT(30)
    <3>3. ASSUME MustVerify(q), NEW k \in 1 .. Len(out'[q]) PROVE out'[q][k] # Junk
      <4>1. CASE k <= Len(out[q])
          BY <1>5, <1>10, <3>1, <3>3, <4>1, SMTT(30)
      <4>2. CASE ~(k <= Len(out[q]))
        <5> DEFINE j == k - Len(out[q])
        <5>1. j \in 1 .. Len(X) /\ out'[q][k] = X[j]
            BY <1>5, <1>10, <3>1, <3>3, <4>2, SMTT(30)
        <5> HIDE DEF j
        <5>2. X[j] = Content(off[q] + j - 1)
            BY <1>5, <3>3, <5>1 DEF Blocks
        <5>3. off[q] + j - 1 \in Nat
            BY <1>1, <1>3, <1>5, <5>1, SMTT(30)
        <5>4. Content(off[q] + j - 1) # Junk
            BY <5>3, SMTT(30) DEF Content, Zero, Junk
        <5> QED BY <5>1, <5>2, <5>4
      <4> QED BY <4>1, <4>2
    <3> QED BY <1>7, <3>2, <3>3, ZenonT(30) DEF Clean
  <2> QED BY <2>1, <2>2
<1>13. Written(q)'
  <2>1. ASSUME ~FreshTrailer(q) PROVE Shows(q, Blocks(0, off[q]))'
    <3>1. Writes(q)
        BY <2>1 DEF FreshTrailer, Writes
    <3>2. out'[q] = out[q] \o X
        BY <1>6, <3>1
    <3>3. /\ Len(out[q]) = Len(Blocks(0, off[q]))
          /\ MustVerify(q) => out[q] = Blocks(0, off[q])
        BY <1>1, <2>1, ZenonT(30) DEF ReadInv, Written, Shows
    <3>4. 0 \in Nat /\ 0 <= off[q] /\ off[q] <= to /\ to <= to
        BY <1>1, <1>3, SMTT(30)
    <3>5. /\ Blocks(0, off[q]) \in Seq(Int)
          /\ Blocks(0, off[q]) \o Blocks(off[q], to) = Blocks(0, to)
        BY <1>1, <1>3, <3>4, BlocksJoin, ZenonT(30)
    <3>6. Blocks(off[q], to) \in Seq(Int) /\ Len(Blocks(off[q], to)) = to - off[q]
        BY <1>1, <1>3, <3>4, BlocksJoin, ZenonT(30)
    <3>7. /\ Len(out[q] \o X) = Len(Blocks(0, off[q]) \o Blocks(off[q], to))
          /\ MustVerify(q) => out[q] \o X = Blocks(0, off[q]) \o Blocks(off[q], to)
      <4>1. Len(X) = Len(Blocks(off[q], to))
          BY <1>5, <3>6, ZenonT(30)
      <4>2. Len(out[q] \o X) = Len(Blocks(0, off[q]) \o Blocks(off[q], to))
        <5>1. Alike(out[q], X, Blocks(0, off[q]), Blocks(off[q], to))
            BY <1>5, <1>10, <3>3, <3>5, <3>6, <4>1, ZenonT(30) DEF Alike
        <5> QED BY <5>1, ConcatLen, SMTT(30)
      <4> QED BY <1>5, <3>3, <4>2, ZenonT(30)
    <3> QED BY <1>6, <1>7, <3>2, <3>5, <3>7, ZenonT(30) DEF Shows
  <2>2. ASSUME FreshTrailer(q) PROVE Shows(q, Kept(Wanted(q) \ skipped[q])[Position(q)])'
    <3> DEFINE K == Kept(S \ skipped[q])
    <3>1. /\ Len(out[q]) = Len(K[Position(q)])
          /\ MustVerify(q) => out[q] = K[Position(q)]
        BY <1>1, <2>2, ZenonT(30) DEF ReadInv, Written, Shows
    <3>2. CASE ~Writes(q)
      <4>1. out'[q] = out[q]
          BY <1>6, <3>2
      <4>2. Position(q)' = Position(q)
          BY <1>1, <1>9, <3>2, ZenonT(30) DEF Position
      <4> QED BY <1>7, <1>8, <3>1, <4>1, <4>2, ZenonT(30) DEF Shows
    <3>3. CASE Writes(q)
      <4>1. out'[q] = out[q] \o X
          BY <1>6, <3>3
      <4>2. Position(q) = off[q] /\ Position(q)' = to
          BY <1>1, <1>6, <1>9, <3>3, ZenonT(30) DEF Position
      <4>3. S \in SUBSET Archived /\ Cover(S, R, ContentEnd)
          BY <1>3, <2>2, WantedArchived, SpansCover
      <4>4. \A i \in S : i \in skipped[q] => EntryEnd(i) <= R[n].start
          BY <1>1, DroppedBehind DEF Current
      <4>5. R[n].start <= off[q] /\ off[q] <= to /\ to <= R[n].end
          BY <1>1, <1>3, SMTT(30) DEF Current
      <4>6. K[to] = K[off[q]] \o Blocks(off[q], to)
        <5> HIDE DEF S, R, n
        <5>1. Inside(S, R, n, skipped[q], off[q], to)
            BY <1>1, <1>3, <4>3, <4>4, <4>5, ZenonT(30) DEF Inside
        <5>2. Follows(S \ skipped[q], off[q], to)
            BY <5>1, RunKept, ZenonT(30)
        <5> QED BY <5>2, ZenonT(30) DEF Follows
      <4>7. K[off[q]] \in Seq(Int)
        <5>1. off[q] \in 0 .. ContentEnd
            BY <1>1, <1>3, <2>2, Sizes, SMTT(30)
        <5> QED BY <5>1, KeptTyped
      <4>8. Blocks(off[q], to) \in Seq(Int) /\ Len(Blocks(off[q], to)) = to - off[q]
        <5>1. to <= to
            BY <1>1, SMTT(30)
        <5> QED BY <1>1, <1>3, <4>5, <5>1, BlocksJoin, ZenonT(30)
      <4>9. /\ Len(out[q] \o X) = Len(K[off[q]] \o Blocks(off[q], to))
            /\ MustVerify(q) => out[q] \o X = K[off[q]] \o Blocks(off[q], to)
        <5> HIDE DEF K
        <5>1. Len(X) = Len(Blocks(off[q], to)) /\ Len(out[q]) = Len(K[off[q]])
            BY <1>5, <3>1, <4>2, <4>8, ZenonT(30)
        <5>2. Len(out[q] \o X) = Len(K[off[q]] \o Blocks(off[q], to))
          <6> DEFINE v == K[off[q]]
          <6>1. Alike(out[q], X, v, Blocks(off[q], to))
              BY <1>5, <1>10, <4>7, <4>8, <5>1, ZenonT(30) DEF Alike
          <6> HIDE DEF v
          <6>2. Len(out[q] \o X) = Len(v \o Blocks(off[q], to))
              BY <6>1, ConcatLen, SMTT(30)
          <6> QED BY <6>2 DEF v
        <5> QED BY <1>5, <3>1, <4>2, <5>2, ZenonT(30)
      <4> QED BY <1>7, <1>8, <4>1, <4>2, <4>6, <4>9, ZenonT(30) DEF Shows
    <3> QED BY <3>2, <3>3
  <2> QED BY <1>1, <1>7, <1>9, <2>1, <2>2, ZenonT(30) DEF Written
<1>14. Proved(q)'
  <2>1. SUFFICES ASSUME opts[q].keepGoing PROVE Proved(q)'
      BY <1>7 DEF Proved
  <2>2. (skipped[q] = {i \in Passed(q) : ChunksOf(i) \cap bad[q] # {}})'
    <3>1. skipped[q] = {i \in Passed(q) : ChunksOf(i) \cap bad[q] # {}}
        BY <1>1, <2>1, ZenonT(30) DEF ReadInv, Proved
    <3> QED BY <1>8, <1>9, <3>1, ZenonT(30)
  <2>3. FreshTrailer(q)
      BY <2>1 DEF FreshTrailer
  <2>4. ASSUME pass[q] = 1, NEW o \in Current(q).start .. to - 1 PROVE ChunkAt[o] \notin bad[q]
    <3>1. CASE o < off[q]
      <4>1. o \in Current(q).start .. off[q] - 1
          BY <1>1, <1>3, <2>4, <3>1, SMTT(30)
      <4> QED BY <1>1, <2>1, <2>4, <4>1, ZenonT(30) DEF ReadInv, Proved
    <3>2. CASE ~(o < off[q])
      <4>1. o \in off[q] .. to - 1
          BY <1>1, <1>3, <2>4, <3>2, SMTT(30)
      <4> QED BY <1>1, <1>4, <4>1
    <3> QED BY <3>1, <3>2
  <2>5. ASSUME pass[q] = 1, NEW i \in Passed(q) \ skipped[q]
        PROVE  LastChunk(i) < ChunkAt[to] \/ LastChunk(i) = memo[q]
    <3>1. LastChunk(i) < ChunkAt[off[q]] \/ LastChunk(i) = memo[q]
        BY <1>1, <2>1, <2>5, ZenonT(30) DEF ReadInv, Proved
    <3>2. to \in 0 .. Total - 1 /\ off[q] <= to
        BY <1>1, <1>3, <2>3, Sizes, SMTT(30)
    <3>3. ChunkAt[off[q]] <= ChunkAt[to]
        BY <1>3, <3>2, ChunksGrow
    <3>4. /\ ChunkAt[off[q]] \in Nat /\ ChunkAt[to] \in Nat
        BY <1>3, <3>2, ChunkCovers, Sizes, SMTT(30)
    <3>5. LastChunk(i) \in Nat
        BY <1>1, <2>1, PassedBehind, Sizes, SMTT(30)
    <3> QED BY <3>1, <3>3, <3>4, <3>5, SMTT(30)
  <2>6. ASSUME pass[q] = 2
        PROVE  /\ \A o \in Current(q).start .. Current(q).end - 1 : ChunkAt[o] \notin bad[q]
               /\ to = Current(q).end => memo[q] = ChunkAt[Current(q).end - 1]
    <3>1. \A o \in Current(q).start .. Current(q).end - 1 : ChunkAt[o] \notin bad[q]
        BY <1>1, <2>1, <2>6, ZenonT(30) DEF ReadInv, Proved
    <3>2. ASSUME to = Current(q).end PROVE memo[q] = ChunkAt[Current(q).end - 1]
      <4>1. to - 1 \in off[q] .. to - 1
          BY <1>1, <1>3, SMTT(30)
      <4> QED BY <1>1, <3>2, <4>1
    <3> QED BY <3>1, <3>2
  <2> QED BY <1>6, <1>8, <1>9, <2>2, <2>4, <2>5, <2>6, ZenonT(30) DEF Proved
<1> QED BY <1>1, <1>2, <1>8, <1>11, <1>12, <1>13, <1>14, WalkKeeps DEF Reading

\* Behind range n of a partial recovery.
LEMMA NextEntry ==
  ASSUME Backup, NEW q \in Procs, ReadInv(q), Reading(q), Within(q), opts[q].keepGoing
  PROVE  LET S == Wanted(q)
             R == Spans(q)
             e == InOrder(S)[span[q]]
         IN  /\ S \in SUBSET Archived /\ e \in S /\ e \notin Passed(q)
             /\ R = PerEntry(S) /\ span[q] \in 1..Len(PerEntry(S))
             /\ Current(q) = PerEntry(S)[span[q]]
             /\ Current(q).start = Entries[e].offset /\ Current(q).end = EntryEnd(e)
             /\ Passed(q) = Before(S, R[span[q]].start)
             /\ Before(S, Edge(R, span[q] + 1)) = Passed(q) \cup {e}
<1> DEFINE S == Wanted(q)
           R == PerEntry(S)
           n == span[q]
           e == InOrder(S)[n]
<1>1. ranges[q] = Spans(q) /\ Len(ranges[q]) \in Nat /\ n \in 1..Len(ranges[q])
    BY WalkTypes
<1>2. S \in SUBSET Archived /\ Spans(q) = R
    BY WantedArchived, SpansCover
<1>3. n \in 1..Len(R) /\ Current(q) = R[n]
    BY <1>1, <1>2 DEF Current
<1>4. Passed(q) = Before(S, R[n].start)
    BY <1>1, <1>2, <1>3, SMTT(30) DEF Passed, Frontier, Edge
<1> HIDE DEF S, n
<1>5. /\ InOrder(S)[n] \in S
      /\ PerEntry(S)[n].start = Entries[InOrder(S)[n]].offset
      /\ PerEntry(S)[n].end = EntryEnd(InOrder(S)[n])
    BY <1>2, <1>3, PerEntrySpan
<1>6. /\ InOrder(S)[n] \notin Before(S, R[n].start)
      /\ Before(S, Edge(R, n + 1)) = Before(S, R[n].start) \cup {InOrder(S)[n]}
    BY <1>2, <1>3, BeforeNext, ZenonT(30)
<1> QED BY <1>2, <1>3, <1>4, <1>5, <1>6, ZenonT(30) DEF S, n

\* The first block of the next range comes after the blocks of this one.
LEMMA NextStart ==
  ASSUME Backup, NEW q \in Procs, ReadInv(q), Reading(q), Within(q), FreshTrailer(q),
         span[q] + 1 <= Len(Spans(q))
  PROVE  LET o == Spans(q)[span[q] + 1].start
         IN  o \in 0 .. Total - 1 /\ Current(q).end <= o /\ Current(q).end - 1 \in 0 .. Total - 1
<1> DEFINE R == Spans(q)
           n == span[q]
           o == R[n + 1].start
<1>1. /\ ranges[q] = R /\ Len(R) \in Nat /\ n \in 1..Len(R)
      /\ Current(q).start \in Nat /\ Current(q).end \in Nat
      /\ Current(q).start < Current(q).end /\ Current(q).end <= Total
    BY WalkTypes
<1>2. Current(q) = R[n] /\ n + 1 \in 1..Len(R) /\ n \in Nat
    BY <1>1, SMTT(30) DEF Current
<1>3. Cover(Wanted(q), R, ContentEnd)
    BY SpansCover
<1> HIDE DEF R, n
<1>4. R[n].end <= Edge(R, n + 1)
    BY <1>1, <1>3, SpanTypes, ZenonT(30)
<1>5. /\ R[n + 1].start \in Nat /\ R[n + 1].end \in Nat
      /\ R[n + 1].start < R[n + 1].end /\ R[n + 1].end <= ContentEnd
    BY <1>2, <1>3, SpanTypes, ZenonT(30)
<1>6. Edge(R, n + 1) = o
    BY <1>1, <1>2, SMTT(30) DEF Edge
<1>7. o \in Nat /\ o < R[n + 1].end /\ R[n + 1].end \in Nat /\ R[n + 1].end <= ContentEnd
      /\ Current(q).end <= o
    BY <1>2, <1>4, <1>5, <1>6, ZenonT(30)
<1> HIDE DEF o
<1>8. o \in 0 .. Total - 1 /\ Current(q).end <= o /\ Current(q).end - 1 \in 0 .. Total - 1
    BY <1>1, <1>7, Sizes, SMTT(30)
<1> QED BY <1>8 DEF R, n, o

\* The second pass over a range starts where the first one did.
LEMMA SecondPassKeeps ==
  ASSUME Tables, Backup, NEW q \in Procs, ReadInv(q), NextSpan(q), ~Writes(q)
  PROVE  ReadInv(q)'
<1>1. /\ pc[q] = "walk" /\ Reading(q) /\ Within(q) /\ off[q] = Current(q).end
      /\ pass' = [pass EXCEPT ![q] = 2] /\ off' = [off EXCEPT ![q] = Current(q).start]
      /\ UNCHANGED <<fixed, ranges, pc, span, memo, bad, skipped, out>>
    BY ZenonT(30) DEF NextSpan, Streaming, Reading, Within
<1>2. pass'[q] = 2 /\ off'[q] = Current(q).start
    BY <1>1 DEF Tables
<1>3. /\ opts' = opts /\ damage' = damage /\ Wanted(q)' = Wanted(q) /\ Spans(q)' = Spans(q)
      /\ FreshTrailer(q)' = FreshTrailer(q) /\ MustVerify(q)' = MustVerify(q)
    BY <1>1, FixedKeeps, ZenonT(30)
<1>4. /\ ranges' = ranges /\ pc' = pc /\ span' = span /\ memo' = memo
      /\ bad' = bad /\ skipped' = skipped /\ out' = out
    BY <1>1, ZenonT(30)
<1>5. /\ Within(q)' = Within(q) /\ Current(q)' = Current(q) /\ Passed(q)' = Passed(q)
    BY <1>3, <1>4, ZenonT(30) DEF Within, Current, Passed, Frontier
<1>6. opts[q].keepGoing /\ pass[q] # 2 /\ FreshTrailer(q)
    BY ZenonT(30) DEF Writes, FreshTrailer
<1>7. /\ Current(q).start \in Nat /\ Current(q).end \in Nat /\ Current(q).start < Current(q).end
      /\ pass[q] = 1
    BY <1>1, <1>6, WalkTypes
<1>8. Placed(q)'
  <2>1. Current(q).start \in Current(q).start .. Current(q).end /\ pass'[q] \in {1, 2}
      BY <1>2, <1>7, SMTT(30)
  <2>2. pc[q] # "load"
      BY <1>1
  <2> QED BY <1>1, <1>2, <1>3, <1>4, <1>5, <2>1, <2>2, ZenonT(30) DEF ReadInv, Placed
<1>9. Written(q)'
  <2>1. Position(q) = Current(q).start
      BY <1>1, ZenonT(30) DEF Position
  <2>2. Position(q)' = Current(q).start
      BY <1>1, <1>2, <1>5, ZenonT(30) DEF Position
  <2> QED BY <1>1, <1>3, <1>4, <1>6, <2>1, <2>2, ZenonT(30) DEF ReadInv, Written, Shows
<1>10. Clean(q)'
    BY <1>3, <1>4, ZenonT(30) DEF ReadInv, Clean
<1>11. Proved(q)'
  <2>1. /\ skipped[q] = {i \in Passed(q) : ChunksOf(i) \cap bad[q] # {}}
        /\ \A o \in Current(q).start .. Current(q).end - 1 : ChunkAt[o] \notin bad[q]
      BY <1>1, <1>6, <1>7, ZenonT(30) DEF ReadInv, Proved
  <2>2. (skipped[q] = {i \in Passed(q) : ChunksOf(i) \cap bad[q] # {}})'
      BY <1>4, <1>5, <2>1, ZenonT(30)
  <2>3. off'[q] # Current(q).end /\ pass'[q] # 1
      BY <1>2, <1>7, SMTT(30)
  <2> QED BY <1>4, <1>5, <2>1, <2>2, <2>3, ZenonT(30) DEF Proved
<1> QED BY <1>1, <1>4, <1>8, <1>9, <1>10, <1>11, WalkKeeps DEF Reading

\* The next range begins with nothing between it and what was written.
LEMMA NextSpanKeeps ==
  ASSUME Tables, Backup, NEW q \in Procs, ReadInv(q), NextSpan(q)
  PROVE  ReadInv(q)'
<1>1. CASE ~Writes(q)
    BY <1>1, SecondPassKeeps
<1>2. CASE Writes(q)
  <2> DEFINE S == Wanted(q)
             R == Spans(q)
             n == span[q]
  <2>1. /\ pc[q] = "walk" /\ Reading(q) /\ Within(q) /\ off[q] = Current(q).end
        /\ pass' = [pass EXCEPT ![q] = 1] /\ span' = [span EXCEPT ![q] = @ + 1]
        /\ off' = [off EXCEPT ![q] = IF span[q] < Len(ranges[q])
                                     THEN ranges[q][span[q] + 1].start ELSE @]
        /\ UNCHANGED <<fixed, ranges, pc, memo, bad, skipped, out>>
      BY <1>2, ZenonT(30) DEF NextSpan, Streaming, Reading, Within
  <2>2. /\ pass'[q] = 1 /\ span'[q] = n + 1
        /\ off'[q] = IF n < Len(ranges[q]) THEN ranges[q][n + 1].start ELSE off[q]
      BY <2>1 DEF Tables
  <2>3. /\ ranges[q] = R /\ Len(R) \in Nat /\ n \in 1..Len(R)
        /\ Current(q).start \in Nat /\ Current(q).end \in Nat
        /\ Current(q).start < Current(q).end /\ Current(q).end <= Total
      BY <2>1, WalkTypes, ZenonT(30)
  <2>4. /\ ranges' = ranges /\ pc' = pc /\ memo' = memo /\ bad' = bad /\ skipped' = skipped
        /\ out' = out /\ MustVerify(q)' = MustVerify(q)
      BY <2>1, FixedKeeps
  <2>5. Clean(q)'
      BY <2>4, ZenonT(30) DEF ReadInv, Clean
  <2>6. n + 1 \in 1 .. Len(R) + 1 /\ (n + 1 <= Len(R) <=> n < Len(R))
      BY <2>3, SMTT(30)
  <2>7. n + 1 <= Len(R) => off'[q] = R[n + 1].start
      BY <2>2, <2>3, <2>6, SMTT(30)
  <2>8. /\ memo'[q] # NoChunk => /\ memo'[q] \in Chunks \ bad'[q]
                                 /\ MustVerify(q) => damage[memo'[q]] # "altered"
        /\ ~opts[q].keepGoing => bad'[q] = {} /\ skipped'[q] = {}
      BY <2>1, <2>4, ZenonT(30) DEF ReadInv, Placed
  <2>9. ASSUME ~FreshTrailer(q)
        PROVE  /\ Len(out'[q]) = Len(Blocks(0, off'[q]))
               /\ MustVerify(q) => out'[q] = Blocks(0, off'[q])
               /\ off'[q] = Total
    <3>1. R = << [start |-> 0, end |-> Total] >>
        BY <2>9, SpansCover
    <3>2. Len(R) = 1 /\ R[1].end = Total
        BY <3>1, SMTT(30)
    <3>3. n = 1 /\ ~(n < Len(R))
        BY <2>3, <3>2, SMTT(30)
    <3>4. off'[q] = off[q] /\ off[q] = Total
        BY <2>1, <2>2, <2>3, <3>2, <3>3 DEF Current
    <3> QED BY <2>1, <2>4, <2>9, <3>4, ZenonT(30) DEF ReadInv, Written, Shows
  <2>10. ASSUME FreshTrailer(q)
         PROVE  /\ Len(out'[q]) = Len(Kept(S \ skipped'[q])[Edge(R, n + 1)])
                /\ MustVerify(q) => out'[q] = Kept(S \ skipped'[q])[Edge(R, n + 1)]
    <3>1. Position(q) = Current(q).end
        BY <1>2, <2>1, ZenonT(30) DEF Position
    <3>2. /\ Len(out[q]) = Len(Kept(S \ skipped[q])[Current(q).end])
          /\ MustVerify(q) => out[q] = Kept(S \ skipped[q])[Current(q).end]
        BY <2>1, <2>10, <3>1, ZenonT(30) DEF ReadInv, Written, Shows
    <3>3. S \in SUBSET Archived /\ Cover(S, R, ContentEnd) /\ n \in 0..Len(R)
        BY <2>3, <2>10, WantedArchived, SpansCover, SMTT(30)
    <3>4. Done(R, n) = Current(q).end
        BY <2>3, SMTT(30) DEF Done, Current
    <3>5. Kept(S \ skipped[q])[Edge(R, n + 1)] = Kept(S \ skipped[q])[Done(R, n)]
      <4> HIDE DEF S, R, n
      <4> QED BY <3>3, GapKept, ZenonT(30)
    <3> QED BY <2>4, <3>2, <3>4, <3>5, ZenonT(30)
  <2>11. ASSUME opts[q].keepGoing
         PROVE  /\ skipped'[q] = {i \in Before(S, Edge(R, n + 1)) : ChunksOf(i) \cap bad'[q] # {}}
                /\ n + 1 <= Len(R) =>
                     \A i \in Before(S, Edge(R, n + 1)) \ skipped'[q] :
                        LastChunk(i) < ChunkAt[R[n + 1].start] \/ LastChunk(i) = memo'[q]
    <3> DEFINE e == InOrder(S)[n]
               d == Current(q).end - 1
    <3>1. FreshTrailer(q) /\ pass[q] = 2
        BY <1>2, <2>11 DEF FreshTrailer, Writes
    <3>2. /\ S \in SUBSET Archived /\ e \in S
          /\ Current(q).start = Entries[e].offset /\ Current(q).end = EntryEnd(e)
          /\ Before(S, Edge(R, n + 1)) = Passed(q) \cup {e}
        BY <2>1, <2>11, NextEntry, ZenonT(30)
    <3>3. /\ skipped[q] = {i \in Passed(q) : ChunksOf(i) \cap bad[q] # {}}
          /\ \A o \in Current(q).start .. Current(q).end - 1 : ChunkAt[o] \notin bad[q]
          /\ memo[q] = ChunkAt[Current(q).end - 1]
        BY <2>1, <2>11, <3>1, ZenonT(30) DEF ReadInv, Proved
    <3>4. ChunksOf(e) \cap bad[q] = {}
        BY <3>2, <3>3 DEF ChunksOf
    <3>5. skipped[q] = {i \in Passed(q) \cup {e} : ChunksOf(i) \cap bad[q] # {}}
      <4> HIDE DEF e
      <4> QED BY <3>3, <3>4
    <3>6. ASSUME n + 1 <= Len(R), NEW i \in (Passed(q) \cup {e}) \ skipped[q]
          PROVE  LastChunk(i) < ChunkAt[R[n + 1].start] \/ LastChunk(i) = memo[q]
      <4> DEFINE o == R[n + 1].start
      <4>1. o \in 0 .. Total - 1 /\ Current(q).end <= o /\ d \in 0 .. Total - 1
          BY <2>1, <3>1, <3>6, NextStart, ZenonT(30)
      <4>2. memo[q] = ChunkAt[d] /\ ChunkAt[d] \in Nat /\ ChunkAt[o] \in Nat
          BY <3>3, <4>1, ChunkCovers, Sizes, SMTT(30)
      <4>3. ChunkAt[d] <= ChunkAt[o]
        <5>1. d <= o
            BY <2>3, <4>1, SMTT(30)
        <5> HIDE DEF d, o
        <5> QED BY <4>1, <5>1, ChunksGrow
      <4>4. LastChunk(i) \in Nat /\ LastChunk(i) <= ChunkAt[d]
        <5>1. CASE i = e
            BY <3>2, <4>2, <5>1, SMTT(30) DEF LastChunk
        <5>2. CASE i \in Passed(q)
          <6>1. d \in Current(q).start .. Total - 1
              BY <2>3, <4>1, SMTT(30)
          <6>2. LastChunk(i) \in Chunks /\ LastChunk(i) <= ChunkAt[d]
            <7> HIDE DEF d
            <7> QED BY <2>1, <2>11, <5>2, <6>1, PassedBehind
          <6> QED BY <6>2, Sizes, SMTT(30)
        <5> QED BY <3>6, <5>1, <5>2
      <4> HIDE DEF d, o
      <4>5. LastChunk(i) < ChunkAt[o] \/ LastChunk(i) = memo[q]
          BY <4>2, <4>3, <4>4, SMTT(30)
      <4> QED BY <4>5 DEF o
    <3> HIDE DEF e
    <3> QED BY <2>4, <3>2, <3>5, <3>6, ZenonT(30)
  <2>12. /\ UNCHANGED fixed /\ pc'[q] = "walk" /\ ranges'[q] = R /\ opts[q].cmd = "restore"
         /\ pc[q] \in {"create", "walk", "load"}
      BY <2>1, <2>3, <2>4, ZenonT(30) DEF Reading
  <2> QED BY <2>2, <2>5, <2>6, <2>7, <2>8, <2>9, <2>10, <2>11, <2>12, StartKeeps, ZenonT(30)
<1> QED BY <1>1, <1>2

\* A partial recovery drops the entry it is proving, for a chunk it cannot load.
LEMMA DropKeeps ==
  ASSUME Tables, Backup, NEW q \in Procs, ReadInv(q), Reading(q), InSpan(q), Fails(q),
         opts[q].keepGoing, pass[q] = 1, UNCHANGED <<fixed, ranges, memo>>,
         bad'[q] = bad[q] \cup {ChunkAt[off[q]]}, memo[q] # ChunkAt[off[q]], out'[q] = out[q]
  PROVE  ReadInv(q)'
<1> DEFINE S == Wanted(q)
           R == Spans(q)
           n == span[q]
           e == InOrder(S)[n]
           c == ChunkAt[off[q]]
<1>1. /\ skipped' = [skipped EXCEPT ![q] = @ \cup {e}]
      /\ span' = [span EXCEPT ![q] = @ + 1]
      /\ off' = [off EXCEPT ![q] = IF n < Len(ranges[q]) THEN ranges[q][n + 1].start ELSE @]
      /\ pc' = [pc EXCEPT ![q] = "walk"] /\ pass' = pass
    BY ZenonT(30) DEF Fails, Goto
<1>2. /\ skipped'[q] = skipped[q] \cup {e} /\ span'[q] = n + 1 /\ pc'[q] = "walk" /\ pass'[q] = 1
      /\ off'[q] = IF n < Len(ranges[q]) THEN ranges[q][n + 1].start ELSE off[q]
  <2> HIDE DEF e
  <2> QED BY <1>1 DEF Tables
<1>3. FreshTrailer(q) /\ Within(q) /\ ~Writes(q)
    BY SMTT(30) DEF FreshTrailer, Within, InSpan, Writes
<1>4. /\ ranges[q] = R /\ Len(R) \in Nat /\ n \in 1..Len(R)
      /\ Current(q).start \in Nat /\ Current(q).end \in Nat /\ off[q] \in Nat
      /\ Current(q).start <= off[q] /\ off[q] < Current(q).end /\ off[q] \in 0 .. Total - 1
    BY <1>3, WalkTypes, ZenonT(30)
<1>5. c \in Chunks /\ c \in Nat
    BY <1>4, ChunkCovers, Sizes, SMTT(30)
<1>6. /\ S \in SUBSET Archived /\ e \in S /\ e \notin Passed(q)
      /\ R = PerEntry(S) /\ n \in 1..Len(PerEntry(S)) /\ Current(q) = PerEntry(S)[n]
      /\ Current(q).start = Entries[e].offset /\ Current(q).end = EntryEnd(e)
      /\ Before(S, Edge(R, n + 1)) = Passed(q) \cup {e}
    BY <1>3, NextEntry, ZenonT(30)
<1>7. memo' = memo /\ ranges' = ranges /\ MustVerify(q)' = MustVerify(q)
    BY FixedKeeps
<1>8. n + 1 \in 1 .. Len(R) + 1 /\ (n + 1 <= Len(R) <=> n < Len(R))
    BY <1>4, SMTT(30)
<1>9. n + 1 <= Len(R) => off'[q] = R[n + 1].start
    BY <1>2, <1>4, <1>8, ZenonT(30)
<1>10. memo'[q] # NoChunk => /\ memo'[q] \in Chunks \ bad'[q]
                             /\ MustVerify(q) => damage[memo'[q]] # "altered"
  <2>1. memo[q] # NoChunk => /\ memo[q] \in Chunks \ bad[q]
                             /\ MustVerify(q) => damage[memo[q]] # "altered"
      BY ZenonT(30) DEF ReadInv, Placed
  <2>2. memo[q] \notin bad[q] => memo[q] \notin bad'[q]
      OBVIOUS
  <2> QED BY <1>7, <2>1, <2>2, ZenonT(30)
<1>11. Clean(q)'
    BY <1>7, ZenonT(30) DEF ReadInv, Clean
<1>12. /\ Len(out'[q]) = Len(Kept(S \ skipped'[q])[Edge(R, n + 1)])
       /\ MustVerify(q) => out'[q] = Kept(S \ skipped'[q])[Edge(R, n + 1)]
  <2>1. Position(q) = Current(q).start
      BY <1>3, ZenonT(30) DEF Position
  <2>2. /\ Len(out[q]) = Len(Kept(S \ skipped[q])[Current(q).start])
        /\ MustVerify(q) => out[q] = Kept(S \ skipped[q])[Current(q).start]
      BY <1>3, <2>1, ZenonT(30) DEF ReadInv, Written, Shows
  <2>3. Kept(S \ (skipped[q] \cup {e}))[Edge(PerEntry(S), n + 1)]
            = Kept(S \ skipped[q])[PerEntry(S)[n].start]
    <3>1. S \in SUBSET Archived /\ n \in 1..Len(PerEntry(S))
        BY <1>6, ZenonT(30)
    <3> DEFINE D == skipped[q]
    <3> HIDE DEF S, n, D
    <3>2. Kept(S \ (D \cup {e}))[Edge(PerEntry(S), n + 1)] = Kept(S \ D)[PerEntry(S)[n].start]
        BY <3>1, SkipKept, ZenonT(30)
    <3> QED BY <3>2, ZenonT(30) DEF D
  <2> HIDE DEF e, S, R, n
  <2> QED BY <1>2, <1>6, <2>2, <2>3, ZenonT(30)
<1>13. skipped[q] = {i \in Passed(q) : ChunksOf(i) \cap bad[q] # {}}
    BY ZenonT(30) DEF ReadInv, Proved
<1>14. ASSUME NEW i \in Passed(q) \ skipped[q]
       PROVE  i \in Archived /\ LastChunk(i) \in Nat /\ LastChunk(i) < c
  <2>1. LastChunk(i) < c \/ LastChunk(i) = memo[q]
      BY <1>3, ZenonT(30) DEF ReadInv, Proved
  <2>2. off[q] \in Current(q).start .. Total - 1
      BY <1>4, SMTT(30)
  <2>3. i \in Archived /\ LastChunk(i) \in Chunks /\ LastChunk(i) <= c
      BY <1>3, <2>2, PassedBehind, ZenonT(30)
  <2> HIDE DEF c
  <2> QED BY <1>5, <2>1, <2>3, Sizes, SMTT(30) DEF c
<1>15. skipped'[q] = {i \in Passed(q) \cup {e} : ChunksOf(i) \cap bad'[q] # {}}
  <2>1. c \in ChunksOf(e)
    <3>1. off[q] \in Entries[e].offset .. EntryEnd(e) - 1
      <4> DEFINE a == Current(q).start
                 b == Current(q).end
                 o == off[q]
      <4>1. Entries[e].offset = a /\ EntryEnd(e) = b
          BY <1>6
      <4>2. a \in Nat /\ b \in Nat /\ o \in Nat /\ a <= o /\ o < b
          BY <1>4
      <4> HIDE DEF a, b, o, e
      <4>3. o \in a .. b - 1
          BY <4>2, SMTT(30)
      <4> QED BY <4>1, <4>3 DEF o
    <3> QED BY <3>1, ZenonT(30) DEF ChunksOf
  <2>2. ASSUME NEW i \in Passed(q) \ skipped[q] PROVE ChunksOf(i) \cap bad'[q] = {}
    <3>1. c \notin ChunksOf(i)
      <4>1. i \in Archived /\ LastChunk(i) \in Nat /\ LastChunk(i) < c
          BY <1>14
      <4>2. \A x \in ChunksOf(i) : x \in Chunks /\ x <= LastChunk(i)
          BY <4>1, ChunksBounded
      <4> HIDE DEF c
      <4> QED BY <1>5, <4>1, <4>2, Sizes, SMTT(30)
    <3>2. ChunksOf(i) \cap bad[q] = {}
        BY <1>13, ZenonT(30)
    <3> HIDE DEF c
    <3> QED BY <3>1, <3>2, ZenonT(30) DEF c
  <2>3. ASSUME NEW i \in skipped[q] PROVE i \in Passed(q) /\ ChunksOf(i) \cap bad'[q] # {}
      BY <1>13
  <2>4. ChunksOf(e) \cap bad'[q] # {}
      BY <2>1
  <2> HIDE DEF e, c
  <2> QED BY <1>2, <2>2, <2>3, <2>4
<1>16. ASSUME n + 1 <= Len(R), NEW i \in (Passed(q) \cup {e}) \ skipped'[q]
       PROVE  LastChunk(i) < ChunkAt[R[n + 1].start] \/ LastChunk(i) = memo'[q]
  <2> DEFINE o == R[n + 1].start
  <2>1. o \in 0 .. Total - 1 /\ Current(q).end <= o
      BY <1>3, <1>16, NextStart, ZenonT(30)
  <2>2. off[q] <= o /\ o \in Nat
      BY <1>4, <2>1, SMTT(30)
  <2>3. c <= ChunkAt[o] /\ ChunkAt[o] \in Nat
    <3> HIDE DEF o
    <3> QED BY <1>4, <2>1, <2>2, ChunksGrow, ChunkCovers, Sizes, SMTT(30)
  <2>4. LastChunk(i) \in Nat /\ LastChunk(i) < c
    <3>1. i \in Passed(q) \ skipped[q]
      <4> HIDE DEF e
      <4> QED BY <1>2, <1>16
    <3> QED BY <1>14, <3>1, ZenonT(30)
  <2> HIDE DEF c, o
  <2>5. LastChunk(i) < ChunkAt[o]
      BY <1>5, <2>3, <2>4, SMTT(30)
  <2> QED BY <2>5 DEF o
<1>17. /\ pc[q] \in {"create", "walk", "load"} /\ opts[q].cmd = "restore" /\ ranges'[q] = R
    BY <1>4, <1>7 DEF Reading
<1>18. /\ skipped'[q] = {i \in Before(S, Edge(R, n + 1)) : ChunksOf(i) \cap bad'[q] # {}}
       /\ n + 1 <= Len(R) =>
             \A i \in Before(S, Edge(R, n + 1)) \ skipped'[q] :
                LastChunk(i) < ChunkAt[R[n + 1].start] \/ LastChunk(i) = memo'[q]
  <2> HIDE DEF e
  <2> QED BY <1>6, <1>15, <1>16, ZenonT(30)
<1> HIDE DEF e, c
<1> QED BY <1>2, <1>3, <1>8, <1>9, <1>10, <1>11, <1>12, <1>17, <1>18, StartKeeps, ZenonT(30)

\* A range meets a chunk that has failed before.
LEMMA KnownBadKeeps ==
  ASSUME Tables, Backup, NEW q \in Procs, ReadInv(q), KnownBad(q)
  PROVE  ReadInv(q)'
<1>1. /\ pc[q] = "walk" /\ Reading(q) /\ InSpan(q) /\ ChunkAt[off[q]] \in bad[q] /\ Fails(q)
      /\ UNCHANGED <<fixed, ranges, memo, bad, out>>
    BY ZenonT(30) DEF KnownBad, Streaming, Reading
<1>2. CASE opts[q].keepGoing /\ pass[q] = 1
  <2>1. bad'[q] = bad[q] \cup {ChunkAt[off[q]]} /\ out'[q] = out[q]
      BY <1>1
  <2>2. off[q] \in 0 .. Total - 1
      BY <1>1, WalkTypes
  <2>3. ChunkAt[off[q]] # NoChunk
      BY <2>2, ChunkCovers, Sizes, SMTT(30) DEF NoChunk
  <2>4. memo[q] # NoChunk => memo[q] \notin bad[q]
      BY <1>1, ZenonT(30) DEF ReadInv, Placed
  <2>5. memo[q] # ChunkAt[off[q]]
      BY <1>1, <2>3, <2>4
  <2> QED BY <1>1, <1>2, <2>1, <2>5, DropKeeps, ZenonT(30)
<1>3. CASE ~(opts[q].keepGoing /\ pass[q] = 1)
  <2>1. Abort(q)
      BY <1>1, <1>3, ZenonT(30) DEF Fails
  <2>2. Clean(q)'
      BY <1>1, FixedKeeps, ZenonT(30) DEF ReadInv, Clean
  <2> QED BY <1>1, <2>1, <2>2, AbortKeeps
<1> QED BY <1>2, <1>3

\* Bytes that were written before the chunk was found broken: never when it must be verified.
LEMMA LoadFailedKeeps ==
  ASSUME Tables, Backup, NEW q \in Procs, ReadInv(q), LoadFailed(q)
  PROVE  ReadInv(q)'
<1> DEFINE c == ChunkAt[off[q]]
           limit == IF task[q].at = "ready" /\ ~FreshTrailer(q) /\ ~MustVerify(q)
                    THEN Plain[c] - 1 ELSE 0
<1>1. /\ pc[q] = "load" /\ Reading(q) /\ Fails(q) /\ UNCHANGED <<fixed, ranges, memo>>
      /\ bad' = [bad EXCEPT ![q] = @ \cup {c}]
      /\ \E n \in 0 .. limit : out' = [out EXCEPT ![q] = @ \o [k \in 1..n |-> Junk]]
    BY ZenonT(30) DEF LoadFailed, Reading
<1>2. PICK n \in 0 .. limit : out' = [out EXCEPT ![q] = @ \o [k \in 1..n |-> Junk]]
    BY <1>1, ZenonT(30)
<1>3. n \in Nat /\ ((FreshTrailer(q) \/ MustVerify(q)) => n = 0)
  <2>1. n \in Nat
    <3> HIDE DEF limit
    <3> QED BY SMTT(30)
  <2>2. ASSUME FreshTrailer(q) \/ MustVerify(q) PROVE n = 0
    <3>1. limit = 0
        BY <2>2
    <3> HIDE DEF limit
    <3> QED BY <2>1, <3>1, SMTT(30)
  <2> QED BY <2>1, <2>2
<1>4. bad'[q] = bad[q] \cup {c} /\ out'[q] = out[q] \o [k \in 1..n |-> Junk]
    BY <1>1, <1>2, ZenonT(30) DEF Tables
<1>5. /\ out[q] \in Seq(Int)
      /\ MustVerify(q) => \A k \in 1 .. Len(out[q]) : out[q][k] # Junk
    BY ZenonT(30) DEF ReadInv, Clean
<1>6. ASSUME n = 0 PROVE out'[q] = out[q]
  <2>1. [k \in 1..n |-> Junk] = <<>>
      BY <1>6, SMTT(30)
  <2>2. out'[q] = out[q] \o <<>>
      BY <1>4, <2>1, ZenonT(30)
  <2> QED BY <1>5, <2>2, EmptyRun, ZenonT(30)
<1>7. out'[q] \in Seq(Int)
  <2> DEFINE j == [k \in 1..n |-> Junk]
  <2>1. j \in Seq(Int)
      BY <1>3, SMTT(30) DEF Junk
  <2>2. out'[q] = out[q] \o j
      BY <1>4, ZenonT(30)
  <2> HIDE DEF j
  <2> QED BY <1>5, <2>1, <2>2, SMTT(30)
<1>8. MustVerify(q)' = MustVerify(q)
    BY <1>1, FixedKeeps, ZenonT(30)
<1>9. Clean(q)'
    BY <1>3, <1>5, <1>6, <1>7, <1>8, ZenonT(30) DEF Clean
<1>10. CASE opts[q].keepGoing /\ pass[q] = 1
  <2>1. InSpan(q) /\ memo[q] = NoChunk
      BY <1>1, ZenonT(30) DEF ReadInv, Placed
  <2>2. off[q] \in 0 .. Total - 1
      BY <1>1, <2>1, WalkTypes, ZenonT(30)
  <2>3. memo[q] # c
      BY <2>1, <2>2, ChunkCovers, Sizes, SMTT(30) DEF NoChunk
  <2>4. out'[q] = out[q]
      BY <1>3, <1>6, <1>10, ZenonT(30) DEF FreshTrailer
  <2> QED BY <1>1, <1>4, <1>10, <2>1, <2>3, <2>4, DropKeeps, ZenonT(30)
<1>11. CASE ~(opts[q].keepGoing /\ pass[q] = 1)
  <2>1. Abort(q)
      BY <1>1, <1>11, ZenonT(30) DEF Fails
  <2> QED BY <1>1, <1>9, <2>1, AbortKeeps
<1> QED BY <1>10, <1>11

\* At its end the tar is that of the entries that were not dropped.
LEMMA EndStreamKeeps ==
  ASSUME Tables, Backup, NEW q \in Procs, ReadInv(q), EndStream(q)
  PROVE  ReadInv(q)'
<1> DEFINE S == Wanted(q)
           how == IF skipped[q] = {} THEN "ok" ELSE "failed"
<1>1. /\ Reading(q) /\ span[q] > Len(ranges[q])
      /\ out' = [out EXCEPT ![q] = IF FreshTrailer(q) THEN @ \o <<Zero, Zero>> ELSE @]
      /\ Exit(q, how) /\ UNCHANGED <<fixed, walking, file>>
    BY DEF EndStream, Streaming, Reading
<1>2. /\ pc'[q] = "done" /\ result'[q] = how
      /\ out'[q] = IF FreshTrailer(q) THEN out[q] \o <<Zero, Zero>> ELSE out[q]
    BY <1>1 DEF Exit, Goto, Tables
<1>3. /\ opts' = opts /\ S' = S /\ MustVerify(q)' = MustVerify(q)
      /\ Verifying(q)' = Verifying(q) /\ bad' = bad /\ skipped' = skipped /\ file' = file
    BY <1>1, FixedKeeps, ZenonT(30) DEF walking
<1>4. ~Within(q) /\ S \in SUBSET Archived
    BY <1>1, WalkTypes, WantedArchived, SMTT(30) DEF Within
<1>5. Position(q) = ContentEnd /\ Frontier(q) = ContentEnd
    BY <1>4, ZenonT(30) DEF Position, Frontier, Edge, Within
<1>6. skipped[q] = {i \in S : ChunksOf(i) \cap bad[q] # {}}
  <2>1. CASE opts[q].keepGoing
    <3>1. Passed(q) = S
        BY <1>4, <1>5, BeforeLast DEF Passed
    <3> QED BY <1>1, <2>1, <3>1, ZenonT(30) DEF ReadInv, Proved
  <2>2. CASE ~opts[q].keepGoing
    <3>1. bad[q] = {} /\ skipped[q] = {}
        BY <1>1, <2>2, ZenonT(30) DEF ReadInv, Placed
    <3> QED BY <3>1
  <2> QED BY <2>1, <2>2, ZenonT(30)
<1>7. out[q] \in Seq(Int) /\ (MustVerify(q) => \A k \in 1 .. Len(out[q]) : out[q][k] # Junk)
    BY DEF ReadInv, Clean
<1>8. Clean(q)'
  <2>1. CASE ~FreshTrailer(q)
    <3>1. out'[q] = out[q]
        BY <1>2, <2>1
    <3> QED BY <1>3, <1>7, <3>1, ZenonT(30) DEF Clean
  <2>2. CASE FreshTrailer(q)
    <3>1. out'[q] = out[q] \o <<Zero, Zero>> /\ Zero \in Int /\ Zero # Junk
        BY <1>2, <2>2, SMTT(30) DEF Zero, Junk
    <3> DEFINE z == Zero
    <3> HIDE DEF z
    <3>2. out'[q] = out[q] \o <<z, z>> /\ z \in Int /\ z # Junk
        BY <3>1 DEF z
    <3>3. out'[q] \in Seq(Int)
        BY <1>7, <3>2, SMTT(30)
    <3>4. ASSUME MustVerify(q), NEW k \in 1 .. Len(out'[q]) PROVE out'[q][k] # Junk
      <4>1. CASE k <= Len(out[q])
          BY <1>7, <3>2, <3>4, <4>1, SMTT(30)
      <4>2. CASE ~(k <= Len(out[q]))
          BY <1>7, <3>2, <4>2, SMTT(30)
      <4> QED BY <4>1, <4>2
    <3> QED BY <1>3, <3>3, <3>4, ZenonT(30) DEF Clean
  <2> QED BY <2>1, <2>2
<1>9. /\ Len(out'[q]) = Len(Tar(S \ skipped[q]))
      /\ MustVerify(q) => out'[q] = Tar(S \ skipped[q])
  <2>1. CASE ~FreshTrailer(q)
    <3>1. S = Archived /\ skipped[q] = {}
        BY <1>1, <2>1, SpansCover, ZenonT(30) DEF ReadInv, Placed, FreshTrailer
    <3>2. S \ skipped[q] = Archived
        BY <3>1
    <3>3. out'[q] = out[q]
        BY <1>2, <2>1
    <3>4. /\ Len(out[q]) = Len(Blocks(0, Total)) /\ (MustVerify(q) => out[q] = Blocks(0, Total))
        BY <1>1, <1>4, <2>1, ZenonT(30) DEF ReadInv, Written, Shows
    <3> QED BY <3>2, <3>3, <3>4, WholeTar, ZenonT(30)
  <2>2. CASE FreshTrailer(q)
    <3> DEFINE v == Kept(S \ skipped[q])[ContentEnd]
               z == <<Zero, Zero>>
    <3>1. out'[q] = out[q] \o z /\ Tar(S \ skipped[q]) = v \o z
        BY <1>2, <2>2 DEF Tar
    <3>2. Len(out[q]) = Len(v) /\ (MustVerify(q) => out[q] = v)
        BY <1>1, <1>5, <2>2, ZenonT(30) DEF ReadInv, Written, Shows
    <3>3. ContentEnd \in 0 .. ContentEnd
        BY Sizes, SMTT(30)
    <3>4. v \in Seq(Int)
        BY <3>3, KeptTyped, ZenonT(30)
    <3>5. z \in Seq(Int)
        BY SMTT(30) DEF Zero
    <3> HIDE DEF v, z
    <3>6. Alike(out[q], z, v, z)
        BY <1>7, <3>2, <3>4, <3>5, ZenonT(30) DEF Alike
    <3>7. Len(out[q] \o z) = Len(v \o z)
        BY <3>6, ConcatLen, SMTT(30)
    <3> QED BY <3>1, <3>2, <3>7, ZenonT(30)
  <2> QED BY <2>1, <2>2
<1>10. KeptTar(q)'
  <2>1. (result'[q] = "ok") <=> (skipped[q] = {})
      BY <1>2
  <2> QED BY <1>3, <1>6, <1>9, <2>1, ZenonT(30) DEF KeptTar
<1>11. Fresh(q)' /\ ~Reading(q)' /\ Opened(q)'
    BY <1>2 DEF Fresh, Reading, Opened
<1>12. Filed(q)'
    BY <1>1, <1>2, <1>3 DEF Filed, Reading
<1>13. Placed(q)' /\ Written(q)' /\ Proved(q)'
    BY <1>11, ZenonT(30) DEF Placed, Written, Proved
<1>14. Verified(q)'
  <2>1. ~Verifying(q)
      BY <1>1 DEF Reading, Verifying
  <2> QED BY <1>3, <2>1, ZenonT(30) DEF Verified
<1> QED BY <1>8, <1>10, <1>11, <1>12, <1>13, <1>14, ZenonT(30) DEF ReadInv, Finished

-----------------------------------------------------------------------------
(* The theorems.                                                           *)

\* Every step of a command keeps its own part of the invariant.
LEMMA CommandKeeps ==
  ASSUME Tables, Backup, NEW q \in Procs, ReadInv(q), Step(q)
  PROVE  ReadInv(q)'
<1>1. CASE OpenBackup(q)
    BY <1>1, OpenBackupKeeps
<1>2. CASE Unlock(q)
    BY <1>2, UnlockKeeps
<1>3. CASE ReadIndex(q)
    BY <1>3, ReadIndexKeeps
<1>4. CASE CreateTar(q)
    BY <1>4, CreateTarKeeps
<1>5. CASE Load(q)
    BY <1>5, LoadKeeps
<1>6. CASE KnownBad(q)
    BY <1>6, KnownBadKeeps
<1>7. CASE Loaded(q)
    BY <1>7, LoadedKeeps
<1>8. CASE LoadFailed(q)
    BY <1>8, LoadFailedKeeps
<1>9. CASE Consume(q)
    BY <1>9, ConsumeKeeps
<1>10. CASE NextSpan(q)
    BY <1>10, NextSpanKeeps
<1>11. CASE EndStream(q)
    BY <1>11, EndStreamKeeps
<1>12. CASE VerifyLoad(q)
    BY <1>12, VerifyLoadKeeps
<1>13. CASE VerifyChunk(q)
    BY <1>13, VerifyChunkKeeps
<1>14. CASE VerifyEnd(q)
    BY <1>14, VerifyEndKeeps
<1>15. CASE UNCHANGED readVars
  <2>1. /\ UNCHANGED fixed /\ pc' = pc /\ ranges' = ranges /\ span' = span /\ pass' = pass
        /\ off' = off /\ memo' = memo /\ bad' = bad /\ skipped' = skipped
        /\ out' = out /\ file' = file /\ result' = result
      BY <1>15 DEF readVars, fixed
  <2> QED BY <2>1, SameKeeps
<1>16. CASE Interrupted(q)
    BY <1>16, InterruptedKeeps
<1>17. CASE Killed(q)
    BY <1>17, KilledKeeps
<1> QED BY <1>1, <1>2, <1>3, <1>4, <1>5, <1>6, <1>7, <1>8, <1>9, <1>10, <1>11, <1>12, <1>13,
           <1>14, <1>15, <1>16, <1>17, ZenonT(30) DEF Step, Command

\* Commands start with nothing behind them, and a cache of complete files.
LEMMA InitHolds == RestoreInit => RestoreInv
<1> SUFFICES ASSUME RestoreInit PROVE RestoreInv
    OBVIOUS
<1>1. Tables /\ Backup
    BY DEF RestoreInit, Tables, Backup
<1>2. CacheWhole
  <2>1. PICK before \in SUBSET Layers :
            /\ cached = [l \in Layers |-> IF l \in before THEN Whole(l) ELSE NoFile]
            /\ tmp = [p \in Procs |-> NoFile] /\ task = [p \in Procs |-> Idle]
      BY ZenonT(30) DEF RestoreInit, CacheInit
  <2>2. DOMAIN cached = Layers /\ DOMAIN tmp = Procs /\ DOMAIN task = Procs
      BY <2>1
  <2>3. \A l \in Layers : cached[l] \in {NoFile, Whole(l)}
      BY <2>1
  <2>4. \A p \in Procs : task[p].at # "keep"
      BY <2>1 DEF Idle
  <2> QED BY <2>2, <2>3, <2>4, ZenonT(30) DEF CacheWhole
<1>3. ASSUME NEW p \in Procs PROVE ReadInv(p)
  <2>1. /\ pc[p] = "off" /\ span[p] = 1 /\ pass[p] = 1 /\ off[p] = 0 /\ memo[p] = NoChunk
        /\ bad[p] = {} /\ skipped[p] = {} /\ out[p] = <<>> /\ result[p] = "none"
      BY DEF RestoreInit
  <2>2. file[p] # "new"
      BY DEF RestoreInit
  <2>3. Fresh(p) /\ ~Reading(p) /\ Opened(p) /\ Filed(p) /\ Finished(p)
      BY <2>1, <2>2 DEF Fresh, Reading, Opened, Filed, Finished
  <2>4. Placed(p) /\ Written(p) /\ Proved(p)
      BY <2>3, ZenonT(30) DEF Placed, Written, Proved
  <2>5. Clean(p)
      BY <2>1, SMTT(30) DEF Clean
  <2>6. Verified(p)
      BY <2>1, Sizes, SMTT(30) DEF Verified
  <2> QED BY <2>3, <2>4, <2>5, <2>6, ZenonT(30) DEF ReadInv
<1> QED BY <1>1, <1>2, <1>3, ZenonT(30) DEF RestoreInv

\* The invariant is inductive.
LEMMA StepHolds == RestoreInv /\ [RestoreNext]_vars => RestoreInv'
<1> SUFFICES ASSUME RestoreInv, [RestoreNext]_vars PROVE RestoreInv'
    OBVIOUS
<1>1. Tables /\ Backup /\ CacheWhole /\ \A p \in Procs : ReadInv(p)
    BY ZenonT(30) DEF RestoreInv
<1>2. CASE RestoreNext
  <2>1. PICK q \in Procs : Step(q)
      BY <1>2, ZenonT(30) DEF RestoreNext, Step
  <2>2. Local(q)
      BY <2>1, StepLocal
  <2>3. Tables'
      BY <1>1, <2>2, TablesKeep
  <2>4. UNCHANGED fixed
      BY <2>2, ZenonT(30) DEF Local
  <2>5. Backup'
      BY <1>1, <2>4, ZenonT(30) DEF Backup, fixed
  <2>6. CacheWhole'
      BY <1>1, <2>1, CacheKeeps
  <2>7. ASSUME NEW p \in Procs PROVE ReadInv(p)'
    <3>1. CASE p = q
        BY <1>1, <2>1, <3>1, CommandKeeps
    <3>2. CASE p # q
        BY <1>1, <2>2, <3>2, OthersKeep
    <3> QED BY <3>1, <3>2
  <2> QED BY <2>3, <2>5, <2>6, <2>7, ZenonT(30) DEF RestoreInv
<1>3. CASE UNCHANGED vars
  <2>1. /\ UNCHANGED fixed /\ pc' = pc /\ ranges' = ranges /\ span' = span /\ pass' = pass
        /\ off' = off /\ memo' = memo /\ bad' = bad /\ skipped' = skipped
        /\ out' = out /\ file' = file /\ result' = result
      BY <1>3 DEF vars, readVars, fixed
  <2>2. cached' = cached /\ tmp' = tmp /\ task' = task
      BY <1>3 DEF vars, cacheVars
  <2>3. Tables' /\ CacheWhole'
      BY <1>1, <2>1, <2>2, ZenonT(30) DEF Tables, CacheWhole
  <2>4. Backup'
      BY <1>1, <2>1, ZenonT(30) DEF Backup, fixed
  <2>5. ASSUME NEW p \in Procs PROVE ReadInv(p)'
      BY <1>1, <2>1, SameKeeps
  <2> QED BY <2>3, <2>4, <2>5, ZenonT(30) DEF RestoreInv
<1> QED BY <1>2, <1>3

\* The invariant holds of every command, whatever the others and the cache do.
THEOREM Invariance == RestoreSpec => []RestoreInv
BY InitHolds, StepHolds, PTL DEF RestoreSpec

\* The cache never names part of a layer (CachedWhole), however many restores build, evict
\* and die at once: what materialize renames is complete.
THEOREM CacheIsWhole == RestoreSpec => []CachedWhole
<1>1. RestoreInv => CachedWhole
    BY DEF RestoreInv, CacheWhole, CachedWhole, Present
<1> QED BY <1>1, Invariance, PTL

\* A byte the backup does not vouch for never reaches a tar (OnlyVerifiedBytes), not even
\* that of a restore that then fails: streamOneChunk and plainChunkBytes verify a chunk
\* before it is written.
THEOREM BytesAreVerified == RestoreSpec => []OnlyVerifiedBytes
<1>1. RestoreInv => OnlyVerifiedBytes
  <2> SUFFICES ASSUME RestoreInv, NEW p \in Procs, opts[p].verify \/ encrypted
               PROVE  Junk \notin Range(out[p])
      BY ZenonT(30) DEF OnlyVerifiedBytes
  <2>1. MustVerify(p) /\ Clean(p)
      BY ZenonT(30) DEF RestoreInv, ReadInv, MustVerify
  <2>2. out[p] \in Seq(Int) /\ \A k \in 1 .. Len(out[p]) : out[p][k] # Junk
      BY <2>1 DEF Clean
  <2>3. DOMAIN out[p] = 1 .. Len(out[p])
      BY <2>2, SMTT(30)
  <2> QED BY <2>2, <2>3, ZenonT(30) DEF Range
<1> QED BY <1>1, Invariance, PTL

\* What restore and verify answer is true (SuccessIsTrue): the tar restore keeps is the
\* archive's records of the entries asked for, whole and in order, without exactly those a
\* chunk that failed touches, which its exit code says; and verify answers ok only for a
\* backup that is intact.
THEOREM AnswersAreTrue == RestoreSpec => []SuccessIsTrue
<1>1. RestoreInv => KeptTarIsWhole
    BY ZenonT(30) DEF RestoreInv, ReadInv, Finished, KeptTar, KeptTarIsWhole
<1>2. RestoreInv => VerifiedIsIntact
    BY ZenonT(30) DEF RestoreInv, ReadInv, Verified, Intact, VerifiedIsIntact
<1>3. RestoreInv => SuccessIsTrue
    BY <1>1, <1>2, ZenonT(30) DEF SuccessIsTrue
<1> QED BY <1>3, Invariance, PTL

=============================================================================
