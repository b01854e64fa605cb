----------------------------- MODULE RestoreSteps -----------------------------
(***************************************************************************)
(* The facts the proofs about Restore rest on, for every archive: which    *)
(* chunk covers a block, how the entries tile the archive, that the ranges *)
(* a stream walks cover exactly the blocks of the entries asked for.  Then *)
(* the inductive invariant, and the steps that keep it before and beside   *)
(* the walk; the walk itself is in RestoreProofs.                          *)
(*                                                                         *)
(* The loops of the code are recursive functions.  What they compute is    *)
(* proved by induction, in the form the provers can use: a set of numbers  *)
(* that holds 0 and the successors of its elements holds all of 0..N       *)
(* (Induction), from the well-foundedness of < on Nat.                     *)
(***************************************************************************)
EXTENDS Restore, TLAPS, WellFoundedInduction

\* A leaf that names no prover is left to Zenon; arithmetic and tuples go to the SMT solver.
USE ZenonT(30)

-----------------------------------------------------------------------------
(* Induction and recursion.                                                *)

\* A non-empty set of natural numbers has a least element.
LEMMA LeastNumber ==
  ASSUME NEW T \in SUBSET Nat, T # {}
  PROVE  \E x \in T : \A y \in T : x <= y
<1> DEFINE R == {ss \in Nat \X Nat : ss[1] < ss[2]}
<1>1. IsWellFoundedOn(R, Nat)
    BY NatLessThanWellFounded, ZenonT(30) DEF OpToRel
<1>2. \A x, y \in Nat : x < y => <<x, y>> \in R
    OBVIOUS
<1> HIDE DEF R
<1>3. PICK x \in T : \A y \in T : ~(<<y, x>> \in R)
    BY <1>1, WFMin, ZenonT(30)
<1>4. \A y \in T : ~(y < x)
    BY <1>2, <1>3, ZenonT(30)
<1> QED BY <1>4, SMTT(30)

\* A set that has 0 and the successors of its elements has all of 0..N.
LEMMA Induction ==
  ASSUME NEW N \in Nat, NEW P, 0 \in P, \A n \in 1..N : n - 1 \in P => n \in P
  PROVE  0..N \subseteq P
<1> SUFFICES ASSUME NEW m \in 0..N, m \notin P PROVE FALSE
    OBVIOUS
<1> DEFINE T == {n \in 0..N : n \notin P}
<1>1. PICK x \in T : \A y \in T : x <= y
  <2>1. T \in SUBSET Nat /\ T # {}
      BY SMTT(30)
  <2> QED BY <2>1, LeastNumber, ZenonT(30)
<1>2. x \in 1..N /\ x - 1 \in P
    BY <1>1, SMTT(30)
<1> QED BY <1>1, <1>2

\* What a loop of N rounds over values of V computes: G[n] is round n, from a.
Loop(f, N, V, a, G) ==
    f \in [0..N -> V] /\ f[0] = a /\ \A n \in 1..N : f[n] = G[n][f[n - 1]]

\* A loop over values of V has a value after every round, so the function it is written
\* as exists.
LEMMA LoopExists ==
  ASSUME NEW N \in Nat, NEW V, NEW a \in V, NEW G \in [1..N -> [V -> V]]
  PROVE  \E f : Loop(f, N, V, a, G)
<1> DEFINE P == {k \in 0..N : \E f : Loop(f, k, V, a, G)}
<1>1. 0 \in P
  <2>1. Loop([n \in 0..0 |-> a], 0, V, a, G)
      BY SMTT(30) DEF Loop
  <2>2. 0 \in 0..N
      BY SMTT(30)
  <2> QED BY <2>1, <2>2, ZenonT(30)
<1>2. ASSUME NEW k \in 1..N, k - 1 \in P PROVE k \in P
  <2>1. PICK f : Loop(f, k - 1, V, a, G)
      BY <1>2
  <2> DEFINE g == [n \in 0..k |-> IF n = k THEN G[k][f[k - 1]] ELSE f[n]]
  <2>2. f[k - 1] \in V /\ G[k] \in [V -> V]
      BY <2>1, SMTT(30) DEF Loop
  <2>3. g \in [0..k -> V]
      BY <2>1, <2>2, SMTT(30) DEF Loop
  <2>4. g[0] = a
      BY <2>1, SMTT(30) DEF Loop
  <2>5. ASSUME NEW n \in 1..k PROVE g[n] = G[n][g[n - 1]]
      BY <2>1, SMTT(30) DEF Loop
  <2>6. Loop(g, k, V, a, G)
      BY <2>3, <2>4, <2>5, ZenonT(30) DEF Loop
  <2>7. k \in 0..N
      BY SMTT(30)
  <2> HIDE DEF g
  <2> QED BY <2>6, <2>7, ZenonT(30)
<1> HIDE DEF P
<1>3. 0..N \subseteq P
    BY <1>1, <1>2, Induction, ZenonT(30)
<1>4. N \in P
    BY <1>3, SMTT(30)
<1> QED BY <1>4, ZenonT(30) DEF P

-----------------------------------------------------------------------------
(* Sequences of blocks.                                                    *)

\* The empty sequence is one, and leaves what it is joined to as it is.
LEMMA EmptyRun ==
  /\ <<>> \in Seq(Int)
  /\ \A s \in Seq(Int) : s \o <<>> = s
BY SMTT(30)

\* Two sequences are equal when they agree place by place.
LEMMA SameRun ==
  ASSUME NEW s \in Seq(Int), NEW t \in Seq(Int),
         Len(s) = Len(t), \A i \in 1..Len(s) : s[i] = t[i]
  PROVE  s = t
BY SMTT(30)

\* Joining adds the lengths.
LEMMA JoinLength ==
  ASSUME NEW s \in Seq(Int), NEW t \in Seq(Int)
  PROVE  Len(s \o t) = Len(s) + Len(t)
BY SMTT(30)

\* Joining is associative.
LEMMA JoinAssociative ==
  ASSUME NEW s \in Seq(Int), NEW t \in Seq(Int), NEW u \in Seq(Int)
  PROVE  (s \o t) \o u = s \o (t \o u)
BY SMTT(30)

\* Appending a block joins a sequence of one.
LEMMA AppendIsJoin ==
  ASSUME NEW s \in Seq(Int), NEW c \in Int
  PROVE  Append(s, c) \in Seq(Int) /\ Append(s, c) = s \o <<c>>
BY SMTT(30)

-----------------------------------------------------------------------------
(* Chunks.                                                                 *)

\* computeLayout: the prefix sums are what their loop computes.
LEMMA PrefixLoop ==
  prefix = [i \in 0..Len(Plain) |-> IF i = 0 THEN 0 ELSE prefix[i - 1] + Plain[i]]
<1> DEFINE N == Len(Plain)
           G == [i \in 1..N |-> [v \in Nat |-> v + Plain[i]]]
           Sums(f) == f = [i \in 0..N |-> IF i = 0 THEN 0 ELSE f[i - 1] + Plain[i]]
<1>1. N \in Nat /\ \A i \in 1..N : Plain[i] \in Nat
    BY RestoreAssumption, SMTT(30)
<1>2. G \in [1..N -> [Nat -> Nat]]
    BY <1>1, SMTT(30)
<1>3. \A i \in 1..N, v \in Nat : G[i][v] = v + Plain[i]
    OBVIOUS
<1> HIDE DEF N, G
<1>4. PICK f : Loop(f, N, Nat, 0, G)
  <2>1. 0 \in Nat
      OBVIOUS
  <2> QED BY <1>1, <1>2, <2>1, LoopExists, ZenonT(30)
<1>5. \A i \in 1..N : f[i - 1] \in Nat
    BY <1>1, <1>4, SMTT(30) DEF Loop
<1>6. \A i \in 1..N : f[i] = f[i - 1] + Plain[i]
    BY <1>3, <1>4, <1>5 DEF Loop
<1>7. Sums(f)
    BY <1>1, <1>4, <1>6, SMTT(30) DEF Loop
<1>8. prefix = CHOOSE g : Sums(g)
    BY ZenonT(30) DEF prefix, N
<1> HIDE DEF Sums
<1>9. Sums(prefix)
    BY <1>7, <1>8, ZenonT(30)
<1> QED BY <1>9 DEF Sums, N

\* computeLayout: each prefix is the one before and the size of the chunk.
LEMMA PrefixSums ==
  /\ prefix \in [0..Len(Plain) -> Nat]
  /\ prefix[0] = 0
  /\ \A i \in Chunks : prefix[i] = prefix[i - 1] + Plain[i]
<1> DEFINE N == Len(Plain)
<1>1. N \in Nat /\ Chunks = 1..N /\ \A i \in 1..N : Plain[i] \in Nat
    BY RestoreAssumption, SMTT(30) DEF Chunks
<1>2. prefix = [i \in 0..N |-> IF i = 0 THEN 0 ELSE prefix[i - 1] + Plain[i]]
    BY PrefixLoop
<1> HIDE DEF N
<1>3. prefix[0] = 0 /\ \A i \in 1..N : prefix[i] = prefix[i - 1] + Plain[i]
    BY <1>1, <1>2, SMTT(30)
<1>4. \A i \in 0..N : prefix[i] \in Nat
  <2> DEFINE P == {i \in 0..N : prefix[i] \in Nat}
  <2>1. 0 \in P
      BY <1>1, <1>3, SMTT(30)
  <2>2. \A i \in 1..N : i - 1 \in P => i \in P
      BY <1>1, <1>3, SMTT(30)
  <2> HIDE DEF P
  <2>3. 0..N \subseteq P
      BY <1>1, <2>1, <2>2, Induction, ZenonT(30)
  <2> QED BY <2>3 DEF P
<1>5. prefix \in [0..N -> Nat]
    BY <1>2, <1>4
<1> QED BY <1>1, <1>3, <1>5 DEF N

\* The archive ends with the two blocks of its trailer.
LEMMA Sizes ==
  /\ Total \in Nat /\ ContentEnd \in Nat /\ ContentEnd = Total - 2
  /\ Len(Plain) \in Nat /\ Chunks = 1..Len(Plain)
<1>1. Len(Plain) \in Nat /\ Chunks = 1..Len(Plain)
    BY RestoreAssumption, SMTT(30) DEF Chunks
<1>2. Total \in Nat
    BY <1>1, PrefixSums, SMTT(30) DEF Total
<1>3. Total >= 2
    BY RestoreAssumption
<1> QED BY <1>1, <1>2, <1>3, SMTT(30) DEF ContentEnd

\* The least of a set of numbers, as the library defines it.
LEMMA MinIsLeast ==
  ASSUME NEW T \in SUBSET Nat, T # {}
  PROVE  Min(T) \in T /\ \A y \in T : Min(T) <= y
BY LeastNumber, ZenonT(30) DEF Min

\* sort.Search finds the first chunk that ends after the block.
LEMMA ChunkCovers ==
  ASSUME NEW o \in 0 .. Total - 1
  PROVE  /\ ChunkAt[o] \in Chunks /\ o < prefix[ChunkAt[o]]
         /\ \A j \in Chunks : o < prefix[j] => ChunkAt[o] <= j
<1> DEFINE T == {i \in Chunks : prefix[i] > o}
<1>1. Len(Plain) \in T
    BY Sizes, PrefixSums, SMTT(30) DEF Total
<1>2. T \in SUBSET Nat
    BY Sizes, SMTT(30)
<1>3. ChunkAt[o] = Min(T)
    BY DEF ChunkAt
<1> HIDE DEF T
<1>4. ChunkAt[o] \in T /\ \A y \in T : ChunkAt[o] <= y
    BY <1>1, <1>2, <1>3, MinIsLeast, SMTT(30)
<1> QED BY <1>4 DEF T

\* The blocks from o to the end of its chunk lie in that chunk.
LEMMA SameChunk ==
  ASSUME NEW o \in 0 .. Total - 1, NEW x \in 0 .. Total - 1, o <= x, x < prefix[ChunkAt[o]]
  PROVE  ChunkAt[x] = ChunkAt[o]
<1>1. ChunkAt[x] <= ChunkAt[o]
    BY ChunkCovers
<1>2. ChunkAt[o] <= ChunkAt[x]
  <2>1. o < prefix[ChunkAt[x]]
      BY ChunkCovers, Sizes, PrefixSums, SMTT(30)
  <2> QED BY <2>1, ChunkCovers
<1> QED BY <1>1, <1>2, ChunkCovers, Sizes, SMTT(30)

\* A later block is in the same chunk or a later one.
LEMMA ChunksGrow ==
  ASSUME NEW o \in 0 .. Total - 1, NEW x \in 0 .. Total - 1, o <= x
  PROVE  ChunkAt[o] <= ChunkAt[x]
<1>1. o < prefix[ChunkAt[x]]
    BY ChunkCovers, Sizes, PrefixSums, SMTT(30)
<1> QED BY <1>1, ChunkCovers

-----------------------------------------------------------------------------
(* Entries.                                                                *)

\* The first n records end where the next one starts.
Tile(n) == IF n = 0 THEN 0 ELSE EntryEnd(n)

\* Every entry has at least one block.
LEMMA EntryTypes ==
  /\ Len(Entries) \in Nat /\ Archived = 1..Len(Entries)
  /\ \A i \in Archived : /\ Entries[i].offset \in Nat /\ EntryEnd(i) \in Nat
                         /\ Entries[i].offset < EntryEnd(i)
<1>1. Len(Entries) \in Nat /\ Archived = 1..Len(Entries)
    BY RestoreAssumption, SMTT(30) DEF Archived
<1>2. \A i \in Archived : Entries[i].offset \in Nat
  <2> DEFINE Entry == [offset : Nat, parents : SUBSET Archived, link : Archived \cup {NoLink}]
  <2>1. Entries \in Seq(Entry)
      BY RestoreAssumption
  <2>2. \A e \in Entry : e.offset \in Nat
      OBVIOUS
  <2> HIDE DEF Entry
  <2>3. \A i \in Archived : Entries[i] \in Entry
      BY <1>1, <2>1, SMTT(30)
  <2> QED BY <2>2, <2>3
<1>3. \A i \in Archived : EntryEnd(i) \in Nat
    BY <1>1, <1>2, Sizes, SMTT(30) DEF EntryEnd
<1>4. \A i \in Archived : Entries[i].offset < EntryEnd(i)
    BY RestoreAssumption
<1> QED BY <1>1, <1>2, <1>3, <1>4

\* The records tile the archive up to its trailer.
LEMMA Tiles ==
  /\ \A n \in 0..Len(Entries) : Tile(n) \in Nat
  /\ \A n \in Archived : /\ Entries[n].offset = Tile(n - 1) /\ EntryEnd(n) = Tile(n)
                         /\ Tile(n - 1) < Tile(n)
  /\ Tile(Len(Entries)) = ContentEnd
<1>1. \A n \in 0..Len(Entries) : Tile(n) \in Nat
    BY EntryTypes, SMTT(30) DEF Tile
<1>2. ASSUME NEW n \in Archived PROVE Entries[n].offset = Tile(n - 1)
  <2>1. CASE n = 1
    <3>1. Entries # <<>>
        BY EntryTypes, SMTT(30)
    <3> QED BY <2>1, <3>1, RestoreAssumption, SMTT(30) DEF Tile
  <2>2. CASE n # 1
      BY <2>2, EntryTypes, SMTT(30) DEF Tile, EntryEnd
  <2> QED BY <2>1, <2>2
<1>3. \A n \in Archived : EntryEnd(n) = Tile(n)
    BY EntryTypes, SMTT(30) DEF Tile
<1>4. Tile(Len(Entries)) = ContentEnd
  <2>1. CASE Entries = <<>>
      BY <2>1, RestoreAssumption DEF Tile
  <2>2. CASE Entries # <<>>
    <3>1. Len(Entries) # 0
        BY <2>2, RestoreAssumption, SMTT(30)
    <3> QED BY <3>1, EntryTypes, SMTT(30) DEF Tile, EntryEnd
  <2> QED BY <2>1, <2>2
<1> QED BY <1>1, <1>2, <1>3, <1>4, EntryTypes

\* The entries lie one after the other.
LEMMA TilesGrow ==
  ASSUME NEW n \in 0..Len(Entries), NEW m \in 0..n
  PROVE  Tile(m) <= Tile(n)
<1> DEFINE P == {k \in 0..Len(Entries) : \A j \in 0..k : Tile(j) <= Tile(k)}
<1>1. 0 \in P
    BY EntryTypes, Tiles, SMTT(30)
<1>2. ASSUME NEW k \in 1..Len(Entries), k - 1 \in P PROVE k \in P
  <2>1. Tile(k - 1) \in Nat /\ Tile(k) \in Nat /\ Tile(k - 1) < Tile(k)
      BY EntryTypes, Tiles, ZenonT(30)
  <2>2. ASSUME NEW j \in 0..k PROVE Tile(j) <= Tile(k)
    <3>1. CASE j = k
        BY <2>1, <3>1, SMTT(30)
    <3>2. CASE j # k
      <4>1. j \in 0..k - 1 /\ Tile(j) \in Nat
          BY <3>2, EntryTypes, Tiles, SMTT(30)
      <4>2. Tile(j) <= Tile(k - 1)
          BY <1>2, <4>1
      <4> QED BY <2>1, <4>1, <4>2, SMTT(30)
    <3> QED BY <3>1, <3>2
  <2> QED BY <2>2, SMTT(30)
<1> HIDE DEF P
<1>3. 0..Len(Entries) \subseteq P
    BY <1>1, <1>2, EntryTypes, Induction, ZenonT(30)
<1> QED BY <1>3 DEF P

\* A block belongs to one record.
LEMMA OneRecord ==
  ASSUME NEW i \in Archived, NEW j \in Archived, NEW o \in Int,
         Entries[i].offset <= o, o < EntryEnd(i), Entries[j].offset <= o, o < EntryEnd(j)
  PROVE  i = j
<1>1. ASSUME NEW a \in Archived, NEW b \in Archived, a < b
      PROVE  EntryEnd(a) <= Entries[b].offset
  <2>1. a \in 0 .. b - 1 /\ b - 1 \in 0 .. Len(Entries)
      BY <1>1, EntryTypes, SMTT(30)
  <2>2. Tile(a) <= Tile(b - 1)
      BY <2>1, TilesGrow
  <2> QED BY <2>2, Tiles
<1>2. ~(i < j) /\ ~(j < i)
    BY <1>1, EntryTypes, SMTT(30)
<1> QED BY <1>2, EntryTypes, SMTT(30)

\* An entry of S owns its blocks, and only they are selected for it.
LEMMA TileSelected ==
  ASSUME NEW S \in SUBSET Archived, NEW n \in Archived
  PROVE  \A o \in Tile(n - 1) .. Tile(n) - 1 : (o \in Selected(S)) <=> (n \in S)
<1> TAKE o \in Tile(n - 1) .. Tile(n) - 1
<1>1. o \in Int /\ Entries[n].offset <= o /\ o < EntryEnd(n)
    BY Tiles, EntryTypes, SMTT(30)
<1>2. ASSUME n \in S PROVE o \in Selected(S)
  <2>1. o \in Entries[n].offset .. EntryEnd(n) - 1
      BY <1>1, EntryTypes, SMTT(30)
  <2> QED BY <1>2, <2>1 DEF Selected
<1>3. ASSUME o \in Selected(S) PROVE n \in S
  <2>1. PICK i \in S : o \in Entries[i].offset .. EntryEnd(i) - 1
      BY <1>3 DEF Selected
  <2>2. i = n
      BY <1>1, <2>1, OneRecord, EntryTypes, SMTT(30)
  <2> QED BY <2>2
<1> QED BY <1>2, <1>3

\* The records are the whole archive without its trailer.
LEMMA AllSelected == \A o \in 0 .. ContentEnd - 1 : o \in Selected(Archived)
<1> DEFINE P == {n \in 0..Len(Entries) : \A o \in 0 .. Tile(n) - 1 : o \in Selected(Archived)}
<1>1. 0 \in P
    BY EntryTypes, SMTT(30) DEF Tile
<1>2. ASSUME NEW n \in 1..Len(Entries), n - 1 \in P PROVE n \in P
  <2>1. n \in Archived /\ Tile(n) \in Nat /\ Tile(n - 1) \in Nat
      BY EntryTypes, Tiles
  <2>2. \A o \in Tile(n - 1) .. Tile(n) - 1 : o \in Selected(Archived)
      BY <2>1, TileSelected
  <2> QED BY <1>2, <2>1, <2>2, SMTT(30)
<1> HIDE DEF P
<1>3. 0..Len(Entries) \subseteq P
    BY <1>1, <1>2, EntryTypes, Induction, ZenonT(30)
<1> QED BY <1>3, EntryTypes, Tiles, SMTT(30) DEF P

-----------------------------------------------------------------------------
(* Ranges.                                                                 *)

Extents == [start : Nat, end : Nat]
Done(R, k) == IF k = 0 THEN 0 ELSE R[k].end
Gap(S, from, to) == from <= to /\ \A o \in from .. to - 1 : o \notin Selected(S)

\* The ranges of R are the blocks below x of the entries of S, in order.
Cover(S, R, x) ==
    /\ R \in Seq(Extents) /\ x \in Nat
    /\ \A k \in 1..Len(R) : /\ R[k].start < R[k].end /\ R[k].end <= x
                            /\ \A o \in R[k].start .. R[k].end - 1 : o \in Selected(S)
                            /\ Gap(S, Done(R, k - 1), R[k].start)
    /\ Gap(S, Done(R, Len(R)), x)

\* What covers the selected blocks is a sequence of extents.
LEMMA CoverTypes ==
  ASSUME NEW S, NEW R, NEW x, Cover(S, R, x)
  PROVE  /\ R \in Seq(Extents) /\ x \in Nat /\ Len(R) \in Nat
         /\ \A k \in 1..Len(R) : R[k] \in Extents /\ R[k].start \in Nat /\ R[k].end \in Nat
<1>1. R \in Seq(Extents) /\ x \in Nat
    BY DEF Cover
<1>2. \A e \in Extents : e.start \in Nat /\ e.end \in Nat
    BY DEF Extents
<1>3. Len(R) \in Nat /\ \A k \in 1..Len(R) : R[k] \in Extents
    BY <1>1, SMTT(30)
<1> QED BY <1>1, <1>2, <1>3

\* Ranges that cover the selected blocks up to x cover them up to y when none is between.
LEMMA CoverSkip ==
  ASSUME NEW S, NEW R, NEW x, NEW y \in Nat, Cover(S, R, x), Gap(S, x, y)
  PROVE  Cover(S, R, y)
<1>1. /\ R \in Seq(Extents) /\ x \in Nat /\ Len(R) \in Nat
      /\ \A k \in 1..Len(R) : R[k].start \in Nat /\ R[k].end \in Nat
    BY CoverTypes
<1>2. Done(R, Len(R)) \in Nat
    BY <1>1, SMTT(30) DEF Done
<1>3. Gap(S, Done(R, Len(R)), y)
    BY <1>1, <1>2, SMTT(30) DEF Cover, Gap
<1>4. x <= y
    BY DEF Gap
<1> QED BY <1>1, <1>3, <1>4, SMTT(30) DEF Cover

\* An entry of the selection becomes a range of its own.
LEMMA CoverAppend ==
  ASSUME NEW S, NEW R, NEW x, NEW y \in Nat, Cover(S, R, x), x < y,
         \A o \in x .. y - 1 : o \in Selected(S)
  PROVE  Cover(S, Append(R, [start |-> x, end |-> y]), y)
<1> DEFINE r == [start |-> x, end |-> y]
           Q == Append(R, r)
<1>1. /\ R \in Seq(Extents) /\ x \in Nat /\ Len(R) \in Nat
      /\ \A k \in 1..Len(R) : R[k].start \in Nat /\ R[k].end \in Nat
    BY CoverTypes
<1>2. r \in Extents /\ r.start = x /\ r.end = y
    BY <1>1 DEF Extents
<1> HIDE DEF r
<1>3. /\ Q \in Seq(Extents) /\ Len(Q) = Len(R) + 1 /\ Q[Len(R) + 1] = r
      /\ \A k \in 1..Len(R) : Q[k] = R[k]
    BY <1>1, <1>2, SMTT(30)
<1> HIDE DEF Q
<1>4. \A k \in 0..Len(R) : Done(Q, k) = Done(R, k)
    BY <1>1, <1>3, SMTT(30) DEF Done
<1>5. Gap(S, Done(Q, Len(Q)), y)
    BY <1>1, <1>2, <1>3, SMTT(30) DEF Done, Gap
<1>6. ASSUME NEW k \in 1..Len(Q)
      PROVE  /\ Q[k].start < Q[k].end /\ Q[k].end <= y
             /\ \A o \in Q[k].start .. Q[k].end - 1 : o \in Selected(S)
             /\ Gap(S, Done(Q, k - 1), Q[k].start)
  <2>1. CASE k = Len(R) + 1
    <3>1. Done(Q, k - 1) = Done(R, Len(R))
        BY <1>1, <1>4, <2>1, SMTT(30)
    <3> QED BY <1>2, <1>3, <2>1, <3>1, SMTT(30) DEF Cover
  <2>2. CASE k # Len(R) + 1
    <3>1. k \in 1..Len(R) /\ k - 1 \in 0..Len(R) /\ Q[k] = R[k]
        BY <1>1, <1>3, <2>2, SMTT(30)
    <3>2. Done(Q, k - 1) = Done(R, k - 1)
        BY <1>4, <3>1
    <3>3. /\ R[k].start < R[k].end /\ R[k].end <= x
          /\ \A o \in R[k].start .. R[k].end - 1 : o \in Selected(S)
          /\ Gap(S, Done(R, k - 1), R[k].start)
        BY <3>1 DEF Cover
    <3>4. R[k].end <= y
        BY <1>1, <3>1, <3>3, SMTT(30)
    <3> QED BY <3>1, <3>2, <3>3, <3>4
  <2> QED BY <2>1, <2>2
<1>7. Cover(S, Q, y)
    BY <1>3, <1>5, <1>6 DEF Cover
<1> QED BY <1>7 DEF Q, r

\* An entry of the selection that begins where the last range ends extends it.
LEMMA CoverExtend ==
  ASSUME NEW S, NEW R, NEW x, NEW y \in Nat, Cover(S, R, x), x < y, R # <<>>,
         R[Len(R)].end = x, \A o \in x .. y - 1 : o \in Selected(S)
  PROVE  Cover(S, [R EXCEPT ![Len(R)] = [start |-> @.start, end |-> y]], y)
<1> DEFINE L == Len(R)
           r == [start |-> R[L].start, end |-> y]
           Q == [R EXCEPT ![L] = r]
<1>1. /\ R \in Seq(Extents) /\ x \in Nat /\ L \in Nat /\ L >= 1
      /\ \A k \in 1..L : R[k].start \in Nat /\ R[k].end \in Nat
    BY CoverTypes, SMTT(30)
<1>2. r \in Extents /\ r.start = R[L].start /\ r.end = y
    BY <1>1, SMTT(30) DEF Extents
<1> HIDE DEF r
<1>3. /\ Q \in Seq(Extents) /\ Len(Q) = L /\ Q[L] = r
      /\ \A k \in 1..L : k # L => Q[k] = R[k]
    BY <1>1, <1>2, SMTT(30)
<1> HIDE DEF Q
<1>4. \A k \in 0 .. L - 1 : Done(Q, k) = Done(R, k)
    BY <1>1, <1>3, SMTT(30) DEF Done
<1>5. Gap(S, Done(Q, Len(Q)), y)
    BY <1>1, <1>2, <1>3, SMTT(30) DEF Done, Gap
<1>6. ASSUME NEW k \in 1..L
      PROVE  /\ R[k].start < R[k].end /\ R[k].end <= x
             /\ \A o \in R[k].start .. R[k].end - 1 : o \in Selected(S)
             /\ Gap(S, Done(Q, k - 1), R[k].start)
  <2>1. Done(Q, k - 1) = Done(R, k - 1)
      BY <1>1, <1>4, SMTT(30)
  <2> QED BY <2>1 DEF Cover
<1>7. ASSUME NEW k \in 1..L
      PROVE  /\ Q[k].start < Q[k].end /\ Q[k].end <= y
             /\ \A o \in Q[k].start .. Q[k].end - 1 : o \in Selected(S)
             /\ Gap(S, Done(Q, k - 1), Q[k].start)
  <2>1. CASE k = L
    <3>1. Q[k].start = R[L].start /\ Q[k].end = y
        BY <1>2, <1>3, <2>1
    <3>2. R[L].start < x
        BY <1>1, <1>6, <2>1
    <3>3. \A o \in R[L].start .. y - 1 : o \in Selected(S)
      <4> TAKE o \in R[L].start .. y - 1
      <4>1. CASE o < x
          BY <1>1, <1>6, <2>1, <4>1, SMTT(30)
      <4>2. CASE o >= x
          BY <1>1, <4>2, SMTT(30)
      <4> QED BY <1>1, <4>1, <4>2, SMTT(30)
    <3> QED BY <1>1, <1>6, <2>1, <3>1, <3>2, <3>3, SMTT(30)
  <2>2. CASE k # L
      BY <1>1, <1>3, <1>6, <2>2, SMTT(30)
  <2> QED BY <2>1, <2>2
<1>8. Cover(S, Q, y)
    BY <1>3, <1>5, <1>7 DEF Cover
<1> QED BY <1>8 DEF Q, r

\* Round n of the loop of StreamSelectedTar keeps the ranges.
LEMMA ExtendedTyped ==
  ASSUME NEW R \in Seq(Extents), NEW n \in Archived
  PROVE  Extended(R, n) \in Seq(Extents)
<1>1. RangeOf(n) \in Extents
    BY EntryTypes DEF RangeOf, Extents
<1>2. CASE R # <<>> /\ R[Len(R)].end = Entries[n].offset
  <2>1. Len(R) \in Nat /\ Len(R) >= 1 /\ R[Len(R)] \in Extents
      BY <1>2, SMTT(30)
  <2> DEFINE r == [start |-> R[Len(R)].start, end |-> EntryEnd(n)]
  <2>2. r \in Extents
      BY <2>1, EntryTypes DEF Extents
  <2> HIDE DEF r
  <2>3. [R EXCEPT ![Len(R)] = r] \in Seq(Extents)
      BY <2>1, <2>2, SMTT(30)
  <2> QED BY <1>2, <2>3 DEF Extended, r
<1>3. CASE ~(R # <<>> /\ R[Len(R)].end = Entries[n].offset)
  <2>1. Extended(R, n) = Append(R, RangeOf(n))
      BY <1>3 DEF Extended
  <2> QED BY <1>1, <2>1, SMTT(30)
<1> QED BY <1>2, <1>3

\* The loop of StreamSelectedTar over the index, round by round.
LEMMA MergedLoop ==
  ASSUME NEW S
  PROVE  \E f : /\ Merged(S) = f[Len(Entries)]
                /\ f[0] = <<>>
                /\ \A n \in Archived :
                     f[n] = IF n \in S THEN Extended(f[n - 1], n) ELSE f[n - 1]
<1> DEFINE N == Len(Entries)
           V == Seq(Extents)
           Round(v, n) == IF n \in S THEN Extended(v, n) ELSE v
           G == [n \in 1..N |-> [v \in V |-> Round(v, n)]]
           Merges(f) == f = [n \in 0..N |-> IF n = 0 THEN <<>>
                                            ELSE IF n \in S THEN Extended(f[n - 1], n) ELSE f[n - 1]]
<1>1. N \in Nat /\ Archived = 1..N
    BY EntryTypes
<1>2. \A n \in 1..N, v \in V : Round(v, n) \in V
    BY <1>1, ExtendedTyped
<1>3. <<>> \in V
    BY SMTT(30)
<1> HIDE DEF N, V
<1>4. \A n \in 1..N, v \in V : G[n][v] = IF n \in S THEN Extended(v, n) ELSE v
    OBVIOUS
<1>5. G \in [1..N -> [V -> V]]
  <2> HIDE DEF Round
  <2> QED BY <1>2
<1> HIDE DEF G
<1>6. PICK f : Loop(f, N, V, <<>>, G)
    BY <1>1, <1>3, <1>5, LoopExists, ZenonT(30)
<1>7. \A n \in 1..N : f[n - 1] \in V
    BY <1>1, <1>6, SMTT(30) DEF Loop
<1>8. \A n \in 1..N : f[n] = IF n \in S THEN Extended(f[n - 1], n) ELSE f[n - 1]
    BY <1>4, <1>6, <1>7 DEF Loop
<1>9. Merges(f)
    BY <1>1, <1>6, <1>8, SMTT(30) DEF Loop
<1>10. Merged(S) = (CHOOSE g : Merges(g))[N]
    BY ZenonT(30) DEF Merged, N
<1> HIDE DEF Merges
<1>11. PICK g : Merges(g) /\ Merged(S) = g[N]
    BY <1>9, <1>10, ZenonT(30)
<1>12. g[0] = <<>>
    BY <1>1, <1>11, SMTT(30) DEF Merges
<1>13. \A n \in 1..N : g[n] = IF n \in S THEN Extended(g[n - 1], n) ELSE g[n - 1]
    BY <1>1, <1>11, SMTT(30) DEF Merges
<1> QED BY <1>1, <1>11, <1>12, <1>13 DEF N

\* The ranges of StreamSelectedTar are the blocks of the selected entries.
LEMMA MergedCovers ==
  ASSUME NEW S \in SUBSET Archived
  PROVE  Cover(S, Merged(S), ContentEnd)
<1>1. PICK f : /\ Merged(S) = f[Len(Entries)]
               /\ f[0] = <<>>
               /\ \A n \in Archived :
                    f[n] = IF n \in S THEN Extended(f[n - 1], n) ELSE f[n - 1]
    BY MergedLoop
<1> DEFINE P == {n \in 0..Len(Entries) : Cover(S, f[n], Tile(n))}
<1>2. 0 \in P
  <2>1. Cover(S, <<>>, 0)
      BY SMTT(30) DEF Cover, Gap, Done
  <2> QED BY <1>1, <2>1, EntryTypes, SMTT(30) DEF Tile
<1>3. ASSUME NEW n \in 1..Len(Entries), n - 1 \in P PROVE n \in P
  <2>1. /\ n \in Archived /\ Tile(n) \in Nat /\ Tile(n - 1) \in Nat
        /\ Tile(n - 1) < Tile(n) /\ Entries[n].offset = Tile(n - 1) /\ EntryEnd(n) = Tile(n)
      BY EntryTypes, Tiles
  <2>2. Cover(S, f[n - 1], Tile(n - 1))
      BY <1>3
  <2>3. \A o \in Tile(n - 1) .. Tile(n) - 1 : (o \in Selected(S)) <=> (n \in S)
      BY <2>1, TileSelected
  <2>4. CASE n \notin S
    <3>1. Gap(S, Tile(n - 1), Tile(n))
        BY <2>1, <2>3, <2>4, SMTT(30) DEF Gap
    <3>2. f[n] = f[n - 1]
        BY <1>1, <2>1, <2>4
    <3> QED BY <2>1, <2>2, <3>1, <3>2, CoverSkip, SMTT(30)
  <2>5. CASE n \in S
    <3>1. f[n] = Extended(f[n - 1], n)
        BY <1>1, <2>1, <2>5
    <3>2. CASE f[n - 1] # <<>> /\ f[n - 1][Len(f[n - 1])].end = Entries[n].offset
      <4>1. f[n] = [f[n - 1] EXCEPT ![Len(f[n - 1])] = [start |-> @.start, end |-> Tile(n)]]
          BY <2>1, <3>1, <3>2 DEF Extended
      <4>2. Cover(S, f[n], Tile(n))
        <5> DEFINE R == f[n - 1]
                   x == Tile(n - 1)
                   y == Tile(n)
        <5>1. /\ y \in Nat /\ Cover(S, R, x) /\ x < y /\ R # <<>> /\ R[Len(R)].end = x
              /\ \A o \in x .. y - 1 : o \in Selected(S)
            BY <2>1, <2>2, <2>3, <2>5, <3>2
        <5> HIDE DEF R, x, y
        <5>2. Cover(S, [R EXCEPT ![Len(R)] = [start |-> @.start, end |-> y]], y)
            BY <5>1, CoverExtend
        <5> QED BY <4>1, <5>2 DEF R, y
      <4> QED BY <4>2, SMTT(30)
    <3>3. CASE ~(f[n - 1] # <<>> /\ f[n - 1][Len(f[n - 1])].end = Entries[n].offset)
      <4>1. f[n] = Append(f[n - 1], [start |-> Tile(n - 1), end |-> Tile(n)])
          BY <2>1, <3>1, <3>3 DEF Extended, RangeOf
      <4>2. Cover(S, f[n], Tile(n))
          BY <2>1, <2>2, <2>3, <2>5, <4>1, CoverAppend
      <4> QED BY <4>2, SMTT(30)
    <3> QED BY <3>2, <3>3
  <2> QED BY <2>4, <2>5
<1> HIDE DEF P
<1>4. 0..Len(Entries) \subseteq P
    BY <1>2, <1>3, EntryTypes, Induction, ZenonT(30)
<1>5. Cover(S, f[Len(Entries)], Tile(Len(Entries)))
    BY <1>4, EntryTypes, SMTT(30) DEF P
<1> QED BY <1>1, <1>5, Tiles

\* The loop over the wanted entries, round by round.
LEMMA InOrderLoop ==
  ASSUME NEW S
  PROVE  \E f : /\ InOrder(S) = f[Len(Entries)]
                /\ f[0] = <<>>
                /\ \A n \in Archived :
                     f[n] = IF n \in S THEN Append(f[n - 1], n) ELSE f[n - 1]
<1> DEFINE N == Len(Entries)
           V == Seq(Nat)
           Round(v, n) == IF n \in S THEN Append(v, n) ELSE v
           G == [n \in 1..N |-> [v \in V |-> Round(v, n)]]
           Takes(f) == f = [n \in 0..N |-> IF n = 0 THEN <<>> ELSE Round(f[n - 1], n)]
<1>1. N \in Nat /\ Archived = 1..N
    BY EntryTypes
<1>2. \A n \in 1..N, v \in V : Round(v, n) \in V
    BY <1>1, SMTT(30)
<1>3. <<>> \in V
    BY SMTT(30)
<1> HIDE DEF N, V
<1>0. InOrder(S) = (CHOOSE g : Takes(g))[N]
    BY ZenonT(30) DEF InOrder, N
<1> HIDE DEF Round
<1>4. \A n \in 1..N, v \in V : G[n][v] = Round(v, n)
    OBVIOUS
<1>5. G \in [1..N -> [V -> V]]
    BY <1>2
<1> HIDE DEF G
<1>6. PICK f : Loop(f, N, V, <<>>, G)
    BY <1>1, <1>3, <1>5, LoopExists, ZenonT(30)
<1>7. \A n \in 1..N : f[n - 1] \in V
    BY <1>1, <1>6, SMTT(30) DEF Loop
<1>8. \A n \in 1..N : f[n] = Round(f[n - 1], n)
    BY <1>4, <1>6, <1>7 DEF Loop
<1>9. Takes(f)
    BY <1>1, <1>6, <1>8, SMTT(30) DEF Loop
<1> HIDE DEF Takes
<1>10. PICK g : Takes(g) /\ InOrder(S) = g[N]
    BY <1>0, <1>9, ZenonT(30)
<1>11. g[0] = <<>> /\ \A n \in 1..N : g[n] = Round(g[n - 1], n)
    BY <1>1, <1>10, SMTT(30) DEF Takes
<1> QED BY <1>1, <1>10, <1>11, ZenonT(30) DEF N, Round

\* streamTarPartial walks the records of the selected entries, one by one.
LEMMA PerEntryCovers ==
  ASSUME NEW S \in SUBSET Archived
  PROVE  /\ InOrder(S) \in Seq(S)
         /\ Cover(S, PerEntry(S), ContentEnd)
<1> DEFINE Of(t) == [k \in 1..Len(t) |-> RangeOf(t[k])]
<1>1. PICK f : /\ InOrder(S) = f[Len(Entries)]
               /\ f[0] = <<>>
               /\ \A n \in Archived :
                    f[n] = IF n \in S THEN Append(f[n - 1], n) ELSE f[n - 1]
    BY InOrderLoop
<1> DEFINE P == {n \in 0..Len(Entries) : f[n] \in Seq(S) /\ Cover(S, Of(f[n]), Tile(n))}
<1>2. 0 \in P
  <2>1. Of(<<>>) = <<>>
      BY SMTT(30)
  <2>2. Cover(S, <<>>, 0)
      BY SMTT(30) DEF Cover, Gap, Done
  <2>3. <<>> \in Seq(S) /\ Tile(0) = 0 /\ 0 \in 0..Len(Entries)
      BY EntryTypes, SMTT(30) DEF Tile
  <2> HIDE DEF Of
  <2> QED BY <1>1, <2>1, <2>2, <2>3, ZenonT(30)
<1>3. ASSUME NEW n \in 1..Len(Entries), n - 1 \in P PROVE n \in P
  <2>1. /\ n \in Archived /\ Tile(n) \in Nat /\ Tile(n - 1) \in Nat
        /\ Tile(n - 1) < Tile(n) /\ Entries[n].offset = Tile(n - 1) /\ EntryEnd(n) = Tile(n)
      BY EntryTypes, Tiles
  <2>2. f[n - 1] \in Seq(S) /\ Cover(S, Of(f[n - 1]), Tile(n - 1))
      BY <1>3
  <2>3. \A o \in Tile(n - 1) .. Tile(n) - 1 : (o \in Selected(S)) <=> (n \in S)
      BY <2>1, TileSelected
  <2>4. CASE n \notin S
    <3>1. Gap(S, Tile(n - 1), Tile(n))
        BY <2>1, <2>3, <2>4, SMTT(30) DEF Gap
    <3>2. f[n] = f[n - 1]
        BY <1>1, <2>1, <2>4
    <3> HIDE DEF Of
    <3> QED BY <2>1, <2>2, <3>1, <3>2, CoverSkip, SMTT(30)
  <2>5. CASE n \in S
    <3>1. f[n] = Append(f[n - 1], n)
        BY <1>1, <2>1, <2>5, ZenonT(30)
    <3>2. RangeOf(n) = [start |-> Tile(n - 1), end |-> Tile(n)]
        BY <2>1 DEF RangeOf
    <3>3. ASSUME NEW t \in Seq(S), NEW m \in S
          PROVE  Of(Append(t, m)) = Append(Of(t), RangeOf(m))
      <4> DEFINE a == Of(Append(t, m))
                 b == Append(Of(t), RangeOf(m))
      <4>1. Len(t) \in Nat /\ Len(Append(t, m)) = Len(t) + 1
          BY SMTT(30)
      <4>2. a = [k \in 1..Len(t) + 1 |-> RangeOf(Append(t, m)[k])]
          BY <4>1
      <4>3. b = [k \in 1..Len(t) + 1 |-> IF k = Len(t) + 1 THEN RangeOf(m) ELSE RangeOf(t[k])]
          BY <4>1, SMTT(30)
      <4>4. \A k \in 1..Len(t) + 1 :
              Append(t, m)[k] = IF k = Len(t) + 1 THEN m ELSE t[k]
          BY <4>1, SMTT(30)
      <4> QED BY <4>2, <4>3, <4>4
    <3> HIDE DEF Of
    <3>4. Of(f[n]) = Append(Of(f[n - 1]), [start |-> Tile(n - 1), end |-> Tile(n)])
        BY <2>2, <2>5, <3>1, <3>2, <3>3
    <3>5. Cover(S, Of(f[n]), Tile(n))
        BY <2>1, <2>2, <2>3, <2>5, <3>4, CoverAppend
    <3>6. f[n] \in Seq(S)
        BY <2>2, <2>5, <3>1, SMTT(30)
    <3> QED BY <3>5, <3>6, SMTT(30)
  <2> QED BY <2>4, <2>5
<1> HIDE DEF P
<1>4. 0..Len(Entries) \subseteq P
    BY <1>2, <1>3, EntryTypes, Induction, ZenonT(30)
<1>5. InOrder(S) \in Seq(S) /\ Cover(S, Of(InOrder(S)), ContentEnd)
  <2>1. Len(Entries) \in 0..Len(Entries) /\ Tile(Len(Entries)) = ContentEnd
      BY EntryTypes, Tiles, SMTT(30)
  <2>2. f[Len(Entries)] \in Seq(S) /\ Cover(S, Of(f[Len(Entries)]), Tile(Len(Entries)))
    <3> HIDE DEF Of
    <3> QED BY <1>4, <2>1, ZenonT(30) DEF P
  <2> HIDE DEF Of
  <2> QED BY <1>1, <2>1, <2>2, ZenonT(30)
<1>6. Of(InOrder(S)) = PerEntry(S)
    BY <1>5, SMTT(30) DEF PerEntry
<1> QED BY <1>5, <1>6

\* selectionSet adds entries of the archive only.
LEMMA SelectionArchived ==
  ASSUME NEW sel \in SUBSET Archived
  PROVE  SelectionSet(sel) \in SUBSET Archived
<1> DEFINE N == Len(Entries)
           V == SUBSET Archived
           with == sel \cup UNION {Entries[i].parents : i \in sel}
           Links(v) == {Entries[i].link : i \in {j \in v : Entries[j].link # NoLink}}
           Round(v) == v \cup Links(v)
           G == [n \in 1..N |-> [v \in V |-> Round(v)]]
           Grows(f) == f = [n \in 0..N |-> IF n = 0 THEN with ELSE Round(f[n - 1])]
<1>1. N \in Nat
    BY EntryTypes
<1>2. \A i \in Archived : /\ Entries[i].parents \in SUBSET Archived
                          /\ Entries[i].link \in Archived \cup {NoLink}
  <2> DEFINE Entry == [offset : Nat, parents : SUBSET Archived, link : Archived \cup {NoLink}]
  <2>1. Entries \in Seq(Entry)
      BY RestoreAssumption
  <2>2. \A e \in Entry : e.parents \in SUBSET Archived /\ e.link \in Archived \cup {NoLink}
      OBVIOUS
  <2> HIDE DEF Entry
  <2>3. \A i \in Archived : Entries[i] \in Entry
      BY <2>1, EntryTypes, SMTT(30)
  <2> QED BY <2>2, <2>3
<1>3. with \in V
    BY <1>2
<1>4. \A v \in V : Round(v) \in V
    BY <1>2
<1>0. SelectionSet(sel) = (CHOOSE g : Grows(g))[N]
    BY DEF SelectionSet
<1> HIDE DEF N, V, with, Links, Round
<1>5. G \in [1..N -> [V -> V]]
    BY <1>4
<1>6. \A n \in 1..N, v \in V : G[n][v] = Round(v)
    OBVIOUS
<1> HIDE DEF G
<1>7. PICK f : Loop(f, N, V, with, G)
    BY <1>1, <1>3, <1>5, LoopExists, ZenonT(30)
<1>8. \A n \in 1..N : f[n - 1] \in V
    BY <1>1, <1>7, SMTT(30) DEF Loop
<1>9. \A n \in 1..N : f[n] = Round(f[n - 1])
    BY <1>6, <1>7, <1>8 DEF Loop
<1>10. Grows(f)
    BY <1>1, <1>7, <1>9, SMTT(30) DEF Loop
<1> HIDE DEF Grows
<1>12. PICK g : Grows(g) /\ SelectionSet(sel) = g[N]
    BY <1>0, <1>10, ZenonT(30)
<1>13. g[0] = with /\ \A n \in 1..N : g[n] = Round(g[n - 1])
    BY <1>1, <1>12, SMTT(30) DEF Grows
<1> DEFINE P == {n \in 0..N : g[n] \in V}
<1>14. 0 \in P
    BY <1>1, <1>3, <1>13, SMTT(30)
<1>15. \A n \in 1..N : n - 1 \in P => n \in P
    BY <1>4, <1>13, SMTT(30)
<1> HIDE DEF P
<1>16. 0..N \subseteq P
    BY <1>1, <1>14, <1>15, Induction
<1> QED BY <1>1, <1>12, <1>16, SMTT(30) DEF P, V

-----------------------------------------------------------------------------
(* The tar of a selection.                                                 *)

\* The blocks of a range as they were archived.
Blocks(from, to) == [k \in 1 .. to - from |-> Content(from + k - 1)]

\* The archive's blocks are numbers, its zero blocks included.
LEMMA ContentInt == \A o \in Nat : Content(o) \in Int
BY SMTT(30) DEF Content, Zero

\* A tar of S grows by the blocks of S.
LEMMA KeptLoop ==
  ASSUME NEW S
  PROVE  /\ Kept(S)[0] = <<>>
         /\ \A o \in 1..ContentEnd :
              Kept(S)[o] = IF o - 1 \in Selected(S) THEN Append(Kept(S)[o - 1], Content(o - 1))
                           ELSE Kept(S)[o - 1]
<1> DEFINE N == ContentEnd
           V == Seq(Int)
           Round(v, o) == IF o - 1 \in Selected(S) THEN Append(v, Content(o - 1)) ELSE v
           G == [o \in 1..N |-> [v \in V |-> Round(v, o)]]
           Keeps(f) == f = [o \in 0..N |-> IF o = 0 THEN <<>> ELSE Round(f[o - 1], o)]
<1>1. N \in Nat
    BY Sizes
<1>2. \A o \in 1..N, v \in V : Round(v, o) \in V
    BY ContentInt, SMTT(30)
<1>3. <<>> \in V
    BY SMTT(30)
<1>0. Kept(S) = CHOOSE g : Keeps(g)
    BY ZenonT(30) DEF Kept
<1> HIDE DEF N, V, Round
<1>4. \A o \in 1..N, v \in V : G[o][v] = Round(v, o)
    OBVIOUS
<1>5. G \in [1..N -> [V -> V]]
    BY <1>2
<1> HIDE DEF G
<1>6. PICK f : Loop(f, N, V, <<>>, G)
    BY <1>1, <1>3, <1>5, LoopExists, ZenonT(30)
<1>7. \A o \in 1..N : f[o - 1] \in V
    BY <1>1, <1>6, SMTT(30) DEF Loop
<1>8. \A o \in 1..N : f[o] = Round(f[o - 1], o)
    BY <1>4, <1>6, <1>7 DEF Loop
<1>9. Keeps(f)
    BY <1>1, <1>6, <1>8, SMTT(30) DEF Loop
<1> HIDE DEF Keeps
<1>10. PICK g : Keeps(g) /\ Kept(S) = g
    BY <1>0, <1>9, ZenonT(30)
<1>11. g[0] = <<>> /\ \A o \in 1..N : g[o] = Round(g[o - 1], o)
    BY <1>1, <1>10, SMTT(30) DEF Keeps
<1> QED BY <1>10, <1>11, ZenonT(30) DEF N, Round

\* A tar of S is a sequence of blocks.
LEMMA KeptTyped ==
  ASSUME NEW S
  PROVE  \A o \in 0..ContentEnd : Kept(S)[o] \in Seq(Int)
<1> DEFINE P == {o \in 0..ContentEnd : Kept(S)[o] \in Seq(Int)}
<1>1. 0 \in P
  <2>1. Kept(S)[0] = <<>>
      BY KeptLoop, ZenonT(30)
  <2>2. Kept(S)[0] \in Seq(Int)
      BY <2>1, EmptyRun, ZenonT(30)
  <2>3. 0 \in 0..ContentEnd
      BY Sizes, SMTT(30)
  <2> QED BY <2>2, <2>3, ZenonT(30)
<1>2. ASSUME NEW o \in 1..ContentEnd, o - 1 \in P PROVE o \in P
  <2>1. Content(o - 1) \in Int
      BY ContentInt, SMTT(30)
  <2>2. \/ Kept(S)[o] = Append(Kept(S)[o - 1], Content(o - 1))
        \/ Kept(S)[o] = Kept(S)[o - 1]
      BY KeptLoop, ZenonT(30)
  <2>3. Kept(S)[o - 1] \in Seq(Int)
      BY <1>2
  <2>4. Kept(S)[o] \in Seq(Int)
      BY <2>1, <2>2, <2>3, AppendIsJoin, ZenonT(30)
  <2> QED BY <2>4, SMTT(30)
<1> HIDE DEF P
<1>3. 0..ContentEnd \subseteq P
    BY <1>1, <1>2, Sizes, Induction
<1> QED BY <1>3 DEF P

\* Over selected blocks the tar grows by what the archive holds.
LEMMA KeptRun ==
  ASSUME NEW S, NEW a \in Nat, NEW b \in Nat, a <= b, b <= ContentEnd,
         \A o \in a .. b - 1 : o \in Selected(S)
  PROVE  Kept(S)[b] = Kept(S)[a] \o Blocks(a, b)
<1> DEFINE P == {d \in 0 .. b - a : Kept(S)[a + d] = Kept(S)[a] \o Blocks(a, a + d)}
<1>0. ContentEnd \in Nat /\ Kept(S)[a] \in Seq(Int)
    BY KeptTyped, Sizes, SMTT(30)
<1>1. 0 \in P
  <2>1. Blocks(a, a) = <<>>
      BY SMTT(30) DEF Blocks
  <2> QED BY <1>0, <2>1, SMTT(30)
<1>2. ASSUME NEW d \in 1 .. b - a, d - 1 \in P PROVE d \in P
  <2>1. Kept(S)[a + d] = Append(Kept(S)[a + d - 1], Content(a + d - 1))
    <3>1. a + d \in 1..ContentEnd /\ a + d - 1 \in Selected(S)
        BY <1>0, SMTT(30)
    <3> DEFINE o == a + d
    <3>2. /\ o \in 1..ContentEnd /\ o - 1 \in Selected(S)
        BY <3>1, SMTT(30)
    <3> HIDE DEF o
    <3>3. Kept(S)[o] = Append(Kept(S)[o - 1], Content(o - 1))
        BY <3>2, KeptLoop, ZenonT(30)
    <3> QED BY <3>3, SMTT(30) DEF o
  <2>2. Kept(S)[a + d - 1] = Kept(S)[a] \o Blocks(a, a + d - 1)
    <3>1. a + (d - 1) = a + d - 1
        OBVIOUS
    <3> QED BY <1>2, <3>1, ZenonT(30)
  <2>3. Blocks(a, a + d) = Append(Blocks(a, a + d - 1), Content(a + d - 1))
    <3>1. a + d - a = d /\ a + d - 1 - a = d - 1
        BY SMTT(30)
    <3>2. Blocks(a, a + d) = [k \in 1..d |-> Content(a + k - 1)]
        BY <3>1, SMTT(30) DEF Blocks
    <3>3. Blocks(a, a + d - 1) = [k \in 1 .. d - 1 |-> Content(a + k - 1)]
        BY <3>1, SMTT(30) DEF Blocks
    <3> QED BY <3>2, <3>3, SMTT(30)
  <2>4. Blocks(a, a + d - 1) \in Seq(Int) /\ Content(a + d - 1) \in Int
    <3>1. \A k \in 1 .. d - 1 : Content(a + k - 1) \in Int
        BY ContentInt, SMTT(30)
    <3>2. a + d - 1 - a = d - 1 /\ d - 1 \in Nat
        BY SMTT(30)
    <3>3. Content(a + d - 1) \in Int
        BY ContentInt, SMTT(30)
    <3> QED BY <3>1, <3>2, <3>3, SMTT(30) DEF Blocks
  <2>5. ASSUME NEW u \in Seq(Int), NEW v \in Seq(Int), NEW c \in Int
        PROVE  Append(u \o v, c) = u \o Append(v, c)
    <3> DEFINE w == <<c>>
    <3>1. w \in Seq(Int) /\ u \o v \in Seq(Int)
        BY SMTT(30)
    <3>2. Append(u \o v, c) = (u \o v) \o w
        BY <3>1, AppendIsJoin, ZenonT(30)
    <3>3. Append(v, c) = v \o w
        BY AppendIsJoin, ZenonT(30)
    <3> HIDE DEF w
    <3>4. (u \o v) \o w = u \o (v \o w)
        BY <3>1, JoinAssociative
    <3> QED BY <3>2, <3>3, <3>4, ZenonT(30)
  <2>6. Kept(S)[a + d] = Kept(S)[a] \o Blocks(a, a + d)
      BY <1>0, <2>1, <2>2, <2>3, <2>4, <2>5, ZenonT(30)
  <2>7. d \in 0 .. b - a
      BY SMTT(30)
  <2> QED BY <2>6, <2>7, ZenonT(30)
<1> HIDE DEF P
<1>3. b - a \in Nat /\ a + (b - a) = b
    BY SMTT(30)
<1>4. 0 .. b - a \subseteq P
    BY <1>1, <1>2, <1>3, Induction
<1>5. b - a \in P
    BY <1>3, <1>4, SMTT(30)
<1>6. Kept(S)[a + (b - a)] = Kept(S)[a] \o Blocks(a, a + (b - a))
    BY <1>5, ZenonT(30) DEF P
<1> QED BY <1>3, <1>6, ZenonT(30)

\* Over a gap it does not.
LEMMA KeptGap ==
  ASSUME NEW S, NEW a \in Nat, NEW b \in Nat, b <= ContentEnd, Gap(S, a, b)
  PROVE  Kept(S)[b] = Kept(S)[a]
<1> DEFINE P == {d \in 0 .. b - a : Kept(S)[a + d] = Kept(S)[a]}
<1>0. ContentEnd \in Nat /\ a <= b /\ \A o \in a .. b - 1 : o \notin Selected(S)
    BY Sizes DEF Gap
<1>1. 0 \in P
    BY <1>0, SMTT(30)
<1>2. ASSUME NEW d \in 1 .. b - a, d - 1 \in P PROVE d \in P
  <2>1. a + d \in 1..ContentEnd /\ a + d - 1 \notin Selected(S) /\ a + (d - 1) = a + d - 1
      BY <1>0, SMTT(30)
  <2>2. Kept(S)[a + d] = Kept(S)[a + d - 1]
      BY <2>1, KeptLoop, SMTT(30)
  <2> QED BY <1>2, <2>1, <2>2, SMTT(30)
<1> HIDE DEF P
<1>3. b - a \in Nat /\ a + (b - a) = b
    BY <1>0, SMTT(30)
<1>4. 0 .. b - a \subseteq P
    BY <1>1, <1>2, <1>3, Induction
<1> QED BY <1>3, <1>4, SMTT(30) DEF P

\* What is selected later does not matter.
LEMMA KeptAgree ==
  ASSUME NEW S, NEW T, NEW x \in 0..ContentEnd,
         \A o \in 0 .. x - 1 : (o \in Selected(S)) <=> (o \in Selected(T))
  PROVE  Kept(S)[x] = Kept(T)[x]
<1> DEFINE P == {o \in 0..x : Kept(S)[o] = Kept(T)[o]}
<1>1. 0 \in P
    BY KeptLoop, SMTT(30)
<1>2. ASSUME NEW o \in 1..x, o - 1 \in P PROVE o \in P
  <2>1. o \in 1..ContentEnd /\ o - 1 \in 0 .. x - 1
      BY Sizes, SMTT(30)
  <2>2. Kept(S)[o - 1] = Kept(T)[o - 1]
      BY <1>2
  <2>3. Kept(S)[o] = Kept(T)[o]
      BY <2>1, <2>2, KeptLoop, ZenonT(30)
  <2> QED BY <2>3, SMTT(30)
<1> HIDE DEF P
<1>3. 0..x \subseteq P
    BY <1>1, <1>2, Induction, SMTT(30)
<1> QED BY <1>3, SMTT(30) DEF P

\* The tar of everything is the archive, trailer included.
LEMMA WholeTar == Tar(Archived) = Blocks(0, Total)
<1>1. Kept(Archived)[ContentEnd] = <<>> \o Blocks(0, ContentEnd)
  <2>1. ContentEnd \in Nat /\ 0 \in Nat /\ 0 <= ContentEnd /\ ContentEnd <= ContentEnd
      BY Sizes, SMTT(30)
  <2>2. Kept(Archived)[0] = <<>>
      BY KeptLoop, ZenonT(30)
  <2> QED BY <2>1, <2>2, AllSelected, KeptRun, ZenonT(30)
<1>2. ContentEnd \in Nat /\ Total = ContentEnd + 2
    BY Sizes, SMTT(30)
<1>3. \A o \in 0 .. Total - 1 : Content(o) = IF o < ContentEnd THEN o ELSE Zero
    BY <1>2, SMTT(30) DEF Content
<1>4. Blocks(0, ContentEnd) = [k \in 1..ContentEnd |-> k - 1]
    BY <1>2, <1>3, SMTT(30) DEF Blocks
<1>5. Blocks(0, Total) = [k \in 1 .. ContentEnd + 2 |-> IF k <= ContentEnd THEN k - 1 ELSE Zero]
    BY <1>2, <1>3, SMTT(30) DEF Blocks
<1> QED BY <1>1, <1>2, <1>4, <1>5, SMTT(30) DEF Tar

\* The blocks from a to b, then to c, are those from a to c.
LEMMA BlocksJoin ==
  ASSUME NEW a \in Nat, NEW b \in Nat, NEW c \in Nat, a <= b, b <= c
  PROVE  /\ Blocks(a, b) \in Seq(Int) /\ Len(Blocks(a, b)) = b - a
         /\ Blocks(a, b) \o Blocks(b, c) = Blocks(a, c)
<1>1. ASSUME NEW x \in Nat, NEW y \in Nat, x <= y
      PROVE  Blocks(x, y) \in Seq(Int) /\ Len(Blocks(x, y)) = y - x
  <2>1. \A k \in 1 .. y - x : Content(x + k - 1) \in Int
      BY <1>1, ContentInt, SMTT(30)
  <2>2. y - x \in Nat
      BY <1>1, SMTT(30)
  <2> QED BY <2>1, <2>2, SMTT(30) DEF Blocks
<1>2. \A k \in 1 .. b - a : Blocks(a, b)[k] = Content(a + k - 1)
    BY DEF Blocks
<1>3. \A k \in 1 .. c - b : Blocks(b, c)[k] = Content(b + k - 1)
    BY DEF Blocks
<1>4. \A k \in 1 .. c - a : Blocks(a, c)[k] = Content(a + k - 1)
    BY DEF Blocks
<1> DEFINE u == Blocks(a, b)
           v == Blocks(b, c)
           w == Blocks(a, c)
<1>5. /\ u \in Seq(Int) /\ v \in Seq(Int) /\ w \in Seq(Int)
      /\ Len(u) = b - a /\ Len(v) = c - b /\ Len(w) = c - a
  <2>1. a <= c
      BY SMTT(30)
  <2> QED BY <1>1, <2>1, ZenonT(30)
<1>6. u \o v \in Seq(Int) /\ Len(u \o v) = Len(w)
  <2> HIDE DEF u, v, w
  <2> QED BY <1>5, SMTT(30)
<1>7. ASSUME NEW k \in 1 .. Len(w) PROVE (u \o v)[k] = w[k]
  <2>1. k \in 1 .. c - a
      BY <1>5
  <2>2. (u \o v)[k] = IF k <= b - a THEN u[k] ELSE v[k - (b - a)]
      BY <1>5, <2>1, SMTT(30)
  <2>3. CASE k <= b - a
      BY <1>2, <1>4, <2>1, <2>2, <2>3, SMTT(30)
  <2>4. CASE ~(k <= b - a)
    <3>1. k - (b - a) \in 1 .. c - b /\ b + (k - (b - a)) - 1 = a + k - 1
        BY <2>1, <2>4, SMTT(30)
    <3> QED BY <1>3, <1>4, <2>1, <2>2, <2>4, <3>1
  <2> QED BY <2>3, <2>4, ZenonT(30)
<1> HIDE DEF u, v, w
<1>8. u \o v = w
    BY <1>5, <1>6, <1>7, SameRun, ZenonT(30)
<1> QED BY <1>5, <1>8 DEF u, v, w

-----------------------------------------------------------------------------
(* Where a walk over ranges is: before range n, or after the last.         *)

Edge(R, n) == IF n =< Len(R) THEN R[n].start ELSE ContentEnd

\* The entries of S before a block.
Before(S, x) == {i \in S : Entries[i].offset < x}

\* No selected block is between the end of a range and the start of the next.
LEMMA EdgeGap ==
  ASSUME NEW S, NEW R, Cover(S, R, ContentEnd), NEW n \in 0..Len(R)
  PROVE  /\ Edge(R, n + 1) \in Nat /\ Edge(R, n + 1) <= ContentEnd /\ Done(R, n) \in Nat
         /\ Gap(S, Done(R, n), Edge(R, n + 1))
<1>1. /\ ContentEnd \in Nat /\ Len(R) \in Nat
      /\ \A k \in 1..Len(R) : R[k].start \in Nat /\ R[k].end \in Nat
    BY CoverTypes
<1>2. Done(R, n) \in Nat
    BY <1>1, SMTT(30) DEF Done
<1>3. CASE n < Len(R)
  <2>1. n + 1 \in 1..Len(R) /\ n + 1 - 1 = n /\ n + 1 <= Len(R)
      BY <1>1, <1>3, SMTT(30)
  <2>2. /\ R[n + 1].start < R[n + 1].end /\ R[n + 1].end <= ContentEnd
        /\ Gap(S, Done(R, n + 1 - 1), R[n + 1].start)
      BY <2>1, SMTT(30) DEF Cover
  <2> QED BY <1>1, <1>2, <2>1, <2>2, SMTT(30) DEF Edge
<1>4. CASE n = Len(R)
  <2>1. Edge(R, n + 1) = ContentEnd
      BY <1>1, <1>4, SMTT(30) DEF Edge
  <2>2. Gap(S, Done(R, n), ContentEnd)
      BY <1>4 DEF Cover
  <2> QED BY <1>1, <1>2, <2>1, <2>2, SMTT(30)
<1> QED BY <1>1, <1>3, <1>4, SMTT(30)

\* A range is not empty and ends before the next starts.
LEMMA SpanTypes ==
  ASSUME NEW S, NEW R, Cover(S, R, ContentEnd), NEW n \in 1..Len(R)
  PROVE  /\ R[n].start \in Nat /\ R[n].end \in Nat /\ Len(R) \in Nat
         /\ R[n].start < R[n].end /\ R[n].end <= ContentEnd
         /\ Edge(R, n) = R[n].start /\ R[n].end <= Edge(R, n + 1)
<1>1. R[n].start \in Nat /\ R[n].end \in Nat /\ Len(R) \in Nat
    BY CoverTypes
<1>2. R[n].start < R[n].end /\ R[n].end <= ContentEnd
    BY DEF Cover
<1>3. Edge(R, n) = R[n].start
    BY <1>1, SMTT(30) DEF Edge
<1>4. n \in 0..Len(R) /\ Done(R, n) = R[n].end
    BY <1>1, SMTT(30) DEF Done
<1>5. Gap(S, R[n].end, Edge(R, n + 1))
    BY <1>4, EdgeGap
<1> QED BY <1>1, <1>2, <1>3, <1>5 DEF Gap

\* The blocks of a selected entry are selected blocks of the archive.
LEMMA EntryPlace ==
  ASSUME NEW S \in SUBSET Archived, NEW i \in S
  PROVE  /\ Entries[i].offset \in Nat /\ EntryEnd(i) \in Nat /\ Entries[i].offset < EntryEnd(i)
         /\ EntryEnd(i) <= ContentEnd
         /\ \A o \in Entries[i].offset .. EntryEnd(i) - 1 : o \in Selected(S)
<1>1. i \in Archived /\ i \in 0..Len(Entries) /\ Len(Entries) \in 0..Len(Entries)
    BY EntryTypes, SMTT(30)
<1>2. EntryEnd(i) <= ContentEnd
  <2>1. Tile(i) <= Tile(Len(Entries))
      BY <1>1, EntryTypes, TilesGrow
  <2> QED BY <1>1, <2>1, Tiles
<1>3. \A o \in Entries[i].offset .. EntryEnd(i) - 1 : o \in Selected(S)
    BY DEF Selected
<1> QED BY <1>1, <1>2, <1>3, EntryTypes

\* Records do not overlap.
LEMMA RecordsApart ==
  ASSUME NEW i \in Archived, NEW j \in Archived, Entries[i].offset < Entries[j].offset
  PROVE  EntryEnd(i) <= Entries[j].offset
<1>1. /\ Entries[i].offset \in Nat /\ EntryEnd(i) \in Nat
      /\ Entries[j].offset \in Nat /\ EntryEnd(j) \in Nat /\ Entries[j].offset < EntryEnd(j)
    BY EntryTypes
<1>2. SUFFICES ASSUME Entries[j].offset < EntryEnd(i) PROVE FALSE
    BY <1>1, SMTT(30)
<1>3. i = j
    BY <1>1, <1>2, OneRecord, SMTT(30)
<1> QED BY <1>1, <1>3, SMTT(30)

\* Range n of a partial recovery is the record of entry n.
LEMMA PerEntrySpan ==
  ASSUME NEW S \in SUBSET Archived, NEW n \in 1..Len(PerEntry(S))
  PROVE  /\ InOrder(S)[n] \in S
         /\ PerEntry(S)[n].start = Entries[InOrder(S)[n]].offset
         /\ PerEntry(S)[n].end = EntryEnd(InOrder(S)[n])
<1> DEFINE t == InOrder(S)
<1>1. t \in Seq(S)
    BY PerEntryCovers
<1>2. PerEntry(S) = [k \in DOMAIN t |-> RangeOf(t[k])]
    BY DEF PerEntry
<1> HIDE DEF t
<1>3. DOMAIN t = 1..Len(t) /\ Len(t) \in Nat
    BY <1>1, SMTT(30)
<1>4. Len(PerEntry(S)) = Len(t)
    BY <1>2, <1>3, SMTT(30)
<1>5. n \in DOMAIN t /\ t[n] \in S /\ PerEntry(S)[n] = RangeOf(t[n])
    BY <1>1, <1>2, <1>3, <1>4, SMTT(30)
<1> QED BY <1>5, SMTT(30) DEF t, RangeOf

\* The entries before a range end before it.
LEMMA BeforeEnds ==
  ASSUME NEW S \in SUBSET Archived, NEW n \in 1 .. Len(PerEntry(S)) + 1,
         NEW i \in Before(S, Edge(PerEntry(S), n))
  PROVE  /\ i \in S /\ Entries[i].offset \in Nat /\ EntryEnd(i) \in Nat
         /\ EntryEnd(i) <= Edge(PerEntry(S), n)
<1> DEFINE R == PerEntry(S)
<1>1. Cover(S, R, ContentEnd)
    BY PerEntryCovers
<1>2. i \in S /\ Entries[i].offset < Edge(R, n)
    BY DEF Before
<1>3. Entries[i].offset \in Nat /\ EntryEnd(i) \in Nat /\ EntryEnd(i) <= ContentEnd
    BY <1>2, EntryPlace, ZenonT(30)
<1>4. CASE n \in 1..Len(R)
  <2>1. InOrder(S)[n] \in S /\ R[n].start = Entries[InOrder(S)[n]].offset
      BY <1>4, PerEntrySpan
  <2>2. Edge(R, n) = R[n].start
      BY <1>1, <1>4, SpanTypes
  <2>3. EntryEnd(i) <= Entries[InOrder(S)[n]].offset
      BY <1>2, <2>1, <2>2, RecordsApart
  <2> QED BY <1>2, <1>3, <2>1, <2>2, <2>3
<1>5. CASE n \notin 1..Len(R)
  <2>1. Len(R) \in Nat
      BY <1>1, CoverTypes
  <2>2. Edge(R, n) = ContentEnd
      BY <1>5, <2>1, SMTT(30) DEF Edge
  <2> QED BY <1>2, <1>3, <2>2
<1> QED BY <1>4, <1>5

\* No selected entry is before the first range.
LEMMA BeforeFirst ==
  ASSUME NEW S \in SUBSET Archived, NEW R, Cover(S, R, ContentEnd)
  PROVE  Before(S, Edge(R, 1)) = {}
<1>1. 0 \in 0..Len(R) /\ Done(R, 0) = 0 /\ 0 + 1 = 1
    BY CoverTypes, SMTT(30) DEF Done
<1>2. Edge(R, 1) \in Nat /\ Gap(S, 0, Edge(R, 1))
    BY <1>1, EdgeGap
<1>3. ASSUME NEW i \in Before(S, Edge(R, 1)) PROVE FALSE
  <2>1. i \in S /\ Entries[i].offset < Edge(R, 1)
      BY DEF Before
  <2>2. /\ Entries[i].offset \in Nat /\ EntryEnd(i) \in Nat /\ Entries[i].offset < EntryEnd(i)
        /\ \A o \in Entries[i].offset .. EntryEnd(i) - 1 : o \in Selected(S)
      BY <2>1, EntryPlace
  <2>3. Entries[i].offset \in Selected(S)
      BY <2>2, SMTT(30)
  <2> QED BY <1>2, <2>1, <2>2, <2>3, SMTT(30) DEF Gap
<1> QED BY <1>3

\* All selected entries are before the end of the content.
LEMMA BeforeLast ==
  ASSUME NEW S \in SUBSET Archived
  PROVE  Before(S, ContentEnd) = S
<1>1. ASSUME NEW i \in S PROVE Entries[i].offset < ContentEnd
  <2>1. /\ Entries[i].offset \in Nat /\ EntryEnd(i) \in Nat /\ Entries[i].offset < EntryEnd(i)
        /\ EntryEnd(i) <= ContentEnd /\ ContentEnd \in Nat
      BY EntryPlace, Sizes, ZenonT(30)
  <2> QED BY <2>1, SMTT(30)
<1> QED BY <1>1 DEF Before

\* Going from one range to the next passes its entry.
LEMMA BeforeNext ==
  ASSUME NEW S \in SUBSET Archived, NEW n \in 1..Len(PerEntry(S))
  PROVE  LET R == PerEntry(S)
             e == InOrder(S)[n]
         IN  /\ e \notin Before(S, R[n].start)
             /\ Before(S, Edge(R, n + 1)) = Before(S, R[n].start) \cup {e}
<1> DEFINE R == PerEntry(S)
           e == InOrder(S)[n]
           x == Edge(R, n + 1)
<1>1. Cover(S, R, ContentEnd)
    BY PerEntryCovers
<1>2. e \in S /\ R[n].start = Entries[e].offset /\ R[n].end = EntryEnd(e)
    BY PerEntrySpan
<1>3. /\ R[n].start \in Nat /\ R[n].end \in Nat /\ Len(R) \in Nat
      /\ R[n].start < R[n].end /\ R[n].end <= x
    BY <1>1, SpanTypes
<1>4. n \in 0..Len(R) /\ Done(R, n) = R[n].end
    BY <1>3, SMTT(30) DEF Done
<1>5. x \in Nat /\ Gap(S, R[n].end, x)
    BY <1>1, <1>4, EdgeGap
<1> HIDE DEF R, e, x
<1>6. e \notin Before(S, R[n].start)
    BY <1>2, <1>3, SMTT(30) DEF Before
<1>7. ASSUME NEW i \in S, Entries[i].offset < x, ~(Entries[i].offset < R[n].start)
      PROVE  i = e
  <2>1. /\ Entries[i].offset \in Nat /\ EntryEnd(i) \in Nat /\ Entries[i].offset < EntryEnd(i)
        /\ \A o \in Entries[i].offset .. EntryEnd(i) - 1 : o \in Selected(S)
      BY EntryPlace, ZenonT(30)
  <2>2. Entries[i].offset \in Selected(S)
      BY <2>1, SMTT(30)
  <2>3. Entries[i].offset < R[n].end
      BY <1>3, <1>5, <1>7, <2>1, <2>2, SMTT(30) DEF Gap
  <2>4. i \in Archived /\ e \in Archived /\ Entries[i].offset \in Int
      BY <1>2, <2>1, SMTT(30)
  <2>5. /\ Entries[i].offset <= Entries[i].offset /\ Entries[e].offset <= Entries[i].offset
        /\ Entries[i].offset < EntryEnd(e)
      BY <1>2, <1>3, <1>7, <2>1, <2>3, SMTT(30)
  <2> QED BY <2>1, <2>4, <2>5, OneRecord
<1>8. ASSUME NEW i \in S, Entries[i].offset < R[n].start
      PROVE  Entries[i].offset < x
  <2>1. Entries[i].offset \in Nat
      BY EntryPlace
  <2> QED BY <1>3, <1>5, <1>8, <2>1, SMTT(30)
<1>9. Entries[e].offset < x
    BY <1>2, <1>3, <1>5, SMTT(30)
<1>10. Before(S, x) = Before(S, R[n].start) \cup {e}
    BY <1>2, <1>7, <1>8, <1>9 DEF Before
<1> QED BY <1>6, <1>10 DEF R, e, x

-----------------------------------------------------------------------------
(* The tar of a walk that drops entries.                                   *)

\* Dropping entries selects no further block.
LEMMA SelectedLess ==
  ASSUME NEW S \in SUBSET Archived, NEW D, NEW o \in Selected(S \ D)
  PROVE  o \in Selected(S)
BY DEF Selected

\* The blocks from a to b are in range n, and the entries of D end before it.
Inside(S, R, n, D, a, b) ==
    /\ S \in SUBSET Archived /\ Cover(S, R, ContentEnd) /\ n \in 1..Len(R)
    /\ \A i \in S : i \in D => EntryEnd(i) <= R[n].start
    /\ a \in Nat /\ b \in Nat /\ R[n].start <= a /\ a <= b /\ b <= R[n].end

\* Writing inside a range appends what the archive holds there.
Follows(S, a, b) == Kept(S)[b] = Kept(S)[a] \o Blocks(a, b)

\* Inside a range, after the dropped entries, a tar grows by the blocks walked over.
LEMMA RunKept ==
  ASSUME NEW S, NEW R, NEW n, NEW D, NEW a, NEW b, Inside(S, R, n, D, a, b)
  PROVE  Follows(S \ D, a, b)
<1>0. /\ S \in SUBSET Archived /\ Cover(S, R, ContentEnd) /\ n \in 1..Len(R)
      /\ \A i \in S : i \in D => EntryEnd(i) <= R[n].start
      /\ a \in Nat /\ b \in Nat /\ R[n].start <= a /\ a <= b /\ b <= R[n].end
    BY ZenonT(30) DEF Inside
<1>1. R[n].start \in Nat /\ R[n].end \in Nat /\ R[n].end <= ContentEnd
    BY <1>0, SpanTypes
<1>2. ASSUME NEW o \in a .. b - 1 PROVE o \in Selected(S \ D)
  <2>1. o \in Int /\ o \in R[n].start .. R[n].end - 1
      BY <1>0, <1>1, SMTT(30)
  <2>2. o \in Selected(S)
      BY <1>0, <2>1 DEF Cover
  <2>3. PICK i \in S : o \in Entries[i].offset .. EntryEnd(i) - 1
      BY <2>2 DEF Selected
  <2>4. EntryEnd(i) \in Nat
      BY <1>0, EntryPlace
  <2>5. i \notin D
      BY <1>0, <1>1, <2>1, <2>3, <2>4, SMTT(30)
  <2> QED BY <2>3, <2>5 DEF Selected
<1>3. b <= ContentEnd
    BY <1>0, <1>1, Sizes, SMTT(30)
<1> QED BY <1>0, <1>2, <1>3, KeptRun, ZenonT(30) DEF Follows

\* Between two ranges there is nothing to write.
LEMMA GapKept ==
  ASSUME NEW S \in SUBSET Archived, NEW R, Cover(S, R, ContentEnd), NEW n \in 0..Len(R), NEW D
  PROVE  Kept(S \ D)[Edge(R, n + 1)] = Kept(S \ D)[Done(R, n)]
<1>1. /\ Edge(R, n + 1) \in Nat /\ Edge(R, n + 1) <= ContentEnd /\ Done(R, n) \in Nat
      /\ Gap(S, Done(R, n), Edge(R, n + 1))
    BY EdgeGap
<1>2. Gap(S \ D, Done(R, n), Edge(R, n + 1))
    BY <1>1, SelectedLess, ZenonT(30) DEF Gap
<1> QED BY <1>1, <1>2, KeptGap

\* Nor is there for an entry that is dropped.
LEMMA SkipKept ==
  ASSUME NEW S \in SUBSET Archived, NEW n \in 1..Len(PerEntry(S)), NEW D
  PROVE  LET R == PerEntry(S)
             e == InOrder(S)[n]
         IN  Kept(S \ (D \cup {e}))[Edge(R, n + 1)] = Kept(S \ D)[R[n].start]
<1> DEFINE R == PerEntry(S)
           e == InOrder(S)[n]
           T == S \ (D \cup {e})
           U == S \ D
<1>1. Cover(S, R, ContentEnd)
    BY PerEntryCovers
<1>2. e \in S /\ R[n].start = Entries[e].offset /\ R[n].end = EntryEnd(e)
    BY PerEntrySpan
<1>3. /\ R[n].start \in Nat /\ R[n].end \in Nat /\ Len(R) \in Nat
      /\ R[n].start < R[n].end /\ R[n].end <= ContentEnd
    BY <1>1, SpanTypes
<1>4. n \in 0..Len(R) /\ Done(R, n) = R[n].end
    BY <1>3, SMTT(30) DEF Done
<1>5. Kept(T)[Edge(R, n + 1)] = Kept(T)[R[n].end]
  <2> DEFINE E == D \cup {e}
  <2> HIDE DEF E, R
  <2>1. Kept(S \ E)[Edge(R, n + 1)] = Kept(S \ E)[Done(R, n)]
      BY <1>1, <1>4, GapKept, ZenonT(30)
  <2> QED BY <1>4, <2>1, ZenonT(30) DEF E
<1>6. Gap(T, R[n].start, R[n].end)
  <2>1. ASSUME NEW o \in R[n].start .. R[n].end - 1, o \in Selected(T) PROVE FALSE
    <3>1. PICK i \in T : o \in Entries[i].offset .. EntryEnd(i) - 1
        BY <2>1 DEF Selected
    <3>2. i \in Archived /\ e \in Archived /\ i # e /\ o \in Int
        BY <1>2, <1>3, SMTT(30)
    <3>3. EntryEnd(i) \in Nat /\ Entries[i].offset \in Nat
        BY <3>2, EntryTypes
    <3>4. i = e
        BY <1>2, <1>3, <2>1, <3>1, <3>2, <3>3, OneRecord, SMTT(30)
    <3> QED BY <3>2, <3>4
  <2> HIDE DEF R, T
  <2> QED BY <1>3, <2>1, SMTT(30) DEF Gap
<1>7. Kept(T)[R[n].end] = Kept(T)[R[n].start]
    BY <1>3, <1>6, KeptGap
<1>8. ASSUME NEW o \in 0 .. R[n].start - 1
      PROVE  (o \in Selected(T)) <=> (o \in Selected(U))
  <2>1. o \notin Entries[e].offset .. EntryEnd(e) - 1
      BY <1>2, <1>3, SMTT(30)
  <2> QED BY <2>1 DEF Selected
<1>9. Kept(T)[R[n].start] = Kept(U)[R[n].start]
  <2>1. R[n].start \in 0..ContentEnd
      BY <1>3, Sizes, SMTT(30)
  <2> HIDE DEF T, U, R
  <2> QED BY <1>8, <2>1, KeptAgree, ZenonT(30)
<1> QED BY <1>5, <1>7, <1>9

-----------------------------------------------------------------------------
(* Chunks of entries.                                                      *)

LastChunk(i) == ChunkAt[EntryEnd(i) - 1]

\* The chunks of an entry are chunks of the backup up to its last.
LEMMA ChunksBounded ==
  ASSUME NEW i \in Archived
  PROVE  /\ LastChunk(i) \in Chunks
         /\ \A c \in ChunksOf(i) : c \in Chunks /\ c <= LastChunk(i)
<1>1. /\ Entries[i].offset \in Nat /\ EntryEnd(i) \in Nat /\ Entries[i].offset < EntryEnd(i)
      /\ EntryEnd(i) <= ContentEnd
    BY EntryPlace, ZenonT(30)
<1>2. EntryEnd(i) - 1 \in 0 .. Total - 1
    BY <1>1, Sizes, SMTT(30)
<1>3. LastChunk(i) \in Chunks
    BY <1>2, ChunkCovers DEF LastChunk
<1>4. ASSUME NEW c \in ChunksOf(i) PROVE c \in Chunks /\ c <= LastChunk(i)
  <2>1. PICK o \in Entries[i].offset .. EntryEnd(i) - 1 : c = ChunkAt[o]
      BY DEF ChunksOf
  <2>2. o \in 0 .. Total - 1 /\ o <= EntryEnd(i) - 1
    <3>1. o \in Entries[i].offset .. EntryEnd(i) - 1 /\ Total \in Nat
        BY Sizes
    <3> QED BY <1>1, <1>2, <3>1, SMTT(30)
  <2>3. c \in Chunks
      BY <2>1, <2>2, ChunkCovers
  <2>4. ChunkAt[o] <= LastChunk(i)
      BY <1>2, <2>2, ChunksGrow DEF LastChunk
  <2> QED BY <2>1, <2>3, <2>4
<1> QED BY <1>3, <1>4

-----------------------------------------------------------------------------
(* The inductive invariant.                                                *)

\* Every command has its entry in the variables it reads the backup with.
Tables ==
    /\ DOMAIN pc = Procs /\ DOMAIN ranges = Procs /\ DOMAIN span = Procs
    /\ DOMAIN pass = Procs /\ DOMAIN off = Procs /\ DOMAIN memo = Procs
    /\ DOMAIN bad = Procs /\ DOMAIN skipped = Procs /\ DOMAIN out = Procs
    /\ DOMAIN file = Procs /\ DOMAIN result = Procs

\* The backup and the command lines.
Backup ==
    /\ opts \in Commands
    /\ metadata \in {"ok", "image", "layer", "table", "private", "binding", "index"}
    /\ damage \in [Chunks -> {"ok", "broken", "altered"}]

\* A temporary file is complete when it is kept, so the cache names whole layers.
CacheWhole ==
    /\ DOMAIN cached = Layers /\ DOMAIN tmp = Procs /\ DOMAIN task = Procs
    /\ \A l \in Layers : cached[l] \in {NoFile, Whole(l)}
    /\ \A p \in Procs : task[p].at = "keep" => tmp[p] = Whole(task[p].layer)

\* A restore that has not opened its tar has nothing behind it.
Fresh(p) ==
    (opts[p].cmd = "restore" /\ pc[p] \in {"off", "unlock", "index", "create"}) =>
        /\ span[p] = 1 /\ pass[p] = 1 /\ memo[p] = NoChunk
        /\ bad[p] = {} /\ skipped[p] = {} /\ out[p] = <<>>

\* A tar exists while it is written and after.
Filed(p) ==
    /\ pc[p] = "create" => opts[p].cmd = "restore"
    /\ file[p] = "new" => opts[p].cmd = "restore" /\ pc[p] \in {"walk", "load", "done", "killed"}

Reading(p) == opts[p].cmd = "restore" /\ pc[p] \in {"walk", "load"}
Within(p) == span[p] =< Len(ranges[p])

\* The walk is inside a range, and what it holds in memory was opened and verified.
Placed(p) ==
    Reading(p) =>
        /\ ranges[p] = Spans(p) /\ span[p] \in 1 .. Len(ranges[p]) + 1 /\ pass[p] \in {1, 2}
        /\ Within(p) => off[p] \in Current(p).start .. Current(p).end
        /\ pc[p] = "load" => memo[p] = NoChunk /\ InSpan(p) /\ ChunkAt[off[p]] \notin bad[p]
        /\ memo[p] # NoChunk => /\ memo[p] \in Chunks \ bad[p]
                                /\ MustVerify(p) => damage[memo[p]] # "altered"
        /\ ~opts[p].keepGoing => bad[p] = {} /\ skipped[p] = {}

\* Of the blocks X the tar has as many, and when the digests are checked the same.
Shows(p, X) == Len(out[p]) = Len(X) /\ (MustVerify(p) => out[p] = X)

Frontier(p) == Edge(ranges[p], span[p])
Position(p) == IF ~Within(p) THEN ContentEnd ELSE IF Writes(p) THEN off[p] ELSE Current(p).start

\* The tar is what the archive holds up to where the walk is.
Written(p) ==
    Reading(p) =>
        /\ ~FreshTrailer(p) => /\ Shows(p, Blocks(0, off[p]))
                               /\ ~Within(p) => off[p] = Total
        /\ FreshTrailer(p) => Shows(p, Kept(Wanted(p) \ skipped[p])[Position(p)])

Passed(p) == Before(Wanted(p), Frontier(p))

\* A partial recovery has dropped exactly the entries a failed chunk touches.  A chunk that
\* fails later touches none of those written: pass 1 is beyond their chunks or still has
\* the last of them in memory.  Pass 2 writes what pass 1 has read.
Proved(p) ==
    (Reading(p) /\ opts[p].keepGoing) =>
        /\ skipped[p] = {i \in Passed(p) : ChunksOf(i) \cap bad[p] # {}}
        /\ (Within(p) /\ pass[p] = 1) =>
              /\ \A o \in Current(p).start .. off[p] - 1 : ChunkAt[o] \notin bad[p]
              /\ \A i \in Passed(p) \ skipped[p] :
                    LastChunk(i) < ChunkAt[off[p]] \/ LastChunk(i) = memo[p]
        /\ (Within(p) /\ pass[p] = 2) =>
              /\ \A o \in Current(p).start .. Current(p).end - 1 : ChunkAt[o] \notin bad[p]
              /\ off[p] = Current(p).end => memo[p] = ChunkAt[Current(p).end - 1]

\* The tar a finished restore leaves.
KeptTar(p) ==
    /\ skipped[p] = {i \in Wanted(p) : ChunksOf(i) \cap bad[p] # {}}
    /\ (result[p] = "ok") <=> (skipped[p] = {})
    /\ Len(out[p]) = Len(Tar(Wanted(p) \ skipped[p]))
    /\ MustVerify(p) => out[p] = Tar(Wanted(p) \ skipped[p])

Finished(p) == (pc[p] = "done" /\ file[p] = "new") => KeptTar(p)

\* No block of the tar is one the archive never held.
Clean(p) ==
    /\ out[p] \in Seq(Int)
    /\ MustVerify(p) => \A k \in 1 .. Len(out[p]) : out[p][k] # Junk

\* What the steps before have found the metadata to be.
Opened(p) ==
    /\ pc[p] \in {"unlock", "index", "create", "walk", "load"} =>
          metadata \notin {"image", "layer", "table"}
    /\ pc[p] \in {"index", "create", "walk", "load"} =>
          (encrypted => metadata \notin {"private", "binding"})

Intact == /\ metadata = "ok" \/ (metadata \in {"private", "binding"} /\ ~encrypted)
          /\ \A i \in Chunks : damage[i] = "ok"

\* The chunks verify has been through are intact, unless it has found one that is not.
Verified(p) ==
    Verifying(p) =>
        /\ off[p] \in 0 .. Len(Plain)
        /\ bad[p] = {} => \A i \in 1 .. off[p] : damage[i] = "ok"
        /\ pc[p] = "load" => off[p] < Len(Plain)
        /\ pc[p] = "index" => off[p] = Len(Plain)
        /\ result[p] = "ok" => Intact

ReadInv(p) ==
    /\ Fresh(p) /\ Filed(p) /\ Placed(p) /\ Written(p) /\ Proved(p)
    /\ Finished(p) /\ Clean(p) /\ Opened(p) /\ Verified(p)

RestoreInv == Tables /\ Backup /\ CacheWhole /\ \A p \in Procs : ReadInv(p)

-----------------------------------------------------------------------------
(* A command changes its own entries only.                                 *)

Only(f, g, q) == DOMAIN g = DOMAIN f /\ \A p \in DOMAIN f : p # q => g[p] = f[p]

\* An EXCEPT at q changes nothing else.
LEMMA OnlyExcept == \A f, q, e : Only(f, [f EXCEPT ![q] = e], q)
BY DEF Only

\* Nor does an unchanged variable.
LEMMA OnlySame == \A f, q : Only(f, f, q)
BY DEF Only

\* What the rest of the command line, the backup and the other commands see of a step.
Local(q) ==
    /\ UNCHANGED fixed
    /\ Only(pc, pc', q) /\ Only(ranges, ranges', q) /\ Only(span, span', q)
    /\ Only(pass, pass', q) /\ Only(off, off', q) /\ Only(memo, memo', q)
    /\ Only(bad, bad', q) /\ Only(skipped, skipped', q) /\ Only(out, out', q)
    /\ Only(file, file', q) /\ Only(result, result', q)

Step(q) == OpenBackup(q) \/ Command(q) \/ Interrupted(q) \/ Killed(q)

\* What Fails changes, it changes for this command.
LEMMA FailsLocal ==
  ASSUME NEW q, Fails(q)
  PROVE  /\ Only(pc, pc', q) /\ Only(skipped, skipped', q) /\ Only(span, span', q)
         /\ Only(off, off', q) /\ Only(pass, pass', q) /\ Only(file, file', q)
         /\ Only(result, result', q)
<1> USE OnlyExcept, OnlySame
<1>1. CASE opts[q].keepGoing /\ pass[q] = 1
  <2>1. /\ skipped' = [skipped EXCEPT ![q] = @ \cup {InOrder(Wanted(q))[span[q]]}]
        /\ span' = [span EXCEPT ![q] = @ + 1]
        /\ off' = [off EXCEPT ![q] = IF span[q] < Len(ranges[q])
                                     THEN ranges[q][span[q] + 1].start ELSE @]
        /\ pc' = [pc EXCEPT ![q] = "walk"]
        /\ UNCHANGED <<file, recent, result, pass>>
      BY <1>1 DEF Fails, Goto
  <2> QED BY <2>1, ZenonT(30)
<1>2. CASE ~(opts[q].keepGoing /\ pass[q] = 1)
  <2>1. Abort(q) /\ UNCHANGED <<skipped, span, off, pass>>
      BY <1>2 DEF Fails
  <2> QED BY <2>1, ZenonT(30) DEF Abort, Exit, Goto
<1> QED BY <1>1, <1>2

\* So does every step.
LEMMA StepLocal ==
  ASSUME NEW q \in Procs, Step(q)
  PROVE  Local(q)
<1> USE OnlyExcept, OnlySame
<1>1. CASE OpenBackup(q)
  <2>1. /\ UNCHANGED <<fixed, walking, out, file>>
        /\ (Goto(q, "unlock") /\ UNCHANGED result) \/ Exit(q, "ok") \/ Exit(q, "failed")
      BY <1>1, ZenonT(30) DEF OpenBackup
  <2>2. CASE Goto(q, "unlock") /\ UNCHANGED result
      BY <2>1, <2>2, ZenonT(30) DEF Goto, Exit, Local, fixed, walking
  <2>3. CASE Exit(q, "ok")
      BY <2>1, <2>3, ZenonT(30) DEF Goto, Exit, Local, fixed, walking
  <2>4. CASE Exit(q, "failed")
      BY <2>1, <2>4, ZenonT(30) DEF Goto, Exit, Local, fixed, walking
  <2> QED BY <2>1, <2>2, <2>3, <2>4, ZenonT(30)
<1>2. CASE Unlock(q)
  <2>1. /\ UNCHANGED <<fixed, walking, out, file>>
        /\ (\E w : Goto(q, w) /\ UNCHANGED result) \/ Exit(q, "failed")
      BY <1>2, ZenonT(30) DEF Unlock
  <2>2. CASE \E w : Goto(q, w) /\ UNCHANGED result
    <3>1. PICK w : pc' = [pc EXCEPT ![q] = w]
        BY <2>2, ZenonT(30) DEF Goto
    <3>2. Only(pc, pc', q) /\ result' = result
        BY <2>2, <3>1, ZenonT(30)
    <3> QED BY <2>1, <3>2, ZenonT(30) DEF Local, fixed, walking
  <2>3. CASE Exit(q, "failed")
      BY <2>1, <2>3, ZenonT(30) DEF Goto, Exit, Local, fixed, walking
  <2> QED BY <2>1, <2>2, <2>3, ZenonT(30)
<1>3. CASE ReadIndex(q)
  <2>1. /\ UNCHANGED <<fixed, walking, out, file>>
        /\ (Goto(q, "create") /\ UNCHANGED result) \/ \E how : Exit(q, how)
      BY <1>3, ZenonT(30) DEF ReadIndex
  <2>2. CASE Goto(q, "create") /\ UNCHANGED result
      BY <2>1, <2>2, ZenonT(30) DEF Goto, Exit, Local, fixed, walking
  <2>3. CASE \E how : Exit(q, how)
    <3>1. PICK how : Exit(q, how)
        BY <2>3
    <3> QED BY <2>1, <3>1, ZenonT(30) DEF Goto, Exit, Local, fixed, walking
  <2> QED BY <2>1, <2>2, <2>3, ZenonT(30)
<1>4. CASE CreateTar(q)
  <2>1. /\ UNCHANGED <<fixed, span, pass, memo, bad, skipped, out>>
        /\ \/ Exit(q, "failed") /\ UNCHANGED <<file, ranges, off>>
           \/ /\ file' = [file EXCEPT ![q] = "new"]
              /\ ranges' = [ranges EXCEPT ![q] = Spans(q)]
              /\ off' = [off EXCEPT ![q] = Spans(q)[1].start]
              /\ Goto(q, "walk") /\ UNCHANGED result
      BY <1>4, ZenonT(30) DEF CreateTar
  <2>2. CASE Exit(q, "failed") /\ UNCHANGED <<file, ranges, off>>
      BY <2>1, <2>2, ZenonT(30) DEF Goto, Exit, Local, fixed
  <2>3. CASE /\ file' = [file EXCEPT ![q] = "new"]
             /\ ranges' = [ranges EXCEPT ![q] = Spans(q)]
             /\ off' = [off EXCEPT ![q] = Spans(q)[1].start]
             /\ Goto(q, "walk") /\ UNCHANGED result
      BY <2>1, <2>3, ZenonT(30) DEF Goto, Exit, Local, fixed
  <2> QED BY <2>1, <2>2, <2>3, ZenonT(30)
<1>5. CASE Load(q)
    BY <1>5, ZenonT(30) DEF Load, Goto, Local, fixed
<1>6. CASE KnownBad(q)
    BY <1>6, FailsLocal, ZenonT(30) DEF KnownBad, Local, fixed
<1>7. CASE Loaded(q)
    BY <1>7, ZenonT(30) DEF Loaded, Goto, Local, fixed
<1>8. CASE LoadFailed(q)
  <2>1. Fails(q) /\ UNCHANGED <<fixed, ranges, memo>>
      BY <1>8, ZenonT(30) DEF LoadFailed
  <2>2. Only(bad, bad', q)
      BY <1>8, ZenonT(30) DEF LoadFailed
  <2>3. PICK n : out' = [out EXCEPT ![q] = @ \o [k \in 1..n |-> Junk]]
      BY <1>8, ZenonT(30) DEF LoadFailed
  <2>4. Only(out, out', q)
      BY <2>3, ZenonT(30)
  <2> QED BY <2>1, <2>2, <2>4, FailsLocal, ZenonT(30) DEF Local, fixed
<1>9. CASE Consume(q)
    BY <1>9, ZenonT(30) DEF Consume, Local, fixed
<1>10. CASE NextSpan(q)
  <2>1. /\ UNCHANGED <<fixed, ranges, pc, memo, bad, skipped, out, file, result>>
        /\ \E x, y : pass' = [pass EXCEPT ![q] = x] /\ off' = [off EXCEPT ![q] = y]
        /\ span' = span \/ span' = [span EXCEPT ![q] = @ + 1]
      BY <1>10, ZenonT(30) DEF NextSpan
  <2>2. PICK x, y : pass' = [pass EXCEPT ![q] = x] /\ off' = [off EXCEPT ![q] = y]
      BY <2>1, ZenonT(30)
  <2>3. Only(pass, pass', q) /\ Only(off, off', q)
      BY <2>2, ZenonT(30)
  <2>4. CASE span' = span
      BY <2>1, <2>3, <2>4, ZenonT(30) DEF Local, fixed
  <2>5. CASE span' = [span EXCEPT ![q] = @ + 1]
      BY <2>1, <2>3, <2>5, ZenonT(30) DEF Local, fixed
  <2> QED BY <2>1, <2>4, <2>5, ZenonT(30)
<1>11. CASE EndStream(q)
    BY <1>11, ZenonT(30) DEF EndStream, Goto, Exit, Local, fixed, walking
<1>12. CASE VerifyLoad(q)
    BY <1>12, ZenonT(30) DEF VerifyLoad, Goto, Local, fixed, walking
<1>13. CASE VerifyChunk(q)
  <2> DEFINE fails == task[q].at = "failed" \/ damage[off[q] + 1] # "ok"
  <2>1. /\ UNCHANGED <<fixed, ranges, span, memo, skipped, out, file>>
        /\ bad' = [bad EXCEPT ![q] = IF fails THEN @ \cup {off[q] + 1} ELSE @]
      BY <1>13, ZenonT(30) DEF VerifyChunk
  <2>2. CASE fails /\ ~opts[q].keepGoing
    <3>1. Exit(q, "failed") /\ UNCHANGED <<off, pass>>
        BY <1>13, <2>2, ZenonT(30) DEF VerifyChunk
    <3> QED BY <2>1, <3>1, ZenonT(30) DEF Exit, Goto, Local, fixed
  <2>3. CASE ~(fails /\ ~opts[q].keepGoing)
    <3>1. /\ Goto(q, "walk") /\ UNCHANGED result
          /\ pass' = [pass EXCEPT ![q] = IF fails \/ @ = 2 THEN 1 ELSE 2]
          /\ off' = [off EXCEPT ![q] = IF fails \/ pass[q] = 2 THEN @ + 1 ELSE @]
        BY <1>13, <2>3, ZenonT(30) DEF VerifyChunk
    <3> QED BY <2>1, <3>1, ZenonT(30) DEF Goto, Local, fixed
  <2> QED BY <2>2, <2>3
<1>14. CASE VerifyEnd(q)
    BY <1>14, ZenonT(30) DEF VerifyEnd, Goto, Local, fixed, walking
<1>15. CASE CacheStep(q) /\ UNCHANGED readVars
    BY <1>15, ZenonT(30) DEF readVars, Local, fixed
<1>16. CASE Interrupted(q)
    BY <1>16, ZenonT(30) DEF Interrupted, Abort, Goto, Exit, Local, fixed, walking
<1>17. CASE Killed(q)
    BY <1>17, ZenonT(30) DEF Killed, Goto, Local, fixed, walking
<1> QED BY <1>1, <1>2, <1>3, <1>4, <1>5, <1>6, <1>7, <1>8, <1>9, <1>10, <1>11, <1>12, <1>13,
           <1>14, <1>15, <1>16, <1>17, ZenonT(30) DEF Step, Command

\* The command line, and what is read off it and the backup, stay what they are.
LEMMA FixedKeeps ==
  ASSUME UNCHANGED fixed, NEW p
  PROVE  /\ opts' = opts /\ encrypted' = encrypted /\ metadata' = metadata /\ damage' = damage
         /\ Wanted(p)' = Wanted(p) /\ Spans(p)' = Spans(p)
         /\ FreshTrailer(p)' = FreshTrailer(p) /\ MustVerify(p)' = MustVerify(p)
         /\ Verifying(p)' = Verifying(p)
<1>1. opts' = opts /\ encrypted' = encrypted /\ metadata' = metadata /\ damage' = damage
    BY DEF fixed
<1>2. Wanted(p)' = Wanted(p)
    BY <1>1, ZenonT(30) DEF Wanted, Filtered
<1>3. Spans(p)' = Spans(p)
    BY <1>1, <1>2, ZenonT(30) DEF Spans, Filtered
<1>4. FreshTrailer(p)' = FreshTrailer(p) /\ MustVerify(p)' = MustVerify(p)
      /\ Verifying(p)' = Verifying(p)
    BY <1>1, ZenonT(30) DEF FreshTrailer, Filtered, MustVerify, Verifying
<1> QED BY <1>1, <1>2, <1>3, <1>4

\* An invariant of one command is a matter of its own entries.
LEMMA SameKeeps ==
  ASSUME UNCHANGED fixed, NEW p, ReadInv(p),
         pc'[p] = pc[p], ranges'[p] = ranges[p], span'[p] = span[p], pass'[p] = pass[p],
         off'[p] = off[p], memo'[p] = memo[p], bad'[p] = bad[p], skipped'[p] = skipped[p],
         out'[p] = out[p], file'[p] = file[p], result'[p] = result[p]
  PROVE  ReadInv(p)'
<1> USE FixedKeeps
<1>1. Fresh(p)' /\ Filed(p)'
    BY ZenonT(30) DEF ReadInv, Fresh, Filed
<1>2. /\ Reading(p)' = Reading(p) /\ Within(p)' = Within(p) /\ Current(p)' = Current(p)
      /\ InSpan(p)' = InSpan(p) /\ Writes(p)' = Writes(p)
    BY ZenonT(30) DEF Reading, Within, Current, InSpan, Writes
<1>3. Placed(p)'
    BY <1>2, ZenonT(30) DEF ReadInv, Placed
<1>4. Written(p)'
  <2>1. Position(p)' = Position(p)
      BY <1>2, ZenonT(30) DEF Position
  <2>2. \A X : Shows(p, X)' = Shows(p, X)
      BY ZenonT(30) DEF Shows
  <2> QED BY <1>2, <2>1, ZenonT(30) DEF ReadInv, Written, Shows
<1>5. Proved(p)'
  <2>1. Frontier(p)' = Frontier(p) /\ Wanted(p)' = Wanted(p)
      BY <1>2, ZenonT(30) DEF Frontier
  <2>2. Passed(p)' = Passed(p)
      BY <2>1, ZenonT(30) DEF Passed
  <2>3. (Reading(p) /\ opts[p].keepGoing)' = (Reading(p) /\ opts[p].keepGoing)
      BY <1>2, ZenonT(30)
  <2>4. CASE Reading(p) /\ opts[p].keepGoing
    <3> DEFINE Skips == {i \in Passed(p) : ChunksOf(i) \cap bad[p] # {}}
    <3>1. Skips' = Skips
        BY <2>2, ZenonT(30)
    <3>2. skipped[p] = Skips
        BY <2>4, ZenonT(30) DEF ReadInv, Proved
    <3> HIDE DEF Skips
    <3>3. (skipped[p] = Skips)'
        BY <3>1, <3>2, ZenonT(30)
    <3>4. ((Within(p) /\ pass[p] = 1) =>
              /\ \A o \in Current(p).start .. off[p] - 1 : ChunkAt[o] \notin bad[p]
              /\ \A i \in Passed(p) \ skipped[p] :
                    LastChunk(i) < ChunkAt[off[p]] \/ LastChunk(i) = memo[p])'
        BY <1>2, <2>2, <2>4, ZenonT(30) DEF ReadInv, Proved
    <3>5. ((Within(p) /\ pass[p] = 2) =>
              /\ \A o \in Current(p).start .. Current(p).end - 1 : ChunkAt[o] \notin bad[p]
              /\ off[p] = Current(p).end => memo[p] = ChunkAt[Current(p).end - 1])'
        BY <1>2, <2>4, ZenonT(30) DEF ReadInv, Proved
    <3> QED BY <3>3, <3>4, <3>5, ZenonT(30) DEF Proved, Skips
  <2> QED BY <2>3, <2>4, ZenonT(30) DEF Proved
<1>6. Finished(p)' /\ Clean(p)'
    BY ZenonT(30) DEF ReadInv, Finished, KeptTar, Clean
<1>7. Opened(p)' /\ Verified(p)'
    BY ZenonT(30) DEF ReadInv, Opened, Verified, Intact
<1> QED BY <1>1, <1>3, <1>4, <1>5, <1>6, <1>7, ZenonT(30) DEF ReadInv

\* A step leaves every command its entry.
LEMMA TablesKeep ==
  ASSUME Tables, NEW q, Local(q)
  PROVE  Tables'
BY ZenonT(30) DEF Tables, Local, Only

\* What a step leaves alone of one command, it leaves alone in every other.
LEMMA OthersKeep ==
  ASSUME Tables, NEW q, Local(q), NEW p \in Procs, p # q, ReadInv(p)
  PROVE  ReadInv(p)'
<1>1. /\ pc'[p] = pc[p] /\ ranges'[p] = ranges[p] /\ span'[p] = span[p] /\ pass'[p] = pass[p]
      /\ off'[p] = off[p] /\ memo'[p] = memo[p] /\ bad'[p] = bad[p]
      /\ skipped'[p] = skipped[p] /\ out'[p] = out[p] /\ file'[p] = file[p]
      /\ result'[p] = result[p]
    BY SMTT(30) DEF Tables, Local, Only
<1> QED BY <1>1, SameKeeps DEF Local

-----------------------------------------------------------------------------
(* The cache.                                                              *)

\* A step that leaves the directory and the temporary files alone.
LEMMA CacheIdle ==
  ASSUME NEW q, CacheWhole, cached' = cached, tmp' = tmp,
         \/ task' = task
         \/ \E t : task' = [task EXCEPT ![q] = t] /\ t.at # "keep"
  PROVE  CacheWhole'
<1>1. CASE task' = task
    BY <1>1 DEF CacheWhole, Whole
<1>2. CASE \E t : task' = [task EXCEPT ![q] = t] /\ t.at # "keep"
  <2>1. PICK t : task' = [task EXCEPT ![q] = t] /\ t.at # "keep"
      BY <1>2, ZenonT(30)
  <2>2. DOMAIN task' = Procs /\ \A p \in Procs : task'[p].at = "keep" => task'[p] = task[p]
      BY <2>1 DEF CacheWhole
  <2> QED BY <2>2 DEF CacheWhole, Whole
<1> QED BY <1>1, <1>2

\* Every call on the cache directory leaves complete files under cache names, whatever
\* the other commands are at.
LEMMA CacheStepKeeps ==
  ASSUME NEW q \in Procs, CacheWhole, CacheStep(q)
  PROVE  CacheWhole'
<1> DEFINE l == task[q].layer
<1>0. \A x : Whole(x)' = Whole(x)
    BY DEF Whole
<1>1. CASE Stat(q)
  <2>1. CASE cached[l] = Whole(l)
      BY <1>1, <2>1, CacheIdle, SMTT(30) DEF Stat, At
  <2>2. CASE cached[l] # Whole(l)
    <3>1. /\ cached' = [cached EXCEPT ![l] = NoFile] /\ tmp' = [tmp EXCEPT ![q] = 0]
          /\ task' = [task EXCEPT ![q] = [at |-> "copy", layer |-> l]]
        BY <1>1, <2>2 DEF Stat, At
    <3> QED BY <1>0, <3>1 DEF CacheWhole
  <2> QED BY <2>1, <2>2
<1>2. CASE Touch(q)
    BY <1>2, CacheIdle, SMTT(30) DEF Touch, At
<1>3. CASE Copy(q)
  <2>1. CASE /\ tmp' = [tmp EXCEPT ![q] = Whole(l)] /\ cached' = cached
             /\ task' = [task EXCEPT ![q] = [at |-> "keep", layer |-> l]]
      BY <1>0, <2>1 DEF CacheWhole
  <2>2. CASE /\ tmp' = [tmp EXCEPT ![q] = NoFile] /\ cached' = cached
             /\ task' = [task EXCEPT ![q] = [at |-> "failed", layer |-> l]]
      BY <1>0, <2>2 DEF CacheWhole
  <2> QED BY <1>3, <2>1, <2>2 DEF Copy, At
<1>4. CASE KeepEphemeral(q)
  <2>1. /\ tmp' = [tmp EXCEPT ![q] = NoFile] /\ cached' = cached
        /\ task' = [task EXCEPT ![q] = [at |-> "ready", layer |-> l]]
      BY <1>4, ZenonT(30) DEF KeepEphemeral, At
  <2> QED BY <1>0, <2>1 DEF CacheWhole
<1>5. CASE Rename(q)
  <2>1. /\ tmp' = [tmp EXCEPT ![q] = NoFile] /\ cached' = [cached EXCEPT ![l] = tmp[q]]
        /\ task' = [task EXCEPT ![q] = [at |-> "list", layer |-> l]] /\ task[q].at = "keep"
      BY <1>5, ZenonT(30) DEF Rename, At
  <2>2. tmp[q] = Whole(l)
      BY <2>1 DEF CacheWhole
  <2> QED BY <1>0, <2>1, <2>2 DEF CacheWhole
<1>6. CASE ReadDir(q)
  <2> DEFINE t == [at |-> "info", layer |-> l, names |-> Present]
  <2>1. cached' = cached /\ tmp' = tmp /\ task' = [task EXCEPT ![q] = t]
      BY <1>6, ZenonT(30) DEF ReadDir
  <2>2. t.at # "keep"
      OBVIOUS
  <2> HIDE DEF t
  <2> QED BY <2>1, <2>2, CacheIdle, ZenonT(30)
<1>7. CASE Info(q)
    BY <1>7, CacheIdle, SMTT(30) DEF Info, At
<1>8. CASE Evict(q)
  <2>1. tmp' = tmp /\ task[q].at = "evict"
      BY <1>8, ZenonT(30) DEF Evict
  <2>2. \E t : task' = [task EXCEPT ![q] = t] /\ t.at # "keep"
    <3> DEFINE f == Head(task[q].files)
               gone == f # l
               n == IF gone THEN task[q].total - Whole(f) ELSE task[q].total
               r == Tail(task[q].files)
               t == [at |-> "evict", layer |-> l, files |-> r, total |-> n]
               u == [at |-> "open", layer |-> l]
    <3>1. CASE task' = [task EXCEPT ![q] = u]
      <4>1. u.at # "keep"
          OBVIOUS
      <4> HIDE DEF u
      <4> QED BY <3>1, <4>1, ZenonT(30)
    <3>2. CASE task' = [task EXCEPT ![q] = t]
      <4> HIDE DEF n, r
      <4>1. t.at # "keep"
          OBVIOUS
      <4> HIDE DEF t
      <4> QED BY <3>2, <4>1, ZenonT(30)
    <3> QED BY <1>8, <3>1, <3>2, ZenonT(30) DEF Evict, At
  <2>3. cached' = cached \/ \E f : cached' = [cached EXCEPT ![f] = NoFile]
      BY <1>8, ZenonT(30) DEF Evict
  <2>4. CASE cached' = cached
      BY <2>1, <2>2, <2>4, CacheIdle, ZenonT(30)
  <2>5. CASE \E f : cached' = [cached EXCEPT ![f] = NoFile]
    <3>1. PICK f : cached' = [cached EXCEPT ![f] = NoFile]
        BY <2>5, ZenonT(30)
    <3>2. PICK t : task' = [task EXCEPT ![q] = t] /\ t.at # "keep"
        BY <2>2, ZenonT(30)
    <3> QED BY <1>0, <2>1, <3>1, <3>2 DEF CacheWhole
  <2> QED BY <2>3, <2>4, <2>5
<1>9. CASE OpenFile(q)
  <2> DEFINE t == [at |-> IF cached[l] = Whole(l) THEN "ready" ELSE "failed", layer |-> l]
  <2>1. cached' = cached /\ tmp' = tmp /\ task' = [task EXCEPT ![q] = t]
      BY <1>9, ZenonT(30) DEF OpenFile, At
  <2>2. t.at # "keep"
      OBVIOUS
  <2> HIDE DEF t
  <2> QED BY <2>1, <2>2, CacheIdle, ZenonT(30)
<1> QED BY <1>1, <1>2, <1>3, <1>4, <1>5, <1>6, <1>7, <1>8, <1>9 DEF CacheStep

\* So does every step of a command.
LEMMA CacheKeeps ==
  ASSUME NEW q \in Procs, CacheWhole, Step(q)
  PROVE  CacheWhole'
<1>0. ASSUME NEW l, Materialize(q, l) PROVE CacheWhole'
    BY <1>0, CacheIdle, SMTT(30) DEF Materialize, At
<1>1. CASE CacheStep(q)
    BY <1>1, CacheStepKeeps
<1>2. CASE OpenBackup(q) \/ Unlock(q) \/ ReadIndex(q) \/ CreateTar(q) \/ KnownBad(q)
           \/ EndStream(q) \/ Interrupted(q)
  <2>1. cached' = cached /\ tmp' = tmp /\ task' = task
      BY <1>2, ZenonT(30) DEF OpenBackup, Unlock, ReadIndex, CreateTar, KnownBad, EndStream, Interrupted
  <2> QED BY <2>1, CacheIdle
<1>3. CASE Consume(q) \/ NextSpan(q) \/ VerifyEnd(q)
  <2>1. cached' = cached /\ tmp' = tmp /\ task' = task
      BY <1>3, ZenonT(30) DEF Consume, NextSpan, VerifyEnd, cacheVars
  <2> QED BY <2>1, CacheIdle
<1>4. CASE Load(q) \/ VerifyLoad(q)
    BY <1>0, <1>4, ZenonT(30) DEF Load, VerifyLoad
<1>5. CASE Loaded(q) \/ LoadFailed(q) \/ VerifyChunk(q) \/ Killed(q)
  <2>1. cached' = cached /\ tmp' = tmp /\ task' = [task EXCEPT ![q] = Idle]
      BY <1>5, ZenonT(30) DEF Loaded, LoadFailed, VerifyChunk, Killed, BlobReturned
  <2>2. Idle.at # "keep"
      BY DEF Idle
  <2> QED BY <2>1, <2>2, CacheIdle, ZenonT(30)
<1> QED BY <1>1, <1>2, <1>3, <1>4, <1>5, ZenonT(30) DEF Step, Command

-----------------------------------------------------------------------------
(* The ranges of a command.                                                *)

\* A command wants entries of the archive.
LEMMA WantedArchived ==
  ASSUME Backup, NEW p \in Procs
  PROVE  Wanted(p) \in SUBSET Archived
<1>1. opts[p].selected \in SUBSET Archived
  <2>1. \A command \in Commands, x \in Procs : command[x].selected \subseteq Archived
      BY RestoreAssumption
  <2> QED BY <2>1 DEF Backup
<1>2. SelectionSet(opts[p].selected) \in SUBSET Archived
    BY <1>1, SelectionArchived
<1> QED BY <1>2 DEF Wanted

\* The ranges a stream walks: all of the archive, the merged entries or one per entry.
LEMMA SpansCover ==
  ASSUME Backup, NEW p \in Procs
  PROVE  /\ FreshTrailer(p) => Cover(Wanted(p), Spans(p), ContentEnd)
         /\ opts[p].keepGoing => Spans(p) = PerEntry(Wanted(p))
         /\ ~FreshTrailer(p) => /\ Spans(p) = << [start |-> 0, end |-> Total] >>
                                /\ Wanted(p) = Archived
<1>1. Wanted(p) \in SUBSET Archived
    BY WantedArchived
<1>2. Cover(Wanted(p), Merged(Wanted(p)), ContentEnd) /\ Cover(Wanted(p), PerEntry(Wanted(p)), ContentEnd)
    BY <1>1, MergedCovers, PerEntryCovers, ZenonT(30)
<1>3. CASE opts[p].keepGoing
  <2>1. Spans(p) = PerEntry(Wanted(p)) /\ FreshTrailer(p)
      BY <1>3 DEF Spans, FreshTrailer
  <2> QED BY <1>2, <2>1
<1>4. CASE ~opts[p].keepGoing /\ Filtered(p)
  <2>1. Spans(p) = Merged(Wanted(p)) /\ FreshTrailer(p)
      BY <1>4 DEF Spans, FreshTrailer
  <2> QED BY <1>2, <1>4, <2>1
<1>5. CASE ~opts[p].keepGoing /\ ~Filtered(p)
  <2>1. Spans(p) = << [start |-> 0, end |-> Total] >> /\ ~FreshTrailer(p)
      BY <1>5 DEF Spans, FreshTrailer
  <2>2. Wanted(p) = Archived
      BY <1>5 DEF Wanted
  <2> QED BY <1>5, <2>1, <2>2
<1> QED BY <1>3, <1>4, <1>5

\* Every range has blocks, and blocks of the archive.
LEMMA SpansTyped ==
  ASSUME Backup, NEW p \in Procs
  PROVE  /\ Len(Spans(p)) \in Nat
         /\ \A n \in 1..Len(Spans(p)) :
              /\ Spans(p)[n].start \in Nat /\ Spans(p)[n].end \in Nat
              /\ Spans(p)[n].start < Spans(p)[n].end /\ Spans(p)[n].end <= Total
              /\ FreshTrailer(p) => Spans(p)[n].end <= ContentEnd
<1>1. Total \in Nat /\ ContentEnd \in Nat /\ ContentEnd = Total - 2
    BY Sizes
<1>2. CASE FreshTrailer(p)
  <2> DEFINE R == Spans(p)
  <2>1. Cover(Wanted(p), R, ContentEnd)
      BY <1>2, SpansCover
  <2> HIDE DEF R
  <2>2. Len(R) \in Nat
      BY <2>1, CoverTypes
  <2>3. \A n \in 1..Len(R) : /\ R[n].start \in Nat /\ R[n].end \in Nat
                             /\ R[n].start < R[n].end /\ R[n].end <= ContentEnd
      BY <2>1, SpanTypes
  <2> QED BY <1>1, <2>2, <2>3, SMTT(30) DEF R
<1>3. CASE ~FreshTrailer(p)
  <2>1. Spans(p) = << [start |-> 0, end |-> Total] >>
      BY <1>3, SpansCover
  <2> QED BY <1>1, <1>3, <2>1, SMTT(30)
<1> QED BY <1>2, <1>3

-----------------------------------------------------------------------------
(* Before and after the walk.                                              *)

\* A command that returns, or is killed, without a tar that counts as finished.
LEMMA LeaveKeeps ==
  ASSUME NEW q \in Procs, ReadInv(q), UNCHANGED fixed, pc'[q] \in {"done", "killed"},
         file'[q] = "new" => opts[q].cmd = "restore" /\ pc'[q] = "killed",
         Clean(q)', Verified(q)'
  PROVE  ReadInv(q)'
<1>1. opts' = opts
    BY FixedKeeps
<1>2. Fresh(q)' /\ Filed(q)' /\ Finished(q)'
    BY <1>1, ZenonT(30) DEF Fresh, Filed, Finished
<1>3. ~Reading(q)'
    BY DEF Reading
<1>4. Placed(q)' /\ Written(q)' /\ Proved(q)'
    BY <1>3, ZenonT(30) DEF Placed, Written, Proved
<1>5. Opened(q)'
    BY DEF Opened
<1> QED BY <1>2, <1>4, <1>5, ZenonT(30) DEF ReadInv

\* A command that goes from one place before the walk to the next.
LEMMA GoKeeps ==
  ASSUME NEW q \in Procs, ReadInv(q), UNCHANGED <<fixed, walking, out, file, result>>,
         pc[q] \in {"off", "unlock", "index"} \/ (pc[q] = "walk" /\ Verifying(q)),
         pc'[q] \in {"unlock", "index", "create", "walk"},
         pc'[q] = "walk" => opts[q].cmd # "restore",
         pc'[q] = "create" => opts[q].cmd = "restore",
         (pc'[q] = "index" /\ Verifying(q)) => off[q] = Len(Plain),
         Opened(q)'
  PROVE  ReadInv(q)'
<1>1. opts' = opts /\ Verifying(q)' = Verifying(q) /\ MustVerify(q)' = MustVerify(q)
    BY FixedKeeps
<1>2. /\ ranges' = ranges /\ span' = span /\ pass' = pass /\ off' = off /\ memo' = memo
      /\ bad' = bad /\ skipped' = skipped /\ out' = out /\ file' = file /\ result' = result
      /\ damage' = damage /\ metadata' = metadata /\ encrypted' = encrypted
    BY DEF walking, fixed
<1>3. Fresh(q)'
    BY <1>1, <1>2, ZenonT(30) DEF ReadInv, Fresh, Verifying
<1>4. Filed(q)'
    BY <1>1, <1>2, ZenonT(30) DEF ReadInv, Filed, Verifying
<1>5. ~Reading(q)'
    BY <1>1, ZenonT(30) DEF Reading
<1>6. Placed(q)' /\ Written(q)' /\ Proved(q)'
    BY <1>5, ZenonT(30) DEF Placed, Written, Proved
<1>7. Finished(q)'
    BY <1>1 DEF Finished
<1>8. Clean(q)'
    BY <1>1, <1>2, ZenonT(30) DEF ReadInv, Clean
<1>9. Verified(q)'
  <2>1. CASE Verifying(q)
    <3>1. /\ off[q] \in 0 .. Len(Plain)
          /\ bad[q] = {} => \A i \in 1 .. off[q] : damage[i] = "ok"
          /\ result[q] = "ok" => Intact
        BY <2>1 DEF ReadInv, Verified
    <3>2. Intact' = Intact
        BY <1>2, ZenonT(30) DEF Intact
    <3>3. pc'[q] # "load"
        OBVIOUS
    <3> QED BY <1>2, <2>1, <3>1, <3>2, <3>3, ZenonT(30) DEF Verified
  <2>2. CASE ~Verifying(q)
      BY <1>1, <2>2, ZenonT(30) DEF Verified
  <2> QED BY <2>1, <2>2
<1> QED BY <1>3, <1>4, <1>6, <1>7, <1>8, <1>9, ZenonT(30) DEF ReadInv

\* A verify that stops where it is.
LEMMA VerifiedLeaves ==
  ASSUME NEW q \in Procs, Verified(q), UNCHANGED fixed, off'[q] = off[q], bad'[q] = bad[q],
         pc'[q] \in {"done", "killed"}, (Verifying(q) /\ result'[q] = "ok") => Intact
  PROVE  Verified(q)'
<1>1. /\ Verifying(q)' = Verifying(q) /\ damage' = damage /\ metadata' = metadata
      /\ encrypted' = encrypted
    BY FixedKeeps
<1>2. Intact' = Intact
    BY <1>1, ZenonT(30) DEF Intact
<1>3. pc'[q] # "load" /\ pc'[q] # "index"
    OBVIOUS
<1> QED BY <1>1, <1>2, <1>3, ZenonT(30) DEF Verified

\* A command that ends without a tar keeps its part of the invariant.
LEMMA ExitKeeps ==
  ASSUME Tables, NEW q \in Procs, ReadInv(q), NEW how, Exit(q, how), UNCHANGED <<fixed, walking, out>>,
         file'[q] # "new", (Verifying(q) /\ how = "ok") => Intact
  PROVE  ReadInv(q)'
<1>1. pc'[q] = "done" /\ result'[q] = how
    BY ZenonT(30) DEF Exit, Goto, Tables
<1>2. off' = off /\ bad' = bad /\ out' = out /\ MustVerify(q)' = MustVerify(q)
    BY FixedKeeps DEF walking
<1>3. Clean(q)'
    BY <1>2, ZenonT(30) DEF ReadInv, Clean
<1>4. Verified(q)'
  <2>1. /\ Verified(q) /\ UNCHANGED fixed /\ pc'[q] \in {"done", "killed"}
        /\ off'[q] = off[q] /\ bad'[q] = bad[q]
      BY <1>1, <1>2, ZenonT(30) DEF ReadInv
  <2>2. (Verifying(q) /\ result'[q] = "ok") => Intact
      BY <1>1
  <2> QED BY <2>1, <2>2, VerifiedLeaves, ZenonT(30)
<1> QED BY <1>1, <1>3, <1>4, LeaveKeeps

\* Opening the image, its metadata layer and its tables.
LEMMA OpenBackupKeeps ==
  ASSUME Tables, Backup, NEW q \in Procs, ReadInv(q), OpenBackup(q)
  PROVE  ReadInv(q)'
<1>1. pc[q] = "off" /\ UNCHANGED <<fixed, walking, out, file>>
    BY ZenonT(30) DEF OpenBackup
<1>2. file'[q] # "new"
    BY <1>1 DEF ReadInv, Filed
<1>3. CASE ImageOpens /\ MetaReads /\ TableReads
  <2>1. CASE opts[q].cmd = "quick"
    <3>1. Exit(q, "ok") /\ ~Verifying(q)
        BY <1>3, <2>1, ZenonT(30) DEF OpenBackup, Verifying
    <3> QED BY <1>1, <1>2, <3>1, ExitKeeps
  <2>2. CASE opts[q].cmd # "quick"
    <3>1. pc'[q] = "unlock" /\ result' = result
        BY <1>3, <2>2, ZenonT(30) DEF OpenBackup, Goto, Tables
    <3>2. Opened(q)'
        BY <1>1, <1>3, <3>1, FixedKeeps, ZenonT(30) DEF Opened, ImageOpens, MetaReads, TableReads
    <3> QED BY <1>1, <3>1, <3>2, GoKeeps
  <2> QED BY <2>1, <2>2
<1>4. CASE ~(ImageOpens /\ MetaReads /\ TableReads)
  <2>1. Exit(q, "failed")
      BY <1>4, ZenonT(30) DEF OpenBackup
  <2> QED BY <1>1, <1>2, <2>1, ExitKeeps
<1> QED BY <1>3, <1>4

\* Unlocking, with the private part and its binding.
LEMMA UnlockKeeps ==
  ASSUME Tables, Backup, NEW q \in Procs, ReadInv(q), Unlock(q)
  PROVE  ReadInv(q)'
<1>1. pc[q] = "unlock" /\ UNCHANGED <<fixed, walking, out, file>>
    BY ZenonT(30) DEF Unlock
<1>2. file'[q] # "new"
    BY <1>1 DEF ReadInv, Filed
<1>3. CASE Unlocks(q) /\ ~Exit(q, "failed")
  <2>1. /\ pc'[q] = CASE NeedsIndex(q) -> "index"
                      [] ~NeedsIndex(q) /\ opts[q].cmd = "restore" -> "create"
                      [] OTHER -> "walk"
        /\ result' = result
      BY <1>3 DEF Unlock, Goto, Tables
  <2>2. /\ pc'[q] \in {"index", "create", "walk"}
        /\ pc'[q] = "walk" => opts[q].cmd # "restore"
        /\ pc'[q] = "create" => opts[q].cmd = "restore"
        /\ pc'[q] = "index" => ~Verifying(q)
    <3>1. CASE NeedsIndex(q)
      <4>1. pc'[q] = "index"
          BY <2>1, <3>1, ZenonT(30)
      <4> QED BY <3>1, <4>1 DEF NeedsIndex, Verifying
    <3>2. CASE ~NeedsIndex(q) /\ opts[q].cmd = "restore"
      <4>1. pc'[q] = "create"
          BY <2>1, <3>2, ZenonT(30)
      <4> QED BY <3>2, <4>1
    <3>3. CASE ~NeedsIndex(q) /\ opts[q].cmd # "restore"
      <4>1. pc'[q] = "walk"
          BY <2>1, <3>3, ZenonT(30)
      <4> QED BY <3>3, <4>1
    <3> QED BY <3>1, <3>2, <3>3
  <2>3. Opened(q)'
    <3>1. metadata \notin {"image", "layer", "table"}
        BY <1>1 DEF ReadInv, Opened
    <3>2. encrypted => metadata \notin {"private", "binding"}
        BY <1>3 DEF Unlocks, PrivateReads, BindingHolds
    <3>3. metadata' = metadata /\ encrypted' = encrypted
        BY <1>1, FixedKeeps
    <3> QED BY <3>1, <3>2, <3>3, ZenonT(30) DEF Opened
  <2> QED BY <1>1, <2>1, <2>2, <2>3, GoKeeps
<1>4. CASE Exit(q, "failed")
    BY <1>1, <1>2, <1>4, ExitKeeps
<1> QED BY <1>3, <1>4, ZenonT(30) DEF Unlock

\* Reading the index, where the command needs one.
LEMMA ReadIndexKeeps ==
  ASSUME Tables, Backup, NEW q \in Procs, ReadInv(q), ReadIndex(q)
  PROVE  ReadInv(q)'
<1>1. pc[q] = "index" /\ UNCHANGED <<fixed, walking, out, file>>
    BY ZenonT(30) DEF ReadIndex
<1>2. file'[q] # "new"
    BY <1>1 DEF ReadInv, Filed
<1>3. CASE Exit(q, "failed")
    BY <1>1, <1>2, <1>3, ExitKeeps
<1>4. CASE opts[q].cmd = "restore" /\ Goto(q, "create") /\ UNCHANGED <<recent, result>>
  <2>1. pc'[q] = "create" /\ result' = result
      BY <1>4 DEF Goto, Tables
  <2>2. Opened(q)'
    <3>1. metadata' = metadata /\ encrypted' = encrypted
        BY <1>1, FixedKeeps
    <3> QED BY <1>1, <2>1, <3>1 DEF ReadInv, Opened
  <2> QED BY <1>1, <1>4, <2>1, <2>2, GoKeeps
<1>5. CASE IndexReads /\ opts[q].cmd # "restore" /\ Exit(q, IF bad[q] = {} THEN "ok" ELSE "failed")
  <2>1. CASE bad[q] = {}
    <3>1. Exit(q, "ok")
        BY <1>5, <2>1
    <3>2. ASSUME Verifying(q) PROVE Intact
      <4>1. /\ off[q] = Len(Plain) /\ \A i \in 1 .. off[q] : damage[i] = "ok"
          BY <1>1, <2>1, <3>2 DEF ReadInv, Verified
      <4>2. Chunks = 1 .. Len(Plain)
          BY Sizes
      <4>3. metadata = "ok" \/ (metadata \in {"private", "binding"} /\ ~encrypted)
          BY <1>1, <1>5, ZenonT(30) DEF ReadInv, Opened, Backup, IndexReads
      <4> QED BY <4>1, <4>2, <4>3, ZenonT(30) DEF Intact
    <3> QED BY <1>1, <1>2, <3>1, <3>2, ExitKeeps
  <2>2. CASE bad[q] # {}
    <3>1. Exit(q, "failed")
        BY <1>5, <2>2
    <3> QED BY <1>1, <1>2, <3>1, ExitKeeps
  <2> QED BY <2>1, <2>2
<1> QED BY <1>3, <1>4, <1>5, ZenonT(30) DEF ReadIndex

\* verify has been through all chunks.
LEMMA VerifyEndKeeps ==
  ASSUME Tables, NEW q \in Procs, ReadInv(q), VerifyEnd(q)
  PROVE  ReadInv(q)'
<1>1. /\ Verifying(q) /\ pc[q] = "walk" /\ off[q] = Len(Plain)
      /\ UNCHANGED <<fixed, walking, out, file, result>>
    BY ZenonT(30) DEF VerifyEnd
<1>2. pc'[q] = "index"
    BY DEF VerifyEnd, Goto, Tables
<1>3. Opened(q)'
  <2>1. metadata' = metadata /\ encrypted' = encrypted
      BY <1>1, FixedKeeps
  <2> QED BY <1>1, <1>2, <2>1 DEF ReadInv, Opened
<1> QED BY <1>1, <1>2, <1>3, GoKeeps

\* verify reads a chunk.
LEMMA VerifyLoadKeeps ==
  ASSUME Tables, NEW q \in Procs, ReadInv(q), VerifyLoad(q)
  PROVE  ReadInv(q)'
<1>1. /\ Verifying(q) /\ pc[q] = "walk" /\ off[q] < Len(Plain)
      /\ UNCHANGED <<fixed, walking, out, file, result>>
    BY ZenonT(30) DEF VerifyLoad
<1>2. pc'[q] = "load"
    BY DEF VerifyLoad, Goto, Tables
<1>3. /\ opts' = opts /\ Verifying(q)' = Verifying(q) /\ MustVerify(q)' = MustVerify(q)
      /\ off' = off /\ bad' = bad /\ out' = out /\ file' = file /\ result' = result
      /\ damage' = damage /\ metadata' = metadata /\ encrypted' = encrypted
    BY <1>1, FixedKeeps, ZenonT(30) DEF walking
<1>4. opts[q].cmd # "restore"
    BY <1>1 DEF Verifying
<1>5. ~Reading(q)' /\ Fresh(q)' /\ Filed(q)' /\ Finished(q)'
    BY <1>1, <1>2, <1>3, <1>4, ZenonT(30) DEF ReadInv, Reading, Fresh, Filed, Finished
<1>6. Placed(q)' /\ Written(q)' /\ Proved(q)'
    BY <1>5, ZenonT(30) DEF Placed, Written, Proved
<1>7. Clean(q)'
    BY <1>3, ZenonT(30) DEF ReadInv, Clean
<1>8. Opened(q)'
    BY <1>1, <1>2, <1>3, ZenonT(30) DEF ReadInv, Opened
<1>9. Verified(q)'
  <2>1. Intact' = Intact
      BY <1>3, ZenonT(30) DEF Intact
  <2>2. pc'[q] # "index"
      BY <1>2
  <2> QED BY <1>1, <1>3, <2>1, <2>2, ZenonT(30) DEF ReadInv, Verified
<1> QED BY <1>5, <1>6, <1>7, <1>8, <1>9, ZenonT(30) DEF ReadInv

\* verify has its chunk, or fails on it.
LEMMA VerifyChunkKeeps ==
  ASSUME Tables, Backup, NEW q \in Procs, ReadInv(q), VerifyChunk(q)
  PROVE  ReadInv(q)'
<1> DEFINE i == off[q] + 1
           fails == task[q].at = "failed" \/ damage[i] # "ok"
<1>1. /\ Verifying(q) /\ pc[q] = "load"
      /\ UNCHANGED <<fixed, ranges, span, memo, skipped, out, file>>
      /\ bad' = [bad EXCEPT ![q] = IF fails THEN @ \cup {i} ELSE @]
    BY ZenonT(30) DEF VerifyChunk
<1>2. /\ opts' = opts /\ Verifying(q)' = Verifying(q) /\ MustVerify(q)' = MustVerify(q)
      /\ out' = out /\ file' = file
      /\ damage' = damage /\ metadata' = metadata /\ encrypted' = encrypted
    BY <1>1, FixedKeeps, ZenonT(30)
<1>3. opts[q].cmd # "restore" /\ file'[q] # "new"
    BY <1>1, <1>2, ZenonT(30) DEF ReadInv, Filed, Verifying
<1>4. Clean(q)' /\ Intact' = Intact
    BY <1>2, ZenonT(30) DEF ReadInv, Clean, Intact
<1>5. /\ off[q] \in 0 .. Len(Plain) /\ off[q] < Len(Plain) /\ Len(Plain) \in Nat
      /\ bad[q] = {} => \A k \in 1 .. off[q] : damage[k] = "ok"
      /\ result[q] = "ok" => Intact
    BY <1>1, Sizes, ZenonT(30) DEF ReadInv, Verified
<1>6. bad'[q] = {} => bad[q] = {} /\ ~fails
  <2>1. bad'[q] = IF fails THEN bad[q] \cup {i} ELSE bad[q]
      BY <1>1, ZenonT(30) DEF Tables
  <2> HIDE DEF fails
  <2> QED BY <2>1
<1>7. CASE fails /\ ~opts[q].keepGoing
  <2>1. Exit(q, "failed") /\ UNCHANGED <<off, pass>>
      BY <1>7, ZenonT(30) DEF VerifyChunk
  <2>2. pc'[q] = "done" /\ result'[q] = "failed" /\ off' = off
      BY <2>1, ZenonT(30) DEF Exit, Goto, Tables
  <2>3. pc'[q] \notin {"load", "index"} /\ result'[q] # "ok"
      BY <2>2, ZenonT(30)
  <2>4. Verified(q)'
      BY <1>2, <1>5, <1>6, <1>7, <2>2, <2>3, ZenonT(30) DEF Verified
  <2> QED BY <1>1, <1>3, <1>4, <2>2, <2>4, LeaveKeeps, ZenonT(30)
<1>8. CASE ~(fails /\ ~opts[q].keepGoing)
  <2>1. /\ pc' = [pc EXCEPT ![q] = "walk"] /\ result' = result
        /\ off' = [off EXCEPT ![q] = IF fails \/ pass[q] = 2 THEN @ + 1 ELSE @]
      BY <1>8, ZenonT(30) DEF VerifyChunk, Goto
  <2>2. pc'[q] = "walk" /\ result' = result
      BY <2>1 DEF Tables
  <2>3. off'[q] = off[q] \/ off'[q] = off[q] + 1
      BY <2>1 DEF Tables
  <2>4. ~Reading(q)' /\ Fresh(q)' /\ Filed(q)' /\ Finished(q)'
      BY <1>1, <1>2, <1>3, <2>2, ZenonT(30) DEF ReadInv, Reading, Fresh, Filed, Finished
  <2>5. Placed(q)' /\ Written(q)' /\ Proved(q)'
      BY <2>4, ZenonT(30) DEF Placed, Written, Proved
  <2>6. Opened(q)'
      BY <1>1, <1>2, <2>2, ZenonT(30) DEF ReadInv, Opened
  <2>7. Verified(q)'
    <3>1. off'[q] \in 0 .. Len(Plain)
        BY <1>5, <2>3, SMTT(30)
    <3>2. bad'[q] = {} => \A k \in 1 .. off'[q] : damage'[k] = "ok"
      <4>1. SUFFICES ASSUME bad'[q] = {}, NEW k \in 1 .. off'[q] PROVE damage[k] = "ok"
          BY <1>2
      <4>2. damage[off[q] + 1] = "ok" /\ \A j \in 1 .. off[q] : damage[j] = "ok"
          BY <1>5, <1>6, <4>1, ZenonT(30)
      <4>3. k \in 1 .. off[q] \/ k = off[q] + 1
          BY <1>5, <2>3, SMTT(30)
      <4> QED BY <4>2, <4>3, ZenonT(30)
    <3>3. pc'[q] # "load" /\ pc'[q] # "index"
        BY <2>2
    <3> QED BY <1>1, <1>2, <1>4, <1>5, <2>2, <3>1, <3>2, <3>3, ZenonT(30) DEF Verified
  <2> QED BY <1>4, <2>4, <2>5, <2>6, <2>7, ZenonT(30) DEF ReadInv
<1> QED BY <1>7, <1>8

\* A stream that fails takes its tar with it.
LEMMA AbortKeeps ==
  ASSUME Tables, NEW q \in Procs, ReadInv(q), Reading(q), Abort(q), UNCHANGED fixed, Clean(q)'
  PROVE  ReadInv(q)'
<1>1. pc'[q] = "done" /\ file'[q] = "absent"
    BY DEF Abort, Exit, Goto, Tables, Reading
<1>2. ~Verifying(q) /\ Verifying(q)' = Verifying(q)
    BY FixedKeeps, ZenonT(30) DEF Reading, Verifying
<1>3. Verified(q)'
    BY <1>2, ZenonT(30) DEF Verified
<1> QED BY <1>1, <1>3, LeaveKeeps

\* A signal during a stream.
LEMMA InterruptedKeeps ==
  ASSUME Tables, NEW q \in Procs, ReadInv(q), Interrupted(q)
  PROVE  ReadInv(q)'
<1>1. Reading(q) /\ Abort(q) /\ UNCHANGED <<fixed, out>>
    BY DEF Interrupted, Streaming, Reading
<1>2. Clean(q)'
    BY <1>1, FixedKeeps, ZenonT(30) DEF ReadInv, Clean
<1> QED BY <1>1, <1>2, AbortKeeps

\* A killed process leaves its tar, and says nothing of it.
LEMMA KilledKeeps ==
  ASSUME Tables, NEW q \in Procs, ReadInv(q), Killed(q)
  PROVE  ReadInv(q)'
<1>1. UNCHANGED <<fixed, walking, out, file, result>>
    BY ZenonT(30) DEF Killed
<1>2. pc'[q] = "killed"
    BY DEF Killed, Goto, Tables
<1>3. file'[q] = "new" => opts[q].cmd = "restore"
    BY <1>1 DEF ReadInv, Filed
<1>4. Clean(q)'
    BY <1>1, FixedKeeps, ZenonT(30) DEF ReadInv, Clean
<1>5. Verified(q)'
  <2>1. off' = off /\ bad' = bad /\ result' = result
      BY <1>1 DEF walking
  <2>2. (Verifying(q) /\ result'[q] = "ok") => Intact
      BY <2>1, ZenonT(30) DEF ReadInv, Verified
  <2>3. /\ Verified(q) /\ UNCHANGED fixed /\ pc'[q] \in {"done", "killed"}
        /\ off'[q] = off[q] /\ bad'[q] = bad[q]
      BY <1>1, <1>2, <2>1, ZenonT(30) DEF ReadInv
  <2> QED BY <2>2, <2>3, VerifiedLeaves, ZenonT(30)
<1> QED BY <1>1, <1>2, <1>3, <1>4, <1>5, LeaveKeeps

=============================================================================
