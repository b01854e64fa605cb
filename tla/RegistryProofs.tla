--------------------------- MODULE RegistryProofs ---------------------------
(***************************************************************************)
(* The registry client, module by module.                                  *)
(*                                                                         *)
(* What a push promises, for any images, any number of workers and retries *)
(* and any number of crashes, cancellations, failed requests and           *)
(* collections of the registry.  The task list is computed by two loops;   *)
(* what it holds is proved by induction over them.  The invariant PushInv  *)
(* follows a digest from the feeder to the set p.done, and the main        *)
(* goroutine from there to the tag and the read-back.                      *)
(*                                                                         *)
(* Which tokens its requests carry, for any number of them, any lives of   *)
(* the tokens and any revocations.  TokenInv follows a token from the mint *)
(* through the stream and the broker to the request that carries it.       *)
(***************************************************************************)
EXTENDS RegistryPush, TokenFlow, TLAPS, WellFoundedInduction

\* A leaf that names no prover is given to the SMT solver, then to Zenon.
USE SMTT(30), ZenonT(30)

-----------------------------------------------------------------------------
(* Induction and recursion.                                                *)

\* A non-empty set of natural numbers has a least element.
LEMMA LeastNumber ==
  ASSUME NEW T \in SUBSET Nat, T # {}
  PROVE  \E x \in T : \A y \in T : x <= y
<1> DEFINE R == {ss \in Nat \X Nat : ss[1] < ss[2]}
<1>1. IsWellFoundedOn(R, Nat)
    BY NatLessThanWellFounded DEF OpToRel
<1>2. \A x, y \in Nat : x < y => <<x, y>> \in R
    BY ZenonT(30)
<1> HIDE DEF R
<1>3. PICK x \in T : \A y \in T : ~(<<y, x>> \in R)
    BY <1>1, WFMin, ZenonT(30)
<1>4. \A y \in T : ~(y < x)
    BY <1>2, <1>3, ZenonT(30)
<1> QED BY <1>4

\* A set that has 0 and the successors of its elements has all of 0..N.
LEMMA Induction ==
  ASSUME NEW N \in Nat, NEW P, 0 \in P, \A n \in 1..N : n - 1 \in P => n \in P
  PROVE  0..N \subseteq P
<1> SUFFICES ASSUME NEW m \in 0..N, m \notin P PROVE FALSE
    BY ZenonT(30)
<1> DEFINE T == {n \in 0..N : n \notin P}
<1>1. PICK x \in T : \A y \in T : x <= y
  <2>1. T \in SUBSET Nat /\ T # {}
      OBVIOUS
  <2> QED BY <2>1, LeastNumber, ZenonT(30)
<1>2. x \in 1..N /\ x - 1 \in P
    BY <1>1
<1> QED BY <1>1, <1>2, ZenonT(30)

\* What a loop of N rounds over values of V computes: G[n] is round n, from a.
Loop(f, N, V, a, G) ==
    f \in [0..N -> V] /\ f[0] = a /\ \A n \in 1..N : f[n] = G[n][f[n - 1]]

\* A loop over values of V has a value after every round, so the function it is written
\* as exists.
LEMMA LoopExists ==
  ASSUME NEW N \in Nat, NEW V, NEW a \in V, NEW G \in [1..N -> [V -> V]]
  PROVE  \E f : Loop(f, N, V, a, G)
<1> DEFINE P == {k \in 0..N : \E f : Loop(f, k, V, a, G)}
<1>1. 0 \in P
  <2>1. Loop([n \in 0..0 |-> a], 0, V, a, G)
      BY  DEF Loop
  <2>2. 0 \in 0..N
      OBVIOUS
  <2> QED BY <2>1, <2>2
<1>2. ASSUME NEW k \in 1..N, k - 1 \in P PROVE k \in P
  <2>1. PICK f : Loop(f, k - 1, V, a, G)
      BY <1>2, ZenonT(30)
  <2> DEFINE g == [n \in 0..k |-> IF n = k THEN G[k][f[k - 1]] ELSE f[n]]
  <2>2. f[k - 1] \in V /\ G[k] \in [V -> V]
      BY <2>1 DEF Loop
  <2>3. g \in [0..k -> V]
      BY <2>1, <2>2 DEF Loop
  <2>4. g[0] = a
      BY <2>1 DEF Loop
  <2>5. ASSUME NEW n \in 1..k PROVE g[n] = G[n][g[n - 1]]
      BY <2>1 DEF Loop
  <2>6. Loop(g, k, V, a, G)
      BY <2>3, <2>4, <2>5, ZenonT(30) DEF Loop
  <2>7. k \in 0..N
      OBVIOUS
  <2> HIDE DEF g
  <2> QED BY <2>6, <2>7, ZenonT(30)
<1> HIDE DEF P
<1>3. 0..N \subseteq P
    BY <1>1, <1>2, Induction, ZenonT(30)
<1>4. N \in P
    BY <1>3
<1> QED BY <1>4 DEF P

-----------------------------------------------------------------------------
(* The task list.                                                          *)

\* What a sequence holds after two are joined.
LEMMA JoinRange ==
  ASSUME NEW S, NEW s \in Seq(S), NEW t \in Seq(S)
  PROVE  s \o t \in Seq(S) /\ Range(s \o t) = Range(s) \cup Range(t)
<1>1. s \o t \in Seq(S) /\ Range(s \o t) \subseteq Range(s) \cup Range(t)
    BY  DEF Range
<1>2. Range(s) \subseteq Range(s \o t)
    BY  DEF Range
<1>3. ASSUME NEW i \in 1..Len(t) PROVE t[i] \in Range(s \o t)
  <2>1. Len(s) + i \in DOMAIN (s \o t) /\ (s \o t)[Len(s) + i] = t[i]
      OBVIOUS
  <2> QED BY <2>1 DEF Range
<1>4. Range(t) \subseteq Range(s \o t)
    BY <1>3 DEF Range
<1> QED BY <1>1, <1>2, <1>4, ZenonT(30)

\* What a sequence holds after an element is added.
LEMMA AppendRange ==
  ASSUME NEW S, NEW s \in Seq(S), NEW e \in S
  PROVE  Append(s, e) \in Seq(S) /\ Range(Append(s, e)) = Range(s) \cup {e}
<1>1. Append(s, e) \in Seq(S) /\ Range(Append(s, e)) \subseteq Range(s) \cup {e}
    BY  DEF Range
<1>2. Range(s) \subseteq Range(Append(s, e))
    BY  DEF Range
<1>3. Len(s) + 1 \in DOMAIN Append(s, e) /\ Append(s, e)[Len(s) + 1] = e
    OBVIOUS
<1>4. e \in Range(Append(s, e))
    BY <1>3, ZenonT(30) DEF Range
<1> QED BY <1>1, <1>2, <1>4, ZenonT(30)

\* What a sequence holds is its head and the rest.
LEMMA HeadTail ==
  ASSUME NEW S, NEW s \in Seq(S), s # <<>>
  PROVE  Range(s) \subseteq {Head(s)} \cup Range(Tail(s))
<1> SUFFICES ASSUME NEW i \in 1..Len(s), i # 1 PROVE s[i] \in Range(Tail(s))
    BY  DEF Range
<1>1. i - 1 \in DOMAIN Tail(s) /\ Tail(s)[i - 1] = s[i]
    OBVIOUS
<1> QED BY <1>1, ZenonT(30) DEF Range

\* The loop over the platforms.
LEMMA NamedLoop ==
  /\ Named[0] = <<>>
  /\ \A i \in 1..Len(Images) : Named[i] = Named[i - 1] \o Images[i]
<1> DEFINE N == Len(Images)
           V == Seq(Digests)
           Round(v, i) == v \o Images[i]
           G == [i \in 1..N |-> [v \in V |-> Round(v, i)]]
           Joins(f) == f = [i \in 0..N |-> IF i = 0 THEN <<>> ELSE Round(f[i - 1], i)]
<1>1. N \in Nat /\ \A i \in 1..N : Images[i] \in V
    BY PushAssumption
<1>2. <<>> \in V /\ \A v, u \in V : v \o u \in V
    OBVIOUS
<1>0. \A i \in 1..N, v \in V : Round(v, i) \in V
    BY <1>1, <1>2, ZenonT(30)
<1>3. Named = CHOOSE g : Joins(g)
    BY ZenonT(30)  DEF Named
<1> HIDE DEF N, V, Round
<1>4. G \in [1..N -> [V -> V]]
    BY <1>0
<1>5. \A i \in 1..N, v \in V : G[i][v] = Round(v, i)
    BY ZenonT(30)
<1> HIDE DEF G
<1>6. PICK f : Loop(f, N, V, <<>>, G)
    BY <1>1, <1>2, <1>4, LoopExists, ZenonT(30)
<1>7. \A i \in 1..N : f[i - 1] \in V
    BY <1>1, <1>6 DEF Loop
<1>8. \A i \in 1..N : f[i] = Round(f[i - 1], i)
    BY <1>5, <1>6, <1>7, ZenonT(30) DEF Loop
<1>9. Joins(f)
    BY <1>1, <1>6, <1>8 DEF Loop
<1> HIDE DEF Joins
<1>10. Joins(Named)
    BY <1>3, <1>9, ZenonT(30)
<1>11. Named[0] = <<>> /\ \A i \in 1..N : Named[i] = Round(Named[i - 1], i)
    BY <1>1, <1>10 DEF Joins
<1> QED BY <1>11, ZenonT(30) DEF N, Round

\* The digests named by the first platforms.
LEMMA AllNamedRange == AllNamed \in Seq(Digests) /\ Range(AllNamed) = Digests
<1> DEFINE N == Len(Images)
           Of(i) == UNION {Range(Images[j]) : j \in 1..i}
           P == {i \in 0..N : Named[i] \in Seq(Digests) /\ Range(Named[i]) = Of(i)}
<1>0. N \in Nat /\ DOMAIN Images = 1..N /\ \A i \in 1..N : Images[i] \in Seq(Digests)
    BY PushAssumption
<1>1. N \in Nat /\ (\A i \in 1..N : Images[i] \in Seq(Digests)) /\ Digests = Of(N)
    BY <1>0 DEF Digests
<1>2. 0 \in P
  <2>1. <<>> \in Seq(Digests) /\ Range(<<>>) = {}
      BY  DEF Range
  <2>2. Of(0) = {} /\ 0 \in 0..N
      BY <1>1
  <2> QED BY <2>1, <2>2, NamedLoop, ZenonT(30)
<1>3. ASSUME NEW i \in 1..N, i - 1 \in P PROVE i \in P
  <2>1. Named[i] = Named[i - 1] \o Images[i]
      BY NamedLoop, ZenonT(30)
  <2>2. Named[i - 1] \in Seq(Digests) /\ Range(Named[i - 1]) = Of(i - 1)
      BY <1>3
  <2>3. Named[i] \in Seq(Digests) /\ Range(Named[i]) = Of(i - 1) \cup Range(Images[i])
    <3>1. Images[i] \in Seq(Digests)
        BY <1>1
    <3>2. /\ Named[i - 1] \o Images[i] \in Seq(Digests)
          /\ Range(Named[i - 1] \o Images[i]) = Range(Named[i - 1]) \cup Range(Images[i])
        BY <2>2, <3>1, JoinRange
    <3> QED BY <2>1, <2>2, <3>2, ZenonT(30)
  <2>4. 1..i = (1..(i - 1)) \cup {i} /\ i \in 0..N
      BY <1>1
  <2>5. Of(i) = Of(i - 1) \cup Range(Images[i])
      BY <2>4, ZenonT(30)
  <2> QED BY <2>3, <2>4, <2>5, ZenonT(30)
<1> HIDE DEF P
<1>4. 0..N \subseteq P
    BY <1>1, <1>2, <1>3, Induction, ZenonT(30)
<1>5. N \in P
    BY <1>1, <1>4
<1> QED BY <1>1, <1>5 DEF P, AllNamed

\* The loop that skips what was seen.
LEMMA CollectedLoop ==
  /\ Collected[0] = <<>>
  /\ \A n \in 1..Len(AllNamed) :
        Collected[n] = IF AllNamed[n] \in Range(Collected[n - 1]) THEN Collected[n - 1]
                       ELSE Append(Collected[n - 1], AllNamed[n])
<1> DEFINE N == Len(AllNamed)
           V == Seq(Digests)
           Round(v, n) == IF AllNamed[n] \in Range(v) THEN v ELSE Append(v, AllNamed[n])
           G == [n \in 1..N |-> [v \in V |-> Round(v, n)]]
           Collects0(f) == f = [n \in 0..N |-> IF n = 0 THEN <<>> ELSE Round(f[n - 1], n)]
<1>1. N \in Nat /\ \A n \in 1..N : AllNamed[n] \in Digests
    BY AllNamedRange
<1>2. <<>> \in V
    OBVIOUS
<1>3. \A n \in 1..N, v \in V : Round(v, n) \in V
    BY <1>1, AppendRange
<1>4. Collected = CHOOSE g : Collects0(g)
    BY ZenonT(30)  DEF Collected
<1> HIDE DEF N, V, Round
<1>5. G \in [1..N -> [V -> V]]
    BY <1>3, ZenonT(30)
<1>6. \A n \in 1..N, v \in V : G[n][v] = Round(v, n)
    OBVIOUS
<1> HIDE DEF G
<1>7. PICK f : Loop(f, N, V, <<>>, G)
    BY <1>1, <1>2, <1>5, LoopExists
<1>8. \A n \in 1..N : f[n - 1] \in V
    BY <1>1, <1>7 DEF Loop
<1>9. \A n \in 1..N : f[n] = Round(f[n - 1], n)
    BY <1>6, <1>7, <1>8, ZenonT(30) DEF Loop
<1>10. Collects0(f)
    BY <1>1, <1>7, <1>9 DEF Loop
<1> HIDE DEF Collects0
<1>11. Collects0(Collected)
    BY <1>4, <1>10
<1>12. Collected[0] = <<>> /\ \A n \in 1..N : Collected[n] = Round(Collected[n - 1], n)
    BY <1>1, <1>11 DEF Collects0
<1> QED BY <1>12, ZenonT(30) DEF N, Round

\* collectTasksBlobs: every digest a platform names has a task, and nothing else has.
LEMMA TasksCover == Tasks \in Seq(Digests) /\ Blobs = Digests
<1> DEFINE N == Len(AllNamed)
           Of(n) == {AllNamed[k] : k \in 1..n}
           P == {n \in 0..N : Collected[n] \in Seq(Digests) /\ Range(Collected[n]) = Of(n)}
<1>1. N \in Nat /\ (\A n \in 1..N : AllNamed[n] \in Digests) /\ Range(AllNamed) = Of(N)
    BY AllNamedRange DEF Range
<1>2. 0 \in P
  <2>1. <<>> \in Seq(Digests) /\ Range(<<>>) = {}
      BY  DEF Range
  <2>2. Of(0) = {} /\ 0 \in 0..N
      BY <1>1
  <2> QED BY <2>1, <2>2, CollectedLoop, ZenonT(30)
<1>3. ASSUME NEW n \in 1..N, n - 1 \in P PROVE n \in P
  <2> DEFINE c == Collected[n - 1]
             e == AllNamed[n]
  <2>1. Collected[n] = IF e \in Range(c) THEN c ELSE Append(c, e)
      BY CollectedLoop
  <2>2. c \in Seq(Digests) /\ Range(c) = Of(n - 1) /\ e \in Digests
      BY <1>1, <1>3, ZenonT(30)
  <2>3. 1..n = (1..(n - 1)) \cup {n} /\ n \in 0..N
      BY <1>1
  <2>4. Of(n) = Of(n - 1) \cup {e}
      BY <2>3, ZenonT(30)
  <2> HIDE DEF c, e, Of
  <2>5. Collected[n] \in Seq(Digests) /\ Range(Collected[n]) = Range(c) \cup {e}
    <3>1. Append(c, e) \in Seq(Digests) /\ Range(Append(c, e)) = Range(c) \cup {e}
        BY <2>2, AppendRange
    <3> QED BY <2>1, <2>2, <3>1, ZenonT(30)
  <2> QED BY <2>2, <2>3, <2>4, <2>5, ZenonT(30)
<1> HIDE DEF P
<1>4. 0..N \subseteq P
    BY <1>1, <1>2, <1>3, Induction, ZenonT(30)
<1>5. N \in P
    BY <1>1, <1>4
<1> QED BY <1>1, <1>5, AllNamedRange, ZenonT(30) DEF P, Tasks, Blobs

-----------------------------------------------------------------------------
(* The inductive invariant.                                                *)

\* Where the main goroutine is once all blobs are there, and once the tag has moved.
Publishing == {"manifests", "tag", "verify", "finish", "ok"}
Tagged == {"verify", "finish", "ok"}

WorkerPlaces == {"recv", "head", "single", "chunked", "mark", "left"}
Worker == [pc : WorkerPlaces, blob : Blobs \cup {"none"}, attempt : Nat]

PushTypeOK ==
    /\ main \in {"off", "upload", "error"} \cup Publishing
    /\ step \in Nat /\ fed \in 0..Len(Tasks)
    /\ closed \in BOOLEAN /\ fallback \in BOOLEAN /\ cancelled \in BOOLEAN
    /\ failed \in BOOLEAN /\ dropped \in BOOLEAN
    /\ queue \in Seq(Blobs)
    /\ worker \in [Workers -> Worker]
    /\ done \in SUBSET Blobs /\ (ckpt = NoFile \/ ckpt \in SUBSET Blobs)
    /\ blob \in [Blobs -> {"absent", "good", "short"}]
    /\ held \in SUBSET Staged /\ tag \in {"old", "new"}
    /\ faults \in Nat

\* A worker that has taken a task has a digest.
Busy(w) == worker[w].pc \in {"head", "single", "chunked", "mark"}
BusyInv == \A w \in Workers : Busy(w) => worker[w].blob \in Blobs

\* What is recorded as present, in memory, in the file or by a worker about to record
\* it, is there, unless the registry dropped something.
ConfirmedInv ==
    ~dropped => /\ \A b \in done : blob[b] = "good"
                /\ ckpt # NoFile => \A b \in ckpt : blob[b] = "good"
                /\ \A w \in Workers : worker[w].pc = "mark" => blob[worker[w].blob] = "good"

\* While nothing was cancelled, a task the feeder went through is done, in the channel or
\* in a worker's hands, and the workers leave only when the channel is closed and empty.
Handled(b) == b \in done \/ b \in Range(queue) \/ \E w \in Workers : Busy(w) /\ worker[w].blob = b

FeedInv ==
    main = "upload" /\ ~cancelled =>
        /\ \A i \in 1..fed : Handled(Tasks[i])
        /\ closed => fed = Len(Tasks)
        /\ \A w \in Workers : worker[w].pc = "left" => closed /\ queue = <<>>

DoneInv == main \in Publishing => Blobs \subseteq done

\* The manifests are put in order, the tag after all of them.
ManifestInv ==
    /\ main \in {"upload", "tag"} => step = 0
    /\ main = "manifests" => step < Index /\ 1..step \subseteq held
    /\ main \in Publishing \ {"manifests"} => held = Staged
    /\ main \in Tagged => tag = "new"
    /\ Index \in held \/ tag = "new" => held = Staged

\* What the manifests held name is there, unless the registry dropped something.
NamedInv == ~dropped => \A i \in held \ {Index} : \A b \in Range(Images[i]) : blob[b] = "good"

\* What the read-back has seen is there, and nothing of it can be collected any more.
ReadBackInv ==
    Verify => /\ main = "verify" => \A i \in 1..Len(Tasks) : i <= step => blob[Tasks[i]] = "good"
              /\ main \in {"finish", "ok"} => \A b \in Blobs : blob[b] = "good"

PushInv ==
    /\ PushTypeOK /\ BusyInv /\ ConfirmedInv /\ FeedInv /\ DoneInv
    /\ ManifestInv /\ NamedInv /\ ReadBackInv

-----------------------------------------------------------------------------
(* The steps.                                                              *)

\* The kinds of step of a push.
LEMMA NextCases ==
  ASSUME [Next]_vars
  PROVE  \/ Start \/ Crash \/ CallerCancels \/ Feed \/ FeedStops
         \/ \E w \in Workers : WorkerSteps(w)
         \/ MainSteps
         \/ \E b \in Blobs : Collect(b)
         \/ UNCHANGED vars
BY ZenonT(30)  DEF Next

\* What a worker has after it went to another place.
LEMMA WorkerGoes ==
  ASSUME PushTypeOK, NEW w \in Workers, NEW place \in WorkerPlaces, GoTo(w, place)
  PROVE  /\ worker' \in [Workers -> Worker]
         /\ worker'[w].pc = place /\ worker'[w].blob = worker[w].blob
         /\ \A v \in Workers \ {w} : worker'[v] = worker[v]
<1> DEFINE new == [worker[w] EXCEPT !.pc = place]
<1>1. worker \in [Workers -> Worker] /\ worker[w] \in Worker
    BY ZenonT(30)  DEF PushTypeOK
<1>2. new \in Worker /\ new.pc = place /\ new.blob = worker[w].blob
    BY <1>1, ZenonT(30) DEF Worker
<1>3. worker' = [worker EXCEPT ![w] = new]
    BY ZenonT(30)  DEF GoTo
<1> HIDE DEF new
<1> QED BY <1>1, <1>2, <1>3, ZenonT(30)

\* What the registry holds after an upload arrived.
LEMMA BlobArrives ==
  ASSUME PushTypeOK, NEW w \in Workers, worker[w].blob \in Blobs, Arrives(w)
  PROVE  /\ blob' \in [Blobs -> {"absent", "good", "short"}]
         /\ blob'[worker[w].blob] = "good"
         /\ \A b \in Blobs : blob[b] = "good" => blob'[b] = "good"
BY ZenonT(30)  DEF PushTypeOK, Arrives

\* What a worker that is sending has.
LEMMA SendingHas ==
  ASSUME BusyInv, NEW w \in Workers, Sending(w)
  PROVE  worker[w].blob \in Blobs /\ main = "upload" /\ worker[w].pc \in {"single", "chunked"}
BY ZenonT(30)  DEF BusyInv, Busy, Sending, WorkerAt

\* Nobody but a worker that took a task needs one.
LEMMA BusyKeeps ==
  ASSUME BusyInv, NEW w \in Workers, \A v \in Workers \ {w} : worker'[v] = worker[v],
         worker'[w].pc \in {"recv", "left"} \/ worker'[w].blob \in Blobs
  PROVE  BusyInv'
BY  DEF BusyInv, Busy

\* Indexes of a sequence and what it holds.
LEMMA TasksType ==
  /\ Tasks \in Seq(Blobs) /\ Len(Tasks) \in Nat /\ \A i \in 1..Len(Tasks) : Tasks[i] \in Blobs
  /\ \A b \in Blobs : \E i \in 1..Len(Tasks) : Tasks[i] = b
<1>1. Tasks \in Seq(Blobs)
    BY TasksCover, ZenonT(30)
<1>2. Len(Tasks) \in Nat /\ DOMAIN Tasks = 1..Len(Tasks) /\ \A i \in 1..Len(Tasks) : Tasks[i] \in Blobs
    BY <1>1
<1> QED BY <1>1, <1>2, ZenonT(30) DEF Blobs, Range

\* The manifests are numbered from 1; the index is the last.
LEMMA Manifests == Index \in Nat \ {0} /\ Staged = 1..Index /\ Index = Len(Images) + 1
BY PushAssumption DEF Index, Staged

\* The worker's steps keep the types.
LEMMA WorkerTypes ==
  ASSUME PushTypeOK, BusyInv, NEW w \in Workers, WorkerSteps(w)
  PROVE  PushTypeOK' /\ BusyInv'
<1> USE DEF registry
<1>1. CASE Receive(w)
  <2>1. CASE queue # <<>>
    <3> DEFINE new == IF Head(queue) \in done THEN IdleWorker
                      ELSE [pc |-> "head", blob |-> Head(queue), attempt |-> 0]
    <3>1. Head(queue) \in Blobs /\ Tail(queue) \in Seq(Blobs)
        BY <2>1 DEF PushTypeOK
    <3>2. new \in Worker /\ (new.pc = "recv" \/ new.blob \in Blobs)
      <4>1. IdleWorker \in Worker /\ IdleWorker.pc = "recv"
          BY  DEF IdleWorker, Worker, WorkerPlaces
      <4>2. /\ [pc |-> "head", blob |-> Head(queue), attempt |-> 0] \in Worker
            /\ [pc |-> "head", blob |-> Head(queue), attempt |-> 0].blob \in Blobs
          BY <3>1, ZenonT(30) DEF IdleWorker, Worker, WorkerPlaces
      <4> QED BY <4>1, <4>2, ZenonT(30)
    <3>3. /\ worker' = [worker EXCEPT ![w] = new] /\ queue' = Tail(queue)
          /\ UNCHANGED <<main, step, fed, closed, done, fallback, cancelled, failed, ckpt, registry, faults>>
        BY <1>1, <2>1, ZenonT(30) DEF Receive
    <3> HIDE DEF new
    <3>4. worker' \in [Workers -> Worker] /\ worker'[w] = new /\ \A v \in Workers \ {w} : worker'[v] = worker[v]
        BY <3>2, <3>3, ZenonT(30) DEF PushTypeOK
    <3>5. PushTypeOK'
        BY <3>1, <3>3, <3>4 DEF PushTypeOK
    <3> QED BY <3>2, <3>4, <3>5, BusyKeeps, ZenonT(30)
  <2>2. CASE queue = <<>>
      BY <1>1, <2>2, WorkerGoes, BusyKeeps DEF Receive, PushTypeOK, WorkerPlaces
  <2> QED BY <2>1, <2>2, ZenonT(30)
<1>2. CASE HeadBlob(w)
  <2>1. PICK place \in {"mark", "chunked", "single"} : GoTo(w, place)
      BY <1>2, ZenonT(30) DEF HeadBlob
  <2>2. place \in WorkerPlaces
      BY ZenonT(30)  DEF WorkerPlaces
  <2>3. worker[w].blob \in Blobs
      BY <1>2, ZenonT(30) DEF HeadBlob, WorkerAt, BusyInv, Busy
  <2> QED BY <1>2, <2>1, <2>2, <2>3, WorkerGoes, BusyKeeps DEF HeadBlob, PushTypeOK
<1>3. CASE HeadFails(w)
    BY <1>3, WorkerGoes DEF HeadFails, WorkerFails, Fault, WorkerAt, PushTypeOK, BusyInv, Busy, WorkerPlaces
<1>4. CASE UploadSucceeds(w)
  <2>1. worker[w].blob \in Blobs /\ Arrives(w) /\ GoTo(w, "mark") /\ "mark" \in WorkerPlaces
      BY <1>4, SendingHas, ZenonT(30) DEF UploadSucceeds, WorkerPlaces
  <2> QED BY <1>4, <2>1, WorkerGoes, BlobArrives, BusyKeeps DEF UploadSucceeds, PushTypeOK
<1>5. CASE UploadTooLarge(w)
    BY <1>5, WorkerGoes DEF UploadTooLarge, Fault, WorkerAt, PushTypeOK, BusyInv, Busy, WorkerPlaces
<1>6. ASSUME NEW answer \in Answers, UploadFails(w, answer) PROVE PushTypeOK' /\ BusyInv'
  <2>1. /\ blob' \in [Blobs -> {"absent", "good", "short"}] /\ faults' \in Nat
        /\ worker[w].blob \in Blobs
      BY <1>6, BlobArrives, SendingHas DEF UploadFails, Fault, PushTypeOK
  <2>2. CASE Retried(answer) /\ AttemptsLeft(w)
    <3> DEFINE new == NextAttempt(w)
    <3>0. worker[w] \in Worker
        BY ZenonT(30)  DEF PushTypeOK
    <3>1. new \in Worker /\ new.blob = worker[w].blob
        BY <3>0 DEF Worker, WorkerPlaces, NextAttempt
    <3>2. worker' = [worker EXCEPT ![w] = new] /\ UNCHANGED <<cancelled, failed>>
        BY <1>6, <2>2, ZenonT(30) DEF UploadFails
    <3> HIDE DEF new
    <3>3. worker' \in [Workers -> Worker] /\ worker'[w] = new /\ \A v \in Workers \ {w} : worker'[v] = worker[v]
        BY <3>1, <3>2, ZenonT(30) DEF PushTypeOK
    <3>4. PushTypeOK'
        BY <1>6, <2>1, <3>2, <3>3, ZenonT(30) DEF UploadFails, PushTypeOK
    <3> QED BY <2>1, <3>1, <3>3, <3>4, BusyKeeps, ZenonT(30)
  <2>3. CASE ~(Retried(answer) /\ AttemptsLeft(w))
    <3>1. WorkerFails(w)
        BY <1>6, <2>3, ZenonT(30) DEF UploadFails
    <3> QED BY <1>6, <2>1, <3>1, WorkerGoes, BusyKeeps, ZenonT(30) DEF WorkerFails, UploadFails, PushTypeOK, WorkerPlaces
  <2> QED BY <2>2, <2>3, ZenonT(30)
<1>7. CASE UploadCancelled(w)
    BY <1>7, WorkerGoes, BlobArrives, SendingHas, BusyKeeps DEF UploadCancelled, WorkerFails, PushTypeOK, WorkerPlaces
<1>8. CASE MarkDone(w)
    BY <1>8, ZenonT(30) DEF MarkDone, IdleWorker, WorkerAt, PushTypeOK, BusyInv, Busy, WorkerPlaces, Worker
<1>9. CASE MarkDoneFails(w)
    BY <1>9, WorkerGoes DEF MarkDoneFails, Fault, WorkerFails, WorkerAt, PushTypeOK, BusyInv, Busy, WorkerPlaces
<1> QED BY <1>1, <1>2, <1>3, <1>4, <1>5, <1>6, <1>7, <1>8, <1>9, ZenonT(30) DEF WorkerSteps

\* What the other steps do to the types.
LEMMA TypeStep == ASSUME PushInv, [Next]_vars PROVE PushTypeOK' /\ BusyInv'
<1> USE DEF registry, memory
<1>0. PushTypeOK /\ BusyInv
    BY ZenonT(30)  DEF PushInv
<1>1. CASE Start
  <2>1. IdleWorker \in Worker /\ IdleWorker.pc = "recv"
      BY ZenonT(30)  DEF IdleWorker, Worker, WorkerPlaces
  <2>2. worker' \in [Workers -> Worker] /\ \A w \in Workers : worker'[w].pc = "recv"
      BY <1>1, <2>1, ZenonT(30) DEF Start
  <2>3. BusyInv'
      BY <2>2, ZenonT(30) DEF BusyInv, Busy
  <2>4. <<>> \in Seq(Blobs) /\ 0 \in 0..Len(Tasks) /\ 0 \in Nat
      BY TasksType
  <2>5. done' \in SUBSET Blobs
      BY <1>0, <1>1, ZenonT(30) DEF Start, PushTypeOK
  <2> QED BY <1>0, <1>1, <2>2, <2>3, <2>4, <2>5, ZenonT(30) DEF Start, PushTypeOK
<1>2. CASE Crash
  <2>1. PICK late \in SUBSET Arriving : blob' = [b \in Blobs |-> IF b \in late THEN "good" ELSE blob[b]]
      BY <1>2, ZenonT(30) DEF Crash
  <2>2. blob' \in [Blobs -> {"absent", "good", "short"}]
      BY <1>0, <2>1, ZenonT(30) DEF PushTypeOK
  <2>3. held' \in SUBSET Staged /\ tag' \in {"old", "new"}
    <3>1. main = "manifests" => step + 1 \in Staged
        BY Manifests DEF PushInv, PushTypeOK, ManifestInv, Staged
    <3> QED BY <1>0, <1>2, <3>1, ZenonT(30) DEF Crash, PushTypeOK
  <2>4. PushTypeOK'
      BY <1>0, <1>2, <2>2, <2>3 DEF Crash, Fault, PushTypeOK
  <2> QED BY <1>0, <1>2, <2>4, ZenonT(30) DEF Crash, BusyInv, Busy
<1>3. CASE CallerCancels
    BY <1>0, <1>3 DEF CallerCancels, Fault, PushTypeOK, BusyInv, Busy
<1>4. CASE Feed
  <2>a. /\ fed < Len(Tasks) /\ fed' = fed + 1
        /\ queue' = queue \/ queue' = Append(queue, Tasks[fed + 1])
      BY <1>4, ZenonT(30) DEF Feed
  <2>b. fed \in 0..Len(Tasks) /\ queue \in Seq(Blobs)
      BY <1>0, ZenonT(30) DEF PushTypeOK
  <2>1. fed' \in 0..Len(Tasks) /\ Tasks[fed + 1] \in Blobs
      BY <2>a, <2>b, TasksType
  <2>2. queue' \in Seq(Blobs)
      BY <2>a, <2>b, <2>1
  <2>3. PushTypeOK'
      BY <1>0, <1>4, <2>1, <2>2, ZenonT(30) DEF Feed, PushTypeOK
  <2> QED BY <1>0, <1>4, <2>3, ZenonT(30) DEF Feed, BusyInv, Busy
<1>5. CASE FeedStops
    BY <1>0, <1>5, ZenonT(30) DEF FeedStops, PushTypeOK, BusyInv, Busy
<1>6. ASSUME NEW w \in Workers, WorkerSteps(w) PROVE PushTypeOK' /\ BusyInv'
    BY <1>0, <1>6, WorkerTypes, ZenonT(30)
<1>7. CASE MainSteps
  <2>1. UNCHANGED <<worker, queue, done, blob, fed, closed, fallback, cancelled, failed, dropped>>
      BY <1>7, ZenonT(30) DEF MainSteps, UploadsOver, PutManifest, PutManifestFails, PutTag, PutTagFails,
           VerifyStep, VerifyFails, Finish
  <2>2. main' \in {"off", "upload", "error"} \cup Publishing
      BY <1>0, <1>7, ZenonT(30) DEF MainSteps, UploadsOver, PutManifest, PutManifestFails, PutTag, PutTagFails,
           VerifyStep, VerifyFails, Finish, Publishing, PushTypeOK
  <2>3. step' \in Nat /\ faults' \in Nat
    <3>1. step' \in {step, 0, step + 1} /\ faults' \in {faults, faults + 1}
      BY <1>7, ZenonT(30) DEF MainSteps, UploadsOver, PutManifest, PutManifestFails, PutTag, PutTagFails,
           VerifyStep, VerifyFails, Finish, Fault
    <3>2. step \in Nat /\ faults \in Nat
      BY <1>0, ZenonT(30) DEF PushTypeOK
    <3> QED BY <3>1, <3>2
  <2>4. held' \in SUBSET Staged
    <3>1. main = "manifests" => step + 1 \in Staged
        BY Manifests DEF PushInv, PushTypeOK, ManifestInv, Staged
    <3> QED BY <1>0, <1>7, <3>1, ZenonT(30) DEF MainSteps, UploadsOver, PutManifest, PutManifestFails, PutTag,
                 PutTagFails, VerifyStep, VerifyFails, Finish, PushTypeOK
  <2>5. tag' \in {"old", "new"} /\ ckpt' \in {ckpt, NoFile}
      BY <1>0, <1>7, ZenonT(30) DEF MainSteps, UploadsOver, PutManifest, PutManifestFails, PutTag,
                 PutTagFails, VerifyStep, VerifyFails, Finish, PushTypeOK
  <2>6. PushTypeOK'
      BY <1>0, <2>1, <2>2, <2>3, <2>4, <2>5, ZenonT(30) DEF PushTypeOK
  <2> QED BY <1>0, <2>1, <2>6, ZenonT(30) DEF BusyInv, Busy
<1>8. ASSUME NEW b \in Blobs, Collect(b) PROVE PushTypeOK' /\ BusyInv'
    BY <1>0, <1>8 DEF Collect, Fault, PushTypeOK, BusyInv, Busy
<1>9. CASE UNCHANGED vars
    BY <1>0, <1>9 DEF vars, PushTypeOK, BusyInv, Busy
<1> QED BY <1>1, <1>2, <1>3, <1>4, <1>5, <1>6, <1>7, <1>8, <1>9, NextCases, ZenonT(30)

\* A step of a worker while nothing is cancelled: it takes a task, goes on with it, is
\* done with it, or leaves.
Takes(w) ==
    /\ ~Busy(w) /\ queue # <<>> /\ queue' = Tail(queue) /\ worker'[w].pc # "left"
    /\ Head(queue) \in done \/ (Busy(w)' /\ worker'[w].blob = Head(queue))
GoesOn(w) == Busy(w) /\ Busy(w)' /\ worker'[w].blob = worker[w].blob /\ queue' = queue
IsDone(w) == Busy(w) /\ worker[w].blob \in done' /\ worker'[w].pc = "recv" /\ queue' = queue
Leaves(w) == ~Busy(w) /\ closed /\ queue = <<>> /\ queue' = queue

\* What a step of a worker does for the others: it never takes a stored blob away, it
\* records only what is there, and while nothing is cancelled the task it drops is done.
LEMMA WorkerEffect ==
  ASSUME SizeReported, PushTypeOK, BusyInv, NEW w \in Workers, WorkerSteps(w)
  PROVE  /\ main = "upload"
         /\ UNCHANGED <<main, step, held, tag, dropped, fed, closed>>
         /\ \A b \in Blobs : blob[b] = "good" => blob'[b] = "good"
         /\ \A v \in Workers \ {w} : worker'[v] = worker[v]
         /\ worker'[w].pc = "mark" => blob'[worker'[w].blob] = "good"
         /\ done' = done \/ (worker[w].pc = "mark" /\ done' = done \cup {worker[w].blob})
         /\ ckpt' \in {ckpt, done'}
         /\ ~cancelled' => /\ ~cancelled
                           /\ (Takes(w) \/ GoesOn(w) \/ IsDone(w) \/ Leaves(w))
<1> USE DEF registry
<1> DEFINE Goal == /\ main = "upload"
                   /\ UNCHANGED <<main, step, held, tag, dropped, fed, closed>>
                   /\ \A b \in Blobs : blob[b] = "good" => blob'[b] = "good"
                   /\ \A v \in Workers \ {w} : worker'[v] = worker[v]
                   /\ worker'[w].pc = "mark" => blob'[worker'[w].blob] = "good"
                   /\ done' = done \/ (worker[w].pc = "mark" /\ done' = done \cup {worker[w].blob})
                   /\ ckpt' \in {ckpt, done'}
                   /\ ~cancelled' => /\ ~cancelled
                                     /\ Takes(w) \/ GoesOn(w) \/ IsDone(w) \/ Leaves(w)
<1>0. worker \in [Workers -> Worker] /\ worker[w] \in Worker /\ "left" \in WorkerPlaces
    BY ZenonT(30)  DEF PushTypeOK, WorkerPlaces
<1>1. CASE Receive(w)
  <2>0. ~Busy(w) /\ main = "upload"
      BY <1>1, ZenonT(30) DEF Receive, WorkerAt, Busy
  <2>1. CASE queue # <<>>
    <3> DEFINE next == [pc |-> "head", blob |-> Head(queue), attempt |-> 0]
               new == IF Head(queue) \in done THEN IdleWorker ELSE next
    <3>1. worker' = [worker EXCEPT ![w] = new] /\ queue' = Tail(queue)
        BY <1>1, <2>1, ZenonT(30) DEF Receive
    <3>2. next.pc = "head" /\ next.blob = Head(queue) /\ IdleWorker.pc = "recv"
        BY ZenonT(30)  DEF IdleWorker
    <3> HIDE DEF next
    <3>3. worker'[w] = new /\ \A v \in Workers \ {w} : worker'[v] = worker[v]
        BY <1>0, <3>1
    <3>4. worker'[w].pc \in {"recv", "head"} /\ worker'[w].pc # "left" /\ worker'[w].pc # "mark"
        BY <3>2, <3>3
    <3>5. Head(queue) \in done \/ (Busy(w)' /\ worker'[w].blob = Head(queue))
        BY <3>2, <3>3 DEF Busy
    <3> QED BY <1>1, <2>0, <2>1, <3>1, <3>3, <3>4, <3>5, ZenonT(30) DEF Receive, Takes
  <2>2. CASE queue = <<>>
    <3>1. closed /\ GoTo(w, "left") /\ queue' = queue
        BY <1>1, <2>2 DEF Receive
    <3>2. worker'[w].pc = "left" /\ \A v \in Workers \ {w} : worker'[v] = worker[v]
        BY <1>0, <3>1, WorkerGoes, ZenonT(30)
    <3> QED BY <1>1, <2>0, <2>2, <3>1, <3>2, ZenonT(30) DEF Receive, Leaves
  <2> QED BY <2>1, <2>2, ZenonT(30)
<1>2. CASE HeadBlob(w)
  <2>1. PICK place \in {"mark", "chunked", "single"} :
          GoTo(w, place) /\ (place = "mark" => HeadTrusts(worker[w].blob))
      BY <1>2 DEF HeadBlob
  <2>2. place \in WorkerPlaces
      BY  DEF WorkerPlaces
  <2>3. place = "mark" => blob[worker[w].blob] = "good"
      BY <2>1 DEF HeadTrusts
  <2>4. Busy(w) /\ main = "upload"
      BY <1>2 DEF HeadBlob, WorkerAt, Busy
  <2>5. /\ worker'[w].pc = place /\ worker'[w].blob = worker[w].blob
        /\ \A v \in Workers \ {w} : worker'[v] = worker[v]
      BY <2>1, <2>2, WorkerGoes
  <2>6. Busy(w)'
      BY <2>5 DEF Busy
  <2> QED BY <1>2, <2>3, <2>4, <2>5, <2>6, ZenonT(30) DEF HeadBlob, GoesOn
<1>3. ASSUME WorkerFails(w), main = "upload", UNCHANGED <<main, step, held, tag, dropped, fed, closed, ckpt>>,
             \A b \in Blobs : blob[b] = "good" => blob'[b] = "good",
             done' = done \/ (worker[w].pc = "mark" /\ done' = done \cup {worker[w].blob})
      PROVE  Goal
  <2>1. worker'[w].pc = "left" /\ \A v \in Workers \ {w} : worker'[v] = worker[v]
      BY <1>0, <1>3, WorkerGoes DEF WorkerFails
  <2> QED BY <1>3, <2>1 DEF WorkerFails
<1>4. CASE HeadFails(w)
    BY <1>3, <1>4, ZenonT(30) DEF HeadFails, WorkerAt
<1>5. CASE UploadSucceeds(w)
  <2>1. worker[w].blob \in Blobs /\ Arrives(w) /\ GoTo(w, "mark") /\ "mark" \in WorkerPlaces /\ Busy(w)
        /\ main = "upload"
      BY <1>5, SendingHas, ZenonT(30) DEF UploadSucceeds, WorkerPlaces, Busy
  <2>2. /\ worker'[w].pc = "mark" /\ worker'[w].blob = worker[w].blob
        /\ \A v \in Workers \ {w} : worker'[v] = worker[v]
      BY <2>1, WorkerGoes, ZenonT(30)
  <2>3. Busy(w)'
      BY <2>2 DEF Busy
  <2> QED BY <1>5, <2>1, <2>2, <2>3, BlobArrives, ZenonT(30) DEF UploadSucceeds, GoesOn
<1>6. CASE UploadTooLarge(w)
  <2>1. "chunked" \in WorkerPlaces /\ GoTo(w, "chunked") /\ Busy(w) /\ main = "upload"
      BY <1>6, ZenonT(30) DEF UploadTooLarge, WorkerPlaces, WorkerAt, Busy
  <2>2. /\ worker'[w].pc = "chunked" /\ worker'[w].blob = worker[w].blob
        /\ \A v \in Workers \ {w} : worker'[v] = worker[v]
      BY <2>1, WorkerGoes
  <2>3. Busy(w)'
      BY <2>2 DEF Busy
  <2> QED BY <1>6, <2>1, <2>2, <2>3, ZenonT(30) DEF UploadTooLarge, GoesOn
<1>7. ASSUME NEW answer \in Answers, UploadFails(w, answer) PROVE Goal
  <2>1. Busy(w) /\ main = "upload" /\ \A b \in Blobs : blob[b] = "good" => blob'[b] = "good"
      BY <1>7, BlobArrives, SendingHas, ZenonT(30) DEF UploadFails, Busy
  <2>2. CASE Retried(answer) /\ AttemptsLeft(w)
    <3>1. worker' = [worker EXCEPT ![w] = NextAttempt(w)] /\ UNCHANGED <<cancelled, failed>>
        BY <1>7, <2>2 DEF UploadFails
    <3>2. NextAttempt(w).pc \in {"single", "chunked"} /\ NextAttempt(w).blob = worker[w].blob
        BY ZenonT(30)  DEF NextAttempt
    <3>3. worker'[w] = NextAttempt(w) /\ \A v \in Workers \ {w} : worker'[v] = worker[v]
        BY <1>0, <3>1, ZenonT(30)
    <3>4. Busy(w)' /\ worker'[w].pc # "mark" /\ worker'[w].blob = worker[w].blob
        BY <3>2, <3>3, ZenonT(30) DEF Busy
    <3> QED BY <1>7, <2>1, <3>1, <3>3, <3>4, ZenonT(30) DEF UploadFails, GoesOn
  <2>3. CASE ~(Retried(answer) /\ AttemptsLeft(w))
      BY <1>3, <1>7, <2>1, <2>3, ZenonT(30) DEF UploadFails
  <2> QED BY <2>2, <2>3, ZenonT(30)
<1>8. CASE UploadCancelled(w)
  <2>1. main = "upload" /\ \A b \in Blobs : blob[b] = "good" => blob'[b] = "good"
      BY <1>8, BlobArrives, SendingHas DEF UploadCancelled
  <2> QED BY <1>3, <1>8, <2>1, ZenonT(30) DEF UploadCancelled
<1>9. CASE MarkDone(w)
  <2>1. IdleWorker.pc = "recv"
      BY  DEF IdleWorker
  <2>2. worker'[w].pc = "recv" /\ \A v \in Workers \ {w} : worker'[v] = worker[v]
      BY <1>0, <1>9, <2>1, ZenonT(30) DEF MarkDone
  <2>3. worker[w].pc = "mark" /\ Busy(w) /\ main = "upload" /\ worker[w].blob \in done'
      BY <1>9 DEF MarkDone, WorkerAt, Busy
  <2> QED BY <1>9, <2>2, <2>3, ZenonT(30) DEF MarkDone, IsDone
<1>10. CASE MarkDoneFails(w)
    BY <1>3, <1>10, ZenonT(30) DEF MarkDoneFails, WorkerAt
<1> QED BY <1>1, <1>2, <1>4, <1>5, <1>6, <1>7, <1>8, <1>9, <1>10, ZenonT(30) DEF WorkerSteps

\* What the main goroutine leaves alone.
LEMMA MainFrame ==
  ASSUME MainSteps
  PROVE  /\ UNCHANGED <<worker, queue, done, blob, fed, closed, cancelled, failed, dropped>>
         /\ ckpt' \in {ckpt, NoFile}
         /\ main \notin {"off", "error", "ok"} /\ main' # "upload"
BY ZenonT(30)  DEF MainSteps, UploadsOver, PutManifest, PutManifestFails, PutTag, PutTagFails,
     VerifyStep, VerifyFails, Finish, registry

\* A crash takes no stored blob away and adds at most the manifest or the tag that was
\* under way.
LEMMA CrashFrame ==
  ASSUME PushTypeOK, Crash
  PROVE  /\ main' = "off"
         /\ UNCHANGED <<worker, done, ckpt, dropped>>
         /\ \A b \in Blobs : blob[b] = "good" => blob'[b] = "good"
         /\ \/ UNCHANGED <<held, tag>>
            \/ main = "manifests" /\ held' = held \cup {step + 1} /\ tag' = tag
            \/ main = "tag" /\ tag' = "new" /\ held' = held
<1>1. PICK late \in SUBSET Arriving : blob' = [b \in Blobs |-> IF b \in late THEN "good" ELSE blob[b]]
    BY  DEF Crash
<1>2. \A b \in Blobs : blob[b] = "good" => blob'[b] = "good"
    BY <1>1
<1> QED BY <1>2 DEF Crash

\* What is recorded as present is there.
LEMMA ConfirmedStep == ASSUME SizeReported, PushInv, [Next]_vars PROVE ConfirmedInv'
<1> USE DEF registry, memory
<1>0. PushTypeOK /\ BusyInv /\ ConfirmedInv
    BY  DEF PushInv
<1>1. CASE Start
  <2>1. \A w \in Workers : worker'[w] = IdleWorker
      BY <1>1 DEF Start
  <2>2. IdleWorker.pc # "mark"
      BY  DEF IdleWorker
  <2> QED BY <1>0, <1>1, <2>1, <2>2, ZenonT(30) DEF Start, ConfirmedInv
<1>2. CASE Crash
  <2>1. \A b \in done : b \in Blobs
      BY <1>0 DEF PushTypeOK
  <2>2. ckpt # NoFile => \A b \in ckpt : b \in Blobs
      BY <1>0 DEF PushTypeOK
  <2>3. \A w \in Workers : worker[w].pc = "mark" => worker[w].blob \in Blobs
      BY <1>0 DEF BusyInv, Busy
  <2> QED BY <1>0, <1>2, <2>1, <2>2, <2>3, CrashFrame, ZenonT(30) DEF ConfirmedInv
<1>3. CASE CallerCancels
    BY <1>0, <1>3 DEF CallerCancels, ConfirmedInv
<1>4. CASE Feed
    BY <1>0, <1>4, ZenonT(30) DEF Feed, ConfirmedInv
<1>5. CASE FeedStops
    BY <1>0, <1>5, ZenonT(30) DEF FeedStops, ConfirmedInv
<1>6. ASSUME NEW w \in Workers, WorkerSteps(w) PROVE ConfirmedInv'
  <2> SUFFICES ASSUME ~dropped'
               PROVE  /\ \A b \in done' : blob'[b] = "good"
                      /\ ckpt' # NoFile => \A b \in ckpt' : blob'[b] = "good"
                      /\ \A v \in Workers : worker'[v].pc = "mark" => blob'[worker'[v].blob] = "good"
      BY  DEF ConfirmedInv
  <2>1. /\ ~dropped
        /\ \A b \in Blobs : blob[b] = "good" => blob'[b] = "good"
        /\ \A v \in Workers \ {w} : worker'[v] = worker[v]
        /\ worker'[w].pc = "mark" => blob'[worker'[w].blob] = "good"
        /\ done' = done \/ (worker[w].pc = "mark" /\ done' = done \cup {worker[w].blob})
        /\ ckpt' \in {ckpt, done'}
      BY <1>0, <1>6, WorkerEffect
  <2>2. \A v \in Workers : worker[v].pc = "mark" => worker[v].blob \in Blobs /\ blob[worker[v].blob] = "good"
      BY <1>0, <2>1 DEF BusyInv, Busy, ConfirmedInv
  <2>3. \A b \in done' : blob'[b] = "good"
    <3>1. \A b \in done : b \in Blobs /\ blob[b] = "good"
        BY <1>0, <2>1 DEF PushTypeOK, ConfirmedInv
    <3> QED BY <2>1, <2>2, <3>1
  <2>4. ckpt' # NoFile => \A b \in ckpt' : blob'[b] = "good"
    <3>1. ckpt # NoFile => \A b \in ckpt : b \in Blobs /\ blob[b] = "good"
        BY <1>0, <2>1, ZenonT(30) DEF PushTypeOK, ConfirmedInv
    <3> QED BY <2>1, <2>3, <3>1
  <2> QED BY <2>1, <2>2, <2>3, <2>4
<1>7. CASE MainSteps
    BY <1>0, <1>7, MainFrame, ZenonT(30) DEF ConfirmedInv
<1>8. ASSUME NEW b \in Blobs, Collect(b) PROVE ConfirmedInv'
    BY <1>8 DEF Collect, ConfirmedInv
<1>9. CASE UNCHANGED vars
    BY <1>0, <1>9 DEF vars, ConfirmedInv
<1> QED BY <1>1, <1>2, <1>3, <1>4, <1>5, <1>6, <1>7, <1>8, <1>9, NextCases, ZenonT(30)

\* A task the feeder went through is not lost.
LEMMA FeedStep == ASSUME SizeReported, PushInv, [Next]_vars PROVE FeedInv'
<1> USE DEF registry, memory
<1>0. PushTypeOK /\ BusyInv /\ FeedInv
    BY  DEF PushInv
<1>1. CASE Start
  <2>1. \A w \in Workers : worker'[w] = IdleWorker
      BY <1>1 DEF Start
  <2>2. IdleWorker.pc # "left"
      BY  DEF IdleWorker
  <2>3. 1..0 = {}
      OBVIOUS
  <2> QED BY <1>1, <2>1, <2>2, <2>3, ZenonT(30) DEF Start, FeedInv
<1>2. CASE Crash
    BY <1>2, <1>0, CrashFrame, ZenonT(30) DEF FeedInv
<1>3. CASE CallerCancels
    BY <1>3 DEF CallerCancels, FeedInv
<1>4. CASE Feed
  <2> SUFFICES ASSUME ~cancelled'
               PROVE  /\ \A i \in 1..fed' : Handled(Tasks[i])'
                      /\ closed' => fed' = Len(Tasks)
                      /\ \A w \in Workers : worker'[w].pc = "left" => closed' /\ queue' = <<>>
      BY  DEF FeedInv
  <2>1. /\ main = "upload" /\ ~cancelled /\ ~closed /\ ~closed' /\ fed' = fed + 1
        /\ worker' = worker /\ done' = done
      BY <1>4 DEF Feed
  <2>2. \A w \in Workers : worker[w].pc # "left"
      BY <1>0, <2>1, ZenonT(30) DEF FeedInv
  <2>a. fed < Len(Tasks)
      BY <1>4 DEF Feed
  <2>b. fed \in 0..Len(Tasks) /\ queue \in Seq(Blobs)
      BY <1>0 DEF PushTypeOK
  <2>3. fed \in Nat /\ fed + 1 \in 1..Len(Tasks) /\ Tasks[fed + 1] \in Blobs /\ queue \in Seq(Blobs)
      BY <2>a, <2>b, TasksType
  <2>4. \/ queue' = queue /\ Tasks[fed + 1] \in done
        \/ queue' = Append(queue, Tasks[fed + 1])
      BY <1>4 DEF Feed
  <2>5. Range(queue) \subseteq Range(queue') /\ (Tasks[fed + 1] \in done \/ Tasks[fed + 1] \in Range(queue'))
    <3> DEFINE t == Tasks[fed + 1]
    <3>1. Range(Append(queue, t)) = Range(queue) \cup {t}
        BY <2>3, AppendRange
    <3> HIDE DEF t
    <3> QED BY <2>4, <3>1, ZenonT(30) DEF t
  <2>6. ASSUME NEW i \in 1..fed' PROVE Handled(Tasks[i])'
    <3>1. i \in 1..fed \/ i = fed + 1
        BY <2>1, <2>3
    <3>2. CASE i \in 1..fed
      <4>1. Handled(Tasks[i])
          BY <1>0, <2>1, <3>2, ZenonT(30) DEF FeedInv
      <4> QED BY <2>1, <2>5, <4>1, ZenonT(30) DEF Handled, Busy
    <3>3. CASE i = fed + 1
        BY <2>1, <2>5, <3>3, ZenonT(30) DEF Handled
    <3> QED BY <3>1, <3>2, <3>3, ZenonT(30)
  <2> QED BY <2>1, <2>2, <2>6, ZenonT(30)
<1>5. CASE FeedStops
  <2> SUFFICES ASSUME ~cancelled
               PROVE  /\ \A i \in 1..fed' : Handled(Tasks[i])'
                      /\ fed' = Len(Tasks)
                      /\ \A w \in Workers : worker'[w].pc = "left" => closed' /\ queue' = <<>>
      BY <1>5, ZenonT(30) DEF FeedStops, FeedInv
  <2>1. fed' = fed /\ queue' = queue /\ worker' = worker /\ done' = done /\ closed' /\ main = "upload"
      BY <1>5, ZenonT(30) DEF FeedStops
  <2>2. fed = Len(Tasks)
      BY <1>0, <1>5, TasksType DEF FeedStops, PushTypeOK
  <2> QED BY <1>0, <2>1, <2>2 DEF FeedInv, Handled, Busy
<1>6. ASSUME NEW w \in Workers, WorkerSteps(w) PROVE FeedInv'
  <2> SUFFICES ASSUME ~cancelled'
               PROVE  /\ \A i \in 1..fed' : Handled(Tasks[i])'
                      /\ closed' => fed' = Len(Tasks)
                      /\ \A v \in Workers : worker'[v].pc = "left" => closed' /\ queue' = <<>>
      BY ZenonT(30)  DEF FeedInv
  <2>1. /\ main = "upload" /\ fed' = fed /\ closed' = closed /\ done \subseteq done'
        /\ \A v \in Workers \ {w} : worker'[v] = worker[v]
        /\ ~cancelled /\ (Takes(w) \/ GoesOn(w) \/ IsDone(w) \/ Leaves(w))
      BY <1>0, <1>6, WorkerEffect, ZenonT(30)
  <2>2. /\ \A i \in 1..fed : Handled(Tasks[i])
        /\ closed => fed = Len(Tasks)
        /\ \A v \in Workers : worker[v].pc = "left" => closed /\ queue = <<>>
      BY <1>0, <2>1 DEF FeedInv
  <2>3. queue # <<>> => Range(queue) \subseteq {Head(queue)} \cup Range(Tail(queue))
      BY <1>0, HeadTail DEF PushTypeOK
  <2>4. ASSUME NEW i \in 1..fed PROVE Handled(Tasks[i])'
    <3>1. Handled(Tasks[i])
        BY <2>2, ZenonT(30)
    <3>2. CASE Tasks[i] \in done
        BY <2>1, <3>2, ZenonT(30) DEF Handled
    <3>3. CASE Tasks[i] \in Range(queue)
      <4>1. queue' = queue \/ Takes(w)
          BY <2>1, ZenonT(30) DEF GoesOn, IsDone, Leaves
      <4>2. CASE queue' = queue
          BY <3>3, <4>2 DEF Handled
      <4>3. CASE Takes(w)
          BY <2>1, <2>3, <3>3, <4>3 DEF Handled, Takes
      <4> QED BY <4>1, <4>2, <4>3, ZenonT(30)
    <3>4. ASSUME NEW v \in Workers, Busy(v), worker[v].blob = Tasks[i] PROVE Handled(Tasks[i])'
      <4>1. CASE v # w
          BY <2>1, <3>4, <4>1, ZenonT(30) DEF Handled, Busy
      <4>2. CASE v = w
          BY <2>1, <3>4, <4>2, ZenonT(30) DEF Handled, Takes, GoesOn, IsDone, Leaves
      <4> QED BY <4>1, <4>2
    <3> QED BY <3>1, <3>2, <3>3, <3>4, ZenonT(30) DEF Handled
  <2>5. ASSUME NEW v \in Workers, worker'[v].pc = "left" PROVE closed' /\ queue' = <<>>
    <3>1. CASE v = w
      <4>1. ~Takes(w) /\ ~GoesOn(w) /\ ~IsDone(w)
          BY <2>5, <3>1 DEF Takes, GoesOn, IsDone, Busy
      <4> QED BY <2>1, <4>1, ZenonT(30) DEF Leaves
    <3>2. CASE v # w
        BY <2>1, <2>2, <2>5, <3>2 DEF Takes, GoesOn, IsDone, Leaves
    <3> QED BY <3>1, <3>2
  <2> QED BY <2>1, <2>2, <2>4, <2>5, ZenonT(30)
<1>7. CASE MainSteps
    BY <1>7, MainFrame, ZenonT(30) DEF FeedInv
<1>8. ASSUME NEW b \in Blobs, Collect(b) PROVE FeedInv'
    BY <1>0, <1>8 DEF Collect, FeedInv, Handled, Busy
<1>9. CASE UNCHANGED vars
    BY <1>0, <1>9, ZenonT(30) DEF vars, FeedInv, Handled, Busy
<1> QED BY <1>1, <1>2, <1>3, <1>4, <1>5, <1>6, <1>7, <1>8, <1>9, NextCases, ZenonT(30)

\* When publishing begins, every task is done.
LEMMA DoneStep == ASSUME SizeReported, PushInv, [Next]_vars PROVE DoneInv'
<1> USE DEF registry, memory
<1>0. PushTypeOK /\ DoneInv /\ FeedInv
    BY  DEF PushInv
<1>1. CASE Start
    BY <1>1, ZenonT(30) DEF Start, DoneInv, Publishing
<1>2. CASE Crash
    BY <1>0, <1>2, CrashFrame, ZenonT(30) DEF DoneInv, Publishing
<1>3. CASE CallerCancels \/ Feed \/ FeedStops \/ UNCHANGED vars \/ \E b \in Blobs : Collect(b)
  <2>1. main' = main /\ done' = done
      BY <1>3, ZenonT(30) DEF CallerCancels, Feed, FeedStops, Collect, vars
  <2> QED BY <1>0, <2>1, ZenonT(30) DEF DoneInv
<1>4. ASSUME NEW w \in Workers, WorkerSteps(w) PROVE DoneInv'
  <2>1. main' = "upload"
      BY <1>4, WorkerEffect, ZenonT(30) DEF PushInv
  <2> QED BY <2>1 DEF DoneInv, Publishing
<1>5. CASE MainSteps
  <2>1. done' = done
      BY <1>5, MainFrame, ZenonT(30)
  <2>2. CASE main \in Publishing
      BY <1>0, <2>1, <2>2 DEF DoneInv
  <2>3. CASE main \notin Publishing /\ main' \in Publishing
    <3>1. UploadsOver /\ BlobsPresent
        BY <1>5, <2>3, ZenonT(30) DEF MainSteps, UploadsOver, PutManifest, PutManifestFails, PutTag,
             PutTagFails, VerifyStep, VerifyFails, Finish, Publishing
    <3>2. main = "upload" /\ ~cancelled /\ \A w \in Workers : worker[w].pc = "left"
        BY <3>1 DEF UploadsOver, BlobsPresent
    <3>3. 1 \in Workers
        BY PushAssumption DEF Workers
    <3>4. fed = Len(Tasks) /\ queue = <<>> /\ \A i \in 1..fed : Handled(Tasks[i])
        BY <1>0, <3>2, <3>3, ZenonT(30) DEF FeedInv
    <3>5. Range(queue) = {} /\ \A w \in Workers : ~Busy(w)
      <4>1. Range(<<>>) = {}
          BY  DEF Range
      <4> QED BY <3>2, <3>4, <4>1 DEF Busy
    <3>6. \A i \in 1..Len(Tasks) : Tasks[i] \in done
        BY <3>4, <3>5 DEF Handled
    <3> QED BY <2>1, <3>6, TasksType, ZenonT(30) DEF DoneInv
  <2> QED BY <2>2, <2>3, ZenonT(30) DEF DoneInv
<1> QED BY <1>1, <1>2, <1>3, <1>4, <1>5, NextCases, ZenonT(30)

\* Manifests in order, then the tag.
LEMMA ManifestStep == ASSUME SizeReported, PushInv, [Next]_vars PROVE ManifestInv'
<1> USE DEF registry, memory
<1>0. PushTypeOK /\ ManifestInv /\ step \in Nat /\ held \in SUBSET Staged
    BY ZenonT(30)  DEF PushInv, PushTypeOK
<1>p. main = "manifests" => /\ step + 1 \in Staged /\ held \cup {step + 1} \in SUBSET Staged
                            /\ step + 1 = Index => held \cup {step + 1} = Staged
                            /\ Index \in held \cup {step + 1} => held \cup {step + 1} = Staged
  <2> SUFFICES ASSUME main = "manifests"
               PROVE  /\ step + 1 \in Staged /\ held \cup {step + 1} \in SUBSET Staged
                      /\ step + 1 = Index => held \cup {step + 1} = Staged
                      /\ Index \in held \cup {step + 1} => held \cup {step + 1} = Staged
      BY ZenonT(30)
  <2>1. step < Index /\ 1..step \subseteq held /\ (Index \in held => held = Staged)
      BY <1>0, ZenonT(30) DEF ManifestInv
  <2>2. step + 1 \in Staged
      BY <1>0, <2>1, Manifests
  <2>3. ASSUME step + 1 = Index PROVE Staged \subseteq held \cup {step + 1}
      BY <1>0, <2>1, <2>3, Manifests
  <2> QED BY <1>0, <2>1, <2>2, <2>3, ZenonT(30)
<1>1. CASE Start
    BY <1>0, <1>1, ZenonT(30) DEF Start, ManifestInv, Publishing, Tagged
<1>2. CASE Crash
    BY <1>0, <1>2, <1>p, CrashFrame, ZenonT(30) DEF ManifestInv, Publishing, Tagged
<1>3. CASE CallerCancels \/ Feed \/ FeedStops \/ UNCHANGED vars \/ \E b \in Blobs : Collect(b)
  <2>1. UNCHANGED <<main, step, held, tag>>
      BY <1>3, ZenonT(30) DEF CallerCancels, Feed, FeedStops, Collect, vars
  <2> QED BY <1>0, <2>1, ZenonT(30) DEF ManifestInv
<1>4. ASSUME NEW w \in Workers, WorkerSteps(w) PROVE ManifestInv'
  <2>1. UNCHANGED <<main, step, held, tag>>
      BY <1>4, WorkerEffect, ZenonT(30) DEF PushInv
  <2> QED BY <1>0, <2>1, ZenonT(30) DEF ManifestInv
<1>5. CASE UploadsOver
  <2>1. main = "upload" /\ main' \in {"manifests", "error"} /\ UNCHANGED <<step, held, tag>>
      BY <1>5, ZenonT(30) DEF UploadsOver
  <2> QED BY <1>0, <2>1, Manifests DEF ManifestInv, Publishing, Tagged
<1>6. CASE PutManifest
  <2>2. CASE step + 1 = Index
      BY <1>0, <1>6, <1>p, <2>2, ZenonT(30) DEF PutManifest, ManifestInv, Publishing, Tagged
  <2>3. CASE step + 1 # Index
    <3>1. main' = "manifests" /\ step' = step + 1 /\ held' = held \cup {step + 1} /\ tag' = tag /\ main = "manifests"
        BY <1>6, <2>3, ZenonT(30) DEF PutManifest
    <3>2. step' < Index /\ 1..step' \subseteq held'
        BY <1>0, <2>3, <3>1, Manifests DEF ManifestInv
    <3>3. Index \in held' \/ tag' = "new" => held' = Staged
        BY <1>0, <1>p, <3>1, ZenonT(30) DEF ManifestInv
    <3> QED BY <3>1, <3>2, <3>3, ZenonT(30) DEF ManifestInv, Publishing, Tagged
  <2> QED BY <2>2, <2>3, ZenonT(30)
<1>7. CASE PutManifestFails
    BY <1>0, <1>7, <1>p, ZenonT(30) DEF PutManifestFails, ManifestInv, Publishing, Tagged
<1>8. CASE PutTag
    BY <1>0, <1>8, ZenonT(30) DEF PutTag, ManifestInv, Publishing, Tagged
<1>9. CASE PutTagFails
    BY <1>0, <1>9, ZenonT(30) DEF PutTagFails, ManifestInv, Publishing, Tagged
<1>10. CASE VerifyStep
    BY <1>0, <1>10, ZenonT(30) DEF VerifyStep, ManifestInv, Publishing, Tagged
<1>11. CASE VerifyFails \/ Finish
    BY <1>0, <1>11, ZenonT(30) DEF VerifyFails, Finish, ManifestInv, Publishing, Tagged
<1> QED BY <1>1, <1>2, <1>3, <1>4, <1>5, <1>6, <1>7, <1>8, <1>9, <1>10, <1>11, NextCases, ZenonT(30)
         DEF MainSteps

\* The digests a platform names, and the platforms that name a digest.
LEMMA Naming ==
  /\ \A i \in Staged \ {Index} : i \in DOMAIN Images /\ Range(Images[i]) \subseteq Blobs
  /\ DOMAIN Images = Staged \ {Index}
  /\ \A b \in Blobs : \E i \in Staged \ {Index} : b \in Range(Images[i])
<1>1. DOMAIN Images = 1..Len(Images) /\ Len(Images) \in Nat
    BY PushAssumption
<1>2. Staged \ {Index} = 1..Len(Images)
    BY <1>1, Manifests
<1> QED BY <1>1, <1>2, TasksCover, ZenonT(30) DEF Digests

\* What every manifest names is there when it is put, and nothing takes it away but a
\* registry that dropped something.
LEMMA NamedStep == ASSUME SizeReported, PushInv, [Next]_vars PROVE NamedInv'
<1> USE DEF registry, memory
<1>0. PushTypeOK /\ BusyInv /\ NamedInv /\ ConfirmedInv /\ DoneInv /\ ManifestInv /\ held \in SUBSET Staged
    BY ZenonT(30)  DEF PushInv, PushTypeOK
<1>k. ASSUME ~dropped, held' = held, \A b \in Blobs : blob[b] = "good" => blob'[b] = "good"
      PROVE  NamedInv'
    BY <1>0, <1>k, Naming, ZenonT(30) DEF NamedInv
<1>p. ASSUME main = "manifests", held' = held \cup {step + 1}, ~dropped,
             \A b \in Blobs : blob[b] = "good" => blob'[b] = "good"
      PROVE  NamedInv'
  <2>1. \A b \in Blobs : blob[b] = "good"
      BY <1>0, <1>p, ZenonT(30) DEF DoneInv, ConfirmedInv, Publishing
  <2>2. step + 1 \in Staged
      BY <1>0, <1>p, Manifests DEF ManifestInv, PushTypeOK
  <2> QED BY <1>0, <1>p, <2>1, <2>2, Naming, ZenonT(30) DEF NamedInv
<1>1. CASE Start \/ CallerCancels \/ Feed \/ FeedStops \/ UNCHANGED vars
  <2>1. UNCHANGED <<blob, held, dropped>>
      BY <1>1, ZenonT(30) DEF Start, CallerCancels, Feed, FeedStops, vars
  <2> QED BY <1>0, <2>1, ZenonT(30) DEF NamedInv
<1>2. ASSUME NEW b \in Blobs, Collect(b) PROVE NamedInv'
    BY <1>2, ZenonT(30) DEF Collect, NamedInv
<1>3. CASE dropped /\ dropped'
    BY <1>3, ZenonT(30) DEF NamedInv
<1>4. CASE Crash
  <2>1. dropped' = dropped
      BY <1>0, <1>4, CrashFrame, ZenonT(30)
  <2>2. CASE ~dropped
      BY <1>0, <1>4, <1>k, <1>p, <2>2, CrashFrame, ZenonT(30)
  <2> QED BY <2>1, <2>2, ZenonT(30) DEF NamedInv
<1>5. ASSUME NEW w \in Workers, WorkerSteps(w) PROVE NamedInv'
  <2>1. dropped' = dropped /\ held' = held /\ \A b \in Blobs : blob[b] = "good" => blob'[b] = "good"
      BY <1>0, <1>5, WorkerEffect, ZenonT(30)
  <2> QED BY <1>k, <2>1, ZenonT(30) DEF NamedInv
<1>6. CASE MainSteps
  <2>1. dropped' = dropped /\ blob' = blob
      BY <1>6, MainFrame, ZenonT(30)
  <2>2. held' = held \/ (main = "manifests" /\ held' = held \cup {step + 1})
      BY <1>6, ZenonT(30) DEF MainSteps, UploadsOver, PutManifest, PutManifestFails, PutTag,
           PutTagFails, VerifyStep, VerifyFails, Finish
  <2> QED BY <1>k, <1>p, <2>1, <2>2, ZenonT(30) DEF NamedInv
<1> QED BY <1>1, <1>2, <1>4, <1>5, <1>6, NextCases, ZenonT(30)

\* What was read back stays: the registry names every digest by then.
LEMMA ReadBackStep == ASSUME SizeReported, PushInv, [Next]_vars PROVE ReadBackInv'
<1> USE DEF registry, memory
<1>0. PushTypeOK /\ BusyInv /\ ManifestInv /\ ReadBackInv /\ step \in Nat
    BY  DEF PushInv, PushTypeOK
<1>k. ASSUME UNCHANGED <<main, step, blob>> PROVE ReadBackInv'
    BY <1>0, <1>k DEF ReadBackInv
<1>o. ASSUME main' \notin {"verify", "finish", "ok"} PROVE ReadBackInv'
    BY <1>o DEF ReadBackInv
<1>1. CASE Start \/ Crash
  <2>1. main' \in {"upload", "off"}
      BY <1>1, ZenonT(30) DEF Start, Crash
  <2> QED BY <1>o, <2>1
<1>2. CASE CallerCancels \/ Feed \/ FeedStops \/ UNCHANGED vars
  <2>1. UNCHANGED <<main, step, blob>>
      BY <1>2, ZenonT(30) DEF CallerCancels, Feed, FeedStops, vars
  <2> QED BY <1>k, <2>1, ZenonT(30)
<1>3. ASSUME NEW b \in Blobs, Collect(b) PROVE ReadBackInv'
  <2>1. main' = main
      BY <1>3 DEF Collect
  <2>2. CASE main \in {"verify", "finish", "ok"}
    <3>1. held = Staged
        BY <1>0, <2>2, ZenonT(30) DEF ManifestInv, Publishing
    <3> QED BY <1>3, <3>1, Naming, ZenonT(30) DEF Collect
  <2> QED BY <1>o, <2>1, <2>2, ZenonT(30)
<1>4. ASSUME NEW w \in Workers, WorkerSteps(w) PROVE ReadBackInv'
  <2>1. main' = "upload"
      BY <1>0, <1>4, WorkerEffect, ZenonT(30)
  <2> QED BY <1>o, <2>1, ZenonT(30)
<1>5. CASE UploadsOver \/ PutManifest \/ PutManifestFails \/ PutTagFails \/ VerifyFails
  <2>1. main' \notin {"verify", "finish", "ok"}
      BY <1>5, ZenonT(30) DEF UploadsOver, PutManifest, PutManifestFails, PutTagFails, VerifyFails
  <2> QED BY <1>o, <2>1, ZenonT(30)
<1>6. CASE PutTag
  <2>1. step' = 0 /\ main' = (IF Verify THEN "verify" ELSE "finish")
      BY <1>0, <1>6, ZenonT(30) DEF PutTag, ManifestInv
  <2>2. \A i \in 1..Len(Tasks) : ~(i <= 0)
      BY TasksType
  <2> QED BY <2>1, <2>2, ZenonT(30) DEF ReadBackInv
<1>7. CASE VerifyStep
  <2> SUFFICES ASSUME Verify PROVE ReadBackInv'
      BY ZenonT(30)  DEF ReadBackInv
  <2>1. main = "verify" /\ blob' = blob /\ \A i \in 1..Len(Tasks) : i <= step => blob[Tasks[i]] = "good"
      BY <1>0, <1>7, ZenonT(30) DEF VerifyStep, ReadBackInv
  <2>2. CASE ~ReadBack(step + 1)
      BY <1>7, <1>o, <2>2, ZenonT(30) DEF VerifyStep
  <2>3. CASE ReadBack(step + 1)
    <3>1. ASSUME step + 1 \in 1..Len(Tasks) PROVE blob[Tasks[step + 1]] = "good"
      <4>1. HeadTrusts(Tasks[step + 1])
          BY <1>0, <2>3, <3>1, TasksType DEF ReadBack
      <4> QED BY <4>1, ZenonT(30) DEF HeadTrusts
    <3>2. \A i \in 1..Len(Tasks) : i <= step + 1 => i <= step \/ i = step + 1
        BY <1>0, TasksType
    <3>3. \A i \in 1..Len(Tasks) : i <= step + 1 => blob[Tasks[i]] = "good"
        BY <2>1, <3>1, <3>2, ZenonT(30)
    <3>4. CASE step + 1 = Reads
      <4>1. \A i \in 1..Len(Tasks) : i <= step + 1
          BY <3>4, TasksType, Manifests DEF Reads
      <4>2. main' = "finish"
          BY <1>7, <2>3, <3>4, ZenonT(30) DEF VerifyStep
      <4> QED BY <2>1, <3>3, <4>1, <4>2, TasksType, ZenonT(30) DEF ReadBackInv
    <3>5. CASE step + 1 # Reads
      <4>1. main' = "verify" /\ step' = step + 1
          BY <1>7, <2>3, <3>5, ZenonT(30) DEF VerifyStep
      <4> QED BY <2>1, <3>3, <4>1, ZenonT(30) DEF ReadBackInv
    <3> QED BY <3>4, <3>5, ZenonT(30)
  <2> QED BY <2>2, <2>3, ZenonT(30)
<1>8. CASE Finish
    BY <1>0, <1>8, ZenonT(30) DEF Finish, ReadBackInv
<1> QED BY <1>1, <1>2, <1>3, <1>4, <1>5, <1>6, <1>7, <1>8, NextCases, ZenonT(30) DEF MainSteps

-----------------------------------------------------------------------------
(* The theorems.                                                           *)

\* Nothing was done yet.
LEMMA InitInv == ASSUME Init PROVE PushInv
<1>1. IdleWorker \in Worker /\ IdleWorker.pc = "recv"
    BY ZenonT(30)  DEF IdleWorker, Worker, WorkerPlaces
<1>2. <<>> \in Seq(Blobs) /\ 0 \in 0..Len(Tasks)
    BY TasksType
<1>3. worker \in [Workers -> Worker] /\ \A w \in Workers : worker[w].pc = "recv"
    BY <1>1, ZenonT(30) DEF Init
<1>4. PushTypeOK
  <2>1. step \in Nat /\ faults \in Nat
      BY  DEF Init
  <2> QED BY <1>2, <1>3, <2>1, ZenonT(30) DEF Init, PushTypeOK
<1>5. BusyInv /\ ConfirmedInv
    BY <1>3, ZenonT(30) DEF Init, BusyInv, Busy, ConfirmedInv
<1>6. main = "off" /\ held = {} /\ tag = "old"
    BY ZenonT(30)  DEF Init
<1>7. ManifestInv
  <2>1. Index \notin {}
      BY ZenonT(30)
  <2> QED BY <1>6, <2>1, ZenonT(30) DEF ManifestInv, Publishing, Tagged
<1>8. FeedInv /\ DoneInv /\ NamedInv /\ ReadBackInv
    BY <1>6, ZenonT(30) DEF FeedInv, DoneInv, NamedInv, ReadBackInv, Publishing
<1> QED BY <1>4, <1>5, <1>7, <1>8, ZenonT(30) DEF PushInv

\* Every step keeps the invariant.
LEMMA StepInv == ASSUME SizeReported, PushInv, [Next]_vars PROVE PushInv'
<1>1. PushTypeOK' /\ BusyInv'
    BY TypeStep, ZenonT(30)
<1>2. ConfirmedInv' /\ FeedInv' /\ DoneInv'
    BY ConfirmedStep, FeedStep, DoneStep, ZenonT(30)
<1>3. ManifestInv' /\ NamedInv' /\ ReadBackInv'
    BY ManifestStep, NamedStep, ReadBackStep, ZenonT(30)
<1> QED BY <1>1, <1>2, <1>3, ZenonT(30) DEF PushInv

\* For any images, jobs, retries and failures: with a registry that reports the length of
\* what it holds, the invariant of a push holds in every state, crashes and resumed pushes
\* included.
THEOREM Invariance == ASSUME SizeReported PROVE Spec => []PushInv
<1>1. Init => PushInv
    BY InitInv
<1>2. PushInv /\ [Next]_vars => PushInv'
    BY StepInv, ZenonT(30)
<1> QED BY <1>1, <1>2, PTL DEF Spec

\* publishManifests and putTaggedManifest come after the blobs and in order: whatever the
\* tag or a digest of this push resolves to can be pulled at any moment.
THEOREM ManifestsClosed == ASSUME SizeReported PROVE Spec => []ManifestsAreClosed
<1>1. PushInv => ManifestsAreClosed
    BY  DEF PushInv, ManifestInv, NamedInv, ManifestsAreClosed
<1> QED BY <1>1, Invariance, PTL

\* markDone writes the checkpoint only with digests the registry has confirmed.
THEOREM CheckpointConfirmed == ASSUME SizeReported PROVE Spec => []CheckpointIsConfirmed
<1>1. PushInv => CheckpointIsConfirmed
    BY  DEF PushInv, ConfirmedInv, CheckpointIsConfirmed
<1> QED BY <1>1, Invariance, PTL

\* A push that returns success after verifyPushed has left the whole image under the tag,
\* even when the registry dropped blobs on the way.
THEOREM OkComplete == ASSUME SizeReported, Verify PROVE Spec => []OkMeansComplete
<1>1. PushInv => OkMeansComplete
  <2> SUFFICES ASSUME PushInv, main = "ok" PROVE Complete /\ tag = "new"
      BY ZenonT(30)  DEF OkMeansComplete
  <2>1. held = Staged /\ tag = "new"
      BY ZenonT(30)  DEF PushInv, ManifestInv, Publishing, Tagged
  <2>2. \A b \in Blobs : blob[b] = "good"
      BY ZenonT(30)  DEF PushInv, ReadBackInv
  <2> QED BY <2>1, <2>2, Naming, ZenonT(30) DEF Complete
<1> QED BY <1>1, Invariance, PTL

-----------------------------------------------------------------------------
(* Tokens: the inductive invariant.                                        *)

\* What the provider issues, which is all that anybody ever holds.
Issued == IF creds = "minted" THEN Ids ELSE {StaticToken}
Held == Issued \cup {NoToken}

\* Types.
TokenType ==
    /\ mode \in {"local", "remote"}
    /\ life \in [Tokens -> Nat]
    /\ cache \in Held /\ btok \in Held
    /\ DOMAIN gpc = Callers /\ gtok \in [Callers -> Held]
    /\ DOMAIN wpc = Senders /\ first \in [Senders -> Held]
    /\ asleep \in SUBSET Senders
    /\ wire \in Seq(Issued)

\* Where a caller is says what it holds: a token once Get has returned one, until the
\* answer to the request that carries it; and with a remote server only the refresher
\* asks the provider, with an empty cache.
PlaceInv ==
    /\ \A c \in Callers : gpc[c] = "got" => gtok[c] \in Issued
    /\ \A w \in Senders : wpc[w] \in {"idle", "sent", "resent"} => gpc[w] = "none"
    /\ \A w \in Senders : wpc[w] \in {"sent", "resent"} => gtok[w] \in Issued
    /\ mode = "remote" => \A w \in Senders : gpc[w] \notin {"mint", "join"}
    /\ mode = "local" => \A w \in Senders : gpc[w] # "bwait"
    /\ mode = "remote" /\ gpc[Refresher] = "want" => cache = NoToken

\* t is neither with the broker nor with a sender.
Unseen(t) == t # btok /\ \A w \in Senders : t # gtok[w] /\ t # first[w]

\* With a remote server a token travels once: one that the refresher holds or the stream
\* carries has not been seen at the other end, and the stream carries it once.
OnceInv ==
    creds = "minted" /\ mode = "remote" =>
        /\ \A i \in DOMAIN wire : Unseen(wire[i]) /\ wire[i] # gtok[Refresher]
        /\ \A i, j \in DOMAIN wire : wire[i] = wire[j] => i = j
        /\ gtok[Refresher] \in Ids => Unseen(gtok[Refresher])

\* The token a second try replaces is out of the sender's reach.
FreshInv ==
    creds = "minted" =>
        \A w \in Senders : wpc[w] \in {"reget", "resent"} =>
            /\ first[w] \in Ids /\ gtok[w] # first[w]
            /\ mode = "local" => cache # first[w]
            /\ mode = "remote" => btok # first[w]

\* A bearer the user configured reaches the broker only after the refresher has ended.
StaticInv == creds # "minted" /\ rpc # "off" => wire = <<>> /\ btok = NoToken

TokenInv == TokenType /\ PlaceInv /\ OnceInv /\ FreshInv /\ StaticInv /\ NoLostWakeup

-----------------------------------------------------------------------------
\* NoToken stands for no token.
LEMMA NoTokenIsNone ==
    NoToken \notin Issued /\ NoToken \notin Tokens /\ Issued \subseteq Tokens /\ Refresher \notin Senders
  BY TokenAssumption, ZenonT(30) DEF Issued, Tokens

\* Nobody holds a token yet.
LEMMA TokenStart == ASSUME TokenInit PROVE TokenInv
  <1> USE NoTokenIsNone DEF TokenInit
  <1>1. TokenType
    <2>1. life \in [Tokens -> Nat] /\ wire \in Seq(Issued)
      OBVIOUS
    <2>2. DOMAIN gpc = Callers /\ DOMAIN wpc = Senders
      BY ZenonT(30)
    <2>3. gtok \in [Callers -> Held] /\ first \in [Senders -> Held]
      BY ZenonT(30) DEF Held
    <2> QED
      BY <2>1, <2>2, <2>3, ZenonT(30) DEF TokenType, Held
  <1>2. PlaceInv
    BY ZenonT(30) DEF PlaceInv, Callers
  <1>3. OnceInv /\ FreshInv /\ StaticInv
    BY TokenAssumption DEF OnceInv, FreshInv, StaticInv, Callers
  <1>4. NoLostWakeup
    BY ZenonT(30) DEF NoLostWakeup
  <1> QED
    BY <1>1, <1>2, <1>3, <1>4, ZenonT(30) DEF TokenInv

\* A token nobody has is none of those that somebody has.
LEMMA FreshIs ==
    ASSUME TokenType, NEW t, t \notin InUse
    PROVE  /\ t # cache /\ t # btok
           /\ \A c \in Callers : gtok[c] # t
           /\ \A w \in Senders : first[w] # t
           /\ \A i \in DOMAIN wire : wire[i] # t
  <1>1. DOMAIN gtok = Callers /\ DOMAIN first = Senders
    BY ZenonT(30) DEF TokenType
  <1> QED
    BY <1>1, ZenonT(30) DEF InUse, Range

\* The stream carries tokens that the provider issued.
LEMMA WireIssued ==
    ASSUME TokenType
    PROVE  /\ \A i \in DOMAIN wire : wire[i] \in Issued /\ wire[i] # NoToken
           /\ wire # <<>> => /\ Head(wire) = wire[1] /\ 1 \in DOMAIN wire
                             /\ Tail(wire) \in Seq(Issued)
                             /\ \A i \in DOMAIN Tail(wire) :
                                   /\ i \in Nat /\ i + 1 \in DOMAIN wire
                                   /\ Tail(wire)[i] = wire[i + 1]
           /\ \A t \in Issued :
                 /\ Append(wire, t) \in Seq(Issued)
                 /\ DOMAIN Append(wire, t) = DOMAIN wire \cup {Len(wire) + 1}
                 /\ Append(wire, t)[Len(wire) + 1] = t
                 /\ \A i \in DOMAIN wire : /\ Append(wire, t)[i] = wire[i]
                                           /\ i # Len(wire) + 1
  <1>1. wire \in Seq(Issued) /\ DOMAIN wire = 1..Len(wire) /\ Len(wire) \in Nat
    BY DEF TokenType
  <1>2. \A i \in DOMAIN wire : wire[i] \in Issued /\ wire[i] # NoToken
    BY <1>1, NoTokenIsNone
  <1>3. ASSUME wire # <<>>
        PROVE  /\ Head(wire) = wire[1] /\ 1 \in DOMAIN wire
               /\ Tail(wire) \in Seq(Issued)
               /\ \A i \in DOMAIN Tail(wire) :
                     /\ i \in Nat /\ i + 1 \in DOMAIN wire
                     /\ Tail(wire)[i] = wire[i + 1]
    BY <1>1, <1>3
  <1>4. ASSUME NEW t \in Issued
        PROVE  /\ Append(wire, t) \in Seq(Issued)
               /\ DOMAIN Append(wire, t) = DOMAIN wire \cup {Len(wire) + 1}
               /\ Append(wire, t)[Len(wire) + 1] = t
               /\ \A i \in DOMAIN wire : /\ Append(wire, t)[i] = wire[i]
                                         /\ i # Len(wire) + 1
    BY <1>1
  <1> QED
    BY <1>2, <1>3, <1>4, ZenonT(30)

\* OnceInv stays when the stream and the refresher's token do, and what nobody has seen
\* stays unseen.
LEMMA OnceKept ==
    ASSUME OnceInv, UNCHANGED <<mode, creds, wire>>, gtok'[Refresher] = gtok[Refresher],
           \A t \in Issued : Unseen(t) => Unseen(t)',
           creds = "minted" => \A i \in DOMAIN wire : wire[i] \in Issued
    PROVE  OnceInv'
  <1> SUFFICES ASSUME creds = "minted", mode = "remote"
               PROVE  /\ \A i \in DOMAIN wire : Unseen(wire[i])' /\ wire[i] # gtok[Refresher]
                      /\ \A i, j \in DOMAIN wire : wire[i] = wire[j] => i = j
                      /\ gtok[Refresher] \in Ids => Unseen(gtok[Refresher])'
    BY ZenonT(30) DEF OnceInv, Unseen
  <1>1. /\ \A i \in DOMAIN wire : Unseen(wire[i]) /\ wire[i] # gtok[Refresher]
        /\ \A i, j \in DOMAIN wire : wire[i] = wire[j] => i = j
        /\ gtok[Refresher] \in Ids => Unseen(gtok[Refresher])
    BY DEF OnceInv
  <1>2. Ids = Issued
    BY ZenonT(30) DEF Issued
  <1> QED
    BY <1>1, <1>2, ZenonT(30)

\* GetStart.
LEMMA GetStartStep ==
    ASSUME TokenInv, NEW c \in Callers, GetStart(c)
    PROVE  TokenInv'
  <1> USE NoTokenIsNone DEF TokenInv
  <1>u. /\ UNCHANGED <<mode, creds, life, cache, wpc, first, btok, asleep, rpc, wire>>
        /\ gpc[c] = "want" /\ (mode = "remote" => c \notin Senders)
        /\ \/ /\ ValidAt(cache) /\ gpc' = [gpc EXCEPT ![c] = "got"]
              /\ gtok' = [gtok EXCEPT ![c] = cache]
           \/ /\ ~ValidAt(cache) /\ gtok' = gtok
              /\ gpc' = [gpc EXCEPT ![c] = "join"] \/ gpc' = [gpc EXCEPT ![c] = "mint"]
    BY ZenonT(30) DEF GetStart, sender, broker, session, UsesBroker
  <1>i. Issued' = Issued /\ Held' = Held
    BY <1>u, ZenonT(30) DEF Issued, Held
  <1>v. ValidAt(cache) => cache \in Issued /\ cache # NoToken
    BY TokenAssumption, ZenonT(30) DEF ValidAt, TokenType, Held
  <1>g. /\ DOMAIN gpc' = Callers /\ gtok' \in [Callers -> Held]
        /\ \A d \in Callers : d # c => gpc'[d] = gpc[d] /\ gtok'[d] = gtok[d]
        /\ gpc'[c] = "got" => gtok'[c] = cache /\ ValidAt(cache)
        /\ gpc'[c] \in {"got", "join", "mint"} /\ gtok'[c] \in {cache, gtok[c]}
    <2>1. DOMAIN gpc = Callers /\ gtok \in [Callers -> Held] /\ cache \in Held
      BY ZenonT(30) DEF TokenType
    <2> QED
      BY <1>u, <2>1, ZenonT(30)
  <1>1. TokenType'
    BY <1>u, <1>i, <1>g, ZenonT(30) DEF TokenType
  <1>2. PlaceInv'
    BY <1>u, <1>i, <1>g, <1>v DEF PlaceInv, Callers
  <1>3. OnceInv'
    <2>1. CASE mode = "remote"
      <3>1. c = Refresher
        BY <1>u, <2>1, ZenonT(30) DEF Callers
      <3>2. gtok' = gtok
        BY <1>u, <1>v, <2>1, <3>1, ZenonT(30) DEF PlaceInv
      <3>3. \A t : Unseen(t) => Unseen(t)'
        BY <1>u, <3>2, ZenonT(30) DEF Unseen
      <3> QED
        BY <1>u, <3>2, <3>3, WireIssued, OnceKept, ZenonT(30)
    <2> QED
      BY <1>u, <2>1, ZenonT(30) DEF OnceInv
  <1>4. FreshInv'
    <2>1. mode \in {"local", "remote"}
      BY ZenonT(30) DEF TokenType
    <2> QED
      BY <1>u, <1>g, <2>1 DEF FreshInv, Callers
  <1>5. StaticInv' /\ NoLostWakeup'
    BY <1>u, ZenonT(30) DEF StaticInv, NoLostWakeup, Serves
  <1> QED
    BY <1>1, <1>2, <1>3, <1>4, <1>5, ZenonT(30)

\* A mint returns what the provider issues, or in a local push nothing; a token of the
\* issuer is nobody's yet, and no other token's life changes.
LEMMA MintedIs ==
    ASSUME TokenType, NEW t \in Tokens \cup {NoToken}, Minted(t)
    PROVE  /\ t \in Issued \/ (mode = "local" /\ t = NoToken)
           /\ creds = "minted" /\ t # NoToken => t \notin InUse
           /\ life' \in [Tokens -> Nat]
           /\ \A u \in Tokens : u # t \/ creds # "minted" => life'[u] = life[u]
  <1> USE TokenAssumption DEF TokenType, Tokens, Issued
  <1>1. CASE creds # "minted" /\ t = StaticToken /\ UNCHANGED <<life, revoked>>
    BY <1>1, ZenonT(30)
  <1>2. CASE /\ creds = "minted" /\ Ids \ InUse # {}
             /\ t = CHOOSE i \in Ids \ InUse : TRUE
             /\ \E n \in Lives : life' = [life EXCEPT ![t] = n]
             /\ revoked' = revoked \ {t}
    <2>1. t \in Ids \ InUse
      BY <1>2, ZenonT(30)
    <2>2. PICK n \in Lives : life' = [life EXCEPT ![t] = n]
      BY <1>2, ZenonT(30)
    <2>3. n \in Nat
      BY <2>2, ZenonT(30)
    <2> QED
      BY <1>2, <2>1, <2>2, <2>3, ZenonT(30)
  <1>3. CASE mode = "local" /\ t = NoToken /\ UNCHANGED <<life, revoked>>
    BY <1>3
  <1> QED
    BY <1>1, <1>2, <1>3, ZenonT(30) DEF Minted

\* The second critical section of provider.Get: the minted token is cached, and those
\* that joined the mint get it too.
LEMMA GetEndStep ==
    ASSUME TokenInv, NEW c \in Callers, GetEnd(c)
    PROVE  TokenInv'
  <1> USE NoTokenIsNone DEF TokenInv
  <1>u. UNCHANGED <<mode, creds, wpc, first, btok, asleep, left, rpc, rest, loop, wire>>
    BY DEF GetEnd, sender, broker, session
  <1>c. gpc[c] = "mint"
    BY DEF GetEnd
  <1>i. Issued' = Issued /\ Held' = Held
    BY <1>u, ZenonT(30) DEF Issued, Held
  <1>t. PICK t \in Tokens \cup {NoToken} :
          /\ Minted(t)
          /\ cache' = IF t = NoToken THEN cache ELSE t
          /\ Gets(Joined \cup {c}, t)
    BY DEF GetEnd
  <1>m. /\ t \in Issued \/ (mode = "local" /\ t = NoToken)
        /\ creds = "minted" /\ t # NoToken => t \notin InUse
        /\ life' \in [Tokens -> Nat]
        /\ \A u \in Tokens : u # t \/ creds # "minted" => life'[u] = life[u]
    BY <1>t, MintedIs, ZenonT(30)
  <1>f. creds = "minted" /\ t # NoToken =>
           /\ t # cache /\ t # btok
           /\ \A d \in Callers : gtok[d] # t
           /\ \A w \in Senders : first[w] # t
           /\ \A i \in DOMAIN wire : wire[i] # t
    BY <1>m, FreshIs, ZenonT(30)
  <1> DEFINE who == Joined \cup {c}
  <1>g. /\ DOMAIN gpc' = Callers /\ gtok' \in [Callers -> Held]
        /\ \A d \in Callers : gtok'[d] = IF d \in who THEN t ELSE gtok[d]
        /\ \A d \in Callers : gpc'[d] = IF d \notin who THEN gpc[d]
                                      ELSE IF t = NoToken THEN "failed" ELSE "got"
    BY <1>t, <1>m, ZenonT(30) DEF Gets, TokenType, Held
  <1>w. \A d \in who : d \in Callers /\ gpc[d] \in {"mint", "join"}
    BY <1>c, ZenonT(30) DEF Joined
  <1>o. c \in who
    OBVIOUS
  <1> HIDE DEF who
  <1>1. TokenType'
    BY <1>u, <1>i, <1>g, <1>m, <1>t, ZenonT(30) DEF TokenType, Held
  <1>r. mode = "remote" => /\ Refresher \in who /\ t # NoToken
                           /\ \A w \in Senders : w \notin who
    BY <1>w, <1>m, <1>o, ZenonT(30) DEF PlaceInv, Callers
  <1>2. PlaceInv'
    BY <1>u, <1>i, <1>g, <1>m, <1>w, <1>r, ZenonT(30) DEF PlaceInv, Callers
  <1>3. OnceInv'
    <2> SUFFICES ASSUME creds = "minted", mode = "remote"
                 PROVE  /\ \A i \in DOMAIN wire : Unseen(wire[i])' /\ wire[i] # gtok'[Refresher]
                        /\ \A i, j \in DOMAIN wire : wire[i] = wire[j] => i = j
                        /\ gtok'[Refresher] \in Ids => Unseen(gtok[Refresher])'
      BY <1>u, ZenonT(30) DEF OnceInv
    <2>1. gtok'[Refresher] = t /\ \A w \in Senders : gtok'[w] = gtok[w]
      BY <1>g, <1>r, ZenonT(30) DEF Callers
    <2>2. Unseen(t)' /\ \A i \in DOMAIN wire : wire[i] # t
      BY <1>u, <1>f, <1>r, <2>1, ZenonT(30) DEF Unseen, Callers
    <2>3. \A i \in DOMAIN wire : Unseen(wire[i])'
      BY <1>u, <2>1, ZenonT(30) DEF OnceInv, Unseen
    <2>4. \A i, j \in DOMAIN wire : wire[i] = wire[j] => i = j
      BY DEF OnceInv
    <2> QED BY <2>1, <2>2, <2>3, <2>4, ZenonT(30)
  <1>4. FreshInv'
    BY <1>u, <1>g, <1>f, <1>t, <1>r DEF FreshInv, PlaceInv, Callers, Tokens
  <1>5. StaticInv'
    BY <1>u DEF StaticInv
  <1>6. NoLostWakeup'
    BY <1>u, <1>m, <1>f, ZenonT(30) DEF NoLostWakeup, Serves, TokenType
  <1> QED
    BY <1>1, <1>2, <1>3, <1>4, <1>5, <1>6, ZenonT(30)

\* No token moves, none lives longer, and nobody falls asleep: what is left to show is
\* where the callers are.
LEMMA TokensStay ==
    ASSUME TokenInv, UNCHANGED <<mode, creds, cache, gtok, first, btok, rpc, wire>>,
           life' \in [Tokens -> Nat], \A t \in Tokens : life'[t] > 0 => life[t] > 0,
           asleep' \subseteq asleep, PlaceInv', DOMAIN gpc' = Callers, DOMAIN wpc' = Senders,
           \A w \in Senders : wpc'[w] \in {"reget", "resent"} => wpc[w] \in {"reget", "resent"}
    PROVE  TokenInv'
  <1> USE DEF TokenInv
  <1>i. Issued' = Issued /\ Held' = Held
    BY DEF Issued, Held
  <1>1. TokenType'
    BY <1>i, ZenonT(30) DEF TokenType
  <1>2. OnceInv'
    BY ZenonT(30) DEF OnceInv, Unseen
  <1>3. FreshInv'
    BY ZenonT(30) DEF FreshInv
  <1>4. StaticInv'
    BY ZenonT(30) DEF StaticInv
  <1>5. NoLostWakeup'
    BY DEF NoLostWakeup, Serves
  <1> QED
    BY <1>1, <1>2, <1>3, <1>4, <1>5, ZenonT(30)

\* A joined caller whose context ends.
LEMMA GiveUpStep ==
    ASSUME TokenInv, NEW c \in Callers, GiveUp(c)
    PROVE  TokenInv'
  <1>1. /\ UNCHANGED <<mode, creds, life, cache, gtok, wpc, first, btok, asleep, rpc, wire>>
        /\ gpc[c] = "join" /\ gpc' = [gpc EXCEPT ![c] = "failed"]
    BY DEF GiveUp, sender, broker, session
  <1>2. TokenType /\ PlaceInv
    BY DEF TokenInv
  <1>3. PlaceInv'
    BY <1>1, <1>2, ZenonT(30) DEF TokenType, PlaceInv, Issued, Callers
  <1> QED
    BY <1>1, <1>2, <1>3, TokensStay, ZenonT(30) DEF TokenType

\* TokenBroker.Get: a token that serves, or a place among those that wait.
LEMMA BrokerGetStep ==
    ASSUME TokenInv, NEW w \in Senders, BrokerGet(w)
    PROVE  TokenInv'
  <1> USE NoTokenIsNone DEF TokenInv
  <1>u. /\ UNCHANGED <<mode, creds, life, cache, wpc, first, btok, rpc, wire>>
        /\ (gpc[w] = "want" /\ mode = "remote") \/ gpc[w] = "bwait"
        /\ \/ /\ Serves(btok) /\ gpc' = [gpc EXCEPT ![w] = "got"]
              /\ gtok' = [gtok EXCEPT ![w] = btok] /\ asleep' = asleep
           \/ /\ ~Serves(btok) /\ gpc' = [gpc EXCEPT ![w] = "bwait"]
              /\ gtok' = gtok /\ asleep' = asleep \cup {w}
    BY DEF BrokerGet, sender, session, UsesBroker
  <1>i. Issued' = Issued /\ Held' = Held
    BY <1>u, ZenonT(30) DEF Issued, Held
  <1>g. /\ DOMAIN gpc' = Callers /\ gtok' \in [Callers -> Held]
        /\ \A d \in Callers : d # w => gpc'[d] = gpc[d] /\ gtok'[d] = gtok[d]
        /\ gpc'[w] = "got" => gtok'[w] = btok /\ Serves(btok)
        /\ gpc'[w] \in {"got", "bwait"} /\ gtok'[w] \in {btok, gtok[w]}
    <2>1. DOMAIN gpc = Callers /\ gtok \in [Callers -> Held] /\ btok \in Held /\ w \in Callers
      BY DEF TokenType, Callers
    <2> QED
      BY <1>u, <2>1, ZenonT(30)
  <1>v. Serves(btok) => btok \in Issued
    BY DEF Serves, TokenType, Held
  <1>1. TokenType'
    BY <1>u, <1>i, <1>g, ZenonT(30) DEF TokenType
  <1>2. PlaceInv'
    BY <1>u, <1>i, <1>g, <1>v, ZenonT(30) DEF PlaceInv, Callers
  <1>3. OnceInv'
    <2>1. \A t : Unseen(t) => Unseen(t)'
      BY <1>u, <1>g, ZenonT(30) DEF Unseen, Callers
    <2>2. gtok'[Refresher] = gtok[Refresher]
      BY <1>g, ZenonT(30) DEF Callers
    <2> QED
      BY <1>u, <2>1, <2>2, WireIssued, OnceKept, ZenonT(30)
  <1>4. FreshInv'
    <2>1. mode = "remote"
      BY <1>u, ZenonT(30) DEF TokenType, PlaceInv
    <2> QED
      BY <1>u, <1>g, <2>1, ZenonT(30) DEF FreshInv, Callers
  <1>5. StaticInv'
    BY <1>u, ZenonT(30) DEF StaticInv
  <1>6. NoLostWakeup'
    BY <1>u, ZenonT(30) DEF NoLostWakeup, Serves, TokenType
  <1> QED
    BY <1>1, <1>2, <1>3, <1>4, <1>5, <1>6, ZenonT(30)

\* The wait on the broker times out.
LEMMA BrokerTimeoutStep ==
    ASSUME TokenInv, NEW w \in Senders, BrokerTimeout(w)
    PROVE  TokenInv'
  <1>1. /\ UNCHANGED <<mode, creds, life, cache, gtok, wpc, first, btok, rpc, wire>>
        /\ gpc[w] = "bwait" /\ gpc' = [gpc EXCEPT ![w] = "failed"] /\ asleep' \subseteq asleep
    BY DEF BrokerTimeout, sender, session
  <1>2. TokenType /\ PlaceInv
    BY DEF TokenInv
  <1>3. PlaceInv'
    BY <1>1, <1>2, NoTokenIsNone, ZenonT(30) DEF TokenType, PlaceInv, Issued, Callers
  <1> QED
    BY <1>1, <1>2, <1>3, TokensStay, ZenonT(30) DEF TokenType

\* RoundTrip asks for a token.
LEMMA BeginStep ==
    ASSUME TokenInv, NEW w \in Senders, Begin(w)
    PROVE  TokenInv'
  <1>1. /\ UNCHANGED <<mode, creds, life, cache, gtok, first, btok, asleep, rpc, wire>>
        /\ wpc' = [wpc EXCEPT ![w] = "get"] /\ gpc' = [gpc EXCEPT ![w] = "want"]
    BY DEF Begin, Steps, broker, session
  <1>2. TokenType /\ PlaceInv
    BY DEF TokenInv
  <1>3. PlaceInv'
    BY <1>1, <1>2, NoTokenIsNone, ZenonT(30) DEF TokenType, PlaceInv, Issued, Callers
  <1> QED
    BY <1>1, <1>2, <1>3, TokensStay, ZenonT(30) DEF TokenType

\* The request is sent with it.
LEMMA SendStep ==
    ASSUME TokenInv, NEW w \in Senders, Send(w)
    PROVE  TokenInv'
  <1>1. /\ UNCHANGED <<mode, creds, life, cache, gtok, first, btok, asleep, rpc, wire>>
        /\ gpc[w] = "got" /\ gpc' = [gpc EXCEPT ![w] = "none"]
        /\ \/ wpc' = [wpc EXCEPT ![w] = "sent"]
           \/ wpc[w] = "reget" /\ wpc' = [wpc EXCEPT ![w] = "resent"]
    BY ZenonT(30)  DEF Send, Steps, broker, session
  <1>2. TokenType /\ PlaceInv
    BY ZenonT(30) DEF TokenInv
  <1>3. PlaceInv'
    BY <1>1, <1>2, NoTokenIsNone DEF TokenType, PlaceInv, Issued, Callers
  <1> QED
    BY <1>1, <1>2, <1>3, TokensStay, ZenonT(30) DEF TokenType

\* RoundTrip returns.
LEMMA ReturnsStep ==
    ASSUME TokenInv, NEW w \in Senders, NEW ok \in BOOLEAN, Returns(w, ok)
    PROVE  TokenInv'
  <1> USE NoTokenIsNone DEF TokenInv
  <1>u. /\ UNCHANGED <<mode, creds, life, cache, btok, asleep, rpc, wire>>
        /\ gpc' = [gpc EXCEPT ![w] = "none"] /\ wpc' = [wpc EXCEPT ![w] = "idle"]
        /\ gtok' = [gtok EXCEPT ![w] = NoToken] /\ first' = [first EXCEPT ![w] = NoToken]
    BY ZenonT(30) DEF Returns, Steps, broker
  <1>i. Issued' = Issued /\ Held' = Held
    BY <1>u, ZenonT(30) DEF Issued, Held
  <1>g. /\ DOMAIN gpc' = Callers /\ DOMAIN wpc' = Senders
        /\ gtok' \in [Callers -> Held] /\ first' \in [Senders -> Held]
        /\ \A d \in Callers : d # w => gpc'[d] = gpc[d] /\ gtok'[d] = gtok[d]
        /\ \A v \in Senders : v # w => wpc'[v] = wpc[v] /\ first'[v] = first[v]
        /\ gpc'[w] = "none" /\ wpc'[w] = "idle" /\ gtok'[w] = NoToken /\ first'[w] = NoToken
    <2>1. /\ DOMAIN gpc = Callers /\ DOMAIN wpc = Senders /\ w \in Callers
          /\ gtok \in [Callers -> Held] /\ first \in [Senders -> Held] /\ NoToken \in Held
      BY ZenonT(30) DEF TokenType, Callers, Held
    <2> QED
      BY <1>u, <2>1, ZenonT(30)
  <1>1. TokenType'
    BY <1>u, <1>i, <1>g, ZenonT(30) DEF TokenType
  <1>2. PlaceInv'
    BY <1>u, <1>i, <1>g DEF PlaceInv, Callers
  <1>3. OnceInv'
    <2>1. \A t \in Issued : Unseen(t) => Unseen(t)'
      BY <1>u, <1>g DEF Unseen, Callers
    <2>2. gtok'[Refresher] = gtok[Refresher]
      BY <1>g, ZenonT(30) DEF Callers
    <2> QED
      BY <1>u, <2>1, <2>2, WireIssued, OnceKept, ZenonT(30)
  <1>4. FreshInv'
    BY <1>u, <1>g DEF FreshInv, Callers
  <1>5. StaticInv'
    BY <1>u, ZenonT(30) DEF StaticInv
  <1>6. NoLostWakeup'
    BY <1>u, ZenonT(30) DEF NoLostWakeup, Serves, TokenType
  <1> QED
    BY <1>1, <1>2, <1>3, <1>4, <1>5, <1>6, ZenonT(30)

\* A 401: the token is invalidated and another one asked for.
LEMMA RetryStep ==
    ASSUME TokenInv, NEW w \in Senders, Retry(w)
    PROVE  TokenInv'
  <1> USE NoTokenIsNone DEF TokenInv
  <1>u. /\ UNCHANGED <<mode, creds, life, rpc, wire>> /\ wpc[w] = "sent"
        /\ gpc' = [gpc EXCEPT ![w] = "want"] /\ wpc' = [wpc EXCEPT ![w] = "reget"]
        /\ gtok' = [gtok EXCEPT ![w] = NoToken] /\ first' = [first EXCEPT ![w] = gtok[w]]
        /\ \/ mode = "local" /\ cache' = NoToken /\ UNCHANGED <<btok, asleep>>
           \/ mode # "local" /\ btok' = NoToken /\ asleep' = {} /\ UNCHANGED cache
    BY ZenonT(30) DEF Retry, Steps, session
  <1>i. Issued' = Issued /\ Held' = Held
    BY <1>u, ZenonT(30) DEF Issued, Held
  <1>g. /\ DOMAIN gpc' = Callers /\ DOMAIN wpc' = Senders
        /\ gtok' \in [Callers -> Held] /\ first' \in [Senders -> Held]
        /\ \A d \in Callers : d # w => gpc'[d] = gpc[d] /\ gtok'[d] = gtok[d]
        /\ \A v \in Senders : v # w => wpc'[v] = wpc[v] /\ first'[v] = first[v]
        /\ gpc'[w] = "want" /\ wpc'[w] = "reget" /\ gtok'[w] = NoToken /\ first'[w] = gtok[w]
    <2>1. /\ DOMAIN gpc = Callers /\ DOMAIN wpc = Senders /\ w \in Callers
          /\ gtok \in [Callers -> Held] /\ first \in [Senders -> Held] /\ NoToken \in Held
      BY ZenonT(30) DEF TokenType, Callers, Held
    <2> QED
      BY <1>u, <2>1, ZenonT(30)
  <1>1. TokenType'
    BY <1>u, <1>i, <1>g, ZenonT(30) DEF TokenType, Held
  <1>2. PlaceInv'
    BY <1>u, <1>i, <1>g DEF PlaceInv, Callers
  <1>3. OnceInv'
    <2>1. \A t \in Issued : Unseen(t) => Unseen(t)'
      BY <1>u, <1>g DEF Unseen, Callers
    <2>2. gtok'[Refresher] = gtok[Refresher]
      BY <1>g, ZenonT(30) DEF Callers
    <2> QED
      BY <1>u, <2>1, <2>2, WireIssued, OnceKept, ZenonT(30)
  <1>4. FreshInv'
    <2>1. gtok[w] \in Issued
      BY <1>u, ZenonT(30) DEF PlaceInv
    <2> QED
      BY <1>u, <1>g, <2>1 DEF FreshInv, Callers, Issued
  <1>5. StaticInv'
    BY <1>u, ZenonT(30) DEF StaticInv
  <1>6. NoLostWakeup'
    BY <1>u, ZenonT(30) DEF NoLostWakeup, Serves, TokenType
  <1> QED
    BY <1>1, <1>2, <1>3, <1>4, <1>5, <1>6, ZenonT(30)

\* refreshToken wakes up, and invalidates the token it sent before.
LEMMA RefreshStep ==
    ASSUME TokenInv, Refresh
    PROVE  TokenInv'
  <1> USE NoTokenIsNone DEF TokenInv
  <1>u. /\ UNCHANGED <<mode, creds, life, gtok, wpc, first, btok, asleep, wire>> /\ rpc = "sleep"
        /\ rpc' = "get" /\ cache' = NoToken /\ gpc' = [gpc EXCEPT ![Refresher] = "want"]
    BY ZenonT(30) DEF Refresh, sender, broker
  <1>i. Issued' = Issued /\ Held' = Held
    BY <1>u, ZenonT(30) DEF Issued, Held
  <1>g. /\ DOMAIN gpc' = Callers /\ gpc'[Refresher] = "want"
        /\ \A d \in Callers : d # Refresher => gpc'[d] = gpc[d]
    BY <1>u, ZenonT(30) DEF TokenType, Callers
  <1>1. TokenType'
    BY <1>u, <1>i, <1>g, ZenonT(30) DEF TokenType, Held
  <1>2. PlaceInv'
    BY <1>u, <1>i, <1>g, ZenonT(30) DEF PlaceInv, Callers
  <1>3. OnceInv'
    <2>1. \A t : Unseen(t) => Unseen(t)'
      BY <1>u, ZenonT(30) DEF Unseen
    <2> QED
      BY <1>u, <2>1, WireIssued, OnceKept, ZenonT(30)
  <1>4. FreshInv'
    BY <1>u, TokenAssumption, ZenonT(30) DEF FreshInv
  <1>5. StaticInv'
    BY <1>u, ZenonT(30) DEF StaticInv
  <1>6. NoLostWakeup'
    BY <1>u, ZenonT(30) DEF NoLostWakeup, Serves, TokenType
  <1> QED
    BY <1>1, <1>2, <1>3, <1>4, <1>5, <1>6, ZenonT(30)

\* The session loop hands a token to the broker, which wakes every waiting request.
LEMMA ReadFrameStep ==
    ASSUME TokenInv, ReadFrame
    PROVE  TokenInv'
  <1> USE NoTokenIsNone DEF TokenInv
  <1>u. UNCHANGED <<mode, creds, life, cache, inflight, gpc, gtok, wpc, first, rpc>>
    BY ZenonT(30) DEF ReadFrame, provider, sender
  <1>i. Issued' = Issued /\ Held' = Held
    BY <1>u, ZenonT(30) DEF Issued, Held
  <1> DEFINE t == Head(wire)
  <1>w. /\ wire # <<>> /\ wire' = Tail(wire)
        /\ btok' = IF Serves(t) THEN t ELSE btok
        /\ asleep' = IF Serves(t) THEN {} ELSE asleep
    BY DEF ReadFrame, ProvideToken
  <1>t. /\ t = wire[1] /\ 1 \in DOMAIN wire /\ t \in Issued
        /\ wire' \in Seq(Issued)
        /\ \A i \in DOMAIN wire' : /\ i \in Nat /\ i + 1 \in DOMAIN wire /\ i + 1 # 1 
                                   /\ wire'[i] = wire[i + 1] 
    <2>1. \A i \in DOMAIN Tail(wire) : i \in Nat /\ i > 0
      BY DEF TokenType
    <2>2. \A i \in DOMAIN Tail(wire) : i + 1 # 1
      BY <2>1
    <2> QED
      BY <1>w, <2>2, WireIssued, ZenonT(30)
  <1> HIDE DEF t
  <1>1. TokenType'
    BY <1>u, <1>i, <1>w, <1>t, ZenonT(30) DEF TokenType, Held
  <1>2. PlaceInv'
    BY <1>u, <1>i, ZenonT(30) DEF PlaceInv
  <1>3. OnceInv'
    <2> SUFFICES ASSUME creds = "minted", mode = "remote"
                 PROVE  /\ \A i \in DOMAIN wire' : Unseen(wire[i])' /\ wire'[i] # gtok[Refresher]
                        /\ \A i, j \in DOMAIN wire' : wire'[i] = wire'[j] => i = j
                        /\ gtok[Refresher] \in Ids => Unseen(gtok[Refresher])'
      BY <1>u, ZenonT(30) DEF OnceInv
    <2>1. ASSUME NEW i \in DOMAIN wire'
          PROVE  Unseen(wire[i])' /\ wire'[i] # gtok[Refresher]
      <3>1. Unseen(wire[i + 1]) /\ wire[i + 1] # gtok[Refresher] /\ wire[i + 1] # wire[1]
        BY <1>t, ZenonT(30) DEF OnceInv
      <3> QED
        BY <3>1, <1>u, <1>t, <1>w, ZenonT(30) DEF Unseen
    <2>2. ASSUME NEW i \in DOMAIN wire', NEW j \in DOMAIN wire', wire'[i] = wire'[j]
          PROVE  i = j
      <3>1. i + 1 = j + 1
        BY <1>t, <2>2 DEF OnceInv
      <3> QED
        BY <3>1, <1>t
    <2>3. gtok[Refresher] \in Ids => Unseen(gtok[Refresher])'
      BY <1>t, <1>u, <1>w, ZenonT(30) DEF OnceInv, Unseen
    <2> QED
      BY <2>1, <2>2, <2>3, ZenonT(30)
  <1>4. FreshInv'
    <2>1. creds = "minted" /\ mode = "remote" => \A w \in Senders : t # first[w]
      BY <1>t, ZenonT(30) DEF OnceInv, Unseen
    <2> QED
      BY <2>1, <1>u, <1>w, ZenonT(30) DEF FreshInv
  <1>5. StaticInv'
    BY <1>u, <1>w, ZenonT(30) DEF StaticInv
  <1>6. NoLostWakeup'
    BY <1>u, <1>w, ZenonT(30) DEF NoLostWakeup, Serves
  <1> QED
    BY <1>1, <1>2, <1>3, <1>4, <1>5, <1>6, ZenonT(30)

\* The issuer revokes a token.
LEMMA RevokeStep ==
    ASSUME TokenInv, NEW t \in Ids, Revoke(t)
    PROVE  TokenInv'
  <1>1. UNCHANGED <<mode, creds, life, cache, gpc, gtok, wpc, first, btok, asleep, rpc, wire>>
    BY ZenonT(30) DEF Revoke, provider, sender, broker, session
  <1>2. TokenType /\ PlaceInv
    BY DEF TokenInv
  <1>3. PlaceInv'
    BY <1>1, <1>2, ZenonT(30) DEF PlaceInv, Issued
  <1> QED
    BY <1>1, <1>2, <1>3, TokensStay, ZenonT(30) DEF TokenType

\* Time passes.
LEMMA TickStep ==
    ASSUME TokenInv, Tick
    PROVE  TokenInv'
  <1>1. /\ UNCHANGED <<mode, creds, cache, gpc, gtok, wpc, first, btok, asleep, rpc, wire>>
        /\ life' = [t \in Tokens |-> IF t \in InUse /\ life[t] > 0 THEN life[t] - 1 ELSE 0]
    BY ZenonT(30) DEF Tick, sender
  <1>2. TokenType /\ PlaceInv
    BY DEF TokenInv
  <1>3. life' \in [Tokens -> Nat] /\ \A t \in Tokens : life'[t] > 0 => life[t] > 0
    BY <1>1, <1>2 DEF TokenType
  <1>4. PlaceInv'
    BY <1>1, <1>2, ZenonT(30) DEF PlaceInv, Issued
  <1> QED
    BY <1>1, <1>2, <1>3, <1>4, TokensStay, ZenonT(30) DEF TokenType

\* The client writes its token to the stream.
LEMMA SendTokenStep ==
    ASSUME TokenInv, SendToken
    PROVE  TokenInv'
  <1> USE NoTokenIsNone DEF TokenInv
  <1> DEFINE t == gtok[Refresher]
  <1>u. UNCHANGED <<mode, creds, cache, inflight, wpc, first, btok, asleep>>
    BY ZenonT(30) DEF SendToken, sender, broker
  <1>i. Issued' = Issued /\ Held' = Held
    BY <1>u, ZenonT(30) DEF Issued, Held
  <1>g. /\ gpc' = [gpc EXCEPT ![Refresher] = "none"]
        /\ gtok' = [gtok EXCEPT ![Refresher] = NoToken]
        /\ rpc = "get" /\ gpc[Refresher] = "got" /\ Refresher \in Callers
        /\ rpc' # "off" => creds = "minted"
    BY ZenonT(30) DEF SendToken, Callers
  <1>t. t \in Issued
    BY <1>g, ZenonT(30) DEF PlaceInv
  <1>w. wire' \in {wire, Append(wire, t)}
    BY DEF SendToken
  <1>l. \/ life' = life
        \/ creds # "minted" /\ life' = [life EXCEPT ![t] = ForwardTTL]
    BY ZenonT(30) DEF SendToken
  <1> HIDE DEF t
  <1>1. TokenType'
    <2>1. wire' \in Seq(Issued)
      <3>1. wire \in Seq(Issued) /\ Append(wire, t) \in Seq(Issued)
        BY <1>t, WireIssued, ZenonT(30) DEF TokenType
      <3> QED
        BY <1>w, <3>1, ZenonT(30)
    <2>2. life' \in [Tokens -> Nat]
      BY <1>l, <1>t, TokenAssumption, ZenonT(30) DEF TokenType
    <2> QED
      BY <1>u, <1>i, <1>g, <2>1, <2>2, ZenonT(30) DEF TokenType, Held
  <1>2. PlaceInv'
    BY <1>u, <1>i, <1>g, ZenonT(30) DEF TokenType, PlaceInv, Callers
  <1>3. OnceInv'
    <2> SUFFICES ASSUME creds = "minted", mode = "remote"
                 PROVE  /\ \A i \in DOMAIN wire' : Unseen(wire[i])' /\ wire'[i] # gtok'[Refresher]
                        /\ \A i, j \in DOMAIN wire' : wire'[i] = wire'[j] => i = j
                        /\ gtok'[Refresher] \in Ids => Unseen(gtok[Refresher])'
      BY <1>u, ZenonT(30) DEF OnceInv
    <2>g. gtok'[Refresher] = NoToken /\ \A w \in Senders : gtok'[w] = gtok[w]
      BY <1>g DEF TokenType, Callers
    <2>t. /\ t \in Ids /\ t # NoToken /\ Unseen(t)
          /\ \A i \in DOMAIN wire : wire[i] # t /\ Unseen(wire[i]) /\ wire[i] # NoToken
      BY <1>t, WireIssued DEF OnceInv, Issued, t
    <2>s. \A x : Unseen(x) => Unseen(x)'
      BY <1>u, <2>g, ZenonT(30) DEF Unseen
    <2>1. CASE wire' = wire
      BY <2>1, <2>g, <2>t, <2>s, TokenAssumption, ZenonT(30) DEF OnceInv
    <2>2. CASE wire' = Append(wire, t)
      <3>1. /\ DOMAIN wire' = DOMAIN wire \cup {Len(wire) + 1}
            /\ wire'[Len(wire) + 1] = t
            /\ \A i \in DOMAIN wire : wire'[i] = wire[i] /\ i # Len(wire) + 1
        BY <2>2, <1>t, WireIssued
      <3>2. \A i \in DOMAIN wire' : Unseen(wire'[i]) /\ wire'[i] # NoToken
        BY <3>1, <2>t, ZenonT(30)
      <3>3. \A i, j \in DOMAIN wire' : wire'[i] = wire'[j] => i = j
        BY <3>1, <2>t, ZenonT(30) DEF OnceInv
      <3> QED
        BY <3>2, <3>3, <2>g, <1>u, TokenAssumption, ZenonT(30) DEF Unseen
    <2> QED
      BY <2>1, <2>2, <1>w, ZenonT(30)
  <1>4. FreshInv'
    BY <1>u, <1>g, ZenonT(30) DEF TokenType, FreshInv, Callers
  <1>5. StaticInv'
    BY <1>u, <1>g, ZenonT(30) DEF StaticInv
  <1>6. NoLostWakeup'
    BY <1>u, <1>g, <1>l, TokenAssumption, ZenonT(30) DEF NoLostWakeup, Serves, StaticInv
  <1> QED
    BY <1>1, <1>2, <1>3, <1>4, <1>5, <1>6, ZenonT(30)

\* Every step of a sender, the refresher, the session loop, the issuer and the clock.
LEMMA TokenStep ==
    ASSUME TokenInv, [TokenNext]_tokenVars
    PROVE  TokenInv'
  <1>1. CASE \E c \in Callers : Get(c) \/ GiveUp(c)
    BY <1>1, GetStartStep, GetEndStep, GiveUpStep, ZenonT(30) DEF Get
  <1>2. CASE \E w \in Senders : Request(w) \/ BrokerTimeout(w)
    <2>1. PICK w \in Senders : Request(w) \/ BrokerTimeout(w)
      BY <1>2, ZenonT(30)
    <2>2. Accepted(w) => Returns(w, TRUE)
      BY ZenonT(30)  DEF Accepted
    <2>3. Surfaces(w) => Returns(w, FALSE)
      BY ZenonT(30)  DEF Surfaces
    <2> QED
      BY <2>1, <2>2, <2>3, BeginStep, SendStep, ReturnsStep, RetryStep, BrokerGetStep,
         BrokerTimeoutStep, ZenonT(30) DEF Request
  <1>3. CASE SendToken \/ Refresh \/ ReadFrame \/ Tick
    BY <1>3, SendTokenStep, RefreshStep, ReadFrameStep, TickStep, ZenonT(30)
  <1>4. CASE \E t \in Ids : Revoke(t)
    BY <1>4, RevokeStep, ZenonT(30)
  <1>5. CASE UNCHANGED tokenVars
    <2>1. UNCHANGED <<mode, creds, life, cache, gpc, gtok, wpc, first, btok, asleep, rpc, wire>>
      BY <1>5, ZenonT(30) DEF tokenVars, provider, sender, broker, session
    <2>2. TokenType /\ PlaceInv
      BY ZenonT(30) DEF TokenInv
    <2>3. PlaceInv'
      BY <2>1, <2>2, ZenonT(30) DEF PlaceInv, Issued
    <2> QED
      BY <2>1, <2>2, <2>3, TokensStay, ZenonT(30) DEF TokenType
  <1> QED
    BY <1>1, <1>2, <1>3, <1>4, <1>5, ZenonT(30) DEF TokenNext

\* TokenInv holds in every state, in local and in remote mode.
THEOREM TokenInvariance == TokenSpec => []TokenInv
  <1> QED
    BY TokenStart, TokenStep, PTL DEF TokenSpec

\* A request that is sent again after a 401 carries another token than the refused one,
\* whenever the provider can mint: Invalidate keeps the old one from coming back.
THEOREM RetriesAreFresh == TokenSpec => []RetryIsFresh
  <1>1. TokenInv => RetryIsFresh
    BY ZenonT(30) DEF TokenInv, FreshInv, RetryIsFresh
  <1> QED
    BY TokenInvariance, <1>1, PTL

\* Nobody sleeps in TokenBroker.Get while the broker has a token that serves: the check
\* and the choice of the channel are under one lock.
THEOREM NoWakeupLost == TokenSpec => []NoLostWakeup
  <1>1. TokenInv => NoLostWakeup
    BY ZenonT(30) DEF TokenInv
  <1> QED
    BY TokenInvariance, <1>1, PTL
=============================================================================
