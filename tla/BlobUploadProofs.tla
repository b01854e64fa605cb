-------------------------- MODULE BlobUploadProofs --------------------------
(***************************************************************************)
(* The registry upload of blob.go is an ordered byte sink for every chunk  *)
(* size and every length of blob and writes.                               *)
(***************************************************************************)
EXTENDS MCBlobUpload, TLAPS

\* A leaf that names no prover is given to the SMT solver, then to Zenon.
USE SMTT(30), ZenonT(30)

PatchRec == [arr : Nat, len : 0..ChunkSize, pos : 0..ChunkSize, loc : Nat,
             res : {"running", "sent", "failed"}, next : Nat]

TypeOK ==
    /\ mem \in Seq([1..ChunkSize -> Nat])
    /\ buf \in [arr : Nat, len : 0..ChunkSize] /\ buf.arr \in DOMAIN mem
    /\ loc \in Nat /\ todo \in Nat /\ accepted \in Nat
    /\ patches \in Seq(PatchRec)
    /\ session \in [loc : Nat, data : Seq(Nat), state : {"open", "blob", "gone"}]
    /\ pc \in {"idle", "write", "flush", "patch", "put", "abort"}

\* The PATCH started last, and where in the session its body begins.
Last == patches[Len(patches)]
LastLen == IF patches = <<>> THEN 0 ELSE Last.len
LastPos == IF patches = <<>> THEN 0 ELSE Last.pos
Delivered == patches = <<>> \/ Last.res = "sent"
Start == Len(session.data) - LastPos

\* The upload takes further calls, and those that may still start a PATCH.
Open == ~err /\ ~committed /\ ~aborted
Live == pc \in {"write", "flush"} \/ (pc = "idle" /\ Open)

\* Who may hold the upload, and which PATCH is still to be waited for.
Control ==
    /\ pc \in {"write", "flush", "patch", "put"} => Open
    /\ pc = "abort" => aborted /\ ~committed
    /\ inflight \in {0, Len(patches)}
    /\ Live => inflight = Len(patches) /\ spare = 0
    /\ \A i \in DOMAIN patches : i # Len(patches) => patches[i].res = "sent"
    /\ pc = "patch" => patches # <<>>
    /\ committed => pc = "idle"

\* What the session holds, and what the last PATCH has left to send.
Sent ==
    /\ Start \in Nat
    /\ Start + LastLen <= accepted
    /\ LastPos <= LastLen
    /\ Delivered => LastPos = LastLen
    /\ \A k \in 1..Len(session.data) : session.data[k] = k
    /\ patches # <<>> => /\ Last.arr \in DOMAIN mem
                         /\ \A k \in 1..LastLen : mem[Last.arr][k] = Start + k

\* What the buffer holds, while it may still be filled.
Buffered ==
    /\ Live => /\ accepted = Start + LastLen + buf.len
               /\ \A k \in 1..buf.len : mem[buf.arr][k] = Start + LastLen + k
               /\ patches # <<>> => Last.arr # buf.arr
    /\ pc = "patch" => accepted = Start + LastLen
    /\ pc = "put" \/ committed => Delivered /\ accepted = Len(session.data)

UploadInv == TypeOK /\ Control /\ Sent /\ Buffered

-----------------------------------------------------------------------------
\* An upload starts with an empty buffer and no PATCH.
LEMMA InitUploadInv == Init => UploadInv
<1> SUFFICES ASSUME Init PROVE UploadInv
    OBVIOUS
<1> USE BlobAssumption DEF Init
<1>1. TypeOK
    BY DEF TypeOK, FreshArray
<1>2. LastLen = 0 /\ LastPos = 0 /\ Delivered /\ Start = 0
    BY DEF LastLen, LastPos, Delivered, Start
<1>3. Control
    BY DEF Control
<1>4. Sent
    BY <1>2 DEF Sent
<1>5. Buffered
    BY <1>2 DEF Buffered
<1> QED BY <1>1, <1>3, <1>4, <1>5 DEF UploadInv

\* The last PATCH is one of the patches, and the counts are numbers.
LEMMA LastType ==
    ASSUME TypeOK
    PROVE  /\ Len(patches) \in Nat
           /\ patches # <<>> => /\ Len(patches) \in DOMAIN patches /\ Len(patches) # 0
                                /\ Last \in PatchRec
           /\ LastLen \in Nat /\ LastPos \in Nat
           /\ session.data \in Seq(Nat) /\ Len(session.data) \in Nat
           /\ Len(session.data) = Start + LastPos
<1> USE BlobAssumption
<1>1. /\ patches \in Seq(PatchRec) /\ Len(patches) \in Nat
      /\ DOMAIN patches = 1..Len(patches)
    BY DEF TypeOK
<1>2. ASSUME patches # <<>>
      PROVE  Len(patches) \in DOMAIN patches /\ Len(patches) # 0 /\ Last \in PatchRec
  <2>1. Len(patches) # 0
      BY <1>1, <1>2
  <2>2. Len(patches) \in 1..Len(patches)
      BY <1>1, <2>1
  <2> QED BY <1>1, <2>1, <2>2 DEF Last
<1>3. LastLen \in Nat /\ LastPos \in Nat
  <2>1. CASE patches = <<>>
      BY <2>1 DEF LastLen, LastPos
  <2>2. CASE patches # <<>>
    <3>1. Last.len \in 0..ChunkSize /\ Last.pos \in 0..ChunkSize
        BY <1>2, <2>2 DEF PatchRec
    <3> QED BY <3>1, <2>2 DEF LastLen, LastPos
  <2> QED BY <2>1, <2>2
<1>4. session.data \in Seq(Nat)
    BY DEF TypeOK
<1>5. Len(session.data) \in Nat
    BY <1>4
<1>6. Len(session.data) = Start + LastPos
    BY <1>3, <1>5 DEF Start
<1> QED BY <1>1, <1>2, <1>3, <1>4, <1>5, <1>6

\* waitFlush returned nil: the last PATCH was answered.
LEMMA WaitedFor ==
    ASSUME TypeOK, inflight = Len(patches), FlushOver, ~FlushFailed
    PROVE  Delivered
<1>1. CASE patches = <<>>
    BY <1>1 DEF Delivered
<1>2. CASE patches # <<>>
  <2>1. Len(patches) \in DOMAIN patches /\ Len(patches) # 0
      BY <1>2, LastType
  <2>2. Last.res \in {"running", "sent", "failed"}
      BY <1>2, LastType DEF PatchRec
  <2>3. Last.res # "running"
      BY <2>1 DEF FlushOver, Running, Last
  <2>4. Last.res # "failed"
      BY <2>1 DEF FlushFailed, Last
  <2> QED BY <2>2, <2>3, <2>4 DEF Delivered
<1> QED BY <1>1, <1>2

\* A call that moves on without touching memory, patches or the session's bytes.
LEMMA CallKeeps ==
    ASSUME UploadInv,
           UNCHANGED <<mem, patches, accepted>>, session'.data = session.data,
           TypeOK', Control',
           Live' => Live /\ buf' = buf,
           pc' = "patch" => pc = "patch",
           pc' = "put" \/ committed' => Delivered /\ accepted = Len(session.data)
    PROVE  UploadInv'
<1>1. TypeOK /\ Control /\ Sent /\ Buffered
    BY DEF UploadInv
<1>2. LastLen' = LastLen /\ LastPos' = LastPos /\ Last' = Last /\ Start' = Start
    BY DEF LastLen, LastPos, Last, Start
<1>3. Delivered' <=> Delivered
    BY DEF Delivered, Last
<1>4. Sent'
    BY <1>1, <1>2, <1>3 DEF Sent
<1>5. Live' => /\ accepted' = Start' + LastLen' + buf'.len
               /\ \A k \in 1..buf'.len : mem'[buf'.arr][k] = Start' + LastLen' + k
               /\ patches' # <<>> => Last'.arr # buf'.arr
    BY <1>1, <1>2 DEF Buffered
<1>6. /\ pc' = "patch" => accepted' = Start' + LastLen'
      /\ pc' = "put" \/ committed' => Delivered' /\ accepted' = Len(session'.data)
    BY <1>1, <1>2, <1>3 DEF Buffered
<1>7. Buffered'
    BY <1>5, <1>6 DEF Buffered
<1> QED BY <1>4, <1>7 DEF UploadInv

\* A PATCH started once the one before it is answered: it begins where the session
\* ends.
LEMMA NewPatch ==
    ASSUME UploadInv, Delivered,
           NEW p \in PatchRec, p.pos = 0, p.res = "running",
           patches' = Append(patches, p),
           UNCHANGED session
    PROVE  /\ patches' \in Seq(PatchRec) /\ patches' # <<>> /\ Len(patches') = Len(patches) + 1
           /\ \A i \in DOMAIN patches' : i # Len(patches') => patches'[i].res = "sent"
           /\ Last' = p /\ LastLen' = p.len /\ LastPos' = 0 /\ ~Delivered'
           /\ Start' = Start + LastLen /\ Start' = Len(session.data)
<1>1. TypeOK /\ Control /\ Sent /\ Buffered
    BY DEF UploadInv
<1>2. /\ patches' \in Seq(PatchRec) /\ Len(patches') = Len(patches) + 1 /\ patches' # <<>>
      /\ \A i \in DOMAIN patches : patches'[i] = patches[i]
      /\ patches'[Len(patches) + 1] = p
  <2>1. patches \in Seq(PatchRec)
      BY <1>1 DEF TypeOK
  <2> QED BY <2>1
<1>3. Last' = p /\ LastLen' = p.len /\ LastPos' = 0 /\ ~Delivered'
    BY <1>2 DEF Last, LastLen, LastPos, Delivered
<1>4. Start' = Start + LastLen /\ Start' = Len(session.data)
  <2>1. LastPos = LastLen
      BY <1>1 DEF Sent
  <2>2. Start' = Len(session.data) - 0
      BY <1>3 DEF Start
  <2> QED BY <2>1, <2>2, <1>1, LastType
<1>5. \A i \in DOMAIN patches' : i # Len(patches') => patches'[i].res = "sent"
  <2> SUFFICES ASSUME NEW i \in DOMAIN patches', i # Len(patches')
               PROVE  patches'[i].res = "sent"
      OBVIOUS
  <2>1. i \in DOMAIN patches /\ patches # <<>>
      BY <1>2, <1>1 DEF TypeOK
  <2>2. patches[i].res = "sent"
    <3>1. CASE i = Len(patches)
        BY <3>1, <2>1 DEF Delivered, Last
    <3>2. CASE i # Len(patches)
        BY <3>2, <2>1, <1>1 DEF Control
    <3> QED BY <3>1, <3>2
  <2> QED BY <2>1, <2>2, <1>2
<1> QED BY <1>2, <1>3, <1>4, <1>5

\* startFlush: the PATCH before is answered, so its array is free for the next bytes;
\* the full array is handed to the new PATCH.
LEMMA StartFlushKeeps ==
    ASSUME UploadInv, WriteFlushes
    PROVE  /\ UploadInv'
           /\ UNCHANGED <<accepted, session, err, committed, aborted>>
<1> USE BlobAssumption
<1> DEFINE p == Patch(buf.arr, buf.len, LocAfter)
<1>1. /\ TypeOK /\ Control /\ Sent /\ Buffered
      /\ mem \in Seq([1..ChunkSize -> Nat]) /\ Len(mem) \in Nat /\ DOMAIN mem = 1..Len(mem)
      /\ buf \in [arr : Nat, len : 0..ChunkSize] /\ buf.arr \in DOMAIN mem
      /\ buf.arr \in Nat /\ buf.len \in 0..ChunkSize
    BY DEF UploadInv, TypeOK
<1>2. /\ pc = "write" /\ FlushOver /\ ~FlushFailed
      /\ patches' = Append(patches, p)
      /\ loc' = LocAfter
      /\ spare' = 0 /\ inflight' = Len(patches) + 1
      /\ mem' = IF SpareAfter = 0 THEN Append(mem, FreshArray) ELSE mem
      /\ buf' = [arr |-> IF SpareAfter = 0 THEN Len(mem) + 1 ELSE SpareAfter, len |-> 0]
      /\ UNCHANGED <<pc, todo, accepted, session, err, committed, aborted>>
    BY DEF WriteFlushes, StartFlush
<1>3. /\ Live /\ inflight = Len(patches) /\ spare = 0 /\ Len(patches) \in Nat
      /\ accepted = Start + LastLen + buf.len
      /\ \A k \in 1..buf.len : mem[buf.arr][k] = Start + LastLen + k
      /\ patches # <<>> => Last.arr # buf.arr
    BY <1>1, <1>2, LastType DEF Control, Live, Buffered
<1>4. Delivered
    BY <1>1, <1>2, <1>3, WaitedFor
<1>5. LocAfter \in Nat
  <2>1. CASE inflight = 0
      BY <2>1, <1>1 DEF LocAfter, TypeOK
  <2>2. CASE inflight # 0
    <3>1. patches # <<>>
        BY <2>2, <1>3
    <3>2. Last.next \in Nat
        BY <3>1, <1>1, LastType DEF PatchRec
    <3> QED BY <2>2, <1>3, <3>2 DEF LocAfter, Last
  <2> QED BY <2>1, <2>2
<1>6. /\ p \in PatchRec /\ p.arr = buf.arr /\ p.len = buf.len /\ p.pos = 0
      /\ p.res = "running"
    BY <1>1, <1>5 DEF PatchRec, Patch
<1> HIDE DEF p
<1>7. /\ patches' \in Seq(PatchRec) /\ patches' # <<>> /\ Len(patches') = Len(patches) + 1
      /\ \A i \in DOMAIN patches' : i # Len(patches') => patches'[i].res = "sent"
      /\ Last' = p /\ LastLen' = p.len /\ LastPos' = 0 /\ ~Delivered'
      /\ Start' = Start + LastLen /\ Start' = Len(session.data)
    BY <1>2, <1>4, <1>6, NewPatch
<1>8. \/ /\ mem' = Append(mem, FreshArray) /\ buf' = [arr |-> Len(mem) + 1, len |-> 0]
      \/ /\ mem' = mem /\ patches # <<>> /\ buf' = [arr |-> Last.arr, len |-> 0]
  <2>1. CASE inflight = 0
      BY <2>1, <1>2, <1>3 DEF SpareAfter
  <2>2. CASE inflight # 0
    <3>1. patches # <<>> /\ SpareAfter = Last.arr
        BY <2>2, <1>3 DEF SpareAfter, Last
    <3>2. Last.arr # 0
        BY <3>1, <1>1 DEF Sent
    <3> QED BY <3>1, <3>2, <1>2
  <2> QED BY <2>1, <2>2
<1>9. /\ mem' \in Seq([1..ChunkSize -> Nat])
      /\ buf' \in [arr : Nat, len : 0..ChunkSize] /\ buf'.arr \in DOMAIN mem'
      /\ DOMAIN mem \subseteq DOMAIN mem'
      /\ \A a \in DOMAIN mem : mem'[a] = mem[a]
      /\ buf'.arr # buf.arr /\ buf'.len = 0
  <2>1. CASE mem' = Append(mem, FreshArray) /\ buf' = [arr |-> Len(mem) + 1, len |-> 0]
    <3>1. FreshArray \in [1..ChunkSize -> Nat]
        BY DEF FreshArray
    <3>2. /\ mem' \in Seq([1..ChunkSize -> Nat]) /\ Len(mem') = Len(mem) + 1
          /\ \A a \in 1..Len(mem) : mem'[a] = mem[a]
          /\ DOMAIN mem' = 1..Len(mem) + 1
      <4>1. mem \in Seq([1..ChunkSize -> Nat]) /\ mem' = Append(mem, FreshArray)
          BY <2>1, <1>1
      <4> QED BY <3>1, <4>1
    <3> QED BY <3>2, <2>1, <1>1
  <2>2. CASE mem' = mem /\ patches # <<>> /\ buf' = [arr |-> Last.arr, len |-> 0]
    <3>1. Last.arr \in DOMAIN mem /\ Last.arr # buf.arr
        BY <2>2, <1>1, <1>3 DEF Sent
    <3> QED BY <3>1, <2>2, <1>1
  <2> QED BY <2>1, <2>2, <1>8
<1>10. TypeOK'
    BY <1>1, <1>2, <1>5, <1>7, <1>9, ZenonT(30) DEF TypeOK
<1>11. Control'
    BY <1>1, <1>2, <1>7, ZenonT(30) DEF Control, Open
<1>12. Sent'
  <2>1. Start' \in Nat /\ Start' + LastLen' <= accepted' /\ LastPos' <= LastLen'
    <3>1. Start \in Nat /\ LastLen \in Nat /\ accepted = Start + LastLen + buf.len
        BY <1>1, <1>3, LastType DEF Sent
    <3> QED BY <3>1, <1>1, <1>2, <1>6, <1>7
  <2>2. Last'.arr \in DOMAIN mem'
      BY <1>1, <1>6, <1>7, <1>9, ZenonT(30)
  <2>3. \A k \in 1..LastLen' : mem'[Last'.arr][k] = Start' + k
    <3>1. mem'[Last'.arr] = mem[buf.arr] /\ LastLen' = buf.len /\ Start' = Start + LastLen
        BY <1>1, <1>6, <1>7, <1>9, ZenonT(30)
    <3> QED BY <3>1, <1>3
  <2>4. \A k \in 1..Len(session'.data) : session'.data[k] = k
      BY <1>1, <1>2, ZenonT(30) DEF Sent
  <2> QED BY <2>1, <2>2, <2>3, <2>4, <1>7 DEF Sent
<1>13. Buffered'
  <2>1. accepted' = Start' + LastLen' + buf'.len
    <3>1. /\ accepted' = accepted /\ LastLen' = buf.len /\ Start' = Start + LastLen
          /\ buf'.len = 0
        BY <1>2, <1>6, <1>7, <1>9, ZenonT(30)
    <3>2. accepted = Start + LastLen + buf.len /\ Start \in Nat /\ LastLen \in Nat
          /\ buf.len \in Nat
        BY <1>1, <1>3, LastType DEF Sent
    <3> QED BY <3>1, <3>2
  <2>2. Last'.arr # buf'.arr
      BY <1>6, <1>7, <1>9
  <2>3. \A k \in 1..buf'.len : mem'[buf'.arr][k] = Start' + LastLen' + k
      BY <1>9
  <2>4. pc' = "write" /\ ~committed'
      BY <1>2, <1>1 DEF Control, Open
  <2> QED BY <2>1, <2>2, <2>3, <2>4 DEF Buffered
<1> QED BY <1>2, <1>10, <1>11, <1>12, <1>13 DEF UploadInv

\* flush in the calling goroutine: the buffer's own array is sent, and not touched
\* until the answer.
LEMMA FlushSendsKeeps ==
    ASSUME UploadInv, FlushSends
    PROVE  /\ UploadInv'
           /\ UNCHANGED <<accepted, session, err, committed, aborted>>
<1> USE BlobAssumption
<1> DEFINE p == Patch(buf.arr, buf.len, LocAfter)
<1>1. /\ TypeOK /\ Control /\ Sent /\ Buffered
      /\ buf \in [arr : Nat, len : 0..ChunkSize] /\ buf.arr \in DOMAIN mem
      /\ buf.arr \in Nat /\ buf.len \in 0..ChunkSize
    BY DEF UploadInv, TypeOK
<1>2. /\ pc = "flush" /\ FlushOver /\ ~FlushFailed
      /\ loc' = LocAfter /\ inflight' = 0
      /\ UNCHANGED <<mem, buf, todo, accepted, session, err, committed, aborted>>
    BY DEF FlushSends
<1>3. /\ Live /\ inflight = Len(patches) /\ Len(patches) \in Nat
      /\ accepted = Start + LastLen + buf.len
      /\ \A k \in 1..buf.len : mem[buf.arr][k] = Start + LastLen + k
      /\ ~committed
    BY <1>1, <1>2, LastType DEF Control, Live, Buffered, Open
<1>4. Delivered
    BY <1>1, <1>2, <1>3, WaitedFor
<1>5. LocAfter \in Nat
  <2>1. CASE inflight = 0
      BY <2>1, <1>1 DEF LocAfter, TypeOK
  <2>2. CASE inflight # 0
    <3>1. patches # <<>>
        BY <2>2, <1>3
    <3>2. Last.next \in Nat
        BY <3>1, <1>1, LastType DEF PatchRec
    <3> QED BY <2>2, <1>3, <3>2 DEF LocAfter, Last
  <2> QED BY <2>1, <2>2
<1>6. CASE buf.len = 0
  <2>1. pc' = "put" /\ patches' = patches
      BY <1>6 DEF FlushSends
  <2>2. TypeOK'
      BY <1>1, <1>2, <1>5, <2>1 DEF TypeOK
  <2>3. Control'
      BY <1>1, <1>2, <2>1 DEF Control, Open, Live
  <2>4. accepted = Len(session.data)
    <3>1. LastPos = LastLen
        BY <1>1, <1>4 DEF Sent
    <3> QED BY <3>1, <1>3, <1>6, <1>1, LastType DEF Sent
  <2>5. UploadInv'
      BY <1>2, <1>4, <2>1, <2>2, <2>3, <2>4, CallKeeps DEF Live
  <2> QED BY <1>2, <2>5
<1>7. CASE buf.len # 0
  <2>1. /\ pc' = "patch" /\ patches' = Append(patches, p)
      BY <1>7 DEF FlushSends
  <2>2. /\ p \in PatchRec /\ p.arr = buf.arr /\ p.len = buf.len /\ p.pos = 0
        /\ p.res = "running"
      BY <1>1, <1>5 DEF PatchRec, Patch
  <2> HIDE DEF p
  <2>3. /\ patches' \in Seq(PatchRec) /\ patches' # <<>> /\ Len(patches') = Len(patches) + 1
        /\ \A i \in DOMAIN patches' : i # Len(patches') => patches'[i].res = "sent"
        /\ Last' = p /\ LastLen' = p.len /\ LastPos' = 0 /\ ~Delivered'
        /\ Start' = Start + LastLen /\ Start' = Len(session.data)
      BY <1>2, <1>4, <2>1, <2>2, NewPatch
  <2>4. TypeOK'
      BY <1>1, <1>2, <1>5, <2>1, <2>3 DEF TypeOK
  <2>5. Control'
      BY <1>1, <1>2, <2>1, <2>3 DEF Control, Open, Live
  <2>6. accepted' = Start' + LastLen'
      BY <1>2, <1>3, <2>2, <2>3
  <2>7. Sent'
    <3>1. Start' \in Nat /\ Start' + LastLen' <= accepted' /\ LastPos' <= LastLen'
        BY <1>1, <1>2, <2>2, <2>3, <2>6, LastType DEF TypeOK
    <3>2. Last'.arr \in DOMAIN mem'
        BY <1>1, <1>2, <2>2, <2>3
    <3>3. \A k \in 1..LastLen' : mem'[Last'.arr][k] = Start' + k
        BY <1>2, <1>3, <2>2, <2>3
    <3>4. \A k \in 1..Len(session'.data) : session'.data[k] = k
        BY <1>1, <1>2 DEF Sent
    <3> QED BY <3>1, <3>2, <3>3, <3>4, <2>3 DEF Sent
  <2>8. Buffered'
      BY <1>2, <1>3, <2>1, <2>6 DEF Buffered, Live
  <2> QED BY <1>2, <2>4, <2>5, <2>7, <2>8 DEF UploadInv
<1> QED BY <1>6, <1>7

\* Write's append fills the free end of the buffer, which no PATCH reads.
LEMMA WriteCopiesKeeps ==
    ASSUME UploadInv, WriteCopies
    PROVE  /\ UploadInv'
           /\ accepted' \in Nat /\ accepted' >= accepted
           /\ UNCHANGED <<session, err, committed, aborted>>
<1> USE BlobAssumption
<1> DEFINE n == least(todo, ChunkSize - buf.len)
<1>1. /\ TypeOK /\ Control /\ Sent /\ Buffered
      /\ mem \in Seq([1..ChunkSize -> Nat]) /\ DOMAIN mem = 1..Len(mem)
      /\ buf \in [arr : Nat, len : 0..ChunkSize] /\ buf.arr \in DOMAIN mem
      /\ buf.len \in 0..ChunkSize /\ todo \in Nat /\ accepted \in Nat
    BY DEF UploadInv, TypeOK
<1>0. buf.len \in Nat /\ buf.len <= ChunkSize /\ todo \in Nat /\ accepted \in Nat
    BY <1>1
<1>2. /\ buf.len < ChunkSize /\ pc = "write"
      /\ n \in Nat /\ n <= todo /\ n <= ChunkSize - buf.len
  <2>1. buf.len < ChunkSize /\ pc = "write"
      BY DEF WriteCopies
  <2> QED BY <2>1, <1>0 DEF least
<1>3. /\ mem' = [mem EXCEPT ![buf.arr] =
                   [i \in 1..ChunkSize |-> IF i \in buf.len + 1 .. buf.len + n
                                           THEN accepted + i - buf.len ELSE mem[buf.arr][i]]]
      /\ buf' = [buf EXCEPT !.len = buf.len + n]
      /\ accepted' = accepted + n
      /\ todo' = todo - n
      /\ pc' \in {"idle", "write"}
      /\ UNCHANGED <<spare, inflight, loc, patches, session>>
      /\ UNCHANGED <<err, committed, aborted>>
    BY DEF WriteCopies
<1> HIDE DEF n
<1>4. /\ buf'.arr = buf.arr /\ buf'.len = buf.len + n
      /\ buf' \in [arr : Nat, len : 0..ChunkSize]
  <2>1. buf.len + n \in 0..ChunkSize
      BY <1>0, <1>2
  <2> QED BY <1>1, <1>3, <2>1, ZenonT(30)
<1>5. /\ LastLen' = LastLen /\ LastPos' = LastPos /\ Last' = Last /\ Start' = Start
      /\ LastLen \in Nat /\ Start \in Nat
    BY <1>3, <1>1, LastType DEF LastLen, LastPos, Last, Start, Sent
<1>6. Delivered' <=> Delivered
    BY <1>3 DEF Delivered, Last
<1>7. /\ Live /\ accepted = Start + LastLen + buf.len
      /\ \A k \in 1..buf.len : mem[buf.arr][k] = Start + LastLen + k
      /\ patches # <<>> => Last.arr # buf.arr
      /\ Open /\ ~committed
    BY <1>1, <1>2 DEF Control, Live, Buffered, Open
<1>8. /\ DOMAIN mem' = DOMAIN mem
      /\ \A a \in DOMAIN mem : a # buf.arr => mem'[a] = mem[a]
      /\ \A k \in 1..ChunkSize : mem'[buf.arr][k] = IF k \in buf.len + 1 .. buf.len + n
                                                    THEN accepted + k - buf.len
                                                    ELSE mem[buf.arr][k]
    BY <1>1, <1>3
<1>9. mem' \in Seq([1..ChunkSize -> Nat])
  <2>1. \A i \in 1..ChunkSize : mem[buf.arr][i] \in Nat
      BY <1>1
  <2>2. \A i \in buf.len + 1 .. buf.len + n : accepted + i - buf.len \in Nat
      BY <1>0, <1>2
  <2>3. [i \in 1..ChunkSize |-> IF i \in buf.len + 1 .. buf.len + n
                                THEN accepted + i - buf.len ELSE mem[buf.arr][i]]
           \in [1..ChunkSize -> Nat]
      BY <2>1, <2>2
  <2> QED BY <1>1, <1>3, <2>3
<1>10. TypeOK'
  <2>1. todo' \in Nat /\ accepted' \in Nat
      BY <1>0, <1>2, <1>3
  <2> QED BY <2>1, <1>1, <1>3, <1>4, <1>8, <1>9, ZenonT(30) DEF TypeOK
<1>11. Control'
    BY <1>1, <1>2, <1>3, <1>7, ZenonT(30) DEF Control, Open, Live
<1>12. Sent'
  <2>1. Start' + LastLen' <= accepted'
    <3>1. accepted' = accepted + n /\ accepted = Start + LastLen + buf.len
        BY <1>3, <1>7
    <3> QED BY <3>1, <1>0, <1>2, <1>5
  <2>2. patches' # <<>> => /\ Last'.arr \in DOMAIN mem'
                           /\ \A k \in 1..LastLen' : mem'[Last'.arr][k] = Start' + k
      BY <1>1, <1>3, <1>5, <1>7, <1>8 DEF Sent
  <2> QED BY <2>1, <2>2, <1>1, <1>3, <1>5, <1>6, ZenonT(30) DEF Sent
<1>13. \A k \in 1..buf'.len : mem'[buf'.arr][k] = Start' + LastLen' + k
  <2> SUFFICES ASSUME NEW k \in 1..buf'.len
               PROVE  mem'[buf'.arr][k] = Start' + LastLen' + k
      OBVIOUS
  <2>1. k \in 1..ChunkSize /\ k \in Nat
      BY <1>4, <1>1
  <2>2. CASE k \in buf.len + 1 .. buf.len + n
    <3>1. mem'[buf'.arr][k] = accepted + k - buf.len
        BY <2>1, <2>2, <1>4, <1>8
    <3> QED BY <3>1, <2>1, <1>5, <1>7, <1>1
  <2>3. CASE k \notin buf.len + 1 .. buf.len + n
    <3>1. k \in 1..buf.len
        BY <2>3, <2>1, <1>4, <1>1, <1>2
    <3>2. mem'[buf'.arr][k] = mem[buf.arr][k]
        BY <2>1, <2>3, <1>4, <1>8
    <3> QED BY <3>1, <3>2, <1>5, <1>7
  <2> QED BY <2>2, <2>3
<1>14. Buffered'
  <2>1. accepted' = Start' + LastLen' + buf'.len
    <3>1. accepted' = accepted + n /\ accepted = Start + LastLen + buf.len
        BY <1>3, <1>7
    <3> QED BY <3>1, <1>0, <1>2, <1>4, <1>5
  <2>2. patches' # <<>> => Last'.arr # buf'.arr
      BY <1>3, <1>4, <1>5, <1>7
  <2>3. pc' \notin {"patch", "put"} /\ ~committed'
      BY <1>3, <1>7
  <2> QED BY <2>1, <2>2, <2>3, <1>13 DEF Buffered
<1> QED BY <1>0, <1>2, <1>3, <1>10, <1>11, <1>12, <1>14 DEF UploadInv

\* Only the last PATCH can be running, and then the upload is not committed.
LEMMA RunningIsLast ==
    ASSUME UploadInv, NEW i \in DOMAIN patches, patches[i].res = "running"
    PROVE  /\ i = Len(patches) /\ patches # <<>> /\ patches[i] = Last /\ patches[i] \in PatchRec
           /\ ~Delivered /\ pc # "put" /\ ~committed
<1>1. TypeOK /\ Control /\ Buffered
    BY DEF UploadInv
<1>2. i = Len(patches) /\ patches # <<>>
    BY <1>1 DEF Control, TypeOK
<1>3. patches[i] = Last /\ patches[i] \in PatchRec
    BY <1>2, <1>1, LastType DEF Last
<1>4. ~Delivered
    BY <1>2, <1>3 DEF Delivered
<1> QED BY <1>1, <1>2, <1>3, <1>4 DEF Buffered

\* The record of the last PATCH replaced by one with the same array and length.
LEMMA LastReplaced ==
    ASSUME UploadInv, NEW i \in DOMAIN patches, patches[i].res = "running",
           NEW s \in PatchRec, s.arr = Last.arr, s.len = Last.len,
           patches' = [patches EXCEPT ![i] = s],
           UNCHANGED client
    PROVE  /\ patches' \in Seq(PatchRec) /\ patches' # <<>>
           /\ Control'
           /\ Last' = s /\ LastLen' = LastLen /\ LastPos' = s.pos /\ LastPos = Last.pos
           /\ LastLen = s.len
           /\ Delivered' <=> s.res = "sent"
           /\ Live' <=> Live
<1>1. TypeOK /\ Control /\ patches \in Seq(PatchRec)
    BY DEF UploadInv, TypeOK
<1>2. i = Len(patches) /\ patches # <<>>
    BY RunningIsLast
<1>3. /\ patches' \in Seq(PatchRec) /\ Len(patches') = Len(patches) /\ patches' # <<>>
      /\ DOMAIN patches' = DOMAIN patches
      /\ \A j \in DOMAIN patches : j # i => patches'[j] = patches[j]
      /\ patches'[i] = s
    BY <1>1, <1>2
<1>4. /\ Last' = s /\ LastLen' = LastLen /\ LastPos' = s.pos /\ LastPos = Last.pos
      /\ LastLen = s.len
    BY <1>2, <1>3 DEF Last, LastLen, LastPos
<1>5. Delivered' <=> s.res = "sent"
    BY <1>3, <1>4 DEF Delivered
<1>6. Live' <=> Live
    BY DEF Live, Open, client
<1>7. \A j \in DOMAIN patches' : j # Len(patches') => patches'[j].res = "sent"
    BY <1>1, <1>2, <1>3 DEF Control
<1>8. UNCHANGED <<pc, inflight, spare, err, committed, aborted>>
    BY DEF client
<1>9. Control'
    BY <1>1, <1>3, <1>6, <1>7, <1>8 DEF Control, Open
<1> QED BY <1>3, <1>4, <1>5, <1>6, <1>9

\* The records of a PATCH after a step of it.
LEMMA PatchMoved ==
    ASSUME NEW q \in PatchRec, NEW n \in 0..ChunkSize
    PROVE  LET s == [q EXCEPT !.pos = n]
           IN  /\ s \in PatchRec /\ s.arr = q.arr /\ s.len = q.len
               /\ s.pos = n /\ s.res = q.res
    BY DEF PatchRec

\* A PATCH that fails keeps its array and what it has sent.
LEMMA PatchFailed ==
    ASSUME NEW q \in PatchRec
    PROVE  LET s == [q EXCEPT !.res = "failed"]
           IN  /\ s \in PatchRec /\ s.arr = q.arr /\ s.len = q.len
               /\ s.pos = q.pos /\ s.res = "failed"
    BY DEF PatchRec

\* So does one the registry acknowledges.
LEMMA PatchDone ==
    ASSUME NEW q \in PatchRec, NEW l \in Nat
    PROVE  LET s == [q EXCEPT !.res = "sent", !.next = l]
           IN  /\ s \in PatchRec /\ s.arr = q.arr /\ s.len = q.len
               /\ s.pos = q.pos
    BY ZenonT(30) DEF PatchRec

\* One byte of the body arrives: it is the one the session lacks.
LEMMA PatchSendsKeeps ==
    ASSUME UploadInv, NEW i \in DOMAIN patches, PatchSends(i)
    PROVE  /\ UploadInv'
           /\ Len(session.data) < accepted
           /\ session'.data = Append(session.data, Len(session.data) + 1)
           /\ ~committed /\ UNCHANGED <<accepted, err, committed, aborted>>
<1> USE BlobAssumption
<1> DEFINE s == [Last EXCEPT !.pos = Last.pos + 1]
<1>1. /\ TypeOK /\ Sent /\ Buffered
      /\ session \in [loc : Nat, data : Seq(Nat), state : {"open", "blob", "gone"}]
    BY DEF UploadInv, TypeOK
<1>2. /\ patches[i].res = "running" /\ patches[i].pos < patches[i].len
      /\ patches' = [patches EXCEPT ![i].pos = @ + 1]
      /\ session' = [session EXCEPT
                       !.data = Append(@, mem[patches[i].arr][patches[i].pos + 1])]
      /\ UNCHANGED client
    BY DEF PatchSends
<1>3. /\ i = Len(patches) /\ patches # <<>> /\ patches[i] = Last /\ Last \in PatchRec
      /\ ~Delivered /\ pc # "put" /\ ~committed
    BY <1>2, RunningIsLast
<1>4. /\ Last.pos \in 0..ChunkSize /\ Last.len \in 0..ChunkSize /\ Last.pos < Last.len
    BY <1>2, <1>3 DEF PatchRec
<1>5. /\ s \in PatchRec /\ s.arr = Last.arr /\ s.len = Last.len
      /\ s.pos = Last.pos + 1 /\ s.res # "sent"
  <2>1. Last.pos + 1 \in 0..ChunkSize
      BY <1>4
  <2> QED BY <2>1, <1>2, <1>3, PatchMoved
<1>6. patches' = [patches EXCEPT ![i] = s]
    BY <1>2, <1>3
<1> HIDE DEF s
<1>7. /\ patches' \in Seq(PatchRec) /\ patches' # <<>> /\ Control' /\ Last'.arr = Last.arr
      /\ LastLen' = LastLen /\ LastPos' = LastPos + 1 /\ LastPos = Last.pos
      /\ LastLen = Last.len /\ ~Delivered'
  <2>1. /\ patches' \in Seq(PatchRec) /\ patches' # <<>> /\ Control'
        /\ Last' = s /\ LastLen' = LastLen /\ LastPos' = s.pos /\ LastPos = Last.pos
        /\ LastLen = s.len
        /\ Delivered' <=> s.res = "sent"
    <3>1. patches[i].res = "running" /\ UNCHANGED client
        BY <1>2
    <3> QED BY <3>1, <1>5, <1>6, LastReplaced, ZenonT(30)
  <2> QED BY <2>1, <1>5
<1>8. Live' <=> Live
    BY <1>2 DEF Live, Open, client
<1>9. /\ Start \in Nat /\ Start + LastLen <= accepted /\ Len(session.data) = Start + LastPos
      /\ LastLen \in Nat /\ LastPos \in Nat /\ accepted \in Nat /\ LastPos < LastLen
    BY <1>1, <1>4, <1>7, LastType DEF Sent, TypeOK
<1>10. mem[patches[i].arr][patches[i].pos + 1] = Len(session.data) + 1
  <2>1. Last.pos + 1 \in 1..LastLen
      BY <1>4, <1>7
  <2>2. mem[Last.arr][Last.pos + 1] = Start + (Last.pos + 1)
      BY <1>1, <1>3, <2>1 DEF Sent
  <2>3. Start + (Last.pos + 1) = Len(session.data) + 1
      BY <1>7, <1>9
  <2> QED BY <1>3, <2>2, <2>3
<1>11. session' = [session EXCEPT !.data = Append(session.data, Len(session.data) + 1)]
    BY <1>2, <1>10
<1>12. /\ session'.data = Append(session.data, Len(session.data) + 1)
       /\ session.data \in Seq(Nat)
       /\ session' \in [loc : Nat, data : Seq(Nat), state : {"open", "blob", "gone"}]
  <2>1. session.data \in Seq(Nat)
      BY <1>1
  <2>2. Append(session.data, Len(session.data) + 1) \in Seq(Nat)
      BY <2>1
  <2> QED BY <2>1, <2>2, <1>1, <1>11, ZenonT(30)
<1>13. /\ Len(session'.data) = Len(session.data) + 1
       /\ \A k \in 1..Len(session.data) : session'.data[k] = session.data[k]
       /\ session'.data[Len(session.data) + 1] = Len(session.data) + 1
    BY <1>12
<1>14. Start' = Start
  <2>1. Start' = Len(session'.data) - LastPos'
      BY DEF Start
  <2>2. Len(session'.data) = Len(session.data) + 1
      BY <1>13
  <2> QED BY <2>1, <2>2, <1>7, <1>9
<1>15. UNCHANGED <<mem, buf, spare, inflight, loc, pc, todo, accepted>>
    BY <1>2 DEF client
<1>16. Sent'
  <2>1. \A k \in 1..Len(session'.data) : session'.data[k] = k
    <3> SUFFICES ASSUME NEW k \in 1..Len(session'.data) PROVE session'.data[k] = k
        OBVIOUS
    <3>1. CASE k = Len(session.data) + 1
        BY <3>1, <1>13
    <3>2. CASE k # Len(session.data) + 1
      <4>1. k \in 1..Len(session.data)
          BY <3>2, <1>13, <1>12
      <4> QED BY <4>1, <1>13, <1>1, ZenonT(30) DEF Sent
    <3> QED BY <3>1, <3>2
  <2>2. LastPos' <= LastLen' /\ Start' + LastLen' <= accepted' /\ Start' \in Nat
      BY <1>7, <1>9, <1>14, <1>15
  <2>3. /\ Last'.arr \in DOMAIN mem'
        /\ \A k \in 1..LastLen' : mem'[Last'.arr][k] = Start' + k
      BY <1>1, <1>3, <1>7, <1>14, <1>15 DEF Sent
  <2> QED BY <2>1, <2>2, <2>3, <1>7 DEF Sent
<1>17. TypeOK'
    BY <1>1, <1>7, <1>12, <1>15 DEF TypeOK
<1>18. UNCHANGED <<err, committed, aborted>>
    BY <1>2 DEF client
<1>19. Buffered'
  <2>1. Live' => /\ accepted' = Start' + LastLen' + buf'.len
                 /\ \A k \in 1..buf'.len : mem'[buf'.arr][k] = Start' + LastLen' + k
                 /\ Last'.arr # buf'.arr
      BY <1>1, <1>3, <1>7, <1>8, <1>14, <1>15 DEF Buffered
  <2>2. pc' = "patch" => accepted' = Start' + LastLen'
      BY <1>1, <1>7, <1>14, <1>15 DEF Buffered
  <2>3. pc' # "put" /\ ~committed'
      BY <1>3, <1>15, <1>18
  <2> QED BY <2>1, <2>2, <2>3 DEF Buffered
<1>20. Len(session.data) < accepted
    BY <1>9
<1> QED BY <1>3, <1>7, <1>12, <1>15, <1>16, <1>17, <1>18, <1>19, <1>20 DEF UploadInv

\* A PATCH that is answered or fails leaves the bytes where they are; only one
\* whose whole body arrived is answered.
LEMMA PatchEndsKeeps ==
    ASSUME UploadInv, NEW i \in DOMAIN patches, PatchAnswered(i) \/ PatchFails(i)
    PROVE  /\ UploadInv'
           /\ UNCHANGED <<accepted, err, committed, aborted>> /\ session'.data = session.data
<1> USE BlobAssumption
<1>1. /\ TypeOK /\ Sent /\ Buffered
      /\ session \in [loc : Nat, data : Seq(Nat), state : {"open", "blob", "gone"}]
    BY DEF UploadInv, TypeOK
<1>2. patches[i].res = "running" /\ UNCHANGED client
    BY DEF PatchAnswered, PatchFails
<1>3. /\ i = Len(patches) /\ patches # <<>> /\ patches[i] = Last /\ Last \in PatchRec
      /\ ~Delivered /\ pc # "put" /\ ~committed
    BY <1>2, RunningIsLast
<1>4. \E s \in PatchRec : /\ patches' = [patches EXCEPT ![i] = s]
                          /\ s.arr = Last.arr /\ s.len = Last.len /\ s.pos = Last.pos
                          /\ s.res = "sent" => Last.pos = Last.len
  <2>1. session.loc \in Nat
      BY <1>1
  <2>2. CASE patches' = [patches EXCEPT ![i].res = "failed"]
    <3>1. patches' = [patches EXCEPT ![i] = [Last EXCEPT !.res = "failed"]]
        BY <2>2, <1>3
    <3> DEFINE s == [Last EXCEPT !.res = "failed"]
    <3>2. /\ s \in PatchRec /\ s.arr = Last.arr /\ s.len = Last.len
          /\ s.pos = Last.pos /\ s.res = "failed"
        BY <1>3, PatchFailed
    <3>3. patches' = [patches EXCEPT ![i] = s]
        BY <3>1
    <3> HIDE DEF s
    <3> QED BY <3>2, <3>3, ZenonT(30)
  <2>3. CASE /\ Last.pos = Last.len
             /\ patches' = [patches EXCEPT ![i].res = "sent", ![i].next = session.loc + 1]
    <3> DEFINE l == session.loc + 1
               s == [Last EXCEPT !.res = "sent", !.next = l]
    <3>1. patches' = [patches EXCEPT ![i] = s]
        BY <2>3, <1>3, ZenonT(30)
    <3>2. l \in Nat /\ Last \in PatchRec
        BY <2>1, <1>3
    <3> HIDE DEF l
    <3>3. s \in PatchRec /\ s.arr = Last.arr /\ s.len = Last.len /\ s.pos = Last.pos
        BY <3>2, PatchDone, ZenonT(30)
    <3> HIDE DEF s
    <3> QED BY <3>1, <3>3, <2>3, ZenonT(30)
  <2> QED BY <2>2, <2>3, <1>3 DEF PatchAnswered, PatchFails
<1>5. PICK s \in PatchRec : /\ patches' = [patches EXCEPT ![i] = s]
                            /\ s.arr = Last.arr /\ s.len = Last.len /\ s.pos = Last.pos
                            /\ s.res = "sent" => Last.pos = Last.len
    BY <1>4, ZenonT(30)
<1>6. /\ patches' \in Seq(PatchRec) /\ patches' # <<>> /\ Control' /\ Last'.arr = Last.arr
      /\ LastLen' = LastLen /\ LastPos' = LastPos /\ LastPos = Last.pos /\ LastLen = Last.len
    BY <1>2, <1>5, LastReplaced, ZenonT(30)
<1>7. Delivered' => LastPos = LastLen
    BY <1>2, <1>5, <1>6, LastReplaced, ZenonT(30)
<1>8. Live' <=> Live
    BY <1>2 DEF Live, Open, client
<1>9. /\ session'.data = session.data
      /\ session' \in [loc : Nat, data : Seq(Nat), state : {"open", "blob", "gone"}]
    BY <1>1 DEF PatchAnswered, PatchFails
<1>10. Start' = Start
    BY <1>6, <1>9 DEF Start
<1>11. UNCHANGED <<mem, buf, spare, inflight, loc, pc, todo, accepted>>
    BY <1>2 DEF client
<1>12. UNCHANGED <<err, committed, aborted>>
    BY <1>2 DEF client
<1>13. TypeOK'
    BY <1>1, <1>6, <1>9, <1>11 DEF TypeOK
<1>14. Sent'
    BY <1>1, <1>3, <1>6, <1>7, <1>9, <1>10, <1>11 DEF Sent
<1>15. Buffered'
  <2>1. Live' => /\ accepted' = Start' + LastLen' + buf'.len
                 /\ \A k \in 1..buf'.len : mem'[buf'.arr][k] = Start' + LastLen' + k
                 /\ Last'.arr # buf'.arr
      BY <1>1, <1>3, <1>6, <1>8, <1>10, <1>11 DEF Buffered
  <2>2. pc' = "patch" => accepted' = Start' + LastLen'
      BY <1>1, <1>6, <1>10, <1>11 DEF Buffered
  <2>3. pc' # "put" /\ ~committed'
      BY <1>3, <1>11, <1>12
  <2> QED BY <2>1, <2>2, <2>3 DEF Buffered
<1> QED BY <1>6, <1>9, <1>11, <1>12, <1>13, <1>14, <1>15 DEF UploadInv

\* The calls and the returns that leave the bytes where they are.
Quiet ==
    \/ \E n \in 1..MaxWrite : Write(n)
    \/ Commit \/ Abort
    \/ WriteFails \/ FlushFails \/ FlushReturns
    \/ PutFinal \/ PutFinalFails
    \/ AbortDeletes

\* The abstract sink stands still, fails, or ends with everything delivered.
PhaseStep ==
    \/ SinkPhase' = SinkPhase
    \/ SinkPhase = "open" /\ SinkPhase' = "failed"
    \/ SinkPhase = "open" /\ SinkPhase' = "done" /\ Len(session.data) = accepted

\* The steps that neither take nor send a byte: for the sink a stutter, an end or a failure.
LEMMA QuietKeeps ==
    ASSUME UploadInv, Quiet
    PROVE  /\ UploadInv' /\ PhaseStep
           /\ accepted' = accepted /\ session'.data = session.data
<1> USE BlobAssumption
<1>1. /\ TypeOK /\ Control /\ Sent /\ Buffered
      /\ session \in [loc : Nat, data : Seq(Nat), state : {"open", "blob", "gone"}]
      /\ buf \in [arr : Nat, len : 0..ChunkSize] /\ todo \in Nat
    BY DEF UploadInv, TypeOK
<1>2. CASE \E n \in 1..MaxWrite : Write(n)
  <2>1. /\ UNCHANGED <<mem, buf, spare, inflight, loc, accepted, patches, session>>
        /\ pc = "idle" /\ pc' = "write" /\ todo' \in Nat
      BY <1>2 DEF Write
  <2>2. Open /\ UNCHANGED <<err, committed, aborted>>
      BY <1>2 DEF Write, Open
  <2>3. TypeOK'
      BY <1>1, <2>1 DEF TypeOK
  <2>4. Control'
      BY <1>1, <2>1, <2>2 DEF Control, Open, Live
  <2>5. UploadInv'
      BY <2>1, <2>2, <2>3, <2>4, CallKeeps DEF Live, Open
  <2> QED BY <2>1, <2>2, <2>5 DEF PhaseStep, SinkPhase
<1>3. CASE Commit
  <2>1. /\ UNCHANGED <<mem, buf, spare, inflight, loc, todo, accepted, patches, session>>
        /\ pc = "idle" /\ pc' = "flush"
      BY <1>3 DEF Commit
  <2>2. Open /\ UNCHANGED <<err, committed, aborted>>
      BY <1>3 DEF Commit, Open
  <2>3. TypeOK'
      BY <1>1, <2>1 DEF TypeOK
  <2>4. Control'
      BY <1>1, <2>1, <2>2 DEF Control, Open, Live
  <2>5. UploadInv'
      BY <2>1, <2>2, <2>3, <2>4, CallKeeps DEF Live, Open
  <2> QED BY <2>1, <2>2, <2>5 DEF PhaseStep, SinkPhase
<1>4. CASE Abort
  <2>1. /\ UNCHANGED <<mem, buf, spare, inflight, loc, todo, accepted, patches, session>>
        /\ pc = "idle" /\ pc' = "abort"
      BY <1>4 DEF Abort
  <2>2. ~committed /\ ~aborted /\ aborted' /\ UNCHANGED <<err, committed>>
      BY <1>4 DEF Abort
  <2>3. TypeOK'
      BY <1>1, <2>1 DEF TypeOK
  <2>4. Control'
      BY <1>1, <2>1, <2>2 DEF Control, Open, Live
  <2>5. UploadInv'
      BY <2>1, <2>2, <2>3, <2>4, CallKeeps DEF Live, Open
  <2> QED BY <2>1, <2>2, <2>5 DEF PhaseStep, SinkPhase
<1>5. CASE WriteFails \/ FlushFails
  <2>1. /\ UNCHANGED <<mem, buf, loc, accepted, patches, session>>
        /\ inflight' = 0 /\ pc \in {"write", "flush"} /\ pc' = "idle" /\ todo' \in Nat
      BY <1>1, <1>5 DEF WriteFails, FlushFails, WaitFails
  <2>2. Open /\ err' /\ UNCHANGED <<committed, aborted>>
      BY <1>1, <1>5 DEF WriteFails, FlushFails, WaitFails, Control
  <2>3. TypeOK'
      BY <1>1, <2>1 DEF TypeOK
  <2>4. Control'
      BY <1>1, <2>1, <2>2 DEF Control, Open, Live
  <2>5. UploadInv'
      BY <2>1, <2>2, <2>3, <2>4, CallKeeps DEF Live, Open
  <2> QED BY <2>1, <2>2, <2>5 DEF PhaseStep, SinkPhase, Open
<1>6. CASE FlushReturns
  <2>1. /\ UNCHANGED <<mem, spare, inflight, todo, accepted, patches, session>>
        /\ pc = "patch"
        /\ UNCHANGED <<committed, aborted>>
      BY <1>6 DEF FlushReturns
  <2>2. Open /\ patches # <<>>
      BY <1>1, <2>1 DEF Control
  <2>3. CASE Last.res = "failed"
    <3>1. /\ pc' = "idle" /\ loc' = loc /\ buf' = buf
          /\ err'
        BY <1>6, <2>3 DEF FlushReturns, Last
    <3>2. TypeOK'
        BY <1>1, <2>1, <3>1 DEF TypeOK
    <3>3. Control'
        BY <1>1, <2>1, <2>2, <3>1 DEF Control, Open, Live
    <3>4. UploadInv'
        BY <2>1, <2>2, <3>1, <3>2, <3>3, CallKeeps DEF Live, Open
    <3> QED BY <2>1, <2>2, <3>1, <3>4 DEF PhaseStep, SinkPhase, Open
  <2>4. CASE Last.res = "sent"
    <3>1. /\ pc' = "put" /\ loc' = Last.next /\ buf' = [buf EXCEPT !.len = 0]
          /\ err' = err
        BY <1>6, <2>4 DEF FlushReturns, Last
    <3>2. Last.next \in Nat
        BY <1>1, <2>2, LastType DEF PatchRec
    <3>3. buf' \in [arr : Nat, len : 0..ChunkSize] /\ buf'.arr = buf.arr
      <4>1. buf \in [arr : Nat, len : 0..ChunkSize] /\ buf' = [buf EXCEPT !.len = 0]
          BY <1>1, <3>1
      <4> QED BY <4>1
    <3>4. TypeOK'
        BY <1>1, <2>1, <3>1, <3>2, <3>3 DEF TypeOK
    <3>5. Control'
        BY <1>1, <2>1, <2>2, <3>1 DEF Control, Open, Live
    <3>6. Delivered /\ accepted = Len(session.data)
      <4>1. Delivered
          BY <2>4 DEF Delivered
      <4>2. LastPos = LastLen /\ accepted = Start + LastLen
          BY <4>1, <1>1, <2>1 DEF Sent, Buffered
      <4> QED BY <4>1, <4>2, <1>1, LastType
    <3>7. UploadInv'
        BY <2>1, <2>2, <3>1, <3>4, <3>5, <3>6, CallKeeps DEF Live
    <3> QED BY <2>1, <3>1, <3>7 DEF PhaseStep, SinkPhase
  <2> QED BY <2>3, <2>4, <1>6 DEF FlushReturns, Last
<1>7. CASE PutFinal
  <2>1. /\ UNCHANGED <<mem, buf, spare, inflight, loc, todo, accepted, patches>>
        /\ pc = "put" /\ pc' = "idle"
        /\ session' = [session EXCEPT !.state = "blob"]
      BY <1>7 DEF PutFinal
  <2>2. committed' /\ UNCHANGED <<err, aborted>>
      BY <1>7 DEF PutFinal
  <2>3. /\ session'.data = session.data
        /\ session' \in [loc : Nat, data : Seq(Nat), state : {"open", "blob", "gone"}]
      BY <1>1, <2>1, ZenonT(30)
  <2>4. TypeOK'
      BY <1>1, <2>1, <2>3 DEF TypeOK
  <2>5. Control' /\ Open
      BY <1>1, <2>1, <2>2 DEF Control, Open, Live
  <2>6. Delivered /\ accepted = Len(session.data)
      BY <1>1, <2>1 DEF Buffered
  <2>7. UploadInv'
      BY <2>1, <2>2, <2>3, <2>4, <2>5, <2>6, CallKeeps DEF Live, Open
  <2> QED BY <2>1, <2>2, <2>3, <2>5, <2>6, <2>7 DEF PhaseStep, SinkPhase, Open
<1>8. CASE PutFinalFails
  <2>1. /\ UNCHANGED <<mem, buf, spare, inflight, loc, todo, accepted, patches>>
        /\ pc = "put" /\ pc' = "idle"
        /\ session' = session \/ session' = [session EXCEPT !.state = "blob"]
      BY <1>8 DEF PutFinalFails
  <2>2. err' /\ UNCHANGED <<committed, aborted>>
      BY <1>8 DEF PutFinalFails
  <2>3. /\ session'.data = session.data
        /\ session' \in [loc : Nat, data : Seq(Nat), state : {"open", "blob", "gone"}]
      BY <1>1, <2>1
  <2>4. TypeOK'
      BY <1>1, <2>1, <2>3 DEF TypeOK
  <2>5. Control' /\ Open
      BY <1>1, <2>1, <2>2 DEF Control, Open, Live
  <2>6. UploadInv'
      BY <2>1, <2>2, <2>3, <2>4, <2>5, CallKeeps DEF Live, Open
  <2> QED BY <2>1, <2>2, <2>3, <2>5, <2>6 DEF PhaseStep, SinkPhase, Open
<1>9. CASE AbortDeletes
  <2>1. /\ UNCHANGED <<mem, buf, todo, accepted, patches>>
        /\ pc = "abort" /\ pc' = "idle" /\ inflight' = 0
        /\ session' = session \/ session' = [session EXCEPT !.state = "gone"]
      BY <1>9 DEF AbortDeletes
  <2>2. /\ aborted /\ ~committed /\ UNCHANGED <<committed, aborted>>
      BY <1>1, <1>9 DEF AbortDeletes, Control
  <2>3. /\ session'.data = session.data
        /\ session' \in [loc : Nat, data : Seq(Nat), state : {"open", "blob", "gone"}]
      BY <1>1, <2>1
  <2>4. loc' \in Nat
    <3>1. CASE loc' = loc
        BY <3>1, <1>1 DEF TypeOK
    <3>2. CASE loc' = LocAfter /\ inflight # 0
      <4>1. inflight = Len(patches) /\ patches # <<>>
          BY <3>2, <1>1 DEF Control
      <4>2. Last.next \in Nat
          BY <4>1, <1>1, LastType DEF PatchRec
      <4> QED BY <3>2, <4>1, <4>2 DEF LocAfter, Last
    <3> QED BY <3>1, <3>2, <1>9 DEF AbortDeletes, LocAfter
  <2>5. TypeOK'
      BY <1>1, <2>1, <2>3, <2>4 DEF TypeOK
  <2>6. Control'
      BY <1>1, <2>1, <2>2 DEF Control, Open, Live
  <2>7. UploadInv'
      BY <2>1, <2>2, <2>3, <2>5, <2>6, CallKeeps DEF Live, Open
  <2> QED BY <2>1, <2>2, <2>3, <2>7 DEF PhaseStep, SinkPhase
<1> QED BY <1>2, <1>3, <1>4, <1>5, <1>6, <1>7, <1>8, <1>9 DEF Quiet

\* Every step keeps the invariant and is a step of the abstract sink, or none.
LEMMA UploadStep ==
    ASSUME UploadInv, [Next]_vars
    PROVE  UploadInv' /\ [Sink!Next]_(Sink!sinkVars)
<1>1. CASE Quiet
  <2>1. UploadInv' /\ PhaseStep /\ accepted' = accepted /\ session'.data = session.data
      BY <1>1, QuietKeeps
  <2> QED BY <2>1 DEF PhaseStep, Sink!Next, Sink!Fail, Sink!Finish, Sink!sinkVars
<1>2. CASE WriteFlushes \/ FlushSends
  <2>1. UploadInv' /\ UNCHANGED <<accepted, session, err, committed, aborted>>
      BY <1>2, StartFlushKeeps, FlushSendsKeeps
  <2> QED BY <2>1 DEF Sink!sinkVars, SinkPhase
<1>3. CASE WriteCopies
  <2>1. /\ UploadInv' /\ accepted' \in Nat /\ accepted' >= accepted
        /\ UNCHANGED <<session, err, committed, aborted>>
      BY <1>3, WriteCopiesKeeps
  <2>2. Open
      BY <1>3 DEF UploadInv, Control, WriteCopies
  <2>3. SinkPhase' = SinkPhase /\ SinkPhase = "open"
      BY <2>1, <2>2 DEF SinkPhase, Open
  <2>4. accepted \in Nat
      BY DEF UploadInv, TypeOK
  <2>5. accepted' > accepted \/ accepted' = accepted
      BY <2>1, <2>4
  <2> QED BY <2>1, <2>3, <2>5 DEF Sink!Next, Sink!Accept, Sink!sinkVars
<1>4. ASSUME NEW i \in DOMAIN patches, PatchSends(i)
      PROVE  UploadInv' /\ [Sink!Next]_(Sink!sinkVars)
  <2>1. /\ UploadInv' /\ Len(session.data) < accepted
        /\ session'.data = Append(session.data, Len(session.data) + 1)
        /\ ~committed /\ UNCHANGED <<accepted, err, committed, aborted>>
      BY <1>4, PatchSendsKeeps
  <2>2. SinkPhase' = SinkPhase /\ SinkPhase # "done"
      BY <2>1 DEF SinkPhase
  <2> QED BY <2>1, <2>2 DEF Sink!Next, Sink!Deliver, Sink!sinkVars
<1>5. ASSUME NEW i \in DOMAIN patches, PatchAnswered(i) \/ PatchFails(i)
      PROVE  UploadInv' /\ [Sink!Next]_(Sink!sinkVars)
  <2>1. /\ UploadInv' /\ UNCHANGED <<accepted, err, committed, aborted>>
        /\ session'.data = session.data
      BY <1>5, PatchEndsKeeps
  <2> QED BY <2>1 DEF Sink!sinkVars, SinkPhase
<1>6. CASE UNCHANGED vars
  <2>1. UNCHANGED <<mem, buf, spare, inflight, loc, pc, todo, accepted, patches, session>>
      BY <1>6 DEF vars
  <2>2. UNCHANGED <<err, committed, aborted>>
      BY <1>6 DEF vars
  <2>3. TypeOK'
      BY <2>1 DEF UploadInv, TypeOK
  <2>4. Control'
      BY <2>1, <2>2 DEF UploadInv, Control, Open, Live
  <2>5. UploadInv'
      BY <2>1, <2>2, <2>3, <2>4, CallKeeps DEF UploadInv, Live, Open, Buffered
  <2> QED BY <2>1, <2>2, <2>5 DEF Sink!sinkVars, SinkPhase
<1> QED BY <1>1, <1>2, <1>3, <1>4, <1>5, <1>6 DEF Next, CallSteps, Requests, Quiet
-----------------------------------------------------------------------------
\* Memory, patches and session agree in every reachable state.
LEMMA Invariance == Spec => []UploadInv
<1>1. UploadInv /\ [Next]_vars => UploadInv'
    BY UploadStep
<1> QED BY <1>1, InitUploadInv, PTL DEF Spec

\* blobUpload (blob.go) is an ordered byte sink: Commit answers success only when the
\* session holds every byte written, in order, whichever array each PATCH read from.
THEOREM BlobUploadIsByteSink == Spec => IsByteSink
<1>1. Init => Sink!Init
    BY DEF Init, Sink!Init, SinkPhase
<1>2. UploadInv /\ [Next]_vars => [Sink!Next]_(Sink!sinkVars)
    BY UploadStep
<1> QED BY <1>1, <1>2, Invariance, PTL DEF Spec, IsByteSink, Sink!Spec
=============================================================================
