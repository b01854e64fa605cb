------------------------- MODULE FrameBufferProofs -------------------------
(***************************************************************************)
(* The client's frame buffer is an ordered byte sink, and the count it     *)
(* declares is the length of the archive, for every frame size, archive    *)
(* length and quota.                                                       *)
(***************************************************************************)
EXTENDS MCFrameBuffer, TLAPS

\* A leaf that names no prover is given to the SMT solver, then to Zenon.
USE SMTT(30), ZenonT(30)

Send == [arr : 1..2, len : 0..Size, pos : 0..Size, res : {"running", "sent", "failed"}]

TypeOK ==
    /\ mem \in [1..2 -> [1..Size -> Nat]]
    /\ buf \in [arr : 1..2, len : 0..Size]
    /\ spare \in 1..2
    /\ todo \in Nat
    /\ accepted \in Nat
    /\ sends \in Seq(Send)
    /\ written \in Nat
    /\ wire \in Seq(Nat)
    /\ declared \in Nat
    /\ pc \in {"walk", "write", "flush", "drain", "end", "done", "failed"}

\* The send started last, and how many bytes were given to the ones before it.
Last == sends[Len(sends)]
LastLen == IF sends = <<>> THEN 0 ELSE Last.len
LastPos == IF sends = <<>> THEN 0 ELSE Last.pos
Delivered == sends = <<>> \/ Last.res = "sent"
Before == accepted - buf.len - LastLen

\* One array is filled while the other is sent, and only the last send may be
\* unfinished: a new one starts after the last was waited for.
Ownership ==
    /\ buf.arr # spare
    /\ \A i \in DOMAIN sends : i # Len(sends) => sends[i].res = "sent"
    /\ sends # <<>> => Last.arr = spare
    /\ pc \in {"walk", "write", "flush", "drain"} => inflight = Len(sends)

\* What each buffer holds, and how far the wire and the writer's count are.
Contents ==
    /\ Before \in Nat
    /\ \A k \in 1..buf.len : mem[buf.arr][k] = Before + LastLen + k
    /\ \A k \in 1..LastLen : mem[spare][k] = Before + k
    /\ LastPos <= LastLen
    /\ Delivered => LastPos = LastLen
    /\ Len(wire) = Before + LastPos
    /\ written = Before + IF Delivered THEN LastLen ELSE 0
    /\ \A k \in 1..Len(wire) : wire[k] = k

\* When the source may go on to StreamEnd.
Ending ==
    /\ pc \in {"drain", "end", "done"} => buf.len = 0
    /\ pc \in {"end", "done"} => Delivered
    /\ pc = "done" => declared = written

BufferInv == TypeOK /\ Ownership /\ Contents /\ Ending

-----------------------------------------------------------------------------
\* An attempt starts with an empty buffer and an idle writer.
LEMMA InitBufferInv == Init => BufferInv
<1> SUFFICES ASSUME Init PROVE BufferInv
    OBVIOUS
<1> USE FrameAssumption DEF Init
<1>1. TypeOK
    BY DEF TypeOK, Send
<1>2. /\ LastLen = 0 /\ LastPos = 0 /\ Delivered /\ Before = 0
    BY DEF LastLen, LastPos, Delivered, Before
<1>3. Ownership
    BY DEF Ownership
<1>4. Contents
    BY <1>2 DEF Contents
<1>5. Ending
    BY <1>2 DEF Ending
<1> QED BY <1>1, <1>3, <1>4, <1>5 DEF BufferInv

\* The last send is one of the sends.
LEMMA LastType ==
    ASSUME TypeOK
    PROVE  /\ Len(sends) \in Nat
           /\ sends # <<>> => /\ Len(sends) \in DOMAIN sends
                              /\ Last \in Send
           /\ LastLen \in Nat /\ LastPos \in Nat
<1>1. sends \in Seq(Send) /\ Len(sends) \in Nat /\ DOMAIN sends = 1..Len(sends)
    BY DEF TypeOK
<1>2. ASSUME sends # <<>> PROVE Len(sends) \in DOMAIN sends /\ Last \in Send
  <2>1. Len(sends) # 0
      BY <1>1, <1>2
  <2>2. Len(sends) \in 1..Len(sends)
      BY <1>1, <2>1
  <2> QED BY <1>1, <2>2 DEF Last
<1>3. LastLen \in Nat /\ LastPos \in Nat
  <2>1. CASE sends = <<>>
      BY <2>1 DEF LastLen, LastPos
  <2>2. CASE sends # <<>>
    <3>1. Last.len \in 0..Size /\ Last.pos \in 0..Size
        BY <1>2, <2>2 DEF Send
    <3> QED BY <3>1, <2>2 DEF LastLen, LastPos
  <2> QED BY <2>1, <2>2
<1> QED BY <1>1, <1>2, <1>3

\* The counts of an invariant state, without the contents.
LEMMA Counts ==
    ASSUME BufferInv
    PROVE  /\ Before \in Nat /\ LastLen \in Nat /\ LastPos \in Nat /\ buf.len \in Nat
           /\ accepted = Before + LastLen + buf.len
           /\ Len(wire) = Before + LastPos
           /\ Delivered => written = Before + LastLen
           /\ ~Delivered => written = Before
<1>1. /\ LastLen \in Nat /\ LastPos \in Nat /\ buf.len \in Nat /\ accepted \in Nat
    BY LastType, FrameAssumption DEF BufferInv, TypeOK
<1>2. /\ Before \in Nat /\ Len(wire) = Before + LastPos
      /\ written = Before + IF Delivered THEN LastLen ELSE 0
    BY DEF BufferInv, Contents
<1>3. accepted = Before + LastLen + buf.len
    BY <1>1 DEF Before
<1> QED BY <1>1, <1>2, <1>3

\* A step of the source that leaves the buffers and the sends alone keeps what is
\* said of them.
LEMMA BuffersKept ==
    ASSUME BufferInv,
           UNCHANGED <<mem, buf, spare, accepted, sends, written, wire>>
    PROVE  /\ Contents'
           /\ LastLen' = LastLen /\ LastPos' = LastPos
           /\ Delivered' <=> Delivered
           /\ Last' = Last
<1>1. /\ LastLen' = LastLen /\ LastPos' = LastPos /\ Before' = Before
      /\ Last' = Last
    BY DEF LastLen, LastPos, Before, Last
<1>2. Delivered' <=> Delivered
    BY DEF Delivered, Last
<1>3. Contents'
    BY <1>1, <1>2 DEF BufferInv, Contents
<1> QED BY <1>1, <1>2, <1>3

\* wait returned nil for the last send: it had succeeded.
LEMMA WaitedFor ==
    ASSUME TypeOK, inflight = Len(sends), WaitOver, ~ErrAfter
    PROVE  Delivered
<1>1. CASE sends = <<>>
    BY <1>1 DEF Delivered
<1>2. CASE sends # <<>>
  <2>1. Len(sends) \in DOMAIN sends /\ Len(sends) # 0
      BY <1>2, LastType DEF TypeOK
  <2>2. Last.res \in {"running", "sent", "failed"}
      BY <1>2, LastType DEF Send
  <2>3. Last.res # "running"
      BY <2>1 DEF WaitOver, Running, Last
  <2>4. Last.res # "failed"
      BY <2>1 DEF ErrAfter, Last
  <2> QED BY <2>2, <2>3, <2>4 DEF Delivered
<1> QED BY <1>1, <1>2

\* startSend: the last send was waited for and had succeeded, so all its bytes are
\* on the wire and its array is free; the arrays change places.
LEMMA StartSendKeeps ==
    ASSUME BufferInv, StartSend, pc \in {"write", "flush"},
           UNCHANGED <<mem, accepted, written, wire>>
    PROVE  /\ buf' \in [arr : 1..2, len : 0..Size] /\ spare' \in 1..2
           /\ sends' \in Seq(Send)
           /\ Contents'
           /\ buf'.arr # spare'
           /\ \A i \in DOMAIN sends' : i # Len(sends') => sends'[i].res = "sent"
           /\ Last'.arr = spare'
           /\ inflight' = Len(sends')
           /\ buf'.len = 0
<1> USE FrameAssumption
<1>1. /\ TypeOK /\ Ownership /\ Contents
      /\ inflight = Len(sends) /\ Len(sends) \in Nat
    BY DEF BufferInv, Ownership, TypeOK
<1>2. Delivered
    BY <1>1, WaitedFor DEF StartSend
<1> DEFINE new == [arr |-> buf.arr, len |-> buf.len, pos |-> 0, res |-> "running"]
<1>3. /\ new \in Send /\ sends' = Append(sends, new)
      /\ new.arr = buf.arr /\ new.len = buf.len /\ new.pos = 0 /\ new.res = "running"
    BY <1>1 DEF StartSend, TypeOK, Send
<1>4. /\ buf' = [arr |-> spare, len |-> 0] /\ spare' = buf.arr /\ inflight' = Len(sends) + 1
    BY DEF StartSend
<1> HIDE DEF new
<1>5. /\ sends' \in Seq(Send) /\ Len(sends') = Len(sends) + 1 /\ sends' # <<>>
      /\ \A i \in DOMAIN sends : sends'[i] = sends[i]
      /\ sends'[Len(sends) + 1] = new
    BY <1>1, <1>3 DEF TypeOK
<1>6. /\ Last' = new /\ LastLen' = buf.len /\ LastPos' = 0 /\ ~Delivered'
    BY <1>3, <1>5 DEF Last, LastLen, LastPos, Delivered
<1>7. /\ buf'.arr = spare /\ buf'.len = 0
      /\ buf' \in [arr : 1..2, len : 0..Size] /\ spare' \in 1..2
      /\ buf.len \in 0..Size /\ buf.arr \in 1..2
    BY <1>1, <1>4 DEF TypeOK
<1>8. LastLen \in Nat /\ accepted \in Nat
    BY <1>1, LastType DEF TypeOK
<1>9. Before' = Before + LastLen
    BY <1>6, <1>7, <1>8, <1>1 DEF Before
<1>10. Contents'
  <2>1. Before' \in Nat
      BY <1>9, <1>8, <1>1 DEF Contents
  <2>2. \A k \in 1..buf'.len : mem'[buf'.arr][k] = Before' + LastLen' + k
      BY <1>7
  <2>3. \A k \in 1..LastLen' : mem'[spare'][k] = Before' + k
      BY <1>4, <1>6, <1>9, <1>1 DEF Contents
  <2>4. LastPos' <= LastLen' /\ (Delivered' => LastPos' = LastLen')
      BY <1>6, <1>7
  <2>5. Len(wire') = Before' + LastPos'
      BY <1>2, <1>6, <1>9, <1>1, <1>8 DEF Contents
  <2>6. written' = Before' + IF Delivered' THEN LastLen' ELSE 0
      BY <1>2, <1>6, <1>9, <1>1, <1>8 DEF Contents
  <2>7. \A k \in 1..Len(wire') : wire'[k] = k
      BY <1>1 DEF Contents
  <2> QED BY <2>1, <2>2, <2>3, <2>4, <2>5, <2>6, <2>7 DEF Contents
<1>11. \A i \in DOMAIN sends' : i # Len(sends') => sends'[i].res = "sent"
  <2> SUFFICES ASSUME NEW i \in DOMAIN sends', i # Len(sends')
               PROVE  sends'[i].res = "sent"
      OBVIOUS
  <2>1. i \in DOMAIN sends /\ sends # <<>>
      BY <1>5, <1>1 DEF TypeOK
  <2>2. sends[i].res = "sent"
    <3>1. CASE i = Len(sends)
        BY <3>1, <2>1, <1>2 DEF Delivered, Last
    <3>2. CASE i # Len(sends)
        BY <3>2, <2>1, <1>1 DEF Ownership
    <3> QED BY <3>1, <3>2
  <2> QED BY <2>1, <2>2, <1>5
<1>12. buf'.arr # spare' /\ Last'.arr = spare'
    BY <1>1, <1>4, <1>7, <1>6, <1>3 DEF Ownership
<1> QED BY <1>5, <1>7, <1>10, <1>11, <1>12, <1>4

\* Write's append fills the free end of its own array; the array being sent is the
\* other one.
LEMMA WriteCopiesKeeps ==
    ASSUME BufferInv, WriteCopies
    PROVE  /\ BufferInv'
           /\ accepted' \in Nat /\ accepted' >= accepted
<1> USE FrameAssumption
<1> DEFINE n == least(todo, Size - buf.len)
<1>1. /\ TypeOK /\ Ownership /\ Contents /\ Ending
      /\ buf \in [arr : 1..2, len : 0..Size]
      /\ buf.len \in 0..Size /\ buf.arr \in 1..2 /\ todo \in Nat /\ accepted \in Nat
    BY DEF BufferInv, TypeOK
<1>2. /\ buf.len < Size /\ pc = "write"
      /\ n \in Nat /\ n <= todo /\ n <= Size - buf.len
    BY <1>1 DEF WriteCopies, least
<1>3. /\ mem' = [mem EXCEPT ![buf.arr] =
                   [i \in 1..Size |-> IF i \in buf.len + 1 .. buf.len + n
                                      THEN accepted + i - buf.len ELSE mem[buf.arr][i]]]
      /\ buf' = [buf EXCEPT !.len = buf.len + n]
      /\ accepted' = accepted + n
      /\ todo' = todo - n
      /\ pc' \in {"walk", "write"}
      /\ UNCHANGED <<spare, inflight, sends, written, wire, declared>>
    BY DEF WriteCopies
<1> HIDE DEF n
<1>4. /\ buf'.arr = buf.arr /\ buf'.len = buf.len + n
      /\ buf' \in [arr : 1..2, len : 0..Size]
  <2>1. buf.len + n \in 0..Size
      BY <1>1, <1>2
  <2> QED BY <1>1, <1>3, <2>1
<1>5. /\ LastLen' = LastLen /\ LastPos' = LastPos /\ Last' = Last
      /\ LastLen \in Nat /\ LastPos \in Nat
    BY <1>3, <1>1, LastType DEF LastLen, LastPos, Last
<1>6. Delivered' <=> Delivered
    BY <1>3 DEF Delivered, Last
<1>7. Before' = Before
    BY <1>3, <1>4, <1>5, <1>1, <1>2 DEF Before
<1>8. /\ mem'[spare] = mem[spare]
      /\ \A k \in 1..Size : mem'[buf.arr][k] = IF k \in buf.len + 1 .. buf.len + n
                                               THEN accepted + k - buf.len
                                               ELSE mem[buf.arr][k]
    BY <1>1, <1>3 DEF TypeOK, Ownership
<1>9. mem' \in [1..2 -> [1..Size -> Nat]]
  <2>1. \A i \in 1..Size : mem[buf.arr][i] \in Nat
      BY <1>1 DEF TypeOK
  <2>2. \A i \in buf.len + 1 .. buf.len + n : accepted + i - buf.len \in Nat
      BY <1>1, <1>2
  <2>3. [i \in 1..Size |-> IF i \in buf.len + 1 .. buf.len + n
                           THEN accepted + i - buf.len ELSE mem[buf.arr][i]]
           \in [1..Size -> Nat]
      BY <2>1, <2>2
  <2>4. mem \in [1..2 -> [1..Size -> Nat]] /\ buf.arr \in 1..2
      BY <1>1 DEF TypeOK
  <2> QED BY <1>3, <2>3, <2>4, ZenonT(30)
<1>10. TypeOK'
  <2>1. todo' \in Nat /\ accepted' \in Nat
    <3>1. todo' = todo - n /\ accepted' = accepted + n /\ todo \in Nat /\ accepted \in Nat
        BY <1>1, <1>3
    <3> QED BY <3>1, <1>2
  <2> QED BY <2>1, <1>1, <1>3, <1>4, <1>9, ZenonT(30) DEF TypeOK
<1>11. Ownership'
    BY <1>1, <1>2, <1>3, <1>4, <1>5 DEF Ownership
<1>12. \A k \in 1..buf'.len : mem'[buf'.arr][k] = Before' + LastLen' + k
  <2> SUFFICES ASSUME NEW k \in 1..buf'.len
               PROVE  mem'[buf'.arr][k] = Before' + LastLen' + k
      OBVIOUS
  <2>1. k \in 1..Size /\ k \in Nat
      BY <1>4, <1>1
  <2>2. CASE k \in buf.len + 1 .. buf.len + n
      BY <2>1, <2>2, <1>8, <1>4, <1>5, <1>7, <1>1 DEF Before
  <2>3. CASE k \notin buf.len + 1 .. buf.len + n
    <3>1. k \in 1..buf.len
        BY <2>3, <2>1, <1>4, <1>1, <1>2
    <3> QED BY <3>1, <2>1, <2>3, <1>8, <1>4, <1>5, <1>7, <1>1, ZenonT(30) DEF Contents
  <2> QED BY <2>2, <2>3
<1>13. Contents'
  <2>1. /\ Before' \in Nat /\ LastPos' <= LastLen'
        /\ Delivered' => LastPos' = LastLen'
        /\ Len(wire') = Before' + LastPos'
        /\ written' = Before' + IF Delivered' THEN LastLen' ELSE 0
      BY <1>1, <1>3, <1>5, <1>6, <1>7, ZenonT(30) DEF Contents
  <2>2. \A k \in 1..LastLen' : mem'[spare'][k] = Before' + k
      BY <1>1, <1>3, <1>5, <1>7, <1>8, ZenonT(30) DEF Contents
  <2>3. \A k \in 1..Len(wire') : wire'[k] = k
      BY <1>1, <1>3, ZenonT(30) DEF Contents
  <2> QED BY <2>1, <2>2, <2>3, <1>12, ZenonT(30) DEF Contents
<1>14. Ending'
    BY <1>3 DEF Ending
<1> QED BY <1>10, <1>11, <1>13, <1>14, <1>1, <1>2, <1>3 DEF BufferInv

\* A step of a send: only the last one can be running.
LEMMA RunningIsLast ==
    ASSUME BufferInv, NEW i \in DOMAIN sends, sends[i].res = "running"
    PROVE  /\ i = Len(sends) /\ sends # <<>> /\ sends[i] = Last /\ sends[i] \in Send
           /\ ~Delivered
           /\ pc \notin {"end", "done"}
<1>1. TypeOK /\ Ownership /\ Ending
    BY DEF BufferInv
<1>2. i = Len(sends) /\ sends # <<>>
    BY <1>1 DEF Ownership, TypeOK
<1>3. sends[i] = Last /\ sends[i] \in Send
    BY <1>2, <1>1, LastType DEF Last
<1>4. ~Delivered
    BY <1>2, <1>3 DEF Delivered
<1> QED BY <1>1, <1>2, <1>3, <1>4 DEF Ending

\* The last send replaced by a record with the same array and length.
LEMMA LastReplaced ==
    ASSUME BufferInv, NEW i \in DOMAIN sends, sends[i].res = "running",
           NEW s \in Send, s.arr = Last.arr, s.len = Last.len,
           sends' = [sends EXCEPT ![i] = s],
           UNCHANGED source
    PROVE  /\ sends' \in Seq(Send)
           /\ Ownership'
           /\ Last' = s /\ LastLen' = LastLen /\ LastPos' = s.pos /\ LastPos = Last.pos
           /\ LastLen = s.len
           /\ Before' = Before
           /\ Delivered' <=> s.res = "sent"
<1>1. TypeOK /\ Ownership
    BY DEF BufferInv
<1>2. i = Len(sends) /\ sends # <<>>
    BY RunningIsLast
<1>3. /\ sends' \in Seq(Send) /\ Len(sends') = Len(sends) /\ sends' # <<>>
      /\ DOMAIN sends' = DOMAIN sends
      /\ \A j \in DOMAIN sends : j # i => sends'[j] = sends[j]
      /\ sends'[i] = s
    BY <1>1, <1>2 DEF TypeOK
<1>4. /\ Last' = s /\ LastLen' = LastLen /\ LastPos' = s.pos /\ LastPos = Last.pos
      /\ LastLen = s.len
    BY <1>2, <1>3 DEF Last, LastLen, LastPos
<1>5. Delivered' <=> s.res = "sent"
    BY <1>3, <1>4 DEF Delivered
<1>6. Before' = Before
    BY <1>4 DEF Before, source
<1>7. Ownership'
    BY <1>1, <1>2, <1>3, <1>4 DEF Ownership, source
<1> QED BY <1>3, <1>4, <1>5, <1>6, <1>7

\* The frame goes out in order: the byte read is the one the wire expects next.
LEMMA SendByteKeeps ==
    ASSUME BufferInv, NEW i \in DOMAIN sends, SendByte(i)
    PROVE  /\ BufferInv'
           /\ Len(wire) < accepted
           /\ wire' = Append(wire, Len(wire) + 1)
           /\ pc # "done"
<1> USE FrameAssumption
<1> DEFINE s == [Last EXCEPT !.pos = Last.pos + 1]
<1>1. /\ TypeOK /\ Ownership /\ Contents /\ Ending
      /\ sends \in Seq(Send) /\ wire \in Seq(Nat) /\ buf.len \in Nat /\ accepted \in Nat
  <2>1. TypeOK /\ Ownership /\ Contents /\ Ending
      BY DEF BufferInv
  <2>2. buf.len \in 0..Size /\ sends \in Seq(Send) /\ wire \in Seq(Nat) /\ accepted \in Nat
      BY <2>1 DEF TypeOK
  <2> QED BY <2>1, <2>2
<1>2. /\ sends[i].res = "running" /\ sends[i].pos < sends[i].len
      /\ sends' = [sends EXCEPT ![i].pos = @ + 1]
      /\ wire' = Append(wire, mem[sends[i].arr][sends[i].pos + 1])
      /\ UNCHANGED <<source, written, declared>>
    BY DEF SendByte
<1>3. /\ i = Len(sends) /\ sends # <<>> /\ sends[i] = Last /\ Last \in Send
      /\ ~Delivered /\ pc \notin {"end", "done"}
    BY <1>2, RunningIsLast
<1>4. /\ Last.pos \in 0..Size /\ Last.len \in 0..Size /\ Last.pos < Last.len
      /\ Last.res = "running"
    BY <1>2, <1>3 DEF Send
<1>5. /\ s \in Send /\ s.arr = Last.arr /\ s.len = Last.len
      /\ s.pos = Last.pos + 1 /\ s.res = "running"
    BY <1>3, <1>4 DEF Send
<1>6. sends' = [sends EXCEPT ![i] = s]
    BY <1>2, <1>3
<1> HIDE DEF s
<1>7. /\ sends' \in Seq(Send) /\ Ownership'
      /\ LastLen' = LastLen /\ LastPos' = LastPos + 1 /\ LastPos = Last.pos
      /\ LastLen = Last.len /\ Before' = Before /\ ~Delivered'
    BY <1>2, <1>5, <1>6, LastReplaced, ZenonT(30)
<1>8. mem[sends[i].arr][sends[i].pos + 1] = Len(wire) + 1
  <2>1. Last.arr = spare /\ Len(wire) = Before + Last.pos /\ Before \in Nat
      BY <1>1, <1>3, <1>7 DEF Ownership, Contents
  <2>2. Last.pos + 1 \in 1..LastLen
      BY <1>4, <1>7
  <2>3. mem[spare][Last.pos + 1] = Before + (Last.pos + 1)
      BY <1>1, <2>2 DEF Contents
  <2> QED BY <1>3, <1>4, <2>1, <2>3
<1>9. wire' = Append(wire, Len(wire) + 1)
    BY <1>2, <1>8
<1>10. /\ wire' \in Seq(Nat) /\ Len(wire') = Len(wire) + 1
       /\ \A k \in 1..Len(wire) : wire'[k] = wire[k]
       /\ wire'[Len(wire) + 1] = Len(wire) + 1
    BY <1>1, <1>9
<1>15. /\ Before \in Nat /\ LastLen \in Nat /\ LastPos \in Nat /\ buf.len \in Nat
       /\ accepted = Before + LastLen + buf.len
       /\ Len(wire) = Before + LastPos
    BY Counts
<1>16. written = Before
    BY Counts, <1>3
<1>11. Len(wire) < accepted
  <2>1. LastPos < LastLen
      BY <1>4, <1>7
  <2> QED BY <2>1, <1>15
<1>12. Contents'
  <2>1. \A k \in 1..Len(wire') : wire'[k] = k
    <3> SUFFICES ASSUME NEW k \in 1..Len(wire') PROVE wire'[k] = k
        OBVIOUS
    <3>1. CASE k = Len(wire) + 1
        BY <3>1, <1>10
    <3>2. CASE k # Len(wire) + 1
      <4>1. k \in 1..Len(wire)
          BY <3>2, <1>10, <1>1
      <4> QED BY <4>1, <1>10, <1>1 DEF Contents
    <3> QED BY <3>1, <3>2
  <2>2. LastPos' <= LastLen' /\ Len(wire') = Before' + LastPos'
    <3>1. LastPos + 1 <= LastLen
        BY <1>4, <1>7
    <3>2. Len(wire') = Len(wire) + 1
        BY <1>10
    <3> QED BY <3>1, <3>2, <1>7, <1>15
  <2>3. written' = Before' + IF Delivered' THEN LastLen' ELSE 0
      BY <1>2, <1>7, <1>15, <1>16
  <2>4. UNCHANGED <<mem, buf, spare>>
      BY <1>2 DEF source
  <2> QED BY <2>1, <2>2, <2>3, <2>4, <1>1, <1>7 DEF Contents
<1>13. TypeOK'
  <2>1. UNCHANGED <<mem, buf, spare, todo, accepted, pc, written, declared>>
      BY <1>2 DEF source
  <2> QED BY <2>1, <1>1, <1>7, <1>10, ZenonT(30) DEF TypeOK
<1>14. Ending'
    BY <1>1, <1>2, <1>3 DEF source, Ending
<1> QED BY <1>7, <1>9, <1>11, <1>12, <1>13, <1>14, <1>3 DEF BufferInv

\* A send that returns or fails: streamWriter counts what went out, and only that.
LEMMA SendEndsKeeps ==
    ASSUME BufferInv, NEW i \in DOMAIN sends, SendReturns(i) \/ SendFails(i)
    PROVE  BufferInv' /\ UNCHANGED <<accepted, wire, pc>>
<1> USE FrameAssumption
<1> DEFINE s(r) == [Last EXCEPT !.res = r]
<1>1. /\ TypeOK /\ Ownership /\ Contents /\ Ending /\ written \in Nat
    BY ZenonT(30) DEF BufferInv, TypeOK
<1>2. /\ sends[i].res = "running"
      /\ UNCHANGED <<source, wire, declared>>
    BY DEF SendReturns, SendFails
<1>3. /\ i = Len(sends) /\ sends # <<>> /\ sends[i] = Last /\ Last \in Send
      /\ ~Delivered /\ pc \notin {"end", "done"}
    BY <1>2, RunningIsLast
<1>4. \A r \in {"sent", "failed"} :
          /\ s(r) \in Send /\ s(r).arr = Last.arr /\ s(r).len = Last.len
          /\ s(r).pos = Last.pos /\ s(r).res = r
    BY <1>3 DEF Send
<1>5. Last.len \in Nat /\ Last.pos \in Nat
    BY <1>3 DEF Send
<1>8. UNCHANGED <<mem, buf, spare, inflight, todo, accepted, pc, wire, declared>>
    BY <1>2 DEF source
<1> HIDE DEF s
<1>6. CASE SendReturns(i)
  <2>1. /\ sends' = [sends EXCEPT ![i] = s("sent")]
        /\ Last.pos = Last.len /\ written' = written + Last.len
      BY <1>6, <1>3 DEF SendReturns, s
  <2>2. /\ sends' \in Seq(Send) /\ Ownership'
        /\ LastLen' = LastLen /\ LastPos' = LastPos /\ LastPos = Last.pos
        /\ LastLen = Last.len /\ Before' = Before /\ Delivered'
      BY <2>1, <1>2, <1>4, LastReplaced, ZenonT(30)
  <2>3. Contents'
    <3>1. /\ written' = Before' + IF Delivered' THEN LastLen' ELSE 0
          /\ LastPos' = LastLen'
        BY <2>1, <2>2, <1>3, Counts
    <3> QED BY <3>1, <2>2, <1>1, <1>8 DEF Contents
  <2>4. TypeOK'
    <3>1. written' \in Nat
        BY <2>1, <1>1, <1>5
    <3> QED BY <3>1, <2>2, <1>1, <1>8, ZenonT(30) DEF TypeOK
  <2>5. Ending'
      BY <1>1, <1>8, <1>3 DEF Ending
  <2> QED BY <2>2, <2>3, <2>4, <2>5, <1>2 DEF BufferInv, source
<1>7. CASE SendFails(i)
  <2>1. sends' = [sends EXCEPT ![i] = s("failed")] /\ written' = written
      BY <1>7, <1>3 DEF SendFails, s
  <2>2. /\ sends' \in Seq(Send) /\ Ownership'
        /\ LastLen' = LastLen /\ LastPos' = LastPos /\ LastPos = Last.pos
        /\ LastLen = Last.len /\ Before' = Before /\ ~Delivered'
      BY <2>1, <1>2, <1>4, LastReplaced, ZenonT(30)
  <2>3. Contents'
    <3>1. written' = Before' + IF Delivered' THEN LastLen' ELSE 0
        BY <2>1, <2>2, <1>3, Counts
    <3> QED BY <3>1, <2>2, <1>1, <1>8 DEF Contents
  <2>4. TypeOK'
      BY <2>1, <2>2, <1>1, <1>8, ZenonT(30) DEF TypeOK
  <2>5. Ending'
      BY <1>1, <1>8, <1>3 DEF Ending
  <2> QED BY <2>2, <2>3, <2>4, <2>5, <1>2 DEF BufferInv, source
<1> QED BY <1>6, <1>7

\* A step of the source that only moves it on.
LEMMA ControlKeeps ==
    ASSUME BufferInv,
           UNCHANGED <<mem, buf, spare, accepted, sends, written, wire>>,
           todo' \in Nat, declared' \in Nat,
           pc' \in {"walk", "write", "flush", "drain", "end", "done", "failed"},
           pc' \in {"walk", "write", "flush", "drain"} => inflight' = Len(sends),
           pc' \in {"drain", "end", "done"} => buf.len = 0,
           pc' \in {"end", "done"} => Delivered,
           pc' = "done" => declared' = written
    PROVE  BufferInv'
<1>1. TypeOK /\ Ownership
    BY DEF BufferInv
<1>2. Contents' /\ (Delivered' <=> Delivered) /\ Last' = Last
    BY BuffersKept
<1>3. TypeOK'
    BY <1>1 DEF TypeOK
<1>4. Ownership'
    BY <1>1, <1>2 DEF Ownership
<1>5. Ending'
    BY <1>2 DEF Ending
<1> QED BY <1>2, <1>3, <1>4, <1>5 DEF BufferInv

\* The steps of the source that touch neither the buffers nor the stream.
Quiet ==
    \/ \E n \in 1..MaxWrite : Write(n)
    \/ WriteFails \/ FlushFails \/ DrainFails \/ WalkFails
    \/ Flush \/ FlushReturns \/ StreamEnd \/ ReaderFails
    \/ FlushSends /\ buf.len = 0

\* The steps that neither take nor send a byte: for the sink a stutter or a failure.
LEMMA QuietKeeps ==
    ASSUME BufferInv, Quiet
    PROVE  /\ BufferInv' /\ UNCHANGED <<accepted, wire>>
           /\ \/ SinkPhase' = SinkPhase
              \/ SinkPhase = "open" /\ SinkPhase' = "failed"
              \/ SinkPhase = "open" /\ SinkPhase' = "done" /\ Len(wire) = accepted
<1>1. /\ TypeOK /\ Ownership /\ Ending
      /\ todo \in Nat /\ declared \in Nat /\ written \in Nat
      /\ pc \in {"walk", "write", "flush", "drain", "end", "done", "failed"}
    BY DEF BufferInv, TypeOK
<1>2. /\ pc \in {"walk", "write", "flush", "drain"} => inflight = Len(sends)
      /\ pc \in {"drain", "end", "done"} => buf.len = 0
      /\ pc \in {"end", "done"} => Delivered
      /\ pc = "done" => declared = written
    BY <1>1 DEF Ownership, Ending
<1>3. CASE \E n \in 1..MaxWrite : Write(n)
  <2>1. /\ UNCHANGED <<mem, buf, spare, inflight, accepted, sends, written, wire, declared>>
        /\ pc = "walk" /\ pc' = "write" /\ todo' \in Nat
      BY <1>3, FrameAssumption DEF Write
  <2>2. BufferInv'
      BY <2>1, <1>1, <1>2, ControlKeeps
  <2> QED BY <2>1, <2>2 DEF SinkPhase
<1>4. CASE WriteFails \/ FlushFails \/ DrainFails \/ WalkFails
  <2>1. /\ UNCHANGED <<mem, buf, spare, todo, accepted, sends, written, wire, declared>>
        /\ pc \notin {"done", "failed"} /\ pc' = "failed"
      BY <1>4 DEF WriteFails, FlushFails, DrainFails, WalkFails, WaitFails
  <2>2. BufferInv'
      BY <2>1, <1>1, ControlKeeps
  <2> QED BY <2>1, <2>2 DEF SinkPhase
<1>5. CASE Flush
  <2>1. /\ UNCHANGED <<mem, buf, spare, inflight, todo, accepted, sends, written, wire, declared>>
        /\ pc = "walk" /\ pc' = "flush"
      BY <1>5 DEF Flush
  <2>2. BufferInv'
      BY <2>1, <1>1, <1>2, ControlKeeps
  <2> QED BY <2>1, <2>2 DEF SinkPhase
<1>6. CASE FlushSends /\ buf.len = 0
  <2>1. /\ UNCHANGED <<mem, buf, spare, inflight, todo, accepted, sends, written, wire, declared>>
        /\ pc = "flush" /\ pc' = "drain" /\ buf.len = 0
      BY <1>6 DEF FlushSends
  <2>2. BufferInv'
      BY <2>1, <1>1, <1>2, ControlKeeps
  <2> QED BY <2>1, <2>2 DEF SinkPhase
<1>7. CASE FlushReturns
  <2>1. /\ UNCHANGED <<mem, buf, spare, todo, accepted, sends, written, wire, declared>>
        /\ pc = "drain" /\ pc' = "end"
      BY <1>7 DEF FlushReturns
  <2>2. Delivered
      BY <1>7, <2>1, <1>1, <1>2, WaitedFor DEF FlushReturns
  <2>3. BufferInv'
      BY <2>1, <2>2, <1>1, <1>2, ControlKeeps
  <2> QED BY <2>1, <2>3 DEF SinkPhase
<1>8. CASE StreamEnd
  <2>1. /\ UNCHANGED <<mem, buf, spare, inflight, todo, accepted, sends, written, wire>>
        /\ pc = "end"
        /\ \/ pc' = "done" /\ declared' = written
           \/ pc' = "failed" /\ declared' = declared
      BY <1>8 DEF StreamEnd
  <2>2. BufferInv'
      BY <2>1, <1>1, <1>2, ControlKeeps
  <2>3. Len(wire) = accepted
    <3>1. LastPos = LastLen
        BY <2>1, <1>2 DEF BufferInv, Contents
    <3> QED BY <2>1, <3>1, <1>2, Counts
  <2> QED BY <2>1, <2>2, <2>3 DEF SinkPhase
<1>9. CASE ReaderFails
  <2>1. UNCHANGED <<mem, buf, spare, inflight, pc, todo, accepted, sends, written, wire, declared>>
      BY <1>9 DEF ReaderFails, source
  <2>2. BufferInv'
      BY <2>1, <1>1, <1>2, ControlKeeps
  <2> QED BY <2>1, <2>2 DEF SinkPhase
<1> QED BY <1>3, <1>4, <1>5, <1>6, <1>7, <1>8, <1>9 DEF Quiet

\* The steps that start a send.
LEMMA SendStartKeeps ==
    ASSUME BufferInv, WriteSends \/ (FlushSends /\ buf.len > 0)
    PROVE  BufferInv' /\ UNCHANGED <<accepted, wire>> /\ SinkPhase' = SinkPhase
<1>1. /\ UNCHANGED <<mem, todo, accepted, written, wire, declared>>
      /\ \/ pc = "write" /\ pc' = "write"
         \/ pc = "flush" /\ pc' = "drain"
    BY DEF WriteSends, FlushSends
<1>2. StartSend
  <2>1. TypeOK
      BY DEF BufferInv
  <2>2. buf.len \in Nat
      BY <2>1, FrameAssumption DEF TypeOK
  <2> QED BY <2>2 DEF WriteSends, FlushSends
<1>3. /\ buf' \in [arr : 1..2, len : 0..Size] /\ spare' \in 1..2
      /\ sends' \in Seq(Send)
      /\ Contents'
      /\ buf'.arr # spare'
      /\ \A i \in DOMAIN sends' : i # Len(sends') => sends'[i].res = "sent"
      /\ Last'.arr = spare'
      /\ inflight' = Len(sends')
      /\ buf'.len = 0
    BY <1>1, <1>2, StartSendKeeps
<1>4. TypeOK'
    BY <1>1, <1>3 DEF BufferInv, TypeOK
<1>5. Ownership'
    BY <1>3 DEF Ownership
<1>6. Ending'
    BY <1>1, <1>3 DEF Ending
<1>7. SinkPhase' = SinkPhase
    BY <1>1 DEF SinkPhase
<1> QED BY <1>1, <1>3, <1>4, <1>5, <1>6, <1>7 DEF BufferInv

\* Every step keeps the invariant and is a step of the abstract sink, or none.
LEMMA BufferStep ==
    ASSUME BufferInv, [Next]_vars
    PROVE  BufferInv' /\ [Sink!Next]_(Sink!sinkVars)
<1>1. CASE Quiet
  <2>1. /\ BufferInv' /\ UNCHANGED <<accepted, wire>>
        /\ \/ SinkPhase' = SinkPhase
           \/ SinkPhase = "open" /\ SinkPhase' = "failed"
           \/ SinkPhase = "open" /\ SinkPhase' = "done" /\ Len(wire) = accepted
      BY <1>1, QuietKeeps
  <2> QED BY <2>1 DEF Sink!Next, Sink!Fail, Sink!Finish, Sink!sinkVars
<1>2. CASE WriteSends \/ (FlushSends /\ buf.len > 0)
    BY <1>2, SendStartKeeps DEF Sink!sinkVars
<1>3. CASE WriteCopies
  <2>1. BufferInv' /\ accepted' \in Nat /\ accepted' >= accepted
      BY <1>3, WriteCopiesKeeps
  <2>2. /\ wire' = wire /\ SinkPhase' = SinkPhase /\ SinkPhase = "open"
      BY <1>3 DEF WriteCopies, SinkPhase
  <2>3. accepted \in Nat
      BY DEF BufferInv, TypeOK
  <2>4. accepted' > accepted \/ accepted' = accepted
      BY <2>1, <2>3
  <2> QED BY <2>1, <2>2, <2>4 DEF Sink!Next, Sink!Accept, Sink!sinkVars
<1>4. ASSUME NEW i \in DOMAIN sends, SendByte(i)
      PROVE  BufferInv' /\ [Sink!Next]_(Sink!sinkVars)
  <2>1. /\ BufferInv' /\ Len(wire) < accepted /\ wire' = Append(wire, Len(wire) + 1)
        /\ pc # "done"
      BY <1>4, SendByteKeeps
  <2>2. /\ accepted' = accepted /\ SinkPhase' = SinkPhase /\ SinkPhase # "done"
      BY <1>4, <2>1 DEF SendByte, source, SinkPhase
  <2> QED BY <2>1, <2>2 DEF Sink!Next, Sink!Deliver, Sink!sinkVars
<1>5. ASSUME NEW i \in DOMAIN sends, SendReturns(i) \/ SendFails(i)
      PROVE  BufferInv' /\ [Sink!Next]_(Sink!sinkVars)
  <2>1. BufferInv' /\ UNCHANGED <<accepted, wire, pc>>
      BY <1>5, SendEndsKeeps
  <2> QED BY <2>1 DEF Sink!sinkVars, SinkPhase
<1>6. CASE UNCHANGED vars
  <2>1. UNCHANGED <<mem, buf, spare, inflight, pc, todo, accepted, sends, written, wire, declared>>
      BY <1>6 DEF vars
  <2>2. BufferInv'
      BY <2>1, ControlKeeps DEF BufferInv, TypeOK, Ownership, Ending
  <2> QED BY <2>1, <2>2 DEF Sink!sinkVars, SinkPhase
<1>7. FlushSends => buf.len = 0 \/ buf.len > 0
    BY DEF FlushSends
<1> QED BY <1>1, <1>2, <1>3, <1>4, <1>5, <1>6, <1>7 DEF Next, SourceSteps, Sends, Quiet
-----------------------------------------------------------------------------
\* The buffers, the wire and the count agree in every reachable state.
LEMMA Invariance == Spec => []BufferInv
<1>1. BufferInv /\ [Next]_vars => BufferInv'
    BY BufferStep
<1> QED BY <1>1, InitBufferInv, PTL DEF Spec

\* What StreamEnd declares (uploadStreamOnce) is the length of the archive and of what
\* is on the wire, whatever the sizes of frames and writes and the quota.
THEOREM DeclaredExact == Spec => []DeclaredIsSent
<1>1. BufferInv => DeclaredIsSent
  <2> SUFFICES ASSUME BufferInv, pc = "done" PROVE declared = accepted /\ declared = Len(wire)
      BY DEF DeclaredIsSent
  <2>1. buf.len = 0 /\ Delivered /\ declared = written /\ LastPos = LastLen
      BY DEF BufferInv, Ending, Contents
  <2> QED BY <2>1, Counts
<1> QED BY <1>1, Invariance, PTL

\* FrameBuffer and streamWriter (framebuffer.go, stream.go) are an ordered byte sink.
THEOREM FrameBufferIsByteSink == Spec => IsByteSink
<1>1. Init => Sink!Init
    BY DEF Init, Sink!Init, SinkPhase
<1>2. BufferInv /\ [Next]_vars => [Sink!Next]_(Sink!sinkVars)
    BY BufferStep
<1> QED BY <1>1, <1>2, Invariance, PTL DEF Spec, IsByteSink, Sink!Spec
=============================================================================
