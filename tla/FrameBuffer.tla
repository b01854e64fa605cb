---------------------------- MODULE FrameBuffer ----------------------------
(***************************************************************************)
(* The sending half of a v2 client: the archiver writes into FrameBuffer   *)
(* (pkg/remote/framebuffer.go), whose background send goes through         *)
(* streamWriter (pkg/remote/stream.go), and uploadStreamOnce declares the  *)
(* end of the stream with the byte count streamWriter kept.  The buffers   *)
(* are memory, as in BlobUpload: a send reads its array while the archiver *)
(* fills the other.  The connection, the server and the reader goroutine   *)
(* that learns of a server failure are external.                           *)
(***************************************************************************)
EXTENDS Naturals, Sequences, FiniteSets

CONSTANTS Size,        \* StreamFrameSize: one buffer, one frame
          MaxWrite,    \* longest slice the archiver writes
          MaxBytes,    \* bound on the length of the archive
          Quota        \* MaxBytes of the HelloAck, 0 for none

ASSUME FrameAssumption ==
    /\ Size \in Nat \ {0}
    /\ MaxWrite \in Nat \ {0}
    /\ MaxBytes \in Nat
    /\ Quota \in Nat

VARIABLES mem,        \* the two arrays
          buf,        \* f.buf: [arr, len]
          spare,      \* f.spare: the other array
          inflight,   \* f.inflight: the send whose channel it is, or 0
          err,        \* f.err # nil
          pc,         \* the source: "walk", "write", "flush", "drain", "end", "done", "failed"
          todo,       \* len(p) left to copy in Write
          accepted,   \* bytes the archiver wrote
          sends,      \* every send started: [arr, len, pos, res]
          written,    \* streamWriter.written
          readerErr,  \* streamReader.failure() # nil
          wire,       \* bytes on the connection, in order
          declared    \* RawBytes of the StreamEnd, once it is sent

source == <<mem, buf, spare, inflight, err, pc, todo, accepted>>
vars == <<mem, buf, spare, inflight, err, pc, todo, accepted, sends, written,
          readerErr, wire, declared>>

least(a, b) == IF a <= b THEN a ELSE b

Init ==
    /\ mem = [a \in 1..2 |-> [i \in 1..Size |-> 0]]
    /\ buf = [arr |-> 1, len |-> 0]
    /\ spare = 2
    /\ inflight = 0
    /\ err = FALSE
    /\ pc = "walk"
    /\ todo = 0
    /\ accepted = 0
    /\ sends = <<>>
    /\ written = 0
    /\ readerErr = FALSE
    /\ wire = <<>>
    /\ declared = 0

Running == {i \in DOMAIN sends : sends[i].res = "running"}

\* Mutant: the goroutine signals only a send that succeeded.
WaitOverOnSuccess == inflight \notin {i \in DOMAIN sends : sends[i].res # "sent"}

\* The receive of wait can complete, or there is nothing to wait for.
WaitOver == inflight \notin Running

\* f.err after wait.
ErrAfter == err \/ (inflight # 0 /\ sends[inflight].res = "failed")

-----------------------------------------------------------------------------
(* The archive source *)

\* The archiver writes its next bytes.
Write(n) ==
    /\ pc = "walk"
    /\ ~err
    /\ accepted + n <= MaxBytes
    /\ pc' = "write"
    /\ todo' = n
    /\ UNCHANGED <<mem, buf, spare, inflight, err, accepted, sends, written,
                   readerErr, wire, declared>>

\* The append in Write's loop; the call returns when nothing is left.
WriteCopies ==
    /\ pc = "write"
    /\ buf.len < Size
    /\ LET n == least(todo, Size - buf.len)
       IN  /\ mem' = [mem EXCEPT ![buf.arr] =
                        [i \in 1..Size |->
                           IF i \in buf.len + 1 .. buf.len + n
                           THEN accepted + i - buf.len ELSE @[i]]]
           /\ buf' = [buf EXCEPT !.len = @ + n]
           /\ accepted' = accepted + n
           /\ todo' = todo - n
           /\ pc' = IF todo = n THEN "walk" ELSE "write"
    /\ UNCHANGED <<spare, inflight, err, sends, written, readerErr, wire, declared>>

\* Mutant: the previous send is not waited for.
StartSendNoWait ==
    /\ buf' = [arr |-> spare, len |-> 0]
    /\ spare' = buf.arr
    /\ sends' = Append(sends, [arr |-> buf.arr, len |-> buf.len, pos |-> 0, res |-> "running"])
    /\ inflight' = Len(sends) + 1
    /\ UNCHANGED err

\* startSend on a buffer that holds something: wait, swap, send.
StartSend ==
    /\ WaitOver
    /\ ~ErrAfter
    /\ buf' = [arr |-> spare, len |-> 0]
    /\ spare' = buf.arr
    /\ sends' = Append(sends, [arr |-> buf.arr, len |-> buf.len, pos |-> 0, res |-> "running"])
    /\ inflight' = Len(sends) + 1
    /\ UNCHANGED err

\* wait returned an error: the source gives up with it.
WaitFails ==
    /\ WaitOver
    /\ ErrAfter
    /\ err' = TRUE
    /\ inflight' = 0
    /\ pc' = "failed"

WriteSends ==
    /\ pc = "write"
    /\ buf.len = Size
    /\ StartSend
    /\ UNCHANGED <<mem, pc, todo, accepted, written, readerErr, wire, declared>>

WriteFails ==
    /\ pc = "write"
    /\ buf.len = Size
    /\ WaitFails
    /\ UNCHANGED <<mem, buf, spare, todo, accepted, sends, written, readerErr, wire, declared>>

\* The walk fails (an unreadable root): the send in flight is left to itself.
WalkFails ==
    /\ pc = "walk"
    /\ pc' = "failed"
    /\ UNCHANGED <<mem, buf, spare, inflight, err, todo, accepted, sends, written,
                   readerErr, wire, declared>>

\* The archive is complete: Flush.
Flush ==
    /\ pc = "walk"
    /\ pc' = "flush"
    /\ UNCHANGED <<mem, buf, spare, inflight, err, todo, accepted, sends, written,
                   readerErr, wire, declared>>

\* Flush's startSend.
FlushSends ==
    /\ pc = "flush"
    /\ \/ /\ buf.len > 0
          /\ StartSend
       \/ /\ buf.len = 0
          /\ UNCHANGED <<buf, spare, inflight, err, sends>>
    /\ pc' = "drain"
    /\ UNCHANGED <<mem, todo, accepted, written, readerErr, wire, declared>>

FlushFails ==
    /\ pc = "flush"
    /\ buf.len > 0
    /\ WaitFails
    /\ UNCHANGED <<mem, buf, spare, todo, accepted, sends, written, readerErr, wire, declared>>

\* Flush's wait.
FlushReturns ==
    /\ pc = "drain"
    /\ WaitOver
    /\ ~ErrAfter
    /\ inflight' = 0
    /\ pc' = "end"
    /\ UNCHANGED <<mem, buf, spare, err, todo, accepted, sends, written, readerErr, wire, declared>>

DrainFails ==
    /\ pc = "drain"
    /\ WaitFails
    /\ UNCHANGED <<mem, buf, spare, todo, accepted, sends, written, readerErr, wire, declared>>

\* uploadStreamOnce after Source: StreamEnd carries streamWriter's count.
StreamEnd ==
    /\ pc = "end"
    /\ \/ /\ declared' = written
          /\ pc' = "done"
       \/ /\ pc' = "failed"
          /\ UNCHANGED declared
    /\ UNCHANGED <<mem, buf, spare, inflight, err, todo, accepted, sends, written, readerErr, wire>>

-----------------------------------------------------------------------------
(* A send: streamWriter.Write of one buffer, which is one frame at most *)

\* The quota check at the head of the loop.
FrameFits(i) == Quota > 0 => written + sends[i].len <= Quota

\* The frame goes out byte by byte, read from memory while it goes.
SendByte(i) ==
    /\ sends[i].res = "running"
    /\ sends[i].pos < sends[i].len
    /\ sends[i].pos = 0 => ~readerErr /\ FrameFits(i)
    /\ sends' = [sends EXCEPT ![i].pos = @ + 1]
    /\ wire' = Append(wire, mem[sends[i].arr][sends[i].pos + 1])
    /\ UNCHANGED <<source, written, readerErr, declared>>

\* Mutant: a short last frame is counted as a full one.
SendReturnsFullFrame(i) ==
    /\ sends[i].res = "running"
    /\ sends[i].pos = sends[i].len
    /\ sends' = [sends EXCEPT ![i].res = "sent"]
    /\ written' = written + Size
    /\ UNCHANGED <<source, readerErr, wire, declared>>

\* The frame is out: count it and report to the channel.
SendReturns(i) ==
    /\ sends[i].res = "running"
    /\ sends[i].pos = sends[i].len
    /\ sends' = [sends EXCEPT ![i].res = "sent"]
    /\ written' = written + sends[i].len
    /\ UNCHANGED <<source, readerErr, wire, declared>>

\* The reader has failed, the quota is reached, or the connection broke.
SendFails(i) ==
    /\ sends[i].res = "running"
    /\ sends' = [sends EXCEPT ![i].res = "failed"]
    /\ UNCHANGED <<source, written, readerErr, wire, declared>>

Sends == \E i \in DOMAIN sends : SendByte(i) \/ SendReturns(i) \/ SendFails(i)

\* streamReader.run met an error of the server or of the connection.
ReaderFails ==
    /\ ~readerErr
    /\ pc \notin {"done", "failed"}
    /\ readerErr' = TRUE
    /\ UNCHANGED <<source, sends, written, wire, declared>>

SourceSteps ==
    \/ WriteCopies \/ WriteSends \/ WriteFails
    \/ FlushSends \/ FlushFails \/ FlushReturns \/ DrainFails
    \/ StreamEnd

Next ==
    \/ \E n \in 1..MaxWrite : Write(n)
    \/ WalkFails
    \/ Flush
    \/ SourceSteps
    \/ Sends
    \/ ReaderFails

Spec == Init /\ [][Next]_vars

\* A send ends (the connection has an idle deadline), calls go on, and the walk ends.
FairSpec == Spec /\ WF_vars(SourceSteps) /\ WF_vars(Sends) /\ WF_vars(Flush)
=============================================================================
