----------------------------- MODULE BlobUpload -----------------------------
(***************************************************************************)
(* The registry upload of pkg/registry/blob.go: Write fills one chunk      *)
(* buffer while a background PATCH sends the other.  The buffers are       *)
(* modelled as memory: a slice is an array and a length, a PATCH reads its *)
(* array one byte at a time while the caller goes on, so handing out an    *)
(* array that is still being sent would show.  A byte is its position in   *)
(* the stream.                                                             *)
(*                                                                         *)
(* The registry is external: it keeps one upload session, whose location   *)
(* changes with every PATCH, and refuses a request to an old location.     *)
(* Any request may fail, before, while or after the registry acted on it.  *)
(***************************************************************************)
EXTENDS Naturals, Sequences, FiniteSets

CONSTANTS ChunkSize,   \* capacity of one buffer
          MaxWrite,    \* longest slice passed to one Write
          MaxBytes     \* bound on the bytes written to one blob

ASSUME BlobAssumption ==
    /\ ChunkSize \in Nat \ {0}
    /\ MaxWrite \in Nat \ {0}
    /\ MaxBytes \in Nat

VARIABLES mem,        \* the allocated arrays, by number
          buf,        \* u.buf: [arr, len]
          spare,      \* u.spare: an array, or 0 for nil
          inflight,   \* u.inflight: the PATCH whose channel it is, or 0
          loc,        \* u.loc
          err,        \* u.err # nil
          committed,
          aborted,
          pc,         \* where the call that holds u.mu is
          todo,       \* len(p) left to copy in Write
          accepted,   \* bytes taken by Write so far
          patches,    \* every PATCH started: [arr, len, pos, loc, res]
          session     \* registry: [loc, data, state]

client == <<mem, buf, spare, inflight, loc, err, committed, aborted, pc, todo, accepted>>
vars == <<mem, buf, spare, inflight, loc, err, committed, aborted, pc, todo,
          accepted, patches, session>>

least(a, b) == IF a <= b THEN a ELSE b

\* make([]byte, 0, chunkSize): the content of a fresh array is zeros.
FreshArray == [i \in 1..ChunkSize |-> 0]

-----------------------------------------------------------------------------
(* The client *)

\* BlobClient.Open: startUpload answered with a location.
Init ==
    /\ mem = <<FreshArray>>
    /\ buf = [arr |-> 1, len |-> 0]
    /\ spare = 0
    /\ inflight = 0
    /\ loc = 0
    /\ err = FALSE
    /\ committed = FALSE
    /\ aborted = FALSE
    /\ pc = "idle"
    /\ todo = 0
    /\ accepted = 0
    /\ patches = <<>>
    /\ session = [loc |-> 0, data |-> <<>>, state |-> "open"]

Running == {i \in DOMAIN patches : patches[i].res = "running"}

\* The receive of waitFlush can complete (or there is nothing to wait for).
FlushOver == inflight \notin Running

FlushFailed == inflight # 0 /\ patches[inflight].res = "failed"

\* The spare buffer and the location after waitFlush.
SpareAfter == IF inflight = 0 THEN spare ELSE patches[inflight].arr
LocAfter == IF inflight = 0 THEN loc ELSE patches[inflight].next

\* waitFlush returned an error to a caller that gives up.
WaitFails ==
    /\ FlushOver
    /\ FlushFailed
    /\ spare' = SpareAfter
    /\ inflight' = 0
    /\ err' = TRUE

Patch(arr, len, at) ==
    [arr |-> arr, len |-> len, pos |-> 0, loc |-> at, res |-> "running", next |-> 0]

\* Write, entered.
Write(n) ==
    /\ pc = "idle"
    /\ ~err /\ ~committed /\ ~aborted
    /\ accepted + n <= MaxBytes
    /\ pc' = "write"
    /\ todo' = n
    /\ UNCHANGED <<mem, buf, spare, inflight, loc, err, committed, aborted,
                   accepted, patches, session>>

\* The append in Write's loop; the call returns when nothing is left.
WriteCopies ==
    /\ pc = "write"
    /\ buf.len < ChunkSize
    /\ LET n == least(todo, ChunkSize - buf.len)
       IN  /\ mem' = [mem EXCEPT ![buf.arr] =
                        [i \in 1..ChunkSize |->
                           IF i \in buf.len + 1 .. buf.len + n
                           THEN accepted + i - buf.len ELSE @[i]]]
           /\ buf' = [buf EXCEPT !.len = @ + n]
           /\ accepted' = accepted + n
           /\ todo' = todo - n
           /\ pc' = IF todo = n THEN "idle" ELSE "write"
    /\ UNCHANGED <<spare, inflight, loc, err, committed, aborted, patches, session>>

\* Mutant: the full buffer is sent and refilled, without the swap.
StartFlushNoSwap ==
    /\ FlushOver
    /\ ~FlushFailed
    /\ buf' = [buf EXCEPT !.len = 0]
    /\ loc' = LocAfter
    /\ patches' = Append(patches, Patch(buf.arr, buf.len, LocAfter))
    /\ inflight' = Len(patches) + 1
    /\ UNCHANGED <<mem, spare>>

\* startFlush on a full buffer: wait for the PATCH before, swap, send.
StartFlush ==
    /\ FlushOver
    /\ ~FlushFailed
    /\ mem' = IF SpareAfter = 0 THEN Append(mem, FreshArray) ELSE mem
    /\ buf' = [arr |-> IF SpareAfter = 0 THEN Len(mem) + 1 ELSE SpareAfter, len |-> 0]
    /\ spare' = 0
    /\ loc' = LocAfter
    /\ patches' = Append(patches, Patch(buf.arr, buf.len, LocAfter))
    /\ inflight' = Len(patches) + 1

WriteFlushes ==
    /\ pc = "write"
    /\ buf.len = ChunkSize
    /\ StartFlush
    /\ UNCHANGED <<err, committed, aborted, pc, todo, accepted, session>>

WriteFails ==
    /\ pc = "write"
    /\ buf.len = ChunkSize
    /\ WaitFails
    /\ pc' = "idle"
    /\ todo' = 0
    /\ UNCHANGED <<mem, buf, loc, committed, aborted, accepted, patches, session>>

\* Commit, entered: flush waits for the PATCH in flight.
Commit ==
    /\ pc = "idle"
    /\ ~err /\ ~aborted /\ ~committed
    /\ pc' = "flush"
    /\ UNCHANGED <<mem, buf, spare, inflight, loc, err, committed, aborted,
                   todo, accepted, patches, session>>

\* Mutant: what is left in the buffer is not sent.
FlushSendsNothing ==
    /\ pc = "flush"
    /\ FlushOver /\ ~FlushFailed
    /\ spare' = SpareAfter
    /\ loc' = LocAfter
    /\ inflight' = 0
    /\ pc' = "put"
    /\ UNCHANGED <<mem, buf, err, committed, aborted, todo, accepted, patches, session>>

\* flush: send what is left in the buffer, in the calling goroutine.
FlushSends ==
    /\ pc = "flush"
    /\ FlushOver /\ ~FlushFailed
    /\ spare' = SpareAfter
    /\ loc' = LocAfter
    /\ inflight' = 0
    /\ IF buf.len = 0
       THEN pc' = "put" /\ UNCHANGED patches
       ELSE /\ pc' = "patch"
            /\ patches' = Append(patches, Patch(buf.arr, buf.len, LocAfter))
    /\ UNCHANGED <<mem, buf, err, committed, aborted, todo, accepted, session>>

FlushFails ==
    /\ pc = "flush"
    /\ WaitFails
    /\ pc' = "idle"
    /\ UNCHANGED <<mem, buf, loc, committed, aborted, todo, accepted, patches, session>>

\* Mutant: the error of the last PATCH is not looked at.
FlushReturnsOnSuccess ==
    /\ pc = "patch"
    /\ patches[Len(patches)].res = "sent"
    /\ loc' = patches[Len(patches)].next
    /\ buf' = [buf EXCEPT !.len = 0]
    /\ pc' = "put"
    /\ UNCHANGED <<mem, spare, inflight, err, committed, aborted, todo, accepted, patches, session>>

\* The PATCH of flush answered.
FlushReturns ==
    /\ pc = "patch"
    /\ LET p == patches[Len(patches)]
       IN  \/ /\ p.res = "sent"
              /\ loc' = p.next
              /\ buf' = [buf EXCEPT !.len = 0]
              /\ pc' = "put"
              /\ UNCHANGED err
           \/ /\ p.res = "failed"
              /\ err' = TRUE
              /\ pc' = "idle"
              /\ UNCHANGED <<loc, buf>>
    /\ UNCHANGED <<mem, spare, inflight, committed, aborted, todo, accepted, patches, session>>

\* putFinal: a PUT at the current location turns the session into a blob.
PutFinal ==
    /\ pc = "put"
    /\ loc = session.loc
    /\ session.state = "open"
    /\ session' = [session EXCEPT !.state = "blob"]
    /\ committed' = TRUE
    /\ pc' = "idle"
    /\ UNCHANGED <<mem, buf, spare, inflight, loc, err, aborted, todo, accepted, patches>>

\* The PUT was refused or its answer lost.
PutFinalFails ==
    /\ pc = "put"
    /\ \/ UNCHANGED session
       \/ /\ loc = session.loc
          /\ session' = [session EXCEPT !.state = "blob"]
    /\ err' = TRUE
    /\ pc' = "idle"
    /\ UNCHANGED <<mem, buf, spare, inflight, loc, committed, aborted, todo, accepted, patches>>

\* Abort, entered.
Abort ==
    /\ pc = "idle"
    /\ ~committed /\ ~aborted
    /\ aborted' = TRUE
    /\ pc' = "abort"
    /\ UNCHANGED <<mem, buf, spare, inflight, loc, err, committed, todo,
                   accepted, patches, session>>

\* Abort after waitFlush: the DELETE reaches the registry or not.
AbortDeletes ==
    /\ pc = "abort"
    /\ FlushOver
    /\ spare' = SpareAfter
    /\ inflight' = 0
    /\ loc' = IF FlushFailed THEN loc ELSE LocAfter
    /\ err' = (err \/ FlushFailed)
    /\ pc' = "idle"
    /\ \/ UNCHANGED session
       \/ /\ session.state = "open"
          /\ session' = [session EXCEPT !.state = "gone"]
    /\ UNCHANGED <<mem, buf, committed, aborted, todo, accepted, patches>>

-----------------------------------------------------------------------------
(* A PATCH in flight, and the registry it talks to *)

\* One byte of the body is read from memory and arrives.
PatchSends(i) ==
    /\ patches[i].res = "running"
    /\ patches[i].pos < patches[i].len
    /\ patches[i].loc = session.loc
    /\ session.state = "open"
    /\ patches' = [patches EXCEPT ![i].pos = @ + 1]
    /\ session' = [session EXCEPT
                     !.data = Append(@, mem[patches[i].arr][patches[i].pos + 1])]
    /\ UNCHANGED client

\* The registry took the whole body and moved the session's location.
PatchAnswered(i) ==
    /\ patches[i].res = "running"
    /\ patches[i].pos = patches[i].len
    /\ patches[i].loc = session.loc
    /\ session.state = "open"
    /\ session' = [session EXCEPT !.loc = @ + 1]
    /\ \/ patches' = [patches EXCEPT ![i].res = "sent", ![i].next = session.loc + 1]
       \/ patches' = [patches EXCEPT ![i].res = "failed"]
    /\ UNCHANGED client

\* The request failed on the way, at any byte.
PatchFails(i) ==
    /\ patches[i].res = "running"
    /\ patches' = [patches EXCEPT ![i].res = "failed"]
    /\ UNCHANGED <<client, session>>

Requests == \E i \in DOMAIN patches : PatchSends(i) \/ PatchAnswered(i) \/ PatchFails(i)

\* The steps a call in progress takes by itself.
CallSteps ==
    \/ WriteCopies \/ WriteFlushes \/ WriteFails
    \/ FlushSends \/ FlushFails \/ FlushReturns
    \/ PutFinal \/ PutFinalFails
    \/ AbortDeletes

Next ==
    \/ \E n \in 1..MaxWrite : Write(n)
    \/ Commit
    \/ Abort
    \/ CallSteps
    \/ Requests

Spec == Init /\ [][Next]_vars

\* A request is answered or fails, and a call that can go on does.  The HTTP
\* client detects a dead peer (keep-alive) but puts no deadline on a request: a
\* registry that holds the connection and never answers is assumed away here.
FairSpec == Spec /\ WF_vars(CallSteps) /\ WF_vars(Requests)
=============================================================================
