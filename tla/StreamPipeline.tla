--------------------------- MODULE StreamPipeline ---------------------------
(***************************************************************************)
(* The server side of one streaming (protocol v2) backup session:          *)
(* pkg/server/stream.go driven by pkg/server/session_stream.go.            *)
(*                                                                         *)
(* Four goroutines share the work:                                         *)
(*   session   receives Data frames, writes them into an io.Pipe, and ends *)
(*             with Finish (StreamEnd) or Abort (any failure);             *)
(*   builder   (streamBuilder.run) reads the pipe, cuts chunks, appends    *)
(*             them to the spool of the current layer and hands a finished *)
(*             spool to the uploader over an unbuffered channel;           *)
(*   uploader  (startUploader) turns one spool at a time into an OCI layer *)
(*             and pushes it;                                              *)
(*   scanner   (scanArchive) parses a tee of the same bytes.               *)
(*                                                                         *)
(* Data abstraction.  The raw archive is a sequence of units; a Data frame *)
(* carries one unit (a longer frame is as many consecutive writes).  A     *)
(* chunk is a sequence of units, its stored form is that payload with the  *)
(* nonce it was sealed under, and the digest of a layer blob is the        *)
(* sequence of stored chunks in it, since SHA-256 is taken as injective.   *)
(* One unit counts as one byte, before and after compression.              *)
(***************************************************************************)
EXTENDS Integers, Sequences, FiniteSets

CONSTANTS
  Unit,           \* the units an archive is made of
  ChunkCut,       \* units after which the content-defined chunker cuts
  LayerCut,       \* a stored chunk starting with one of these closes a layer
  Dedup,          \* StreamStart.dedup: content-defined chunks and layers
  RandomNonce,    \* the sealer draws a fresh nonce per chunk
  ChunkUnits,     \* largest chunk
  LayerBytes,     \* plan.LayerBytes, the target layer size
  MaxDataLayers,  \* maxDataLayers (118)
  FallbackAt,     \* layers after which boundaries become fixed (110)
  MinChunkSize,   \* chunk.MinChunkSize
  MaxBytes,       \* session quota, 0 for none
  Estimated,      \* StreamStart.estimated_bytes
  MaxUnits,       \* bound: units one behaviour may send
  NoTag           \* nothing published under the reference

ASSUME PipelineAssumption ==
  /\ ChunkCut \subseteq Unit /\ LayerCut \subseteq Unit
  /\ Dedup \in BOOLEAN /\ RandomNonce \in BOOLEAN
  /\ ChunkUnits \in Nat \ {0} /\ LayerBytes \in Nat \ {0}
  /\ MaxDataLayers \in Nat \ {0} /\ FallbackAt \in Nat
  /\ MinChunkSize \in Nat \ {0} /\ MaxBytes \in Nat
  /\ Estimated \in Nat /\ MaxUnits \in Nat

VARIABLES
  sess,       \* session goroutine: "open", "writing", "finish", "abort", "closed"
  frame,      \* the unit a blocked pipe write offers, <<>> when none
  wpipe,      \* write side of the pipe: "open", "eof", "aborted"
  rpipe,      \* read side of the pipe: "open", "closed"
  ctxDone,    \* the server context is cancelled
  bpc,        \* control point of the builder
  received,   \* every unit the builder has read from the pipe
  buf,        \* units of the chunk being cut
  spool,      \* spool being filled: [open, size]
  rows,       \* chunk table: [at, payload, nonce, p]
  nextFrom,   \* first chunk of the current layer (0-based)
  layerCount, \* layers handed to the uploader
  closeAt,    \* size of the fixed layer boundary, 0 for content-defined
  last,       \* the roll in progress is the one after the stream ended
  outbox,     \* the pending layer the builder is sending, <<>> when none
  closing,    \* b.pending is closed
  layers,     \* results folded in by drainUploader
  scan,       \* scanner: "parse", "drain", "done"
  scanErr,    \* the archive did not parse
  scanClosed, \* the tee's write end is closed
  upc,        \* control point of the uploader
  job,        \* the layer the uploader holds, <<>> when none
  uploadErr,  \* b.uploadErr is set
  results,    \* layers published so far, written by the uploader
  disk,       \* temporary files in --work-dir
  registry,   \* layer blobs the registry holds
  tag,        \* the image the reference points at
  outcome,    \* what run returned: "none", "ok", "err"
  reply       \* last message to the client: "none", "BackupEnd", "Error"

sessionVars  == <<sess, frame, wpipe, reply>>
chunkVars    == <<received, buf, spool, rows, nextFrom, layerCount, closeAt>>
rollVars     == <<last, outbox, closing, layers>>
scanVars     == <<scan, scanErr, scanClosed>>
uploadVars   == <<upc, job, uploadErr, results, registry>>
endVars      == <<rpipe, tag, outcome>>
vars == <<sessionVars, ctxDone, bpc, chunkVars, rollVars, scanVars,
          uploadVars, endVars, disk>>

-----------------------------------------------------------------------------
(* Operators of the builder.                                               *)

\* sealer.Seal: without a random nonce equal payloads are stored equally.
Stored(i, units) == [payload |-> units, nonce |-> IF RandomNonce THEN i ELSE 0]

\* A splitter ends its chunk here: fixed size, or a content-defined cut.
ChunkFull(b) ==
  \/ Len(b) = ChunkUnits
  \/ Dedup /\ b[Len(b)] \in ChunkCut

\* contentBoundary.ShouldClose / fixedBoundary.ShouldClose on the stored bytes
\* of the layer; closeAt tells which boundary is installed.
ShouldClose(size, units) ==
  IF closeAt > 0
  THEN size >= closeAt
  ELSE \/ size >= 4 * LayerBytes
       \/ size >= LayerBytes \div 4 /\ units[1] \in LayerCut

\* shouldRoll: one unconstrained layer is always kept in reserve.
ShouldRoll(size, units) ==
  layerCount < MaxDataLayers - 1 /\ ShouldClose(size, units)

\* applyBoundaryFallback, run right after the hand-off.
CeilDiv(a, b) == (a + b - 1) \div b
FallbackBytes ==
  LET share == CeilDiv(Estimated - Len(received), 8)
  IN  IF share < MinChunkSize THEN MinChunkSize ELSE share
BoundaryAfterRoll ==
  IF Dedup /\ closeAt = 0 /\ layerCount >= FallbackAt
  THEN FallbackBytes ELSE closeAt

SpoolFile(k) == <<"spool", k>>
LayerFile(k) == <<"layer", k>>

\* The digest of the stored bytes of chunks from..to, and the name of the data
\* file inside the image, which dataBlobPath derives from that digest alone.
BlobDigest(table, from, to) ==
  [i \in 1..(to - from + 1) |->
     [payload |-> table[from + i].payload, nonce |-> table[from + i].nonce]]

NoPath == <<>>

Init ==
  /\ sess = "open" /\ frame = <<>> /\ wpipe = "open" /\ rpipe = "open"
  /\ ctxDone = FALSE
  /\ bpc = "check" /\ received = <<>> /\ buf = <<>>
  /\ spool = [open |-> FALSE, size |-> 0]
  /\ rows = <<>> /\ nextFrom = 0 /\ layerCount = 0
  /\ closeAt = IF Dedup THEN 0 ELSE LayerBytes
  /\ last = FALSE /\ outbox = <<>> /\ closing = FALSE /\ layers = <<>>
  /\ scan = "parse" /\ scanErr = FALSE /\ scanClosed = FALSE
  /\ upc = "recv" /\ job = <<>> /\ uploadErr = FALSE /\ results = <<>>
  /\ disk = {} /\ registry = {} /\ tag = NoTag
  /\ outcome = "none" /\ reply = "none"

-----------------------------------------------------------------------------
(* Session goroutine.                                                      *)

\* Session.fail / Session.abort with an ingest: Abort closes the pipe with
\* errStreamAborted and then waits for the builder.
AbortIngest == sess' = "abort" /\ wpipe' = "aborted" /\ frame' = <<>>

\* streamData: the quota is checked before the write, which then blocks until
\* the builder takes the unit.
StreamData(u) ==
  /\ sess = "open" /\ Len(received) < MaxUnits
  /\ IF MaxBytes > 0 /\ Len(received) + 1 > MaxBytes
     THEN AbortIngest
     ELSE sess' = "writing" /\ frame' = <<u>> /\ UNCHANGED wpipe
  /\ UNCHANGED <<reply, ctxDone, bpc, chunkVars, rollVars, scanVars,
                 uploadVars, endVars, disk>>

\* ingest.Write returns the pipeline's error: the builder closed the read side.
StreamWriteFails ==
  /\ sess = "writing" /\ rpipe = "closed"
  /\ AbortIngest
  /\ UNCHANGED <<reply, ctxDone, bpc, chunkVars, rollVars, scanVars,
                 uploadVars, endVars, disk>>

\* streamEnd with the right byte count: Finish closes the pipe and waits.
StreamEnd ==
  /\ sess = "open"
  /\ sess' = "finish" /\ wpipe' = "eof"
  /\ UNCHANGED <<frame, reply, ctxDone, bpc, chunkVars, rollVars, scanVars,
                 uploadVars, endVars, disk>>

\* Everything else that ends a streaming session between two frames: a broken
\* or idle connection, a bad frame, a wrong StreamEnd.raw_bytes, Cancel, a
\* cancelled context in Run or in throttle.
SessionFails ==
  /\ sess = "open"
  /\ AbortIngest
  /\ UNCHANGED <<reply, ctxDone, bpc, chunkVars, rollVars, scanVars,
                 uploadVars, endVars, disk>>

\* Finish (or Abort) returns once in.done is closed, and the session answers.
SessionReturns ==
  /\ sess \in {"finish", "abort"} /\ bpc = "done"
  /\ sess' = "closed"
  /\ reply' = IF sess = "finish" /\ outcome = "ok" THEN "BackupEnd" ELSE "Error"
  /\ UNCHANGED <<frame, wpipe, ctxDone, bpc, chunkVars, rollVars, scanVars,
                 uploadVars, endVars, disk>>

\* The server shuts down (external): its context is cancelled.
CancelContext ==
  /\ ~ctxDone /\ sess # "closed" /\ ctxDone' = TRUE
  /\ UNCHANGED <<sessionVars, bpc, chunkVars, rollVars, scanVars,
                 uploadVars, endVars, disk>>

-----------------------------------------------------------------------------
(* Builder goroutine: streamBuilder.run.                                   *)

\* Top of the loop: a cancelled context or a failed upload stops the receiver.
CheckFailure ==
  /\ bpc = "check"
  /\ bpc' = IF ctxDone \/ uploadErr THEN "abort" ELSE "read"
  /\ UNCHANGED <<sessionVars, ctxDone, chunkVars, rollVars, scanVars,
                 uploadVars, endVars, disk>>

\* splitter.Next takes a unit.  The TeeReader hands it to the scanner first,
\* which must therefore still be reading.
ReadUnit ==
  /\ bpc = "read" /\ frame # <<>> /\ scan # "done"
  /\ received' = received \o frame
  /\ buf' = buf \o frame
  /\ bpc' = IF ChunkFull(buf') THEN "store" ELSE "read"
  /\ sess' = "open" /\ frame' = <<>>
  /\ UNCHANGED <<wpipe, reply, ctxDone, spool, rows, nextFrom, layerCount,
                 closeAt, rollVars, scanVars, uploadVars, endVars, disk>>

\* End of stream: a partial chunk is still a chunk.
ReadEOF ==
  /\ bpc = "read" /\ frame = <<>> /\ wpipe = "eof"
  /\ bpc' = IF buf = <<>> THEN "roll" ELSE "store"
  /\ last' = (buf = <<>>)
  /\ UNCHANGED <<sessionVars, ctxDone, chunkVars, outbox, closing, layers,
                 scanVars, uploadVars, endVars, disk>>

\* Mutant: an aborted pipe reads like the end of the stream.
ReadAbortedAsEOF ==
  /\ bpc = "read" /\ frame = <<>> /\ wpipe = "aborted"
  /\ bpc' = IF buf = <<>> THEN "roll" ELSE "store"
  /\ last' = (buf = <<>>)
  /\ UNCHANGED <<sessionVars, ctxDone, chunkVars, outbox, closing, layers,
                 scanVars, uploadVars, endVars, disk>>

\* The client went away: errStreamAborted is not io.EOF, and the splitter drops
\* the partial chunk.
ReadAborted ==
  /\ bpc = "read" /\ frame = <<>> /\ wpipe = "aborted"
  /\ bpc' = "abort" /\ buf' = <<>>
  /\ UNCHANGED <<sessionVars, ctxDone, received, spool, rows, nextFrom,
                 layerCount, closeAt, rollVars, scanVars, uploadVars, endVars,
                 disk>>

\* storeChunk, the quota check and shouldRoll.  The chunk ends where the
\* received units end, so it starts Len(buf) units before.
StoreChunk ==
  LET size == spool.size + Len(buf)
      sealed == Stored(Len(rows), buf)
  IN
  /\ bpc = "store"
  /\ spool' = [open |-> TRUE, size |-> size]
  /\ disk' = disk \cup {SpoolFile(layerCount)}
  /\ rows' = Append(rows, [at |-> Len(received) - Len(buf),
                           payload |-> sealed.payload, nonce |-> sealed.nonce,
                           p |-> NoPath])
  /\ buf' = <<>>
  /\ bpc' = IF MaxBytes > 0 /\ Len(received) > MaxBytes THEN "abort"
            ELSE IF ShouldRoll(size, buf) THEN "roll" ELSE "check"
  /\ UNCHANGED <<sessionVars, ctxDone, received, nextFrom, layerCount, closeAt,
                 rollVars, scanVars, uploadVars, endVars>>

\* storeChunk fails in the codec, the sealer, newSpool or the spool write; in
\* the last case the spool file exists.
StoreChunkFails(created) ==
  /\ bpc = "store"
  /\ bpc' = "abort" /\ buf' = <<>>
  /\ IF created
     THEN /\ disk' = disk \cup {SpoolFile(layerCount)}
          /\ spool' = [spool EXCEPT !.open = TRUE]
     ELSE UNCHANGED <<disk, spool>>
  /\ UNCHANGED <<sessionVars, ctxDone, received, rows, nextFrom, layerCount,
                 closeAt, rollVars, scanVars, uploadVars, endVars>>

\* The pendingLayer that roll hands over.
PendingLayer == [index |-> layerCount, from |-> nextFrom, to |-> Len(rows) - 1]

\* roll up to the channel send.
Roll ==
  /\ bpc = "roll"
  /\ IF ~spool.open
     THEN bpc' = "drain" /\ UNCHANGED <<spool, nextFrom, layerCount, outbox>>
     ELSE IF layerCount >= MaxDataLayers
     THEN bpc' = "abort" /\ UNCHANGED <<spool, nextFrom, layerCount, outbox>>
     ELSE /\ outbox' = <<PendingLayer>>
          /\ spool' = [open |-> FALSE, size |-> 0]
          /\ nextFrom' = Len(rows)
          /\ layerCount' = layerCount + 1
          /\ bpc' = "send"
  /\ UNCHANGED <<sessionVars, ctxDone, received, buf, rows, closeAt, last,
                 closing, layers, scanVars, uploadVars, endVars, disk>>

\* The unbuffered hand-off: both goroutines move together.
Handoff ==
  /\ bpc = "send" /\ upc = "recv"
  /\ job' = outbox /\ upc' = "check"
  /\ outbox' = <<>> /\ bpc' = "rolled"
  /\ closeAt' = BoundaryAfterRoll
  /\ UNCHANGED <<sessionVars, ctxDone, received, buf, spool, rows, nextFrom,
                 layerCount, last, closing, layers, scanVars, uploadErr,
                 results, registry, endVars, disk>>

\* roll returns b.failure().
RollReturns ==
  /\ bpc = "rolled"
  /\ bpc' = IF uploadErr THEN "abort" ELSE IF last THEN "drain" ELSE "check"
  /\ UNCHANGED <<sessionVars, ctxDone, chunkVars, rollVars, scanVars,
                 uploadVars, endVars, disk>>

\* drainUploader: close the channel, wait, fold the results in.
DrainStart ==
  /\ bpc = "drain"
  /\ closing' = TRUE /\ bpc' = "drained"
  /\ UNCHANGED <<sessionVars, ctxDone, chunkVars, last, outbox, layers,
                 scanVars, uploadVars, endVars, disk>>

\* The row of every chunk of a published layer gets that layer's data path.
NamedRows ==
  [i \in 1..Len(rows) |->
     IF \E k \in 1..Len(results) : i - 1 \in results[k].from..results[k].to
     THEN [rows[i] EXCEPT !.p =
             results[CHOOSE k \in 1..Len(results) :
                       i - 1 \in results[k].from..results[k].to].digest]
     ELSE rows[i]]

\* Mutant: the results are folded in without waiting for the uploader.
DrainEndNoWait ==
  /\ bpc = "drained"
  /\ IF uploadErr
     THEN bpc' = "abort" /\ UNCHANGED <<rows, layers, scanClosed>>
     ELSE /\ rows' = NamedRows /\ layers' = results
          /\ scanClosed' = TRUE /\ bpc' = "scanwait"
  /\ UNCHANGED <<sessionVars, ctxDone, received, buf, spool, nextFrom,
                 layerCount, closeAt, last, outbox, closing, scan, scanErr,
                 uploadVars, endVars, disk>>

DrainEnd ==
  /\ bpc = "drained" /\ upc = "exit"
  /\ IF uploadErr
     THEN bpc' = "abort" /\ UNCHANGED <<rows, layers, scanClosed>>
     ELSE /\ rows' = NamedRows /\ layers' = results
          /\ scanClosed' = TRUE /\ bpc' = "scanwait"
  /\ UNCHANGED <<sessionVars, ctxDone, received, buf, spool, nextFrom,
                 layerCount, closeAt, last, outbox, closing, scan, scanErr,
                 uploadVars, endVars, disk>>

\* The scan outcome, then the empty-stream check.
ScanOutcome ==
  /\ bpc = "scanwait" /\ scan = "done"
  /\ IF scanErr \/ rows = <<>>
     THEN bpc' = "close" /\ outcome' = "err"
     ELSE bpc' = "publish" /\ UNCHANGED outcome
  /\ UNCHANGED <<sessionVars, ctxDone, chunkVars, rollVars, scanVars,
                 uploadVars, rpipe, tag, disk>>

\* publish: CommitStream builds the images from the descriptors and pushes.
Image == [rows |-> rows, layers |-> layers]

PublishOk ==
  /\ bpc = "publish"
  /\ tag' = Image /\ outcome' = "ok" /\ bpc' = "close"
  /\ UNCHANGED <<sessionVars, ctxDone, chunkVars, rollVars, scanVars,
                 uploadVars, rpipe, disk>>

\* An error from CommitStream; when it came after the tag was written (the
\* read-back verification, a lost answer) the reference already moved.
PublishFails(tagged) ==
  /\ bpc = "publish"
  /\ tag' = IF tagged THEN Image ELSE tag
  /\ outcome' = "err" /\ bpc' = "close"
  /\ UNCHANGED <<sessionVars, ctxDone, chunkVars, rollVars, scanVars,
                 uploadVars, rpipe, disk>>

\* The abort closure of run: end the scan, wait for it, stop the uploader.
AbortScan ==
  /\ bpc = "abort"
  /\ scanClosed' = TRUE /\ bpc' = "abortscan"
  /\ UNCHANGED <<sessionVars, ctxDone, chunkVars, rollVars, scan, scanErr,
                 uploadVars, endVars, disk>>

AbortUploader ==
  /\ bpc = "abortscan" /\ scan = "done"
  /\ closing' = TRUE /\ bpc' = "abortwait"
  /\ UNCHANGED <<sessionVars, ctxDone, chunkVars, last, outbox, layers,
                 scanVars, uploadVars, endVars, disk>>

AbortReturns ==
  /\ bpc = "abortwait" /\ upc = "exit"
  /\ outcome' = "err" /\ bpc' = "close"
  /\ UNCHANGED <<sessionVars, ctxDone, chunkVars, rollVars, scanVars,
                 uploadVars, rpipe, tag, disk>>

\* startIngest's goroutine after run: fail pending writes, then the deferred
\* cleanup and close(in.done).
ClosePipe ==
  /\ bpc = "close"
  /\ rpipe' = "closed" /\ bpc' = "cleanup"
  /\ UNCHANGED <<sessionVars, ctxDone, chunkVars, rollVars, scanVars,
                 uploadVars, tag, outcome, disk>>

Cleanup ==
  /\ bpc = "cleanup" /\ upc = "exit"
  /\ spool' = [open |-> FALSE, size |-> 0]
  /\ disk' = IF spool.open THEN disk \ {SpoolFile(layerCount)} ELSE disk
  /\ bpc' = "done"
  /\ UNCHANGED <<sessionVars, ctxDone, received, buf, rows, nextFrom,
                 layerCount, closeAt, rollVars, scanVars, uploadVars, endVars>>

-----------------------------------------------------------------------------
(* Uploader goroutine: startUploader and finishLayer.                      *)

Job == job[1]
JobDigest == BlobDigest(rows, Job.from, Job.to)
JobFiles == {SpoolFile(Job.index), LayerFile(Job.index)}

\* After a failure the channel keeps being drained, each spool removed.
UploaderCheck ==
  /\ upc = "check"
  /\ IF uploadErr
     THEN /\ disk' = disk \ {SpoolFile(Job.index)}
          /\ upc' = "recv" /\ job' = <<>>
     ELSE upc' = "build" /\ UNCHANGED <<disk, job>>
  /\ UNCHANGED <<sessionVars, ctxDone, bpc, chunkVars, rollVars, scanVars,
                 uploadErr, results, registry, endVars>>

\* Digest the spool and rebuild it as an OCI layer file beside it.
BuildLayer ==
  /\ upc = "build"
  /\ disk' = disk \cup {LayerFile(Job.index)}
  /\ upc' = "head"
  /\ UNCHANGED <<sessionVars, ctxDone, bpc, chunkVars, rollVars, scanVars,
                 job, uploadErr, results, registry, endVars>>

\* Mutant: the rebuilt layer file is not removed.
LayerDoneKeepsLayer ==
  /\ results' = Append(results, [index |-> Job.index, from |-> Job.from,
                                 to |-> Job.to, digest |-> JobDigest])
  /\ disk' = disk \ {SpoolFile(Job.index)}
  /\ upc' = "recv" /\ job' = <<>>

\* finishLayer succeeds: record the result, the deferred removals run.
LayerDone ==
  /\ results' = Append(results, [index |-> Job.index, from |-> Job.from,
                                 to |-> Job.to, digest |-> JobDigest])
  /\ disk' = disk \ JobFiles
  /\ upc' = "recv" /\ job' = <<>>

\* upload: a blob the registry already holds is skipped.
HeadLayer ==
  /\ upc = "head"
  /\ IF JobDigest \in registry
     THEN LayerDone
     ELSE upc' = "put" /\ UNCHANGED <<results, disk, job>>
  /\ UNCHANGED <<sessionVars, ctxDone, bpc, chunkVars, rollVars, scanVars,
                 uploadErr, registry, endVars>>

PutLayer ==
  /\ upc = "put"
  /\ registry' = registry \cup {JobDigest}
  /\ LayerDone
  /\ UNCHANGED <<sessionVars, ctxDone, bpc, chunkVars, rollVars, scanVars,
                 uploadErr, endVars>>

\* Any step of finishLayer fails.  A failed upload may still have stored the
\* blob (its answer was lost).
LayerFails(stored) ==
  /\ upc \in {"build", "head", "put"}
  /\ registry' = IF stored /\ upc = "put"
                 THEN registry \cup {JobDigest} ELSE registry
  /\ uploadErr' = TRUE
  /\ disk' = disk \ JobFiles
  /\ upc' = "recv" /\ job' = <<>>
  /\ UNCHANGED <<sessionVars, ctxDone, bpc, chunkVars, rollVars, scanVars,
                 results, endVars>>

\* Mutant: the uploader goroutine returns on its first failure.
UploaderExitOnFailure ==
  /\ upc = "recv" /\ (closing \/ uploadErr)
  /\ upc' = "exit"
  /\ UNCHANGED <<sessionVars, ctxDone, bpc, chunkVars, rollVars, scanVars,
                 job, uploadErr, results, registry, endVars, disk>>

\* The range over b.pending ends when the channel is closed.
UploaderExit ==
  /\ upc = "recv" /\ closing
  /\ upc' = "exit"
  /\ UNCHANGED <<sessionVars, ctxDone, bpc, chunkVars, rollVars, scanVars,
                 job, uploadErr, results, registry, endVars, disk>>

-----------------------------------------------------------------------------
(* Scanner goroutine.                                                      *)

\* scanArchive returns, with or without an error, before the stream ends; the
\* goroutine keeps draining the tee.
ScanStops(err) ==
  /\ scan = "parse"
  /\ scan' = "drain" /\ scanErr' = err
  /\ UNCHANGED <<sessionVars, ctxDone, bpc, chunkVars, rollVars, scanClosed,
                 uploadVars, endVars, disk>>

\* The drain ends with the tee.
ScanEnds ==
  /\ scan = "drain" /\ scanClosed
  /\ scan' = "done"
  /\ UNCHANGED <<sessionVars, ctxDone, bpc, chunkVars, rollVars, scanErr,
                 scanClosed, uploadVars, endVars, disk>>

-----------------------------------------------------------------------------
Session ==
  \/ \E u \in Unit : StreamData(u)
  \/ StreamWriteFails \/ StreamEnd \/ SessionFails \/ SessionReturns

Builder ==
  \/ CheckFailure \/ ReadUnit \/ ReadEOF \/ ReadAborted
  \/ StoreChunk \/ (\E created \in BOOLEAN : StoreChunkFails(created))
  \/ Roll \/ RollReturns \/ DrainStart \/ DrainEnd \/ ScanOutcome
  \/ PublishOk \/ (\E tagged \in BOOLEAN : PublishFails(tagged))
  \/ AbortScan \/ AbortUploader \/ AbortReturns \/ ClosePipe \/ Cleanup

Uploader ==
  \/ UploaderCheck \/ BuildLayer \/ HeadLayer \/ PutLayer
  \/ (\E stored \in BOOLEAN : LayerFails(stored)) \/ UploaderExit

Scanner == (\E err \in BOOLEAN : ScanStops(err)) \/ ScanEnds

\* The session is over and every goroutine has ended.
Terminated == sess = "closed" /\ bpc = "done" /\ UNCHANGED vars

Next ==
  \/ Session \/ Builder \/ Handoff \/ Uploader \/ Scanner \/ CancelContext
  \/ Terminated

\* The session may wait for frames for as long as the idle deadline allows, but
\* no goroutine that can run stands still for ever: registry and disk calls
\* return (their failures are actions), and a write, Finish or Abort that can
\* return does.
Fairness ==
  /\ WF_vars(Builder) /\ WF_vars(Handoff) /\ WF_vars(Uploader)
  /\ WF_vars(Scanner)
  /\ WF_vars(StreamWriteFails) /\ WF_vars(SessionReturns)
  /\ WF_vars(SessionFails \/ StreamEnd)

Spec == Init /\ [][Next]_vars /\ Fairness
-----------------------------------------------------------------------------
(* Properties.                                                             *)

Row == [at : Nat, payload : Seq(Unit), nonce : Nat,
        p : Seq([payload : Seq(Unit), nonce : Nat])]
Pending == [index : Nat, from : Nat, to : Nat]
Blob == Seq([payload : Seq(Unit), nonce : Nat])
Result == [index : Nat, from : Nat, to : Nat, digest : Blob]

Published == [rows : Seq(Row), layers : Seq(Result)]

\* Nothing is no image and no stream.
ASSUME NothingAssumption == NoTag \notin Published /\ NoTag \notin Seq(Unit)

SessionTypeOK ==
  /\ sess \in {"open", "writing", "finish", "abort", "closed"}
  /\ frame \in Seq(Unit) /\ wpipe \in {"open", "eof", "aborted"}
  /\ reply \in {"none", "BackupEnd", "Error"} /\ ctxDone \in BOOLEAN
BuilderTypeOK ==
  /\ bpc \in {"check", "read", "store", "roll", "send", "rolled", "drain",
              "drained", "scanwait", "publish", "abort", "abortscan",
              "abortwait", "close", "cleanup", "done"}
  /\ received \in Seq(Unit) /\ buf \in Seq(Unit) /\ rows \in Seq(Row)
  /\ spool \in [open : BOOLEAN, size : Nat]
  /\ nextFrom \in Nat /\ layerCount \in Nat /\ closeAt \in Nat
  /\ last \in BOOLEAN /\ outbox \in Seq(Pending) /\ closing \in BOOLEAN
  /\ layers \in Seq(Result)
UploaderTypeOK ==
  /\ upc \in {"recv", "check", "build", "head", "put", "exit"}
  /\ job \in Seq(Pending) /\ results \in Seq(Result)
  /\ uploadErr \in BOOLEAN /\ registry \subseteq Blob
  /\ disk \subseteq ({"spool", "layer"} \X Nat)
EndTypeOK ==
  /\ scan \in {"parse", "drain", "done"}
  /\ scanErr \in BOOLEAN /\ scanClosed \in BOOLEAN
  /\ rpipe \in {"open", "closed"} /\ outcome \in {"none", "ok", "err"}
  /\ tag \in {NoTag} \cup Published

\* The state of the pipeline has the shape stream.go declares.
TypeOK == SessionTypeOK /\ BuilderTypeOK /\ UploaderTypeOK /\ EndTypeOK

\* The chunks of a table, in order, are exactly the stream: each starts where
\* the previous one ends and holds the units received there.
TableIsStream(table, stream) ==
  /\ table # <<>> => table[1].at = 0
  /\ \A i \in 1..Len(table) :
       /\ Len(table[i].payload) > 0
       /\ table[i].at + Len(table[i].payload) =
            (IF i = Len(table) THEN Len(stream) ELSE table[i + 1].at)
       /\ \A j \in 1..Len(table[i].payload) :
            table[i].payload[j] = stream[table[i].at + j]

\* The layers of an image cut its chunk table into consecutive ranges, in index
\* order, each layer holding the stored bytes of its own range.
LayersCover(table, list) ==
  /\ list # <<>> => list[1].from = 0
  /\ \A k \in 1..Len(list) :
       /\ list[k].index = k - 1
       /\ list[k].from <= list[k].to
       /\ list[k].to + 1 =
            (IF k = Len(list) THEN Len(table) ELSE list[k + 1].from)
       /\ list[k].digest = BlobDigest(table, list[k].from, list[k].to)

\* Whatever interleaving of reception, upload, failure and cancellation led
\* there, a published image holds the whole stream the client ended with
\* StreamEnd, nothing less and nothing else, in order (run, drainUploader).
PublishedIsTheStream ==
  tag # NoTag =>
    /\ wpipe = "eof" /\ frame = <<>> /\ buf = <<>>
    /\ tag.rows # <<>>
    /\ TableIsStream(tag.rows, received)
    /\ LayersCover(tag.rows, tag.layers)

\* A published image never names a layer the registry does not hold, every
\* chunk names the data file of the layer that holds it, and the image stays
\* within the overlay budget (finishLayer, shouldRoll, maxDataLayers).
PublishedLayersPushed ==
  tag # NoTag =>
    /\ Len(tag.layers) \in 1..MaxDataLayers
    /\ \A k \in 1..Len(tag.layers) :
         /\ tag.layers[k].digest \in registry
         /\ \A i \in tag.layers[k].from..tag.layers[k].to :
              tag.rows[i + 1].p = tag.layers[k].digest

\* The "layer limit exceeded" error of roll is unreachable: the reserve that
\* shouldRoll keeps is always enough for the layer that ends the stream.
LayerBudgetHolds == bpc = "roll" /\ spool.open => layerCount < MaxDataLayers

\* "the disk holds three: the spool being filled, the one being uploaded, and
\* its rebuilt OCI blob" (stream.go:235): a client that outruns the registry
\* never makes --work-dir hold a third spool or a second rebuilt layer.  A
\* receiver waiting in roll for the uploader is itself holding a spool.
WorkDirBound ==
  /\ Cardinality({f \in disk : f[1] = "spool"}) <= 2
  /\ Cardinality({f \in disk : f[1] = "layer"}) <= 1

\* "All of them are removed as soon as the layer is published, on the error and
\* cancellation paths too" (docs/remote.md): when the ingest goroutine is done
\* nothing of the session is left in --work-dir.
NothingLeftBehind == bpc = "done" => disk = {}

\* The reference moves only while the session waits in Finish, after StreamEnd,
\* with the uploader stopped and no upload failed; never on an aborted stream.
TagMovesOnlyInFinish ==
  [][tag' # tag => /\ wpipe = "eof" /\ sess = "finish"
                   /\ upc = "exit" /\ ~uploadErr /\ ~scanErr]_vars

\* ValidateChunkTable (pkg/index/limits.go), the check every reader runs when it
\* opens a backup, on the tables publish writes.
ReaderAccepts(image) ==
  LET firstRow(k) == image.rows[image.layers[k].from + 1]
  IN
  /\ \A k \in 1..Len(image.layers) :
       \A i \in image.layers[k].from..image.layers[k].to :
         image.rows[i + 1].p = firstRow(k).p
  /\ \A k, l \in 1..Len(image.layers) : k # l => firstRow(k).p # firstRow(l).p

\* pkg/index/limits.go:100: two layers sharing a path "has never been produced".
PublishedIsReadable == tag # NoTag => ReaderAccepts(tag)
=============================================================================
