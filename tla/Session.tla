------------------------------- MODULE Session -------------------------------
(***************************************************************************)
(* One server session (pkg/server/session.go, session_stream.go): the      *)
(* handlers of Session.Run against a client that may send any frame at any *)
(* time, in protocol v1 (layer by layer) and v2 (streaming), with the      *)
(* registry half of the session (registry_sink.go).                        *)
(*                                                                         *)
(* A handler is one step: the session loop is its only thread, and what it *)
(* calls either succeeds or fails.  The v2 pipeline is its promise (module *)
(* BackupPromise): Finish publishes the stream or returns an error.  A     *)
(* payload is its length and whether it continues the declared content.    *)
(***************************************************************************)
EXTENDS Integers, Sequences

CONSTANTS Digests,    \* contents a layer can have
          BlobSize,   \* their true sizes
          Junk,       \* the content of bytes that are none of them
          MaxSize,    \* bound on a declared size, and on a payload
          MaxCount,   \* bound on an announced layer count
          MaxLayers,  \* maxDataLayers
          MaxBytes,   \* SessionConfig.MaxBytes, 0 for none
          MaxStream   \* bound on the bytes of a v2 stream

ASSUME SessionAssumption ==
    /\ BlobSize \in [Digests -> 1..MaxSize]
    /\ Junk \notin Digests
    /\ MaxCount \in Nat /\ MaxLayers \in Nat /\ MaxBytes \in Nat /\ MaxStream \in Nat

VARIABLES run,        \* Run: "running", "returned", or "crashed" with the whole process
          state,      \* rs.state
          version,    \* rs.version
          count,      \* rs.start.LayerCount
          layers,     \* the digests of rs.layers
          current,    \* rs.current, or NoLayer
          receiver,   \* rs.receiver: "none", "open", or "nil" (an interface around a nil pointer)
          received,   \* rs.received
          intact,     \* the bytes received are a prefix of the declared content
          total,      \* rs.totalBytes
          ingest,     \* rs.ingest: "none", "running", "finished", "aborted"
          heartbeat,  \* rs.heartbeat # nil
          cancelled,  \* the server is shutting down
          upload,     \* the registry's view of the latest upload of the session
          held,       \* registry: content stored under a digest, as pairs
          published,  \* registry: the layers the tag names, or NotPublished
          answer      \* the last word to the client: "none", "error", "end"

registry == <<upload, held, published>>
vars == <<run, state, version, count, layers, current, receiver, received, intact, total,
          ingest, heartbeat, cancelled, upload, held, published, answer>>

NoLayer == [digest |-> Junk, size |-> 0, skipped |-> FALSE]
NotPublished == <<Junk>>

Init ==
    /\ run = "running"
    /\ state = "new"
    /\ version = 0
    /\ count = 0
    /\ layers = <<>>
    /\ current = NoLayer
    /\ receiver = "none"
    /\ received = 0
    /\ intact = TRUE
    /\ total = 0
    /\ ingest = "none"
    /\ heartbeat = FALSE
    /\ cancelled = FALSE
    /\ upload = "none"
    /\ held \in SUBSET {<<d, d>> : d \in Digests}
    /\ published = NotPublished
    /\ answer = "none"

-----------------------------------------------------------------------------
(* The end of a session *)

\* Mutant: the heartbeat outlives the ingest it reads.
AbortKeepsHeartbeat(rcv) ==
    /\ UNCHANGED heartbeat
    /\ ingest' = IF ingest = "running" THEN "aborted" ELSE ingest
    /\ receiver' = "none"
    /\ run' = IF rcv = "nil" THEN "crashed" ELSE "returned"
    /\ \/ rcv # "open" /\ UNCHANGED upload
       \/ rcv = "open" /\ cancelled' /\ upload' = "untold"
       \/ rcv = "open" /\ ~cancelled' /\ upload' \in {"deleted", "kept"}

\* Session.abort with rcv as the receiver: stop the heartbeat, abort the ingest, and
\* DELETE the upload, which a cancelled context keeps from being sent.
Abort(rcv) ==
    /\ heartbeat' = FALSE
    /\ ingest' = IF ingest = "running" THEN "aborted" ELSE ingest
    /\ receiver' = "none"
    /\ run' = IF rcv = "nil" THEN "crashed" ELSE "returned"
    /\ \/ rcv # "open" /\ UNCHANGED upload
       \/ rcv = "open" /\ cancelled' /\ upload' = "untold"
       \/ rcv = "open" /\ ~cancelled' /\ upload' \in {"deleted", "kept"}

\* Run returns an error: what the session holds goes, and a failure the code reports
\* is reported.  The failure may be the shutdown itself, met inside a call.
EndsFrom(rcv, word) ==
    /\ state' = "closed"
    /\ cancelled' \in {cancelled, TRUE}
    /\ Abort(rcv)
    /\ answer' = IF run' = "crashed" THEN answer ELSE word
    /\ UNCHANGED <<version, count, layers, current, received, intact, total, held, published>>

\* Session.fail, and a send that failed.
Fail == EndsFrom(receiver, "error") \/ EndsFrom(receiver, answer)

Reading == run = "running" /\ ~cancelled

\* ReadFrame fails: the client hung up, or the idle deadline passed.
ReadFails ==
    /\ Reading
    /\ EndsFrom(receiver, answer)

\* The loop notices the shutdown before the next frame.
LoopCancelled ==
    /\ run = "running" /\ cancelled
    /\ EndsFrom(receiver, answer)

Shutdown ==
    /\ Reading
    /\ cancelled' = TRUE
    /\ UNCHANGED <<run, state, version, count, layers, current, receiver, received, intact,
                   total, ingest, heartbeat, registry, answer>>

\* A keepalive that says something, an unknown frame, a message that does not decode.
BadFrame == Reading /\ Fail

\* Cancel, or an Error of the client.
ClientCancels ==
    /\ Reading
    /\ EndsFrom(receiver, answer)

\* A Token out of place; in place, the broker keeps it and the session goes on.
Token ==
    /\ Reading
    /\ state \notin {"ready", "receiving", "streaming"}
    /\ Fail

-----------------------------------------------------------------------------
(* Greeting and start *)

Hello(v) ==
    /\ Reading
    /\ \/ Fail
       \/ /\ state = "new"
          /\ state' = "greeted"
          /\ version' = v
          /\ UNCHANGED <<run, count, layers, current, receiver, received, intact, total,
                         ingest, heartbeat, cancelled, registry, answer>>

\* A reference the server refuses, or an estimate over the quota, is a Fail.
BackupStart(n) ==
    /\ Reading
    /\ \/ Fail
       \/ /\ state = "greeted"
          /\ n \in 1..MaxLayers
          /\ state' = "ready"
          /\ count' = n
          /\ UNCHANGED <<run, version, layers, current, receiver, received, intact, total,
                         ingest, heartbeat, cancelled, registry, answer>>

\* The pipeline starts before the ack, the heartbeat after it.
StreamStart ==
    /\ Reading
    /\ \/ Fail
       \/ /\ state = "greeted" /\ version >= 2
          /\ state' = "streaming"
          /\ ingest' = "running"
          /\ heartbeat' = TRUE
          /\ UNCHANGED <<run, version, count, layers, current, receiver, received, intact,
                         total, cancelled, registry, answer>>

\* startIngest succeeded and the ack cannot be sent: Run's deferred abort frees it.
StreamAckFails ==
    /\ Reading
    /\ state = "greeted" /\ version >= 2
    /\ state' = "closed"
    /\ ingest' = "aborted"
    /\ run' = "returned"
    /\ UNCHANGED <<version, count, layers, current, receiver, received, intact, total,
                   heartbeat, cancelled, registry, answer>>

-----------------------------------------------------------------------------
(* Protocol v1: one layer after the other *)

\* The quota the handlers compare with before they accept n more bytes.
Exceeds(n) == MaxBytes > 0 /\ total + n > MaxBytes

LayerStartFits(i, size) == state = "ready" /\ i = Len(layers) /\ size > 0 /\ ~Exceeds(size)

Receives(d, size, skip) ==
    /\ state' = "receiving"
    /\ current' = [digest |-> d, size |-> size, skipped |-> skip]
    /\ received' = 0
    /\ intact' = TRUE
    /\ UNCHANGED <<run, version, count, layers, total, ingest, heartbeat, cancelled, held,
                   published, answer>>

Exists(d) == \E c \in Digests \cup {Junk} : <<d, c>> \in held

\* BlobExists answers what the registry holds, and OpenBlob starts an upload.
LayerStart(i, size, d) ==
    /\ Reading
    /\ \/ Fail
       \/ /\ LayerStartFits(i, size)
          /\ Exists(d)
          /\ Receives(d, size, TRUE)
          /\ UNCHANGED <<receiver, upload>>
       \/ /\ LayerStartFits(i, size)
          /\ ~Exists(d)
          /\ Receives(d, size, FALSE)
          /\ receiver' = "open"
          /\ upload' = "open"

\* RegistrySink.OpenBlob returns BlobClient.Open's nil pointer as a BlobWriter, which
\* is not nil: fail's abort calls Abort on it.
OpenBlobFails(i, size, d) ==
    /\ Reading
    /\ LayerStartFits(i, size)
    /\ ~Exists(d)
    /\ EndsFrom("nil", "error")

PayloadFits(n) == n <= current.size - received /\ ~Exceeds(n)

Accepts(n) ==
    /\ total' = total + n
    /\ \/ UNCHANGED <<run, state, version, count, layers, current, receiver, ingest,
                      heartbeat, cancelled, registry, answer>>
       \/ \* throttle's sleep ends with the context
          /\ cancelled' = TRUE
          /\ state' = "closed"
          /\ Abort(receiver)
          /\ UNCHANGED <<version, count, layers, current, held, published, answer>>

LayerData(n, good) ==
    /\ Reading
    /\ \/ Fail
       \/ /\ state = "receiving" /\ ~current.skipped
          /\ PayloadFits(n)
          /\ received' = received + n
          /\ intact' = (intact /\ (n = 0 \/ (good /\ received + n <= BlobSize[current.digest])))
          /\ Accepts(n)

\* What the registry would store: the bytes sent to the upload.
Content == IF intact /\ received = BlobSize[current.digest] THEN current.digest ELSE Junk

\* Mutant: a layer of the declared size is taken for the declared layer.
LayerVerifiedBySize == current.skipped \/ received = current.size

\* The checks of layerEnd: the size, and the digest of what was received.
LayerVerified == current.skipped \/ (received = current.size /\ Content = current.digest)

\* The layer is in the registry: it is one of the backup's.
LayerAccepted ==
    /\ layers' = Append(layers, current.digest)
    /\ held' = IF current.skipped THEN held ELSE held \cup {<<current.digest, Content>>}
    /\ upload' = IF current.skipped THEN upload ELSE "committed"
    /\ current' = NoLayer
    /\ received' = 0 /\ intact' = TRUE
    /\ receiver' = "none"

\* CommitBackup fails before the tag has moved or after; the answer can be lost.
CommitBackup ==
    \/ published' = layers' /\ answer' \in {"end", "none", "error"}
    \/ UNCHANGED published /\ answer' \in {"none", "error"}

\* After Progress, whose send can fail: the next layer, or CommitBackup and BackupEnd.
LayerEnd(i, d) ==
    /\ Reading
    /\ \/ Fail
       \/ /\ state = "receiving"
          /\ i = Len(layers) /\ d = current.digest
          /\ LayerVerified
          /\ LayerAccepted
          /\ UNCHANGED <<version, count, total, ingest, heartbeat, cancelled>>
          /\ \/ Len(layers') # count /\ state' = "ready" /\ UNCHANGED <<run, published, answer>>
             \/ state' = "closed" /\ run' = "returned" /\ UNCHANGED <<published, answer>>
             \/ /\ Len(layers') = count
                /\ state' = "closed" /\ run' = "returned"
                /\ CommitBackup

-----------------------------------------------------------------------------
(* Protocol v2: the raw stream *)

StreamData(n) ==
    /\ Reading
    /\ state = "streaming"
    /\ total + n <= MaxStream
    /\ \/ Fail
       \/ /\ ~Exceeds(n)
          /\ UNCHANGED <<received, intact>>
          /\ Accepts(n)

\* A declared length of 0 is not compared.  Finish waits for the pipeline; its heartbeat
\* is stopped after it, and either send can fail.
StreamEnd(raw) ==
    /\ Reading
    /\ \/ Fail
       \/ /\ state = "streaming"
          /\ raw > 0 => raw = total
          /\ ingest' = "finished"
          /\ heartbeat' = FALSE
          /\ state' = "closed" /\ run' = "returned"
          /\ \/ published' = <<>> /\ answer' \in {"end", "none", "error"}
             \/ UNCHANGED published /\ answer' \in {"error", "none"}
          /\ UNCHANGED <<version, count, layers, current, receiver, received, intact, total,
                         cancelled, upload, held>>

Frames ==
    \/ \E v \in 1..2 : Hello(v)
    \/ \E n \in 0..MaxCount : BackupStart(n)
    \/ \E i \in 0..MaxLayers, size \in 0..MaxSize, d \in Digests :
          LayerStart(i, size, d) \/ OpenBlobFails(i, size, d)
    \/ \E n \in 0..MaxSize, good \in BOOLEAN : LayerData(n, good)
    \/ \E i \in 0..MaxLayers, d \in Digests : LayerEnd(i, d)
    \/ StreamStart \/ StreamAckFails
    \/ \E n \in 0..MaxSize : StreamData(n)
    \/ \E raw \in 0..MaxStream + 1 : StreamEnd(raw)
    \/ Token \/ ClientCancels \/ BadFrame

Next == Frames \/ ReadFails \/ LoopCancelled \/ Shutdown

Spec == Init /\ [][Next]_vars

-----------------------------------------------------------------------------
\* A tag a v1 session moved names as many layers as the client announced, in order, and
\* the registry holds under each digest the content of that digest, whatever the client
\* sent for it (the checks of LayerEnd and the HEAD of LayerStart).
PublishedVerified ==
    published \notin {NotPublished, <<>>} =>
        /\ published = layers /\ Len(published) = count
        /\ \A i \in DOMAIN published : <<published[i], published[i]>> \in held

\* "The pipeline of a session belongs to the session, and nothing outside this function
\* will free it" (Session.Run): while it runs and after it returned, on every path, a
\* heartbeat has its ingest, an ingest and an upload have their session.  An upload given
\* up without the registry's knowledge is not open: UploadTold is about those.
NothingOutlives ==
    /\ heartbeat => ingest = "running"
    /\ ingest = "running" => run = "running" /\ state = "streaming"
    /\ receiver = "open" <=> upload = "open"
    /\ upload = "open" => run = "running" /\ state = "receiving"

\* Run's deferred abort is there so that the registry, which "is waiting to be told
\* about" an upload, is told on every return, a shutdown included.
UploadTold == upload # "untold"

\* session_test.go: a sink whose OpenBlob fails makes the session answer with an Error.
FailureIsAnswered == run # "crashed"
=============================================================================
