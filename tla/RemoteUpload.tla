----------------------------- MODULE RemoteUpload -----------------------------
(***************************************************************************)
(* An upload to a remote server: the attempts of one client (pkg/remote    *)
(* client.go and stream.go, withRetries over uploadOnce or                 *)
(* uploadStreamOnce) against the sessions they open (pkg/server/server.go),*)
(* over connections that may break at any time.                            *)
(*                                                                         *)
(* A session is reduced to what its client can see of it (module Session   *)
(* has the handlers); the pipeline of a v2 session to its promise (module  *)
(* BackupPromise).  A session that is publishing does not read its stream, *)
(* so it outlives the attempt that opened it.                              *)
(***************************************************************************)
EXTENDS Integers, Sequences, Functions, FiniteSets

CONSTANTS Backoffs,     \* len(cfg.Backoffs): there is one attempt more
          Layers,       \* layers of a v1 backup
          Frames,       \* bound on the Data frames of a v2 stream
          MaxSessions   \* server.Config.MaxSessions

ASSUME UploadAssumption == Backoffs \in Nat /\ Layers \in Nat \ {0} /\ MaxSessions \in Nat \ {0}

Attempts == 1..(Backoffs + 1)

\* Error kinds: the server's ErrorNetwork, those it will repeat, and an error that is
\* not a *remote.Error.
Network == "network"
Refusal == "refusal"
Plain == "plain"

VARIABLES mode,       \* "layers" (Upload) or "stream" (UploadStream)
          over,       \* the estimate is over the quota the server announces
          attempt,    \* the attempt running, or that ran last
          cpc,        \* what uploadOnce / uploadStreamOnce waits for
          layer,      \* uploadOnce: the layer it is at
          result,     \* "none", "ok" or "err"
          cancelled,  \* the caller's context
          asyncErr,   \* conn.asyncErr holds a failure
          gotEnd,     \* a BackupEnd was read (v2: it is in reader.end)
          rpc,        \* streamReader.run: "off", "run", "done"
          rerr,       \* streamReader.err: {} or the kind
          ready,      \* streamReader.ready is closed
          up, cOpen, sOpen,  \* per attempt: the path, the client's end, the server's end
          c2s, s2c,   \* per attempt: frames under way
          sess,       \* per attempt: its session
          others,     \* slots held by sessions of other clients
          held,       \* registry: the layers it has
          tag         \* registry: the attempts whose session moved the tag, in order

client == <<attempt, cpc, layer, result, asyncErr, gotEnd, rpc, rerr, ready>>
wire == <<up, cOpen, sOpen, c2s, s2c>>
server == <<sess, others, held, tag>>
vars == <<mode, over, cancelled, client, wire, server>>

Init ==
    /\ mode \in {"layers", "stream"}
    /\ over \in BOOLEAN
    /\ attempt = 1
    /\ cpc = "dial"
    /\ layer = 0
    /\ result = "none"
    /\ cancelled = FALSE
    /\ asyncErr = FALSE
    /\ gotEnd = FALSE
    /\ rpc = "off" /\ rerr = {} /\ ready = FALSE
    /\ up = [a \in Attempts |-> FALSE]
    /\ cOpen = [a \in Attempts |-> FALSE]
    /\ sOpen = [a \in Attempts |-> FALSE]
    /\ c2s = [a \in Attempts |-> <<>>]
    /\ s2c = [a \in Attempts |-> <<>>]
    /\ sess = [a \in Attempts |-> "none"]
    /\ others = 0
    /\ held = {}
    /\ tag = <<>>

-----------------------------------------------------------------------------
(* The wire *)

\* The connection breaks: of what is under way, either side gets a prefix.
Cut(a) ==
    /\ up[a]
    /\ up' = [up EXCEPT ![a] = FALSE]
    /\ \E n \in 0..Len(c2s[a]) : c2s' = [c2s EXCEPT ![a] = SubSeq(@, 1, n)]
    /\ \E n \in 0..Len(s2c[a]) : s2c' = [s2c EXCEPT ![a] = SubSeq(@, 1, n)]
    /\ UNCHANGED <<mode, over, cancelled, client, cOpen, sOpen, server>>

\* A write on a connection whose other end is gone may still return nil.
Written(a, frames) ==
    \/ up[a] /\ sOpen[a] /\ c2s' = [c2s EXCEPT ![a] = @ \o frames]
    \/ ~(up[a] /\ sOpen[a]) /\ UNCHANGED c2s

WriteCanFail(a) == ~(up[a] /\ sOpen[a])

Incoming(a, m) == s2c[a] # <<>> /\ Head(s2c[a]).m = m
Taken(a) == s2c' = [s2c EXCEPT ![a] = Tail(@)]
Gone(a) == s2c[a] = <<>> /\ ~(up[a] /\ sOpen[a])

-----------------------------------------------------------------------------
(* withRetries *)

\* conn.close, deferred by the attempt.
Closed(a) == cOpen' = [cOpen EXCEPT ![a] = FALSE]

\* What withRetries does not repeat: a *remote.Error other than ErrorNetwork, anything
\* once the caller gave up, and the last attempt.
EndsAfter(kind) == kind = Refusal \/ cancelled \/ attempt = Backoffs + 1

\* The attempt returned an error.
Failed(kind) ==
    /\ Closed(attempt)
    /\ cpc' = IF EndsAfter(kind) THEN "returned" ELSE "sleep"
    /\ result' = IF EndsAfter(kind) THEN "err" ELSE result
    /\ rpc' = IF rpc = "run" THEN "done" ELSE rpc
    /\ UNCHANGED <<attempt, layer, asyncErr, gotEnd, rerr, ready, over, mode, cancelled>>

Succeeded ==
    /\ Closed(attempt)
    /\ cpc' = "returned"
    /\ result' = "ok"
    /\ rpc' = IF rpc = "run" THEN "done" ELSE rpc
    /\ UNCHANGED <<attempt, layer, asyncErr, rerr, ready, over, mode, cancelled>>

\* The backoff is over, or sleepContext returns the context's error.
Sleep ==
    /\ cpc = "sleep"
    /\ \/ /\ cancelled
          /\ cpc' = "returned" /\ result' = "err"
          /\ UNCHANGED <<attempt, layer, asyncErr, gotEnd, rpc, rerr, ready>>
       \/ /\ attempt' = attempt + 1
          /\ cpc' = "dial"
          /\ layer' = 0 /\ asyncErr' = FALSE /\ gotEnd' = FALSE
          /\ rpc' = "off" /\ rerr' = {} /\ ready' = FALSE
          /\ UNCHANGED result
    /\ UNCHANGED <<mode, over, cancelled, wire, server>>

Cancel ==
    /\ ~cancelled /\ cpc # "returned"
    /\ cancelled' = TRUE
    /\ UNCHANGED <<mode, over, client, wire, server>>

-----------------------------------------------------------------------------
(* Both protocols: greeting and start *)

\* A message, with the layer it is about and an error's kind, or whether the layer's
\* bytes are skipped.
Msg(m, i, kind) == [m |-> m, i |-> i, kind |-> kind]
Plainly(m) == Msg(m, 0, Plain)

\* The error of the message read, if it is one (responseError).
ErrorRead(a) == Incoming(a, "error")
KindRead(a) == Head(s2c[a]).kind

\* An attempt fails on what it read, on a read that failed, on a write that failed.
FailsReading(a) ==
    \/ ErrorRead(a) /\ Taken(a) /\ Failed(KindRead(a))
    \/ Gone(a) /\ Failed(Plain) /\ UNCHANGED s2c

\* Dial, which may fail, and Hello.
Dial ==
    /\ cpc = "dial"
    /\ \/ /\ Failed(Plain)
          /\ UNCHANGED <<up, sOpen, c2s, s2c, server>>
       \/ /\ up' = [up EXCEPT ![attempt] = TRUE]
          /\ cOpen' = [cOpen EXCEPT ![attempt] = TRUE]
          /\ sOpen' = [sOpen EXCEPT ![attempt] = TRUE]
          /\ c2s' = [c2s EXCEPT ![attempt] = <<Plainly("hello")>>]
          /\ sess' = [sess EXCEPT ![attempt] = "dialled"]
          /\ cpc' = "hello"
          /\ UNCHANGED <<mode, over, cancelled, attempt, layer, result, asyncErr, gotEnd, rpc,
                         rerr, ready, s2c, others, held, tag>>

\* uploadOnce returns a plain error for an estimate over the announced quota;
\* uploadStreamOnce a *remote.Error of kind 2.
QuotaKind == IF mode = "layers" THEN Plain ELSE Refusal

\* HelloAck, and BackupStart or StreamStart in answer; a v2 attempt starts its reader.
\* A server without streaming is refused like a quota.
RecvHelloAck ==
    /\ cpc = "hello"
    /\ UNCHANGED <<up, sOpen, server>>
    /\ \/ FailsReading(attempt) /\ UNCHANGED c2s
       \/ /\ Incoming(attempt, "helloack") /\ Taken(attempt)
          /\ \/ over /\ Failed(QuotaKind) /\ UNCHANGED c2s
             \/ mode = "stream" /\ Failed(Refusal) /\ UNCHANGED c2s
             \/ WriteCanFail(attempt) /\ Failed(Plain) /\ UNCHANGED c2s
             \/ /\ ~over
                /\ Written(attempt, <<Plainly("start")>>)
                /\ cpc' = "start"
                /\ rpc' = IF mode = "stream" THEN "run" ELSE "off"
                /\ UNCHANGED <<mode, over, cancelled, cOpen, attempt, layer, result, asyncErr,
                               gotEnd, rerr, ready>>

-----------------------------------------------------------------------------
(* Protocol v1: uploadOnce *)

V1(pc) == mode = "layers" /\ cpc = pc

\* handleAux of a message that is neither an error nor a token request.
AuxFails == asyncErr

\* The message an attempt waits for arrived, and handleAux let it through.
Waited(m) == Incoming(attempt, m) /\ Taken(attempt) /\ ~AuxFails

Proceeds(pc, i) ==
    /\ cpc' = pc
    /\ layer' = i
    /\ UNCHANGED <<mode, over, cancelled, cOpen, attempt, result, asyncErr, gotEnd, rpc, rerr, ready>>

\* waitForBackupAck, waitForLayerAck and waitForProgress: any read can fail, and any
\* message meets a failure of the keepalive or of a token refresh.
WaitFails(m) ==
    \/ FailsReading(attempt)
    \/ Incoming(attempt, m) /\ Taken(attempt) /\ AuxFails /\ Failed(Plain)

\* layerDescriptor or the quota of the bytes sent so far stops a layer here.
LayerStops == Failed(Plain) \/ Failed(Refusal)

StartLayer(i) ==
    \/ LayerStops /\ UNCHANGED c2s
    \/ WriteCanFail(attempt) /\ Failed(Plain) /\ UNCHANGED c2s
    \/ Written(attempt, <<Msg("layerstart", i, Plain)>>) /\ Proceeds("layerack", i)

\* provideToken: scopeGuard refuses a scope the upload has no use for, and the provider
\* or the write may fail.
TokenErrors == {Plain, Refusal}

\* BackupAck: the token it asks for is sent, then the first layer is announced.
RecvBackupAck ==
    /\ V1("start")
    /\ UNCHANGED <<up, sOpen, server>>
    /\ \/ WaitFails("startack") /\ UNCHANGED c2s
       \/ Waited("startack") /\ (\E k \in TokenErrors : Failed(k)) /\ UNCHANGED c2s
       \/ Waited("startack") /\ StartLayer(1)

\* LayerAck, and the layer's bytes unless the registry has it; then LayerEnd.
RecvLayerAck ==
    /\ V1("layerack")
    /\ UNCHANGED <<up, sOpen, server>>
    /\ \/ WaitFails("layerack") /\ UNCHANGED c2s
       \/ /\ Waited("layerack")
          /\ \/ WriteCanFail(attempt) /\ Failed(Plain) /\ UNCHANGED c2s
             \/ /\ Written(attempt, <<Msg("layerend", layer, KindRead(attempt))>>)
                /\ Proceeds("progress", layer)

\* Progress: the next layer, or the wait for BackupEnd.
RecvProgress ==
    /\ V1("progress")
    /\ UNCHANGED <<up, sOpen, server>>
    /\ \/ WaitFails("progress") /\ UNCHANGED c2s
       \/ Waited("progress") /\ layer < Layers /\ StartLayer(layer + 1)
       \/ Waited("progress") /\ layer = Layers /\ Proceeds("end", layer) /\ UNCHANGED c2s

\* Mutant: BackupEnd goes through handleAux like any other message.
RecvBackupEndAux ==
    /\ V1("end")
    /\ UNCHANGED <<up, sOpen, c2s, server>>
    /\ \/ FailsReading(attempt)
       \/ /\ Incoming(attempt, "end") /\ Taken(attempt) /\ AuxFails
          /\ gotEnd' = TRUE
          /\ Closed(attempt)
          /\ cpc' = IF EndsAfter(Plain) THEN "returned" ELSE "sleep"
          /\ result' = IF EndsAfter(Plain) THEN "err" ELSE result
          /\ UNCHANGED <<attempt, layer, asyncErr, rpc, rerr, ready, over, mode, cancelled>>
       \/ Incoming(attempt, "end") /\ Taken(attempt) /\ ~AuxFails /\ gotEnd' = TRUE /\ Succeeded

\* The last loop of uploadOnce: BackupEnd comes before the auxiliary handling.
RecvBackupEnd ==
    /\ V1("end")
    /\ UNCHANGED <<up, sOpen, c2s, server>>
    /\ \/ FailsReading(attempt)
       \/ Incoming(attempt, "end") /\ Taken(attempt) /\ gotEnd' = TRUE /\ Succeeded

\* keepalive and refreshToken: a write on a broken connection, or the provider, fails.
AsyncFails ==
    /\ cOpen[attempt] /\ ~asyncErr /\ ~cancelled
    /\ WriteCanFail(attempt) \/ cpc \notin {"hello", "start"}
    /\ asyncErr' = TRUE
    /\ UNCHANGED <<mode, over, cancelled, attempt, cpc, layer, result, gotEnd, rpc, rerr, ready,
                   wire, server>>

-----------------------------------------------------------------------------
(* Protocol v2: uploadStreamOnce and its reader *)

V2(pc) == mode = "stream" /\ cpc = pc

ReaderEnds(kind) == rpc' = "done" /\ rerr' = {kind} /\ ready' = TRUE /\ UNCHANGED gotEnd

\* streamReader.run: one message.  A StreamAck asks for a token.
ReadMessage ==
    /\ rpc = "run"
    /\ \/ Gone(attempt) /\ ReaderEnds(Plain) /\ UNCHANGED s2c
       \/ ErrorRead(attempt) /\ Taken(attempt) /\ ReaderEnds(KindRead(attempt))
       \/ /\ Incoming(attempt, "startack") /\ Taken(attempt)
          /\ \/ ready' = TRUE /\ UNCHANGED <<rpc, rerr, gotEnd>>
             \/ \E k \in TokenErrors : ReaderEnds(k)
       \/ Incoming(attempt, "progress") /\ Taken(attempt) /\ UNCHANGED <<rpc, rerr, ready, gotEnd>>
       \/ /\ Incoming(attempt, "end") /\ Taken(attempt)
          /\ gotEnd' = TRUE /\ rpc' = "done" /\ UNCHANGED <<rerr, ready>>
    /\ UNCHANGED <<mode, over, cancelled, attempt, cpc, layer, result, asyncErr, up, cOpen, sOpen,
                   c2s, server>>

\* The reader's failure, or the error at hand when it has none.
Cause(kind) == IF rerr = {} THEN Failed(kind) ELSE \E k \in rerr : Failed(k)

\* waitReady: the reader is ready or failed, or the caller gave up.
WaitReady ==
    /\ V2("start")
    /\ UNCHANGED <<up, sOpen, c2s, s2c, server>>
    /\ \/ ready /\ rerr # {} /\ Cause(Plain)
       \/ ready /\ rerr = {} /\ Proceeds("send", 0)
       \/ cancelled /\ Failed(Plain)

\* Source through streamWriter.Write: one more frame; or the archive cannot be read, goes
\* over the quota, or the connection or the session failed.
SourceWrites ==
    /\ V2("send")
    /\ UNCHANGED <<up, sOpen, s2c, server>>
    /\ \/ layer < Frames /\ rerr = {}
            /\ Written(attempt, <<Plainly("data")>>) /\ Proceeds("send", layer + 1)
       \/ (WriteCanFail(attempt) \/ cancelled \/ rerr # {}) /\ Cause(Plain) /\ UNCHANGED c2s
       \/ (\E k \in {Plain, Refusal} : Cause(k)) /\ UNCHANGED c2s

\* The archive is complete: StreamEnd.
SendEnd ==
    /\ V2("send")
    /\ UNCHANGED <<up, sOpen, s2c, server>>
    /\ \/ Written(attempt, <<Plainly("streamend")>>) /\ Proceeds("end", layer)
       \/ WriteCanFail(attempt) /\ Cause(Plain) /\ UNCHANGED c2s

\* Mutant: a reader that stopped is taken for a server that finished.
WaitEndTrusts ==
    /\ V2("end")
    /\ UNCHANGED <<up, sOpen, c2s, s2c, server>>
    /\ \/ (gotEnd \/ rpc = "done") /\ Succeeded /\ UNCHANGED gotEnd
       \/ cancelled /\ Failed(Plain)

\* Mutant: waitEnd does not look at the reader's end.
WaitEndOnly ==
    /\ V2("end")
    /\ UNCHANGED <<up, sOpen, c2s, s2c, server>>
    /\ \/ gotEnd /\ Succeeded /\ UNCHANGED gotEnd
       \/ cancelled /\ Failed(Plain)

\* waitEnd: the result, the end of a reader that has none, or the caller gave up.  A
\* select with several cases ready takes any.
WaitEnd ==
    /\ V2("end")
    /\ UNCHANGED <<up, sOpen, c2s, s2c, server>>
    /\ \/ gotEnd /\ Succeeded /\ UNCHANGED gotEnd
       \/ rpc = "done" /\ ~gotEnd /\ Cause(Plain)
       \/ cancelled /\ Failed(Plain)

-----------------------------------------------------------------------------
(* The server: slots and sessions *)

HoldsSlot(a) == sess[a] \in {"new", "greeted", "open", "publishing", "published"}
Slots == others + Cardinality({a \in Attempts : HoldsSlot(a)})

\* Another client's session starts or ends; a started one is counted by the same
\* semaphore.
OtherSession ==
    /\ others' \in {others - 1, others + 1} \cap 0..MaxSessions
    /\ others' > others => Slots < MaxSessions
    /\ UNCHANGED <<mode, over, cancelled, client, wire, sess, held, tag>>

\* What the server sends reaches a client that is still there.
Sent(a, msgs) == s2c' = [s2c EXCEPT ![a] = IF up[a] /\ cOpen[a] THEN @ \o msgs ELSE @]
Hangup(a) == sOpen' = [sOpen EXCEPT ![a] = FALSE]
Becomes(a, s) == sess' = [sess EXCEPT ![a] = s]

ServerOnly == UNCHANGED <<mode, over, cancelled, client, up, cOpen, others>>

\* Serve: a free slot for the session, or an ErrorNetwork and the end.
Accept(a) ==
    /\ sess[a] = "dialled"
    /\ ServerOnly /\ UNCHANGED <<c2s, held, tag>>
    /\ \/ Slots < MaxSessions /\ Becomes(a, "new") /\ UNCHANGED <<s2c, sOpen>>
       \/ /\ Slots >= MaxSessions
          /\ Sent(a, <<Msg("error", 0, Network)>>)
          /\ Hangup(a) /\ Becomes(a, "ended")

Arrives(a, m) == c2s[a] # <<>> /\ Head(c2s[a]).m = m /\ c2s' = [c2s EXCEPT ![a] = Tail(@)]

\* Session.fail: the error, then Run returns and serveOne gives the slot back.
SessionFails(a) ==
    /\ \E k \in {Network, Refusal} : Sent(a, <<Msg("error", 0, k)>>)
    /\ Hangup(a) /\ Becomes(a, "ended")
    /\ UNCHANGED <<held, tag>>

Answers(a, s, msgs) == Sent(a, msgs) /\ Becomes(a, s) /\ UNCHANGED <<sOpen, tag>>

ServeHello(a) ==
    /\ sess[a] = "new" /\ Arrives(a, "hello") /\ ServerOnly
    /\ SessionFails(a) \/ (Answers(a, "greeted", <<Plainly("helloack")>>) /\ UNCHANGED held)

ServeStart(a) ==
    /\ sess[a] = "greeted" /\ Arrives(a, "start") /\ ServerOnly
    /\ SessionFails(a) \/ (Answers(a, "open", <<Plainly("startack")>>) /\ UNCHANGED held)

\* Mutant: every layer is answered as one the registry has.
ServeLayerStartSkips(a) ==
    /\ sess[a] = "open" /\ Arrives(a, "layerstart") /\ ServerOnly
    /\ \/ SessionFails(a)
       \/ Answers(a, "open", <<Msg("layerack", Head(c2s[a]).i, "skipped")>>) /\ UNCHANGED held

\* layerStart: BlobExists decides whether the bytes are needed.
ServeLayerStart(a) ==
    /\ sess[a] = "open" /\ Arrives(a, "layerstart") /\ ServerOnly
    /\ \/ SessionFails(a)
       \/ LET i == Head(c2s[a]).i IN
          /\ Answers(a, "open", <<Msg("layerack", i, IF i \in held THEN "skipped" ELSE Plain)>>)
          /\ UNCHANGED held

\* The layer's bytes and layerEnd: the layer is in the registry, Progress says so, and the
\* last one is followed by CommitBackup.
ServeLayerEnd(a) ==
    LET i == Head(c2s[a]).i IN
    /\ sess[a] = "open" /\ Arrives(a, "layerend") /\ ServerOnly
    /\ \/ SessionFails(a)
       \/ /\ Answers(a, IF i = Layers THEN "publishing" ELSE "open", <<Msg("progress", i, Plain)>>)
          /\ held' = IF Head(c2s[a]).kind = "skipped" THEN held ELSE held \cup {i}

ServeData(a) ==
    /\ sess[a] = "open" /\ Arrives(a, "data") /\ ServerOnly
    /\ \/ SessionFails(a)
       \/ UNCHANGED <<s2c, sOpen, sess, held, tag>>

ServeStreamEnd(a) ==
    /\ sess[a] = "open" /\ Arrives(a, "streamend") /\ ServerOnly
    /\ Becomes(a, "publishing") /\ UNCHANGED <<s2c, sOpen, held, tag>>

\* CommitBackup, or the pipeline's Finish: the tag moves, or the session fails, possibly
\* after it has moved.
Publish(a) ==
    /\ sess[a] = "publishing" /\ ServerOnly /\ UNCHANGED <<c2s, held>>
    /\ \/ Becomes(a, "published") /\ tag' = Append(tag, a) /\ UNCHANGED <<s2c, sOpen>>
       \/ /\ \E k \in {Network, Refusal} : Sent(a, <<Msg("error", 0, k)>>)
          /\ Hangup(a) /\ Becomes(a, "ended")
          /\ tag' \in {tag, Append(tag, a)}

\* BackupEnd, after a closing report in v2.  releaseConnection waits for the client to
\* close, at most connectionLinger, then the slot is free.
ReportEnd(a) ==
    /\ sess[a] = "published" /\ ServerOnly /\ UNCHANGED <<c2s, held, tag>>
    /\ Sent(a, IF mode = "stream" THEN <<Plainly("progress"), Plainly("end")>> ELSE <<Plainly("end")>>)
    /\ Hangup(a) /\ Becomes(a, "ended")

\* Mutant: a session whose client is gone waits for it.
NoticeGoneNever(a) == FALSE /\ UNCHANGED vars

\* ReadFrame fails: the client is gone (or its silence lasted the idle timeout), and
\* nothing of it is left to read.
NoticeGone(a) ==
    /\ sess[a] \in {"new", "greeted", "open"}
    /\ c2s[a] = <<>> /\ ~(up[a] /\ cOpen[a])
    /\ ServerOnly
    /\ Hangup(a) /\ Becomes(a, "ended")
    /\ UNCHANGED <<c2s, s2c, held, tag>>

Serve(a) ==
    \/ Accept(a) \/ ServeHello(a) \/ ServeStart(a) \/ ServeLayerStart(a) \/ ServeLayerEnd(a)
    \/ ServeData(a) \/ ServeStreamEnd(a) \/ Publish(a) \/ ReportEnd(a) \/ NoticeGone(a)

\* The client goroutine of an attempt.
Main ==
    \/ Dial \/ RecvHelloAck \/ RecvBackupAck \/ RecvLayerAck \/ RecvProgress \/ RecvBackupEnd
    \/ WaitReady \/ SourceWrites \/ SendEnd \/ WaitEnd \/ Sleep

Next ==
    \/ Main \/ ReadMessage \/ AsyncFails \/ Cancel \/ OtherSession
    \/ \E a \in Attempts : Serve(a) \/ Cut(a)

\* The client's goroutines and the server's sessions run; nothing else has to happen.
Fairness ==
    /\ WF_vars(Main) /\ WF_vars(SendEnd) /\ WF_vars(ReadMessage)
    /\ \A a \in Attempts : WF_vars(Serve(a))

Spec == Init /\ [][Next]_vars /\ Fairness

-----------------------------------------------------------------------------
\* A client that reports success has been told so by a session that had moved the tag
\* (uploadOnce, uploadStreamOnce), and in v1 the registry has every layer, whichever
\* attempt brought it there.
OkMeansPublished ==
    result = "ok" => /\ attempt \in Range(tag)
                     /\ mode = "layers" => held = 1..Layers

\* "The server has committed the backup, so a keepalive that lost the race with the
\* teardown and left its failure in asyncErr says nothing about the outcome" (client.go):
\* an upload that has read BackupEnd returns success, unless its caller gave up.
EndBelieved == gotEnd => result = "ok" \/ cpc = "end" \/ cancelled

\* Every session, also one whose client is gone, gives its slot back (serveOne).
SlotsFreed == \A a \in Attempts : HoldsSlot(a) ~> ~HoldsSlot(a)

\* An upload returns, however its connections break.
UploadReturns == <>(cpc = "returned")

\* docs/remote.md: "Errors that cannot improve on retry - authentication, ACL, quota, a
\* server that does not support streaming - fail immediately."
QuotaFailsAtOnce ==
    [][cpc = "hello" /\ over /\ Incoming(attempt, "helloack") /\ cpc' # cpc
         => cpc' = "returned"]_vars
=============================================================================
