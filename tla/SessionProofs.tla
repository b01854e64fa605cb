---------------------------- MODULE SessionProofs ----------------------------
(***************************************************************************)
(* The session of module Session for every set of contents, every quota,   *)
(* layer limit and bound: whatever frames the client sends and whenever    *)
(* the server shuts down, a tag is moved only to verified layers, and      *)
(* nothing the session started outlives it.                                *)
(*                                                                         *)
(* Every action starts from a running session, and nothing is published    *)
(* while it runs (Control): the properties about the tag reduce to the two *)
(* actions that move it.                                                   *)
(*                                                                         *)
(* The same session in time, module WireDeadline: on TCP the heartbeat of  *)
(* a streaming session keeps both deadlines ahead of the next heartbeat,   *)
(* whatever the handlers and the client do; on both transports a layer     *)
(* session, which has none, is held only as long as the pieces of a frame  *)
(* pay for, not by silence or by keepalives alone.                         *)
(***************************************************************************)
EXTENDS Session, WireDeadline, TLAPS

\* A leaf that names no prover is given to the SMT solver, then to Zenon.
USE SMTT(30), ZenonT(30)

-----------------------------------------------------------------------------
(* The inductive invariant.                                                *)

\* What the session has accepted, the registry holds under its own digest; so does it
\* the layer it skips, because the registry of this session stores verified bytes only.
Verified ==
    /\ layers \in Seq(Digests)
    /\ held \subseteq {<<d, d>> : d \in Digests}
    /\ \A i \in DOMAIN layers : <<layers[i], layers[i]>> \in held
    /\ state = "receiving" => current.digest \in Digests
    /\ state = "receiving" /\ current.skipped => <<current.digest, current.digest>> \in held

\* The upload, the receiver and the ingest follow the state; a skipped layer has no upload.
Owned ==
    /\ NothingOutlives
    /\ receiver \in {"none", "open"}
    /\ upload = "open" => ~current.skipped

\* While the session runs the tag has not moved.
Control ==
    /\ run = "running" => published = NotPublished
    /\ PublishedVerified

SessionInv == Verified /\ Owned /\ Control

\* A session starts with nothing of its own.
LEMMA InitSessionInv == Init => SessionInv
<1> SUFFICES ASSUME Init PROVE SessionInv
    OBVIOUS
<1>1. Verified
    BY DEF Init, Verified
<1>2. Owned
    BY DEF Init, Owned, NothingOutlives
<1>3. Control
    BY DEF Init, Control, PublishedVerified
<1> QED BY <1>1, <1>2, <1>3 DEF SessionInv

-----------------------------------------------------------------------------
(* What several handlers share.                                            *)

\* abort leaves nothing open, whichever receiver it was called with: the session's own,
\* or the nil pointer of a failed OpenBlob, when there is no upload.
LEMMA AbortFrees ==
  ASSUME SessionInv, NEW rcv, Abort(rcv),
         rcv = receiver \/ (rcv = "nil" /\ upload # "open"), state' = "closed"
  PROVE  /\ run' # "running"
         /\ NothingOutlives' /\ receiver' \in {"none", "open"} /\ upload' # "open"
<1>1. NothingOutlives /\ receiver \in {"none", "open"}
    BY DEF SessionInv, Owned
<1>2. run' # "running" /\ receiver' = "none"
    BY DEF Abort
<1>3. upload' # "open"
    BY <1>1 DEF Abort, NothingOutlives
<1>4. heartbeat' = FALSE /\ ingest' # "running"
    BY DEF Abort
<1> QED BY <1>2, <1>3, <1>4 DEF NothingOutlives

\* A session that ends with an error keeps what it has verified, frees what it holds and
\* moves no tag.
LEMMA EndsKeeps ==
  ASSUME SessionInv, run = "running", NEW rcv, NEW word, EndsFrom(rcv, word),
         rcv = receiver \/ (rcv = "nil" /\ upload # "open")
  PROVE  SessionInv'
<1>1. /\ state' = "closed" /\ Abort(rcv)
      /\ layers' = layers /\ held' = held /\ published' = published
    BY ZenonT(30) DEF EndsFrom
<1>2. Verified /\ Control
    BY DEF SessionInv
<1>3. Verified'
    BY <1>1, <1>2 DEF Verified
<1>4. Owned' /\ run' # "running"
    BY <1>1, AbortFrees, ZenonT(30) DEF Owned
<1>5. published' = NotPublished
    BY <1>1, <1>2 DEF Control
<1>6. Control'
    BY <1>4, <1>5, ZenonT(30) DEF Control, PublishedVerified
<1> QED BY <1>3, <1>4, <1>6 DEF SessionInv

\* A handler that answers with an error ends the session.
LEMMA FailKeeps ==
  ASSUME SessionInv, run = "running", Fail
  PROVE  SessionInv'
BY EndsKeeps, ZenonT(30) DEF Fail

\* While the session runs nothing is published.
LEMMA Unpublished ==
  ASSUME SessionInv, run = "running"
  PROVE  published = NotPublished
BY DEF SessionInv, Control

\* A step that moves no tag keeps Control.
LEMMA ControlKept ==
  ASSUME SessionInv, run = "running", published' = published
  PROVE  Control'
<1>1. published' = NotPublished
    BY Unpublished
<1> QED BY <1>1, ZenonT(30) DEF Control, PublishedVerified

-----------------------------------------------------------------------------
(* The handlers.                                                           *)

\* Hello, BackupStart and Shutdown change neither the layers nor what the session owns.
LEMMA GreetingKeeps ==
  ASSUME SessionInv, run = "running", run' = run, state' \in {"greeted", "ready", state},
         state' # state => state \in {"new", "greeted"},
         UNCHANGED <<layers, current, receiver, ingest, heartbeat, registry, answer>>
  PROVE  SessionInv'
<1>1. Verified /\ Owned
    BY DEF SessionInv
<1>2. Verified'
    BY <1>1 DEF Verified, registry
<1>3. Owned'
    BY <1>1 DEF Owned, NothingOutlives, registry
<1>4. Control'
    BY ControlKept DEF registry
<1> QED BY <1>2, <1>3, <1>4 DEF SessionInv

\* StreamStart: the ingest and its heartbeat belong to a running session.
LEMMA StreamStartKeeps ==
  ASSUME SessionInv, run = "running", StreamStart
  PROVE  SessionInv'
<1>1. CASE Fail
    BY <1>1, FailKeeps
<1>2. CASE ~Fail
  <2>1. /\ state = "greeted" /\ state' = "streaming" /\ ingest' = "running"
        /\ run' = run /\ layers' = layers /\ current' = current /\ receiver' = receiver
        /\ upload' = upload /\ held' = held /\ published' = published
      BY <1>2, ZenonT(30) DEF StreamStart, registry
  <2>2. Verified'
      BY <2>1 DEF SessionInv, Verified
  <2>3. Owned'
      BY <2>1 DEF SessionInv, Owned, NothingOutlives
  <2>4. Control'
      BY <2>1, ControlKept
  <2> QED BY <2>2, <2>3, <2>4 DEF SessionInv
<1> QED BY <1>1, <1>2

\* The ack of StreamStart cannot be sent: the ingest is gone with the session.
LEMMA StreamAckFailsKeeps ==
  ASSUME SessionInv, run = "running", StreamAckFails
  PROVE  SessionInv'
<1>1. /\ state = "greeted" /\ state' = "closed" /\ ingest' = "aborted"
      /\ run' = "returned" /\ heartbeat' = heartbeat
      /\ layers' = layers /\ current' = current /\ receiver' = receiver
      /\ upload' = upload /\ held' = held /\ published' = published
    BY ZenonT(30) DEF StreamAckFails, registry
<1>2. Verified'
    BY <1>1 DEF SessionInv, Verified
<1>3. Owned'
    BY <1>1 DEF SessionInv, Owned, NothingOutlives
<1>4. Control'
    BY <1>1, ControlKept
<1> QED BY <1>2, <1>3, <1>4 DEF SessionInv

\* LayerStart: a layer is skipped only if the registry holds its content.
LEMMA LayerStartKeeps ==
  ASSUME SessionInv, run = "running", NEW i, NEW size, NEW d \in Digests,
         LayerStart(i, size, d)
  PROVE  SessionInv'
<1>0. Verified /\ Owned
    BY DEF SessionInv
<1>1. CASE Fail
    BY <1>1, FailKeeps
<1>2. CASE ~Fail
  <2>1. /\ state = "ready" /\ state' = "receiving" /\ current'.digest = d
        /\ run' = run /\ ingest' = ingest /\ heartbeat' = heartbeat
        /\ layers' = layers /\ held' = held /\ published' = published
      BY <1>2 DEF LayerStart, LayerStartFits, Receives
  <2>2. \/ Exists(d) /\ receiver' = receiver /\ upload' = upload
        \/ ~current'.skipped /\ receiver' = "open" /\ upload' = "open"
      BY <1>2 DEF LayerStart, Receives
  <2>3. current'.skipped => <<d, d>> \in held
    <3>1. Exists(d) => <<d, d>> \in held
        BY <1>0 DEF Exists, Verified
    <3> QED BY <2>2, <3>1, ZenonT(30)
  <2>4. upload # "open" /\ ingest # "running"
      BY <1>0, <2>1 DEF Owned, NothingOutlives
  <2>5. Verified'
      BY <1>0, <2>1, <2>3, ZenonT(30) DEF Verified
  <2>6. Owned'
    <3>1. CASE receiver' = receiver /\ upload' = upload
        BY <1>0, <2>1, <2>4, <3>1 DEF Owned, NothingOutlives
    <3>2. CASE ~current'.skipped /\ receiver' = "open" /\ upload' = "open"
        BY <1>0, <2>1, <2>4, <3>2 DEF Owned, NothingOutlives
    <3> QED BY <2>2, <3>1, <3>2
  <2>7. Control'
      BY <2>1, ControlKept
  <2> QED BY <2>5, <2>6, <2>7 DEF SessionInv
<1> QED BY <1>1, <1>2

\* OpenBlob fails: abort meets its nil pointer when no upload is open.
LEMMA OpenBlobFailsKeeps ==
  ASSUME SessionInv, run = "running", NEW i, NEW size, NEW d \in Digests,
         OpenBlobFails(i, size, d)
  PROVE  SessionInv'
<1>1. state = "ready" /\ EndsFrom("nil", "error")
    BY DEF OpenBlobFails, LayerStartFits
<1>2. upload # "open"
    BY <1>1 DEF SessionInv, Owned, NothingOutlives
<1> QED BY <1>1, <1>2, EndsKeeps

\* A payload is accepted and the session goes on, or its sleep ends with the shutdown.
LEMMA AcceptsKeeps ==
  ASSUME SessionInv, run = "running", NEW n, Accepts(n)
  PROVE  SessionInv'
<1>0. Verified /\ Owned
    BY DEF SessionInv
<1>1. /\ layers' = layers /\ current' = current /\ held' = held
      /\ published' = published
    BY ZenonT(30) DEF Accepts, registry
<1>2. Control'
    BY <1>1, ControlKept
<1>3. CASE UNCHANGED <<run, state, version, count, layers, current, receiver, ingest,
                      heartbeat, cancelled, registry, answer>>
  <2>1. Verified'
      BY <1>0, <1>3 DEF Verified, registry
  <2>2. Owned'
      BY <1>0, <1>3 DEF Owned, NothingOutlives, registry
  <2> QED BY <1>2, <2>1, <2>2 DEF SessionInv
<1>4. CASE state' = "closed" /\ Abort(receiver)
  <2>1. Verified'
      BY <1>0, <1>1, <1>4 DEF Verified
  <2>2. Owned'
      BY <1>4, AbortFrees, ZenonT(30) DEF Owned
  <2> QED BY <1>2, <2>1, <2>2 DEF SessionInv
<1> QED BY <1>3, <1>4, ZenonT(30) DEF Accepts

\* LayerEnd: the layer it accepts is in the registry under its digest, and the tag moves
\* to as many layers as were announced.
LEMMA LayerEndKeeps ==
  ASSUME SessionInv, run = "running", NEW i, NEW d \in Digests, LayerEnd(i, d)
  PROVE  SessionInv'
<1>0. Verified /\ Owned
    BY DEF SessionInv
<1>1. CASE Fail
    BY <1>1, FailKeeps
<1>2. CASE ~Fail
  <2>1. /\ state = "receiving" /\ LayerVerified /\ LayerAccepted
        /\ UNCHANGED <<version, count, total, ingest, heartbeat, cancelled>>
        /\ state' \in {"ready", "closed"}
      BY <1>2 DEF LayerEnd
  <2>2. current.digest \in Digests
      BY <1>0, <2>1 DEF Verified
  <2>3. /\ held' \subseteq {<<e, e>> : e \in Digests} /\ held \subseteq held'
        /\ <<current.digest, current.digest>> \in held'
    <3>1. CASE current.skipped
        BY <1>0, <2>1, <3>1 DEF Verified, LayerAccepted
    <3>2. CASE ~current.skipped
      <4>1. held' = held \cup {<<current.digest, current.digest>>}
          BY <2>1, <3>2, ZenonT(30) DEF LayerAccepted, LayerVerified
      <4> QED BY <4>1, <2>2, <1>0 DEF Verified
    <3> QED BY <3>1, <3>2
  <2>4. layers' = Append(layers, current.digest) /\ layers \in Seq(Digests)
      BY <1>0, <2>1 DEF LayerAccepted, Verified
  <2>5. layers' \in Seq(Digests)
      BY <2>2, <2>4
  <2>6. \A j \in DOMAIN layers' : <<layers'[j], layers'[j]>> \in held'
    <3>1. \A j \in DOMAIN layers' :
            \/ j \in DOMAIN layers /\ layers'[j] = layers[j]
            \/ layers'[j] = current.digest
        BY <2>2, <2>4
    <3> QED BY <3>1, <2>3, <1>0, ZenonT(30) DEF Verified
  <2>7. Verified'
      BY <2>1, <2>3, <2>5, <2>6 DEF Verified
  <2>8. Owned'
    <3>1. receiver' = "none" /\ current'.skipped = FALSE
        BY <2>1 DEF LayerAccepted, NoLayer
    <3>2. upload' # "open"
        BY <1>0, <2>1, ZenonT(30) DEF LayerAccepted, Owned
    <3>3. ingest' # "running" /\ heartbeat' = FALSE
        BY <1>0, <2>1 DEF Owned, NothingOutlives
    <3> QED BY <3>1, <3>2, <3>3 DEF Owned, NothingOutlives
  <2>9. Control'
    <3>1. CASE published' = published
        BY <3>1, ControlKept
    <3>2. CASE published' = layers' /\ Len(layers') = count /\ run' = "returned"
      <4>1. published' # NotPublished
        <5>1. layers' # <<>> /\ layers'[1] \in Digests
            BY <2>4, <2>2
        <5> QED BY <5>1, <3>2, SessionAssumption DEF NotPublished
      <4>2. count' = count
          BY <2>1
      <4>3. PublishedVerified'
          BY <3>2, <4>2, <2>6, ZenonT(30) DEF PublishedVerified
      <4> QED BY <3>2, <4>1, <4>3 DEF Control
    <3> QED BY <1>2, <3>1, <3>2 DEF LayerEnd, CommitBackup
  <2> QED BY <2>7, <2>8, <2>9 DEF SessionInv
<1> QED BY <1>1, <1>2

\* StreamEnd: the tag of a stream has no layers of the client, and the heartbeat is stopped.
LEMMA StreamEndKeeps ==
  ASSUME SessionInv, run = "running", NEW raw, StreamEnd(raw)
  PROVE  SessionInv'
<1>1. CASE Fail
    BY <1>1, FailKeeps
<1>2. CASE ~Fail
  <2>1. /\ state = "streaming" /\ state' = "closed" /\ run' = "returned"
        /\ ingest' = "finished" /\ heartbeat' = FALSE
        /\ layers' = layers /\ current' = current /\ receiver' = receiver
        /\ upload' = upload /\ held' = held
      BY <1>2, ZenonT(30) DEF StreamEnd
  <2>2. published' = <<>> \/ published' = published
      BY <1>2 DEF StreamEnd
  <2>3. Verified'
      BY <2>1 DEF SessionInv, Verified
  <2>4. Owned'
      BY <2>1 DEF SessionInv, Owned, NothingOutlives
  <2>5. Control'
    <3>1. CASE published' = <<>>
      <4>1. published' # NotPublished
          BY <3>1 DEF NotPublished
      <4> QED BY <2>1, <3>1, <4>1 DEF Control, PublishedVerified
    <3> QED BY <3>1, <2>2, ControlKept
  <2> QED BY <2>3, <2>4, <2>5 DEF SessionInv
<1> QED BY <1>1, <1>2

-----------------------------------------------------------------------------
(* Every step, and the theorems.                                           *)

\* Whatever frame the client sends, its handler keeps the invariant.
LEMMA FramesKeep ==
  ASSUME SessionInv, Frames
  PROVE  SessionInv'
<1>1. CASE \E v \in 1..2 : Hello(v)
  <2> PICK v \in 1..2 : Hello(v)
      BY <1>1
  <2>1. run = "running"
      BY DEF Hello, Reading
  <2>2. CASE Fail
      BY <2>1, <2>2, FailKeeps
  <2>3. CASE ~Fail
      BY <2>1, <2>3, GreetingKeeps, ZenonT(30) DEF Hello
  <2> QED BY <2>2, <2>3
<1>2. CASE \E n \in 0..MaxCount : BackupStart(n)
  <2> PICK n \in 0..MaxCount : BackupStart(n)
      BY <1>2
  <2>1. run = "running"
      BY DEF BackupStart, Reading
  <2>2. CASE Fail
      BY <2>1, <2>2, FailKeeps
  <2>3. CASE ~Fail
      BY <2>1, <2>3, GreetingKeeps, ZenonT(30) DEF BackupStart
  <2> QED BY <2>2, <2>3
<1>3. ASSUME NEW i \in 0..MaxLayers, NEW size \in 0..MaxSize, NEW d \in Digests,
             LayerStart(i, size, d) \/ OpenBlobFails(i, size, d)
      PROVE  SessionInv'
    BY <1>3, LayerStartKeeps, OpenBlobFailsKeeps, ZenonT(30)
    DEF LayerStart, OpenBlobFails, Reading
<1>4. ASSUME NEW n \in 0..MaxSize, NEW good \in BOOLEAN, LayerData(n, good)
      PROVE  SessionInv'
    BY <1>4, FailKeeps, AcceptsKeeps, ZenonT(30) DEF LayerData, Reading
<1>5. ASSUME NEW i \in 0..MaxLayers, NEW d \in Digests, LayerEnd(i, d)
      PROVE  SessionInv'
    BY <1>5, LayerEndKeeps, ZenonT(30) DEF LayerEnd, Reading
<1>6. CASE StreamStart \/ StreamAckFails
    BY <1>6, StreamStartKeeps, StreamAckFailsKeeps, ZenonT(30)
    DEF StreamStart, StreamAckFails, Reading
<1>7. ASSUME NEW n \in 0..MaxSize, StreamData(n)
      PROVE  SessionInv'
    BY <1>7, FailKeeps, AcceptsKeeps, ZenonT(30) DEF StreamData, Reading
<1>8. ASSUME NEW raw \in 0..MaxStream + 1, StreamEnd(raw)
      PROVE  SessionInv'
    BY <1>8, StreamEndKeeps, ZenonT(30) DEF StreamEnd, Reading
<1>9. CASE Token \/ ClientCancels \/ BadFrame
    BY <1>9, FailKeeps, EndsKeeps, ZenonT(30) DEF Token, ClientCancels, BadFrame, Reading
<1> QED BY <1>1, <1>2, <1>3, <1>4, <1>5, <1>6, <1>7, <1>8, <1>9 DEF Frames

\* Every step of the server, the client and the wire keeps the invariant.
LEMMA SessionStep ==
  ASSUME SessionInv, [Next]_vars
  PROVE  SessionInv'
<1>1. CASE Frames
    BY <1>1, FramesKeep
<1>2. CASE ReadFails \/ LoopCancelled
    BY <1>2, EndsKeeps, ZenonT(30) DEF ReadFails, LoopCancelled, Reading
<1>3. CASE Shutdown
    BY <1>3, GreetingKeeps, ZenonT(30) DEF Shutdown, Reading
<1>4. CASE UNCHANGED vars
  <2>1. Verified'
      BY <1>4 DEF SessionInv, Verified, vars
  <2>2. Owned'
      BY <1>4 DEF SessionInv, Owned, NothingOutlives, vars
  <2>3. Control'
      BY <1>4 DEF SessionInv, Control, PublishedVerified, vars
  <2> QED BY <2>1, <2>2, <2>3 DEF SessionInv
<1> QED BY <1>1, <1>2, <1>3, <1>4 DEF Next

\* SessionInv holds of every behaviour of the session.
THEOREM Invariance == Spec => []SessionInv
BY InitSessionInv, SessionStep, PTL DEF Spec

\* Whatever the client sends, a tag a v1 session moved names the announced number of
\* layers and the registry holds each under its own digest (LayerStart, LayerEnd).
THEOREM PublishedIsVerified == Spec => []PublishedVerified
<1>1. SessionInv => PublishedVerified
    BY DEF SessionInv, Control
<1> QED BY <1>1, Invariance, PTL

\* On every path out of Session.Run the heartbeat, the ingest and the upload are gone.
THEOREM NothingIsLeft == Spec => []NothingOutlives
<1>1. SessionInv => NothingOutlives
    BY DEF SessionInv, Owned
<1> QED BY <1>1, Invariance, PTL

-----------------------------------------------------------------------------
(* Deadlines: the heartbeat of a streaming session.                        *)

\* The part of the type the argument needs.
TimersOK ==
    /\ left \in 0..Idle /\ cleft \in 0..Idle
    /\ beat \in 0..Beat
    /\ streaming \in BOOLEAN

\* Both deadlines lie beyond the next heartbeat: a heartbeat that does not rearm a
\* deadline found more than Idle \div 2 of it left, and the next one is nearer.
DeadlinesAhead ==
    streaming /\ srv # "over" => left > beat /\ (client = "up" => cleft > beat)

\* Inductive on TCP.
KeptInv ==
    /\ TimersOK
    /\ DeadlinesAhead
    /\ srv # "over" => cause = "none"
    /\ LiveSessionKept

\* touch never brings a deadline nearer, and leaves at least half the window.
LEMMA TouchExtends ==
    ASSUME Transport = "tcp", NEW d \in 0..Idle
    PROVE  Touch(d) \in 0..Idle /\ Touch(d) >= d /\ 2 * Touch(d) >= Idle
           /\ Touch(d) > Beat
  BY DeadlineAssumption DEF Touch

\* Session start: both deadlines are a whole window away.
LEMMA KeptInit ==
    ASSUME TimedInit
    PROVE  KeptInv
  BY DeadlineAssumption DEF TimedInit, KeptInv, TimersOK, DeadlinesAhead, LiveSessionKept

\* Every step of a TCP session keeps the invariant.
LEMMA KeptNext ==
    ASSUME Transport = "tcp", KeptInv, [TimedNext]_timedVars
    PROVE  KeptInv'
  <1> USE DeadlineAssumption DEF KeptInv, TimersOK, DeadlinesAhead, LiveSessionKept
  <1>T. /\ Touch(left) \in 0..Idle /\ Touch(left) >= left /\ Touch(left) > Beat
        /\ Touch(cleft) \in 0..Idle /\ Touch(cleft) >= cleft /\ Touch(cleft) > Beat
    BY TouchExtends
  <1>1. CASE ClientSends
    BY <1>1, <1>T DEF ClientSends
  <1>2. CASE ClientKeepalive
    BY <1>2, <1>T DEF ClientKeepalive
  <1>3. CASE ClientExpires
    <2>1. ~streaming
      BY <1>3 DEF ClientExpires, ClientExpired
    <2> QED
      BY <2>1, <1>3 DEF ClientExpires, Ends
  <1>4. CASE ClientGone
    BY <1>4 DEF ClientGone
  <1>5. CASE ReadPart \/ ReadProgress
    BY <1>5, <1>T DEF ReadPart, ReadProgress, NextFrame
  <1>6. CASE ReadKeepalive
    BY <1>6 DEF ReadKeepalive, NextFrame, Ends
  <1>7. CASE ServerExpires
    <2>1. ~streaming
      BY <1>7 DEF ServerExpires, ServerExpired
    <2> QED
      BY <2>1, <1>7 DEF ServerExpires, Ends
  <1>8. CASE HandlerReturns
    <2>1. CASE streaming
      BY <2>1, <1>8 DEF HandlerReturns, NextFrame
    <2>2. CASE ~streaming
      BY <2>2, <1>8, <1>T DEF HandlerReturns, NextFrame, Ends
    <2> QED
      BY <2>1, <2>2
  <1>9. CASE Answer
    BY <1>9 DEF Answer, Ends
  <1>10. CASE Heartbeat
    BY <1>10, <1>T DEF Heartbeat, HeartbeatDue
  <1>11. CASE ConnectionLost
    BY <1>11 DEF ConnectionLost, Ends
  <1>12. CASE Tick
    BY <1>12 DEF Tick, HeartbeatDue, Down
  <1>13. CASE UNCHANGED timedVars
    BY <1>13 DEF timedVars
  <1> QED
    BY <1>1, <1>2, <1>3, <1>4, <1>5, <1>6, <1>7, <1>8, <1>9, <1>10, <1>11, <1>12, <1>13
       DEF TimedNext

\* For every idle window and every heartbeat of at most half of it: a TCP streaming
\* session whose client is there is never ended by a deadline, on either side.
THEOREM TcpStreamKept ==
    ASSUME Transport = "tcp"
    PROVE  TimedSpec => []LiveSessionKept
  <1>1. TimedInit => KeptInv
    BY KeptInit
  <1>2. KeptInv /\ [TimedNext]_timedVars => KeptInv'
    BY KeptNext
  <1>3. KeptInv => LiveSessionKept
    BY DEF KeptInv
  <1> QED
    BY <1>1, <1>2, <1>3, PTL DEF TimedSpec
-----------------------------------------------------------------------------
(* A layer session has no heartbeat: its loop arms the deadline, and only  *)
(* the pieces of the frame it waits for move it.                           *)

\* What a client has bought with the pieces it sent of the frame under way.
Bought(n) == (n + 1) * Idle

\* Each piece adds one window.
LEMMA BoughtSteps ==
    ASSUME NEW n \in Nat
    PROVE  Bought(n) \in Nat /\ Bought(0) = Idle /\ Bought(n + 1) = Bought(n) + Idle
  BY DeadlineAssumption DEF Bought

\* While the loop waits for a frame, the wait and what is left of the deadline are paid
\* for by the pieces; a handler that returns in time was in it for less than a window.
SilentInv ==
    /\ left \in 0..Idle /\ quiet \in Nat /\ stale \in Nat /\ part \in Nat
    /\ ~streaming =>
          /\ srv = "read" => /\ quiet + left <= Bought(part)
                             /\ stale + left <= KeepaliveOnly + Bought(part)
          /\ srv = "busy" /\ left > 0 => stale <= Idle - left

\* touch stays inside the window, on both transports.
LEMMA TouchBounded ==
    ASSUME NEW d \in 0..Idle
    PROVE  Touch(d) \in 0..Idle
  BY DeadlineAssumption DEF Touch

\* Every step of a session keeps it, on both transports.
LEMMA SilentNext ==
    ASSUME Idle <= KeepaliveOnly, SilentInv, [TimedNext]_timedVars
    PROVE  SilentInv'
  <1> USE DeadlineAssumption DEF SilentInv
  <1>T. Touch(left) \in 0..Idle
    BY TouchBounded
  <1>B. Bought(part) \in Nat /\ Bought(0) = Idle /\ Bought(part + 1) = Bought(part) + Idle
    BY BoughtSteps
  <1>1. CASE ClientSends \/ ClientKeepalive \/ ClientExpires \/ ClientGone
    BY <1>1 DEF ClientSends, ClientKeepalive, ClientExpires, ClientGone, Ends
  <1>2. CASE ReadPart
    BY <1>2, <1>T, <1>B DEF ReadPart
  <1>3. CASE ReadProgress
    BY <1>3, <1>T, <1>B DEF ReadProgress, NextFrame
  <1>4. CASE ReadKeepalive
    BY <1>4, <1>B DEF ReadKeepalive, KeepaliveRule, NextFrame, Ends
  <1>5. CASE ServerExpires \/ Answer \/ ConnectionLost
    BY <1>5 DEF ServerExpires, Answer, ConnectionLost, Ends
  <1>6. CASE HandlerReturns
    BY <1>6, <1>B DEF HandlerReturns, NextFrame, Ends
  <1>7. CASE Heartbeat
    BY <1>7, <1>T DEF Heartbeat, HeartbeatDue
  <1>8. CASE Tick
    <2>1. /\ left' \in 0..Idle /\ (left > 0 => left' = left - 1) /\ (left = 0 => left' = 0)
          /\ stale' \in Nat /\ stale' <= stale + 1 /\ quiet' \in Nat /\ quiet' <= quiet + 1
      BY <1>8 DEF Tick, Down, Up
    <2>2. /\ streaming' = streaming /\ srv' = srv /\ part' = part
          /\ srv = "read" => left > 0
      BY <1>8 DEF Tick, ServerExpired
    <2>3. ~streaming' /\ srv' = "read" =>
             quiet' + left' <= Bought(part) /\ stale' + left' <= KeepaliveOnly + Bought(part)
      BY <2>1, <2>2, <1>B
    <2>4. ~streaming' /\ srv' = "busy" /\ left' > 0 => stale' <= Idle - left'
      BY <1>8 DEF Tick, Down, Up
    <2> QED
      BY <2>1, <2>2, <2>3, <2>4
  <1>9. CASE UNCHANGED timedVars
    BY <1>9 DEF timedVars
  <1> QED
    BY <1>1, <1>2, <1>3, <1>4, <1>5, <1>6, <1>7, <1>8, <1>9 DEF TimedNext

\* For every idle window of at most maxKeepaliveOnly (120 s and 15 min in the code), every
\* number of pieces and both transports: a piece of a frame buys the client of a layer
\* session one window, and keepalives alone, then silence, hold its slot no longer than
\* the pieces of one frame do.
THEOREM SilenceBounded ==
    ASSUME Idle <= KeepaliveOnly
    PROVE  TimedSpec => []SilentPeerDropped
  <1>1. TimedInit => SilentInv
    BY DeadlineAssumption, BoughtSteps DEF TimedInit, SilentInv
  <1>2. SilentInv /\ [TimedNext]_timedVars => SilentInv'
    BY SilentNext
  <1>3. SilentInv => SilentPeerDropped
    <2> SUFFICES ASSUME SilentInv, ~streaming, srv = "read"
                 PROVE  /\ quiet <= Bought(part)
                        /\ stale <= KeepaliveOnly + Bought(part)
      BY DEF SilentPeerDropped, Bought
    <2> QED
      BY DeadlineAssumption, BoughtSteps DEF SilentInv
  <1> QED
    BY <1>1, <1>2, <1>3, PTL DEF TimedSpec
=============================================================================
