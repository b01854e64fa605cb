------------------------- MODULE RemoteUploadProofs -------------------------
(***************************************************************************)
(* What the remote clients believe, for any number of attempts, layers and *)
(* frames and any number of slots, whatever the network cuts and whichever *)
(* session is still at work for an attempt that is over.                   *)
(*                                                                         *)
(* The promise is about two ends of a connection and is carried from one   *)
(* to the other by the frames under way: each part of the invariant says   *)
(* what a frame of some kind, wherever it is, means for the registry.      *)
(***************************************************************************)
EXTENDS RemoteUpload, TLAPS

\* A leaf that names no prover is given to the SMT solver, then to Zenon.
USE SMTT(30), ZenonT(30)

-----------------------------------------------------------------------------
(* The inductive invariant.                                                *)

\* The frames of both protocols.
Names == {"hello", "helloack", "start", "startack", "layerstart", "layerack", "layerend",
          "progress", "data", "streamend", "end", "error"}
Kinds == {Network, Refusal, Plain, "skipped"}
Message == [m : Names, i : Nat, kind : Kinds]

\* Where the client of a v1 attempt waits for the answer to what it sent last.
Waiting == {"hello", "start", "layerack", "progress"}

\* Types; an attempt that sleeps is not the last.
UploadType ==
    /\ mode \in {"layers", "stream"}
    /\ attempt \in Attempts
    /\ layer \in Nat
    /\ c2s \in [Attempts -> Seq(Message)] /\ s2c \in [Attempts -> Seq(Message)]
    /\ DOMAIN sess = Attempts /\ tag \in Seq(Attempts)
    /\ held \subseteq 1..Layers
    /\ cpc = "sleep" => attempt < Backoffs + 1

\* Attempts to come have no connection.
FutureInv ==
    /\ \A a \in Attempts :
        a > attempt \/ (a = attempt /\ cpc = "dial") =>
           c2s[a] = <<>> /\ s2c[a] = <<>> /\ sess[a] = "none"
    /\ \A a \in Attempts : sess[a] \in {"none", "dialled", "new"} => s2c[a] = <<>>

\* What the client believes, and what it has been told.
EndInv ==
    /\ \A a \in Attempts :
          sess[a] = "published" \/ (\E msg \in Range(s2c[a]) : msg.m = "end") => a \in Range(tag)
    /\ gotEnd => attempt \in Range(tag)
    /\ result = "ok" => gotEnd /\ cpc = "returned"
    /\ cpc \notin {"end", "sleep", "returned"} => ~gotEnd
    /\ mode = "layers" => (gotEnd => result = "ok")
    /\ rpc = "run" => mode = "stream" /\ cpc \in {"start", "send", "end"}

\* v2: the session publishes only after StreamEnd, for which the client waits.
StreamInv ==
    mode = "stream" =>
        /\ cpc \in {"dial", "hello", "start", "send"} =>
             /\ sess[attempt] \notin {"publishing", "published"}
             /\ \A msg \in Range(c2s[attempt]) : msg.m # "streamend"
             /\ \A msg \in Range(s2c[attempt]) : msg.m # "end"
        /\ \A a \in Attempts : \A msg \in Range(c2s[a]) :
               msg.m \in {"hello", "start", "data", "streamend"}

\* v1: layers are in the registry before they are talked of as such.
HeldInv ==
    mode = "layers" =>
        /\ \A a \in Attempts :
              /\ \A msg \in Range(c2s[a]) :
                    /\ msg.m \in {"hello", "start", "layerstart", "layerend"}
                    /\ msg.m \in {"layerstart", "layerend"} =>
                          msg.i \in 1..Layers /\ 1..(msg.i - 1) \subseteq held
                    /\ msg.m = "layerend" /\ msg.kind = "skipped" => msg.i \in held
              /\ \A msg \in Range(s2c[a]) :
                    /\ msg.m = "layerack" /\ msg.kind = "skipped" => msg.i \in held
                    /\ msg.m = "progress" => 1..msg.i \subseteq held
              /\ sess[a] \in {"publishing", "published"} \/ a \in Range(tag) => held = 1..Layers
        /\ cpc \in {"layerack", "progress"} => layer \in 1..Layers /\ 1..(layer - 1) \subseteq held

\* v1: the question the client waits with, and the answers to it.
Asked(msg) ==
    \/ cpc = "hello" /\ msg.m = "hello"
    \/ cpc = "start" /\ msg.m = "start"
    \/ cpc = "layerack" /\ msg.m = "layerstart" /\ msg.i = layer
    \/ cpc = "progress" /\ msg.m = "layerend" /\ msg.i = layer
Answered(msg) ==
    \/ msg.m = "error"
    \/ cpc = "hello" /\ msg.m = "helloack"
    \/ cpc = "start" /\ msg.m = "startack"
    \/ cpc = "layerack" /\ msg.m = "layerack" /\ msg.i = layer
    \/ cpc = "progress" /\ msg.m = "progress" /\ msg.i = layer
    \/ cpc = "progress" /\ msg.m = "end" /\ layer = Layers

\* After the last layer the server goes on by itself, to publish and to report.
LastLayer == cpc = "progress" /\ layer = Layers

\* v1: the client speaks again only when it has been answered, so at most one frame is
\* under way and a session publishes only after the last layer.
TalkInv ==
    mode = "layers" /\ cpc \in Waiting =>
        /\ Len(c2s[attempt]) <= 1 /\ \A msg \in Range(c2s[attempt]) : Asked(msg)
        /\ \A msg \in Range(s2c[attempt]) : Answered(msg)
        /\ ~LastLayer => /\ Len(s2c[attempt]) <= 1
                         /\ sess[attempt] \notin {"publishing", "published"}
        /\ c2s[attempt] # <<>> /\ s2c[attempt] # <<>> =>
              sess[attempt] = "ended" /\ \A msg \in Range(s2c[attempt]) : msg.m = "error"
        /\ sess[attempt] \in {"publishing", "published"} => c2s[attempt] = <<>>

UploadInv == UploadType /\ FutureInv /\ EndInv /\ StreamInv /\ HeldInv /\ TalkInv /\ EndBelieved

-----------------------------------------------------------------------------
(* Frames under way.                                                       *)

\* A stream gives up its first frame.
LEMMA TailFacts ==
    ASSUME NEW S, NEW s \in Seq(S), s # <<>>
    PROVE  /\ Head(s) \in Range(s) /\ Head(s) \in S
           /\ Tail(s) \in Seq(S) /\ Range(Tail(s)) \subseteq Range(s)
           /\ Len(Tail(s)) <= Len(s)
           /\ Len(s) <= 1 => Tail(s) = <<>>
  <1>1. /\ Len(s) \in Nat /\ Len(s) > 0 /\ DOMAIN s = 1..Len(s)
        /\ Tail(s) \in Seq(S) /\ Len(Tail(s)) = Len(s) - 1 /\ DOMAIN Tail(s) = 1..(Len(s) - 1)
        /\ Head(s) = s[1]
    OBVIOUS
  <1>2. \A i \in DOMAIN Tail(s) : Tail(s)[i] = s[i + 1] /\ i + 1 \in DOMAIN s
    BY <1>1
  <1>3. 1 \in DOMAIN s /\ s[1] \in S
    BY <1>1
  <1>4. Head(s) \in Range(s) /\ Range(Tail(s)) \subseteq Range(s)
    BY <1>1, <1>2, <1>3 DEF Range
  <1>5. Len(s) <= 1 => Tail(s) = <<>>
    BY <1>1
  <1> QED
    BY <1>1, <1>3, <1>4, <1>5

\* A cut leaves a prefix.
LEMMA PrefixFacts ==
    ASSUME NEW S, NEW s \in Seq(S), NEW n \in 0..Len(s)
    PROVE  /\ SubSeq(s, 1, n) \in Seq(S) /\ Range(SubSeq(s, 1, n)) \subseteq Range(s)
           /\ Len(SubSeq(s, 1, n)) <= Len(s)
           /\ s = <<>> => SubSeq(s, 1, n) = <<>>
  <1>1. Len(s) \in Nat /\ DOMAIN s = 1..Len(s) /\ n \in Nat /\ n <= Len(s)
    OBVIOUS
  <1>2. /\ SubSeq(s, 1, n) \in Seq(S) /\ Len(SubSeq(s, 1, n)) = n
        /\ DOMAIN SubSeq(s, 1, n) = 1..n
        /\ \A i \in 1..n : SubSeq(s, 1, n)[i] = s[i]
    BY <1>1
  <1>3. \A i \in 1..n : i \in DOMAIN s
    BY <1>1
  <1>4. Range(SubSeq(s, 1, n)) \subseteq Range(s)
    BY <1>2, <1>3, ZenonT(30) DEF Range
  <1>5. s = <<>> => SubSeq(s, 1, n) = <<>>
    BY <1>1, <1>2
  <1> QED
    BY <1>1, <1>2, <1>4, <1>5, ZenonT(30)

\* Frames are added at the end.
LEMMA ConcatFacts ==
    ASSUME NEW S, NEW s \in Seq(S), NEW t \in Seq(S)
    PROVE  /\ s \o t \in Seq(S)
           /\ Range(s \o t) \subseteq Range(s) \cup Range(t)
           /\ Range(s) \subseteq Range(s \o t)
           /\ s = <<>> => s \o t = t
           /\ t = <<>> => s \o t = s
  <1>1. /\ Len(s) \in Nat /\ Len(t) \in Nat /\ DOMAIN s = 1..Len(s) /\ DOMAIN t = 1..Len(t)
        /\ s \o t \in Seq(S) /\ Len(s \o t) = Len(s) + Len(t)
        /\ DOMAIN (s \o t) = 1..(Len(s) + Len(t))
    OBVIOUS
  <1>2. \A i \in DOMAIN (s \o t) : \/ i \in DOMAIN s /\ (s \o t)[i] = s[i]
                                   \/ (i - Len(s)) \in DOMAIN t /\ (s \o t)[i] = t[i - Len(s)]
    BY <1>1
  <1>3. \A i \in DOMAIN s : i \in DOMAIN (s \o t) /\ (s \o t)[i] = s[i]
    BY <1>1
  <1>4. Range(s \o t) \subseteq Range(s) \cup Range(t) /\ Range(s) \subseteq Range(s \o t)
    BY <1>2, <1>3, ZenonT(30) DEF Range
  <1>5. (s = <<>> => s \o t = t) /\ (t = <<>> => s \o t = s)
    OBVIOUS
  <1> QED
    BY <1>1, <1>4, <1>5, ZenonT(30)

\* One frame.
LEMMA OneFrame ==
    ASSUME NEW msg \in Message
    PROVE  /\ <<msg>> \in Seq(Message) /\ Range(<<msg>>) = {msg} /\ Len(<<msg>>) = 1
           /\ <<msg>> # <<>>
  BY DEF Range

\* An empty stream.
LEMMA Empty ==
    /\ Range(<<>>) = {} /\ Len(<<>>) = 0 /\ Len(<<>>) <= 1
    /\ <<>> \in Seq(Message) /\ <<>> \in Seq(Attempts)
  BY DEF Range

\* The streams g are those of f without some of their frames.
Shrunk(g, f) ==
    /\ g \in [Attempts -> Seq(Message)]
    /\ \A a \in Attempts : /\ Range(g[a]) \subseteq Range(f[a])
                           /\ Len(g[a]) <= Len(f[a])
                           /\ f[a] = <<>> => g[a] = <<>>

\* Frames are taken from one stream only.
LEMMA ShrunkAt ==
    ASSUME NEW f \in [Attempts -> Seq(Message)], NEW a \in Attempts, NEW s \in Seq(Message),
           Range(s) \subseteq Range(f[a]), Len(s) <= Len(f[a]), f[a] = <<>> => s = <<>>
    PROVE  Shrunk([f EXCEPT ![a] = s], f)
  BY DEF Shrunk

\* Nothing is taken.
LEMMA ShrunkSame ==
    ASSUME NEW f \in [Attempts -> Seq(Message)]
    PROVE  Shrunk(f, f)
  BY DEF Shrunk

\* What every step can count on.
LEMMA Basics ==
    ASSUME UploadInv
    PROVE  /\ UploadType /\ attempt \in Attempts /\ layer \in Nat /\ layer + 1 \in Nat
           /\ cpc \notin {"end", "sleep", "returned"} => ~gotEnd
           /\ UNCHANGED s2c => Shrunk(s2c', s2c)
           /\ UNCHANGED c2s => Shrunk(c2s', c2s)
  <1>1. UploadType /\ (cpc \notin {"end", "sleep", "returned"} => ~gotEnd)
    BY DEF UploadInv, EndInv
  <1>2. /\ attempt \in Attempts /\ layer \in Nat
        /\ s2c \in [Attempts -> Seq(Message)] /\ c2s \in [Attempts -> Seq(Message)]
    BY <1>1 DEF UploadType
  <1>3. layer + 1 \in Nat
    BY <1>2
  <1>4. Shrunk(s2c, s2c) /\ Shrunk(c2s, c2s)
    BY <1>2, ShrunkSame
  <1> QED
    BY <1>1, <1>2, <1>3, <1>4

\* Taken: the client reads a frame.
LEMMA TakenShrinks ==
    ASSUME UploadType, NEW a \in Attempts, s2c[a] # <<>>, Taken(a)
    PROVE  Shrunk(s2c', s2c)
  <1>1. s2c[a] \in Seq(Message)
    BY DEF UploadType
  <1> QED
    BY <1>1, TailFacts, ShrunkAt, ZenonT(30) DEF Taken, UploadType

\* A prefix of one stream, the others as they were.
LEMMA PrefixShrinks ==
    ASSUME NEW f \in [Attempts -> Seq(Message)], NEW a \in Attempts, NEW n \in 0..Len(f[a])
    PROVE  Shrunk([f EXCEPT ![a] = SubSeq(f[a], 1, n)], f)
  <1> DEFINE s == SubSeq(f[a], 1, n)
  <1>1. f[a] \in Seq(Message)
    OBVIOUS
  <1>2. /\ s \in Seq(Message) /\ Range(s) \subseteq Range(f[a]) /\ Len(s) <= Len(f[a])
        /\ f[a] = <<>> => s = <<>>
    BY <1>1, PrefixFacts
  <1> HIDE DEF s
  <1> QED
    BY <1>2, ShrunkAt, ZenonT(30) DEF s

\* Cut: the network loses the end of both streams of an attempt.
LEMMA CutShrinks ==
    ASSUME UploadType, NEW a \in Attempts, Cut(a)
    PROVE  Shrunk(c2s', c2s) /\ Shrunk(s2c', s2c)
  <1>1. s2c[a] \in Seq(Message) /\ c2s[a] \in Seq(Message)
    BY DEF UploadType
  <1>2. PICK n \in 0..Len(c2s[a]) : c2s' = [c2s EXCEPT ![a] = SubSeq(c2s[a], 1, n)]
    BY ZenonT(30)  DEF Cut
  <1>3. PICK k \in 0..Len(s2c[a]) : s2c' = [s2c EXCEPT ![a] = SubSeq(s2c[a], 1, k)]
    BY ZenonT(30)  DEF Cut
  <1>4. Shrunk(c2s', c2s)
    BY <1>1, <1>2, PrefixShrinks, ZenonT(30) DEF UploadType
  <1>5. Shrunk(s2c', s2c)
    BY <1>1, <1>3, PrefixShrinks, ZenonT(30) DEF UploadType
  <1> QED
    BY <1>4, <1>5

-----------------------------------------------------------------------------
(* Steps that bring nothing new.                                           *)

\* Frames are lost, or the caller gives up: nobody has learnt anything.
LEMMA QuietStep ==
    ASSUME UploadInv, Shrunk(c2s', c2s), Shrunk(s2c', s2c), cancelled => cancelled',
           UNCHANGED <<mode, attempt, cpc, layer, result, gotEnd, rpc, sess, held, tag>>
    PROVE  UploadInv'
  <1> USE DEF UploadInv
  <1>1. UploadType'
    BY DEF UploadType, Shrunk
  <1>2. FutureInv'
    BY DEF FutureInv, Shrunk
  <1>3. EndInv'
    BY DEF EndInv, Shrunk
  <1>4. StreamInv'
    BY DEF StreamInv, Shrunk, UploadType
  <1>5. HeldInv'
    BY DEF HeldInv, Shrunk
  <1>6. TalkInv'
    <2>1. \A msg : (Asked(msg) => Asked(msg)') /\ (Answered(msg) => Answered(msg)')
      BY DEF Asked, Answered
    <2>2. LastLayer' = LastLayer
      BY DEF LastLayer
    <2>3. \A n \in Nat, k \in Nat : n <= k /\ k <= 1 => n <= 1
      OBVIOUS
    <2>4. /\ Len(c2s'[attempt]) \in Nat /\ Len(c2s[attempt]) \in Nat
          /\ Len(s2c'[attempt]) \in Nat /\ Len(s2c[attempt]) \in Nat
      BY DEF Shrunk, UploadType
    <2> QED
      BY <2>1, <2>2, <2>3, <2>4, ZenonT(30) DEF TalkInv, Shrunk, UploadType
  <1>7. EndBelieved'
    BY DEF EndBelieved
  <1> QED
    BY <1>1, <1>2, <1>3, <1>4, <1>5, <1>6, <1>7, ZenonT(30)

\* An attempt ends with an error: it has not read BackupEnd, or its caller gave up.
LEMMA FailedStep ==
    ASSUME UploadInv, NEW kind, Failed(kind), gotEnd => cancelled, cpc \notin {"sleep", "returned"},
           Shrunk(s2c', s2c), UNCHANGED <<c2s, sess, held, tag>>
    PROVE  UploadInv'
  <1> USE DEF UploadInv
  <1>u. /\ UNCHANGED <<attempt, layer, asyncErr, gotEnd, rerr, ready, over, mode, cancelled>>
        /\ cpc' \in {"sleep", "returned"} /\ result' \in {"err", result}
        /\ cpc' = "sleep" => attempt # Backoffs + 1
        /\ rpc' # "run"
    BY DEF Failed, EndsAfter
  <1>1. UploadType'
    <2>1. cpc' = "sleep" => attempt < Backoffs + 1
      BY <1>u, UploadAssumption DEF UploadType, Attempts
    <2> QED
      BY <1>u, <2>1, ZenonT(30) DEF UploadType, Shrunk
  <1>2. FutureInv'
    BY <1>u DEF FutureInv, Shrunk
  <1>3. EndInv'
    BY <1>u DEF EndInv, Shrunk
  <1>4. StreamInv'
    BY <1>u DEF StreamInv
  <1>5. HeldInv'
    BY <1>u DEF HeldInv, Shrunk
  <1>6. TalkInv'
    BY <1>u DEF TalkInv, Waiting
  <1>7. EndBelieved'
    BY <1>u DEF EndBelieved
  <1> QED
    BY <1>1, <1>2, <1>3, <1>4, <1>5, <1>6, <1>7

\* An attempt succeeds: it has read BackupEnd, or finds it at the head of the stream.
LEMMA SucceededStep ==
    ASSUME UploadInv, Succeeded, gotEnd', gotEnd \/ Incoming(attempt, "end"),
           cpc \notin {"sleep", "returned"},
           Shrunk(s2c', s2c), UNCHANGED <<c2s, sess, held, tag>>
    PROVE  UploadInv'
  <1> USE DEF UploadInv
  <1>u. /\ UNCHANGED <<attempt, layer, asyncErr, rerr, ready, over, mode, cancelled>>
        /\ cpc' = "returned" /\ result' = "ok" /\ rpc' # "run"
    BY DEF Succeeded
  <1>1. UploadType'
    BY <1>u DEF UploadType, Shrunk
  <1>2. FutureInv'
    BY <1>u DEF FutureInv, Shrunk
  <1>3. EndInv'
    <2>1. attempt \in Range(tag)
      <3>1. CASE gotEnd
        BY <3>1 DEF EndInv
      <3>2. CASE Incoming(attempt, "end")
        <4>1. Head(s2c[attempt]) \in Range(s2c[attempt])
          BY <3>2, TailFacts, ZenonT(30) DEF Incoming, UploadType
        <4> QED
          BY <4>1, <3>2, ZenonT(30) DEF EndInv, Incoming, UploadType
      <3> QED
        BY <3>1, <3>2
    <2> QED
      BY <1>u, <2>1 DEF EndInv, Shrunk
  <1>4. StreamInv'
    BY <1>u, ZenonT(30) DEF StreamInv
  <1>5. HeldInv'
    BY <1>u, ZenonT(30) DEF HeldInv, Shrunk
  <1>6. TalkInv'
    BY <1>u DEF TalkInv, Waiting
  <1>7. EndBelieved'
    BY <1>u DEF EndBelieved
  <1> QED
    BY <1>1, <1>2, <1>3, <1>4, <1>5, <1>6, <1>7, ZenonT(30)

-----------------------------------------------------------------------------
(* The server.                                                             *)

\* A session that has taken in all there is.
Closing == {"publishing", "published"}

\* What the server sends is added, if the client can still get it.
LEMMA SentFacts ==
    ASSUME UploadType, NEW a \in Attempts, NEW msgs \in Seq(Message), Sent(a, msgs)
    PROVE  /\ s2c' \in [Attempts -> Seq(Message)]
           /\ \A b \in Attempts : b # a => s2c'[b] = s2c[b]
           /\ Range(s2c'[a]) \subseteq Range(s2c[a]) \cup Range(msgs)
           /\ s2c[a] = <<>> => s2c'[a] \in {<<>>, msgs}
           /\ msgs = <<>> => s2c' = s2c
  <1>1. s2c[a] \in Seq(Message) /\ s2c \in [Attempts -> Seq(Message)]
    BY DEF UploadType
  <1> DEFINE t == s2c[a] \o msgs
  <1>2. /\ t \in Seq(Message) /\ Range(t) \subseteq Range(s2c[a]) \cup Range(msgs)
        /\ (s2c[a] = <<>> => t = msgs) /\ (msgs = <<>> => t = s2c[a])
    BY <1>1, ConcatFacts
  <1>3. s2c' = [s2c EXCEPT ![a] = IF up[a] /\ cOpen[a] THEN t ELSE s2c[a]]
    BY DEF Sent
  <1> HIDE DEF t
  <1>4. CASE up[a] /\ cOpen[a]
    BY <1>1, <1>2, <1>3, <1>4
  <1>5. CASE ~(up[a] /\ cOpen[a])
    BY <1>1, <1>3, <1>5
  <1> QED
    BY <1>4, <1>5

\* The frame that arrives is one of those under way.
LEMMA ArrivesFacts ==
    ASSUME UploadType, NEW a \in Attempts, NEW m, Arrives(a, m)
    PROVE  /\ Shrunk(c2s', c2s) /\ c2s[a] # <<>>
           /\ Head(c2s[a]) \in Range(c2s[a]) /\ Head(c2s[a]) \in Message /\ Head(c2s[a]).m = m
           /\ Len(c2s[a]) <= 1 => c2s'[a] = <<>>
  <1>1. c2s[a] \in Seq(Message) /\ c2s \in [Attempts -> Seq(Message)]
    BY DEF UploadType
  <1>2. c2s[a] # <<>> /\ Head(c2s[a]).m = m /\ c2s' = [c2s EXCEPT ![a] = Tail(c2s[a])]
    BY DEF Arrives
  <1> QED
    BY <1>1, <1>2, TailFacts, ShrunkAt, ZenonT(30)

\* What a session may answer, its state s after the answer: it publishes and reports the
\* end only after the last layer, or StreamEnd; a layer it says the registry has is there;
\* and in v1 it speaks when it is spoken to, up to the last layer.
Sound(a, s, msgs) ==
    /\ s \notin {"none", "dialled"}
    /\ s = "new" => msgs = <<>> /\ s2c[a] = <<>>
    /\ s = "published" \/ (\E msg \in Range(msgs) : msg.m = "end") => a \in Range(tag')
    /\ mode = "stream" /\ (s \in Closing \/ (\E msg \in Range(msgs) : msg.m = "end")) =>
          \/ sess[a] \in Closing
          \/ \E msg \in Range(c2s[a]) : msg.m = "streamend"
    /\ mode = "layers" =>
          /\ \A msg \in Range(msgs) :
                /\ msg.m = "layerack" /\ msg.kind = "skipped" => msg.i \in held'
                /\ msg.m = "progress" => 1..msg.i \subseteq held'
          /\ s \in Closing \/ a \in Range(tag') => held' = 1..Layers
    /\ mode = "layers" /\ a = attempt /\ cpc \in Waiting =>
          /\ \A msg \in Range(msgs) : Answered(msg)
          /\ Len(msgs) <= 1
          /\ s \in Closing => LastLayer /\ c2s'[a] = <<>>
          /\ msgs # <<>> /\ ~LastLayer => s2c[a] = <<>>
          /\ c2s'[a] # <<>> /\ s2c'[a] # <<>> =>
                s = "ended" /\ \A msg \in Range(s2c'[a]) : msg.m = "error"

\* A step of one session: if its answer is sound, the invariant is kept.
LEMMA ServerStep ==
    ASSUME UploadInv, NEW a \in Attempts, ServerOnly, sess[a] # "none",
           Shrunk(c2s', c2s), NEW msgs \in Seq(Message), Sent(a, msgs),
           NEW s, Becomes(a, s), Sound(a, s, msgs),
           held \subseteq held', held' \subseteq 1..Layers,
           tag' \in Seq(Attempts), Range(tag) \subseteq Range(tag'),
           Range(tag') \subseteq Range(tag) \cup {a}
    PROVE  UploadInv'
  <1> USE DEF UploadInv
  <1>u. UNCHANGED <<mode, over, cancelled, attempt, cpc, layer, result, asyncErr, gotEnd, rpc,
                    rerr, ready>>
    BY DEF ServerOnly, client
  <1>s. /\ s2c' \in [Attempts -> Seq(Message)]
        /\ \A b \in Attempts : b # a => s2c'[b] = s2c[b]
        /\ Range(s2c'[a]) \subseteq Range(s2c[a]) \cup Range(msgs)
        /\ s2c[a] = <<>> => s2c'[a] \in {<<>>, msgs}
        /\ msgs = <<>> => s2c' = s2c
    BY SentFacts
  <1>b. /\ DOMAIN sess' = Attempts /\ sess'[a] = s
        /\ \A b \in Attempts : b # a => sess'[b] = sess[b]
    BY DEF Becomes, UploadType
  <1>1. UploadType'
    BY <1>u, <1>s, <1>b, ZenonT(30) DEF UploadType, Shrunk
  <1>2. FutureInv'
    BY <1>u, <1>s, <1>b, ZenonT(30) DEF FutureInv, Shrunk, Sound
  <1>3. EndInv'
    BY <1>u, <1>s, <1>b, ZenonT(30) DEF EndInv, Sound
  <1>4. StreamInv'
    BY <1>u, <1>s, <1>b, ZenonT(30) DEF StreamInv, Shrunk, Sound, Closing, UploadType
  <1>5. HeldInv'
    <2> SUFFICES ASSUME mode = "layers" PROVE HeldInv'
      BY <1>u, ZenonT(30) DEF HeldInv
    <2>1. held = 1..Layers => held' = 1..Layers
      BY ZenonT(30)
    <2>2. ASSUME NEW b \in Attempts, NEW msg \in Range(c2s'[b])
          PROVE  /\ msg.m \in {"hello", "start", "layerstart", "layerend"}
                 /\ msg.m \in {"layerstart", "layerend"} =>
                       msg.i \in 1..Layers /\ 1..(msg.i - 1) \subseteq held'
                 /\ msg.m = "layerend" /\ msg.kind = "skipped" => msg.i \in held'
      BY ZenonT(30) DEF HeldInv, Shrunk
    <2>3. ASSUME NEW b \in Attempts, NEW msg \in Range(s2c'[b])
          PROVE  /\ msg.m = "layerack" /\ msg.kind = "skipped" => msg.i \in held'
                 /\ msg.m = "progress" => 1..msg.i \subseteq held'
      <3>1. msg \in Range(s2c[b]) \/ (b = a /\ msg \in Range(msgs))
        BY <1>s
      <3> QED
        BY <3>1, ZenonT(30) DEF HeldInv, Sound
    <2>4. ASSUME NEW b \in Attempts, sess'[b] \in Closing \/ b \in Range(tag')
          PROVE  held' = 1..Layers
      BY <2>1, <2>4, <1>b, ZenonT(30) DEF HeldInv, Sound, Closing
    <2> QED
      BY <1>u, <2>2, <2>3, <2>4, ZenonT(30) DEF HeldInv, Closing
  <1>6. TalkInv'
    <2> SUFFICES ASSUME mode = "layers", cpc \in Waiting PROVE TalkInv'
      BY <1>u, ZenonT(30) DEF TalkInv
    <2>1. /\ \A msg : (Asked(msg) => Asked(msg)') /\ (Answered(msg) => Answered(msg)')
          /\ LastLayer' = LastLayer
      BY <1>u, ZenonT(30) DEF Asked, Answered, LastLayer
    <2>2. /\ Len(c2s'[attempt]) \in Nat /\ Len(c2s[attempt]) \in Nat
          /\ Len(c2s'[attempt]) <= Len(c2s[attempt])
      BY DEF Shrunk, UploadType
    <2>3. Len(c2s[attempt]) <= 1 /\ attempt \in Attempts
      BY DEF TalkInv, UploadType
    <2>4. Len(c2s'[attempt]) <= 1 /\ \A msg \in Range(c2s'[attempt]) : Asked(msg)'
      BY <2>1, <2>2, <2>3 DEF TalkInv, Shrunk
    <2>5. CASE a = attempt
      <3>1. \A msg \in Range(s2c'[attempt]) : Answered(msg)'
        BY <2>1, <2>5, <1>s, ZenonT(30) DEF TalkInv, Sound
      <3>2. ~LastLayer => Len(s2c'[attempt]) <= 1
        <4>1. CASE msgs = <<>>
          BY <4>1, <1>s, ZenonT(30) DEF TalkInv
        <4>2. CASE msgs # <<>> /\ ~LastLayer
          BY <4>2, <2>5, <1>s, Empty, ZenonT(30) DEF Sound
        <4> QED
          BY <4>1, <4>2
      <3> QED
        BY <1>u, <2>1, <2>4, <2>5, <3>1, <3>2, <1>b, ZenonT(30) DEF TalkInv, Sound, Closing
    <2>6. CASE a # attempt
      BY <1>u, <2>1, <2>3, <2>4, <2>6, <1>s, <1>b, ZenonT(30) DEF TalkInv, Shrunk
    <2> QED
      BY <2>5, <2>6
  <1>7. EndBelieved'
    BY <1>u DEF EndBelieved
  <1> QED
    BY <1>1, <1>2, <1>3, <1>4, <1>5, <1>6, <1>7

\* An error frame, or a plain one.
LEMMA MsgIs ==
    ASSUME NEW m \in Names, NEW i \in Nat, NEW kind \in Kinds
    PROVE  /\ Msg(m, i, kind) \in Message
           /\ Msg(m, i, kind).m = m /\ Msg(m, i, kind).i = i /\ Msg(m, i, kind).kind = kind
  BY DEF Msg, Message

\* In v1 the frame that arrives is what the client waits about, and nothing else is under
\* way in either direction.
LEMMA Spoken ==
    ASSUME UploadInv, mode = "layers", cpc \in Waiting, NEW m, Arrives(attempt, m),
           sess[attempt] # "ended"
    PROVE  /\ s2c[attempt] = <<>> /\ c2s'[attempt] = <<>> /\ sess[attempt] \notin Closing
           /\ Asked(Head(c2s[attempt]))
  <1>1. attempt \in Attempts /\ UploadType
    BY DEF UploadInv, UploadType
  <1> QED
    BY <1>1, ArrivesFacts DEF UploadInv, TalkInv, Closing

\* Session.fail is always sound.
LEMMA FailureSound ==
    ASSUME UploadInv, NEW a \in Attempts, NEW k \in Kinds,
           NEW msgs, msgs = <<Msg("error", 0, k)>>, Sent(a, msgs),
           mode = "layers" /\ a = attempt /\ cpc \in Waiting /\ ~LastLayer => s2c[a] = <<>>,
           mode = "layers" /\ a = attempt /\ cpc \in Waiting =>
              c2s'[a] = <<>> \/ s2c[a] = <<>>,
           held' = held,
           mode = "layers" /\ a \in Range(tag') => held = 1..Layers
    PROVE  msgs \in Seq(Message) /\ Sound(a, "ended", msgs)
  <1>1. /\ Msg("error", 0, k) \in Message /\ Msg("error", 0, k).m = "error"
    BY MsgIs DEF Names
  <1> DEFINE e == Msg("error", 0, k)
  <1> HIDE DEF e
  <1>2. msgs \in Seq(Message) /\ Range(msgs) = {e} /\ Len(msgs) = 1 /\ e.m = "error"
    BY <1>1, OneFrame DEF e
  <1>3. s2c[a] = <<>> => s2c'[a] \in {<<>>, msgs}
    BY <1>2, SentFacts, ZenonT(30) DEF UploadInv
  <1>4. Answered(e)
    BY <1>2, ZenonT(30) DEF Answered
  <1>5. Sound(a, "ended", msgs)
    <2>1. Len(msgs) <= 1
      BY <1>2
    <2> QED
      BY <1>2, <1>3, <1>4, <2>1, ZenonT(30) DEF Sound, Closing
  <1> QED
    BY <1>2, <1>5, ZenonT(30)

\* SessionFails: a session that refuses a frame ends and says so.
LEMMA SessionFailsStep ==
    ASSUME UploadInv, NEW a \in Attempts, ServerOnly, sess[a] \in {"new", "greeted", "open"},
           NEW m, Arrives(a, m), SessionFails(a)
    PROVE  UploadInv'
  <1>1. PICK k \in {Network, Refusal} : Sent(a, <<Msg("error", 0, k)>>)
    BY DEF SessionFails
  <1>2. k \in Kinds /\ Becomes(a, "ended") /\ UNCHANGED <<held, tag>>
    BY DEF SessionFails, Kinds
  <1>3. UploadType /\ Shrunk(c2s', c2s)
    BY ArrivesFacts, ZenonT(30) DEF UploadInv
  <1> DEFINE msgs == <<Msg("error", 0, k)>>
  <1>4. msgs \in Seq(Message) /\ Sound(a, "ended", msgs)
    <2>1. mode = "layers" /\ a = attempt /\ cpc \in Waiting => s2c[a] = <<>>
      BY Spoken, ZenonT(30)
    <2>2. mode = "layers" /\ a \in Range(tag') => held = 1..Layers
      BY <1>2, ZenonT(30) DEF UploadInv, HeldInv
    <2> QED
      BY <1>1, <1>2, <2>1, <2>2, FailureSound, ZenonT(30)
  <1> HIDE DEF msgs
  <1>5. Sent(a, msgs)
    BY <1>1, ZenonT(30) DEF msgs
  <1> QED
    BY <1>2, <1>3, <1>4, <1>5, ServerStep, ZenonT(30) DEF UploadType, UploadInv

\* A session's answer of one frame.
LEMMA AnswerStep ==
    ASSUME UploadInv, NEW a \in Attempts, ServerOnly, sess[a] \in {"new", "greeted", "open"},
           NEW m, Arrives(a, m), NEW s \in {"greeted", "open", "publishing"}, NEW msg \in Message,
           Answers(a, s, <<msg>>), msg.m # "end",
           held \subseteq held', held' \subseteq 1..Layers,
           s = "publishing" => mode = "layers",
           mode = "layers" =>
              /\ msg.m = "layerack" /\ msg.kind = "skipped" => msg.i \in held'
              /\ msg.m = "progress" => 1..msg.i \subseteq held'
              /\ s = "publishing" => held' = 1..Layers,
           mode = "layers" /\ a = attempt /\ cpc \in Waiting =>
              Answered(msg) /\ (s = "publishing" => LastLayer)
    PROVE  UploadInv'
  <1>1. UploadType /\ Shrunk(c2s', c2s)
    BY ArrivesFacts, ZenonT(30) DEF UploadInv
  <1> DEFINE msgs == <<msg>>
  <1>2. msgs \in Seq(Message) /\ Range(msgs) = {msg} /\ Len(msgs) <= 1
    BY OneFrame
  <1>3. Sent(a, msgs) /\ Becomes(a, s) /\ UNCHANGED tag
    BY DEF Answers
  <1> HIDE DEF msgs
  <1>4. mode = "layers" /\ a = attempt /\ cpc \in Waiting => s2c[a] = <<>> /\ c2s'[a] = <<>>
    BY Spoken, ZenonT(30)
  <1>5. mode = "layers" /\ a \in Range(tag') => held' = 1..Layers
    BY <1>3, ZenonT(30) DEF UploadInv, HeldInv
  <1>6. Sound(a, s, msgs)
    BY <1>2, <1>4, <1>5, ZenonT(30) DEF Sound, Closing
  <1> QED
    BY <1>1, <1>2, <1>3, <1>6, ServerStep, ZenonT(30) DEF UploadType

\* Serve.
LEMMA AcceptStep ==
    ASSUME UploadInv, NEW a \in Attempts, Accept(a)
    PROVE  UploadInv'
  <1>1. /\ UploadType /\ sess[a] = "dialled" /\ ServerOnly /\ UNCHANGED <<c2s, held, tag>>
        /\ s2c[a] = <<>> /\ Shrunk(c2s', c2s)
    BY Basics, ZenonT(30) DEF Accept, UploadInv, FutureInv
  <1>h. mode = "layers" /\ a \in Range(tag') => held' = 1..Layers
    BY <1>1, ZenonT(30) DEF UploadInv, HeldInv
  <1>2. CASE Becomes(a, "new") /\ UNCHANGED <<s2c, sOpen>>
    <2>1. Sent(a, <<>>)
      <3>1. s2c[a] \o <<>> = s2c[a] /\ s2c = [s2c EXCEPT ![a] = s2c[a]]
        BY <1>1 DEF UploadType
      <3> QED
        BY <1>2, <3>1 DEF Sent
    <2>2. Sound(a, "new", <<>>)
      BY <1>1, <1>2, <1>h, Empty, ZenonT(30) DEF Sound, Closing
    <2> QED
      BY <1>1, <1>2, <2>1, <2>2, Empty, ServerStep, ZenonT(30) DEF UploadType
  <1>3. CASE Sent(a, <<Msg("error", 0, Network)>>) /\ Becomes(a, "ended")
    <2> DEFINE msgs == <<Msg("error", 0, Network)>>
    <2>1. msgs \in Seq(Message) /\ Sound(a, "ended", msgs)
      BY <1>1, <1>3, <1>h, FailureSound, ZenonT(30) DEF Kinds
    <2> HIDE DEF msgs
    <2>2. Sent(a, msgs)
      BY <1>3 DEF msgs
    <2> QED
      BY <1>1, <1>3, <2>1, <2>2, ServerStep, ZenonT(30) DEF UploadType
  <1> QED
    BY <1>2, <1>3 DEF Accept

\* Hello.
LEMMA ServeHelloStep ==
    ASSUME UploadInv, NEW a \in Attempts, ServeHello(a)
    PROVE  UploadInv'
  <1>1. sess[a] \in {"new", "greeted", "open"} /\ Arrives(a, "hello") /\ ServerOnly
    BY DEF ServeHello
  <1>2. CASE SessionFails(a)
    BY <1>1, <1>2, SessionFailsStep, ZenonT(30)
  <1>3. CASE Answers(a, "greeted", <<Plainly("helloack")>>) /\ UNCHANGED held
    <2> DEFINE msg == Plainly("helloack")
    <2>1. msg \in Message /\ msg.m = "helloack"
      BY MsgIs DEF Plainly, Names, Kinds
    <2> HIDE DEF msg
    <2>2. mode = "layers" /\ a = attempt /\ cpc \in Waiting => Answered(msg)
      <3>1. Head(c2s[a]).m = "hello"
        BY <1>1, ArrivesFacts, ZenonT(30) DEF UploadInv
      <3> QED
        BY <3>1, <1>1, <2>1, Spoken, ZenonT(30) DEF Asked, Answered
    <2>3. Answers(a, "greeted", <<msg>>)
      BY <1>3 DEF msg
    <2> QED
      BY <1>1, <1>3, <2>1, <2>2, <2>3, AnswerStep, ZenonT(30) DEF UploadInv, UploadType
  <1> QED
    BY <1>2, <1>3, ZenonT(30) DEF ServeHello

\* BackupStart or StreamStart.
LEMMA ServeStartStep ==
    ASSUME UploadInv, NEW a \in Attempts, ServeStart(a)
    PROVE  UploadInv'
  <1>1. sess[a] \in {"new", "greeted", "open"} /\ Arrives(a, "start") /\ ServerOnly
    BY ZenonT(30) DEF ServeStart
  <1>2. CASE SessionFails(a)
    BY <1>1, <1>2, SessionFailsStep, ZenonT(30)
  <1>3. CASE Answers(a, "open", <<Plainly("startack")>>) /\ UNCHANGED held
    <2> DEFINE msg == Plainly("startack")
    <2>1. msg \in Message /\ msg.m = "startack"
      BY MsgIs DEF Plainly, Names, Kinds
    <2> HIDE DEF msg
    <2>2. mode = "layers" /\ a = attempt /\ cpc \in Waiting => Answered(msg)
      <3>1. Head(c2s[a]).m = "start"
        BY <1>1, ArrivesFacts DEF UploadInv
      <3> QED
        BY <3>1, <1>1, <2>1, Spoken, ZenonT(30) DEF Asked, Answered
    <2>3. Answers(a, "open", <<msg>>)
      BY <1>3 DEF msg
    <2> QED
      BY <1>1, <1>3, <2>1, <2>2, <2>3, AnswerStep, ZenonT(30) DEF UploadInv, UploadType
  <1> QED
    BY <1>2, <1>3 DEF ServeStart

\* LayerStart: a layer is called present only if the registry has it.
LEMMA ServeLayerStartStep ==
    ASSUME UploadInv, NEW a \in Attempts, ServeLayerStart(a)
    PROVE  UploadInv'
  <1>1. sess[a] \in {"new", "greeted", "open"} /\ Arrives(a, "layerstart") /\ ServerOnly
    BY DEF ServeLayerStart
  <1> DEFINE i == Head(c2s[a]).i
             kind == IF i \in held THEN "skipped" ELSE Plain
             msg == Msg("layerack", i, kind)
  <1>2. CASE SessionFails(a)
    BY <1>1, <1>2, SessionFailsStep, ZenonT(30)
  <1>3. CASE Answers(a, "open", <<msg>>) /\ UNCHANGED held
    <2>1. /\ Head(c2s[a]).m = "layerstart" /\ i \in Nat
      BY <1>1, ArrivesFacts, ZenonT(30) DEF UploadInv, Message
    <2>2. kind \in Kinds /\ (kind = "skipped" => i \in held)
      BY DEF Kinds, Plain
    <2> HIDE DEF kind
    <2>3. msg \in Message /\ msg.m = "layerack" /\ msg.i = i /\ msg.kind = kind
      BY <2>1, <2>2, MsgIs DEF Names
    <2> HIDE DEF msg
    <2>4. mode = "layers" /\ a = attempt /\ cpc \in Waiting => Answered(msg)
      BY <2>1, <2>3, <1>1, Spoken, ZenonT(30) DEF Asked, Answered
    <2> QED
      BY <1>1, <1>3, <2>2, <2>3, <2>4, AnswerStep, ZenonT(30) DEF UploadInv, UploadType
  <1> QED
    BY <1>2, <1>3, ZenonT(30) DEF ServeLayerStart

\* layerEnd: a layer whose bytes came, or were not needed, is in the registry.
LEMMA ServeLayerEndStep ==
    ASSUME UploadInv, NEW a \in Attempts, ServeLayerEnd(a)
    PROVE  UploadInv'
  <1>1. sess[a] \in {"new", "greeted", "open"} /\ Arrives(a, "layerend") /\ ServerOnly
    BY DEF ServeLayerEnd
  <1> DEFINE i == Head(c2s[a]).i
             msg == Msg("progress", i, Plain)
             s == IF i = Layers THEN "publishing" ELSE "open"
  <1>2. CASE SessionFails(a)
    BY <1>1, <1>2, SessionFailsStep, ZenonT(30)
  <1>3. CASE /\ Answers(a, s, <<msg>>)
             /\ held' = IF Head(c2s[a]).kind = "skipped" THEN held ELSE held \cup {i}
    <2>1. /\ Head(c2s[a]) \in Range(c2s[a]) /\ Head(c2s[a]).m = "layerend" /\ i \in Nat
      BY <1>1, ArrivesFacts, ZenonT(30) DEF UploadInv, Message
    <2>2. mode = "layers"
      BY <2>1, ZenonT(30) DEF UploadInv, StreamInv, UploadType
    <2>3. /\ i \in 1..Layers /\ 1..(i - 1) \subseteq held
          /\ Head(c2s[a]).kind = "skipped" => i \in held
      BY <2>1, <2>2, ZenonT(30) DEF UploadInv, HeldInv
    <2>4. held \subseteq held' /\ i \in held' /\ held' \subseteq 1..Layers /\ held \subseteq 1..Layers
      BY <1>3, <2>3, ZenonT(30) DEF UploadInv, UploadType
    <2>5. 1..i \subseteq held'
      <3>1. 1..i = 1..(i - 1) \cup {i}
        BY <2>3
      <3> QED
        BY <3>1, <2>3, <2>4, ZenonT(30)
    <2>6. /\ s \in {"greeted", "open", "publishing"}
          /\ s = "publishing" => i = Layers /\ held' = 1..Layers
      BY <2>4, <2>5, ZenonT(30)
    <2> HIDE DEF s
    <2>7. msg \in Message /\ msg.m = "progress" /\ msg.i = i
      <3>1. "progress" \in Names /\ Plain \in Kinds
        BY DEF Names, Kinds
      <3> HIDE DEF i
      <3> QED
        BY <2>1, <3>1, MsgIs
    <2> HIDE DEF msg
    <2>8. mode = "layers" /\ a = attempt /\ cpc \in Waiting =>
             Answered(msg) /\ (s = "publishing" => LastLayer)
      BY <2>1, <2>6, <2>7, <1>1, Spoken, ZenonT(30) DEF Asked, Answered, LastLayer
    <2> QED
      BY <1>1, <1>3, <2>2, <2>4, <2>5, <2>6, <2>7, <2>8, AnswerStep, ZenonT(30)
  <1> QED
    BY <1>2, <1>3 DEF ServeLayerEnd

\* A session that says nothing.
LEMMA SentNothing ==
    ASSUME UploadType, NEW a \in Attempts, UNCHANGED s2c
    PROVE  Sent(a, <<>>)
  <1>1. s2c[a] \o <<>> = s2c[a] /\ s2c = [s2c EXCEPT ![a] = s2c[a]]
    BY DEF UploadType
  <1> QED
    BY <1>1 DEF Sent

\* Data frames of a stream.
LEMMA ServeDataStep ==
    ASSUME UploadInv, NEW a \in Attempts, ServeData(a)
    PROVE  UploadInv'
  <1>1. sess[a] \in {"new", "greeted", "open"} /\ Arrives(a, "data") /\ ServerOnly
    BY DEF ServeData
  <1>2. CASE SessionFails(a)
    BY <1>1, <1>2, SessionFailsStep, ZenonT(30)
  <1>3. CASE UNCHANGED <<s2c, sOpen, sess, held, tag>>
    <2>1. Shrunk(c2s', c2s) /\ Shrunk(s2c', s2c)
      BY <1>1, <1>3, ArrivesFacts, Basics, ZenonT(30)
    <2> QED
      BY <1>1, <1>3, <2>1, QuietStep, ZenonT(30) DEF ServerOnly, client
  <1> QED
    BY <1>2, <1>3 DEF ServeData

\* StreamEnd: a v2 session goes on to publish.
LEMMA ServeStreamEndStep ==
    ASSUME UploadInv, NEW a \in Attempts, ServeStreamEnd(a)
    PROVE  UploadInv'
  <1>1. /\ sess[a] = "open" /\ Arrives(a, "streamend") /\ ServerOnly
        /\ Becomes(a, "publishing") /\ UNCHANGED <<s2c, held, tag>>
    BY DEF ServeStreamEnd
  <1>2. /\ UploadType /\ Shrunk(c2s', c2s)
        /\ Head(c2s[a]) \in Range(c2s[a]) /\ Head(c2s[a]).m = "streamend"
    BY <1>1, ArrivesFacts, ZenonT(30) DEF UploadInv
  <1>3. mode = "stream"
    BY <1>2, ZenonT(30) DEF UploadInv, HeldInv, UploadType
  <1>4. Sound(a, "publishing", <<>>)
    BY <1>2, <1>3, Empty, ZenonT(30) DEF Sound
  <1> QED
    BY <1>1, <1>2, <1>4, SentNothing, Empty, ServerStep, ZenonT(30) DEF UploadType

\* CommitBackup and Finish.
LEMMA PublishStep ==
    ASSUME UploadInv, NEW a \in Attempts, Publish(a)
    PROVE  UploadInv'
  <1>1. /\ sess[a] = "publishing" /\ ServerOnly /\ UNCHANGED <<c2s, held>>
        /\ tag' \in {tag, Append(tag, a)}
        /\ UploadType /\ Shrunk(c2s', c2s)
    BY Basics DEF Publish
  <1>2. /\ tag' \in Seq(Attempts) /\ Range(tag) \subseteq Range(tag')
        /\ Range(tag') \subseteq Range(tag) \cup {a}
        /\ tag' = Append(tag, a) => a \in Range(tag')
    <2> DEFINE t == Append(tag, a)
    <2>1. /\ tag \in Seq(Attempts) /\ t \in Seq(Attempts) /\ Len(tag) \in Nat
          /\ DOMAIN tag = 1..Len(tag) /\ DOMAIN t = 1..(Len(tag) + 1)
          /\ t[Len(tag) + 1] = a /\ \A i \in 1..Len(tag) : t[i] = tag[i]
      BY <1>1 DEF UploadType
    <2>2. DOMAIN t = DOMAIN tag \cup {Len(tag) + 1}
      BY <2>1
    <2> HIDE DEF t
    <2>3. Range(t) = Range(tag) \cup {a}
      BY <2>1, <2>2 DEF Range
    <2> QED
      BY <1>1, <2>1, <2>3, ZenonT(30) DEF t
  <1>3. mode = "layers" => held' = 1..Layers
    BY <1>1 DEF UploadInv, HeldInv
  <1>4. mode = "layers" /\ a = attempt /\ cpc \in Waiting => LastLayer /\ c2s'[a] = <<>>
    BY <1>1, ZenonT(30) DEF UploadInv, TalkInv
  <1>5. CASE Becomes(a, "published") /\ tag' = Append(tag, a) /\ UNCHANGED <<s2c, sOpen>>
    <2>1. Sound(a, "published", <<>>)
      BY <1>1, <1>2, <1>3, <1>4, <1>5, Empty, ZenonT(30) DEF Sound, Closing
    <2> QED
      BY <1>1, <1>2, <1>5, <2>1, SentNothing, Empty, ServerStep, ZenonT(30) DEF UploadType
  <1>6. CASE (\E k \in {Network, Refusal} : Sent(a, <<Msg("error", 0, k)>>)) /\ Becomes(a, "ended")
    <2>1. PICK k \in {Network, Refusal} : Sent(a, <<Msg("error", 0, k)>>)
      BY <1>6
    <2> DEFINE msgs == <<Msg("error", 0, k)>>
    <2>2. msgs \in Seq(Message) /\ Sound(a, "ended", msgs)
      BY <1>1, <1>3, <1>4, <2>1, FailureSound, ZenonT(30) DEF Kinds
    <2> HIDE DEF msgs
    <2>3. Sent(a, msgs)
      BY <2>1 DEF msgs
    <2> QED
      BY <1>1, <1>2, <1>6, <2>2, <2>3, ServerStep, ZenonT(30) DEF UploadType
  <1> QED
    BY <1>5, <1>6, ZenonT(30) DEF Publish

\* BackupEnd.
LEMMA ReportEndStep ==
    ASSUME UploadInv, NEW a \in Attempts, ReportEnd(a)
    PROVE  UploadInv'
  <1> DEFINE end == Plainly("end")
             msgs == IF mode = "stream" THEN <<Plainly("progress"), end>> ELSE <<end>>
  <1>1. /\ sess[a] = "published" /\ ServerOnly /\ UNCHANGED <<c2s, held, tag>>
        /\ Sent(a, msgs) /\ Becomes(a, "ended")
        /\ UploadType /\ Shrunk(c2s', c2s)
    BY Basics DEF ReportEnd
  <1>2. end \in Message /\ end.m = "end" /\ Plainly("progress") \in Message
    BY MsgIs DEF Plainly, Names, Kinds
  <1>3. /\ msgs \in Seq(Message)
        /\ mode = "layers" => Range(msgs) = {end} /\ Len(msgs) <= 1
    <2> HIDE DEF end
    <2> QED
      BY <1>2, OneFrame
  <1>4. a \in Range(tag') /\ (mode = "layers" => held' = 1..Layers)
    BY <1>1, ZenonT(30) DEF UploadInv, EndInv, HeldInv
  <1>5. mode = "layers" /\ a = attempt /\ cpc \in Waiting => LastLayer /\ c2s'[a] = <<>>
    BY <1>1 DEF UploadInv, TalkInv
  <1>6. mode = "layers" /\ a = attempt /\ cpc \in Waiting => Answered(end)
    BY <1>2, <1>5 DEF Answered, LastLayer
  <1> HIDE DEF end, msgs
  <1>7. Sound(a, "ended", msgs)
    BY <1>1, <1>2, <1>3, <1>4, <1>5, <1>6, ZenonT(30) DEF Sound, Closing, UploadType
  <1> QED
    BY <1>1, <1>3, <1>7, ServerStep, ZenonT(30) DEF UploadType

\* NoticeGone: a session ends because its client is gone.
LEMMA NoticeGoneStep ==
    ASSUME UploadInv, NEW a \in Attempts, NoticeGone(a)
    PROVE  UploadInv'
  <1>1. /\ sess[a] \in {"new", "greeted", "open"} /\ ServerOnly /\ Becomes(a, "ended")
        /\ UNCHANGED <<c2s, s2c, held, tag>> /\ c2s[a] = <<>>
        /\ UploadType /\ Shrunk(c2s', c2s)
    BY Basics DEF NoticeGone
  <1>2. mode = "layers" /\ a \in Range(tag') => held' = 1..Layers
    BY <1>1, ZenonT(30) DEF UploadInv, HeldInv
  <1>3. Sound(a, "ended", <<>>)
    BY <1>1, <1>2, Empty DEF Sound, Closing
  <1> QED
    BY <1>1, <1>3, SentNothing, Empty, ServerStep, ZenonT(30) DEF UploadType

\* Every step of a session.
LEMMA ServeStep ==
    ASSUME UploadInv, NEW a \in Attempts, Serve(a)
    PROVE  UploadInv'
  BY AcceptStep, ServeHelloStep, ServeStartStep, ServeLayerStartStep, ServeLayerEndStep,
     ServeDataStep, ServeStreamEndStep, PublishStep, ReportEndStep, NoticeGoneStep, ZenonT(30) DEF Serve

-----------------------------------------------------------------------------
(* The client.                                                             *)

\* What the client writes is added, or lost with the connection.
LEMMA WrittenFacts ==
    ASSUME UploadType, NEW a \in Attempts, NEW msg \in Message, Written(a, <<msg>>)
    PROVE  /\ c2s' \in [Attempts -> Seq(Message)]
           /\ \A b \in Attempts : b # a => c2s'[b] = c2s[b]
           /\ Range(c2s'[a]) \subseteq Range(c2s[a]) \cup {msg}
           /\ c2s[a] = <<>> => Len(c2s'[a]) <= 1
  <1>1. c2s[a] \in Seq(Message) /\ c2s \in [Attempts -> Seq(Message)]
    BY DEF UploadType
  <1> DEFINE t == c2s[a] \o <<msg>>
  <1>2. <<msg>> \in Seq(Message) /\ Range(<<msg>>) = {msg} /\ Len(<<msg>>) = 1
    BY OneFrame
  <1>3. /\ t \in Seq(Message) /\ Range(t) \subseteq Range(c2s[a]) \cup {msg}
        /\ c2s[a] = <<>> => Len(t) <= 1
    <2>1. c2s[a] = <<>> => t = <<msg>>
      BY <1>1, <1>2, ConcatFacts
    <2>2. t \in Seq(Message) /\ Range(t) \subseteq Range(c2s[a]) \cup {msg}
      BY <1>1, <1>2, ConcatFacts, ZenonT(30)
    <2>3. Len(<<msg>>) <= 1
      BY <1>2
    <2> HIDE DEF t
    <2> QED
      BY <2>1, <2>2, <2>3, ZenonT(30)
  <1>4. c2s' \in {c2s, [c2s EXCEPT ![a] = t]}
    BY ZenonT(30) DEF Written
  <1> HIDE DEF t
  <1>5. CASE c2s' = c2s
    BY <1>1, <1>5
  <1>6. CASE c2s' = [c2s EXCEPT ![a] = t]
    <2>1. /\ c2s' \in [Attempts -> Seq(Message)] /\ c2s'[a] = t
          /\ \A b \in Attempts : b # a => c2s'[b] = c2s[b]
      BY <1>1, <1>3, <1>6, ZenonT(30)
    <2> QED
      BY <1>3, <2>1
  <1> QED
    BY <1>4, <1>5, <1>6, ZenonT(30)

\* In v1, up to the last layer, an answer leaves nothing under way.
LEMMA Heard ==
    ASSUME UploadInv, mode = "layers", cpc \in Waiting, ~LastLayer, NEW m, m # "error",
           Incoming(attempt, m), Taken(attempt)
    PROVE  /\ c2s[attempt] = <<>> /\ s2c'[attempt] = <<>> /\ sess[attempt] \notin Closing
           /\ Head(s2c[attempt]) \in Range(s2c[attempt]) /\ Answered(Head(s2c[attempt]))
  <1>1. attempt \in Attempts /\ s2c \in [Attempts -> Seq(Message)] /\ s2c[attempt] \in Seq(Message)
    BY DEF UploadInv, UploadType
  <1>2. s2c[attempt] # <<>> /\ Head(s2c[attempt]).m = m /\ s2c'[attempt] = Tail(s2c[attempt])
    BY <1>1 DEF Incoming, Taken
  <1>3. Head(s2c[attempt]) \in Range(s2c[attempt])
    BY <1>1, <1>2, TailFacts, ZenonT(30)
  <1>4. s2c'[attempt] = <<>>
    BY <1>1, <1>2, TailFacts, ZenonT(30) DEF UploadInv, TalkInv
  <1> QED
    BY <1>2, <1>3, <1>4, ZenonT(30) DEF UploadInv, TalkInv, Closing

\* The client goes on, with a frame msg or without a word.
LEMMA SpeakStep ==
    ASSUME UploadInv, cpc \notin {"dial", "sleep", "returned"}, ~gotEnd,
           NEW frames \in SUBSET Message,
           c2s' \in [Attempts -> Seq(Message)],
           \A b \in Attempts : b # attempt => c2s'[b] = c2s[b],
           Range(c2s'[attempt]) \subseteq Range(c2s[attempt]) \cup frames,
           Shrunk(s2c', s2c),
           UNCHANGED <<mode, attempt, result, gotEnd, cancelled, sess, held, tag>>,
           cpc' \notin {"dial", "sleep", "returned"}, layer' \in Nat,
           rpc' = "run" => mode = "stream" /\ cpc' \in {"start", "send", "end"},
           mode = "stream" =>
              /\ \A msg \in frames : /\ msg.m \in {"start", "data", "streamend"}
                                     /\ msg.m = "streamend" => cpc' = "end"
              /\ cpc' \in {"hello", "start", "send"} => cpc \in {"hello", "start", "send"},
           mode = "layers" =>
              /\ \A msg \in frames :
                    /\ msg.m \in {"start", "layerstart", "layerend"}
                    /\ msg.m \in {"layerstart", "layerend"} =>
                          msg.i \in 1..Layers /\ 1..(msg.i - 1) \subseteq held
                    /\ msg.m = "layerend" /\ msg.kind = "skipped" => msg.i \in held
              /\ cpc' \in {"layerack", "progress"} =>
                    layer' \in 1..Layers /\ 1..(layer' - 1) \subseteq held
              /\ cpc' \in Waiting => /\ c2s[attempt] = <<>> /\ s2c'[attempt] = <<>>
                                     /\ Len(c2s'[attempt]) <= 1
                                     /\ sess[attempt] \notin Closing
                                     /\ \A msg \in frames : Asked(msg)'
    PROVE  UploadInv'
  <1> USE DEF UploadInv
  <1>e. Range(<<>>) = {} /\ Len(<<>>) <= 1
    BY Empty, ZenonT(30)
  <1>1. UploadType'
    BY ZenonT(30) DEF UploadType, Shrunk
  <1>2. FutureInv'
    BY DEF FutureInv, Shrunk, UploadType, Attempts
  <1>3. EndInv'
    BY ZenonT(30) DEF EndInv, Shrunk
  <1>4. StreamInv'
    BY ZenonT(30)  DEF StreamInv, Shrunk, UploadType
  <1>5. HeldInv'
    <2>1. mode = "layers" => \A b \in Attempts : \A msg \in Range(c2s'[b]) :
             msg \in Range(c2s[b]) \/ (b = attempt /\ msg \in frames)
      OBVIOUS
    <2> QED
      BY <2>1, ZenonT(30) DEF HeldInv, Shrunk
  <1>6. TalkInv'
    BY <1>e, ZenonT(30) DEF TalkInv, Closing
  <1>7. EndBelieved'
    BY ZenonT(30) DEF EndBelieved
  <1> QED
    BY <1>1, <1>2, <1>3, <1>4, <1>5, <1>6, <1>7, ZenonT(30)

\* The client goes on with a frame.
LEMMA SayStep ==
    ASSUME UploadInv, cpc \notin {"dial", "sleep", "returned"}, ~gotEnd,
           NEW msg \in Message, Written(attempt, <<msg>>), Shrunk(s2c', s2c),
           UNCHANGED <<mode, attempt, result, gotEnd, cancelled, sess, held, tag>>,
           cpc' \notin {"dial", "sleep", "returned"}, layer' \in Nat,
           rpc' = "run" => mode = "stream" /\ cpc' \in {"start", "send", "end"},
           mode = "stream" =>
              /\ msg.m \in {"start", "data", "streamend"}
              /\ msg.m = "streamend" => cpc' = "end"
              /\ cpc' \in {"hello", "start", "send"} => cpc \in {"hello", "start", "send"},
           mode = "layers" =>
              /\ msg.m \in {"start", "layerstart", "layerend"}
              /\ msg.m \in {"layerstart", "layerend"} =>
                    msg.i \in 1..Layers /\ 1..(msg.i - 1) \subseteq held
              /\ msg.m = "layerend" /\ msg.kind = "skipped" => msg.i \in held
              /\ cpc' \in {"layerack", "progress"} =>
                    layer' \in 1..Layers /\ 1..(layer' - 1) \subseteq held
              /\ cpc' \in Waiting => /\ c2s[attempt] = <<>> /\ s2c'[attempt] = <<>>
                                     /\ sess[attempt] \notin Closing /\ Asked(msg)'
    PROVE  UploadInv'
  <1>1. UploadType /\ attempt \in Attempts
    BY ZenonT(30) DEF UploadInv, UploadType
  <1> DEFINE frames == {msg}
  <1>2. frames \in SUBSET Message /\ \A f \in frames : f = msg
    OBVIOUS
  <1>3. /\ c2s' \in [Attempts -> Seq(Message)]
        /\ \A b \in Attempts : b # attempt => c2s'[b] = c2s[b]
        /\ Range(c2s'[attempt]) \subseteq Range(c2s[attempt]) \cup frames
        /\ c2s[attempt] = <<>> => Len(c2s'[attempt]) <= 1
    BY <1>1, WrittenFacts, ZenonT(30)
  <1> HIDE DEF frames
  <1> QED
    BY <1>2, <1>3, SpeakStep, ZenonT(30)

\* The client goes on without a word.
LEMMA GoOnStep ==
    ASSUME UploadInv, cpc \notin {"dial", "sleep", "returned"}, ~gotEnd,
           Shrunk(s2c', s2c),
           UNCHANGED <<c2s, mode, attempt, result, gotEnd, cancelled, sess, held, tag>>,
           cpc' \in {"send", "end"}, layer' \in Nat,
           rpc' = "run" => mode = "stream",
           mode = "stream" /\ cpc' = "send" => cpc \in {"hello", "start", "send"}
    PROVE  UploadInv'
  <1>1. /\ c2s' \in [Attempts -> Seq(Message)]
        /\ \A b \in Attempts : b # attempt => c2s'[b] = c2s[b]
        /\ Range(c2s'[attempt]) \subseteq Range(c2s[attempt]) \cup {}
    BY DEF UploadInv, UploadType
  <1>2. {} \in SUBSET Message /\ cpc' \notin Waiting
    BY DEF Waiting
  <1> QED
    BY <1>1, <1>2, SpeakStep, ZenonT(30)

\* An attempt that has not read BackupEnd fails on what it reads or writes.
LEMMA StopsStep ==
    ASSUME UploadInv, NEW kind, Failed(kind), cpc \notin {"sleep", "returned"}, ~gotEnd,
           UNCHANGED s2c \/ (s2c[attempt] # <<>> /\ Taken(attempt)),
           UNCHANGED <<c2s, sess, held, tag>>
    PROVE  UploadInv'
  <1>1. UploadType /\ attempt \in Attempts
    BY ZenonT(30) DEF UploadInv, UploadType
  <1>2. Shrunk(s2c', s2c)
    BY <1>1, TakenShrinks, Basics, ZenonT(30)
  <1> QED
    BY <1>2, FailedStep, ZenonT(30)

\* FailsReading: the connection is gone, or the server sent an error.
LEMMA FailsReadingStep ==
    ASSUME UploadInv, FailsReading(attempt), cpc \notin {"sleep", "returned"}, ~gotEnd,
           UNCHANGED <<c2s, sess, held, tag>>
    PROVE  UploadInv'
  BY StopsStep DEF FailsReading, ErrorRead, Incoming

\* Dial and Hello.
LEMMA DialStep ==
    ASSUME UploadInv, Dial
    PROVE  UploadInv'
  <1> USE DEF UploadInv
  <1>1. cpc = "dial" /\ ~gotEnd
    BY DEF Dial, EndInv
  <1>2. CASE Failed(Plain) /\ UNCHANGED <<up, sOpen, c2s, s2c, server>>
    BY <1>1, <1>2, StopsStep, ZenonT(30) DEF server
  <1>3. CASE ~(Failed(Plain) /\ UNCHANGED <<up, sOpen, c2s, s2c, server>>)
    <2> DEFINE hello == Plainly("hello")
    <2>u. /\ c2s' = [c2s EXCEPT ![attempt] = <<hello>>]
          /\ sess' = [sess EXCEPT ![attempt] = "dialled"]
          /\ cpc' = "hello"
          /\ UNCHANGED <<mode, cancelled, attempt, layer, result, gotEnd, rpc, s2c, held, tag>>
      BY <1>3, ZenonT(30) DEF Dial
    <2>h. /\ hello \in Message /\ hello.m = "hello" /\ <<hello>> \in Seq(Message)
          /\ Range(<<hello>>) = {hello} /\ Len(<<hello>>) <= 1
      BY MsgIs, OneFrame DEF Plainly, Names, Kinds
    <2> DEFINE t == <<hello>>
    <2> HIDE DEF hello
    <2>a. /\ attempt \in Attempts
          /\ c2s' \in [Attempts -> Seq(Message)] /\ c2s'[attempt] = t
          /\ \A b \in Attempts : b # attempt => c2s'[b] = c2s[b]
          /\ DOMAIN sess' = Attempts /\ sess'[attempt] = "dialled"
          /\ \A b \in Attempts : b # attempt => sess'[b] = sess[b]
      BY <2>u, <2>h DEF UploadType
    <2>b. Range(t) = {hello} /\ Len(t) <= 1 /\ s2c[attempt] = <<>> /\ Range(<<>>) = {} /\ Len(<<>>) <= 1
      BY <1>1, <2>h, <2>a, Empty, ZenonT(30) DEF FutureInv
    <2> HIDE DEF t
    <2>1. UploadType'
      BY <2>u, <2>a, ZenonT(30) DEF UploadType
    <2>2. FutureInv'
      BY <2>u, <2>a, <2>b DEF FutureInv, UploadType, Attempts
    <2>3. EndInv'
      BY <1>1, <2>u, <2>a, ZenonT(30) DEF EndInv
    <2>4. StreamInv'
      BY <2>u, <2>a, <2>b, <2>h, ZenonT(30) DEF StreamInv
    <2>5. HeldInv'
      BY <2>u, <2>a, <2>b, <2>h DEF HeldInv
    <2>6. TalkInv'
      BY <2>u, <2>a, <2>b, <2>h, ZenonT(30) DEF TalkInv, Asked
    <2>7. EndBelieved'
      BY <1>1, <2>u DEF EndBelieved
    <2> QED
      BY <2>1, <2>2, <2>3, <2>4, <2>5, <2>6, <2>7, ZenonT(30)
  <1> QED
    BY <1>2, <1>3

\* HelloAck: the estimate against the quota, then BackupStart or StreamStart.
LEMMA RecvHelloAckStep ==
    ASSUME UploadInv, RecvHelloAck
    PROVE  UploadInv'
  <1>1. /\ cpc = "hello" /\ UNCHANGED <<sess, held, tag>> /\ ~gotEnd
        /\ UploadType /\ attempt \in Attempts
    BY DEF RecvHelloAck, server, UploadInv, EndInv, UploadType
  <1>2. CASE FailsReading(attempt) /\ UNCHANGED c2s
    BY <1>1, <1>2, FailsReadingStep
  <1>3. CASE /\ Incoming(attempt, "helloack") /\ Taken(attempt) /\ UNCHANGED c2s
             /\ \E k : Failed(k)
    BY <1>1, <1>3, StopsStep DEF Incoming
  <1>4. CASE /\ Incoming(attempt, "helloack") /\ Taken(attempt)
             /\ Written(attempt, <<Plainly("start")>>)
             /\ cpc' = "start"
             /\ rpc' = IF mode = "stream" THEN "run" ELSE "off"
             /\ UNCHANGED <<mode, cancelled, attempt, layer, result, gotEnd>>
    <2> DEFINE msg == Plainly("start")
    <2>1. msg \in Message /\ msg.m = "start"
      BY MsgIs DEF Plainly, Names, Kinds
    <2> HIDE DEF msg
    <2>2. Written(attempt, <<msg>>)
      BY <1>4 DEF msg
    <2>3. Shrunk(s2c', s2c)
      BY <1>1, <1>4, TakenShrinks DEF Incoming
    <2>4. mode = "layers" => /\ c2s[attempt] = <<>> /\ s2c'[attempt] = <<>>
                             /\ sess[attempt] \notin Closing
      BY <1>1, <1>4, Heard DEF Waiting, LastLayer
    <2>5. Asked(msg)' /\ layer' \in Nat
      BY <1>1, <1>4, <2>1 DEF Asked, UploadType
    <2> QED
      BY <1>1, <1>4, <2>1, <2>2, <2>3, <2>4, <2>5, SayStep, ZenonT(30)
  <1> QED
    BY <1>2, <1>3, <1>4, ZenonT(30) DEF RecvHelloAck

\* WaitFails: a read fails, or the keepalive or a token refresh did.
LEMMA WaitFailsStep ==
    ASSUME UploadInv, NEW m, WaitFails(m), cpc \notin {"sleep", "returned"}, ~gotEnd,
           UNCHANGED <<c2s, sess, held, tag>>
    PROVE  UploadInv'
  BY FailsReadingStep, StopsStep, ZenonT(30) DEF WaitFails, Incoming

\* The next layer is announced once those before it are in the registry.
LEMMA StartLayerStep ==
    ASSUME UploadInv, mode = "layers", cpc \in Waiting, ~LastLayer, NEW m, m # "error",
           Incoming(attempt, m), Taken(attempt), UNCHANGED <<sess, held, tag>>,
           NEW i \in 1..Layers, 1..(i - 1) \subseteq held, StartLayer(i)
    PROVE  UploadInv'
  <1>0. cpc \notin {"dial", "end", "sleep", "returned"} /\ s2c[attempt] # <<>> /\ i \in Nat
    BY UploadAssumption DEF Waiting, Incoming
  <1>1. /\ cpc \notin {"dial", "sleep", "returned"} /\ ~gotEnd /\ s2c[attempt] # <<>>
        /\ UploadType /\ attempt \in Attempts /\ rpc # "run" /\ i \in Nat
    BY <1>0, Basics, ZenonT(30) DEF UploadInv, EndInv
  <1>2. CASE \E k : Failed(k) /\ UNCHANGED c2s
    BY <1>1, <1>2, StopsStep
  <1>3. CASE Written(attempt, <<Msg("layerstart", i, Plain)>>) /\ Proceeds("layerack", i)
    <2> DEFINE msg == Msg("layerstart", i, Plain)
    <2>1. msg \in Message /\ msg.m = "layerstart" /\ msg.i = i
      BY <1>1, MsgIs DEF Names, Kinds
    <2> HIDE DEF msg
    <2>2. Written(attempt, <<msg>>)
      BY <1>3 DEF msg
    <2>3. /\ Shrunk(s2c', s2c) /\ c2s[attempt] = <<>> /\ s2c'[attempt] = <<>>
          /\ sess[attempt] \notin Closing
      BY <1>1, TakenShrinks, Heard
    <2>4. /\ cpc' = "layerack" /\ layer' = i
          /\ UNCHANGED <<mode, attempt, result, gotEnd, cancelled, rpc>>
      BY <1>3 DEF Proceeds
    <2>5. Asked(msg)'
      BY <2>1, <2>4 DEF Asked
    <2> QED
      BY <1>1, <2>1, <2>2, <2>3, <2>4, <2>5, SayStep, ZenonT(30)
  <1> QED
    BY <1>2, <1>3 DEF StartLayer, LayerStops

\* BackupAck: the first layer is announced.
LEMMA RecvBackupAckStep ==
    ASSUME UploadInv, RecvBackupAck
    PROVE  UploadInv'
  <1>1. /\ mode = "layers" /\ cpc = "start" /\ UNCHANGED <<sess, held, tag>> /\ ~gotEnd
    BY DEF RecvBackupAck, V1, server, UploadInv, EndInv
  <1>2. CASE WaitFails("startack") /\ UNCHANGED c2s
    BY <1>1, <1>2, WaitFailsStep
  <1>3. CASE Waited("startack") /\ (\E k \in TokenErrors : Failed(k)) /\ UNCHANGED c2s
    BY <1>1, <1>3, StopsStep DEF Waited, Incoming
  <1>4. CASE Waited("startack") /\ StartLayer(1)
    <2>1. 1 \in 1..Layers /\ 1..(1 - 1) \subseteq held /\ cpc \in Waiting /\ ~LastLayer
      BY <1>1, UploadAssumption DEF Waiting, LastLayer
    <2> QED
      BY <1>1, <1>4, <2>1, StartLayerStep, ZenonT(30) DEF Waited
  <1> QED
    BY <1>2, <1>3, <1>4 DEF RecvBackupAck

\* LayerAck: the layer is sent, or skipped if the server has it.
LEMMA RecvLayerAckStep ==
    ASSUME UploadInv, RecvLayerAck
    PROVE  UploadInv'
  <1>1. /\ mode = "layers" /\ cpc = "layerack" /\ UNCHANGED <<sess, held, tag>> /\ ~gotEnd
        /\ UploadType /\ attempt \in Attempts /\ cpc \in Waiting /\ ~LastLayer /\ rpc # "run"
    BY ZenonT(30) DEF RecvLayerAck, V1, server, UploadInv, EndInv, UploadType, Waiting, LastLayer
  <1>2. CASE WaitFails("layerack") /\ UNCHANGED c2s
    BY <1>1, <1>2, WaitFailsStep, ZenonT(30)
  <1>3. CASE Waited("layerack") /\ Failed(Plain) /\ UNCHANGED c2s
    BY <1>1, <1>3, StopsStep DEF Waited, Incoming
  <1>4. CASE /\ Waited("layerack")
             /\ Written(attempt, <<Msg("layerend", layer, KindRead(attempt))>>)
             /\ Proceeds("progress", layer)
    <2> DEFINE head == Head(s2c[attempt])
    <2>1. /\ Shrunk(s2c', s2c) /\ c2s[attempt] = <<>> /\ s2c'[attempt] = <<>>
          /\ sess[attempt] \notin Closing /\ head \in Range(s2c[attempt]) /\ Answered(head)
          /\ head.m = "layerack"
      BY <1>1, <1>4, TakenShrinks, Heard, ZenonT(30) DEF Waited, Incoming
    <2>2. head \in Message
      BY <1>1, <1>4, TailFacts, ZenonT(30) DEF Waited, Incoming, UploadType
    <2>3. head.i = layer /\ (head.kind = "skipped" => layer \in held) /\ head.kind \in Kinds
      BY <1>1, <2>1, <2>2, ZenonT(30) DEF Answered, UploadInv, HeldInv, Message
    <2>4. PICK msg \in Message : /\ msg.m = "layerend" /\ msg.i = layer /\ msg.kind = head.kind
                                 /\ Written(attempt, <<msg>>)
      <3>1. Written(attempt, <<Msg("layerend", layer, head.kind)>>)
        BY <1>4 DEF KindRead
      <3>2. "layerend" \in Names /\ layer \in Nat
        BY <1>1 DEF Names, UploadType
      <3> HIDE DEF head
      <3> QED
        BY <2>3, <3>1, <3>2, MsgIs
    <2> HIDE DEF head
    <2>5. layer \in 1..Layers /\ 1..(layer - 1) \subseteq held /\ layer \in Nat
      BY <1>1, ZenonT(30) DEF UploadInv, HeldInv, UploadType
    <2>6. /\ cpc' = "progress" /\ layer' = layer
          /\ UNCHANGED <<mode, attempt, result, gotEnd, cancelled, rpc>>
      BY <1>4 DEF Proceeds
    <2>7. Asked(msg)'
      BY <2>4, <2>6 DEF Asked
    <2> QED
      BY <1>1, <2>1, <2>3, <2>4, <2>5, <2>6, <2>7, SayStep, ZenonT(30)
  <1> QED
    BY <1>2, <1>3, <1>4 DEF RecvLayerAck

\* Progress: the layer is in the registry, and the next one is announced.
LEMMA RecvProgressStep ==
    ASSUME UploadInv, RecvProgress
    PROVE  UploadInv'
  <1>1. /\ mode = "layers" /\ cpc = "progress" /\ UNCHANGED <<sess, held, tag>> /\ ~gotEnd
        /\ UploadType /\ attempt \in Attempts /\ cpc \in Waiting /\ rpc # "run"
        /\ layer \in 1..Layers
    BY ZenonT(30) DEF RecvProgress, V1, server, UploadInv, EndInv, UploadType, Waiting, HeldInv
  <1>2. CASE WaitFails("progress") /\ UNCHANGED c2s
    BY <1>1, <1>2, WaitFailsStep
  <1>3. CASE Waited("progress") /\ layer < Layers /\ StartLayer(layer + 1)
    <2>1. ~LastLayer /\ layer + 1 \in 1..Layers /\ (layer + 1) - 1 = layer
      BY <1>1, <1>3, UploadAssumption DEF LastLayer
    <2>2. 1..layer \subseteq held
      <3>1. /\ Head(s2c[attempt]) \in Range(s2c[attempt]) /\ Answered(Head(s2c[attempt]))
            /\ Head(s2c[attempt]).m = "progress"
        BY <1>1, <1>3, <2>1, Heard, ZenonT(30) DEF Waited, Incoming
      <3> QED
        BY <1>1, <3>1, ZenonT(30) DEF Answered, UploadInv, HeldInv
    <2> DEFINE i == layer + 1
    <2>3. i \in 1..Layers /\ 1..(i - 1) \subseteq held /\ StartLayer(i)
      BY <1>3, <2>1, <2>2, ZenonT(30)
    <2> HIDE DEF i
    <2> QED
      BY <1>1, <1>3, <2>1, <2>3, StartLayerStep, ZenonT(30) DEF Waited
  <1>4. CASE Waited("progress") /\ layer = Layers /\ Proceeds("end", layer) /\ UNCHANGED c2s
    <2>1. Shrunk(s2c', s2c)
      BY <1>1, <1>4, TakenShrinks DEF Waited, Incoming
    <2> QED
      BY <1>1, <1>4, <2>1, GoOnStep DEF Proceeds, UploadType
  <1> QED
    BY <1>2, <1>3, <1>4 DEF RecvProgress

\* BackupEnd in v1: uploadOnce returns nil.
LEMMA RecvBackupEndStep ==
    ASSUME UploadInv, RecvBackupEnd
    PROVE  UploadInv'
  <1>1. /\ mode = "layers" /\ cpc = "end" /\ UNCHANGED <<c2s, sess, held, tag>> /\ ~gotEnd
        /\ UploadType /\ attempt \in Attempts
    BY DEF RecvBackupEnd, V1, server, UploadInv, EndInv, UploadType
  <1>2. CASE FailsReading(attempt)
    BY <1>1, <1>2, FailsReadingStep
  <1>3. CASE Incoming(attempt, "end") /\ Taken(attempt) /\ gotEnd' = TRUE /\ Succeeded
    <2>1. Shrunk(s2c', s2c)
      BY <1>1, <1>3, TakenShrinks, ZenonT(30) DEF Incoming
    <2> QED
      BY <1>1, <1>3, <2>1, SucceededStep, ZenonT(30)
  <1> QED
    BY <1>2, <1>3, ZenonT(30) DEF RecvBackupEnd

\* waitReady.
LEMMA WaitReadyStep ==
    ASSUME UploadInv, WaitReady
    PROVE  UploadInv'
  <1>1. /\ mode = "stream" /\ cpc = "start" /\ UNCHANGED <<c2s, s2c, sess, held, tag>> /\ ~gotEnd
        /\ Shrunk(s2c', s2c)
    BY Basics DEF WaitReady, V2, server
  <1>2. CASE \E k : Failed(k)
    BY <1>1, <1>2, StopsStep, ZenonT(30)
  <1>3. CASE Proceeds("send", 0)
    BY <1>1, <1>3, GoOnStep, ZenonT(30) DEF Proceeds
  <1> QED
    BY <1>2, <1>3 DEF WaitReady, Cause

\* streamWriter.Write.
LEMMA SourceWritesStep ==
    ASSUME UploadInv, SourceWrites
    PROVE  UploadInv'
  <1>1. /\ mode = "stream" /\ cpc = "send" /\ UNCHANGED <<s2c, sess, held, tag>> /\ ~gotEnd
        /\ Shrunk(s2c', s2c) /\ layer + 1 \in Nat
    BY Basics DEF SourceWrites, V2, server
  <1>2. CASE (\E k : Failed(k)) /\ UNCHANGED c2s
    BY <1>1, <1>2, StopsStep, ZenonT(30)
  <1>3. CASE Written(attempt, <<Plainly("data")>>) /\ Proceeds("send", layer + 1)
    <2> DEFINE msg == Plainly("data")
    <2>1. msg \in Message /\ msg.m = "data"
      BY MsgIs DEF Plainly, Names, Kinds
    <2> HIDE DEF msg
    <2>2. Written(attempt, <<msg>>)
      BY <1>3 DEF msg
    <2> QED
      BY <1>1, <1>3, <2>1, <2>2, SayStep, ZenonT(30) DEF Proceeds
  <1> QED
    BY <1>2, <1>3, ZenonT(30) DEF SourceWrites, Cause

\* StreamEnd.
LEMMA SendEndStep ==
    ASSUME UploadInv, SendEnd
    PROVE  UploadInv'
  <1>1. /\ mode = "stream" /\ cpc = "send" /\ UNCHANGED <<s2c, sess, held, tag>> /\ ~gotEnd
        /\ Shrunk(s2c', s2c) /\ layer \in Nat
    BY Basics DEF SendEnd, V2, server
  <1>2. CASE (\E k : Failed(k)) /\ UNCHANGED c2s
    BY <1>1, <1>2, StopsStep
  <1>3. CASE Written(attempt, <<Plainly("streamend")>>) /\ Proceeds("end", layer)
    <2> DEFINE msg == Plainly("streamend")
    <2>1. msg \in Message /\ msg.m = "streamend"
      BY MsgIs DEF Plainly, Names, Kinds
    <2> HIDE DEF msg
    <2>2. Written(attempt, <<msg>>)
      BY <1>3 DEF msg
    <2> QED
      BY <1>1, <1>3, <2>1, <2>2, SayStep, ZenonT(30) DEF Proceeds
  <1> QED
    BY <1>2, <1>3 DEF SendEnd, Cause

\* waitEnd.
LEMMA WaitEndStep ==
    ASSUME UploadInv, WaitEnd
    PROVE  UploadInv'
  <1>1. /\ mode = "stream" /\ cpc = "end" /\ UNCHANGED <<c2s, s2c, sess, held, tag>>
        /\ Shrunk(s2c', s2c)
    BY Basics DEF WaitEnd, V2, server
  <1>2. CASE gotEnd /\ Succeeded /\ UNCHANGED gotEnd
    BY <1>1, <1>2, SucceededStep
  <1>3. CASE (gotEnd => cancelled) /\ \E k : Failed(k)
    BY <1>1, <1>3, FailedStep
  <1> QED
    BY <1>2, <1>3 DEF WaitEnd, Cause

\* The backoff of withRetries.
LEMMA SleepStep ==
    ASSUME UploadInv, Sleep
    PROVE  UploadInv'
  <1> USE DEF UploadInv
  <1>1. cpc = "sleep" /\ UNCHANGED <<mode, cancelled, c2s, s2c, sess, held, tag>>
    BY DEF Sleep, wire, server
  <1>2. CASE /\ cancelled /\ cpc' = "returned" /\ result' = "err"
             /\ UNCHANGED <<attempt, layer, asyncErr, gotEnd, rpc, rerr, ready>>
    <2>1. UploadType'
      BY <1>1, <1>2 DEF UploadType
    <2>2. FutureInv' /\ EndInv'
      BY <1>1, <1>2, ZenonT(30) DEF FutureInv, EndInv
    <2>3. StreamInv' /\ HeldInv'
      BY <1>1, <1>2, ZenonT(30) DEF StreamInv, HeldInv
    <2>4. TalkInv' /\ EndBelieved'
      BY <1>1, <1>2, ZenonT(30) DEF TalkInv, Waiting, EndBelieved
    <2> QED
      BY <2>1, <2>2, <2>3, <2>4, ZenonT(30)
  <1>3. CASE /\ attempt' = attempt + 1 /\ cpc' = "dial"
             /\ layer' = 0 /\ gotEnd' = FALSE /\ rpc' = "off" /\ UNCHANGED result
    <2>1. /\ attempt' \in Attempts /\ attempt' > attempt
          /\ \A a \in Attempts : a > attempt' \/ a = attempt' => a > attempt
      BY <1>1, <1>3, UploadAssumption DEF UploadType, Attempts
    <2>2. /\ c2s[attempt'] = <<>> /\ s2c[attempt'] = <<>> /\ sess[attempt'] = "none"
          /\ Range(<<>>) = {}
      BY <2>1, Empty, ZenonT(30) DEF FutureInv
    <2>3. UploadType'
      BY <1>1, <1>3, <2>1, ZenonT(30) DEF UploadType
    <2>4. FutureInv'
      BY <1>1, <1>3, <2>1, ZenonT(30) DEF FutureInv
    <2>5. EndInv'
      BY <1>1, <1>3, ZenonT(30) DEF EndInv
    <2>6. StreamInv'
      BY <1>1, <1>3, <2>2, ZenonT(30) DEF StreamInv
    <2>7. HeldInv'
      BY <1>1, <1>3, ZenonT(30) DEF HeldInv
    <2>8. TalkInv' /\ EndBelieved'
      BY <1>1, <1>3, ZenonT(30) DEF TalkInv, Waiting, EndBelieved
    <2> QED
      BY <2>3, <2>4, <2>5, <2>6, <2>7, <2>8, ZenonT(30)
  <1> QED
    BY <1>2, <1>3, ZenonT(30) DEF Sleep

\* streamReader.run: BackupEnd finds an attempt that waits for it.
LEMMA ReadMessageStep ==
    ASSUME UploadInv, ReadMessage
    PROVE  UploadInv'
  <1> USE DEF UploadInv
  <1>1. /\ rpc = "run" /\ mode = "stream" /\ cpc \in {"start", "send", "end"}
        /\ UNCHANGED <<mode, cancelled, attempt, cpc, layer, result, c2s, sess, held, tag>>
        /\ attempt \in Attempts
    BY ZenonT(30) DEF ReadMessage, server, EndInv, UploadType
  <1>2. Shrunk(s2c', s2c) /\ Shrunk(c2s', c2s)
    BY <1>1, TakenShrinks, Basics, ZenonT(30) DEF ReadMessage, ErrorRead, Incoming
  <1>3. \/ gotEnd' = gotEnd /\ rpc' \in {rpc, "done"}
        \/ Incoming(attempt, "end") /\ gotEnd' = TRUE /\ rpc' = "done"
    BY ZenonT(30) DEF ReadMessage, ReaderEnds
  <1>4. Incoming(attempt, "end") => attempt \in Range(tag) /\ cpc = "end"
    <2>1. ASSUME Incoming(attempt, "end")
          PROVE  Head(s2c[attempt]) \in Range(s2c[attempt]) /\ Head(s2c[attempt]).m = "end"
      BY <1>1, <2>1, TailFacts, ZenonT(30) DEF Incoming, UploadType
    <2> QED
      BY <1>1, <2>1, ZenonT(30) DEF EndInv, StreamInv
  <1>5. UploadType'
    BY <1>1, <1>2, ZenonT(30) DEF UploadType, Shrunk
  <1>6. FutureInv'
    BY <1>1, <1>2, ZenonT(30) DEF FutureInv, Shrunk
  <1>7. EndInv'
    BY <1>1, <1>2, <1>3, <1>4 DEF EndInv, Shrunk
  <1>8. StreamInv'
    BY <1>1, <1>2, ZenonT(30) DEF StreamInv, Shrunk
  <1>9. HeldInv' /\ TalkInv'
    BY <1>1, ZenonT(30) DEF HeldInv, TalkInv
  <1>10. EndBelieved'
    BY <1>1, <1>3, <1>4, ZenonT(30) DEF EndBelieved
  <1> QED
    BY <1>5, <1>6, <1>7, <1>8, <1>9, <1>10, ZenonT(30)

-----------------------------------------------------------------------------
\* A client that has not dialled yet.
LEMMA InitInv ==
    ASSUME Init
    PROVE  UploadInv
  <1> USE DEF Init
  <1>e. Range(<<>>) = {} /\ <<>> \in Seq(Message) /\ <<>> \in Seq(Attempts)
    BY Empty, ZenonT(30)
  <1>1. UploadType
    BY <1>e, UploadAssumption DEF UploadType, Attempts
  <1>2. FutureInv /\ EndInv
    BY <1>e, ZenonT(30) DEF FutureInv, EndInv
  <1>3. StreamInv /\ HeldInv
    BY <1>e, <1>1, ZenonT(30) DEF StreamInv, HeldInv, UploadType
  <1>4. TalkInv /\ EndBelieved
    BY DEF TalkInv, Waiting, EndBelieved
  <1> QED
    BY <1>1, <1>2, <1>3, <1>4, ZenonT(30) DEF UploadInv

\* Every step of the client, its reader, a session, another client or the network.
LEMMA StepInv ==
    ASSUME UploadInv, [Next]_vars
    PROVE  UploadInv'
  <1>t. /\ UploadType
        /\ UNCHANGED <<c2s, s2c>> => Shrunk(c2s', c2s) /\ Shrunk(s2c', s2c)
    BY Basics
  <1>1. CASE Main
    BY <1>1, DialStep, RecvHelloAckStep, RecvBackupAckStep, RecvLayerAckStep, RecvProgressStep,
       RecvBackupEndStep, WaitReadyStep, SourceWritesStep, SendEndStep, WaitEndStep, SleepStep, ZenonT(30)
       DEF Main
  <1>2. CASE ReadMessage
    BY <1>2, ReadMessageStep, ZenonT(30)
  <1>3. CASE AsyncFails \/ Cancel \/ OtherSession
    <2>1. /\ UNCHANGED <<mode, attempt, cpc, layer, result, gotEnd, rpc, sess, held, tag, c2s, s2c>>
          /\ cancelled => cancelled'
      BY <1>3 DEF AsyncFails, Cancel, OtherSession, client, wire, server
    <2> QED
      BY <1>t, <2>1, QuietStep, ZenonT(30)
  <1>4. CASE \E a \in Attempts : Serve(a)
    BY <1>4, ServeStep, ZenonT(30)
  <1>5. CASE \E a \in Attempts : Cut(a)
    <2>1. PICK a \in Attempts : Cut(a)
      BY <1>5, ZenonT(30)
    <2>2. UNCHANGED <<mode, attempt, cpc, layer, result, gotEnd, rpc, sess, held, tag, cancelled>>
      BY <2>1, ZenonT(30) DEF Cut, client, server
    <2> QED
      BY <1>t, <2>1, <2>2, CutShrinks, QuietStep, ZenonT(30)
  <1>6. CASE UNCHANGED vars
    <2>1. UNCHANGED <<mode, attempt, cpc, layer, result, gotEnd, rpc, sess, held, tag, c2s, s2c, cancelled>>
      BY <1>6 DEF vars, client, wire, server
    <2> QED
      BY <1>t, <2>1, QuietStep, ZenonT(30)
  <1> QED
    BY <1>1, <1>2, <1>3, <1>4, <1>5, <1>6, ZenonT(30) DEF Next

\* Whatever fails and whenever a connection is cut, UploadInv holds in every state.
THEOREM Invariance == Spec => []UploadInv
  BY InitInv, StepInv, PTL DEF Spec

\* A client whose withRetries returned nil was answered by a session that moved the tag
\* and, in v1, the registry holds every layer, whichever attempt sent it.
THEOREM OkPublished == Spec => []OkMeansPublished
  <1>1. UploadInv => OkMeansPublished
    BY ZenonT(30) DEF UploadInv, UploadType, EndInv, HeldInv, OkMeansPublished
  <1> QED
    BY Invariance, <1>1, PTL

\* A BackupEnd that was read is not reported as a failure, unless the caller gave up:
\* waitEnd looks at the reader's verdict before it looks at asyncErr.
THEOREM EndIsBelieved == Spec => []EndBelieved
  <1>1. UploadInv => EndBelieved
    BY DEF UploadInv
  <1> QED
    BY Invariance, <1>1, PTL
=============================================================================
