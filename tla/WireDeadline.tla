---------------------------- MODULE WireDeadline ----------------------------
(***************************************************************************)
(* Deadlines of a remote session once data flows: the session loop arms a  *)
(* deadline for every frame it waits for (Session.Run), idleConn moves it  *)
(* when bytes are read or written on a TCP connection, the heartbeat of a  *)
(* streaming session writes on a timer, the client sends keepalives, and   *)
(* the server gives up on a client that sends nothing else.                *)
(*                                                                         *)
(* Time advances by Tick.  Deadlines and timers are what is left of them.  *)
(* The network is fast: what can be read or sent now is, before the clock  *)
(* moves; but a frame may arrive in pieces, with any time between them.    *)
(* The network holds Window frames; a client that wants to send more waits *)
(* in Write, holding the lock the keepalive needs.  The server may stay in *)
(* a handler (a slow registry) for as long as it likes.                    *)
(***************************************************************************)
EXTENDS Integers, Sequences

CONSTANTS Idle,          \* IdleTimeout of both sides
          Beat,          \* ProgressInterval
          Keepalive,     \* the client's Config.Keepalive
          KeepaliveOnly, \* maxKeepaliveOnly
          Window,        \* frames the connection buffers
          Pieces,        \* reads a frame may take: up to its bytes, 5 + MaxFrameSize
          Transport      \* "tcp" (idleConn) or "quic" (quicStream)

ASSUME DeadlineAssumption ==
    /\ Idle \in Nat /\ Window \in Nat \ {0} /\ Pieces \in Nat \ {0}
    /\ KeepaliveOnly \in Nat
    /\ Beat \in Nat \ {0} /\ 2 * Beat <= Idle
    /\ Keepalive \in Nat \ {0} /\ 2 * Keepalive <= Idle
    /\ Transport \in {"tcp", "quic"}

VARIABLES streaming, \* the client opened the session with StreamStart (v2), not BackupStart
          srv,    \* the session loop: "read", "busy" in a handler, "publish" in the last one, "over"
          left,   \* server: time to the deadline, 0 when it has passed
          beat,   \* server: time to the next heartbeat
          client, \* "up", or "gone" without a word
          cleft,  \* client: time to the deadline
          ka,     \* client: time to the next keepalive
          wire,   \* frames sent and not read
          stale,  \* time since lastProgress
          quiet,  \* time in the current ReadFrame
          part,   \* pieces of its frame read so far
          cause   \* how the session ended

timedVars == <<streaming, srv, left, beat, client, cleft, ka, wire, stale, quiet, part, cause>>

\* Where the counters of elapsed time stop.
Cap == KeepaliveOnly + Pieces * Idle + 1

TimedInit ==
    /\ streaming \in BOOLEAN
    /\ srv = "read"
    /\ left = Idle
    /\ beat = Beat
    /\ client = "up"
    /\ cleft = Idle
    /\ ka = Keepalive
    /\ wire = <<>>
    /\ stale = 0 /\ quiet = 0 /\ part = 0
    /\ cause = "none"

\* idleConn.touch after bytes moved; a QUIC stream keeps the deadline it was given.
Touch(d) == IF Transport = "tcp" /\ 2 * d <= Idle THEN Idle ELSE d

Ends(why) == srv' = "over" /\ cause' = why

-----------------------------------------------------------------------------
(* The client *)

\* streamWriter, streamLayer: a data frame.
ClientSends ==
    /\ client = "up" /\ srv # "over"
    /\ Len(wire) < Window
    /\ wire' = Append(wire, "data")
    /\ cleft' = Touch(cleft)
    /\ UNCHANGED <<streaming, srv, left, beat, client, ka, stale, quiet, part, cause>>

KeepaliveDue == client = "up" /\ ka = 0 /\ Len(wire) < Window

ClientKeepalive ==
    /\ srv # "over"
    /\ KeepaliveDue
    /\ wire' = Append(wire, "keepalive")
    /\ ka' = Keepalive
    /\ cleft' = Touch(cleft)
    /\ UNCHANGED <<streaming, srv, left, beat, client, stale, quiet, part, cause>>

\* A client of a busy server waits in a read or a write; only TCP puts a deadline on it.
ClientExpired == client = "up" /\ Transport = "tcp" /\ cleft = 0

ClientExpires ==
    /\ srv # "over"
    /\ ClientExpired
    /\ Ends("clientExpired")
    /\ UNCHANGED <<streaming, left, beat, client, cleft, ka, wire, stale, quiet, part>>

\* The machine or its network disappears; nothing tells the server.
ClientGone ==
    /\ client = "up" /\ srv # "over"
    /\ client' = "gone"
    /\ UNCHANGED <<streaming, srv, left, beat, cleft, ka, wire, stale, quiet, part, cause>>

-----------------------------------------------------------------------------
(* The session loop *)

\* The head of Run's loop: setDeadline, then ReadFrame.
NextFrame == srv' = "read" /\ left' = Idle /\ quiet' = 0 /\ part' = 0

\* ReadFrame is two io.ReadFull over idleConn.Read: bytes of the next frame arrive and
\* are not the last of it.
ReadPart ==
    /\ srv = "read" /\ left > 0
    /\ wire # <<>> /\ part + 1 < Pieces
    /\ part' = part + 1
    /\ left' = Touch(left)
    /\ UNCHANGED <<streaming, srv, beat, client, cleft, ka, wire, stale, quiet, cause>>

\* The rest of a data or control frame arrives: its handler returns, or stays.
ReadProgress ==
    /\ srv = "read" /\ left > 0
    /\ wire # <<>> /\ Head(wire) = "data"
    /\ wire' = Tail(wire)
    /\ stale' = 0
    /\ \/ NextFrame
       \/ /\ srv' \in {"busy", "publish"}
          /\ left' = Touch(left)
          /\ quiet' = 0 /\ part' = 0
    /\ UNCHANGED <<streaming, beat, client, cleft, ka, cause>>

\* keepalive: the rest of an empty frame arrives.
KeepaliveRule == stale > KeepaliveOnly

ReadKeepalive ==
    /\ srv = "read" /\ left > 0
    /\ wire # <<>> /\ Head(wire) = "keepalive"
    /\ wire' = Tail(wire)
    /\ IF KeepaliveRule
       THEN Ends("keepalive") /\ UNCHANGED <<left, quiet, part>>
       ELSE NextFrame /\ UNCHANGED cause
    /\ UNCHANGED <<streaming, beat, client, cleft, ka, stale>>

ServerExpired == srv = "read" /\ left = 0

ServerExpires ==
    /\ ServerExpired
    /\ Ends("expired")
    /\ UNCHANGED <<streaming, left, beat, client, cleft, ka, wire, stale, quiet, part>>

\* A handler returns.  layerEnd answers before the loop goes on; streamData does not.
HandlerReturns ==
    /\ srv = "busy"
    /\ IF ~streaming /\ left = 0
       THEN Ends("expired") /\ UNCHANGED <<left, quiet, part, cleft>>
       ELSE /\ NextFrame
            /\ cleft' = IF ~streaming /\ client = "up" THEN Touch(cleft) ELSE cleft
            /\ UNCHANGED cause
    /\ UNCHANGED <<streaming, beat, client, ka, wire, stale>>

\* The backup is published: BackupEnd.
Answer ==
    /\ srv = "publish"
    /\ Ends(IF left = 0 THEN "expired" ELSE "answered")
    /\ UNCHANGED <<streaming, left, beat, client, cleft, ka, wire, stale, quiet, part>>

\* Mutant: progress is reported only between two frames.
HeartbeatDueWhileReading == streaming /\ srv = "read" /\ beat = 0

\* Mutant: v1 sessions have a heartbeat as well.
HeartbeatDueAlways == srv # "over" /\ beat = 0

HeartbeatDue == streaming /\ srv # "over" /\ beat = 0

\* startHeartbeat: a failed send is ignored; a vanished client's bytes are buffered.
Heartbeat ==
    /\ HeartbeatDue
    /\ beat' = Beat
    /\ left' = IF left > 0 THEN Touch(left) ELSE left
    /\ cleft' = IF left > 0 /\ client = "up" THEN Touch(cleft) ELSE cleft
    /\ UNCHANGED <<streaming, srv, client, ka, wire, stale, quiet, part, cause>>

\* Retransmission or the keep-alive of the transport gives up on a vanished client.
ConnectionLost ==
    /\ client = "gone" /\ srv # "over"
    /\ Ends("lost")
    /\ UNCHANGED <<streaming, left, beat, client, cleft, ka, wire, stale, quiet, part>>

-----------------------------------------------------------------------------
Down(n) == IF n = 0 THEN 0 ELSE n - 1
Up(n) == IF n = Cap THEN n ELSE n + 1

Tick ==
    /\ srv # "over"
    /\ ~HeartbeatDue /\ ~KeepaliveDue
    /\ ~ServerExpired /\ ~ClientExpired
    /\ srv = "read" => wire = <<>> \/ part > 0
    /\ left' = Down(left)
    /\ beat' = Down(beat)
    /\ cleft' = Down(cleft)
    /\ ka' = Down(ka)
    /\ stale' = Up(stale)
    /\ quiet' = IF srv = "read" THEN Up(quiet) ELSE quiet
    /\ UNCHANGED <<streaming, srv, client, wire, part, cause>>

TimedNext ==
    \/ ClientSends \/ ClientKeepalive \/ ClientExpires \/ ClientGone
    \/ ReadPart \/ ReadProgress \/ ReadKeepalive \/ ServerExpires \/ HandlerReturns \/ Answer
    \/ Heartbeat \/ ConnectionLost
    \/ Tick

TimedSpec == TimedInit /\ [][TimedNext]_timedVars

-----------------------------------------------------------------------------
\* "A transfer that keeps making progress never expires no matter how long it runs"
\* (docs/remote.md): as long as the client of a streaming session is there, neither
\* side's deadline ends the session, however long the pipeline holds a handler.
LiveSessionKept ==
    streaming /\ cause \in {"expired", "clientExpired"} => client = "gone"

\* A layer session has no heartbeat to rearm its deadline: every piece of a frame buys
\* its client one idle window at most (idleConn.Read), none once it falls silent, and
\* "keepalives alone do not hold a session" (session.go): one whose client sends nothing
\* else keeps its slot for maxKeepaliveOnly and the pieces of one more frame.
SilentPeerDropped ==
    ~streaming /\ srv = "read" =>
        /\ quiet <= (part + 1) * Idle
        /\ stale <= KeepaliveOnly + (part + 1) * Idle

\* "SetDeadline keeps an explicit deadline authoritative: the session loop sets one per
\* frame and touch must not fight it" (idleconn.go): one frame of a layer session is
\* waited for no longer than the deadline set for it.
FrameWithinIdle == ~streaming => quiet <= Idle

=============================================================================
