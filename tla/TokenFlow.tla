------------------------------ MODULE TokenFlow ------------------------------
(***************************************************************************)
(* Registry tokens, from the issuer to the request that carries them.      *)
(*                                                                         *)
(* Locally (mode "local") the requests of a push run in parallel           *)
(* (RoundTrip, pkg/registry/transport.go) over one provider that caches a  *)
(* token and shares a mint among its callers (pkg/registry/token.go).      *)
(* With a remote server (mode "remote") the provider belongs to the client,*)
(* whose refresher sends each token through the session's stream           *)
(* (pkg/remote/client.go); the session loop hands it to a broker           *)
(* (pkg/server/token.go) that the uploader's requests wait on.  The loop   *)
(* also feeds the pipeline and waits for it when it is full, so that       *)
(* nothing bounds the time a token spends on the stream.                   *)
(*                                                                         *)
(* One repository, hence one scope.  A token is an identity with a life    *)
(* that every tick shortens; identities nobody holds are used again.       *)
(***************************************************************************)
EXTENDS Integers, Sequences, Functions, FiniteSets

CONSTANTS Senders,    \* goroutines that send requests
          Uploader,   \* the one of them that a v2 session has
          Refresher,  \* refreshToken of the client
          Ids,        \* token identities
          NoToken, StaticToken,
          Lives,      \* lifetimes the issuer gives, in ticks
          ForwardTTL, \* StaticTokenForwardTTL
          Margin,     \* SafetyMargin
          Timeout,    \* TokenBroker.timeout
          Wire,       \* Token frames on the stream
          MaxRevoked  \* tokens the registry revokes at a time

ASSUME TokenAssumption ==
    /\ Uploader \in Senders /\ Refresher \notin Senders
    /\ NoToken \notin Ids /\ StaticToken \notin Ids /\ NoToken # StaticToken
    /\ Lives \subseteq Nat \ {0} /\ Margin \in Nat
    /\ Timeout \in Nat \ {0} /\ Wire \in Nat \ {0}
    /\ MaxRevoked \in Nat /\ ForwardTTL \in Nat

Callers == Senders \cup {Refresher}
Tokens == Ids \cup {StaticToken}

VARIABLES mode,      \* "local" or "remote"
          creds,     \* "minted", or a bearer the user configured: "kept", or
                     \* "forwarded" with --forward-static-token
          life,      \* ticks each token has left
          revoked,   \* tokens the registry refuses before they expire
          cache,     \* provider.cache
          inflight,  \* provider.inflight: a mint is under way
          gpc,       \* where each caller is in Provider.Get
          gtok,      \* what Get returned to it
          wpc,       \* where each sender is in RoundTrip
          first,     \* the token of its first try
          btok,      \* TokenBroker.tokens
          asleep,    \* senders in TokenBroker.Get that wait for the current notify channel
          left,      \* ticks a sender's wait may still last
          rpc,       \* the refresher
          rest,      \* ticks it sleeps
          loop,      \* the session: "read", or "failed"
          wire       \* Token frames on the stream

provider == <<life, cache, inflight, gpc, gtok>>
sender == <<wpc, first>>
broker == <<btok, asleep, left>>
session == <<rpc, rest, loop, wire>>
tokenVars == <<mode, creds, revoked, provider, sender, broker, session>>

TokenInit ==
    /\ mode \in {"local", "remote"}
    /\ creds \in {"minted", "kept", "forwarded"}
    /\ life = [t \in Tokens |-> 0]
    /\ revoked = {}
    /\ cache = NoToken
    /\ inflight = FALSE
    /\ gpc = [c \in Callers |-> IF c = Refresher /\ mode = "remote" THEN "want" ELSE "none"]
    /\ gtok = [c \in Callers |-> NoToken]
    /\ wpc = [w \in Senders |-> "idle"]
    /\ first = [w \in Senders |-> NoToken]
    /\ btok = NoToken
    /\ asleep = {}
    /\ left = [w \in Senders |-> 0]
    /\ rpc = IF mode = "remote" THEN "get" ELSE "off"
    /\ rest = 0
    /\ loop = "read"
    /\ wire = <<>>

-----------------------------------------------------------------------------
(* The provider: Get and Invalidate *)

UsesBroker(c) == mode = "remote" /\ c \in Senders

\* Token.validAt: a static bearer has no expiry the code can read.
ValidAt(t) == t = StaticToken \/ (t \in Ids /\ life[t] > Margin)

\* The first critical section of Get: the cache, the mint under way, or a new mint.
GetStart(c) ==
    /\ gpc[c] = "want" /\ ~UsesBroker(c)
    /\ \/ /\ ValidAt(cache)
          /\ gpc' = [gpc EXCEPT ![c] = "got"]
          /\ gtok' = [gtok EXCEPT ![c] = cache]
          /\ UNCHANGED inflight
       \/ /\ ~ValidAt(cache) /\ inflight
          /\ gpc' = [gpc EXCEPT ![c] = "join"]
          /\ UNCHANGED <<gtok, inflight>>
       \/ /\ ~ValidAt(cache) /\ ~inflight
          /\ gpc' = [gpc EXCEPT ![c] = "mint"]
          /\ inflight' = TRUE
          /\ UNCHANGED gtok
    /\ UNCHANGED <<mode, creds, revoked, life, cache, sender, broker, session>>

\* Somebody has the token, or it is under way.
InUse ==
    {cache, btok} \cup Range(gtok) \cup Range(first) \cup Range(wire)

\* mint: the user's own bearer, a token of the issuer, or an error.
Minted(t) ==
    \/ creds # "minted" /\ t = StaticToken /\ UNCHANGED <<life, revoked>>
    \/ /\ creds = "minted" /\ Ids \ InUse # {}
       /\ t = CHOOSE i \in Ids \ InUse : TRUE
       /\ \E n \in Lives : life' = [life EXCEPT ![t] = n]
       /\ revoked' = revoked \ {t}
    \/ mode = "local" /\ t = NoToken /\ UNCHANGED <<life, revoked>>

\* The caller and those that joined it get what the mint returned.
Gets(callers, t) ==
    /\ gpc' = [c \in Callers |-> IF c \notin callers THEN gpc[c]
                                 ELSE IF t = NoToken THEN "failed" ELSE "got"]
    /\ gtok' = [c \in Callers |-> IF c \in callers THEN t ELSE gtok[c]]

Joined == {c \in Callers : gpc[c] = "join"}

\* Mutant: a mint that failed does not wake the callers that joined it.
GetEndQuiet(c) ==
    /\ gpc[c] = "mint"
    /\ inflight' = FALSE
    /\ \E t \in Tokens \cup {NoToken} :
          /\ Minted(t)
          /\ cache' = IF t = NoToken THEN cache ELSE t
          /\ Gets(IF t = NoToken THEN {c} ELSE Joined \cup {c}, t)
    /\ UNCHANGED <<mode, creds, sender, broker, session>>

\* The mint and the second critical section: the token is cached, and the callers that
\* joined get the call's result, error or not.
GetEnd(c) ==
    /\ gpc[c] = "mint"
    /\ inflight' = FALSE
    /\ \E t \in Tokens \cup {NoToken} :
          /\ Minted(t)
          /\ cache' = IF t = NoToken THEN cache ELSE t
          /\ Gets(Joined \cup {c}, t)
    /\ UNCHANGED <<mode, creds, sender, broker, session>>

\* The context of a caller that joined ends.
GiveUp(c) ==
    /\ gpc[c] = "join" /\ c \in Senders
    /\ gpc' = [gpc EXCEPT ![c] = "failed"]
    /\ UNCHANGED <<mode, creds, revoked, life, cache, inflight, gtok, sender, broker, session>>

-----------------------------------------------------------------------------
(* The broker of a session *)

\* A token that lives another second.
Serves(t) == t \in Tokens /\ life[t] > 0

\* TokenBroker.Get, each time round its loop: the token, or a sleep on the channel that
\* is current under the lock.
BrokerGet(w) ==
    /\ \/ gpc[w] = "want" /\ UsesBroker(w)
       \/ gpc[w] = "bwait" /\ w \notin asleep
    /\ \/ /\ Serves(btok)
          /\ left' = [left EXCEPT ![w] = 0]
          /\ gpc' = [gpc EXCEPT ![w] = "got"]
          /\ gtok' = [gtok EXCEPT ![w] = btok]
          /\ UNCHANGED asleep
       \/ /\ ~Serves(btok)
          /\ left' = IF gpc[w] = "want" THEN [left EXCEPT ![w] = Timeout] ELSE left
          /\ gpc' = [gpc EXCEPT ![w] = "bwait"]
          /\ asleep' = asleep \cup {w}
          /\ UNCHANGED gtok
    /\ UNCHANGED <<mode, creds, revoked, life, cache, inflight, sender, btok, session>>

\* The deadline of the wait passed: ErrTokenTimeout.
BrokerTimeout(w) ==
    /\ gpc[w] = "bwait" /\ left[w] = 0
    /\ gpc' = [gpc EXCEPT ![w] = "failed"]
    /\ asleep' = asleep \ {w}
    /\ UNCHANGED <<mode, creds, revoked, life, cache, inflight, gtok, sender, btok, left, session>>

\* Mutant: the token is stored and nobody is told.
ProvideQuietly(t) ==
    /\ btok' = IF Serves(t) THEN t ELSE btok
    /\ UNCHANGED asleep

\* TokenBroker.ProvideToken: a token that has expired is dropped; a new notify channel
\* replaces the one that is closed.
ProvideToken(t) ==
    /\ btok' = IF Serves(t) THEN t ELSE btok
    /\ asleep' = IF Serves(t) THEN {} ELSE asleep

-----------------------------------------------------------------------------
(* RoundTrip *)

Steps(w, pc, g) == wpc' = [wpc EXCEPT ![w] = pc] /\ gpc' = [gpc EXCEPT ![w] = g]

\* A request of a push, or of the session's uploader.
Begin(w) ==
    /\ wpc[w] = "idle"
    /\ mode = "remote" => w = Uploader /\ loop # "failed"
    /\ Steps(w, "get", "want")
    /\ UNCHANGED <<mode, creds, revoked, life, cache, inflight, gtok, first, broker, session>>

\* The request leaves with the token Get returned.
Send(w) ==
    /\ gpc[w] = "got" /\ wpc[w] \in {"get", "reget"}
    /\ Steps(w, IF wpc[w] = "get" THEN "sent" ELSE "resent", "none")
    /\ UNCHANGED <<mode, creds, revoked, life, cache, inflight, gtok, first, broker, session>>

\* RoundTrip returns; a request of the session that failed may be the end of it.
Returns(w, ok) ==
    /\ Steps(w, "idle", "none")
    /\ gtok' = [gtok EXCEPT ![w] = NoToken]
    /\ first' = [first EXCEPT ![w] = NoToken]
    /\ loop' \in {loop} \cup (IF ok \/ mode = "local" THEN {} ELSE {"failed"})
    /\ UNCHANGED <<mode, creds, revoked, life, cache, inflight, broker, rpc, rest, wire>>

\* The registry's answer to a token: the registry's clock and its list of revoked ones.
Accepts(t) == t = StaticToken \/ (t \in Ids /\ life[t] > 0 /\ t \notin revoked)
MayRefuse(t) == t = StaticToken \/ ~Accepts(t)

Accepted(w) ==
    /\ wpc[w] \in {"sent", "resent"} /\ Accepts(gtok[w])
    /\ Returns(w, TRUE)

\* Get failed, the request failed, or its 401 is the caller's: the body cannot be sent
\* again, or this was the second try.
Surfaces(w) ==
    /\ \/ gpc[w] = "failed"
       \/ wpc[w] \in {"sent", "resent"} /\ MayRefuse(gtok[w])
       \/ wpc[w] \in {"sent", "resent"} /\ mode = "local"
    /\ Returns(w, FALSE)

\* Mutant: the second try asks for a token without dropping the one refused.
RetryKeepsToken(w) ==
    /\ wpc[w] = "sent" /\ MayRefuse(gtok[w])
    /\ Steps(w, "reget", "want")
    /\ first' = [first EXCEPT ![w] = gtok[w]]
    /\ gtok' = [gtok EXCEPT ![w] = NoToken]
    /\ UNCHANGED <<mode, creds, revoked, life, cache, inflight, broker, session>>

\* A 401: Invalidate, then a second try with what Get returns next.
Retry(w) ==
    /\ wpc[w] = "sent" /\ MayRefuse(gtok[w])
    /\ Steps(w, "reget", "want")
    /\ first' = [first EXCEPT ![w] = gtok[w]]
    /\ gtok' = [gtok EXCEPT ![w] = NoToken]
    /\ IF mode = "local"
       THEN cache' = NoToken /\ UNCHANGED <<btok, asleep>>
       ELSE btok' = NoToken /\ asleep' = {} /\ UNCHANGED cache
    /\ UNCHANGED <<mode, creds, revoked, life, inflight, left, session>>

-----------------------------------------------------------------------------
(* The client's refresher and the session loop *)

\* sendToken, and what provideToken and refreshToken do next.  The token is on the stream,
\* behind what the connection already holds.  A static bearer is forwarded once, with an
\* expiry of the client's own, or refused, which ends the session; a token that expired
\* while the stream took it ends the refresher.
SendToken ==
    LET t == gtok[Refresher] IN
    /\ rpc = "get" /\ gpc[Refresher] = "got"
    /\ gpc' = [gpc EXCEPT ![Refresher] = "none"]
    /\ gtok' = [gtok EXCEPT ![Refresher] = NoToken]
    /\ \/ /\ creds = "kept"
          /\ rpc' = "off" /\ loop' = "failed"
          /\ UNCHANGED <<wire, life, rest>>
       \/ /\ creds = "forwarded" /\ Len(wire) < Wire
          /\ wire' = Append(wire, t)
          /\ life' = [life EXCEPT ![t] = ForwardTTL]
          /\ rpc' = "off"
          /\ UNCHANGED <<loop, rest>>
       \/ /\ creds = "minted" /\ Len(wire) < Wire
          /\ wire' = Append(wire, t)
          /\ rpc' = IF life[t] = 0 THEN "off" ELSE "sleep"
          /\ rest' = (3 * life[t]) \div 5
          /\ UNCHANGED <<loop, life>>
    /\ UNCHANGED <<mode, creds, revoked, cache, inflight, sender, broker>>

\* refreshToken, once two fifths of the remaining lifetime are left: Invalidate and Get.
Refresh ==
    /\ rpc = "sleep" /\ rest = 0
    /\ rpc' = "get"
    /\ cache' = NoToken
    /\ gpc' = [gpc EXCEPT ![Refresher] = "want"]
    /\ UNCHANGED <<mode, creds, revoked, life, inflight, gtok, sender, broker, rest, loop, wire>>

\* Session.Run reads the frame and hands the token to the broker.
ReadFrame ==
    /\ loop = "read" /\ wire # <<>>
    /\ wire' = Tail(wire)
    /\ ProvideToken(Head(wire))
    /\ UNCHANGED <<mode, creds, revoked, provider, sender, left, rpc, rest, loop>>

-----------------------------------------------------------------------------
(* Time *)

\* The registry stops accepting a token before it expires.
Revoke(t) ==
    /\ t \in InUse \ revoked /\ life[t] > 0 /\ Cardinality(revoked) < MaxRevoked
    /\ revoked' = revoked \cup {t}
    /\ UNCHANGED <<mode, creds, provider, sender, broker, session>>

\* A tick; what becomes of a token nobody holds is forgotten.
Tick ==
    /\ life' = [t \in Tokens |-> IF t \in InUse /\ life[t] > 0 THEN life[t] - 1 ELSE 0]
    /\ revoked' = revoked \cap InUse
    /\ rest' = IF rest > 0 THEN rest - 1 ELSE 0
    /\ left' = [w \in Senders |-> IF left[w] > 0 THEN left[w] - 1 ELSE 0]
    /\ UNCHANGED <<mode, creds, cache, inflight, gpc, gtok, sender, btok, asleep, rpc, loop, wire>>

Get(c) == GetStart(c) \/ GetEnd(c)
Request(w) == Begin(w) \/ Send(w) \/ Accepted(w) \/ Surfaces(w) \/ Retry(w) \/ BrokerGet(w)

TokenNext ==
    \/ \E c \in Callers : Get(c) \/ GiveUp(c)
    \/ \E w \in Senders : Request(w) \/ BrokerTimeout(w)
    \/ SendToken \/ Refresh \/ ReadFrame \/ Tick
    \/ \E t \in Ids : Revoke(t)

\* A sender's own steps, the registry's answers to it included, and the passing of time.
\* Nothing is asked of the refresher, of the connection or of the session loop.
TokenFairness ==
    /\ \A w \in Senders : WF_tokenVars(Get(w) \/ Request(w))
    /\ WF_tokenVars(BrokerTimeout(Uploader))
    /\ WF_tokenVars(Tick)

TokenSpec == TokenInit /\ [][TokenNext]_tokenVars /\ TokenFairness

-----------------------------------------------------------------------------
\* RoundTrip's second try never carries the token that was just refused, whatever other
\* callers of the provider mint, cache or invalidate meanwhile (a bearer the user
\* configured has no other).
RetryIsFresh ==
    \A w \in Senders : wpc[w] = "resent" /\ creds = "minted" => gtok[w] # first[w]

\* TokenBroker.Get "blocks without polling until a matching, valid token arrives": nobody
\* sleeps on a channel while the broker has a token that serves.
NoLostWakeup == \A w \in asleep : ~Serves(btok)

\* Concurrent Get calls share one request (provider.Get), and a request that waits for a
\* token gets one or an error: RoundTrip returns.
RequestReturns == wpc[Uploader] # "idle" ~> wpc[Uploader] = "idle"

=============================================================================
