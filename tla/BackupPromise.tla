---------------------------- MODULE BackupPromise ----------------------------
(***************************************************************************)
(* What a remote backup session promises to the client that opened it,     *)
(* without saying how: the client sends a stream and ends it or goes away; *)
(* the server may publish, once, the stream that was ended, and only that; *)
(* it answers once, and a positive answer means the backup is published.   *)
(***************************************************************************)
EXTENDS Sequences

CONSTANTS Unit, NoBackup

VARIABLES
  phase,   \* "sending", "ended" or "dropped"
  stream,  \* what the server has taken from the client
  backup,  \* the content published under the reference
  answer   \* "none", "BackupEnd" or "Error"

pvars == <<phase, stream, backup, answer>>

PInit ==
  phase = "sending" /\ stream = <<>> /\ backup = NoBackup /\ answer = "none"

Accept(u) ==
  /\ phase = "sending"
  /\ stream' = Append(stream, u)
  /\ UNCHANGED <<phase, backup, answer>>

EndStream ==
  /\ phase = "sending" /\ phase' = "ended"
  /\ UNCHANGED <<stream, backup, answer>>

DropStream ==
  /\ phase = "sending" /\ phase' = "dropped"
  /\ UNCHANGED <<stream, backup, answer>>

Publish ==
  /\ phase = "ended" /\ backup = NoBackup /\ answer = "none"
  /\ backup' = stream
  /\ UNCHANGED <<phase, stream, answer>>

\* An error may be answered although the backup was published: the answer of
\* the registry was lost, or the read-back of the tag failed.
Answer ==
  /\ phase # "sending" /\ answer = "none"
  /\ answer' \in {"BackupEnd", "Error"}
  /\ answer' = "BackupEnd" => backup # NoBackup
  /\ UNCHANGED <<phase, stream, backup>>

PNext ==
  (\E u \in Unit : Accept(u)) \/ EndStream \/ DropStream \/ Publish \/ Answer

PSpec == PInit /\ [][PNext]_pvars

\* Whoever ended the stream or went away is answered.
PFairness == WF_pvars(Answer)
=============================================================================
