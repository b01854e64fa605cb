--------------------------- MODULE MCFrameBuffer ---------------------------
(***************************************************************************)
(* Properties of the client's frame buffer and of the stream it declares.  *)
(***************************************************************************)
EXTENDS FrameBuffer

\* The count declared at StreamEnd, which the server compares with what it received,
\* is the length of the archive and of what is on the wire.
DeclaredIsSent ==
    pc = "done" => declared = accepted /\ declared = Len(wire)

SinkPhase == IF pc \in {"done", "failed"} THEN pc ELSE "open"

Sink == INSTANCE ByteSink WITH
            accepted <- accepted, delivered <- wire, phase <- SinkPhase

\* The archive arrives in order, and StreamEnd is sent only once all of it is on the
\* wire: "the ordering of the stream is unchanged" by the overlap.
IsByteSink == Sink!Spec

\* The source returns and the attempt ends, whatever send, reader or quota do.
AttemptEnds == <>(pc \in {"done", "failed"})
=============================================================================
