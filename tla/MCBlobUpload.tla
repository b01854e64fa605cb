---------------------------- MODULE MCBlobUpload ----------------------------
(***************************************************************************)
(* Properties of BlobUpload and the abstract sink it implements.           *)
(***************************************************************************)
EXTENDS BlobUpload

SinkPhase == IF committed THEN "done" ELSE IF err \/ aborted THEN "failed" ELSE "open"

Sink == INSTANCE ByteSink WITH
            accepted <- accepted, delivered <- session.data, phase <- SinkPhase

\* The upload is an ordered sink: the registry's session holds a prefix of what was
\* written, byte for byte, and Commit succeeds only when it holds all of it, so the
\* digest the caller declared is the digest of the blob.
IsByteSink == Sink!Spec

\* Every call on the upload returns: Write and Commit do not wait for ever on a
\* channel nobody sends to, whatever the background PATCH does.
CallsReturn == (pc # "idle") ~> (pc = "idle")
=============================================================================
