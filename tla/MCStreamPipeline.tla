-------------------------- MODULE MCStreamPipeline --------------------------
(***************************************************************************)
(* StreamPipeline for TLC, with the mapping that shows it keeps            *)
(* BackupPromise: the published backup is what a reader gets by putting    *)
(* the payloads of the image's layers together, layer after layer.         *)
(***************************************************************************)
EXTENDS StreamPipelineInv

\* The elements of a sequence of sequences put together.
Joins(ss) ==
  LET upTo[n \in 0..Len(ss)] == IF n = 0 THEN <<>> ELSE upTo[n - 1] \o ss[n]
  IN  upTo[Len(ss)]

LayerUnits(layer) ==
  Joins([i \in 1..Len(layer.digest) |-> layer.digest[i].payload])
Restored(image) ==
  Joins([k \in 1..Len(image.layers) |-> LayerUnits(image.layers[k])])

\* What a reader gets from the published image is what the builder read from the client
\* (run, publish).
RestoredIsTheStream == tag # NoTag => Restored(tag) = received

Phase ==
  CASE wpipe = "open" -> "sending" [] wpipe = "eof" -> "ended" [] OTHER -> "dropped"
Backup == IF tag = NoTag THEN NoTag ELSE Restored(tag)

Promise == INSTANCE BackupPromise WITH
  NoBackup <- NoTag, phase <- Phase, stream <- received, backup <- Backup,
  answer <- reply

\* The pipeline implements BackupPromise: one publication at most, of the whole ended
\* stream, and a positive answer only for a published backup (streamEnd, publish).
KeepsPromise == Promise!PSpec

\* Every session that ended or was dropped is answered, whoever of session, builder,
\* uploader and scanner waits for whom (ingest.Finish, ingest.Abort, streamBuilder.run).
AnswersEventually == Promise!PFairness
=============================================================================
