---------------------------- MODULE RegistryPush ----------------------------
(***************************************************************************)
(* The push engine of pkg/registry/push.go with its checkpoint file: a     *)
(* feeder and Jobs workers make the blobs present, the main goroutine then *)
(* publishes the platform manifests, the index and the tag, reads them     *)
(* back and removes the checkpoint.  The process may crash at any point    *)
(* and is run again with the same parameters; the checkpoint file survives *)
(* (it is replaced by a rename), everything else in memory is lost.        *)
(*                                                                         *)
(* The registry is external: for each digest it holds nothing, the right   *)
(* bytes or something of another length, it holds manifests and a tag, and *)
(* may collect blobs no manifest names.  Requests fail with the statuses   *)
(* the code tells apart, and a failed request may have taken effect.       *)
(* Failures, crashes, cancellations and collections draw on one budget.    *)
(***************************************************************************)
EXTENDS Naturals, Sequences, Functions

CONSTANTS Images,       \* per platform, its config and layer digests, in order
          Jobs,         \* opts.Jobs
          MaxRetries,   \* opts.MaxRetries
          Resume,       \* a checkpoint store is configured
          Verify,       \* opts.Verify # VerifyOff
          SizeReported, \* a HEAD carries the blob's length
          Collects,     \* the registry collects unreferenced blobs
          MaxFaults     \* bound on what goes wrong

\* The digests the platforms name.
Digests == UNION {Range(Images[i]) : i \in DOMAIN Images}

\* Push replaces a count of jobs that is not positive.
ASSUME PushAssumption ==
    /\ Images \in Seq(Seq(Digests))
    /\ Jobs \in Nat \ {0} /\ MaxRetries \in Nat /\ MaxFaults \in Nat
    /\ {Resume, Verify, SizeReported, Collects} \subseteq BOOLEAN

VARIABLES main,      \* the main goroutine
          step,      \* its position in the loops of publish and verify
          fed,       \* tasks the feeder went through
          closed,    \* close(taskCh)
          queue,     \* taskCh
          worker,    \* per worker: [pc, blob, attempt]
          done,      \* p.done
          fallback,  \* chunkFallback # 0
          cancelled, \* the context of the run
          failed,    \* errCh is not empty
          ckpt,      \* the checkpoint file: the digests in it, or NoFile
          blob,      \* registry: what it holds under a digest
          held,      \* registry: manifests by digest
          tag,       \* registry: what the reference names
          dropped,   \* registry: a blob was collected
          faults     \* what went wrong so far

memory == <<main, step, fed, closed, queue, worker, done, fallback, cancelled, failed>>
registry == <<blob, held, tag, dropped>>
vars == <<main, step, fed, closed, queue, worker, done, fallback, cancelled, failed,
          ckpt, blob, held, tag, dropped, faults>>

NoFile == {"no file"}

Workers == 1..Jobs

\* collectTasksBlobs: the digests in the order platforms name them, then one task for
\* each that was not seen before.
Named[i \in 0..Len(Images)] == IF i = 0 THEN <<>> ELSE Named[i - 1] \o Images[i]

AllNamed == Named[Len(Images)]

Collected[n \in 0..Len(AllNamed)] ==
    IF n = 0 THEN <<>>
    ELSE IF AllNamed[n] \in Range(Collected[n - 1]) THEN Collected[n - 1]
    ELSE Append(Collected[n - 1], AllNamed[n])

Tasks == Collected[Len(AllNamed)]

Blobs == Range(Tasks)

\* The staged manifests in the order publishManifests puts them: platforms, then the index.
Index == Len(Images) + 1
Staged == 1..Index

IdleWorker == [pc |-> "recv", blob |-> "none", attempt |-> 0]

Fault == faults < MaxFaults /\ faults' = faults + 1

-----------------------------------------------------------------------------
(* Start, crash, cancellation *)

Init ==
    /\ main = "off"
    /\ step = 0
    /\ fed = 0
    /\ closed = FALSE
    /\ queue = <<>>
    /\ worker = [w \in Workers |-> IdleWorker]
    /\ done = {}
    /\ fallback = FALSE
    /\ cancelled = FALSE
    /\ failed = FALSE
    /\ ckpt = NoFile
    /\ blob \in [Blobs -> {"absent", "good", "short"}]
    /\ held = {}
    /\ tag = "old"
    /\ dropped = FALSE
    /\ faults = 0

\* Mutant: a push run again has the context of the one before.
StartSameContext ==
    /\ main \in {"off", "error"}
    /\ main' = "upload"
    /\ step' = 0
    /\ fed' = 0
    /\ closed' = FALSE
    /\ queue' = <<>>
    /\ worker' = [w \in Workers |-> IdleWorker]
    /\ done' = IF Resume /\ ckpt # NoFile THEN ckpt ELSE {}
    /\ fallback' = FALSE
    /\ failed' = FALSE
    /\ UNCHANGED <<cancelled, ckpt, registry, faults>>

\* Push: load the checkpoint and start feeder and workers.
Start ==
    /\ main \in {"off", "error"}
    /\ main' = "upload"
    /\ step' = 0
    /\ fed' = 0
    /\ closed' = FALSE
    /\ queue' = <<>>
    /\ worker' = [w \in Workers |-> IdleWorker]
    /\ done' = IF Resume /\ ckpt # NoFile THEN ckpt ELSE {}
    /\ fallback' = FALSE
    /\ cancelled' = FALSE
    /\ failed' = FALSE
    /\ UNCHANGED <<ckpt, registry, faults>>

InPush == main \notin {"off", "ok", "error"}

\* The uploads whose last request is out; any of them may still arrive.
Arriving == {worker[w].blob : w \in {v \in Workers : worker[v].pc \in {"single", "chunked"}}}

\* The process dies.  The requests it had sent may take effect.
Crash ==
    /\ InPush
    /\ Fault
    /\ main' = "off"
    /\ \E late \in SUBSET Arriving :
          blob' = [b \in Blobs |-> IF b \in late THEN "good" ELSE blob[b]]
    /\ \/ UNCHANGED <<held, tag>>
       \/ /\ main = "manifests"
          /\ held' = held \cup {step + 1}
          /\ UNCHANGED tag
       \/ /\ main = "tag"
          /\ tag' = "new"
          /\ UNCHANGED held
    /\ UNCHANGED <<step, fed, closed, queue, worker, done, fallback, cancelled, failed, ckpt, dropped>>

\* The caller's context ends.
CallerCancels ==
    /\ InPush
    /\ ~cancelled
    /\ Fault
    /\ cancelled' = TRUE
    /\ UNCHANGED <<main, step, fed, closed, queue, worker, done, fallback, failed,
                   ckpt, registry>>

-----------------------------------------------------------------------------
(* The feeder of run *)

Feed ==
    /\ main = "upload"
    /\ ~closed
    /\ fed < Len(Tasks)
    /\ LET t == Tasks[fed + 1]
       IN  IF t \in done
           THEN UNCHANGED queue
           ELSE Len(queue) < Jobs /\ queue' = Append(queue, t)
    /\ fed' = fed + 1
    /\ UNCHANGED <<main, step, closed, worker, done, fallback, cancelled, failed,
                   ckpt, registry, faults>>

\* All tasks are out, or the context ended in the select.
FeedStops ==
    /\ main = "upload"
    /\ ~closed
    /\ fed < Len(Tasks) => cancelled /\ Tasks[fed + 1] \notin done
    /\ closed' = TRUE
    /\ UNCHANGED <<main, step, fed, queue, worker, done, fallback, cancelled, failed,
                   ckpt, registry, faults>>

-----------------------------------------------------------------------------
(* A worker: the loop of run, executeBlob, uploadWithRetries, doUpload *)

WorkerAt(w, place) == main = "upload" /\ worker[w].pc = place

GoTo(w, place) == worker' = [worker EXCEPT ![w].pc = place]

\* executeBlob returned an error: cancel the others, report, leave.
WorkerFails(w) ==
    /\ GoTo(w, "left")
    /\ cancelled' = TRUE
    /\ failed' = TRUE

\* range taskCh, and the isDone check of executeBlob.
Receive(w) ==
    /\ WorkerAt(w, "recv")
    /\ \/ /\ queue # <<>>
          /\ queue' = Tail(queue)
          /\ worker' = [worker EXCEPT ![w] =
                IF Head(queue) \in done THEN IdleWorker
                ELSE [pc |-> "head", blob |-> Head(queue), attempt |-> 0]]
       \/ /\ queue = <<>>
          /\ closed
          /\ GoTo(w, "left")
          /\ UNCHANGED queue
    /\ UNCHANGED <<main, step, fed, closed, done, fallback, cancelled, failed,
                   ckpt, registry, faults>>

\* Mutant: any stored blob of that digest is trusted.
HeadTrustsAny(b) == blob[b] # "absent"

\* blobExists and the comparison of the reported size.
HeadTrusts(b) == blob[b] = "good" \/ (blob[b] = "short" /\ ~SizeReported)

HeadBlob(w) ==
    /\ WorkerAt(w, "head")
    /\ ~cancelled
    /\ GoTo(w, IF HeadTrusts(worker[w].blob) THEN "mark"
               ELSE IF fallback THEN "chunked" ELSE "single")
    /\ UNCHANGED <<main, step, fed, closed, queue, done, fallback, cancelled, failed,
                   ckpt, registry, faults>>

HeadFails(w) ==
    /\ WorkerAt(w, "head")
    /\ IF cancelled THEN UNCHANGED faults ELSE Fault
    /\ WorkerFails(w)
    /\ UNCHANGED <<main, step, fed, closed, queue, done, fallback, ckpt, registry>>

Sending(w) == WorkerAt(w, "single") \/ WorkerAt(w, "chunked")

Arrives(w) == blob' = [blob EXCEPT ![worker[w].blob] = "good"]

\* POST, PATCH and PUT went through.
UploadSucceeds(w) ==
    /\ Sending(w)
    /\ ~cancelled
    /\ Arrives(w)
    /\ GoTo(w, "mark")
    /\ UNCHANGED <<main, step, fed, closed, queue, done, fallback, cancelled, failed,
                   ckpt, held, tag, dropped, faults>>

\* 413 on a single request: this blob and the rest of the push are chunked.
UploadTooLarge(w) ==
    /\ WorkerAt(w, "single")
    /\ ~cancelled
    /\ Fault
    /\ fallback' = TRUE
    /\ GoTo(w, "chunked")
    /\ UNCHANGED <<main, step, fed, closed, queue, done, cancelled, failed, ckpt, registry>>

\* The answers an attempt can fail with: the connection broke, 5xx, 429 with and
\* without Retry-After, and any other status (403, 401, a 413 to a chunk).
Answers == {"network", "5xx", "429 after", "429", "refused"}

\* The switch of uploadWithRetries.
Retried(answer) == answer \in {"network", "5xx", "429 after"}

AttemptsLeft(w) == worker[w].attempt < MaxRetries

NextAttempt(w) ==
    [pc |-> IF fallback THEN "chunked" ELSE "single", blob |-> worker[w].blob,
     attempt |-> worker[w].attempt + 1]

UploadFails(w, answer) ==
    /\ Sending(w)
    /\ ~cancelled
    /\ Fault
    /\ UNCHANGED blob \/ (answer \in {"network", "5xx"} /\ Arrives(w))
    /\ IF Retried(answer) /\ AttemptsLeft(w)
       THEN /\ worker' = [worker EXCEPT ![w] = NextAttempt(w)]
            /\ UNCHANGED <<cancelled, failed>>
       ELSE WorkerFails(w)
    /\ UNCHANGED <<main, step, fed, closed, queue, done, fallback, ckpt, held, tag, dropped>>

\* The context ended: the attempt, every retry and every wait return its error.
UploadCancelled(w) ==
    /\ Sending(w)
    /\ cancelled
    /\ UNCHANGED blob \/ Arrives(w)
    /\ WorkerFails(w)
    /\ UNCHANGED <<main, step, fed, closed, queue, done, fallback, ckpt, held, tag, dropped, faults>>

\* markDone: the set in memory and, under ckptMu, a new checkpoint file.
MarkDone(w) ==
    /\ WorkerAt(w, "mark")
    /\ done' = done \cup {worker[w].blob}
    /\ ckpt' = IF Resume THEN done' ELSE ckpt
    /\ worker' = [worker EXCEPT ![w] = IdleWorker]
    /\ UNCHANGED <<main, step, fed, closed, queue, fallback, cancelled, failed, registry, faults>>

\* The checkpoint cannot be written; the file before it is still there.
MarkDoneFails(w) ==
    /\ WorkerAt(w, "mark")
    /\ Resume
    /\ Fault
    /\ done' = done \cup {worker[w].blob}
    /\ WorkerFails(w)
    /\ UNCHANGED <<main, step, fed, closed, queue, fallback, ckpt, registry>>

WorkerSteps(w) ==
    \/ Receive(w) \/ HeadBlob(w) \/ HeadFails(w)
    \/ UploadSucceeds(w) \/ UploadTooLarge(w)
    \/ \E answer \in Answers : UploadFails(w, answer)
    \/ UploadCancelled(w)
    \/ MarkDone(w) \/ MarkDoneFails(w)

-----------------------------------------------------------------------------
(* The main goroutine of run after wg.Wait *)

\* Mutant: the context is not looked at, only errCh.
BlobsPresentIgnoresContext == ~failed

\* No worker failed and the context is alive: every task was executed.
BlobsPresent == ~failed /\ ~cancelled

UploadsOver ==
    /\ main = "upload"
    /\ \A w \in Workers : worker[w].pc = "left"
    /\ main' = IF BlobsPresent THEN "manifests" ELSE "error"
    /\ UNCHANGED <<step, fed, closed, queue, worker, done, fallback, cancelled, failed,
                   ckpt, registry, faults>>

\* publishManifests, one PUT per manifest.
PutManifest ==
    /\ main = "manifests"
    /\ ~cancelled
    /\ held' = held \cup {step + 1}
    /\ IF step + 1 = Index
       THEN main' = "tag" /\ step' = 0
       ELSE step' = step + 1 /\ UNCHANGED main
    /\ UNCHANGED <<fed, closed, queue, worker, done, fallback, cancelled, failed,
                   ckpt, blob, tag, dropped, faults>>

PutManifestFails ==
    /\ main = "manifests"
    /\ IF cancelled THEN UNCHANGED faults ELSE Fault
    /\ UNCHANGED held \/ held' = held \cup {step + 1}
    /\ main' = "error"
    /\ UNCHANGED <<step, fed, closed, queue, worker, done, fallback, cancelled, failed,
                   ckpt, blob, tag, dropped>>

\* putTaggedManifest at the caller's reference.
PutTag ==
    /\ main = "tag"
    /\ ~cancelled
    /\ tag' = "new"
    /\ main' = IF Verify THEN "verify" ELSE "finish"
    /\ UNCHANGED <<step, fed, closed, queue, worker, done, fallback, cancelled, failed,
                   ckpt, blob, held, dropped, faults>>

PutTagFails ==
    /\ main = "tag"
    /\ IF cancelled THEN UNCHANGED faults ELSE Fault
    /\ UNCHANGED tag \/ tag' = "new"
    /\ main' = "error"
    /\ UNCHANGED <<step, fed, closed, queue, worker, done, fallback, cancelled, failed,
                   ckpt, blob, held, dropped>>

\* Mutant: the read-back looks at manifests and tag only.
ReadBackNoBlobs(i) ==
    IF i <= Len(Tasks) THEN TRUE
    ELSE IF i <= Len(Tasks) + Index THEN i - Len(Tasks) \in held
    ELSE tag = "new"

\* What verifyPushed reads in its step-th request: blobs, manifests, the tag.
ReadBack(i) ==
    IF i <= Len(Tasks) THEN HeadTrusts(Tasks[i])
    ELSE IF i <= Len(Tasks) + Index THEN i - Len(Tasks) \in held
    ELSE tag = "new"

Reads == Len(Tasks) + Index + 1

VerifyStep ==
    /\ main = "verify"
    /\ ~cancelled
    /\ IF ~ReadBack(step + 1) THEN main' = "error" /\ UNCHANGED step
       ELSE IF step + 1 = Reads THEN main' = "finish" /\ step' = 0
       ELSE step' = step + 1 /\ UNCHANGED main
    /\ UNCHANGED <<fed, closed, queue, worker, done, fallback, cancelled, failed,
                   ckpt, registry, faults>>

VerifyFails ==
    /\ main = "verify"
    /\ IF cancelled THEN UNCHANGED faults ELSE Fault
    /\ main' = "error"
    /\ UNCHANGED <<step, fed, closed, queue, worker, done, fallback, cancelled, failed,
                   ckpt, registry>>

\* The checkpoint is deleted; failing to is not an error.
Finish ==
    /\ main = "finish"
    /\ main' = "ok"
    /\ \/ ckpt' = NoFile /\ UNCHANGED faults
       \/ Resume /\ Fault /\ UNCHANGED ckpt
    /\ UNCHANGED <<step, fed, closed, queue, worker, done, fallback, cancelled, failed, registry>>

MainSteps ==
    \/ UploadsOver
    \/ PutManifest \/ PutManifestFails
    \/ PutTag \/ PutTagFails
    \/ VerifyStep \/ VerifyFails
    \/ Finish

\* The registry drops a blob that no manifest it holds names.
Collect(b) ==
    /\ Collects
    /\ \A i \in held \ {Index} : b \notin Range(Images[i])
    /\ blob[b] # "absent"
    /\ Fault
    /\ blob' = [blob EXCEPT ![b] = "absent"]
    /\ dropped' = TRUE
    /\ UNCHANGED <<memory, ckpt, held, tag>>

Next ==
    \/ Start \/ Crash \/ CallerCancels
    \/ Feed \/ FeedStops
    \/ \E w \in Workers : WorkerSteps(w)
    \/ MainSteps
    \/ \E b \in Blobs : Collect(b)

Spec == Init /\ [][Next]_vars

\* Goroutines run, requests end, and a push that failed is run again.
FairSpec ==
    /\ Spec
    /\ WF_vars(Start)
    /\ WF_vars(Feed) /\ WF_vars(FeedStops)
    /\ \A w \in Workers : WF_vars(WorkerSteps(w))
    /\ WF_vars(MainSteps)

-----------------------------------------------------------------------------
Complete ==
    /\ \A i \in DOMAIN Images : \A b \in Range(Images[i]) : blob[b] = "good"
    /\ held = Staged

\* "Platform manifests are published before the image index" (docs/registries.md),
\* before any of them all blobs are there, and the tag moves after all of them: what
\* the tag or a digest of this push resolves to can be pulled at any moment, whatever
\* crashed or was resumed, while the registry keeps what it acknowledged.
ManifestsAreClosed ==
    /\ Index \in held \/ tag = "new" => held = Staged
    /\ ~dropped => \A i \in held \ {Index} : \A b \in Range(Images[i]) : blob[b] = "good"

\* "CheckpointStore records which blobs are already on the registry": the file never
\* runs ahead of a registry that keeps them, so a resumed push may skip what it lists.
CheckpointIsConfirmed == ~dropped /\ ckpt # NoFile => \A b \in ckpt : blob[b] = "good"

\* A successful push with the quick read-back has left a complete image under the tag,
\* even if the registry collected blobs that were skipped because it had them or
\* because the checkpoint said so.
OkMeansComplete == main = "ok" => Complete /\ tag = "new"
=============================================================================
