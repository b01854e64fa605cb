# A verification of backimage

backimage turns a directory tree into a backup kept as an OCI image: a tar stream
is cut into chunks, compressed, optionally sealed, packed into at most 118 data
layers and pushed to a registry, from which it is listed, verified, restored and
pruned again. A machine without registry access can send its stream to a server
(`listen-remote`) that runs the pipeline for it.

This directory holds TLA+ models of that program, model-checked with TLC on small
instances, and TLAPS proofs of the properties that matter most for every value of
the models' constants. `PROJECT.json` lists the runs, the mutants that show each
property can fail, the source lines behind every definition, the hazards and the
theorems.

## The system

| Part | Source | Modules | What is hard about it |
|---|---|---|---|
| Archive writer | `pkg/archive/writer.go`, `source.go` | `TarWriter` | the tree changes while it is read |
| Local backup | `pkg/backup/pipeline.go`, `pkg/crypt`, `pkg/chunk` | `LocalBackup` | dedup against an earlier backup, key reuse, files on every path, several backups at once |
| Push engine | `pkg/registry/push.go`, `checkpoint.go` | `RegistryPush` | crash and resume, partial failure, order of manifests |
| Blob writer | `pkg/registry/blob.go` | `BlobUpload`, `ByteSink` | buffer reuse, errors of the background send |
| Token provider and broker | `pkg/registry/token.go`, `transport.go`, `pkg/server/token.go` | `TokenFlow` | expiry between check and use, single flight, a wait only the session can end |
| Remote clients | `pkg/remote/client.go`, `stream.go`, `framebuffer.go` | `RemoteUpload`, `FrameBuffer`, `ByteSink` | lost answers, retry of what was already done |
| Listener | `pkg/server/server.go` | `RemoteUpload` | slots of sessions whose client is gone |
| Session (both protocols) | `pkg/server/session.go`, `session_stream.go` | `Session`, `WireDeadline` | messages out of order, quotas, failed blob writer, deadlines |
| Streaming ingest (protocol v2) | `pkg/server/stream.go`, `scan.go` | `StreamPipeline`, `BackupPromise` | four goroutines, two pipes, an unbuffered channel; failure of any of them at any point |
| Restore cache | `pkg/restore/source.go` | `LayerCache` | eviction against concurrent readers |
| Recovery and read commands | `pkg/recovery`, `pkg/index`, `internal/cli/restore.go`, `read_commands.go` | `Restore` | damage anywhere, partial recovery, what exit 0 promises |
| Extraction | `pkg/archive/extract_unix.go`, `internal/cli/restore.go` | `Extract` | order of directories, links and metadata; refusals |

The parts meet as follows. A client (remote or local) produces a raw archive. In
local mode the build pipeline of `pkg/backup` makes layers and the push engine
uploads them, resuming from a checkpoint. In remote v1 mode the client still makes
the layers and the server's session relays each into a blob writer. In remote v2
mode the server's ingest pipeline makes the layers. All of them end in one step
that moves the reference: the tag. Readers open the image, validate the chunk
table, materialise layers in a cache and walk the chunks, into a tar file or into
the extractor.

## Modules

### Streaming ingest

`StreamPipeline.tla` is the server side of a v2 session. Its variables are the
fields of `streamBuilder`, `ingest` and `runState` that decide anything, the two
directions of the pipe, one control point per goroutine, and the outside world:
the temporary files (`disk`), the blobs of the registry (`registry`) and the
reference (`tag`).

| Goroutine | Code | Actions |
|---|---|---|
| session | `streamData`, `streamEnd`, `fail`, `abort`, `ingest.Write/Finish/Abort` | `StreamData`, `StreamWriteFails`, `StreamEnd`, `SessionFails`, `SessionReturns` |
| builder | `run`, `storeChunk`, `roll`, `drainUploader`, `publish`, the `abort` closure, `cleanup` | `CheckFailure`, `ReadUnit`, `ReadEOF`, `ReadAborted`, `StoreChunk`, `StoreChunkFails`, `Roll`, `RollReturns`, `DrainStart`, `DrainEnd`, `ScanOutcome`, `PublishOk`, `PublishFails`, `AbortScan`, `AbortUploader`, `AbortReturns`, `ClosePipe`, `Cleanup` |
| builder and uploader | the send on `b.pending` | `Handoff` |
| uploader | `startUploader`, `finishLayer`, `upload` | `UploaderCheck`, `BuildLayer`, `HeadLayer`, `PutLayer`, `LayerFails`, `UploaderExit` |
| scanner | `scanArchive` and the drain after it | `ScanStops`, `ScanEnds` |

An action ends where the goroutine can block or where another one can observe it:
`roll` is three (prepare, send, look at the failure), `finishLayer` three (build
the layer file, HEAD, PUT). Data is abstracted to what the properties compare. The
archive is a sequence of units; a chunk is the sequence of its units; its stored
form adds the nonce it was sealed under; a digest is the sequence of stored chunks
it covers, because SHA-256 is taken as injective. So two layers have one digest
exactly when their stored bytes are equal. A unit weighs one byte, before and
after compression; the quotas, the layer boundaries and the fallback boundary are
computed on that weight with the code's own arithmetic. Failures of disk, codec,
scanner and registry are nondeterministic; a failed PUT may have stored its blob
and a failed publication may have moved the reference.

`BackupPromise.tla` is the abstract specification: a client sends a stream and ends
it or goes away, the server publishes at most once and only the ended stream, it
answers once, and a positive answer means the backup is published.
`MCStreamPipeline.tla` maps the pipeline onto it; the published backup is what a
reader gets by concatenating the payloads of the image's layers (`Restored`), the
stream is what the builder has read, and the phase is the state of the pipe's writing end.

`StreamPipelineInv.tla` states the inductive invariant; `StreamPipelineProofs.tla`
proves it, the theorems, and that the pipeline implements the promise.

### Two-buffer writers

`BlobUpload.tla` is the chunked registry upload of `pkg/registry/blob.go`, which the
server uses for the layers of a v1 session; `FrameBuffer.tla` is the sending half of
a v2 client (`framebuffer.go`, `streamWriter`, the `StreamEnd`). Both fill one buffer
while the other is being sent in the background. The buffers are modelled as memory:
a slice is an array and a length, a byte is its position in the stream, and a request
reads its array one byte at a time while the caller goes on, so an array handed out
too early would deliver the wrong bytes. `Write`, `Commit`, `Abort` and `Flush` are
split where they wait for the send. The registry's upload session (location, bytes,
state) and the connection are external; a request may fail before, during or after
it took effect. Both refine `ByteSink.tla`: accepted bytes are delivered in order,
a prefix at any time, all of them before the writer reports success.
`BlobUploadProofs.tla` and `FrameBufferProofs.tla` prove the two refinements.

### Registry push

`RegistryPush.tla` is `pkg/registry/push.go` with `checkpoint.go`: the feeder and the
workers of `run`, `executeBlob` (HEAD, upload, mark), the retry switch of
`uploadWithRetries` with the statuses it tells apart, the 413 fallback, `markDone`
with the checkpoint file, the manifests, the index and the tag one PUT at a time,
and `verifyPushed` one request at a time. A crash keeps only the checkpoint and what
the registry holds, and may let requests that were out take effect; `Start` runs the
push again with the same image. The registry may already hold blobs, good or cut
short, and, with `Collects`, drops blobs that no manifest names; `dropped` records that
it did, since most of what a push promises presumes a registry that keeps what it
acknowledged. Failures, crashes,
cancellations and collections draw on one budget, `MaxFaults`. Left out: progress
reports, tokens (the transport has its own component), rival pushes of the same
reference, and a checkpoint of another reference, which `Push` refuses at once.
The task list is computed by the two loops of `collectTasksBlobs`, as recursive
functions. `RegistryProofs.tla` proves the safety properties.

### Sessions and their deadlines

`Session.tla` is one server session: the handlers of `Session.Run` and `control` in
both protocols, against a client that may send any frame in any state. A handler is
one step, since the loop is its only thread; what it calls succeeds or fails, and a
shutdown may be what makes it fail. `rs.receiver` distinguishes no writer, an open one
and an interface around a nil pointer, and the registry's upload session, the stored
contents and the tag are the outside world. A payload is a length and whether it
continues the declared content; the v2 pipeline is its promise, detailed in
`StreamPipeline`. A handler that did its work and could not send its answer ends like
one whose next read fails.

`WireDeadline.tla` is the same session in time: the deadline the loop sets per frame,
`idleConn.touch` on TCP against a QUIC stream that keeps the deadline it was given,
the heartbeat of a streaming session, the client's keepalives and its own deadline,
back pressure when the connection's window is full, and the keepalive-only rule. A
frame arrives in up to `Pieces` reads (`ReadPart`), since `ReadFrame` reads a header and
then a payload and every partial read passes through `idleConn.Read`. The network is fast compared with the timers, a handler may take for ever, and a client
may vanish; the kernel drops a vanished client at any later time. The model starts
when data flows. `SessionProofs.tla` proves the safety properties of both modules.

### Clients, connections and slots

`RemoteUpload.tla` composes both clients with the server: `withRetries` around
`uploadOnce` or `uploadStreamOnce`, the reader goroutine of a v2 attempt, the
asynchronous failures (keepalive, token refresh) that `handleAux` reports, and on the
other side `Serve` with its slots, one session per attempt, and `releaseConnection`.
Each attempt has its own connection, a queue in each direction that can be cut at any
time, by itself or by the client's close; what was sent before the cut may still
arrive. So a session may be reading, publishing or answering while its client is
already in the next attempt. The handlers of `Session` are one step each here and their refusals
are the two kinds of error a client tells apart, one that a retry may cure
(`Network`) and one that it does not (`Refusal`); an error that is not a
`*remote.Error` (`Plain`) is retried too. The other clients of the server only take and give back slots.
`RemoteUploadProofs.tla` proves what the client believes.

### Tokens

`TokenFlow.tla` is `provider.Get` (its two critical sections and the mint between
them), `Invalidate`, `bearerAuth.RoundTrip`, the client's `provideToken` and
`refreshToken`, the frames that carry tokens, the session loop that reads them, and
`TokenBroker`. In local mode the workers of a push (the `Senders`) share the provider; in remote
mode the server's uploader asks the broker. Time is a tick that shortens every
token's life; tokens may be revoked, and a mint may fail. Waiting on the broker's
channel is being in `asleep`, which `ProvideToken` empties, so a notification that
came before the sleep is lost, as with the code's channels, unless the check and the sleep are under one lock.
`RegistryProofs.tla` has the proofs, beside those of the push that these requests make up.

### Reading a backup

`LayerCache.tla` is `imageSource.materialize` with its cache directory, which every
restore of a user shares without a lock: stat, touch, download into a private file,
rename, prune (list, stat each, remove the oldest), private layers when the cache may not hold
them, and `Close`. Every system call is a step. `Restore.tla` extends it with the
commands: open (image, metadata layer, tables, private part, binding), unlock, index,
and then the plain, the selective and the two partial streams, or `Verify`; `verify
--quick` is over once the backup is open. The archive is a sequence of blocks that knows its entries; a chunk covers some of the
blocks, may be intact, unreadable (`broken`), or altered in a way that only its digest
shows, and lies in a layer. Partial recovery walks each entry twice, as the code
does. `Killed` ends a process with its files left where they are.

### Archiving and extracting

`TarWriter.tla` is the walk of `pkg/archive`: a file system of inodes, in which a
directory maps names to inodes, a handle is an inode, and between any two system
calls somebody else may replace what is under a name. `openVerified`, `list` and the root's open
are steps, `sameEntry` compares inode and device as the code does, a root whose second
handle may not be examined keeps it unchecked (`OpenRoot`), and exclusions, mount points,
unreadable objects, lost metadata and `--allow-degraded` follow `emitOne`, `walkEntry`
and `handleWalkError`. Somebody else may also give a directory the search permission it
lacked (`eased` records it).

`Extract.tla` extends it with `restoreExtract`: the goroutine and the pipe, selection
and `--strip-components`, `createOne` (overwrite, parents, object, metadata in
order), the final pass over the directories, and `strictFidelityError`. Setting an
attribute does what Linux does to the others: changing the owner clears the
set-user-ID bit and the capability, writing into a directory moves its time. Any
operation may be refused. Composed, the two are a backup and its restore.

### Local backup

`LocalBackup.tla` is `backup.Run` from validation to cleanup, by several processes at
once: the search for a dedup base, level, parameters and key inherited from it, the
estimate and `PlanLayers`, spools, sealing, `rollLayer` (digest, then
`NewFileLayer`), the fallback boundary, finalize, the push with its skipped layers or
the output file, quick or full verification. A stored chunk is its plaintext (with
the cut parameters), codec and level, sealed under a key, associated data and a
nonce, which is random or derived; digests are injective. A spool is a file with a
name: a process that opens the name of another's spool truncates it and both write
into it, each at its own offset. `rollLayer` may refuse a layer beyond the limit or fail to
close its spool, and leaves the file in both cases. The estimate may be stale: `grown` units of a source
appear after it. A failure or a crash can come at every step.

## Runs

| Run | States | Checks |
|---|---|---|
| `stream_backup` | 56,342 | `WorkDirBound`, `PipelineInv` (all the conjuncts the proofs use), `KeepsPromise` (refinement of `BackupPromise`), `AnswersEventually` (its liveness) |
| `blob_upload` | 794 | refinement of `ByteSink`, `CallsReturn` |
| `frame_buffer` | 604 | `DeclaredIsSent`, refinement of `ByteSink`, `AttemptEnds` |
| `push_resume` | 87,533 | `ManifestsAreClosed`, `CheckpointIsConfirmed`, `OkMeansComplete`, `ResumeCompletes` |
| `session` | 3,588 | `PublishedVerified`, `NothingOutlives` |
| `wire_tcp` | 273,857 | `LiveSessionKept`, `SilentPeerDropped` |
| `remote_upload` | 55,139 | `OkMeansPublished`, `EndBelieved`, `SlotsFreed`, `UploadReturns` |
| `tokens` | 200,816 | `RetryIsFresh`, `NoLostWakeup`, `RequestReturns` |
| `restore` | 266,261 | `SuccessIsTrue`, `OnlyVerifiedBytes`, `IntactRestores`, `CachedWhole`, `CacheBounded` |
| `archive` | 1,144,380 | `TarIsSound`, `CleanMeansComplete`, `VerdictIsHonest`, `BystandersKept`, `RoundTrip`, `StreamCanEnd` |
| `local_backup` | 539,284 | `PublishedIsDescribed`, `SuccessLeavesNothing`, `SealsAreSafe`, `UnchangedIsSkipped` |
| `spool_shared` | violation | `PublishedIsDescribed` for two backups in one temporary directory |

Ten more configurations each hold one counterexample and are run by hand (see
Findings): `StreamReadable.cfg`, `PushStale.cfg`, `SessionOpen.cfg`,
`SessionShutdown.cfg`, `WireQuic.cfg`, `WireTrickle.cfg`, `RemoteQuota.cfg`,
`RestoreQuick.cfg`, `ArchiveChmod.cfg`, `ArchiveStrip.cfg`.

What some of these say:

* `OkMeansPublished`: a client that reports success was answered by a session that
  moved the tag, and in v1 the registry holds every layer, whichever attempt sent it.
  The tag may still be moved afterwards by the session of an earlier attempt.
* `EndBelieved`: a `BackupEnd` that was read is not turned into a failure by the
  keepalive's error. It holds for the last wait; the wait for the progress of the last
  layer still reports an asynchronous failure first, after which the retry skips
  every layer.
* `NothingOutlives`: a heartbeat has its pipeline, and a pipeline and an upload have a
  running session in the state that owns them, so none is left when `Run` returns. An upload whose DELETE was never sent is not counted as held; `UploadTold` is about those.
* `SilentPeerDropped`: a layer session whose client fell silent in the middle of a frame
  waits one idle window for each piece it got and one more, and one whose client sends
  only keepalives is over within `maxKeepaliveOnly` and the pieces of one more frame.
* `RetryIsFresh`, `NoLostWakeup`: a retry after 401 carries another token than the
  refused one; nobody sleeps while the broker has a token that serves.
* `SuccessIsTrue`: the tar a restore keeps is the records asked for, whole and in
  order, less those a damaged chunk touches, and exit 0 means none was dropped; exit
  0 of verify without `--quick` means that every chunk restores (with it, only that the
  image opens and its metadata layer and tables read). `OnlyVerifiedBytes`: altered bytes are
  written only with `--no-verify` on a clear backup. `IntactRestores`: a lone restore of
  an intact backup with the right credential and no fault on its way succeeds.
* `CachedWhole`, `CacheBounded`: a file under a cache name is complete; with no
  prune under way or cut short the cache is within its size.
* `TarIsSound`: a hard link names an earlier entry of the same inode, and an entry's bytes
  are of the object examined, never of one outside the roots, unless a directory
  that could not be searched becomes searchable during the walk.
  `CleanMeansComplete`: a walk that reports nothing left out archived every name it
  met, files whole and directories first.
* `VerdictIsHonest`, `RoundTrip`: "esito 1:1" is true of the destination when the entries
  keep names of their own under `--strip-components`; backup and
  restore are inverse where nothing interferes. `BystandersKept`: what the archive does
  not name stays.
* `PublishedIsDescribed`: digests, paths and ranges of a published table are those of
  the layers, which hold the source, in at most `MaxDataLayers`.
  `SealsAreSafe`: no two different payloads are sealed under one key and nonce, and no
  key serves two envelope versions. `UnchangedIsSkipped`: a layer with the chunks of a
  layer of the base, under the same settings, is in the registry already, at whatever
  position. `SuccessLeavesNothing`: a run that succeeded has removed its spools and
  layers.

### Bounds

In `stream_backup` the archive has up to five units, the budget is three layers and
every `b` asks for a new one: the content wants more layers than there are, the
reserve is used, the fallback is installed after the first layer and the estimate (1)
is smaller than the stream, which makes the fallback's remainder negative. Three
layers are one in the registry, one being uploaded and one being filled, all the
concurrency the unbuffered hand-off allows. Fixed chunks and layers, the other
strategy of the code, are covered by the proofs, which hold for any set of cuts.

The writers run with buffers of two bytes and writes of up to three: a write can fill
a buffer, swap and go on, the last buffer can be partial, and nine bytes are five
requests, so both arrays are used again twice. The client's quota (5 of 7 bytes) falls
inside a frame. The push has three blobs, one of them shared by two platforms, two
workers, one retry and two faults: a crash can follow a failure, or interrupt the
resumption of a crash.

A session has two contents of one and two bytes, declared sizes up to three, two
layers and a quota of three: a layer can be short, too long, of the right size with
the wrong bytes, skipped, or over the quota. The clock runs with an idle timeout of 6,
keepalives every 3 and a heartbeat every 3, the largest interval
`DeadlineAssumption` allows, and a frame comes in one to three pieces, so one read can
follow another without completing the frame; counters of elapsed time stop at `Cap`, beyond what any
property compares.

`remote_upload` has two attempts, two layers, one slot and one frame: the second
attempt meets the first one's session still holding the only slot, and a layer can be
uploaded by one attempt and skipped by the other. `tokens` has two senders, five
tokens of life two with a margin of one, and one revocation: a token can expire
between check and use, and a mint can follow a mint.

`restore` has four chunks in three layers, of which the cache holds the first alone
or the other two, so materialising evicts; an entry spans two chunks, a hard link
names it, and the trailer shares a chunk with an entry. One command runs over every
damage, or two at once over an intact backup, with one fault.

`archive` has seven objects with a shared inode, a directory closed to its user or
without search permission, a symlink, a second root (fifo, socket, other device, one
more name of a file, or a directory whose file has the name of another), and three
objects to put in their place; either two changes happen under the walk or two operations are refused in
the extraction, into an empty or a populated destination. `local_backup` has two runs
of sources of two to four units, one fault, an image of three data layers at most, a
fallback after two, and a repository that is empty or holds a backup of the current
epoch, of an older one, or with random nonces; one source grows by three units after
the estimate. The target is one byte per layer, so `PlanLayers` both fits a
source at the target and enlarges its layers. `spool_shared` needs no fault.

No run checks deadlock: a writer, push, session, restore or backup that is over stays
so. Waiting for ever is excluded by the liveness properties and by `StreamCanEnd`.

### Fairness

Builder, uploader, scanner and the hand-off are weakly fair: they are
goroutines, and their registry and disk calls return, with an error if not with
success: a broken connection is detected (dial and TLS timeouts, keep-alive), but the
registry's HTTP client puts no deadline on a whole request, so a registry that holds a
connection open and never answers is assumed away. The session is fair only where it is inside a call (`Write`, `Finish`, `Abort`) that can return, and in
not waiting for a frame for ever, which the connection's idle deadline prevents.
In the two-buffer writers calls and requests are fair for the same reason, and the
archiver ends its walk. In `RegistryPush` the goroutines are fair and so is `Start`:
the operator runs a failed push again, which is what resuming means. In
`RemoteUpload` the client's goroutine, its reader and each session are fair, the
network's cuts and the other clients are not; a session whose peer is gone notices it
by its idle deadline. In `TokenFlow` the senders' calls, the broker's timeout and the
clock are fair; the client, the frames and the session loop are not, so a request
returns even if no token ever arrives.

## Findings

`spool_shared`: `newSpool` (`pipeline.go:853`) names a spool by the layer's ordinal
only, in a temporary directory that is `os.TempDir()` unless one is given. Two local
backups on one machine open the same file, truncate it under each other and append to
it; each publishes a table that does not describe its layers, and the quick
verification, which asks the registry for what was pushed, passes. The streaming
pipeline had the same defect and names its spools uniquely since (`CHANGELOG.md:840`).
With a directory of their own (`local_backup`) the backups are right.

Counterexamples kept as configurations to run by hand
(`tlc -config <cfg> <module>`):

* `StreamReadable.cfg` (`MCStreamPipeline`, `PublishedIsReadable`). Two layers of one
  backup with equal stored bytes get the same data path (`stream.go:555`, and
  `pipeline.go:1080` in the local pipeline), and `validateLayers` in
  `pkg/index/limits.go` refuses such a table under a comment that the shape "has never
  been produced": the backup is published with a positive answer and no reader opens it.
* `PushStale.cfg` (`MCRegistryPush`, `ResumeAlwaysCompletes`). A blob that the
  checkpoint lists is skipped without asking the registry (`push.go:353`). If the
  registry collected it in between, the resumed push moves the tag to an image without
  it, fails its read-back and keeps the checkpoint, and so does every further run.
  While the registry keeps what it acknowledged, `push_resume` shows that a rerun completes.
* `SessionOpen.cfg` (`MCSession`, `FailureIsAnswered`). When the registry does not
  start an upload, `RegistrySink.OpenBlob` returns a nil `*BlobUpload` inside a non-nil
  `BlobWriter`, and `fail` calls its `Abort`. The test of this path uses a sink that
  returns a plain nil (`session_test.go:348`).
* `SessionShutdown.cfg` (`MCSession`, `UploadTold`). `Run` defers `abort` so that a
  shutdown releases the registry's upload, and hands it the cancelled context, with
  which the DELETE is not sent.
* `WireQuic.cfg` (`WireDeadline`, `LiveSessionKept`). `docs/remote.md:281-283` says a
  progressing transfer never expires. It holds on TCP for streaming sessions
  (`wire_tcp`, and proved); not on QUIC, where no byte moves the session loop's deadline.
* `WireTrickle.cfg` (`WireDeadline`, `FrameWithinIdle`). A comment of `idleConn`
  (`idleconn.go:32-33`) calls the session loop's deadline per frame authoritative; on TCP
  every partial read of the frame moves it, so a frame is waited for as long as its pieces keep
  coming within the idle timeout.
* `RemoteQuota.cfg` (`RemoteUpload`, `QuotaFailsAtOnce`). `docs/remote.md:327-329` says
  an exceeded quota fails at once; in v1 an estimate over the announced quota is a
  plain error, which `withRetries` retries (`client.go:171`).
* `RestoreQuick.cfg` (`MCRestore`, `QuickReadsIndex`). The help of `verify --quick`
  (`read_commands.go:207-208`) says it validates manifest, index and layer digests; it
  returns before the index is read.
* `ArchiveChmod.cfg` (`MCArchive`, `ContentIsExamined`). When the second handle of a
  directory may not be examined it is kept, since "nothing can be read through" it
  (`source.go:136-139`). If search permission is given afterwards, the walk reads through
  a handle that was never compared with what lstat saw.
* `ArchiveStrip.cfg` (`MCArchive`, `VerdictIsAlwaysHonest`). With `--strip-components`
  and `--overwrite` two entries may get one name; the later one replaces the earlier, a
  link to the first joins the second, and the verdict is still "esito 1:1" (`archive.go:45`).

Met while modelling, and visible in how a property is stated rather than in a run of
its own:

* Ingest. `docs/protocol.md:128` promises at most the layer being assembled in
  `--work-dir`; the code keeps two layers in three files there, as its own comment
  says. `WorkDirBound` is the bound that holds.
* Push. `docs/registries.md:80` and the comment of `uploadWithRetries` say that 429 is
  retried with backoff; the code retries it only when `Retry-After` is present and
  positive (`Retried`). Errors that are no HTTP answer are retried without a pause.
* Deadlines. A layer session has no heartbeat, so a commit that takes longer than the
  idle timeout ends it although the client is there: `LiveSessionKept` is about
  streaming sessions. The heartbeat's writes move the deadline the session loop set,
  so a streaming client that vanished is dropped by the kernel and not by the idle
  timeout: `SilentPeerDropped` is about layer sessions, and its bound grows with the
  pieces of a frame. `maxKeepaliveOnly` counts the
  time a handler took as time without progress (`stale`).
* Clients. A v2 session whose client is gone can still publish, after the retry has
  succeeded. An asynchronous failure that meets the progress of the last layer fails an
  attempt whose backup is being published.
* Tokens. A token without `expires_in` gets a life equal to the safety margin, so every
  `Get` mints. A mint that fails because its caller's context ended fails every caller
  that joined it. A token frame can wait behind data the session loop is not reading,
  which is why the broker's timeout is needed and assumed fair.
* Reading. Another restore's prune can remove a layer between its materialisation and its
  opening, which fails the restore (`IntactRestores` is about a lone one). A killed
  restore leaves its `.layer-*` file, which prune skips. A cached layer of the right
  size with wrong bytes fails every restore until it is removed. A restore with
  `--overwrite` that fails removes the tar that was there.
* Archive. A file that shrinks while it is read fails the backup also with
  `--allow-degraded` (`writer.go:467`). A pattern that excludes a directory but not its
  children archives them without it. Without privileges a file whose mode denies writing
  to its owner loses its attributes, which are set after the mode; it is reported.
* Local backup. A run that fails in build or finalize leaves its files: the deferred
  cleanup comes later (`pipeline.go:427`); so do the refusal of a layer over the limit and
  a failing `Close` in `rollLayer` (`pipeline.go:1058-1068`). `SuccessLeavesNothing` is
  about runs that succeed. `build` returning early leaves the archiving
  goroutine blocked on its pipe. `docs/dedup.md:19-20` ties reuse to the envelope version;
  the code asks the key's attestation (`ReusableFor`).

## Proofs

TLAPS proves, for all constants that satisfy `PipelineAssumption` (sizes and the
layer budget are positive, cuts are units; nothing on how many units are sent or
which), that `PipelineInv` is an inductive invariant of `StreamPipeline`
(`Invariance`), and from it `TypeOK`, `PublishedIsTheStream`,
`PublishedLayersPushed`, `LayerBudgetHolds`, `WorkDirBound`, `NothingLeftBehind`
and the action property `TagMovesOnlyInFinish`.

None of these is inductive alone. `PublishedIsTheStream` says nothing before the
reference moves; what carries it there is

* `StreamInv`: while the builder is on its way to publish, the rows of the chunk
  table tile the stream from unit 0, each starting where the one before ended, and
  the chunk being cut is the rest;
* `ChainInv`: as long as no upload has failed, the uploader's results tile the
  chunk table from chunk 0 up to the layer it holds, that one reaches to the layer
  in the channel, and that one to `nextFrom` (`PendingInv`, `Unclaimed`), and each
  result's digest is that of its range;
* `BuilderInv` and `ChannelInv`: at the control points after the last roll nothing
  is left in the buffer, the spool or the channel, so both tilings reach the end;
* `PushedInv` and `NamedInv`: a recorded result is in the registry, and after
  drainUploader the rows carry the names of the layers that hold them;
* `EndInv`, `SessionInv`, `TagInv`: publish runs only after StreamEnd with the
  uploader gone and no failure, and nothing the image depends on moves afterwards.

`BudgetInv` (what `shouldRoll` leaves in reserve at each control point) gives
`LayerBudgetHolds`, and `DiskInv` (every file in the work directory belongs to the
open spool, the layer in the channel or the layer being uploaded) gives both disk
properties. The proof has a frame lemma per kind of step and, for each part of the
invariant, one step per action that can disturb it.

The properties above that `stream_backup` does not list by name are consequences of
`PipelineInv`, which it does.

`PromiseKept` proves the refinement, `Spec => KeepsPromise`, from `PipelineAssumption` and
`NothingAssumption` (the value that stands for no backup is neither an image nor a
stream). It needs two more facts. `RestoredExact`: what a reader puts together from the
layers is what the builder read. `Restored` is a concatenation of concatenations, and
`StreamInv` and `ChainInv` speak of positions; the bridge is that a sequence of pieces,
each the slice of the stream between two successive positions, joins to the slice between
the first and the last (by induction in first-order form, once for the chunks of a layer
and once for the layers). `AnswerInv`: there is no answer before the session is over, the
writing end of the pipe is closed by then, and a positive outcome comes after the tag moved.
Then each action is a step of the promise or leaves its four variables alone: `ReadUnit`
accepts, `StreamEnd` and the failures of the session end or drop the stream, `PublishOk`
and a `PublishFails` that moved the reference publish, and `SessionReturns` answers.

### The two-buffer writers are byte sinks

For every size of array, every quota and every sequence of writes (`BlobAssumption`,
`FrameAssumption`: sizes are positive), `BlobUploadIsByteSink` and
`FrameBufferIsByteSink` show that the writers implement `ByteSink`; `DeclaredExact` that
`StreamEnd` declares what was sent. Each step of a writer maps to a step of the sink or
to a stutter. What the sink's `Deliver` needs, the next byte in order, is a statement
about memory: the array a request is reading still holds the bytes it held when the
request began. So the invariants (`UploadInv`, `BufferInv`) say, of the one request
that may be running, where in the stream its array starts and that its cells are the
successive positions from there; of the buffer being filled, that it continues where
that array ends and is another array; and of the control points, which of the two the
caller may touch. That `u.spare` is nil or free whenever a call may start a request is
the part that makes it inductive.

### A session publishes what it verified

For every set of contents, all limits and every sequence of frames
(`SessionAssumption`: every content has a size, and junk is none of them),
`SessionInv` is inductive, and gives `PublishedVerified` and `NothingOutlives`. The strengthening says that what the session counts as received is
in the registry under its own digest (also the layer it is about to skip), that a
skipped layer has no upload, and that the tag has not moved while `Run` runs.

In time, `TcpStreamKept` proves `LiveSessionKept` for TCP, for every idle timeout, window
and keepalive rule, from `DeadlineAssumption`: a heartbeat interval of at most half the idle timeout (2 s and
120 s by default). The invariant is that both deadlines lie beyond the next heartbeat:
a heartbeat that does not rearm a deadline found more than half the window left.
`SilenceBounded` proves `SilentPeerDropped` on both transports for every idle timeout of
at most `maxKeepaliveOnly` (120 s and 15 min) and any number of pieces: while the loop
of a layer session waits, the wait and what is left of the deadline add up to at most
one idle timeout for each piece of the frame that arrived and one more
(`Bought(part)`), and a handler that came back in time took less than one.

### A restore tells the truth

For every archive, every cutting of it into chunks and layers, every damage, every
selection, and any number of commands that share one cache, `RestoreProofs` shows
`CachedWhole`, `OnlyVerifiedBytes` and `SuccessIsTrue`. `RestoreAssumption` is what the
readers check before they trust an index: chunks are not empty, the entries' offsets
grow from 0 to the two blocks of the trailer, parents and links are entries, and a
command selects entries. `CacheAssumption` says that a layer has a size.

The streams are loops over offsets, and the promise is about the sequence they leave;
the first half of `RestoreSteps` connects the two. A block lies in exactly one chunk
(`prefix` grows), entries tile the archive, the merged ranges and the ranges per entry
cover exactly the blocks of the entries wanted, in order and apart. `Kept(S)[o]` is what
a tar of the entries `S` has by offset `o`; a range inside an entry of `S` adds its
blocks to it and a gap adds nothing. These are facts about recursive functions, proved
by induction in a first-order form: `Induction` derives, from the well-foundedness of
`<` on the naturals, that a set with 0 and closed under successor has all of `0..N`,
and `LoopExists` that a loop of `N` rounds has a value.

The invariant `RestoreInv` of every command:

* `Placed`: the walk is inside one of its ranges, and the chunk in memory is one
  that opened, and was verified if digests are checked;
* `Written`: the tar is the blocks up to the offset (plain stream), or
  `Kept(Wanted \ skipped)` up to it (selective and partial streams), block for block when
  digests are checked and in length always, since an altered chunk still has its size;
* `Proved`: a partial recovery has dropped exactly the entries behind it that a failed
  chunk touches. This is the delicate one: an entry that was written must not be
  touched by a chunk that fails later. Pass 1 of the next entry starts in the chunk in
  which the last one ended; if that chunk failed now, the entry written from it would
  have to be dropped. It cannot fail: it is still in memory, or pass 1 is
  beyond it (`LastChunk(i) = memo \/ LastChunk(i) < ChunkAt[off]`);
* `Fresh`, `Filed`, `Opened`, `Verified`, `Finished`: what the commands have behind them
  before the walk, and the tar and the verdict after it;
* `CacheWhole`: the file about to be renamed into the cache is complete.

A step of one command keeps the invariant of the others because it changes only its own
entries (`StepLocal`), so the commands are proved one at a time although they race in
the cache.

### A push publishes only what is there

For any images, any number of workers, retries, crashes, cancellations, failed requests
and collections (`PushAssumption`: at least one worker, which `Push` sees to),
`RegistryProofs` shows `ManifestsAreClosed` and `CheckpointIsConfirmed` for a
registry that reports the length of what it holds, and `OkMeansComplete` when the
read-back is on as well. Both conditions are needed: `executeBlob` and `verifyPushed`
accept a blob of unknown length, and without the read-back a blob dropped after its HEAD
is not missed. The parts of the invariant `PushInv`:

* `ConfirmedInv`: what is in `p.done`, in the file, or in the hands of a worker about to
  record it is in the registry, unless the registry dropped something;
* `FeedInv`: while the context lives, every task the feeder has passed is done, in the
  channel or with a worker, and workers leave only a channel that is closed and empty.
  This is what makes `wg.Wait` enough: when all have left and nothing was cancelled, no
  task is in the channel or in hand, so all are done (`DoneInv`);
* `ManifestInv` and `NamedInv`: the manifests up to `step` are held, the tag comes after
  all of them, and what they name is there;
* `ReadBackInv`: the blobs read back so far are there, and stay, because by then every
  digest is named by a manifest the registry holds and can no longer be collected. Here
  it matters that the task list has every digest of every platform (`TasksCover`, by
  induction over the two loops of `collectTasksBlobs`).

### A retry carries another token

For any number of concurrent requests, tokens of any lives, any margin, any window of the
stream and any revocations (`TokenAssumption`: the uploader is a sender, the refresher is
not, and the distinguished tokens are none of those minted), `RetriesAreFresh` and
`NoWakeupLost` show `RetryIsFresh` and `NoLostWakeup`. The invariant `TokenInv`:

* `PlaceInv`: where a request is says what it holds, and with a remote server only the
  refresher asks the provider;
* `OnceInv`: with a remote server a token travels once. One that the refresher holds or
  that is in the stream is new to the broker and to every request, and is in the stream
  once. Without it a token already refused could come out of the stream a second time;
* `FreshInv`: from the 401 on, the refused token is neither what the request holds nor in
  the cache or the broker it asks. `Invalidate` empties the cache whatever it holds (another
  request's newer token goes with the refused one), so what is cached afterwards was
  minted since;
* `StaticInv`: a bearer the user configured, which is not minted and would be the
  same again, is at the broker only after the refresher has ended;
* `NoLostWakeup` is inductive with these: `ProvideToken` empties `asleep` under
  the lock under which a request looks before it sleeps.

### What a remote client believes

For any number of attempts, layers, frames and slots (`UploadAssumption`: at least one
layer and one slot), `OkPublished` and `EndIsBelieved` show `OkMeansPublished` and
`EndBelieved`. The promise is about both ends of a connection, so the parts of the
invariant say what a frame under way means for the registry:

* `EndInv`: a session that published, a `BackupEnd` in a stream, and a client that read one
  each mean that this attempt moved the tag;
* `StreamInv`: a v2 session publishes only after the `StreamEnd`, for which the client has
  stopped sending;
* `HeldInv`: in v1 a `LayerStart` means that the layers before it are in the registry, a
  `LayerEnd` of a skipped layer and an acknowledgement of one that the layer is, whichever
  attempt brought it there;
* `TalkInv`: a v1 client speaks again only when it was answered. At most one question
  is under way, what the server sends answers it, and a session publishes
  only after the last layer, when it holds all of them;
* `FutureInv`: an attempt to come has no connection, so no late frame of an earlier
  attempt is taken for one of its own.

### Left to TLC

Liveness (fairness and `ENABLED` are outside the prover's reach): `AnswersEventually`,
`CallsReturn`, `AttemptEnds`, `ResumeCompletes`, `SlotsFreed`, `UploadReturns`,
`RequestReturns`. `CacheBounded` adds up the sizes of a set of
files, for which the library has no theorems. `IntactRestores` speaks of a command that
no other and no fault meets: it needs a second invariant of its own. The properties of
`TarWriter`, `Extract` and `LocalBackup` have no proofs: the walk over a tree of inodes and
the reconstruction of one are recursions over data, and `StreamCanEnd` is an `ENABLED`.

## Not modelled

* Retention and prune: what a deletion removes with it (by digest or by tag, shared
  manifests, referrers) is the registry's decision and not in this repository; the
  selection itself is a pure filter over dates.
* Codecs and cryptography: pure transforms. Only what the properties compare is kept:
  codec and level as part of the stored bytes, key, associated data and nonce of a
  seal, and the outcomes of opening one.
* The wire format: framing and validation of single messages, generated protobuf code.
  Messages are model values.
* The rolling hash of content-defined chunking: where it cuts is a choice of units.
* Flag parsing, prompts, output, progress, metrics and the JSON reports; the
  self-extracting binary, which is a command line over the recovery reader; restores
  to standard output.
* Platform variants other than Linux; devices (only fifos and sockets stand for special
  files), sparse files and more than one extended attribute; inode reuse under the walk,
  and symlinked directories that were in the destination before.
* Dialing, certificates and credential lookup: configuration before any state exists.
