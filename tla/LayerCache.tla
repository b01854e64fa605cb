------------------------------ MODULE LayerCache ------------------------------
(***************************************************************************)
(* The layer cache of a restore (pkg/restore/source.go).                   *)
(*                                                                         *)
(* A chunk is a range of a data layer, so reading one first materialises   *)
(* its layer as a file.  Every restore of a user shares one directory,     *)
(* <user cache>/backimage/layers, whose files are named by layer digest;   *)
(* no lock protects it.  A layer is built in a private temporary file      *)
(* (".layer-*"), renamed into place when it is complete, and the directory *)
(* is then pruned to --cache-size, oldest first.  A layer the policy       *)
(* refuses stays in the private file: at most EphemeralLayerCap of them,   *)
(* least recently used first out.                                          *)
(*                                                                         *)
(* Files are their number of bytes.  The calls that another restore can    *)
(* come between (stat, utimes, rename, readdir, the stats of the listed    *)
(* names, each unlink, open) are steps of their own.  A restore is used by *)
(* one reader at a time, so imageSource.mu is never contended.             *)
(***************************************************************************)
EXTENDS Integers, Sequences, FiniteSets, FiniteSetsExt

CONSTANTS
    Procs,              \* restores that share the cache directory
    Layers,             \* data layers of the image, by digest
    StoredBytes,        \* LayerInfo.StoredBytes: the size of each layer
    CacheSize,          \* --cache-size, in the same unit
    EphemeralLayerCap,  \* ephemeralLayerCap, 4 in the code
    MaxFaults           \* downloads that may fail in one behaviour

ASSUME CacheAssumption ==
    /\ IsFiniteSet(Procs) /\ IsFiniteSet(Layers)
    /\ StoredBytes \in [Layers -> Nat \ {0}]
    /\ CacheSize \in Nat /\ EphemeralLayerCap \in Nat \ {0} /\ MaxFaults \in Nat

VARIABLES
    cached,     \* bytes of the file under each layer's cache name, or NoFile
    age,        \* the cached layers by modification time, oldest first
    tmp,        \* bytes of the temporary file a restore is building, or NoFile
    recent,     \* imageSource.recent: the ephemeral layers, least recent first
    caching,    \* whether the restore was given a --cache-size other than 0
    task,       \* where each restore is inside Blob
    faults,     \* failed downloads so far
    unpruned    \* some rename was never followed by a complete prune

cacheVars == <<cached, age, tmp, recent, caching, task, faults, unpruned>>

NoFile == -1
Idle == [at |-> "idle"]

At(p, where, l) == task' = [task EXCEPT ![p] = [at |-> where, layer |-> l]]
Whole(l) == StoredBytes[l]
Without(s, l) == SelectSeq(s, LAMBDA x : x # l)
Present == {l \in Layers : cached[l] # NoFile}

\* What prune counts: every file of the directory that is not a temporary.
CacheBytes == SumFunctionOnSet(cached, Present)

Pruning(p) == task[p].at \in {"list", "info", "evict"}

\* The directory an earlier restore left: whole layers, within its size.
CacheInit ==
    \E before \in SUBSET Layers :
        /\ SumFunctionOnSet(StoredBytes, before) =< CacheSize
        /\ cached = [l \in Layers |-> IF l \in before THEN Whole(l) ELSE NoFile]
        /\ age \in {s \in [1 .. Cardinality(before) -> before] : Range(s) = before}
        /\ tmp = [p \in Procs |-> NoFile]
        /\ recent = [p \in Procs |-> <<>>]
        /\ caching \in [Procs -> BOOLEAN]
        /\ task = [p \in Procs |-> Idle]
        /\ faults = 0 /\ unpruned = FALSE

-----------------------------------------------------------------------------
\* Blob calls materialize: a layer this restore holds privately is used as it
\* is and becomes the most recent one, any other is looked up in the directory.
Materialize(p, l) ==
    /\ task[p].at = "idle"
    /\ \/ /\ l \in Range(recent[p])
          /\ recent' = [recent EXCEPT ![p] = Append(Without(@, l), l)]
          /\ At(p, "ready", l)
       \/ /\ l \notin Range(recent[p])
          /\ At(p, "stat", l)
          /\ UNCHANGED recent
    /\ UNCHANGED <<cached, age, tmp, caching, faults, unpruned>>

\* A file of the right size is a hit.  One of another size is removed and the
\* layer is built again, in a temporary file.
Stat(p) ==
    LET l == task[p].layer IN
    /\ task[p].at = "stat"
    /\ IF cached[l] = Whole(l)
       THEN At(p, "touch", l) /\ UNCHANGED <<cached, age, tmp>>
       ELSE /\ At(p, "copy", l)
            /\ cached' = [cached EXCEPT ![l] = NoFile]
            /\ age' = Without(age, l)
            /\ tmp' = [tmp EXCEPT ![p] = 0]
    /\ UNCHANGED <<recent, caching, faults, unpruned>>

\* os.Chtimes on a hit fails when another restore has evicted the file since.
Touch(p) ==
    LET l == task[p].layer IN
    /\ task[p].at = "touch"
    /\ IF l \in Present
       THEN At(p, "open", l) /\ age' = Append(Without(age, l), l)
       ELSE At(p, "failed", l) /\ UNCHANGED age
    /\ UNCHANGED <<cached, tmp, recent, caching, faults, unpruned>>

\* Mutant: the layer is written under its cache name from the first byte.
CopyInPlace(p) ==
    LET l == task[p].layer IN
    /\ task[p].at = "copy"
    /\ IF cached[l] = NoFile
       THEN /\ cached' = [cached EXCEPT ![l] = 0] /\ age' = Append(age, l)
            /\ UNCHANGED <<tmp, task>>
       ELSE /\ cached' = [cached EXCEPT ![l] = Whole(l)] /\ UNCHANGED age
            /\ tmp' = [tmp EXCEPT ![p] = Whole(l)] /\ At(p, "keep", l)
    /\ UNCHANGED <<recent, caching, faults, unpruned>>

\* The layer is downloaded, decoded and copied; the file is synced and closed.
\* A failure anywhere on the way removes the temporary file.
Copy(p) ==
    LET l == task[p].layer IN
    /\ task[p].at = "copy"
    /\ \/ /\ tmp' = [tmp EXCEPT ![p] = Whole(l)]
          /\ At(p, "keep", l)
          /\ UNCHANGED faults
       \/ /\ faults < MaxFaults
          /\ faults' = faults + 1
          /\ tmp' = [tmp EXCEPT ![p] = NoFile]
          /\ At(p, "failed", l)
    /\ UNCHANGED <<cached, age, recent, caching, unpruned>>

\* keepEphemeral: the file stays private; the least recent ones beyond the cap
\* are removed.
KeepEphemeral(p) ==
    LET l == task[p].layer
        kept == Append(recent[p], l)
        over == Max({0, Len(kept) - EphemeralLayerCap}) IN
    /\ task[p].at = "keep"
    /\ ~caching[p] \/ tmp[p] > CacheSize
    /\ recent' = [recent EXCEPT ![p] = SubSeq(kept, over + 1, Len(kept))]
    /\ tmp' = [tmp EXCEPT ![p] = NoFile]
    /\ At(p, "ready", l)
    /\ UNCHANGED <<cached, age, caching, faults, unpruned>>

\* The complete file takes its cache name.
Rename(p) ==
    LET l == task[p].layer IN
    /\ task[p].at = "keep"
    /\ caching[p] /\ tmp[p] =< CacheSize
    /\ cached' = [cached EXCEPT ![l] = tmp[p]]
    /\ age' = Append(Without(age, l), l)
    /\ tmp' = [tmp EXCEPT ![p] = NoFile]
    /\ At(p, "list", l)
    /\ UNCHANGED <<recent, caching, faults, unpruned>>

-----------------------------------------------------------------------------
\* Mutant: the layer just renamed is left out of what is counted.
ReadDirOthers(p) ==
    /\ task[p].at = "list"
    /\ task' = [task EXCEPT ![p] = [at |-> "info", layer |-> @.layer,
                                   names |-> Present \ {@.layer}]]
    /\ UNCHANGED <<cached, age, tmp, recent, caching, faults, unpruned>>

\* prune: the directory is listed first,
ReadDir(p) ==
    /\ task[p].at = "list"
    /\ task' = [task EXCEPT ![p] = [at |-> "info", layer |-> @.layer, names |-> Present]]
    /\ UNCHANGED <<cached, age, tmp, recent, caching, faults, unpruned>>

\* then the listed names are statted, one after the other: one that is gone
\* fails the prune, and with it the restore.  The sizes and the order by
\* modification time are what they were here.
Info(p) ==
    LET names == task[p].names
        l == task[p].layer IN
    /\ task[p].at = "info"
    /\ IF names \subseteq Present
       THEN /\ task' = [task EXCEPT ![p] =
                          [at |-> "evict", layer |-> l,
                           files |-> SelectSeq(age, LAMBDA x : x \in names),
                           total |-> SumFunctionOnSet(cached, names)]]
            /\ UNCHANGED unpruned
       ELSE At(p, "failed", l) /\ unpruned' = TRUE
    /\ UNCHANGED <<cached, age, tmp, recent, caching, faults>>

\* then the oldest are removed, one at a time, until the listed total fits.
\* The layer just renamed is spared, and a file already gone counts as removed.
Evict(p) ==
    LET t == task[p] IN
    /\ t.at = "evict"
    /\ IF t.total =< CacheSize \/ t.files = <<>>
       THEN At(p, "open", t.layer) /\ UNCHANGED <<cached, age>>
       ELSE LET f == Head(t.files)
                gone == f # t.layer IN
            /\ cached' = IF gone THEN [cached EXCEPT ![f] = NoFile] ELSE cached
            /\ age' = IF gone THEN Without(age, f) ELSE age
            /\ task' = [task EXCEPT ![p] =
                          [at |-> "evict", layer |-> t.layer, files |-> Tail(t.files),
                           total |-> IF gone THEN t.total - Whole(f) ELSE t.total]]
    /\ UNCHANGED <<tmp, recent, caching, faults, unpruned>>

\* Blob opens the path materialize returned: another restore may have evicted
\* the file in between.  Once open, the bytes can be read even if it is removed.
OpenFile(p) ==
    LET l == task[p].layer IN
    /\ task[p].at = "open"
    /\ At(p, IF cached[l] = Whole(l) THEN "ready" ELSE "failed", l)
    /\ UNCHANGED <<cached, age, tmp, recent, caching, faults, unpruned>>

CacheStep(p) ==
    \/ Stat(p) \/ Touch(p) \/ Copy(p) \/ KeepEphemeral(p) \/ Rename(p)
    \/ ReadDir(p) \/ Info(p) \/ Evict(p) \/ OpenFile(p)

\* The reader takes what Blob returned.
BlobReturned(p) == task' = [task EXCEPT ![p] = Idle]

\* imageSource.Close removes the private files.
CloseSource(p) == recent' = [recent EXCEPT ![p] = <<>>]

-----------------------------------------------------------------------------
(* A cache name never holds part of a layer, at whatever point a restore   *)
(* that was building it died: materialize copies into a temporary file and *)
(* renames it only when it is complete.                                    *)
CachedWhole == \A l \in Present : cached[l] = Whole(l)

(* --cache-size really bounds the cache: with no prune under way, the      *)
(* files other restores listed and removed concurrently included, and      *)
(* unless a restore died or failed before its prune, the directory holds   *)
(* at most CacheSize bytes of layers.                                      *)
CacheBounded ==
    (~unpruned /\ \A p \in Procs : ~Pruning(p)) => CacheBytes =< CacheSize
=============================================================================
