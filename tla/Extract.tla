------------------------------ MODULE Extract ------------------------------
(***************************************************************************)
(* The extractor of pkg/archive (extract_unix.go, selection.go) and the    *)
(* part of internal/cli/restore.go that feeds it (restoreExtract): a       *)
(* goroutine writes the archive into a pipe, the extractor reads it entry  *)
(* by entry and materialises it under the destination.                     *)
(*                                                                         *)
(* The archive is what TarWriter produced.  The destination is a map from  *)
(* names to objects, so two names of one object are a hard link.  Any      *)
(* operation on it may be refused; what Linux does to the attributes of an *)
(* object when one of them is set is modelled in Applied.                  *)
(***************************************************************************)
EXTENDS TarWriter

CONSTANTS
    MaxRefusals,    \* bound on what the destination refuses
    MaxObjects      \* bound on the objects of the destination

VARIABLES
    xopts,          \* [strict, overwrite, owner, priv, strip, drop]
    xpc,            \* what restoreExtract does next
    sent,           \* entries the pipe has carried
    stream,         \* the goroutine: "off", "writing", "ok" or "err"
    closed,         \* restoreExtract closed the reading end
    dest,           \* name -> object
    obj,            \* object -> [kind, data, owner, mode, suid, cap, shut, mtime]
    materialised,   \* names of the regular files this run has written
    fixes,          \* dirFixes: [name, k], for the final pass
    xstats,         \* [skipped, degraded]
    refusals,       \* how much of MaxRefusals is used
    before,         \* history: the names of the destination before the run
    result          \* "", "ok", "fidelity" or "failed"

extractVars == <<xopts, xpc, sent, stream, closed, dest, obj, materialised, fixes,
                 xstats, refusals, before, result>>

-----------------------------------------------------------------------------
(* Selection *)

(* stripComponents: what is left of a path, <<>> when nothing is. *)
Stripped(p) == SubSeq(p, xopts.strip + 1, Len(p))

Selected(k) == tar[k].path \notin xopts.drop /\ Stripped(tar[k].path) # <<>>

-----------------------------------------------------------------------------
(* The destination: fs is [dest, obj, mat], mat being materialised.        *)
(* Attributes are the inode they were archived from, 0 for what the object *)
(* was created with.                                                       *)

FS == [dest |-> dest, obj |-> obj, mat |-> materialised]

Parents(n) == {SubSeq(n, 1, j) : j \in 1..(Len(n) - 1)}

Below(fs, n) == {m \in DOMAIN fs.dest : IsPrefix(n, m)}

Is(fs, n, kind) == n \in DOMAIN fs.dest /\ fs.obj[fs.dest[n]].kind = kind

(* May names be created in, or removed from, the directory of n? *)
Writable(fs, n) ==
    xopts.priv \/ \A p \in Parents(n) \intersect DOMAIN fs.dest : ~fs.obj[fs.dest[p]].shut

(* Adding or removing a name changes the mtime of its directory. *)
Touched(fs, n) ==
    IF Len(n) > 1 /\ Front(n) \in DOMAIN fs.dest
    THEN [fs EXCEPT !.obj[fs.dest[Front(n)]].mtime = 0] ELSE fs

Bind(fs, n, o) == Touched([fs EXCEPT !.dest = (n :> o) @@ @], n)

Removed(fs, names, n) ==
    Touched([fs EXCEPT !.dest = [m \in DOMAIN @ \ names |-> @[m]], !.mat = @ \ {n}], n)

FreeObject(fs) == Min((1..MaxObjects) \ Range(fs.dest))

Created(kind, data) == [kind |-> kind, data |-> data, owner |-> 0, mode |-> 0, suid |-> FALSE,
                        cap |-> FALSE, shut |-> FALSE, mtime |-> 0]

Create(fs, n, kind, data) ==
    LET o == FreeObject(fs) IN
    Bind([fs EXCEPT !.obj[o] = Created(kind, data)], n, o)

(* MkdirAll of the parents: the missing ones, outermost first. *)
MkdirAll(fs, n) ==
    FoldLeft(LAMBDA f, j : IF SubSeq(n, 1, j) \in DOMAIN f.dest THEN f
                           ELSE Create(f, SubSeq(n, 1, j), "dir", <<>>),
             fs, [j \in 1..(Len(n) - 1) |-> j])

-----------------------------------------------------------------------------
(* Metadata *)

(* Mutant: ownership last, as in a careless reading of "metadata". *)
OpsOwnerLast(e) == (IF e.kind \in {"symlink", "dir"} THEN <<>> ELSE <<"mode">>)
          \o (IF e.cap THEN <<"xattr">> ELSE <<>>)
          \o (IF xopts.owner THEN <<"owner">> ELSE <<>>)
          \o <<"times">>

(* The per-entry operations, in the order createOne makes them. *)
Ops(e) == (IF xopts.owner THEN <<"owner">> ELSE <<>>)
          \o (IF e.kind \in {"symlink", "dir"} THEN <<>> ELSE <<"mode">>)
          \o (IF e.cap THEN <<"xattr">> ELSE <<>>)
          \o <<"times">>

(* What Linux does: chown clears setuid and security.capability of what is *)
(* not a directory.                                                        *)
Applied(o, op, e) ==
    CASE op = "owner" -> [o EXCEPT !.owner = e.ino,
                                   !.suid = @ /\ o.kind = "dir", !.cap = @ /\ o.kind = "dir"]
      [] op = "mode"  -> [o EXCEPT !.mode = e.ino, !.suid = e.suid, !.shut = e.shut]
      [] op = "xattr" -> [o EXCEPT !.cap = e.cap]
      [] op = "times" -> [o EXCEPT !.mtime = e.ino]

Unopenable(e, op) == op = "xattr" /\ e.kind \notin {"file", "dir", "hardlink"}

(* degrade, and tolerateXattr: a refused operation is counted; in strict   *)
(* mode it aborts, unless the attribute could not have been kept at all.   *)
Metadata(o, e, refused, tolerated) ==
    FoldLeft(LAMBDA m, op :
               IF m.abort THEN m
               ELSE IF Unopenable(e, op) THEN [m EXCEPT !.noted = @ \union {op}]
               ELSE IF op \in refused
               THEN IF xopts.strict /\ ~(op = "xattr" /\ tolerated)
                    THEN [m EXCEPT !.abort = TRUE] ELSE [m EXCEPT !.noted = @ \union {op}]
               ELSE [m EXCEPT !.o = Applied(@, op, e)],
             [o |-> o, noted |-> {}, abort |-> FALSE], Ops(e))

(* Without privileges ownership and security attributes are always refused. *)
Denied(e) == IF xopts.priv THEN {} ELSE {"owner", "xattr"} \intersect ToSet(Ops(e))

-----------------------------------------------------------------------------
(* createOne *)

Good(fs, noted) == [fs |-> fs, err |-> "", noted |-> noted]
Error(fs, why) == [fs |-> fs, err |-> why, noted |-> {}]

(* Mutant: a directory in the way is replaced like anything else. *)
OverwriteReplaces(fs, e, n, fails) ==
    IF \E p \in Parents(n) \intersect DOMAIN fs.dest : ~Is(fs, p, "dir") THEN Error(fs, "skip")
    ELSE IF n \notin DOMAIN fs.dest THEN Good(fs, {})
    ELSE IF ~xopts.overwrite THEN Error(fs, "fatal")
    ELSE IF fails \/ ~Writable(fs, n) THEN Error(fs, "skip")
    ELSE Good(Removed(fs, Below(fs, n), n), {})

(* What is there already, and what --overwrite does with it. *)
Overwrite(fs, e, n, fails) ==
    IF \E p \in Parents(n) \intersect DOMAIN fs.dest : ~Is(fs, p, "dir") THEN Error(fs, "skip")
    ELSE IF n \notin DOMAIN fs.dest THEN Good(fs, {})
    ELSE IF ~xopts.overwrite THEN Error(fs, "fatal")
    ELSE IF Is(fs, n, "dir") /\ e.kind = "dir" THEN Good(fs, {})
    ELSE IF fails \/ ~Writable(fs, n) THEN Error(fs, "skip")
    ELSE Good(Removed(fs, Below(fs, n), n), {})

Data(e) == IF e.kind = "file" THEN <<e.ino, e.got>> ELSE e.link

(* Mutant: a link is made to whatever sits under the name. *)
MaterialiseAny(fs, e, n, refuse) ==
    LET t == Stripped(e.link) IN
    CASE refuse # "" -> Error(fs, "skip")
      [] OTHER ->
         IF e.kind = "dir" /\ n \in DOMAIN fs.dest THEN Good(fs, {})
         ELSE IF e.kind # "hardlink" THEN Good(Create(fs, n, e.kind, Data(e)), {})
         ELSE IF t \notin DOMAIN fs.dest THEN Error(fs, "skip")
         ELSE Good(Bind(fs, n, fs.dest[t]), {})

(* The object itself.  A hard link names a file this run has written; when *)
(* it cannot be linked it becomes a copy.                                  *)
Materialise(fs, e, n, refuse) ==
    LET t == Stripped(e.link)
        barred == refuse = "create" \/ (~Writable(fs, n) /\ n \notin DOMAIN fs.dest) IN
    CASE refuse = "fatal" -> Error(fs, "fatal")
      [] refuse # "fatal" /\ barred -> Error(fs, "skip")
      [] refuse = "write" /\ ~barred ->
         IF e.kind = "file" THEN Error(Create(fs, n, "file", <<>>), "skip") ELSE Error(fs, "skip")
      [] OTHER ->
         IF e.kind = "dir" /\ n \in DOMAIN fs.dest THEN Good(fs, {})
         ELSE IF e.kind # "hardlink" THEN Good(Create(fs, n, e.kind, Data(e)), {})
         ELSE IF t \notin fs.mat \/ t \notin DOMAIN fs.dest THEN Error(fs, "skip")
         ELSE IF refuse # "link" THEN Good(Bind(fs, n, fs.dest[t]), {})
         ELSE LET copy == Create(fs, n, "file", fs.obj[fs.dest[t]].data) IN
              IF xopts.strict THEN Error(copy, "skip") ELSE Good(copy, {"hardlink"})

(* Overwrite, parents, object, metadata: stops at the first that fails. *)
CreateOne(e, n, refuse, refused, tolerated) ==
    LET a == Overwrite(FS, e, n, refuse = "remove") IN
    IF a.err # "" THEN a
    ELSE IF ~Writable(a.fs, n) /\ \E p \in Parents(n) : p \notin DOMAIN a.fs.dest
    THEN Error(a.fs, "skip")
    ELSE LET b == Materialise(MkdirAll(a.fs, n), e, n, refuse) IN
         IF b.err # "" THEN b
         ELSE LET o == b.fs.dest[n]
                  m == Metadata(b.fs.obj[o], e, refused \union Denied(e), tolerated)
                  fs == [b.fs EXCEPT !.obj[o] = m.o] IN
              IF m.abort THEN Error(fs, "fatal") ELSE Good(fs, b.noted \union m.noted)

(* What the destination may still refuse of entry e. *)
Faults(e) ==
    LET left == MaxRefusals - refusals
        Fault(r, ops, t) == [refuse |-> r, refused |-> ops, tolerated |-> t,
                             cost |-> Cardinality(ops) + (IF r = "" THEN 0 ELSE 1)] IN
    IF left = 0 THEN {Fault("", {}, FALSE)}
    ELSE {f \in {Fault(r, ops, t) : r \in {"", "remove", "create", "write", "link", "fatal"},
                                    ops \in SUBSET ToSet(Ops(e)), t \in BOOLEAN} :
            f.cost <= left /\ (f.tolerated => "xattr" \in f.refused)}

-----------------------------------------------------------------------------
(* restoreExtract *)

(* PreflightRestore: ownership cannot be restored without privileges. *)
Blocked == xopts.owner /\ xopts.strict /\ ~xopts.priv

(* The destination and the privileges are checked first. *)
Start ==
    /\ xpc = "start" /\ wpc = "closed"
    /\ IF (~xopts.overwrite /\ dest # <<>>) \/ Blocked
       THEN xpc' = "end" /\ result' = "failed" /\ UNCHANGED stream
       ELSE xpc' = "next" /\ stream' = "writing" /\ UNCHANGED result
    /\ UNCHANGED <<xopts, sent, closed, dest, obj, materialised, fixes, xstats, refusals, before>>

(* Mutant: the pipe is left open behind an extraction that failed. *)
AbortLeavesPipe == xpc' = "join" /\ result' = "failed" /\ closed' = FALSE

(* Extract returns with an error: the reading end is closed with it. *)
Abort == xpc' = "join" /\ result' = "failed" /\ closed' = TRUE

(* One entry: passed over, created, or failed. *)
NextEntry ==
    /\ xpc = "next" /\ stream = "writing" /\ sent < Len(tar)
    /\ sent' = sent + 1
    /\ UNCHANGED <<xopts, stream, before>>
    /\ LET k == sent + 1
           e == tar[k]
           n == Stripped(e.path) IN
       IF ~Selected(k)
       THEN UNCHANGED <<xpc, closed, dest, obj, materialised, fixes, xstats, refusals, result>>
       ELSE IF e.kind = "hardlink" /\ Stripped(e.link) = <<>>
       THEN /\ UNCHANGED <<dest, obj, materialised, fixes, refusals>>
            /\ IF xopts.strict THEN Abort /\ UNCHANGED xstats
               ELSE /\ xstats' = [skipped |-> xstats.skipped + 1,
                                  degraded |-> xstats.degraded \union {"object"}]
                    /\ UNCHANGED <<xpc, closed, result>>
       ELSE \E c \in {[did |-> CreateOne(e, n, f.refuse, f.refused, f.tolerated), cost |-> f.cost] :
                     f \in Faults(e)} :
            /\ refusals' = refusals + c.cost
            /\ dest' = c.did.fs.dest /\ obj' = c.did.fs.obj
            /\ materialised' = IF c.did.err = "" /\ e.kind \in {"file", "hardlink"}
                               THEN c.did.fs.mat \union {n} ELSE c.did.fs.mat
            /\ IF c.did.err = "fatal" \/ (c.did.err # "" /\ xopts.strict)
               THEN Abort /\ UNCHANGED <<fixes, xstats>>
               ELSE /\ UNCHANGED <<xpc, closed, result>>
                    /\ fixes' = IF c.did.err = "" /\ e.kind = "dir"
                                THEN fixes \union {[name |-> n, k |-> k]} ELSE fixes
                    /\ xstats' = IF c.did.err # ""
                                 THEN [skipped |-> xstats.skipped + 1,
                                       degraded |-> xstats.degraded \union {"object"}]
                                 ELSE [xstats EXCEPT !.degraded = @ \union c.did.noted]

(* The writing end was closed with an error: the tar reader reports it, in *)
(* a header, or in the middle of a file it leaves half written.            *)
ReadFails ==
    /\ xpc = "next" /\ stream = "err"
    /\ Abort
    /\ \/ UNCHANGED <<dest, obj>>
       \/ /\ sent < Len(tar) /\ Selected(sent + 1) /\ tar[sent + 1].kind = "file"
          /\ LET n == Stripped(tar[sent + 1].path)
                 a == Overwrite(FS, tar[sent + 1], n, FALSE) IN
             /\ a.err = "" /\ Writable(a.fs, n)
             /\ dest' = Create(MkdirAll(a.fs, n), n, "file", <<>>).dest
             /\ obj' = Create(MkdirAll(a.fs, n), n, "file", <<>>).obj
    /\ UNCHANGED <<xopts, sent, stream, materialised, fixes, xstats, refusals, before>>

(* The trailer was read: on to the directories. *)
Trailer ==
    /\ xpc = "next" /\ sent = Len(tar)
    /\ xpc' = "fix"
    /\ UNCHANGED <<xopts, sent, stream, closed, dest, obj, materialised, fixes, xstats, refusals,
                   before, result>>

(* ctx.Err() between two entries. *)
Interrupted ==
    /\ xpc = "next" /\ refusals < MaxRefusals /\ Abort
    /\ refusals' = refusals + 1
    /\ UNCHANGED <<xopts, sent, stream, dest, obj, materialised, fixes, xstats, before>>

(* Mutant: outermost first. *)
FixNowTopDown(d) == ~\E c \in fixes : c # d /\ IsStrictPrefix(c.name, d.name)

(* The final pass takes longer names first, hence a directory after those  *)
(* below it; names of one length come in any order.                        *)
FixNow(d) == ~\E c \in fixes : c # d /\ IsStrictPrefix(d.name, c.name)

(* Mode and times of a directory, once everything in it is written.  Both  *)
(* reach it through its parents.                                           *)
FixDir ==
    /\ xpc = "fix"
    /\ \E d \in fixes, refused \in SUBSET {"mode", "times"} :
         LET all == IF d.name \in DOMAIN dest /\ Writable(FS, d.name)
                    THEN refused ELSE {"mode", "times"}
             e == tar[d.k]
             o == IF d.name \in DOMAIN dest THEN dest[d.name] ELSE 1
             m == IF "mode" \in all THEN obj[o] ELSE Applied(obj[o], "mode", e) IN
         /\ FixNow(d)
         /\ refusals + Cardinality(refused) <= MaxRefusals
         /\ refusals' = refusals + Cardinality(refused)
         /\ fixes' = fixes \ {d}
         /\ IF xopts.strict /\ all # {}
            THEN /\ Abort /\ UNCHANGED xstats
                 /\ obj' = [obj EXCEPT ![o] = m]
            ELSE /\ xstats' = [xstats EXCEPT !.degraded = @ \union all]
                 /\ obj' = [obj EXCEPT ![o] = IF "times" \in all THEN m ELSE Applied(m, "times", e)]
                 /\ UNCHANGED <<xpc, closed, result>>
    /\ UNCHANGED <<xopts, sent, stream, dest, materialised, before>>

Fixed ==
    /\ xpc = "fix" /\ fixes = {} /\ xpc' = "join"
    /\ UNCHANGED <<xopts, sent, stream, closed, dest, obj, materialised, fixes, xstats, refusals,
                   before, result>>

(* FidelityLines: what "esito 1:1" means. *)
OneToOne == xstats.degraded = {} /\ xstats.skipped = 0

(* restoreExtract waits for the goroutine, and returns its error when it   *)
(* has none of its own; strictFidelityError then judges the statistics.    *)
Join ==
    /\ xpc = "join" /\ stream \in {"ok", "err"}
    /\ xpc' = "end"
    /\ result' = IF result = "failed" \/ stream = "err" THEN "failed"
                 ELSE IF xopts.strict /\ ~OneToOne THEN "fidelity" ELSE "ok"
    /\ UNCHANGED <<xopts, sent, stream, closed, dest, obj, materialised, fixes, xstats, refusals, before>>

(* The goroutine: a write into the pipe ends when the reader took it or    *)
(* closed; the stream itself may fail anywhere, after the last byte too.   *)
StreamEnds ==
    /\ stream = "writing" /\ sent = Len(tar) /\ xpc # "next" /\ stream' = "ok"
    /\ UNCHANGED <<xopts, xpc, sent, closed, dest, obj, materialised, fixes, xstats, refusals,
                   before, result>>

StreamFails ==
    /\ stream = "writing" /\ stream' = "err"
    /\ \/ closed /\ refusals' = refusals
       \/ refusals < MaxRefusals /\ refusals' = refusals + 1
    /\ UNCHANGED <<xopts, xpc, sent, closed, dest, obj, materialised, fixes, xstats, before, result>>

Goroutine == StreamEnds \/ StreamFails

Extraction == Start \/ NextEntry \/ ReadFails \/ Trailer \/ Interrupted \/ FixDir \/ Fixed \/ Join

-----------------------------------------------------------------------------
(* Properties *)

(* The object a name holds is what entry k describes: its kind and bytes,  *)
(* and every attribute the options ask for.                                *)
Matches(n, k) ==
    LET e == tar[k] o == obj[dest[n]] IN
    /\ n \in DOMAIN dest
    /\ o.kind = (IF e.kind = "hardlink" THEN "file" ELSE e.kind)
    /\ CASE e.kind = "hardlink" -> o.data[1] = e.ino
         [] e.kind = "dir" -> TRUE
         [] OTHER -> o.data = Data(e)
    /\ xopts.owner => o.owner = e.ino
    /\ e.kind # "symlink" => o.mode = e.ino /\ o.suid = e.suid /\ o.shut = e.shut
    /\ o.cap = e.cap /\ o.mtime = e.ino

(* Every selected name holds what the archive has for it, directories'     *)
(* times and shared inodes included.                                       *)
RestoredAsArchived ==
    \A k \in 1..Len(tar) : Selected(k) =>
        LET n == Stripped(tar[k].path) IN
        /\ Matches(n, k)
        /\ tar[k].kind = "hardlink" => dest[n] = dest[Stripped(tar[k].link)]

(* --strip-components leaves every entry a name of its own, and one that   *)
(* leads through another only if that is a directory.                      *)
NamesApart ==
    \A j, k \in 1..Len(tar) :
        j # k /\ Selected(j) /\ Selected(k) /\ IsPrefix(Stripped(tar[j].path), Stripped(tar[k].path))
            => Stripped(tar[j].path) # Stripped(tar[k].path) /\ tar[j].kind = "dir"

(* A restore that ends without an error and reports no difference left     *)
(* under every selected name what the archive holds for it: "esito 1:1 ... *)
(* nessuna differenza" (archive.go:45), and exit 0 under --strict, are     *)
(* true whatever the destination refused and in whatever order things were *)
(* written, where the names that --strip-components leaves do not collide. *)
VerdictIsHonest ==
    result = "ok" /\ OneToOne /\ NamesApart => RestoredAsArchived

(* The same said of every restore, one whose stripped names collide too.   *)
VerdictIsAlwaysHonest == result = "ok" /\ OneToOne => RestoredAsArchived

(* --overwrite overlays, it does not replace (docs/restore.md:66): what    *)
(* was in the destination stays, a file with its bytes and attributes,     *)
(* unless the archive holds its name, or holds an object that is not a     *)
(* directory under the name of one of its parents.  A restore that fails   *)
(* half-way keeps it too.                                                  *)
BystandersKept ==
    \A p \in DOMAIN before.dest :
        LET o == before.obj[before.dest[p]] IN
        \/ \E k \in 1..Len(tar) :
              /\ Selected(k) /\ IsPrefix(Stripped(tar[k].path), p)
              /\ tar[k].kind = "dir" => Stripped(tar[k].path) = p /\ o.kind # "dir"
        \/ /\ p \in DOMAIN dest
           /\ IF o.kind = "dir" THEN obj[dest[p]].kind = "dir" ELSE obj[dest[p]] = o

(* restoreExtract never waits for a goroutine that cannot end: when the    *)
(* extractor has returned, with an error anywhere in the archive or after  *)
(* the trailer, the goroutine has nothing left to write or nobody it can   *)
(* block on, so `<-done' is answered (restore.go:649).                     *)
StreamCanEnd == xpc = "join" /\ stream = "writing" => closed \/ sent = Len(tar)
=============================================================================
