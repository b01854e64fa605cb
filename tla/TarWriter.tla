----------------------------- MODULE TarWriter -----------------------------
(***************************************************************************)
(* The archiver of pkg/archive (writer.go, source.go, source_unix.go): the *)
(* walk that turns the roots of a backup into a tar stream, over a file    *)
(* system that other users change while it runs.                           *)
(*                                                                         *)
(* The file system is a map from inodes to objects.  A directory maps the  *)
(* names it holds to inodes, so a handle on a directory is its inode:      *)
(* renaming the directory away does not change what its handle names,      *)
(* which is what os.Root and the *at calls give the code.  One step of the *)
(* walk is one resolution of a name (lstat, open, second open, readlink),  *)
(* or the reading of a descriptor already checked; between any two the     *)
(* other users act (Change).                                               *)
(***************************************************************************)
EXTENDS Integers, Sequences, FiniteSets, SequencesExt

CONSTANTS
    Inodes,     \* the objects of the file system
    Top,        \* the inode that stands for where the root paths lead
    None,       \* no inode: a name that is not there, a descriptor not held
    Spares,     \* objects the other users put in place of what they find
    Outside,    \* objects that no root contains
    MaxChanges  \* bound on what the other users, and unlucky reads, do

ASSUME WriterAssumption ==
    /\ Top \in Inodes /\ None \notin Inodes
    /\ Spares \subseteq Inodes /\ Outside \subseteq Inodes
    /\ MaxChanges \in Nat

VARIABLES
    tree,       \* inode -> [kind, kids, to, size, dev, open, search, suid, cap, shut]:
                \* the walk may open it, and look names up in it
    changes,    \* how much of MaxChanges is used
    opts,       \* [strict, onefs, roots, excludes]: roots is a sequence of
                \* [key, base], excludes the paths --exclude matches
    next,       \* the root AddRoot is called for next
    dev,        \* devSeen: the device --one-file-system keeps to, 0 when not set
    stack,      \* the listings held open, outermost first: [dir, arc, names,
                \* sure]: sure when dir is what lstat saw, which the code cannot always tell
    cur,        \* the entry in hand: [at, name, arc, root, st, fd, names]
    wpc,        \* what the walk does next
    tar,        \* the entries written
    links,      \* inode -> the first path it was archived under
    stats,      \* Stats: what was left out
    met,        \* history: the archive paths lstat answered for
    eased       \* history: search permission was given on a directory held open that
                \* is not the one lstat saw

walkVars == <<tree, changes, opts, next, dev, stack, cur, wpc, tar, links, stats, met, eased>>

Dirs == {i \in Inodes : tree[i].kind = "dir"}

Lookup(d, n) == IF n \in DOMAIN tree[d].kids THEN tree[d].kids[n] ELSE None

(* A name cannot be resolved in a directory without search permission. *)
Found(d, n) == IF tree[d].search THEN Lookup(d, n) ELSE None

Nlink(i) == Cardinality({<<d, n>> \in Dirs \X (1..9) : Lookup(d, n) = i})

(* What lstat reports of an inode: its identity and attributes now. *)
Stat(i) == [ino |-> i, kind |-> tree[i].kind, size |-> tree[i].size,
            dev |-> tree[i].dev, nlink |-> Nlink(i), suid |-> tree[i].suid,
            cap |-> tree[i].cap, shut |-> tree[i].shut]

(* The inodes an open of name n in directory d may reach.  A final symlink *)
(* is refused at a root (O_NOFOLLOW) and followed by os.Root when it stays *)
(* inside the directory; OpenRoot on a root path follows any symlink.      *)
Opened(d, n, follow) ==
    LET i == Lookup(d, n) IN
    IF i = None \/ tree[i].kind # "symlink" THEN i
    ELSE IF follow \/ (d # Top /\ tree[i].to \in {Lookup(d, m) : m \in DOMAIN tree[d].kids})
    THEN tree[i].to ELSE None

(* Mutant: a type check alone, as where FileInfo exposes no identity. *)
SameEntryByType(i, st) == i # None /\ tree[i].kind = st.kind

SameEntry(i, st) == i # None /\ i = st.ino

(* verifySource, and the open it checks: one of "ok", "perm", "error". *)
OpenVerified(d, n, st) ==
    LET i == Opened(d, n, FALSE) IN
    CASE ~tree[d].search \/ (i # None /\ ~tree[i].open) -> "perm"
      [] OTHER -> IF SameEntry(i, st) THEN "ok" ELSE "error"

SortedNames(d) == SetToSortSeq(DOMAIN tree[d].kids, <)

excluded(arc) == \E p \in opts.excludes : IsPrefix(p, arc)

NoCur == [at |-> None, name |-> 0, arc |-> <<>>, root |-> FALSE, st |-> <<>>,
          fd |-> None, names |-> <<>>]

CleanStats == [skipped |-> 0, errors |-> 0, contentSkipped |-> 0]

Fresh == /\ next = 1 /\ dev = 0 /\ stack = <<>> /\ cur = NoCur /\ wpc = "walk"
         /\ tar = <<>> /\ links = <<>> /\ stats = CleanStats /\ met = {}
         /\ eased = FALSE

-----------------------------------------------------------------------------
(* Results of a step. *)

Fail == wpc' = "failed" /\ UNCHANGED <<stack, cur, tar, links, stats>>

Continue == wpc' = "walk" /\ cur' = NoCur

Skip == stats' = [stats EXCEPT !.skipped = @ + 1]

(* Mutant: the entry is passed over without a count. *)
handleWalkErrorQuiet ==
    IF opts.strict THEN Fail ELSE Continue /\ UNCHANGED <<stack, tar, links, stats>>

(* handleWalkError: fatal in strict mode, one skipped entry otherwise. *)
handleWalkError ==
    IF opts.strict THEN Fail
    ELSE /\ Continue
         /\ stats' = [stats EXCEPT !.skipped = @ + 1, !.errors = @ + 1]
         /\ UNCHANGED <<stack, tar, links>>

(* archive/tar refuses the next header, and the trailer, while the entry   *)
(* before it is shorter than its header said.                              *)
Short == tar # <<>> /\ Last(tar).got < Last(tar).size

Entry(kind, got, size, link) ==
    [path |-> cur.arc, kind |-> kind, ino |-> cur.st.ino, from |-> cur.fd,
     size |-> size, got |-> got, link |-> link, suid |-> cur.st.suid,
     cap |-> cur.st.cap, shut |-> cur.st.shut]

(* emitOne and writeEntry for an object without content; readMeta may lose *)
(* attributes, fatal in strict mode, counted otherwise.  skip, err: what   *)
(* the caller counts as left out.  push: the listings the walk goes on     *)
(* with.                                                                   *)
EmitBare(kind, link, skip, err, push) ==
    IF excluded(cur.arc)
    THEN /\ Continue /\ stack' = push
         /\ stats' = [stats EXCEPT !.skipped = @ + 1 + skip, !.errors = @ + err]
         /\ UNCHANGED <<changes, tar, links>>
    ELSE \E lost \in {0, 1} :
         /\ changes + lost <= MaxChanges /\ changes' = changes + lost
         /\ IF Short \/ (lost = 1 /\ opts.strict) THEN Fail
            ELSE /\ Continue /\ stack' = push
                 /\ tar' = Append(tar, Entry(kind, 0, 0, link))
                 /\ stats' = [stats EXCEPT !.skipped = @ + skip, !.errors = @ + err + lost]
                 /\ UNCHANGED links

-----------------------------------------------------------------------------
(* AddRoot, walkChildren, walkEntry *)

AtRoot == stack = <<>>

Bases == {opts.roots[k].base : k \in 1..(next - 1)}

(* Two roots with one basename: RootCollisionError. *)
Collide ==
    /\ wpc = "walk" /\ AtRoot /\ next <= Len(opts.roots)
    /\ opts.roots[next].base \in Bases
    /\ Fail /\ UNCHANGED <<tree, changes, opts, next, dev, met, eased>>

(* The name the walk takes next, and the directory handle it is looked up in. *)
Source ==
    IF AtRoot
    THEN [NoCur EXCEPT !.at = Top, !.name = opts.roots[next].key,
                       !.arc = <<opts.roots[next].base>>, !.root = TRUE]
    ELSE LET l == Last(stack) IN
         [NoCur EXCEPT !.at = l.dir, !.name = Head(l.names), !.arc = Append(l.arc, Head(l.names))]

Popped == IF AtRoot THEN stack
          ELSE [stack EXCEPT ![Len(stack)].names = Tail(@)]

(* Beyond a mount point, or a later root on another file system. *)
OtherDevice(i) == opts.onefs /\ dev # 0 /\ tree[i].dev # dev

(* What emitOne does next with an entry that is not a directory. *)
Kind(k) == CASE k = "file" -> "open" [] k = "symlink" -> "readlink"
             [] k = "socket" -> "socket" [] OTHER -> "node"

(* lstat of the next name, the device boundary, and where that leads. *)
Lstat ==
    /\ wpc = "walk"
    /\ IF AtRoot THEN next <= Len(opts.roots) /\ opts.roots[next].base \notin Bases
       ELSE Last(stack).names # <<>>
    /\ next' = IF AtRoot THEN next + 1 ELSE next
    /\ dev' = IF AtRoot /\ opts.onefs /\ dev = 0 /\ Found(Source.at, Source.name) # None
              THEN tree[Found(Source.at, Source.name)].dev ELSE dev
    /\ UNCHANGED <<tree, changes, opts, eased>>
    /\ LET i == Found(Source.at, Source.name)
           c == [Source EXCEPT !.st = Stat(i)] IN
       IF i = None
       THEN /\ met' = met /\ UNCHANGED <<tar, links>> /\ cur' = NoCur /\ stack' = Popped
            /\ IF AtRoot \/ opts.strict THEN wpc' = "failed" /\ UNCHANGED stats
               ELSE wpc' = "walk" /\ stats' = [stats EXCEPT !.skipped = @ + 1, !.errors = @ + 1]
       ELSE /\ met' = met \union {c.arc}
            /\ stack' = Popped /\ UNCHANGED <<tar, links>>
            /\ IF OtherDevice(i) /\ (AtRoot \/ tree[i].kind # "dir")
               THEN Continue /\ Skip
               ELSE /\ cur' = c /\ UNCHANGED stats
                    /\ wpc' = CASE OtherDevice(i) -> "mount"
                                [] ~OtherDevice(i) /\ tree[i].kind = "dir" -> "list"
                                [] OTHER -> IF excluded(c.arc) THEN "socket" ELSE Kind(tree[i].kind)

(* A mount point: its entry, and nothing below it. *)
MountPoint ==
    /\ wpc = "mount" /\ EmitBare("dir", <<>>, 1, 0, stack)
    /\ UNCHANGED <<tree, opts, next, dev, met, eased>>

(* list failed.  A root that cannot be listed fails a strict backup before *)
(* anything is written; elsewhere a directory the walk may not read is     *)
(* archived without its content, in both modes.                            *)
ListFails(why) ==
    IF cur.root
    THEN IF opts.strict THEN Fail /\ UNCHANGED changes ELSE EmitBare("dir", <<>>, 1, 1, stack)
    ELSE IF why = "perm" THEN EmitBare("dir", <<>>, 1, 0, stack)
    ELSE handleWalkError /\ UNCHANGED changes

(* list, first open: the descriptor checked against lstat, and its names. *)
OpenDir ==
    /\ wpc = "list"
    /\ LET o == OpenVerified(cur.at, cur.name, cur.st) IN
       IF o = "ok"
       THEN LET i == Opened(cur.at, cur.name, FALSE) IN
            /\ cur' = [cur EXCEPT !.fd = i, !.names = SortedNames(i)]
            /\ wpc' = "reopen" /\ UNCHANGED <<changes, stack, tar, links, stats>>
       ELSE ListFails(o)
    /\ UNCHANGED <<tree, opts, next, dev, met, eased>>

(* What the second open reaches: as the first, but it follows a root path. *)
Reopened == Opened(cur.at, cur.name, cur.root)

Reopens ==
    CASE ~tree[cur.at].search \/ (Reopened # None /\ ~tree[Reopened].open) -> "perm"
      [] OTHER -> IF Reopened # None /\ tree[Reopened].kind = "dir" THEN "ok" ELSE "error"

(* The directory's own entry, and the walk goes down. *)
Descend ==
    EmitBare("dir", <<>>, 0, 0,
             Append(stack, [dir |-> Reopened, arc |-> cur.arc, names |-> cur.names,
                            sure |-> SameEntry(Reopened, cur.st)]))

(* Mutant: the second open is trusted, the first having been checked. *)
OpenRootTrusted ==
    /\ wpc = "reopen"
    /\ IF Reopens = "ok" THEN Descend ELSE ListFails(Reopens)
    /\ UNCHANGED <<tree, opts, next, dev, met, eased>>

(* list, second open: the handle the children are resolved against.  It    *)
(* resolves the name again and is checked again, unless the directory it   *)
(* reached has no search permission: then it is kept unchecked.            *)
OpenRoot ==
    /\ wpc = "reopen"
    /\ IF Reopens = "ok" /\ (tree[Reopened].search => SameEntry(Reopened, cur.st))
       THEN Descend
       ELSE ListFails(IF Reopens = "ok" THEN "error" ELSE Reopens)
    /\ UNCHANGED <<tree, opts, next, dev, met, eased>>

CloseDir ==
    /\ wpc = "walk" /\ ~AtRoot /\ Last(stack).names = <<>>
    /\ stack' = Front(stack)
    /\ UNCHANGED <<tree, changes, opts, next, dev, cur, wpc, tar, links, stats, met, eased>>

-----------------------------------------------------------------------------
(* emitOne and writeEntry *)

(* Mutant: an excluded file counts as the first name of its inode. *)
LeaveOutRemembers ==
    /\ wpc = "socket" /\ Continue /\ Skip
    /\ links' = IF cur.st.nlink > 1 /\ cur.st.ino \notin DOMAIN links
                THEN links @@ (cur.st.ino :> cur.arc) ELSE links
    /\ UNCHANGED <<tree, changes, opts, next, dev, stack, tar, met, eased>>

(* A socket, or an excluded entry: counted, never opened. *)
LeaveOut ==
    /\ wpc = "socket" /\ Continue /\ Skip
    /\ UNCHANGED <<tree, changes, opts, next, dev, stack, tar, links, met, eased>>

(* A FIFO or a device: its header only. *)
EmitNode ==
    /\ wpc = "node" /\ EmitBare(cur.st.kind, <<>>, 0, 0, stack)
    /\ UNCHANGED <<tree, opts, next, dev, met, eased>>

(* readlink resolves the name again: it fails when a symlink is no longer there. *)
ReadLink ==
    /\ wpc = "readlink"
    /\ LET i == Found(cur.at, cur.name) IN
       IF i = None \/ tree[i].kind # "symlink" THEN handleWalkError /\ UNCHANGED changes
       ELSE EmitBare("symlink", <<tree[i].to>>, 0, 0, stack)
    /\ UNCHANGED <<tree, opts, next, dev, met, eased>>

(* A regular file is opened and checked before anything is read from it. *)
OpenFile ==
    /\ wpc = "open"
    /\ cur' = [cur EXCEPT !.fd = IF OpenVerified(cur.at, cur.name, cur.st) = "ok"
                                 THEN Opened(cur.at, cur.name, FALSE) ELSE None]
    /\ wpc' = "file"
    /\ UNCHANGED <<tree, changes, opts, next, dev, stack, tar, links, stats, met, eased>>

(* readMeta of a regular file, before it is written. *)
MetaLost ==
    /\ wpc = "file" /\ changes < MaxChanges
    /\ changes' = changes + 1
    /\ IF opts.strict THEN Fail
       ELSE stats' = [stats EXCEPT !.errors = @ + 1] /\ UNCHANGED <<wpc, stack, cur, tar, links>>
    /\ UNCHANGED <<tree, opts, next, dev, met, eased>>

(* writeEntry of a regular file: a link to the path its inode was first    *)
(* archived under, or a header with the size lstat saw and then what the   *)
(* descriptor holds now.  Without a descriptor the entry is kept empty.    *)
IsLink == cur.st.nlink > 1 /\ cur.st.ino \in DOMAIN links

Linked == IF cur.st.nlink > 1 /\ ~IsLink THEN links @@ (cur.st.ino :> cur.arc) ELSE links

writeEntry ==
    /\ wpc = "file" /\ UNCHANGED <<tree, changes, opts, next, dev, met, eased>>
    /\ LET has == cur.fd # None
           size == IF has THEN cur.st.size ELSE 0
           held == IF has THEN tree[cur.fd].size ELSE 0 IN
       IF Short \/ (~IsLink /\ ~has /\ opts.strict) THEN Fail
       ELSE IF IsLink
       THEN /\ Continue /\ tar' = Append(tar, Entry("hardlink", 0, 0, links[cur.st.ino]))
            /\ UNCHANGED <<stack, links, stats>>
       ELSE /\ links' = Linked /\ stack' = stack
            /\ tar' = Append(tar, Entry("file", IF held < size THEN held ELSE size, size, <<>>))
            /\ IF held > size \/ (held < size /\ opts.strict)
               THEN wpc' = "failed" /\ UNCHANGED <<cur, stats>>
               ELSE /\ Continue
                    /\ stats' = [stats EXCEPT
                         !.contentSkipped = IF has THEN @ ELSE @ + 1,
                         !.errors = IF has /\ held = size THEN @ ELSE @ + 1]

Close ==
    /\ wpc = "walk" /\ AtRoot /\ next > Len(opts.roots)
    /\ wpc' = IF Short THEN "failed" ELSE "closed"
    /\ UNCHANGED <<tree, changes, opts, next, dev, stack, cur, tar, links, stats, met, eased>>

(* ctx.Err() between two children. *)
Cancelled ==
    /\ wpc = "walk" /\ ~AtRoot /\ changes < MaxChanges
    /\ wpc' = "failed"
    /\ UNCHANGED <<tree, changes, opts, next, dev, stack, cur, tar, links, stats, met, eased>>

-----------------------------------------------------------------------------
(* Another user of the file system puts an object of their own under a name, *)
(* removes a name, changes the length of a file, or gives or takes the       *)
(* search permission of a directory.                                         *)
Change ==
    /\ changes < MaxChanges /\ wpc \notin {"closed", "failed"}
    /\ changes' = changes + 1
    /\ \/ /\ UNCHANGED eased
          /\ \E d \in Dirs : \E n \in DOMAIN tree[d].kids :
                \/ \E i \in Spares : tree' = [tree EXCEPT ![d].kids[n] = i]
                \/ tree' = [tree EXCEPT ![d].kids = [m \in DOMAIN @ \ {n} |-> @[m]]]
       \/ /\ UNCHANGED eased
          /\ \E i \in Inodes \ Outside, s \in 0..2 :
                /\ tree[i].kind = "file" /\ tree[i].size # s
                /\ tree' = [tree EXCEPT ![i].size = s]
       \/ \E d \in Dirs \ {Top} :
            /\ tree' = [tree EXCEPT ![d].search = ~@]
            /\ eased' = \/ eased
                        \/ /\ ~tree[d].search
                           /\ \E k \in DOMAIN stack : stack[k].dir = d /\ ~stack[k].sure
    /\ UNCHANGED <<opts, next, dev, stack, cur, wpc, tar, links, stats, met>>

Walk == \/ Collide \/ Lstat \/ MountPoint \/ OpenDir \/ OpenRoot \/ CloseDir
        \/ LeaveOut \/ EmitNode \/ ReadLink \/ OpenFile \/ MetaLost \/ writeEntry
        \/ Close \/ Cancelled

-----------------------------------------------------------------------------
(* Properties *)

(* Every byte archived under a path was read from the object lstat         *)
(* classified under that path, never from an object put in its place and   *)
(* never from one outside the roots (docs/FIDELITY.md:185, source.go:12):  *)
(* a file or directory swapped at any point of the walk is refused.        *)
ContentIsExamined ==
    \A k \in 1..Len(tar) :
        /\ tar[k].from # None => tar[k].from = tar[k].ino
        /\ tar[k].ino \notin Outside

(* A hard link in the archive names a regular file written before it, and  *)
(* that file was the same object: what the extractor accepts as a target   *)
(* (docs/FIDELITY.md:234) is what the writer produces, whatever was        *)
(* excluded, swapped or unreadable on the way.                             *)
LinksResolve ==
    \A k \in 1..Len(tar) : tar[k].kind = "hardlink" =>
        \E j \in 1..(k - 1) :
            tar[j].kind = "file" /\ tar[j].path = tar[k].link /\ tar[j].ino = tar[k].ino

(* The stream the writer produces is sound at every point of the walk: a   *)
(* hard link belongs to a file written before it (LinksResolve) and        *)
(* content to the object examined (ContentIsExamined), whatever is         *)
(* swapped, removed, excluded or refused meanwhile.  For content, "nothing *)
(* can be read through a handle that could not be checked" (source.go:138) *)
(* takes that the handle stays without search permission.                  *)
TarIsSound == LinksResolve /\ (~eased => ContentIsExamined)

(* A walk that reports nothing left out archived every path it met, every  *)
(* regular file with all the bytes its header announces, in an order where *)
(* a directory precedes its content: Stats tells a complete archive from   *)
(* an incomplete one.                                                      *)
CleanMeansComplete ==
    wpc = "closed" /\ stats = CleanStats =>
        /\ met = {tar[k].path : k \in 1..Len(tar)}
        /\ \A k \in 1..Len(tar) : tar[k].got = tar[k].size
        /\ \A k \in 1..Len(tar) : Len(tar[k].path) > 1 =>
              \E j \in 1..(k - 1) : tar[j].path = Front(tar[k].path) /\ tar[j].kind = "dir"
=============================================================================
