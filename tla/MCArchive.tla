----------------------------- MODULE MCArchive -----------------------------
(***************************************************************************)
(* A backup of a small tree and its extraction: TarWriter followed by      *)
(* Extract, for TLC.                                                       *)
(*                                                                         *)
(*   1/            the first root                                          *)
(*   1/1/          a directory nobody may enter once it has its mode       *)
(*   1/1/1         a setuid file with a capability, first name of two      *)
(*   1/1/2/        an empty directory                                      *)
(*   1/2           its second name                                         *)
(*   1/3           a symlink                                               *)
(*   2             the second root: a fifo, a file or another file system  *)
(***************************************************************************)
EXTENDS Extract

Obj(kind, kids, to, size) ==
    [kind |-> kind, kids |-> kids, to |-> to, size |-> size, dev |-> 1, open |-> TRUE,
     search |-> TRUE, suid |-> FALSE, cap |-> FALSE, shut |-> FALSE]

Tree ==
    LET t == <<
        Obj("dir", <<2, 3>>, None, 0),                              \* 1: where the roots are
        Obj("dir", <<4, 5, 6>>, None, 0),                           \* 2: 1/
        Obj("fifo", <<>>, None, 0),                                 \* 3: 2
        [Obj("dir", <<5, 7>>, None, 0) EXCEPT !.shut = TRUE],       \* 4: 1/1/
        [Obj("file", <<>>, None, 1) EXCEPT !.suid = TRUE, !.cap = TRUE], \* 5
        Obj("symlink", <<>>, 5, 0),                                 \* 6: 1/3
        Obj("dir", <<>>, None, 0),                                  \* 7: 1/1/2/
        Obj("symlink", <<>>, 10, 0),                                \* 8: leads outside
        Obj("symlink", <<>>, 5, 0),                                 \* 9: stays inside
        Obj("dir", <<11, 11, 11>>, None, 0),                        \* 10: outside
        Obj("file", <<>>, None, 2),                                 \* 11: outside
        Obj("file", <<>>, None, 1)>> IN                             \* 12: a decoy
    t

(* A directory of the tree, and the one outside, may not be searched. *)
Unsearchable == [Tree EXCEPT ![4].search = FALSE, ![10].search = FALSE]

(* What else the tree may be: unreadable in part, across a mount point, or *)
(* with a second root that is a socket.                                    *)
Trees == {Tree,
          [Tree EXCEPT ![4].open = FALSE], [Tree EXCEPT ![5].open = FALSE],
          [Tree EXCEPT ![2].open = FALSE], [Tree EXCEPT ![4].dev = 2, ![3].dev = 2],
          [Tree EXCEPT ![3].kind = "socket", ![6].dev = 2], Unsearchable}

RootSets == {<<[key |-> 1, base |-> 1], [key |-> 2, base |-> 2]>>,
             <<[key |-> 1, base |-> 1], [key |-> 2, base |-> 1]>>}

NoDest == [dest |-> <<>>, obj |-> [o \in 1..MaxObjects |-> Created("none", <<>>)]]

(* A destination that holds a file and a directory under names of the      *)
(* archive, and a file the archive does not have.                          *)
Populated(shut) ==
    LET f1 == Create([NoDest EXCEPT !.dest = <<>>], <<1>>, "dir", <<>>)
        f2 == Create(f1, <<1, 2>>, "dir", <<>>)
        f3 == Create(f2, <<1, 2, 4>>, "file", <<0>>)
        f4 == Create(f3, <<1, 1>>, "dir", <<>>)
        f5 == Create(f4, <<1, 1, 4>>, "file", <<0>>)
        f6 == Create(f5, <<1, 1, 1>>, "file", <<0>>) IN
    [f6 EXCEPT !.obj[f6.dest[<<1, 1>>]].shut = shut]

XOptions ==
    {o \in [strict : BOOLEAN, overwrite : BOOLEAN, owner : BOOLEAN, priv : BOOLEAN,
            strip : {0, 1}, drop : {{}, {<<1, 1, 1>>}}] : o.drop # {} => o.strip = 0}

Rest == /\ Fresh /\ xpc = "start" /\ sent = 0 /\ stream = "off" /\ closed = FALSE
        /\ materialised = {} /\ fixes = {} /\ result = ""
        /\ xstats = [skipped |-> 0, degraded |-> {}]

(* A tree where the second root is one more name of the file, and one where *)
(* it is a directory whose file is called 2 as well.                        *)
Crossed == [Tree EXCEPT ![1].kids = <<2, 5>>]
Twins == [Tree EXCEPT ![3] = Obj("dir", [n \in {2} |-> 12], None, 0)]

Plain(strict) == [strict |-> strict, onefs |-> FALSE, excludes |-> {},
                  roots |-> <<[key |-> 1, base |-> 1], [key |-> 2, base |-> 2]>>]

Faithful(roots) == [strict |-> TRUE, onefs |-> FALSE, roots |-> roots, excludes |-> {}]

(* Either the tree changes under the walk, or the extraction meets a       *)
(* destination that refuses things; both together multiply without adding. *)
MCInit ==
    /\ Rest
    /\ \/ /\ opts \in [strict : BOOLEAN, onefs : BOOLEAN, roots : RootSets,
                      excludes : {{}, {<<1, 1, 1>>}, {<<1, 1>>}}]
          /\ tree \in Trees /\ refusals = MaxRefusals
          /\ changes = IF \/ tree = Tree /\ opts \in {Plain(TRUE), Plain(FALSE)}
                          \/ tree = Unsearchable /\ opts = Plain(FALSE)
                       THEN 0 ELSE MaxChanges - 1
          /\ xopts = [strict |-> FALSE, overwrite |-> FALSE, owner |-> FALSE, priv |-> TRUE,
                      strip |-> 0, drop |-> {}]
          /\ dest = NoDest.dest /\ obj = NoDest.obj
       \/ /\ \/ opts = Faithful(<<[key |-> 1, base |-> 1]>>) /\ tree = Tree
             \/ opts = Faithful(<<[key |-> 2, base |-> 2], [key |-> 1, base |-> 1]>>) /\ tree = Crossed
             \/ opts = Faithful(<<[key |-> 1, base |-> 1], [key |-> 2, base |-> 2]>>) /\ tree = Twins
          /\ changes = MaxChanges /\ refusals = 0
          /\ xopts \in XOptions
          /\ \E d \in {NoDest, Populated(FALSE), Populated(TRUE)} : dest = d.dest /\ obj = d.obj
    /\ before = [dest |-> dest, obj |-> obj]

MCNext ==
    \/ (Walk \/ Change) /\ UNCHANGED extractVars
    \/ (Extraction \/ Goroutine) /\ UNCHANGED walkVars

MCSpec == MCInit /\ [][MCNext]_<<walkVars, extractVars>>

-----------------------------------------------------------------------------
(* The paths of the tree, with the inode each leads to. *)
Paths ==
    {<<<<1>>, 2>>, <<<<1, 1>>, 4>>, <<<<1, 1, 1>>, 5>>, <<<<1, 1, 2>>, 7>>, <<<<1, 2>>, 5>>,
     <<<<1, 3>>, 6>>}

(* Backup and extraction are inverse where nothing interferes: the tree is *)
(* readable and still, the destination empty and its user able to set what *)
(* is asked for.  The restore then ends without a difference, and the      *)
(* destination holds every object of the tree with its bytes, mode and     *)
(* times, and the same names share an inode.  It takes the writer's order, *)
(* its links to first names, the order of the metadata operations and the  *)
(* final pass over the directories to agree (docs/FIDELITY.md:70-83, 229). *)
RoundTrip ==
    /\ tree = Tree /\ opts.excludes = {} /\ ~opts.onefs
    /\ xpc = "end" /\ refusals = 0 /\ before.dest = <<>>
    /\ xopts.strip = 0 /\ xopts.drop = {} /\ (xopts.priv \/ ~(xopts.owner \/ xopts.strict))
    =>  /\ result = "ok" /\ xstats.skipped = 0
        /\ xstats.degraded = (IF xopts.priv THEN {} ELSE {"xattr"})
        /\ DOMAIN dest = {p[1] : p \in Paths}
        /\ \A p, q \in Paths : (dest[p[1]] = dest[q[1]]) <=> (p[2] = q[2])
        /\ \A p \in Paths :
              LET o == obj[dest[p[1]]] i == tree[p[2]] IN
              /\ o.kind = i.kind /\ o.mtime = p[2] /\ o.suid = i.suid /\ o.cap = (i.cap /\ xopts.priv)
              /\ o.shut = i.shut /\ (o.kind = "file" => o.data = <<p[2], i.size>>)
=============================================================================
