------------------------------ MODULE MCRestore ------------------------------
(***************************************************************************)
(* Two commands over a backup of eight blocks: a directory (one block), a  *)
(* file of three blocks that spans the first two chunks, a hard link to it *)
(* and another file, then the trailer; four chunks of two blocks in three  *)
(* layers, of which the cache holds the first alone or the other two.  At  *)
(* most one chunk is damaged, or else one part of the metadata.            *)
(***************************************************************************)
EXTENDS Restore

CONSTANTS p1, p2, l1, l2, l3

MCPlain == <<2, 2, 2, 2>>
MCLayerOf == <<l1, l1, l2, l3>>
MCStoredBytes == [l \in Layers |-> IF l = l1 THEN 2 ELSE 1]
MCEntries == << [offset |-> 0, parents |-> {}, link |-> NoLink],
                [offset |-> 1, parents |-> {1}, link |-> NoLink],
                [offset |-> 4, parents |-> {1}, link |-> 2],
                [offset |-> 5, parents |-> {}, link |-> NoLink] >>

Full == [cmd |-> "restore", selected |-> {}, keepGoing |-> FALSE, verify |-> TRUE,
         key |-> "right", allowUnencrypted |-> TRUE, old |-> FALSE, overwrite |-> FALSE]

None == [Full EXCEPT !.cmd = "none"]

\* One command alone, over every backup and every kind of damage; or two at
\* once, over an intact one.
Alone ==
    LET Streams == {[Full EXCEPT !.selected = sel, !.keepGoing = k, !.verify = v] :
                        sel \in {{}, {3}, {1, 4}}, k \in BOOLEAN, v \in BOOLEAN}
    IN  Streams \cup {[Full EXCEPT !.old = TRUE], [Full EXCEPT !.old = TRUE, !.overwrite = TRUE],
                      [Full EXCEPT !.key = "none"], [Full EXCEPT !.key = "wrong"],
                      [Full EXCEPT !.allowUnencrypted = FALSE],
                      [Full EXCEPT !.cmd = "list"], [Full EXCEPT !.cmd = "quick"],
                      [Full EXCEPT !.cmd = "verify"],
                      [Full EXCEPT !.cmd = "verify", !.keepGoing = TRUE]}

Together == {Full, [Full EXCEPT !.keepGoing = TRUE], [Full EXCEPT !.selected = {1, 4}]}

MCCommands ==
    {[p \in Procs |-> IF p = p1 THEN first ELSE None] : first \in Alone}
    \cup {[p \in Procs |-> IF p = p1 THEN first ELSE Full] : first \in Together}

MCInit ==
    /\ RestoreInit
    /\ Cardinality({i \in Chunks : damage[i] # "ok"}) =< 1
    /\ metadata # "ok" => \A i \in Chunks : damage[i] = "ok"
    /\ opts[p2] = None => caching[p2] /\ Present \subseteq {l1}
    /\ opts[p2] # None => /\ metadata = "ok" /\ ~encrypted /\ caching[p2]
                          /\ \A i \in Chunks : damage[i] = "ok"

MCSpec == MCInit /\ [][RestoreNext]_vars

=============================================================================
