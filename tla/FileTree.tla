------------------------------ MODULE FileTree ------------------------------
(***************************************************************************)
(* What FS.h promises of fs_create and fs_get_dir: a tree of named files   *)
(* that only grows, each successful create adding one leaf, all at once.   *)
(***************************************************************************)
EXTENDS Sequences, SequencesExt

CONSTANTS Names, Paths

VARIABLES
    tree,     \* the type of every file that exists, by its path
    mounted,
    res       \* what the last call returned

tvars == <<tree, mounted, res>>

Types == {"r", "d"}
Root == <<>>
Result(op, val, names) == [op |-> op, val |-> val, names |-> names]
IsDirectory(path) == path \in DOMAIN tree /\ tree[path] = "d"
Children(path) == {name \in Names : Append(path, name) \in DOMAIN tree}

Init ==
    /\ tree = [p \in {Root} |-> "d"]
    /\ mounted = TRUE
    /\ res = Result("none", 0, {})

\* "Directories along the path that do not exist are not created" (FS.h).
Create(path, type) ==
    /\ mounted
    /\ res' = Result("create", 0, {})
    /\ path # Root /\ path \notin DOMAIN tree /\ IsDirectory(Front(path))
    /\ tree' = [p \in DOMAIN tree \cup {path} |->
                    IF p = path THEN type ELSE tree[p]]
    /\ UNCHANGED mounted

\* A create may fail, for lack of space if for no other reason; then it
\* leaves the tree as it was.
CreateFails ==
    /\ mounted
    /\ res' = Result("create", -1, {})
    /\ UNCHANGED <<tree, mounted>>

List(path) ==
    /\ mounted
    /\ res' = IF IsDirectory(path) THEN Result("get_dir", 0, Children(path))
              ELSE Result("get_dir", -1, {})
    /\ UNCHANGED <<tree, mounted>>

Detach ==
    /\ mounted
    /\ mounted' = FALSE
    /\ UNCHANGED <<tree, res>>

Attach ==
    /\ ~mounted
    /\ mounted' = TRUE
    /\ UNCHANGED <<tree, res>>

Next ==
    \/ \E path \in Paths, type \in Types : Create(path, type)
    \/ \E path \in Paths : List(path)
    \/ CreateFails \/ Detach \/ Attach

Spec == Init /\ [][Next]_tvars
=============================================================================
