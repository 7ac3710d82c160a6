--------------------------- MODULE MCFSNamespace ---------------------------
(* The values of FSNamespace's constants for TLC.                          *)
EXTENDS FSNamespace

CONSTANTS a, b, c, bits, dots

MCNames == {a, b, c, dots}
MCBitsNames == {a, b, bits}
MCDots == {dots}
MCNoDots == {}

S == Slash

\* One name more than a directory has room for; one path that is too long;
\* the same file under two paths, and paths that fs_create refuses.
MCPaths == {<<S>>, <<S, a>>, <<S, b>>, <<S, c>>, <<S, a, S, a>>, <<S, a, S, b>>,
            <<S, a, S, S, b>>, <<S, b, S, a>>, <<S, a, S, b, S, c>>,
            <<>>, <<a>>, <<S, a, S>>, <<S, a, S, dots>>}
MCBitsPaths == {<<S>>, <<S, a>>, <<S, b>>, <<S, a, S, b>>, <<S, a, S, bits>>,
                <<S, a, S, bits, S, b>>}

\* The bytes of the inode bitmap are never a name somebody uses ...
MCNoMapName == [n \in 1 .. NumInodes |-> NoName]
\* ... or, with this many inodes, they are.
MCMapName == [n \in 1 .. NumInodes |-> IF n = 2 THEN bits ELSE NoName]

MCNameBytes == [name \in Names |-> 1]
=============================================================================
