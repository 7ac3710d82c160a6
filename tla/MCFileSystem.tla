---------------------------- MODULE MCFileSystem ----------------------------
(* The values of FileSystem's constants for TLC.                           *)
EXTENDS FileSystem

CONSTANTS name1, name2, bits, word

MCNames == {name1, name2, bits}
MCDots  == {}
S == Slash
MCPaths == {<<S, name1>>, <<S, name2>>, <<S, name1, S, name2>>,
            <<S, name1, S, bits>>}

\* The bytes of the inode bitmap are a name when two inodes are in use.
MCMapName   == [n \in 1 .. NumInodes |-> IF n = 2 THEN bits ELSE NoName]
MCNameBytes == [name \in Names |-> 1]

MCData        == {word}
MCBuffers     == {<<word, word>>}
MCReadSizes   == {}
MCSeekOffsets == {}
=============================================================================
