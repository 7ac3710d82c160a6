----------------------------- MODULE MCFileData -----------------------------
(* The values of FileData's constants for TLC.                             *)
EXTENDS FileData

CONSTANTS word1, word2

MCData         == {word1, word2}
MCBuffers      == {<<word1, word2, word1>>}
MCLongBuffers  == {<<word2, word1, word2>>, <<word1, word2, word2, word1, word2, word1>>}
MCSeekOffsets  == {-1, 2}
MCStart        == {0}
MCReadSizes    == {3}
MCNone         == {}
=============================================================================
