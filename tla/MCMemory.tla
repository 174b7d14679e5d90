------------------------------ MODULE MCMemory ------------------------------
(* An instance of Nodes for TLC.                                           *)
EXTENDS Nodes

\* 0: an array that reserves nothing; 65: rounded up it is a whole chunk.
MCSizes == {0, 8, 33, 65}
MCInsitu == {0, 40}
MCMaxChunks == [c \in {0, 48} |-> IF c = 0 THEN 7 ELSE 3]
MCNodeSizes == {8, 16}
=============================================================================
