---------------------------- MODULE MCTypeLayout ----------------------------
(* Instances of TypeLayout and TupleIndex for TLC: Uint8, Uint32, Uint64,   *)
(* () and ... as the builtin types in use.                                 *)
EXTENDS TupleIndex

UsableInTuples == {1, 3, 4, Unit, 18}
UsableInUnions == {1, 3, 4}

=============================================================================
