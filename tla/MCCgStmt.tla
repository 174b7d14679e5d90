------------------------------ MODULE MCCgStmt ------------------------------
(***************************************************************************)
(* Small functions for TLC.  A run bounds the total cost of a function's   *)
(* statements; a form that costs more than the bound never occurs.         *)
(***************************************************************************)
EXTENDS CgStmtExec

Never == Budget + 1

Costs(cheap, cost, rest) ==
  [f \in Forms |-> IF f \in cheap THEN cost ELSE rest]

\* Every form; one more statement for those that decide which defers run.
DeferCosts == Costs({"defer", "return", "break", "continue", "if", "for"}, 2, 3)

\* Programs that end blocks early.
JumpCosts == Costs({"defer", "break", "return", "for"}, 1, Never)

\* Programs that defer blocks.
DeferBlockCosts == Costs({"defer", "defer block", "block"}, 1, Never)
=============================================================================
