----------------------------- MODULE CgStmtExec -----------------------------
(***************************************************************************)
(* Running the code that module CgStmt emits.  Once a function has been    *)
(* generated, control starts in the entry block and follows the branches;  *)
(* a condition may go either way.  The LLVM semantics used is the one the  *)
(* verifier leaves: a block runs from its first instruction to its first   *)
(* terminator.                                                             *)
(*                                                                         *)
(* pend records what the source program is owed: for each open scope the   *)
(* defer statements control has passed and whose statement has not run.    *)
(***************************************************************************)
EXTENDS CgStmt

VARIABLES
  at,      (* The block control is in, 0 before the start.                 *)
  ip,      (* Its next instruction.                                        *)
  pend,    (* One sequence of pending defers for each open scope.          *)
  running  (* generating | running | returned                              *)

execVars == <<at, ip, pend, running>>
allVars == <<vars, execVars>>

Here == blocks[at][ip]
Reached(op) == running = "running" /\ ip <= Len(blocks[at]) /\ Here.op = op

\* The position, from the outermost, of the innermost scope with a pending
\* defer; 0 if nothing is pending.
Newest ==
  LET owed == {k \in DOMAIN pend : pend[k] # <<>>}
  IN  IF owed = {} THEN 0 ELSE CHOOSE k \in owed : \A j \in owed : j <= k

GoTo(b) == at' = b /\ ip' = 1
Advance == ip' = ip + 1 /\ UNCHANGED at

ExecInit == at = 0 /\ ip = 1 /\ pend = <<>> /\ running = "generating"

Start ==
  /\ running = "generating"
  /\ status = "done"
  /\ running' = "running"
  /\ GoTo(Entry)
  /\ UNCHANGED pend

Plain ==
  /\ Reached("alloca") \/ Reached("store")
  /\ Advance
  /\ UNCHANGED <<pend, running>>

Open ==
  /\ Reached("open")
  /\ pend' = Append(pend, <<>>)
  /\ Advance
  /\ UNCHANGED running

Close ==
  /\ Reached("close")
  /\ pend' = Front(pend)
  /\ Advance
  /\ UNCHANGED running

Register ==
  /\ Reached("reg")
  /\ pend' = [pend EXCEPT ![Len(pend)] = Append(@, Here.d)]
  /\ Advance
  /\ UNCHANGED running

RunDeferred ==
  /\ Reached("run")
  /\ pend' = IF Newest = 0 THEN pend ELSE [pend EXCEPT ![Newest] = Front(@)]
  /\ Advance
  /\ UNCHANGED running

Branch ==
  /\ Reached("br")
  /\ GoTo(Here.to)
  /\ pend' = SubSeq(pend, 1, Len(pend) - Here.leaves)
  /\ UNCHANGED running

CondBranch ==
  /\ Reached("condbr")
  /\ \E b \in {Here.then, Here.else} : GoTo(b)
  /\ UNCHANGED <<pend, running>>

Ret ==
  /\ Reached("ret")
  /\ running' = "returned"
  /\ UNCHANGED <<at, ip, pend>>

ExecNext ==
  \/ Start \/ Plain \/ Open \/ Close \/ Register \/ RunDeferred
  \/ Branch \/ CondBranch \/ Ret

AllInit == Init /\ ExecInit

AllNext ==
  \/ Next /\ UNCHANGED execVars
  \/ ExecNext /\ UNCHANGED vars

AllSpec == AllInit /\ [][AllNext]_allVars

-----------------------------------------------------------------------------
ExecTypeOK ==
  /\ at \in IF running = "generating" THEN {0} ELSE DOMAIN blocks
  /\ ip \in Nat \ {0}
  /\ pend \in Seq(Seq(1..spent))
  /\ running \in {"generating", "running", "returned"}

(* Whatever path control takes, a deferred statement runs only while it is *)
(* owed, and the most recently registered one runs first: emit_defers and  *)
(* AstReturnStmt both emit in reverse order.                               *)
NewestDeferRunsFirst ==
  Reached("run") => Newest # 0 /\ Here.d = pend[Newest][Len(pend[Newest])]

(* A scope that control leaves at its end has run all its defers, and a    *)
(* return has run those of every open scope: no path loses one, apart from *)
(* break and continue (see JumpRunsDefers).                                *)
NothingOwedAtEnd ==
  /\ Reached("close") => pend[Len(pend)] = <<>>
  /\ Reached("ret") => Newest = 0

(* "Generate the defers for this scope": leaving a scope by break or       *)
(* continue runs its defers too.  (The code does not: BuildBr and nothing  *)
(* else.)                                                                  *)
JumpRunsDefers ==
  Reached("br") => \A k \in 0..(Here.leaves - 1) : pend[Len(pend) - k] = <<>>

(* Control never runs off the end of a block: every block that can be      *)
(* reached was given a terminator, the implicit return included.           *)
NoBlockFallsThrough == running = "running" => ip <= Len(blocks[at])

(* What Cg::verify demands of the generated function: a terminator at the  *)
(* end of every block and nowhere else.                                    *)
ModuleVerifies ==
  status = "done" =>
    \A b \in DOMAIN blocks :
      LET code == SelectSeq(blocks[b], IsEmitted)
      IN  \A i \in DOMAIN code : IsTerminator(code[i]) <=> i = Len(code)

(* emit_defers reads its scope where the scope is: the array of scopes is  *)
(* not moved under it.  BIRON_ASSERT(i < m_length) of Array::operator[]    *)
(* fails otherwise, on the emptied copy.                                   *)
DefersReadInPlace == status # "crashed"

=============================================================================
