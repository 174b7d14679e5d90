------------------------------- MODULE CgStmt -------------------------------
(***************************************************************************)
(* Lowering of one function's statements to LLVM basic blocks: the         *)
(* codegen() member functions of cg_stmt.cpp, AstFn::codegen around them   *)
(* and CgScope::emit_defers, with the stack of lexical scopes they share.  *)
(*                                                                         *)
(* The C++ code is a recursive walk of the syntax tree.  Here the tree is  *)
(* not built first: whenever the walk asks for the next statement of a     *)
(* block, any statement may come.  The variable calls is the C++ call      *)
(* stack; the part field of a frame says where it resumes.                 *)
(*                                                                         *)
(* Instructions carry no operands.  "open", "close" and "reg" are markers  *)
(* that no code emits: they record in the instruction stream where a scope *)
(* begins and ends and where control passes a defer statement, so that     *)
(* module CgStmtExec can tell what the running program was promised.       *)
(***************************************************************************)
EXTENDS Integers, Sequences, FiniteSets, SequencesExt

CONSTANTS
  Budget,       (* Bound: what the statements of the function may cost.    *)
  Cost,         (* What a statement of each form costs.                    *)
  InitialCaps   (* Capacities the array cg.scopes may have been left with  *)
                (* by the functions generated earlier.                     *)

Forms == {"block", "let", "defer", "defer block", "return", "break",
          "continue", "if", "if let", "for", "for ever", "error"}

ASSUME StmtAssumption ==
  /\ Budget \in Nat
  /\ Cost \in [Forms -> Nat \ {0}]
  /\ InitialCaps \subseteq Nat

VARIABLES
  scopes,    (* cg.scopes: each scope's defers and loop.                   *)
  storage,   (* The memory of that array: its capacity, and how often its  *)
             (* elements have been moved to new memory.                    *)
  calls,     (* Active codegen() calls, innermost last.                    *)
  blocks,    (* The function's basic blocks: sequences of instructions.    *)
  bb,        (* The block the IR builder appends to.                       *)
  spent,     (* The cost of the statements met so far.                     *)
  status     (* gen | done | failed (codegen returned false) | crashed     *)

vars == <<scopes, storage, calls, blocks, bb, spent, status>>

-----------------------------------------------------------------------------
(* Instructions and blocks                                                 *)

Entry == 1   \* cg.entry, where emit_alloca puts every alloca.

Op(o) == [op |-> o]
Reg(d) == [op |-> "reg", d |-> d]
Run(d) == [op |-> "run", d |-> d]
Br(b) == [op |-> "br", to |-> b, leaves |-> 0]
CondBr(b, c) == [op |-> "condbr", then |-> b, else |-> c]

\* A branch emitted for break or continue also leaves that many open scopes.
Jump(b, n) == [op |-> "br", to |-> b, leaves |-> n]

IsTerminator(i) == i.op \in {"br", "condbr", "ret"}
IsEmitted(i) == i.op \notin {"open", "close", "reg"}

\* Mutant: a block that holds any instruction passes for terminated.
HasTerminator_Mutant(b) == \E i \in DOMAIN blocks[b] : IsEmitted(blocks[b][i])

\* LLVM's GetBasicBlockTerminator: the last instruction, if it is a terminator.
HasTerminator(b) ==
  \E i \in DOMAIN blocks[b] :
    /\ IsTerminator(blocks[b][i])
    /\ \A j \in (i + 1)..Len(blocks[b]) : ~IsEmitted(blocks[b][j])

\* Blocks bs with instruction i at the end of block b.
Put(bs, b, i) == [bs EXCEPT ![b] = Append(@, i)]
With(b, i) == Put(blocks, b, i)

\* Mutant: one block too few.
Grown_Mutant(bs, n) == bs \o [k \in 1..(n - 1) |-> <<>>]

\* n blocks more.
Grown(bs, n) == bs \o [k \in 1..n |-> <<>>]

-----------------------------------------------------------------------------
(* The array of scopes                                                     *)

NoLoop == [post |-> 0, exit |-> 0]

Scope(loop) == [defers |-> <<>>, loop |-> loop]

\* Capacities come from the growth rule, started again from 0 at each move.
GrownCapacity(n) ==
  LET grow[c \in Nat] == IF c >= n THEN c ELSE grow[((c + 1) * 3) \div 2]
  IN  grow[0]

\* Array::reserve: room for n elements.  An array that is exactly full after
\* the push is moved as well, the test being < and not <=.
Reserve(s, n) ==
  IF n < s.cap THEN s
  ELSE [cap |-> GrownCapacity(n), moves |-> s.moves + 1]

Push(scope) ==
  /\ scopes' = Append(scopes, scope)
  /\ storage' = Reserve(storage, Len(scopes) + 1)

\* Mutant: the innermost scope passes for the one of the loop.
LoopScope_Mutant == Len(scopes)

\* Cg::loop: the index of the lexically closest scope with a loop, or 0.
LoopScope ==
  LET with == {i \in DOMAIN scopes : scopes[i].loop # NoLoop}
  IN  IF with = {} THEN 0 ELSE CHOOSE i \in with : \A j \in with : j <= i

-----------------------------------------------------------------------------
(* The call stack.  base is a ghost: the number of scopes at the call.     *)

Top == calls[Len(calls)]
Below == Front(calls)
Resume(p) == [calls EXCEPT ![Len(calls)].part = p]

FnCall == [op |-> "fn", part |-> "body", base |-> 0]
BlockCall(n) == [op |-> "block", part |-> "stmts", base |-> n]
\* Mutant: a return skips the innermost scope.
ReturnCall_Mutant(n) == [op |-> "return", part |-> "defers", base |-> n, scope |-> n - 1]

ReturnCall(n) == [op |-> "return", part |-> "defers", base |-> n, scope |-> n]

\* CgScope::emit_defers on scope i.  It holds the address the scope had when
\* it was called: moves tells whether that address is still the scope's.
EmitCall(n, i) == [op |-> "emit", part |-> "defers", base |-> n, scope |-> i,
                   next |-> Len(scopes[i].defers), moves |-> storage.moves]

\* Where a call resumes after the block statement it has just begun.
AfterBlock == [body |-> "return", stmts |-> "stmts", then |-> "endthen",
               else |-> "endelse", loop |-> "post", forelse |-> "exit"]

At(part) == status = "gen" /\ Top.part = part

\* One more statement of that form, if the bound admits it.
Meet(form) ==
  /\ spent' = spent + Cost[form]
  /\ spent' <= Budget

\* The next statement of a block has that form.
Stmt(form) == At("stmts") /\ Meet(form)

-----------------------------------------------------------------------------
Init ==
  /\ scopes = <<Scope(NoLoop)>>
  /\ \E c \in InitialCaps : storage = Reserve([cap |-> c, moves |-> 0], 1)
  /\ calls = <<FnCall>>
  /\ blocks = <<<<>>, <<Op("open")>>>>
  /\ bb = 2
  /\ spent = 0
  /\ status = "gen"

(* AstBlockStmt::codegen up to its loop over the statements: the block of  *)
(* a function, an if or a for, or a block statement.                       *)
EnterBlock ==
  /\ status = "gen"
  /\ Top.part \in DOMAIN AfterBlock
  /\ IF Top.part = "stmts" THEN Meet("block") ELSE UNCHANGED spent
  /\ calls' = Append(Resume(AfterBlock[Top.part]), BlockCall(Len(scopes)))
  /\ Push(Scope(NoLoop))
  /\ blocks' = With(bb, Op("open"))
  /\ UNCHANGED <<bb, status>>

\* The statements are done: emit the scope's defers.
LeaveBlock ==
  /\ At("stmts")
  /\ calls' = Append(Resume("pop"), EmitCall(Len(scopes), Len(scopes)))
  /\ UNCHANGED <<scopes, storage, blocks, bb, spent, status>>

\* ... and pop it.
PopBlock ==
  /\ At("pop")
  /\ calls' = Below
  /\ scopes' = Front(scopes)
  /\ blocks' = With(bb, Op("close"))
  /\ UNCHANGED <<storage, bb, spent, status>>

(* CgScope::emit_defers, last registered first.                            *)
EmitDefer ==
  /\ At("defers")
  /\ Top.op = "emit"
  /\ Top.next > 0
  /\ IF Top.moves = storage.moves
       THEN LET d == scopes[Top.scope].defers[Top.next]
            IN  /\ calls' = [calls EXCEPT ![Len(calls)].next = @ - 1]
                /\ blocks' = With(bb, Run(d.id))
                \* A deferred block has a scope of its own while it is emitted.
                /\ storage' = IF d.block THEN Reserve(storage, Len(scopes) + 1)
                              ELSE storage
                /\ UNCHANGED status
       \* defers[i] of a scope that was moved: the old copy is empty and freed.
       ELSE status' = "crashed" /\ UNCHANGED <<calls, blocks, storage>>
  /\ UNCHANGED <<scopes, bb, spent>>

DefersEmitted ==
  /\ At("defers")
  /\ Top.op = "emit"
  /\ Top.next = 0
  /\ calls' = Below
  /\ UNCHANGED <<scopes, storage, blocks, bb, spent, status>>

-----------------------------------------------------------------------------
\* Mutant: a defer goes in front of the earlier ones.
Defer_Mutant(block) ==
  /\ Stmt(IF block THEN "defer block" ELSE "defer")
  /\ scopes' = [scopes EXCEPT ![Len(scopes)].defers =
                  <<[id |-> spent', block |-> block]>> \o @]
  /\ blocks' = With(bb, Reg(spent'))
  /\ UNCHANGED <<storage, calls, bb, status>>

(* AstDeferStmt::codegen.  block: the deferred statement is a block.       *)
Defer(block) ==
  /\ Stmt(IF block THEN "defer block" ELSE "defer")
  /\ scopes' = [scopes EXCEPT ![Len(scopes)].defers =
                  Append(@, [id |-> spent', block |-> block])]
  /\ blocks' = With(bb, Reg(spent'))
  /\ UNCHANGED <<storage, calls, bb, status>>

(* AstLetStmt::codegen and AstUsingStmt::codegen: storage in the entry     *)
(* block, the initialisation here.                                         *)
Let ==
  /\ Stmt("let")
  /\ blocks' = Put(With(Entry, Op("alloca")), bb, Op("store"))
  /\ UNCHANGED <<scopes, storage, calls, bb, status>>

(* AstReturnStmt::codegen: every scope's defers, innermost scope first.    *)
Return ==
  /\ Stmt("return")
  /\ calls' = Append(calls, ReturnCall(Len(scopes)))
  /\ UNCHANGED <<scopes, storage, blocks, bb, status>>

ReturnScope ==
  /\ At("defers")
  /\ Top.op = "return"
  /\ Top.scope > 0
  /\ calls' = Append([calls EXCEPT ![Len(calls)].scope = @ - 1],
                     EmitCall(Len(scopes), Top.scope))
  /\ UNCHANGED <<scopes, storage, blocks, bb, spent, status>>

ReturnValue ==
  /\ At("defers")
  /\ Top.op = "return"
  /\ Top.scope = 0
  /\ calls' = Below
  /\ blocks' = With(bb, Op("ret"))
  /\ UNCHANGED <<scopes, storage, bb, spent, status>>

(* AstBreakStmt::codegen and AstContinueStmt::codegen.                     *)
JumpTo(field) ==
  /\ IF LoopScope = 0
       THEN status' = "failed" /\ UNCHANGED blocks
       ELSE /\ blocks' = With(bb, Jump(scopes[LoopScope].loop[field],
                                       Len(scopes) - LoopScope))
            /\ UNCHANGED status
  /\ UNCHANGED <<scopes, storage, calls, bb>>

Break == Stmt("break") /\ JumpTo("exit")
Continue == Stmt("continue") /\ JumpTo("post")

-----------------------------------------------------------------------------
(* AstIfStmt::codegen up to the then block, as a statement or as the else  *)
(* of another if.  init: it has a let of its own, in a scope of its own.   *)
If(init, hasElse) ==
  /\ status = "gen"
  /\ Top.part \in {"stmts", "else"}
  /\ Meet(IF init THEN "if let" ELSE "if")
  /\ LET then == Len(blocks) + 1
         join == Len(blocks) + 2
         else == IF hasElse THEN Len(blocks) + 3 ELSE join
     IN  /\ calls' = Append(
               IF Top.part = "else" THEN Resume("endelse") ELSE calls,
               [op |-> "if", part |-> "then", base |-> Len(scopes),
                init |-> init, join |-> join, else |-> else])
         /\ blocks' = Grown(Put(IF init THEN With(bb, Op("open")) ELSE blocks,
                                bb, CondBr(then, else)),
                            else - Len(blocks))
         /\ bb' = then
  /\ IF init THEN Push(Scope(NoLoop)) ELSE UNCHANGED <<scopes, storage>>
  /\ UNCHANGED status

\* An arm that has not terminated goes to the join block.
ArmJoined == IF HasTerminator(bb) THEN blocks ELSE With(bb, Br(Top.join))

\* Mutant: the scope of the let is never popped.
JoinArms_Mutant ==
  /\ blocks' = ArmJoined
  /\ bb' = Top.join
  /\ calls' = Below
  /\ UNCHANGED scopes

\* The end of AstIfStmt::codegen: join the arms, drop the scope of the let.
JoinArms ==
  /\ bb' = Top.join
  /\ calls' = Below
  /\ IF Top.init
       THEN /\ scopes' = Front(scopes)
            /\ blocks' = Put(ArmJoined, Top.join, Op("close"))
       ELSE scopes' = scopes /\ blocks' = ArmJoined

EndThen ==
  /\ At("endthen")
  /\ IF Top.else = Top.join THEN JoinArms
     ELSE /\ blocks' = ArmJoined
          /\ bb' = Top.else
          /\ calls' = Resume("else")
          /\ UNCHANGED scopes
  /\ UNCHANGED <<storage, spent, status>>

EndElse ==
  /\ At("endelse")
  /\ JoinArms
  /\ UNCHANGED <<storage, spent, status>>

-----------------------------------------------------------------------------
(* AstForStmt::codegen up to the body.  cond: it has a condition.          *)
For(cond, hasElse) ==
  /\ Stmt(IF cond THEN "for" ELSE "for ever")
  /\ LET n == Len(blocks)
         f == [op |-> "for", part |-> "loop", base |-> Len(scopes),
               loop |-> n + 1, post |-> n + 3, else |-> n + 4, exit |-> n + 5,
               hasElse |-> hasElse]
         test == IF cond THEN CondBr(n + 2, n + 4) ELSE Br(n + 2)
     IN  /\ Push(Scope([post |-> f.post, exit |-> f.exit]))
         /\ calls' = Append(calls, f)
         /\ blocks' = Put(Grown(Put(With(bb, Op("open")), bb, Br(f.loop)), 5),
                          f.loop, test)
         /\ bb' = n + 2
  /\ UNCHANGED status

\* After the body: the post block, back to the test; then the else block.
EndBody ==
  /\ At("post")
  /\ blocks' = Put(With(bb, Br(Top.post)), Top.post, Br(Top.loop))
  /\ bb' = Top.else
  /\ calls' = Resume(IF Top.hasElse THEN "forelse" ELSE "exit")
  /\ UNCHANGED <<scopes, storage, spent, status>>

\* Mutant: the scope of the loop is never popped.
EndFor_Mutant ==
  /\ At("exit")
  /\ blocks' = With(bb, Br(Top.exit))
  /\ bb' = Top.exit
  /\ calls' = Below
  /\ UNCHANGED <<scopes, storage, spent, status>>

EndFor ==
  /\ At("exit")
  /\ blocks' = Put(With(bb, Br(Top.exit)), Top.exit, Op("close"))
  /\ bb' = Top.exit
  /\ calls' = Below
  /\ scopes' = Front(scopes)
  /\ UNCHANGED <<storage, spent, status>>

-----------------------------------------------------------------------------
(* The end of AstFn::codegen: the entry block gets its terminator, the     *)
(* last block an implicit return if it has none.                           *)
EndFn ==
  /\ At("return")
  /\ blocks' = LET left == Put(With(Entry, Br(2)), bb, Op("close"))
               IN  IF HasTerminator(bb) THEN left ELSE Put(left, bb, Op("ret"))
  /\ scopes' = Front(scopes)
  /\ calls' = Below
  /\ status' = "done"
  /\ UNCHANGED <<storage, bb, spent>>

(* A statement whose expression does not generate: every caller returns    *)
(* false in turn and nothing is undone.                                    *)
StmtFails ==
  /\ Stmt("error")
  /\ status' = "failed"
  /\ UNCHANGED <<scopes, storage, calls, blocks, bb>>

Next ==
  \/ EnterBlock \/ LeaveBlock \/ PopBlock
  \/ EmitDefer \/ DefersEmitted
  \/ \E block \in BOOLEAN : Defer(block)
  \/ Let
  \/ Return \/ ReturnScope \/ ReturnValue
  \/ Break \/ Continue
  \/ \E init, hasElse \in BOOLEAN : If(init, hasElse)
  \/ EndThen \/ EndElse
  \/ \E cond, hasElse \in BOOLEAN : For(cond, hasElse)
  \/ EndBody \/ EndFor
  \/ EndFn
  \/ StmtFails

Spec == Init /\ [][Next]_vars

-----------------------------------------------------------------------------
(* The type invariant: what cg.scopes, the call stack and the emitted      *)
(* blocks hold while a function is generated.                              *)

BlockIds == Nat \ {0}

Instr ==
  [op : {"open", "close", "alloca", "store", "ret"}]
    \union [op : {"reg", "run"}, d : Nat]
    \union [op : {"br"}, to : Nat, leaves : Nat]
    \union [op : {"condbr"}, then : Nat, else : Nat]

ScopeType == [defers : Seq([id : Nat, block : BOOLEAN]),
              loop : [post : Nat, exit : Nat]]

CallType ==
  [op : {"fn"}, part : {"body", "return"}, base : Nat]
    \union [op : {"block"}, part : {"stmts", "pop"}, base : Nat]
    \union [op : {"return"}, part : {"defers"}, base : Nat, scope : Nat]
    \union [op : {"emit"}, part : {"defers"}, base : Nat, scope : Nat,
            next : Nat, moves : Nat]
    \union [op : {"if"}, part : {"then", "endthen", "else", "endelse"},
            base : Nat, init : BOOLEAN, join : BlockIds, else : BlockIds]
    \union [op : {"for"}, part : {"loop", "post", "forelse", "exit"},
            base : Nat, loop : BlockIds, post : BlockIds, else : BlockIds,
            exit : BlockIds, hasElse : BOOLEAN]

TypeOK ==
  /\ scopes \in Seq(ScopeType)
  /\ storage.moves \in Nat
  /\ calls \in Seq(CallType)
  /\ blocks \in Seq(Seq(Instr))
  /\ bb \in DOMAIN blocks
  /\ spent \in Nat
  /\ status \in {"gen", "done", "failed", "crashed"}

(* How many scopes a suspended or running call owns: the function and each *)
(* block and for statement one, an if statement one when it has a let.     *)
Owned(c) ==
  CASE c.op \in {"fn", "block", "for"} -> 1
    [] c.op = "if" -> IF c.init THEN 1 ELSE 0
    [] OTHER -> 0

(* Calls cs account for n scopes: each began with what its callers own.    *)
Accounts(cs, n) ==
  /\ cs # <<>>
  /\ cs[1].base = 0
  /\ \A i \in 2..Len(cs) : cs[i].base = cs[i-1].base + Owned(cs[i-1])
  /\ n = cs[Len(cs)].base + Owned(cs[Len(cs)])

(* Every call finds on return the scopes it had when it was called: the    *)
(* scope stack is exactly what the active calls own, whatever statements   *)
(* come between a push and its pop.                                        *)
ScopesAreOwned == status = "gen" => Accounts(calls, Len(scopes))

(* What the walk relies on besides: the function is called once and at the *)
(* bottom, emit_defers calls nothing that this stack records, and the      *)
(* blocks and scopes that calls refer to exist.                            *)
SoundCall(c, i, n, nblocks) ==
  /\ c.op = "fn" <=> i = 1
  /\ c.op = "emit" => i = n
  /\ c.op = "return" => c.scope <= c.base
  /\ c.op = "if" => c.join <= nblocks /\ c.else <= nblocks
  /\ c.op = "for" => /\ c.loop <= nblocks /\ c.post <= nblocks
                    /\ c.else <= nblocks /\ c.exit <= nblocks

Sound(cs, nblocks) ==
  \A i \in 1..Len(cs) : SoundCall(cs[i], i, Len(cs), nblocks)

EmitInRange ==
  Top.op = "emit" => /\ Top.scope \in DOMAIN scopes
                     /\ Top.next <= Len(scopes[Top.scope].defers)

CallsAreSound == status = "gen" => Sound(calls, Len(blocks)) /\ EmitInRange

(* "When starting a new function we expect cg.scopes is empty": a function *)
(* that was generated leaves the stack as AstFn::codegen asserts to find   *)
(* it for the next one.                                                    *)
NextFnFindsNoScopes == status = "done" => scopes = <<>>

=============================================================================
