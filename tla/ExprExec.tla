------------------------------ MODULE ExprExec ------------------------------
(***************************************************************************)
(* An expression is lowered in one of the places a program can write it,   *)
(* and the code that comes out is run.                                     *)
(*                                                                         *)
(* LLVM and the callees are the environment: the instructions do what the  *)
(* LLVM reference says, a call answers anything its type allows and leaves *)
(* memory alone.  What the code does is compared with what the expression  *)
(* says, read from left to right: Meaning.                                 *)
(***************************************************************************)
EXTENDS ExprCodegen

CONSTANTS
  Uses,      (* [expr, place, want]: what is lowered, where, for what type. *)
  Memories,  (* The values the variables may have: sets of functions.      *)
  Answers(_),(* The values a call may answer, given their type.            *)
  Poison     (* The value of what LLVM leaves undefined.                   *)

VARIABLES
  use,     \* what is being compiled
  phase,   \* "generate", "run", then one of Ends
  cg,      \* the code generator
  mem,     \* root -> the value there
  regs,    \* the results of the instructions: <<block, index>> -> value
  at,      \* the instruction that is next
  prev,    \* the block control came from
  calls,   \* the calls made: [fn, args, answer]
  result   \* [side, v]: what was returned, on which side of an if

vars == <<use, phase, cg, mem, regs, at, prev, calls, result>>

Ends == {"done",       \* returned
         "rejected",   \* the compiler said no
         "stuck",      \* the compiler did what C++ leaves undefined
         "undefined"}  \* the program did what LLVM leaves undefined

-----------------------------------------------------------------------------
(* Lowering in its place                                                   *)

Start == [blocks |-> <<<<>>>>, cur |-> 1, allocas |-> <<>>, tests |-> <<>>,
          stuck |-> FALSE]

Ret(side, v) == Emit(v.cg, "ret", NoType, <<v>>, <<side>>)

\* Mutant: the aliases of a condition are kept.
ClearTests_Mutant(c) == c

ClearTests(c) == [c EXCEPT !.tests = <<>>]

\* if cond { return name; } return name;  AstIfStmt::codegen with the name
\* that the condition may have tested.
IfValue(cond, name) ==
  LET var == [n |-> "Var", name |-> name]
      n == Len(cond.cg.blocks)
      branched == BuildCondBr(CreateBlocks(cond.cg, 2), cond, n + 1, n + 2)
  IN  With(VarValue(PositionAtEnd(branched, n + 1), var), LAMBDA then :
        With(VarValue(PositionAtEnd(ClearTests(Ret(1, then)), n + 2), var), LAMBDA after :
          [after EXCEPT !.cg = Ret(0, after)]))

\* AstLetStmt::codegen_global: the constant that is the initial value.
GlobalValue(e) ==
  With(eval_value(Start, e), LAMBDA c :
    CASE c.kind = "none" -> None(Start)
      [] c.kind = "stuck" -> unreachable(Start)
      [] OTHER -> Typed(Start, gen_type(Start, e, NoType),
                        LAMBDA t : const_codegen(Start, c, t)))

Lowered(u) ==
  Then(IF u.place = "global" THEN GlobalValue(u.expr)
       ELSE gen_value(Start, u.expr, u.want), LAMBDA v :
    IF u.place = "if" THEN IfValue(v, u.name) ELSE [v EXCEPT !.cg = Ret(0, v)])

-----------------------------------------------------------------------------
(* Memory                                                                  *)

\* The part of a value at the end of a path, Poison if there is none.
RECURSIVE PartAt(_, _)
PartAt(v, path) ==
  CASE v = Poison \/ path = <<>> -> v
    [] v # Poison /\ path # <<>> ->
         IF Head(path) + 1 \in DOMAIN v THEN PartAt(v[Head(path) + 1], Tail(path))
         ELSE Poison

RECURSIVE WithPart(_, _, _)
WithPart(v, path, x) ==
  IF path = <<>> THEN x
  ELSE [v EXCEPT ![Head(path) + 1] = WithPart(@, Tail(path), x)]

\* A place that can be read and written.
RECURSIVE Exists(_, _)
Exists(v, path) ==
  path # <<>> => /\ v # Poison /\ Head(path) + 1 \in DOMAIN v
                 /\ Exists(v[Head(path) + 1], Tail(path))

Read(m, p) == PartAt(m[p.root], p.path)
CanReach(m, p) == p # Poison /\ p.root \in DOMAIN m /\ Exists(m[p.root], p.path)

\* An index of fewer than 64 bits is signed to LLVM.
IndexOf(type, n) == IF Width(type) < Width(U64) THEN Signed(n, Width(type)) ELSE n

-----------------------------------------------------------------------------
(* Instructions                                                            *)

Real(type) == type.kind = "real"
Bit(b) == IF b THEN 1 ELSE 0

\* Division towards zero.
Quotient(x, y) ==
  LET abs(n) == IF n < 0 THEN -n ELSE n
      q == abs(x) \div abs(y)
  IN  IF (x < 0) = (y < 0) THEN q ELSE -q

\* The instructions on numbers, from the type of the first operand.
OnNumbers(op, from, to, x, y) ==
  LET w == Width(from)
      sx == Signed(x, w)
      sy == Signed(y, w)
      wrap(n) == IF Real(to) THEN n ELSE Wrap(to, n)
      orPoison(ok, n) == IF ok THEN n ELSE Poison
  IN  CASE op = "add" -> wrap(x + y)
        [] op = "sub" -> wrap(x - y)
        [] op = "mul" -> wrap(x * y)
        [] op = "div" -> orPoison(y # 0, Quotient(x, y))
        [] op = "udiv" -> orPoison(y # 0, x \div y)
        [] op = "sdiv" -> orPoison(y # 0 /\ ~(sx = -(2^(w - 1)) /\ sy = -1),
                                   wrap(Quotient(sx, sy)))
        [] op \in {"eq", "oeq"} -> Bit(x = y)
        [] op \in {"ne", "one"} -> Bit(x # y)
        [] op \in {"ult", "olt"} -> Bit(x < y)
        [] op \in {"ule", "ole"} -> Bit(x <= y)
        [] op \in {"ugt", "ogt"} -> Bit(x > y)
        [] op \in {"uge", "oge"} -> Bit(x >= y)
        [] op = "slt" -> Bit(sx < sy)
        [] op = "sle" -> Bit(sx <= sy)
        [] op = "sgt" -> Bit(sx > sy)
        [] op = "sge" -> Bit(sx >= sy)
        [] op = "or" -> x | y
        [] op = "and" -> x & y
        [] op = "shl" -> orPoison(y < w, wrap(x * 2^y))
        [] op = "lshr" -> orPoison(y < w, x \div 2^y)
        [] op = "ashr" -> orPoison(y < w, wrap(sx \div 2^y))
        [] op = "not" -> 2^w - 1 - x
        [] op = "neg" -> wrap(-x)
        [] op = "fneg" -> -x
        [] op = "sext" -> wrap(sx)
        [] op \in {"zext", "trunc", "from real"} -> wrap(x)
        [] op = "to real" -> IF from.kind = "sint" THEN sx ELSE x
        [] op = "bitcast" -> IF to.kind = "pointer" THEN x ELSE wrap(x)
        [] op \in {"from pointer", "to pointer"} -> Poison  \* Which address is not said.

\* Operands the verifier lets pass.
Takes(op, type) ==
  CASE op \in {"neg", "not"} -> IsInteger(type) \/ type.kind = "bool"
    [] op = "condbr" -> type.kind = "bool"
    [] OTHER -> TRUE

\* The result of an instruction whose operands have the types from.
Computed(op, from, to, v) ==
  CASE op = "select" -> IF v[1] = Poison THEN Poison ELSE IF v[1] = 1 THEN v[2] ELSE v[3]
    [] op # "select" /\ Poison \in {v[i] : i \in DOMAIN v} -> Poison
    [] ~Takes(op, from[1]) -> Poison
    [] op = "gep" /\ v[1] # Poison /\ v[2] # Poison ->
         [v[1] EXCEPT !.path = Append(@, IndexOf(from[2], v[2]))]
    [] op = "offset" /\ v[1] # Poison /\ v[2] # Poison ->
         LET n == IndexOf(from[2], v[2])
         IN  CASE n = 0 -> v[1]
               [] n # 0 /\ v[1].path = <<>> -> Poison
               [] OTHER -> [v[1] EXCEPT !.path[Len(v[1].path)] = @ + n]
    [] op = "extract" /\ v[1] # Poison -> PartAt(v[1], <<v[2]>>)
    [] OTHER -> OnNumbers(op, from[1], to, v[1], IF Len(v) > 1 THEN v[2] ELSE 0)

-----------------------------------------------------------------------------
(* Running                                                                 *)

Instr == cg.blocks[at[1]][at[2]]

ValueOf(ref) ==
  CASE ref.at = "const" -> ref.v
    [] ref.at = "result" -> IF <<ref.b, ref.i>> \in DOMAIN regs
                            THEN regs[<<ref.b, ref.i>>] ELSE Poison
    [] ref.at = "root" -> ref

Arg(i) == ValueOf(Instr.args[i].ref)
ArgValues == [i \in DOMAIN Instr.args |-> Arg(i)]
ArgTypes == [i \in DOMAIN Instr.args |-> Instr.args[i].type]

Keep(v) == regs' = [r \in DOMAIN regs \cup {at} |-> IF r = at THEN v ELSE regs[r]]
Step == at' = <<at[1], at[2] + 1>>

\* What a callee can tell of an argument: of an alloca, what is in it.
Seen(type, v) ==
  IF type.kind = "pointer" /\ v # Poison /\ v.root[1] = "alloca"
  THEN <<"alloca", Read(mem, v)>> ELSE v

\* Memory says the same at two places, or may do so where more bytes are
\* compared than a boolean was given.
MayEqual(type, x, y) ==
  LET wide == \E t \in {type} \cup {type.types[i] : i \in DOMAIN type.types} :
                t.kind = "bool" /\ t.size > 1
  IN  IF x # y THEN {0} ELSE IF wide THEN {0, 1} ELSE {1}

InMemory == {"load", "store", "bytes eq", "bytes ne"}
Control == {"call", "br", "condbr", "phi", "ret"}

Init ==
  /\ use \in Uses
  /\ phase = "generate"
  /\ cg = Start
  /\ mem \in Memories
  /\ regs = <<>>
  /\ at = <<1, 1>>
  /\ prev = 0
  /\ calls = <<>>
  /\ result = [side |-> 0, v |-> Poison]

\* The whole of the lowering.
Compiled(low) ==
  /\ cg' = low.cg
  /\ phase' = CASE low.cg.stuck -> "stuck"
                [] ~low.cg.stuck /\ ~low.ok -> "rejected"
                [] OTHER -> "run"
  /\ mem' = mem @@ [r \in {<<"alloca", i, "">> : i \in DOMAIN low.cg.allocas} |->
                      Filled(low.cg.allocas[r[2]], Poison)]

Generate ==
  /\ phase = "generate"
  /\ Compiled(Lowered(use))
  /\ UNCHANGED <<use, regs, at, prev, calls, result>>

Compute ==
  /\ phase = "run"
  /\ Instr.op \notin InMemory \cup Control
  /\ Keep(Computed(Instr.op, ArgTypes, Instr.type, ArgValues))
  /\ Step
  /\ UNCHANGED <<use, phase, cg, mem, prev, calls, result>>

Load ==
  /\ phase = "run"
  /\ Instr.op = "load"
  /\ CanReach(mem, Arg(1))
  /\ Keep(Read(mem, Arg(1)))
  /\ Step
  /\ UNCHANGED <<use, phase, cg, mem, prev, calls, result>>

Store ==
  /\ phase = "run"
  /\ Instr.op = "store"
  /\ CanReach(mem, Arg(2))
  /\ mem' = [mem EXCEPT ![Arg(2).root] = WithPart(@, Arg(2).path, Arg(1))]
  /\ Step
  /\ UNCHANGED <<use, phase, cg, regs, prev, calls, result>>

\* __biron_runtime_memory_eq and memory_ne.
Compare ==
  /\ phase = "run"
  /\ Instr.op \in {"bytes eq", "bytes ne"}
  /\ CanReach(mem, Arg(1)) /\ CanReach(mem, Arg(2))
  /\ \E same \in MayEqual(deref(ArgTypes[1]), Read(mem, Arg(1)), Read(mem, Arg(2))) :
       Keep(IF Instr.op = "bytes eq" THEN same ELSE 1 - same)
  /\ Step
  /\ UNCHANGED <<use, phase, cg, mem, prev, calls, result>>

\* A callee answers.
Call ==
  /\ phase = "run"
  /\ Instr.op = "call"
  /\ Arg(1) # Poison
  /\ \E answer \in Answers(Instr.type) :
       /\ Keep(answer)
       /\ calls' = Append(calls,
            [fn |-> Arg(1).root[3], answer |-> answer,
             args |-> [i \in 1..(Len(ArgValues) - 1) |->
                         Seen(ArgTypes[i + 1], ArgValues[i + 1])]])
  /\ Step
  /\ UNCHANGED <<use, phase, cg, mem, prev, result>>

Branch ==
  /\ phase = "run"
  /\ Instr.op \in {"br", "condbr"}
  /\ Instr.op = "condbr" => Arg(1) # Poison
  /\ LET to == IF Instr.op = "br" \/ Arg(1) = 1 THEN Instr.to[1] ELSE Instr.to[2]
     IN  at' = <<to, 1>>
  /\ prev' = at[1]
  /\ UNCHANGED <<use, phase, cg, mem, regs, calls, result>>

Phi ==
  /\ phase = "run"
  /\ Instr.op = "phi"
  /\ \E i \in DOMAIN Instr.to : Instr.to[i] = prev /\ Keep(Arg(i))
  /\ Step
  /\ UNCHANGED <<use, phase, cg, mem, prev, calls, result>>

Return ==
  /\ phase = "run"
  /\ Instr.op = "ret"
  /\ phase' = "done"
  /\ result' = [side |-> Instr.to[1], v |-> Arg(1)]
  /\ UNCHANGED <<use, cg, mem, regs, at, prev, calls>>

\* The next instruction reads or writes a place that does not exist, or it
\* branches on poison.
Faults ==
  \/ Instr.op \in {"load", "bytes eq", "bytes ne"} /\ ~CanReach(mem, Arg(1))
  \/ Instr.op \in {"store", "bytes eq", "bytes ne"} /\ ~CanReach(mem, Arg(2))
  \/ Instr.op \in {"condbr", "call"} /\ Arg(1) = Poison

Undefined ==
  /\ phase = "run"
  /\ Faults
  /\ phase' = "undefined"
  /\ UNCHANGED <<use, cg, mem, regs, at, prev, calls, result>>

Next ==
  \/ Generate \/ Compute \/ Load \/ Store \/ Compare
  \/ Call \/ Branch \/ Phi \/ Return \/ Undefined

Spec == Init /\ [][Next]_vars

=============================================================================
