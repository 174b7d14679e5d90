# Rox in TLA+

Specifications of Biron, the compiler of the Rox repository (`src/biron`), model-checked
with TLC and in part proved with TLAPS.

Biron is one sequential pass: `main` reads the source files and, for each, runs
Lexer → Parser → syntax tree → Cg (LLVM lowering) → LLVM's verifier, optimiser and object
writer. No thread runs beside it. What is hard here is not concurrency: it is state that
outlives the call that set it. The parser keeps a flag and attributes across its recursion.
The code generator is a recursive walk that pushes and pops scopes, appends to whatever block
the builder is in, generates declarations on demand out of source order, and keeps references
into arrays that move when they grow.

## The system

| Component | State | Operations | Speaks to |
|---|---|---|---|
| Lexer (`lexer.*`) | the source text, `m_offset` | `next` | read by Parser, Diagnostic |
| Parser (`parser.*`) | one token of lookahead, `m_in_defer`, an arena and one node cache per node size | `parse`, `parse_stmt`, `parse_expr`, … | fills AstUnit |
| Syntax tree (`ast_*`) | declarations by kind; `m_generated` of a type or effect | `add_*`, `assign_module`, `add_import`; the walks `codegen`, `gen_*`, `eval_value` | walked by Cg |
| Unit lowering (`cg_unit.cpp`) | `cg.globals`, `cg.typedefs`, `cg.effects`, `cg.fns` | `AstUnit::codegen`, `AstFn::prepass`, `AstFn::codegen`, `AstTypedef::codegen`, `AstEffect::codegen` | calls types, statements |
| Statement lowering (`cg_stmt.cpp`, `cg.h`) | `cg.scopes`, the LLVM blocks, the builder's place | `codegen` of each statement, `CgScope::emit_defers`, `Cg::loop` | calls expressions |
| Expressions (`cg_expr.cpp`, `cg_value.cpp`) | tests of the innermost scope, the blocks of `&&` and `||` | `gen_value`, `gen_addr`, `gen_type`, `eval_value` | reads scopes, makes types |
| Types (`cg_type.*`) | the cache of types, the cache of paddings | `CgTypeCache::make`, `ensure_padding`, `operator!=`; `codegen` of each syntactic type | LLVM types |
| Cg and LLVM (`cg.cpp`, `llvm.*`) | module, builder, `entry` | `emit_alloca`, `verify`, `optimize`, `emit` | LLVM, a shared library |
| Allocators (`util/allocator.*`) | offsets, chunks, byte counters | `allocate`, `deallocate`, `clear` | under everything |
| Containers (`util/array.inl`, `util/pool.*`) | length, capacity, occupied bits | `reserve`, `emplace_back`, `resize`, `pop_back`, `allocate` | allocators |
| System, strings, diagnostics, driver | files, formatting, stages | — | — |

What must hold, component by component:

* **Statement lowering.** Scopes are popped exactly where their statement ends. On every path
  of the generated code each deferred statement runs once, newest first. Control never runs
  off a block, and the function is one that LLVM's verifier accepts. Nothing is left in
  `cg.scopes` for the next function.
* **Unit lowering.** Everything declared is generated, once, after what it refers to, whatever
  the order in the source; the search ends; a name means one declaration.
* **Types.** The size Biron computes is the size LLVM gives; elements are aligned; indices
  count declared elements and not paddings.
* **Expressions.** Short-circuit operators join their arms; a test's alias lives as long as
  the test holds; constants fold as the code would compute.
* **Parser, lexer.** No token is lost or read twice; `return` is refused inside `defer`;
  attributes go to the declaration they precede.
* **Allocators, containers.** Live blocks are disjoint and within their memory; nothing is
  used after it moved; a request that can be served is.

`PROJECT.json` lists the hazards behind these, each at its line.

## Modules

| Module | Models | State ↔ code |
|---|---|---|
| `CgStmt` | `cg_stmt.cpp`, `AstFn::codegen` around the body, `CgScope::emit_defers`, `Cg::loop`, `Array::reserve` of `cg.scopes` | `scopes` is `cg.scopes`; `storage` its capacity and how often it moved; `calls` the C++ call stack; `blocks`, `bb` the LLVM blocks and the builder's place |
| `CgStmtExec` | the generated code, run | `at`, `ip` a program counter; `pend` what the source program is owed |
| `DependencyOrder` | what `AstUnit::codegen` promises: every step adds a declaration whose references are met | `needs`, `built` |
| `UnitCodegen` | `AstUnit::codegen`, `AstTypedef::codegen`, `AstEffect::codegen`, `AstIdentType::codegen`, `AstVarExpr::eval_value` | `unit` the AstUnit; `stack` the active calls; `made` is `cg.globals`, `typedefs`, `effects`, `fns` and `m_generated` |
| `TypeLayout` | `CgTypeCache`: every `make` that lays a type out, `ensure_padding`, `Array::resize` of its cache | `types` is `m_cache`; `padding` is `m_padding_cache`; `job` the `make` whose loop is running |
| `TupleIndex` | from declared elements to physical ones: `CgType::at_virt`, `CgAddr::at_virt`, `AstAccessExpr`, the stores of `AstTupleExpr`, `AstAggExpr` and `AstConst`, the parameters of `make(FnInfo)`, `operator!=` | operators over `types` |
| `Parser` | `parser.cpp`: every parse function; `AstUnit::assign_module`, `add_import` | `text` what the lexer has left; `peeked` is `m_peek_token`; `todo` the C++ call stack; `nodes` the nodes not yet part of another; `attrs` the attribute array of each active `parse` and `parse_type`; `inDefer` is `m_in_defer` |
| `CgEmit` | values and addresses (`cg_value.cpp`), the emit functions of `cg.cpp` | operators over `cg`: blocks, the builder's place, allocas, the tests of the innermost scope |
| `ExprCodegen` | `gen_type`, `gen_value`, `gen_addr`, `eval_value` of every class of expression (`cg_expr.cpp`), constants (`cg_const.cpp`) | operators from `cg` and an expression to a value and a new `cg` |
| `ExprExec` | an expression lowered where a program can write it, and the code run | `use` what is compiled; `mem`, `regs`, `at`, `prev` the machine; `calls` what was called and answered |
| `ExprMeaning` | what an expression says, and the properties | |
| `Region` | what an allocator promises | `memory`, `asked`, `live`, `views` |
| `Allocators` | `ScratchAllocator` over `InlineAllocator` and `ArenaAllocator` (`util/allocator.*`), and a client | `offset` is `m_inline.m_offset`; `chunks` the list behind `m_tail`; `ask` the `allocate` being served |
| `Nodes` | `Parser::new_node`, `~Parser`, `Cache`, `Pool` and their iterators (`util/pool.*`), `Array::reserve` of the pools | `caches` is `m_caches`; `job` the `Cache::allocate` that runs; `walk` the iterators of `~Parser`; `drops` what destructors have still to give back |
| `MCCgStmt`, `MCUnitCodegen`, `MCTypeLayout`, `MCParser`, `MCExprCodegen`, `MCMemory` | instances for TLC | |
| `CgStmtProofs`, `CgStmtExecProofs`, `UnitCodegenProofs`, `TypeLayoutProofs`, `ParserProofs`, `ParserTreeProofs`, `AllocatorsProofs`, `NodesProofs` | the proofs | |

**CgStmt.** The syntax tree is not built first: each time the walk asks for the next
statement of a block, any statement may come, so every function within the bound is met.
A statement's C++ call is a record on `calls`; its `part` says where it resumes when what it
called returns. One action stands for the code between two such calls. Instructions have no
operands. Three markers that no code emits, `open`, `close` and `reg`, record in the
instruction stream where a scope is pushed and popped and where control passes a defer. Left out because they do not touch scopes or control flow: the values of expressions,
assignments and expression statements, the post statement and the let of a `for`, the
variables of a scope, `using` (which does what `let` does). A deferred block counts as one
`run` instruction and one scope pushed and popped; what it contains is not walked.

**CgStmtExec** runs what `CgStmt` emitted with LLVM's semantics, a block ending at its first
terminator; a condition may go either way. `pend` is a ghost: for each open scope, the defers
passed and not yet run. The same state machine then answers whether the order of emission is
the order promised, on every path.

**UnitCodegen.** A declaration is the list of references that the walk of its syntax meets.
A reference is resolved against `made` as the code resolves it against what is generated so
far: types in `cg.typedefs` then `cg.effects`, then the unit's own declarations of that name,
generated on the spot. `Order == INSTANCE DependencyOrder WITH needs <- Needs, built <-
Generated` is the refinement. Left out: what the declarations contain besides references, and
the functions registered before the loops. In a constant expression `a.b of T` a type can be
looked up as well; a type reference in a let stands for it.

**TypeLayout.** Each type is a record of what `CgType` holds: kind, layout, extent, the physical
elements and, for tuples, the fields. Ghosts stand beside them: `bytes` and `at` are the size
and offsets by LLVM's counting, packed as the compiler tells LLVM; `declared` the elements the
program wrote; `plain` that nothing in the type is known to be counted differently by the two (a
union, a boolean wider than a byte, `()`, a size of 2^64). A tuple is made one element a step, so
the caches change between steps as the loop of `make(TupleInfo)` changes them. Sizes are `Ulen`:
sums and differences are modulo `Word`. A padding of more than `MaxPadding` bytes cannot be
cached, for it resizes the cache to as many entries; the call that asks for one is stuck. The
`[N]Uint8` arrays that paddings and unions are made of, which nothing else refers to, and the
names of types are left out; so are function types, which are met behind pointers only.

**TupleIndex** has no state of its own: an operator for each function that finds an element, and
invariants over `types` that compare them with `declared`.

**Parser.** Each parse function is the list of items it puts in the place of its call, given
the token peeked: tokens to take, functions to call, nodes to make. One step runs the first item.
Texts are not listed: the token is chosen when it is peeked, from the kinds a text of this shape
may go on with. A node keeps how tightly it and its operands bind, and its kind where parsing
depends on it; ghosts `open`, `fate`, `before` record the brackets that are open, where each list
of attributes went and the token it stood before. A diagnostic ends the parse; the few failures
that print none end it as `silent`.

**CgEmit, ExprCodegen, ExprExec, ExprMeaning.** Lowering an expression is a function of the code
generator's state, so it is written as one: an operator takes `cg` and returns it with the value
and the code emitted, or None. `gen_type`, `gen_value`, `gen_addr` and `eval_value` call each
other through one recursive operator, as the virtual functions do. `ExprExec` then lowers an
expression in a body, as the condition of an `if` or as a constant of the unit, and runs the code
with LLVM's semantics, poison included; a call answers anything of its type and leaves memory
alone, a load or store takes place as emitted. `ExprMeaning` has the reference, `Meaning`: a
left-to-right evaluation on mathematical integers that shares only the layout of tuples with the
lowering. What C++ leaves undefined (an empty Maybe taken, a list read past its end) makes `cg`
stuck and nothing is claimed of what follows.

Where the code is known not to do what the expression says, a property names the case and leaves
it out: `NarrowIndex`, `IndexOfOne`, `ComparedTwice`, `Hidden`, `NoNumber`, `LooseTest`,
`LateAlias`, `NoCondition`, `TooLarge`, `CastAway`, `ShortArray`. Each was found by TLC as a
violation of the property without it, and is described under the observations below.

**Region, Allocators.** An address is a place (0 the inline storage, i the i-th chunk) and an
offset. The client allocates, gives back in any order, keeps reading a text whose builder is gone,
and clears when it uses nothing: what the code generator does, which clears `cg.scratch` before
every declaration (`cg_unit.cpp:431`) when all arrays in it are gone. The system may refuse a
chunk whenever it is asked. `Promise == INSTANCE Region WITH memory <- ..., asked <- ask.size` is
the refinement: chunks added and requests passed on are steps of the region that give it more
memory or leave it alone.

**Nodes** puts the parser on top: an arena is the scratch allocator without inline storage. A
cache asks for a pool by two requests and for room in its array by a third; each may fail, which
ends the parse and starts the destructors. `~Parser` walks the iterators over whatever is there;
then the caches go from the last one, each after its pools, and the arena when nothing in it is used.

## Runs

| Run | Shows | Bounds |
|---|---|---|
| `cg_stmt` | types, balanced scopes, defers once each and newest first on every path, no fall-through | statements of total cost 8, where `defer`, `return`, `break`, `continue`, `if`, `for` cost 2 and the others 3; `cg.scopes` new or with room. 3.7 million states. Four statements nest a defer in a loop in an if in a block, which is every pair of constructs that share a scope |
| `cg_stmt_jump` | **violated**: `break` and `continue` skip the defers of the blocks they leave | 4 statements |
| `cg_stmt_verify` | **violated**: code behind a terminator | 4 statements |
| `cg_stmt_defer_block` | **violated**: `emit_defers` reads a scope that has moved | 4 statements, `cg.scopes` new |
| `unit_codegen` | each declaration once, in dependency order, nothing left out, one meaning for a name, no buildable unit refused, generation ends | all units of up to 2 lets, 2 types, 1 effect and a function over 5 names, and all graphs of references among 3 types: 22,399 units; `StackLimit` 4, one more than the most types that can wait for one another |
| `unit_reenter` | **violated**: a type that refers to itself is entered again | the same |
| `type_layout` | layouts agree with LLVM's, stuck only where the alignment is to blame, padding cache sound, indices, fields, values and parameters skip the paddings alike, tuples declared alike are the same type | every way to make two types, the second of the first if it likes: tuples of up to three elements, unions, arrays of 3 and 150, pointers, slices, atomics, enums, over `Uint8`, `Uint32`, `Uint64`, `()`, `...`; words of 10 bits, at most 128 bytes of padding. 385,148 states. A first tuple can ask for paddings of 7 and then 4 bytes, which shrinks the cache, and a second for 7 again; two nested arrays of 150 pass the end of the word. Wide booleans are left out: they are not plain and, aligned like the integers, lay out alike |
| `parser` | the parser ends on every text; brackets pair; operators group by their table; the defer flag and the place of attributes are exactly known | texts of 13 shapes, each beginning as one kind of declaration and going on with up to 11 tokens, in any order, of the 7 to 12 kinds that exercise one part of the grammar: at most 18 tokens in all. A nested defer with a return behind it, `@` lists before each kind of declaration and type, an operator of every level beside one of every other level, and every loop of the parser at the end of the text occur |
| `expr` | the code verifies and, run on every memory, does what the expression says; folding agrees; `gen_value` keeps what `gen_type` promised; a tested name means its variant | expressions of small depth over a variable of each of 15 kinds of type and 6 shapes of function; each operator over operands that are themselves constants, variables, calls and operators, `&&` and `||` in operands of each other; 3 memories, every answer of a call; integers of 1 and 4 bytes have 2 bits, of 8 bytes 3, constants being folded 6: enough for sign, wrap and division's edge cases to differ. 112,335 states |
| `memory` | blocks in use and texts still read stay apart and in bounds, one chunk serves a request, a failure at any request leaves the caches sound, every node is destroyed once | chunks of 80 bytes in place of 2 MiB; requests of 0, 8, 33 and 65 bytes, the last a whole chunk when rounded; an inline storage of 48 bytes or none; 3 chunks, 7 for the parser; 3 blocks at a time; 9 nodes of two sizes in pools of 2, which fills two caches and grows an array of pools. 870,700 states |
| `type_layout_union` | **violated**: an array of a union misaligns its variants | two types |
| `type_layout_index` | **violated**: the address of the second element is not found | two types |

The six violations are described in `PROJECT.json` under `findings`.

`CHECK_DEADLOCK FALSE` is given in every run: a function that has been generated and run, and
a unit that is done, have nothing left to do.

**Fairness.** `Terminates` of `UnitCodegen` and of `Parser` need it: `FairSpec` adds
`WF_vars(Next)`. The compiler is one thread that waits for nothing, so it takes a step whenever it has one.
`StackLimit` makes a recursion without end stop as `overflow`, as the stack of the process
does; `RejectsOnlyUnbuildable` shows that only units that cannot be built get there.

## Proofs

`CgStmtProofs` (no bound on statements, nesting, costs or capacities; assumption
`StmtAssumption`: costs and capacities are naturals). `ScopesAreOwned` is not inductive: when a call returns, one
must know what the call below it owned. The invariant is

    IInv == TypeOK /\ CallsAreSound /\ ScopesAreOwned /\ NextFnFindsNoScopes

`ScopesAreOwned` says of every call on the stack that it began with what its callers own
(`Accounts`), so popping a call exposes the same fact about the one below. `CallsAreSound`
says that only the bottom call is the function, that `emit_defers` is always on top, and that
blocks and scopes referred to exist. Every action changes the call stack by replacing, pushing
or popping its top; a lemma for each of these, and one lemma per action, give `IInv'`.
Theorems: `TypeCorrect`, `ScopesOwned`, `NextFnClean`.

`CgStmtExecProofs` (the same): what the emitted code does when it runs, for functions of any size
and along every path. A run is over long after the walk that emitted it, and loops, so nothing is
said of runs while code is emitted. Instead the code is *checked as it is emitted*, as a verifier of
bytecode would. To each block belongs what is owed whenever control enters it (`e`); `Flow` says what
an instruction makes of what is owed, and `Ends` that a terminator passes on what the block it
branches to is entered with, less the scopes it leaves. A block is `Closed` when its instructions lead from
`e` to a terminator, and `Live` when they lead to its end. Then

    EmitsIn == Checked(blocks, e, spent, Awaited(calls), bb, Now(calls, scopes))
               /\ Frames(calls, scopes, e) /\ Loops(scopes, e) /\ Numbered(scopes, spent)

says that some `e` checks what is there: every block is `Closed`, but for those that a call has still to
begin (`Awaits`: the join and else of an `if`, the post, else and exit of a `for`), which are empty,
and the builder's, which is closed or leads to what the compiler's own scopes say at that moment
(`Now`: all defers of the open scopes, or what `emit_defers` and `return` have left of them).
`Frames` is what makes that true of a block begun later: a call's blocks are entered with what the
scopes up to its own say (`Full`), and those are the scopes again when it resumes; the scope of an
`if` or a `for` has no defers. `Loops` says it of where `break` and `continue` go. Every emission is one of `CheckedFlows`,
`CheckedEnds`, `CheckedAlloca`, `CheckedFilled`, `CheckedGrown`, `CheckedMoves`, and there is a lemma
`...Emits` for each action. What is emitted behind a terminator is dead (`ClosedStays`), which is how the
theorems stand although `ModuleVerifies` is violated. `EndFnSeals`: when the function is done every
block is closed. A run then follows what was checked (`Follows`, `StepFollows`). The invariant is

    AllInv == IInv /\ CodeInv /\ ExecInv

Theorems, of `AllSpec`: `ExecTyped`, `DefersRunNewestFirst`, `EndsOweNothing`,
`BlocksDoNotFallThrough`. `break` and `continue` forget the defers of the scopes they leave, in the
model as in the code; that is the run `cg_stmt_jump`.

`UnitCodegenProofs` (any set of units and names, any stack limit; assumption
`UnitAssumption`). The refinement needs to know, when a declaration is emplaced, that all its
references are satisfied by generated declarations; the calls only record the position they
reached. The invariant `ResolvedSoFar` says that of every reference before `pos`, for every
call on the stack, and survives because `made` only grows. Theorems: `TypeCorrect` and
`GeneratesInOrder`, `Spec => InDependencyOrder`.

`UnitCodegenProofs`, its second half. That nothing is generated twice does not follow from the mark
`m_generated`, which is set after the recursion: the same type can be on the stack several times
(`UnitReenter`), and each copy emplaces it if it gets to its end. `OnceInv` says why only one does.
A call that has tried a candidate waits at a reference of which no type is generated (`Waiting`),
so a copy further up the stack cannot have gone past it (`NotPast`) and what is emplaced is not on
the stack below. But candidates are tried one after the other, and the running one could satisfy
the reference of a call further down, which then would go on too. Hence the set `F` of the
candidates that have failed: each of them fails again for as long as the outermost call lasts
(`Doomed`), because a value is missing or because all the types of a name are in `F`; those before
the candidate in the making are in it (`Tried`), and what a member of it calls is a member
(`Sinks`). Giving a declaration up adds it to `F` (`DoomedGrows`), emplacing one takes none away
(`DoomedStays`), and with the order in which candidates are tried `F` separates the calls that
wait for the same name. That the search finds a candidate or generated type when there is one
(`NoneLater`, `FoundAny`) is the least element of a set of naturals, from the library's
well-founded minimum. `WholeInv` says that what the loops have gone past is generated or is the
outermost call, which is given up only with the unit. Theorems: `MadeOnceEver`, `NothingLeft`.

`NamesMeanOne` is about the order of the search. A name can be declared several times, as a type and
as an effect, and what is generated at the moment differs from one lookup to the next. Until an
error is reported no candidate has failed, so each active call is the first choice for its name
(`FirstChoices`), types being tried before effects (`Leads`); an effect is generated only when no
type of its name is left that could be generated later (`NoOlder`). Hence `Unmistaken`: whatever a
name was taken for is what a lookup finds now. `MeaningInv == OnceInv /\ WholeInv /\ Unmistaken`.

`RejectsRightly` is the converse of `GeneratesInOrder`: where there is an order the walk finds one,
with a stack of one call for each type and one for the declaration that asks. `Derivable(W)` is the
least set of names closed under generating a type from the lets in `W`. The invariant `BuildInv`
says of a unit that can be built (`Feasible`) that no call on the stack has tried a candidate in
vain and that some `W` of generated lets provides for all of them (`OnTrack`, `Provided`). A call
provided for is never given up (`BuildGiveUp`): its values are generated, and a name that can be
derived is that of a type whose references can be derived too (`DerivableFrom`). Nor does it ask for
a type that is being generated (`CandidateIsNew`): the names from that type's call up to the one
that asks would each be needed for the next, so without them the set would still be closed
(`DerivableLeast`). Hence the calls are of different types, and fit the stack by the pigeonhole
principle (`StackSuffices`). That a declaration is provided for when its turn comes (`TurnComes`)
is the order of the loops: lets first and in source order, prototypes before bodies.

`WalkAdvances` and `WalkIsLimited` say why generation ends although a unit may refer to itself and
a type may be entered again while it is being generated. By `AlwaysAdvances`, every step ends
generation, begins the next round of a loop of `AstUnit::codegen`, generates a declaration, or advances the
calls: the innermost one returns or gets further, those below it stay. Compared in that order, and
the calls from the outermost in, with a call that returned counting as furthest, no step goes back.
How far a call is with its reference cannot be read off `tried` alone: once a candidate is generated
the name is looked up again and `tried` returns to 0, so `Progress` puts a reference whose name is
found past all its candidates. `Limited` bounds each part: rounds by the length of `Work`, depth by
`StackLimit`, references and candidates by the unit, and declarations generated by `Work` again,
which needs `MadeOnce` (`MadeIsBounded`). The bounds and the measure together leave no infinite
walk; that last inference, an induction over the order, is made here and not by the prover.

`TypeLayoutProofs` (any extents, any number of types, of elements and of bytes of padding; any
word that the alignments 1 to 16 divide; assumption `LayoutAssumption`). `LayoutIsLLVMs` is not
inductive: a tuple is laid out over many steps, and an element's offset is a multiple of its
alignment only because LLVM's count and the compiler's agree when it is placed. The invariant

    IInv == SoundTypes(types) /\ SoundCache(types, padding) /\ SoundJob(types, job)

says the same of the tuple in the making (`SoundTuple`), that paddings have alignment 1, and that
the cache is right. `GapAligns` is the arithmetic: for alignments that are powers of two the
padding reaches the next multiple, which may be the end of the word, where the tuple stops being
plain. `GapMade` says what asking for a padding does to the caches, `PaddedSound` and
`PlacedSound` what a padding and an element do to the tuple; the `Extend...` lemmas that nothing
said of a type changes when others are added. Theorems: `TypeCorrect`, `LayoutSound`,
`PaddingSound`. Three further parts of the module rest on `IInv`:

* *Indices.* `TupleIndex` finds elements by counting what is no padding. That the count arrives
  follows from a map that no code stores: `OInv` says that each tuple, and the one in the making,
  has a `place` that leads from its declaration, in order, to all elements that are no paddings
  (`Follows`), and that the fields name the elements by it (`Names`); the field of a padding at the
  end, which a tuple without names gets too, makes the exception. `Counted` equates the place
  with the cardinality the operators compute. Theorems: `VirtualIndexFound`, `FieldsFound`,
  `ValuesPlaced`, `ParamsFollow`.
* *Where it gets stuck.* A union's alignment is any number, so `StuckOnUnit` needs that what `&`
  leaves of a number is no larger than the mask. `Bits` is a recursive function: that it has values
  at all (`BitsDefined`) and that they are bounded (`BitAndBounded`) is proved by taking the least
  number for which it would fail.
* *Equality.* `DeclaredAlike`: tuples declared alike are the same type. What `make` lays out is
  determined by the declaration up to the choice among paddings of one size, and `LInv` says so: a
  tuple has a *history*, the offset, the alignment and the shape behind each declared element, each
  obtained from the one before (`After`), and is what comes of the last (`Ends`). There is but
  one history of a declaration (`HistoriesAgree`), and tuples of one shape have pairwise elements
  that are the same or paddings of one size. `operator!=` recurs into the elements; that it ends
  (`AlikeDefined`) and finds each type the same as itself (`AlikeSelf`) holds because types are made
  of earlier ones (`Earlier`), again with a least counterexample.

`ParserProofs` (texts of any shape and length; assumption `ParserAssumption`). `DeferFlagIsRight`
relates the flag to the items waiting in `todo`: it is set exactly while the end of a defer that
was entered with the flag clear, and in which no nested one has ended, is among them. That is
inductive once every item is known to be one of a finite set (`Items`), of which only
`LeaveDefer` clears the flag: `DeferInv`. The lemmas on rules say of each group of parse functions
that the items it returns are of that set and that none but a defer's is a `LeaveDefer`; `Kept`,
`Popped` and `Unwound` what replacing the first items does to the invariant.
Theorem: `DeferFlag`.

`ParserTreeProofs` (the same). Brackets, the tree and the attributes are right because of what the
active calls still have to do, so the invariant is about `todo` as a whole. A *shape* says what a
call may count on: the brackets that are open, how many nodes wait and how tightly each binds at
least, which tokens may be next, and of each attribute array whether what it holds is new, was
before a known token, or may go anywhere. `Does(item, s, q)` says what each item makes of a shape:
a `take` of a closing bracket needs its opener on top, `parse_unary_expr` adds a node that binds as
a unary operator does, the loop of `parse_binop_rhs(n)` needs a left operand that binds at least so
tightly and leaves a token that binds less. `Runs(todo, s, Nothing)` chains these, and

    TreeInv == DeferInv /\ NodesOK /\ AttrsIn(...) /\ RestOK
               /\ (result = None => HeldIn(...) /\ \E s : Fits(s) /\ Runs(todo, s, Nothing))

says that the parser's state fits a shape from which what is left to do leads to the empty one.
Most of the module shows one thing, rule by rule: what a function puts in the place of its call
does what the call does (`ExpansionStands`). That is a Hoare logic of the recursive descent in
which a call is used by its contract, so recursion needs no induction. The rest is what each step
does to the state that fits a shape; `TakenAway`, `EmptyAdded`, `NewAdded` and `SeenFits` are those
of the attribute arrays. Theorems: `ParserTyped`, `TreeGroups`, `AttrsOnce`, `AttrsReach` and
`BracketsAgree`, an action property.

The last part of the module is about the end of the parse. `Remaining` counts the tokens that are
not consumed, `Cost[todo]` bounds the steps until the next one is: each item costs its `Effort`, a
call one more than the calls it begins with (`Depth`), and nothing behind an item that `Consumes`
counts, that is, one that cannot return before it has taken a token. Which functions do is read
off the rules and then proved of each (`BodyFine`: what a function puts in the place of its call
costs less than the call). `ParserEnds`, `Spec => AlwaysShrinks`, says that every step before
`parse()` returns lowers the pair, in that order, and that no step follows; `MeasureIsANumber`,
that the pair is of naturals. A rule that called itself before taking a token would have no
`Depth`, which is how the mutant of `stmts` fails. `Remaining` needs one fact of `TreeInv`: the end
of the text is looked at and never taken (`EndIsNotTaken`). `Cost` is a recursive function on
sequences, whose existence and values are proved from a least counterexample (`CostIs`).

`AllocatorsProofs` (any sizes, inline storage, chunk size that 16 divides, bounds; assumption
`AllocatorsAssumption`). The invariant

    IInv == AllocatorsTypeOK /\ Aligned /\ Within /\ ServesSmall

says that the next byte to hand out is aligned in every place, that every block in use or read
ends at or below it and strictly below the end of its memory, and that a chunk made for a small
request has room for it. `Within` is why the refinement holds: a block handed out starts where all
others end. It is also why `deallocate` changes nothing (`NothingTakenBack`): the block's start is
never the end of the memory in use, unless the block is empty. Theorems: `TypeCorrect`,
`OneChunk`, and `RegionKept`, `Spec => KeepsPromise`. The step lemmas are stated for a client that
asks for any size (`AnyNext`), which the next module needs.

`NodesProofs` (any sizes of nodes, pools and words, any number of nodes, a failure at any request;
assumption `NodesAssumption`: they are positive). `EachNodeDestroyedOnce` speaks of nodes and
destructors; what it rests on is said of memory, of bitmaps and of the iterators:

    NodesInv == IInv /\ Tree

`HeldApart`: every block that a pool, a cache, the pool in the making, an answer not yet looked at
or a pending destructor holds is in use and shares no byte with any other that is held. A step hands
blocks from one holder to the next, which is the lemma `HeldAfter`: it takes the pairs of new and old
holder. `PoolsBegun`: item 0 of every pool is occupied, except in a pool just pushed, and then it is
the only pool of its cache with room, so the node it was made for takes that item. This is why the
iterators need not ask the bitmap for item 0; they are wrong without it. `NodesPlaced`: the nodes
are the items the bitmaps name, which share no byte (`SlotsApart`) and do not move when the array of
pools does. `Walked`: what is destroyed is what lies before the iterator in the order of cache, pool
and item, and `AdvanceIs` that a step of the iterator goes past exactly one node. That the array
asked for is long enough (`GrownSuffices`) needs the recursive function `Grown`: its existence
(`EndsExist`) and its bound are each proved from a least counterexample. Theorems: `NodesTyped`,
`DestroyedOnce`, `NodesInOneChunk`, and `NodesKeepRegion`, `NodesSpec => KeepsPromise`, which is the
property the run checks.

Model-checked only: the expressions, whose modules use RECURSIVE operators and `Bitwise`, which
the prover cannot take, and `Terminates` of both modules, liveness being outside TLAPS's reach.
The safety half of both is proved: a measure that every step moves one way (`ParserEnds` for the
parser; `WalkAdvances`, with the bounds of `WalkIsLimited`, for the unit);
what is left to TLC is that a step is taken at all.

## Observations that no line of the repository contradicts

* A unit can finish, and the compiler exit with 0, after printing an error: of two types with
  the same name the first may fail (an array extent that is not constant yet) and the second
  serve the reference.
* Every boolean is an `i1` to LLVM (`cg_type.cpp:603`), one byte, while `Bool16`, `Bool32` and
  `Bool64` count for 2, 4 and 8: a tuple that holds one puts what follows at other offsets than
  LLVM does.
* The size recorded of a union leaves out its padding (`cg_type.cpp:815`), with the same effect.
* `()` behind anything in a tuple has alignment 0, and `ensure_padding` is asked for 2^64 less
  the offset (`StuckOnlyOnUnit`). A union whose largest variant is a big array asks for a cache
  as long as the array.
* Arguments and tuple values are inferred with the type at the physical index of the same number
  (`cg_expr.cpp:99`, `172`, `345`, `366`; `cg_const.cpp:56`): behind a padding it is another
  element's, or the padding's.
* The limit of "Too many expressions in aggregate initializer" (`cg_expr.cpp:770`) counts the
  paddings.
* `operator!=` asks for equal element lists only if the right type has a list: an `Address`
  compares equal to any pointer one way and not the other. Enumerations compare equal whatever
  their enumerators. The size of an array is a product modulo 2^64.
* A `break` inside a deferred statement is emitted wherever the defer runs.

Parser:

* A `return` behind a nested defer is accepted inside the outer one (`parser.cpp:1072`).
* Attributes before a module, import, effect or group type are kept and go to what comes later;
  a second `@` list replaces the first. Arguments other than one fail without a diagnostic.
* `errno` is never cleared before `strtoull` and `strtod` (`parser.cpp:421`): after one untyped
  literal or float out of range every literal with a suffix is refused. Untyped literals beyond
  64 bits saturate silently. `[]T` cannot be parsed, though `README.md:41` of the repository
  uses it.

Expressions (the names are those of the cases the properties leave out):

* `LateAlias`: in `if g() && u is T` the address behind the alias is computed in the block of the
  right operand, which does not dominate what uses it. `LooseTest`: the alias is kept under `||`
  and `!`, where the test may have failed.
* `NoCondition`: the condition of an `if` is not checked to be boolean (`cg_stmt.cpp:131`).
  `NoNumber`: `-p`, `!r`, `-t` are not refused for operands that are no numbers.
* `ComparedTwice`: `==` and `!=` on booleans, tuples, arrays, unions and enums generate both
  operands again (`cg_expr.cpp:1175`), so calls in them run twice, and compare bytes.
* `IndexOfOne`: `(v)[0]` with a constant index extracts from the value in parentheses as if from a
  tuple. `NarrowIndex`: an unsigned index of fewer than 64 bits is sign-extended by
  `getelementptr`.
* `Hidden`: a variable with the name of a constant of the unit is folded as the constant.
  `TooLarge`, `CastAway`, `ShortArray`: a folded constant has no width, a folded cast is always to
  `Uint64`, an aggregate shorter than its type makes a shorter constant.
* `e != .A` takes an empty Maybe where `e == .A` works: `!=` passes no type to hope for. An address
  of what has none, an element of a tuple by a constant index out of range, an argument to a
  function of no parameters, the index of a constant array do what C++ leaves undefined; too few
  arguments are not refused.
* A tuple or array stored in a union does not write the tag (`cg_value.cpp:24`). A `Sint8`
  constant is made as a `Uint8` (`cg_const.cpp:27`).

Memory:

* `deallocate` compares the start of the block with the end of the memory in use, so nothing is
  ever taken back; `to_string`, whose view outlives its buffer (`cg_type.cpp:222`), depends on it:
  with the comparison that was meant `KeepsPromise` fails.
* A request that rounds to `MIN_CHUNK_SIZE` or more is never served: chunks
  are taken until the system refuses. Comparing arrays of 131072 elements asks for that
  (`cg.cpp:334`).
* `~Cg` gives the scratch allocator's memory back without its destructor (`cg.cpp:410`): the
  chunks it holds then are never given back. `Cache::deallocate` and `Pool::deallocate`, which
  accepts the address one past its storage, are called by nobody.

## Not modelled

LLVM itself, the bindings, formatting, files and the terminal are I/O or data; the Titan
kernel is a program in the language, not part of the compiler. `components` in
`PROJECT.json` says of each part what is left out.

## Plan

Done: statement lowering, the order of declarations, type layout, the parser, expressions with
their short-circuit blocks, tests and constants, allocators and pools. Left, the most important
first:

1. Scopes of several variables in `CgStmt`: names captured by defers, `using`; composed with
   `Parser`, which programs reach the code generator.
2. Proofs: the expressions, after their operators are rewritten without RECURSIVE and `Bitwise`.
3. `Lexer`: token boundaries and numeric literals against a reference definition.
4. `AstFn::prepass` and the runtime functions; the stages of `main` and their early exits.
5. The rest of `Array`.
