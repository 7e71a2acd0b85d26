# Verification of ucas-compiler

The repository holds three compiler-course programs, and this directory
specifies all of them in TLA+: the **AST interpreter** (`ast-interpreter/`), the
**liveness analysis** (`point-to-analysis/`) and the **function-pointer
analysis** (`use-def/`). TLC checks them on bounded instances, and TLAPS proves
the main invariants for every value of the constants.

All three are sequential, deterministic C++ programs: there are no threads,
messages or persistence. What is hard in them is control (exceptions crossing
nested visitor calls, recursion over the same syntax node, fixed-point
iteration over a changing worklist, mutual recursion with shared visited sets)
and bookkeeping (frames, heap, pointers). Their one source of nondeterminism is
the allocator: where it places memory and whether it has any. That decides the
order in which basic blocks are processed, which of several selected blocks a phi
is pruned to, and what an interpreted program's `MALLOC` returns.

## Inventory

### Interpreter (`ast-interpreter/`)

| Part | State | Operations |
|---|---|---|
| `InterpreterVisitor` (ASTInterpreter.cpp) | the C++ call stack; a `CtrlFlowException` in flight | one `Visit...` per syntax class, `Init` for the translation unit |
| `Environment` (Environment.h/.cpp) | `mStack` of frames, each with values of variables, of statements, addresses of statements and a return value; `mGlobal`; the declarations of the built-ins and of `main` | the handlers: literals, `paren`, `binop`, `unaryop`, `ueott`, `cast`, `arraysub`, `declref`, `vardecl`, `fdecl`, `initGlobalVars`, `callbuildin`, `call`, `exit`, `returnstmt` |
| `Heap` (Environment.h) | `mSpace`: address -> size | `Malloc`, `Free`, the destructor |
| driver (`main`, consumer, action) | - | reads the source, runs Clang on it (as C++) |

The visitor visits a node's children, then calls one handler, which reads the
children's values from the current frame and binds the node's. `break`,
`continue` and `return` are C++ exceptions caught by the loop and call visitors.
Hard: leaving several nested calls at once, evaluating a node again while an
outer evaluation of it is suspended, stale bindings of a node in its frame,
lvalues found through the address of the last visit, pointer scaling and
widths, malloc failing, freeing twice.
Correct means: a program prints what C says it prints, an error never passes
as a normal result, frames and heap stay in step with the program, and the
interpreter ends when the program does.

### Dataflow and liveness (`point-to-analysis/`)

| Part | State | Operations |
|---|---|---|
| `compBackwardDataflow` (Dataflow.h) | `worklist`, `result`, the block at hand, the value carried through it | seed, take a block, merge successors, visit instructions, store, queue predecessors |
| `LivenessVisitor` (Liveness.h) | a `LivenessInfo` (a set of instructions) | `merge`, `compDFVal` |
| `printDataflowResult` | - | prints every block's two sets |
| `compForwardDataflow`, `FuncPtrPass`, `main` | - | a stub, an unused print pass, the driver |

The framework calls the client back for every successor and instruction. The
worklist is a `std::set` of pointers, so the processing order is that of the
blocks' addresses. Hard: a value that changes after a neighbour has read it,
loops of one block, termination, independence of the order.
Correct means: the answer is the least solution of the liveness equations, that
is, liveness along paths, and it is reached whatever the order.

### Function-pointer analysis (`use-def/`)

| Part | State | Operations |
|---|---|---|
| value flow: `collect`, `traceValue` | per collector `visitedSet`, `visitedStack`, `selectedBlock`, `results` | ten cases by kind of value; a callback on each value on the way back |
| memory flow: `traceMemory`, `findStoresTo`, `findSiblingGEPs`, `isReachableStore` | per call `resolvedBases`, `totalOffset`, candidate stores | stores that may reach a load, less the overwritten ones |
| call sites: `getCallBases`, `getReturnInst`, `findArgIndexInCall` | `visited` and `callBases`, shared by one query's calls | callers of a function, directly or through pointers; a new collector where the function is passed on |
| driver: `passImpl`, `report`; `main.cpp` | output | one collector per call instruction, prints the names found |

`traceValue` asks `traceMemory` about loads and `getCallBases` about
parameters; `traceMemory` calls `traceValue` back to resolve a base, with a
callback that reads `visitedStack`; `getCallBases` makes a new collector, whose
`collect` starts `traceValue` again. Hard: state shared across that recursion
(inserted before, erased after, read in between), recursion without a visited
set, pruning of phis by blocks already chosen, kills and reachability,
intermediate results, arguments a spurious function does not have.
Correct means: the analysis ends, every function a call can reach when the
program runs is printed at its line, nothing is printed that cannot be reached,
and what is remembered as being traced is what is being traced.

The hazards are listed with their lines in `PROJECT.json`.

## Modules

| Module | Models | Correspondence |
|---|---|---|
| `Liveness` | `LivenessInfo`, `LivenessVisitor`; an LLVM function as data | `Merge` = `merge`, `CompDFVal` = `compDFVal`; `LiveBefore` and `IsSolution` are the equations in closed form |
| `BackwardDataflow` | `compBackwardDataflow`, `printDataflowResult` | one action per step of the loop body: `TakeBlock`, `MergeSucc`, `StoreExit`, `VisitInst`, `KeepEntry`/`UpdateEntry`, `PrintResult`; `pc` is the place in the loop |
| `AbstractLiveness` | what a user may rely on | answers grow, stay below every solution, and the pass stops only at a solution |
| `LivenessByPaths` | what liveness means: `Live`, a use reachable along a path | no code |
| `MCBackwardDataflow` | instances | |
| `BackwardDataflowProofs` | proofs | |
| `CArith` | the arithmetic of `binop`, type sizes, bytes | `Arithmetic` is the two `switch`es; `Byte`, `FromBytes`, `Narrow` are the casts of stores and loads |
| `Ast` | Clang's tree as a table of nodes | external |
| `Environment` | `StackFrame`, `GlobalVars`, `Heap`, `Environment` | operators named as the methods; the allocator (`alloc`, `mem`, `malloc`, `free`) is external |
| `Interpreter` | `InterpreterVisitor` | the C++ stack is `ctl`: an activation per `VisitCallExpr`, each with the tasks still to do; a loop's `endbody` task is its try block, `exc` the exception in flight |
| `CReference` | C's meaning of the accepted subset | no code: a big-step evaluator over terms with objects and offsets instead of addresses and bytes. The operators' arithmetic and the type sizes it takes from `CArith`, as the interpreter does: it is independent in control, calls, memory and pointers |
| `CTerms` | builders of programs as Clang shapes them, and their numbering | only for instances |
| `InterpreterTests` | the programs of `ast-interpreter/testcases` as terms | one definition per test: `ex`, `class00` to `class24`, `self00` to `self11` |
| `MCInterpreter`, `MCFaults` | instances | |
| `AnySequence`, `DataLemmas` | sequences of anything; lemmas: what `Append`, `SubSeq` and `EXCEPT` do to them, induction over numbers, definition by recursion | for the proofs |
| `InterpreterProofs`, `InterpreterTypeProofs`, `EvaluationProofs` | proofs | |
| `LLVMModule` | LLVM IR after mem2reg as data: instructions on pointers, users, order within a block, reachability | external; `Precedes` is the order of `passImpl`'s loops: a function's position in the module, then the block, then the place in it |
| `FuncDefCollector` | `HomeworkLLVMPass.cpp`: `FuncDefCollector`, `passImpl` | the C++ stack is `stack`, an activation per call of `collect`, `traceValue`, `traceMemory`, `findSiblingGEPs` or `getCallBases` with the calls it has still to make; `collectors` are the live `FuncDefCollector` objects. An action enters a call, takes up what calls found, or returns; `Flow` is the ten cases of `traceValue`, `Incoming` the treatment of phis both functions share, `SiblingCalls` and `SiteCalls` the loops over users |
| `UseDefTests` | the programs of `assign2-tests` and the lines their comments list | one definition per test, named after it |
| `Execution` | what a module calls when it runs | external: LLVM's semantics of pointers, phis and calls; branches are free |
| `MCUseDef` | instances; the pass runs on a module, then the module itself runs | |
| `PointerFlow` | which function may be what in a module: `traces`, `carries`, `stores`, `derives`, each the least relation its rules allow | no code: nothing is overwritten or pruned, offsets do not count |
| `AbstractDefs` | what a user of the pass may rely on | goes through the calls in the module's order, each once; prints for a call only what flows to it, and for a direct call its function. `todo` is the calls still pending and the one at hand |
| `FuncDefCollectorProofs`, `FuncDefCollectorTypeProofs`, `FuncDefCollectorFlowProofs` | proofs | |

`Interpreter` EXTENDS `Environment`, which EXTENDS `Ast`, which EXTENDS
`CArith`. The handlers of `Environment` are action fragments that the visitor's
actions conjoin with the change of `ctl`. A whole handler is one step: nothing
else runs, so its intermediate states cannot be seen. Where a handler may stop
half way (an assertion, undefined behaviour) its action is disabled and
`AssertFails` or `UndefinedBehaviour` ends the run instead: `status` says how
the process died. Undefined behaviour is modelled as an end, because no claim
can be made about what follows.

`MCUseDef` composes `FuncDefCollector` with `Execution` over one module: when the
pass has ended, the execution starts, and `Sound` compares what it calls with
what was printed. Loops of `FuncDefCollector` whose body makes calls are lists
of calls; the loops without calls (`findStoresTo`, the removal of overwritten
stores, `isReachableStore`) are operators. Vectors are sets where neither order nor
repetition can be seen in the output, which is sorted and without duplicates.
The byte offsets are `int64_t`s scaled to a byte (`Wrap`), with the smallest
one for a GEP whose index is no constant, as in `getGEPOffset`. Recursion that
does not end exhausts the native stack: `MaxDepth` activations, then `status` is
"overflow".

## Runs

| Run | Asks | Bounds |
|---|---|---|
| `MCBackwardDataflow` | `IInv`, the loop invariant used by the proofs; `ExactByPaths`: the printed answer is liveness by paths; `Monotone`; `Advances`: each step lowers `Rank`; `Terminates` | all graphs of 3 blocks with every block reachable (self loops, branches, loops without exit), 5 instructions of which one may be a phi and one a debug intrinsic, all operand choices that make it valid SSA, all 6 orders of the addresses |
| `MCLeastSolution` | `SolvedWhenDone`, `BelowAllSolutions`, `ImplementsAbstract` | the same graphs with 3 instructions, since all 512 candidate solutions are enumerated in each state |
| `MCPhiLiveness` (violation) | `NothingLiveOnEntry` | the phi functions |
| `MCInterpreter` | `RunsLikeC`, `FramesMatchCalls`, `HeapAccounted`, `CallerFramesUntouched`, `Terminates`, `TypeOK`; `OperandsBound`: what a handler reads has been bound in the frame it reads from (all these programs are `Typed`) | 317 programs with their input: every binary and compound operator on five pairs of operands, all pairs of five loop bodies in three loop forms, recursion (simple, mutual, with output on both sides of the call), arrays, pointers to char, int and pointers, `sizeof` of types, variables, arrays and expressions; the 38 test programs of `testcases/class` and `testcases/self`, also against the outputs that the comments of seven of them give |
| `MCFaults` | `NeverWrong`, `HeapAccounted`, `ExceptionsCaught`: an exception thrown has its try block on the C++ stack | division by zero, wild and freed accesses, double free, unsupported constructs, malloc failing or running out of room at every call |
| `MCGlobalWrite` (violation) | `RunsLikeC` | one program |
| `MCReturnInLoop` (violation) | `NoUnexpectedException` | three loop forms |
| `MCArrayInit` (violation) | `RunsLikeC` | one program |
| `MCUseDef` | `TargetsFound`: everything the comments of the test programs list is printed; `NothingSpurious`: nothing else, but functions whose result is what is called on the line; `Sound`: what an execution calls has been printed; `VisitedIsTraced`, `SelectedIsOpen`: `visitedSet`, `visitedStack` and `selectedBlock` are what is being traced, in every collector; `ImplementsAbstract`: the pass implements `AbstractDefs`; `Terminates`; `TypeOK` | the 20 test programs of the repository; 14 programs of our own: structs, structs within structs and two structs of one type, stores overwritten in a block, by a call or in branches, addresses chosen by a phi, a phi with two entries for one block, functions passed to chosen functions, a call in a `for`'s third part (which comes after the body's in the module, before it in the source), a null function pointer, two calls on one line; and 6 the pass does not survive. 60 activations, executions with at most 6 active calls |
| `MCUseDefComments` (violation) | `AsCommented` | test17 |
| `MCUseDefLines` (violation) | `LinesUnique` | one program |
| `MCUseDefMissing` (violation) | `Sound` | four programs |

Three blocks give every shape of back edge, join and missing exit; a value
that crosses a block or a loop needs no more. The interpreter's machine is kept
small but of the build's shape: bytes have 256 values, `int` is 2 bytes and
pointers 3, so that a char, an int and an address differ in width as they do
in the build (1, 4, 8). The heap has four places for spaces (`Arena`; three in
`MCFaults`), each of which may be given to any request that fits, fresh memory
holds a nonzero byte (`Junk`), in `MCFaults` also 0, and there each `malloc`
may also fail (`MayFail`).
Programs are those constants' only unbounded input: each is finite and ends in C.
Three of the repository's tests are run with smaller arguments than in the files,
as `MCInterpreter` says: `class20` allocates an array per recursive call and the
arena has four places, and the recursion of `class21` and `self10` would make the
reference exceed TLC's stack. The reference runs 128 rounds of a loop
(`RoundBits`); one that goes on counts as an error, which would violate `RunsLikeC`.
`MCFaults` also has programs where the second operand of `&&` or `||` fails although
the first decides, or where the operand of `sizeof` does: the interpreter evaluates
both, so it stops there, and `NeverWrong` says that it has printed nothing wrong before.

For `use-def` every program on which the pass ends needs fewer than 60 activations
(`Terminates` would fail otherwise), so only recursion without end reaches `MaxDepth`. The rules of `PointerFlow` are applied
`Rounds` = 20 times; that this is enough, one more round adding nothing, is
`RoundsAssumption`, which TLC evaluates for every module of a run. Offsets in the
programs are 0, 8 and 16.
`Terminates` is about programs that are regular (no call with too few or too many
arguments), and leaves out by name what the code has no protection against:
`Cyclic` are the three recursions without a visited set - phis of addresses that
feed each other, a parameter passed on to the same function, a function
passed to what it calls - and `Opaque` the use of functions that an
indirect call returns, which `getReturnInst` and `getArg` cannot deal with. One or
more programs of `MCUseDef` show each of them.

`CHECK_DEADLOCK FALSE` is set because both programs end.

**Fairness.** Each program is one thread in a loop or a recursion that nothing
blocks: weak fairness of the whole next-state relation says only that an
enabled step is eventually taken. Liveness (`Terminates`) is stated under it.

For `use-def` the fairness is that of the pass (`Analyse`); an execution of the
module may stop anywhere.

The seven violation runs are real disagreements between the code and what its
comments or tests say; `PROJECT.json` quotes both sides under `findings`:

1. `MCPhiLiveness`: a phi's operands are used on its incoming edges, but
   `compDFVal` makes them live at its block's start, so in all predecessors.
2. `MCGlobalWrite`: an assignment to a global is bound in the current frame
   only, and is gone when the function returns.
3. `MCReturnInLoop`: a loop's catch block throws `std::logic_error` at a
   `return`, which nothing catches.
4. `MCArrayInit`: an `int` array's initialiser offset is multiplied by the
   element size twice: the second element goes to `h[4]` in the build and to `h[2]` with
   the model's `int` of 2 bytes.
5. `MCUseDefComments`: the callback runs for every value on the way, so the function
   whose return value is traced is printed as a target too.
6. `MCUseDefMissing`: a call is not printed, or not with all its targets, when a
   global's initialiser, a later turn of a loop, or a store through a parameter
   provides the function.
7. `MCUseDefLines`: `readme.txt:6` says that a line number is unique in the output; the
   pass prints one for each call, so `plus(1, minus(1, 2));` prints its line twice.

`RunsLikeC` holds on `MCInterpreter` because its programs avoid these three
interpreter defects; the ones that meet them are in the violation runs.

## Proofs

Checked by TLAPS with SMT, Zenon and LS4; no statement is assumed. The
assumptions are those on the constants, which TLC evaluates in every run.

`BackwardDataflowProofs`, for any set of blocks and instructions, any function
and any addresses (`BlockAssumption`, `InstAreValues`, `FunctionsAssumption`,
`AddressesAssumption`; the last two results also `FiniteBlocks`, and `FiniteInsts`
for `NoStepInVain`):

- `Invariance` (`[]IInv`). `SolvedWhenDone` says nothing while the loop runs, so
  it is not inductive. `IInv` adds `Justified` (nothing recorded exceeds what
  its inputs give), `Settled` (a block neither queued nor in progress agrees
  with its successors and its code) and `CarriedValue` (what `bbexitval` is
  at each place of the loop body).
- `Solved`: with an empty worklist `Settled` covers all blocks.
- `MonotoneResult`: the new entry value is computed from a larger exit value.
- `LeastSolution`: `Justified` keeps every set within every solution.
- `Refinement`: each step is `Grow`, `Stop` or a stutter of `AbstractLiveness`.
- `LivenessExact` (`[]ExactByPaths`): the
  printed sets are liveness along paths, none missing, none spurious. By the
  theorems above the answer is the least
  solution of the equations; the lemmas show that liveness along paths of
  any length is a solution (`PathsAreSolution`), that it is below every solution
  (`PathsBelowSolutions`, by induction on the length), and that a path can be cut
  between two visits of one block (`ShortPaths`), so that the paths the definition
  looks at are enough.
- `NoStepInVain` (`[][Below(Rank', Rank)]_vars`). `Rank` is three numbers compared
  lexicographically: what the sets can still gain, the blocks waiting, the steps
  left in the block at hand. Only `UpdateEntry` raises the second, and by `Justified`
  and `MonotoneResult` it then lowers the first. `LowestRank` proves that every
  nonempty set of ranks has a lowest one, so no execution takes infinitely many
  steps. What TLC adds in `Terminates` is that the loop does not stop before it is done.

`InterpreterProofs`, for any programs, arena and allocator (`MemoryAssumption`
is the only one used):

- `FramesInStep` and `CallersUntouched`. `StackSteps` classifies every action: it
  works in the current frame and activation, pushes one of each, or pops one
  of each. `StacksOK` (both stacks are sequences of the same positive length)
  is inductive under that.
- `HeapInStep`. `HeapSteps` classifies every action again: the heap is kept,
  `Malloc` adds a space, `Free` takes one that is recorded (this is where
  `Heap::Free`'s assertion matters), or the destructor runs. `HeapOK` adds to
  `HeapAccounted` the type of the chunks, which disjointness needs.

`InterpreterProofs`, `InterpreterTypeProofs` and `EvaluationProofs`, for the same and any
programs that are Clang's trees (`ProgramsAssumption`: children come after their node, each
node has at most one parent, statements have the children their class has, names are
resolved):

- `ExceptionsFindTheirCatch` (`[]ExceptionsCaught`): `LogicError` cannot happen in a
  program without a `return` in a loop. `ControlOK` says of every activation that
  its tasks fit their nodes and that they are `Nested`: the node of a task is inside
  a loop's body exactly when a try block's `endbody` follows it. An exception in
  flight then fits the tasks it is thrown over (`ExcFits`). That `InLoop`, one pass
  over the tree, finds exactly the descendants of bodies is shown by induction over
  the pass (`ChildrenInLoop`, `RootsInNoLoop`). The proof found an error in an
  earlier form of the model, which did a `for`'s increment inside the try block of
  its body.
- `TypeCorrect` (`[]TypeOK`). `TypesOK` adds `ControlOK` (which handler runs on
  which node), `HeapOK` (a load that is not undefined finds all its bytes in one
  space) and `FramesOK`, which is stronger than what `TypeOK` says of frames: *every*
  bound node in memory has an address. Without that an assignment, which goes to the
  address its left side had when it was visited, cannot be shown to find one.
- `EvaluatedBeforeUse` (`[]OperandsBound`), for programs that are `Typed`: where a value
  is wanted stands an expression that has one, which Clang's type checker sees to.
  The property is about the next thing to do only. `EvaluationOK` says of *every*
  task of *every* activation, also those suspended in a call, that each value it
  will ask for is bound, is the call in progress that `exit` will bind, or will be
  given by a task before it (`Waiting`). An exception drops tasks, so a giver and its
  taker must fall together: no `endbody` may lie between them (`Supplied`), and while
  an exception is in flight only the tasks behind the next `endbody` count
  (`Spared`). A conditional asks for the branch its condition chose, so the
  condition's value must not change until then: the tasks before a `bind` are about
  nodes inside the branch (`Choosing`), of which the condition is none because a node
  has one parent. TLC found no counterexample to `EvaluationOK` on the programs of
  `MCInterpreter` and `MCFaults`; no run repeats that, since the theorem says it of
  all. The proof classifies the actions (`EvalStep`) and shows that what the
  visitor puts in the place of a task makes up for it (`Replaces`, `GoesOn`).
- `NarrowFits` (from `SizesAssumption` only): a number that fits its type is the
  number loaded after it was stored, negative ones included. The lemmas before it
  give every operator of `CArith` its type; they are what `TypeCorrect` needs of
  arithmetic.

`FuncDefCollectorProofs`, for any modules and any `MaxDepth`:

- `TracesInStep` (`[]VisitedIsTraced`). `StackSteps` classifies every action by
  what it does to stack and collectors: it works in place, enters or leaves
  `traceValue`, `collect` or another function. `StackOK` (levels never fall along
  the stack, rise by one at each `collect` and end at the number of collectors)
  says that the innermost collector is the one the top activation works for.
  `TraceOK` adds to the property that `visitedStack` lists the values in the
  order of their activations. Without that the step of `end_trace` fails: it pops
  the last element of `visitedStack` and erases its own value from `visitedSet`,
  and only the order makes these the same value.

`FuncDefCollectorTypeProofs`, for any modules the verifier of LLVM accepts
(`ModulesAssumption`: finitely many values, operands that exist, as many of them as
the instruction has) and any `MaxDepth`:

- `TypesInStep` (`[]TypeOK`). The property says nothing of the calls still to make
  nor of what they report to. `TypesOK` adds that each call in a `todo` is one its
  owner may make, that `to` refers to an activation of the function that expects
  the report, and that `found` and `seen` hold what that function reads. The attempt
  to prove `findSiblingGEPs` found that the model had left out a guard of the code:
  `getCalledFunction` yields nothing when the call's type is not the function's, and
  without it `getArg` is out of range. The model now has it (`getCalledFunction`).
- `SelectedInStep` (`[]SelectedIsOpen`). That `erase` ends exactly the selection its
  `insert` began is not inductive: an erase in one activation could take away a
  block another one selected. `SelectedOK` adds that the inserts and erases still to
  do in each activation are `Balanced`, and that a block selected by one activation
  is not switched by those it called in the same collector: a phi whose block is
  selected is pruned, so it switches nothing. That the calls a phi makes are
  balanced is shown by induction over its incoming values. In preparing it the property was
  made exact for a phi with two entries for one block (a `switch`), which
  selects the block twice; `MCUseDef` has such a program.

`FuncDefCollectorFlowProofs`, for the same and any `Rounds` that are enough
(`MaxDepthAssumption`, `RoundsAssumption`):

- `PassImplementsAbstract` (`ImplementsAbstract`). That a printed name flows to its
  call depends on everything the call's trace asked of others, so the invariant is
  about all activations at once. `Flowing` adds to `TypesOK` that each activation and
  each call still to make is related to the one that waits for it: what is traced is
  where the collector's callee, or the base of an address, comes from (`traces`);
  what `getCallBases` follows carries the function whose callers are wanted
  (`carries`); what `traceMemory` and `findSiblingGEPs` have found is in `stores` and
  `derives`; and the results of every live collector, nested ones too, flow to *its*
  call (`ResultsFlow`). Two parts more are needed for the steps of `AbstractDefs`:
  `AtHand`, the call at hand precedes the pending ones in the module, and
  `DirectOK`, the function of a direct call is in the results or still awaited by the
  bottom activations. The latter needs `TraceOK`: `visitedSet` is empty when the trace
  of a call begins, so that the function is not skipped as seen.
  Each step of the pass is then `Visit` (that is `Report`) or a stutter.

The library's induction principles take operators as parameters, which the provers
cannot instantiate. `DataLemmas` states them about sets and functions instead
(`Induction`, `Recursion`, from the well-foundedness of the numbers), which covers
recursive functions; recursive operators remain out of reach.

Only model-checked: `Terminates` (liveness under fairness; `ENABLED` is out of the
prover's reach); `RunsLikeC` and `NeverWrong` (they compare with `CReference`, a
recursive evaluator); of `use-def`, `Sound`, `TargetsFound` and `NothingSpurious` (about
the result for given programs, and false for others, as the violation runs show). What
holds of *every* module in their place is `ImplementsAbstract`: nothing is printed
that does not flow to the call when kills, pruning and offsets are left out of account.

## Not modelled

- `testcases/self/ast-test.c`: it exercises the parser and starts with an endless loop.
- The drivers: `main` functions, command lines, reading files, Clang's and
  LLVM's front ends and pass managers.
- `compForwardDataflow` (an empty stub) and `FuncPtrPass` (prints the module and
  is never added to the pass manager).
- In the interpreter: overflow of `int64_t`, function pointers, arrays of arrays
  and of variable length, which the accepted language of `requirements.md` does
  not have; the texts written to standard error.
- In the instances, not in the model: operands of `&&`, `||` and `sizeof` that print or
  assign, as in `sizeof(i++)` or `sizeof(f())`. The code evaluates both operands of the
  first two and the one of `sizeof` (ASTInterpreter.cpp:91), and the model does the
  same; C does not, so such programs do not print what C says. No text of the
  repository promises otherwise, so there is no violation run about them. Casts that cut
  a value are left out too (the code's do not cut).
- In `use-def`: `main.cpp` (mem2reg is LLVM's; the test programs are written down as
  it leaves them), demangling and debug output, instructions on integers (the pass
  looks at none), intrinsics, and the order of `users()`, on which the output does
  not depend.

## Plan

1. *Done.* Liveness: `Liveness`, `BackwardDataflow`, `AbstractLiveness`,
   instances, proofs.
2. *Done.* Interpreter: `CArith`, `Ast`, `Environment`, `Interpreter`,
   `CReference`, instances, the findings, proofs of stacks and heap.
3. *Done.* `use-def`: `LLVMModule`, `FuncDefCollector`, `UseDefTests`, `Execution`,
   instances, the findings, the proof about the visited values.
4. *Done.* Proofs: liveness by paths, what the catch blocks get, the types of the
   interpreter and of the use-def pass, the blocks it has selected.
5. *Done.* That the worklist's steps lower a rank; that the use-def pass implements
   `AbstractDefs`; that whatever the interpreter's handlers read has been bound in the
   frame they read it from.

What could follow: that in a typed program a variable is bound before it is referred to
(`findDecl`'s assertion), which needs Clang's scopes in the model of the tree.
