-------------------------- MODULE BackwardDataflow --------------------------
(***************************************************************************)
(* compBackwardDataflow of point-to-analysis/Dataflow.h, run by            *)
(* Liveness::runOnFunction with the LivenessVisitor: an iterated fixed     *)
(* point over a worklist of basic blocks.                                  *)
(*                                                                         *)
(* The worklist is a std::set of BasicBlock pointers, so the block taken   *)
(* is always the one at the lowest address.  Addresses are what the        *)
(* allocator returned: addr is any assignment of distinct numbers.         *)
(***************************************************************************)
EXTENDS Liveness, FiniteSets

CONSTANT Addresses  \* the possible assignments of addresses to blocks

ASSUME FiniteBlocks == IsFiniteSet(Block)
ASSUME FiniteInsts == IsFiniteSet(Inst)

ASSUME AddressesAssumption ==
  \A a \in Addresses :
    a \in [Block -> Nat] /\ \A b, c \in Block : a[b] = a[c] => b = c

VARIABLES
  fn,         \* the function analysed
  addr,       \* block -> address
  worklist,   \* blocks still to process
  result,     \* block -> [first: live at its start, second: live at its end]
  pc,         \* where the loop is
  bb,         \* the block being processed
  succs,      \* its successors not yet merged
  pos,        \* its instructions not yet visited are 1..pos
  bbexitval,  \* the value carried backward through the block
  printed     \* what printDataflowResult wrote, {} before that

vars == <<fn, addr, worklist, result, pc, bb, succs, pos, bbexitval, printed>>

\* LivenessInfo() : no variable is live.
initval == {}

\* Mutant: what the comment at Dataflow.h:105 says, only the blocks without
\* successors are queued.
Init_ExitBlocksOnly ==
  /\ fn \in Functions
  /\ addr \in Addresses
  /\ result = [b \in Block |-> [first |-> initval, second |-> initval]]
  /\ worklist = {b \in Block : fn.succ[b] = {}}
  /\ pc = "while"
  /\ bb = CHOOSE b \in Block : TRUE
  /\ succs = {}
  /\ pos = 0
  /\ bbexitval = {}
  /\ printed = {}

Init ==
  /\ fn \in Functions
  /\ addr \in Addresses
  /\ result = [b \in Block |-> [first |-> initval, second |-> initval]]
  /\ worklist = Block
  /\ pc = "while"
  /\ bb = CHOOSE b \in Block : TRUE
  /\ succs = {}
  /\ pos = 0
  /\ bbexitval = {}
  /\ printed = {}

\* Take the lowest block off the worklist and start from its exit value.
TakeBlock ==
  /\ pc = "while"
  /\ \E b \in worklist :
       /\ \A c \in worklist : addr[b] <= addr[c]
       /\ worklist' = worklist \ {b}
       /\ bb' = b
       /\ bbexitval' = result[b].second
       /\ succs' = fn.succ[b]
  /\ pc' = "merge"
  /\ UNCHANGED <<fn, addr, result, pos, printed>>

\* Merge what one more successor needs.
MergeSucc ==
  /\ pc = "merge"
  /\ \E s \in succs :
       /\ bbexitval' = Merge(bbexitval, result[s].first)
       /\ succs' = succs \ {s}
  /\ UNCHANGED <<fn, addr, worklist, result, pc, bb, pos, printed>>

\* Mutant: the exit value is not written back.
StoreExit_NotRecorded ==
  /\ pc = "merge"
  /\ succs = {}
  /\ pos' = Len(fn.code[bb])
  /\ pc' = "transfer"
  /\ UNCHANGED <<fn, addr, worklist, result, bb, succs, bbexitval, printed>>

\* All successors merged: record the exit value, start walking backward.
StoreExit ==
  /\ pc = "merge"
  /\ succs = {}
  /\ result' = [result EXCEPT ![bb].second = bbexitval]
  /\ pos' = Len(fn.code[bb])
  /\ pc' = "transfer"
  /\ UNCHANGED <<fn, addr, worklist, bb, succs, bbexitval, printed>>

\* The visitor's compDFVal on the next instruction, last one first.
VisitInst ==
  /\ pc = "transfer"
  /\ pos > 0
  /\ bbexitval' = CompDFVal(fn, fn.code[bb][pos], bbexitval)
  /\ pos' = pos - 1
  /\ UNCHANGED <<fn, addr, worklist, result, pc, bb, succs, printed>>

\* The value at the start of the block is what it was: nothing to propagate.
KeepEntry ==
  /\ pc = "transfer"
  /\ pos = 0
  /\ bbexitval = result[bb].first
  /\ pc' = "while"
  /\ UNCHANGED <<fn, addr, worklist, result, bb, succs, pos, bbexitval, printed>>

\* Mutants: the entry is stored and the predecessors queued unconditionally;
\* a block that is its own predecessor is not requeued; successors are queued.
UpdateEntry_Always ==
  /\ pc = "transfer"
  /\ pos = 0
  /\ result' = [result EXCEPT ![bb].first = bbexitval]
  /\ worklist' = worklist \cup Pred(fn, bb)
  /\ pc' = "while"
  /\ UNCHANGED <<fn, addr, bb, succs, pos, bbexitval, printed>>

UpdateEntry_SelfNotRequeued ==
  /\ pc = "transfer"
  /\ pos = 0
  /\ bbexitval # result[bb].first
  /\ result' = [result EXCEPT ![bb].first = bbexitval]
  /\ worklist' = worklist \cup (Pred(fn, bb) \ {bb})
  /\ pc' = "while"
  /\ UNCHANGED <<fn, addr, bb, succs, pos, bbexitval, printed>>

UpdateEntry_QueuesSuccessors ==
  /\ pc = "transfer"
  /\ pos = 0
  /\ bbexitval # result[bb].first
  /\ result' = [result EXCEPT ![bb].first = bbexitval]
  /\ worklist' = worklist \cup fn.succ[bb]
  /\ pc' = "while"
  /\ UNCHANGED <<fn, addr, bb, succs, pos, bbexitval, printed>>

\* It changed: record it and queue every predecessor.
UpdateEntry ==
  /\ pc = "transfer"
  /\ pos = 0
  /\ bbexitval # result[bb].first
  /\ result' = [result EXCEPT ![bb].first = bbexitval]
  /\ worklist' = worklist \cup Pred(fn, bb)
  /\ pc' = "while"
  /\ UNCHANGED <<fn, addr, bb, succs, pos, bbexitval, printed>>

\* The worklist is empty: runOnFunction prints the result and returns.
PrintResult ==
  /\ pc = "while"
  /\ worklist = {}
  /\ printed' = {<<b, result[b].first, result[b].second>> : b \in Block}
  /\ pc' = "done"
  /\ UNCHANGED <<fn, addr, worklist, result, bb, succs, pos, bbexitval>>

Next ==
  \/ TakeBlock
  \/ MergeSucc
  \/ StoreExit
  \/ VisitInst
  \/ KeepEntry
  \/ UpdateEntry
  \/ PrintResult

Spec == Init /\ [][Next]_vars

\* The pass is one sequential loop: as long as it can go on, it does.
FairSpec == Spec /\ WF_vars(Next)

-----------------------------------------------------------------------------
TypeOK ==
  /\ fn \in Functions
  /\ addr \in Addresses
  /\ worklist \subseteq Block
  /\ result \in [Block -> [first : SUBSET Inst, second : SUBSET Inst]]
  /\ pc \in {"while", "merge", "transfer", "done"}
  /\ bb \in Block
  /\ succs \subseteq Block
  /\ pos \in Nat
  /\ bbexitval \subseteq Inst
  /\ printed \subseteq (Block \X (SUBSET Inst) \X (SUBSET Inst))

EntryOf == [b \in Block |-> result[b].first]

\* The block whose processing has begun and not ended.
InProgress == IF pc \in {"merge", "transfer"} THEN {bb} ELSE {}

\* No value recorded, and no value carried, exceeds what its inputs give.
Justified ==
  \A b \in Block :
    /\ result[b].first \subseteq LiveBefore(fn, b, 0, result[b].second)
    /\ result[b].second \subseteq LiveOutOf(fn, EntryOf, b)

\* A block neither queued nor in progress needs no further work: it agrees
\* with its successors and with its own code.
Settled ==
  \A b \in Block \ (worklist \cup InProgress) :
    /\ result[b].first = LiveBefore(fn, b, 0, result[b].second)
    /\ LiveOutOf(fn, EntryOf, b) \subseteq result[b].second

\* What bbexitval holds at each point of the loop body.
CarriedValue ==
  /\ pc = "merge" =>
       /\ succs \subseteq fn.succ[bb]
       /\ bbexitval = result[bb].second
                        \cup UNION {result[s].first : s \in fn.succ[bb] \ succs}
  /\ pc = "transfer" =>
       /\ pos <= Len(fn.code[bb])
       /\ LiveOutOf(fn, EntryOf, bb) \subseteq result[bb].second
       /\ bbexitval = LiveBefore(fn, bb, pos, result[bb].second)
  /\ pc = "done" =>
       /\ worklist = {}
       /\ printed = {<<b, result[b].first, result[b].second>> : b \in Block}

IInv == TypeOK /\ Justified /\ Settled /\ CarriedValue

(***************************************************************************)
(* When the pass stops, the values printed solve the liveness equations    *)
(* exactly: nothing a successor needs is missing and nothing is left over. *)
(***************************************************************************)
SolvedWhenDone ==
  pc = "done" =>
    \A b \in Block :
      /\ result[b].second = LiveOutOf(fn, EntryOf, b)
      /\ result[b].first = LiveBefore(fn, b, 0, result[b].second)
      /\ <<b, result[b].first, result[b].second>> \in printed

(***************************************************************************)
(* At every moment each recorded set is contained in every solution of the *)
(* equations: together with SolvedWhenDone, the answer is the least one.   *)
(***************************************************************************)
BelowAllSolutions ==
  \A in \in [Block -> SUBSET Inst] :
    IsSolution(fn, in) =>
      \A b \in Block : /\ result[b].first \subseteq in[b]
                       /\ result[b].second \subseteq LiveOutOf(fn, in, b)

\* The recorded sets never shrink, so a block is requeued only finitely often.
Monotone ==
  [][\A b \in Block : /\ result[b].first \subseteq result'[b].first
                      /\ result[b].second \subseteq result'[b].second]_vars

\* What is still to happen, most significant first: the values not recorded at
\* the start of a block, the blocks queued, the steps left for the one at hand.
Missing == {x \in Block \X Inst : x[2] \notin result[x[1]].first}

StepsLeft ==
  CASE pc = "merge"    -> Cardinality(succs) + Len(fn.code[bb]) + 3
    [] pc = "transfer" -> pos + 2
    [] pc = "while"    -> 1
    [] pc = "done"     -> 0

Rank == <<Cardinality(Missing), Cardinality(worklist), StepsLeft>>

Below(r, s) ==
  \/ r[1] < s[1]
  \/ r[1] = s[1] /\ r[2] < s[2]
  \/ r[1] = s[1] /\ r[2] = s[2] /\ r[3] < s[3]

\* No step is in vain: a block is queued again (lines 127 to 132) only by a step
\* that records a value for good, so the loop cannot go round for ever in any
\* function, whatever the order of the addresses.
Advances == [][Below(Rank', Rank)]_vars

\* The worklist runs empty and the result is printed.
Terminates == <>(pc = "done")

Abstract == INSTANCE AbstractLiveness WITH live <- EntryOf, done <- pc = "done"

ImplementsAbstract == Abstract!ASpec
=============================================================================
