------------------------------ MODULE Liveness ------------------------------
(***************************************************************************)
(* The liveness client of the dataflow framework: LivenessInfo and         *)
(* LivenessVisitor of point-to-analysis/Liveness.h, over an LLVM function  *)
(* given as data.                                                          *)
(*                                                                         *)
(* A function is a record                                                  *)
(*   succ : successors of every basic block,                               *)
(*   code : the instructions of every block in program order,              *)
(*   ops  : the operands of every instruction (any Value),                 *)
(*   dbg  : the instructions that are DbgInfoIntrinsics.                   *)
(* A LivenessInfo is its LiveVars, a set of instructions: an instruction   *)
(* stands for the SSA value it defines.                                    *)
(***************************************************************************)
EXTENDS Naturals, Sequences

CONSTANTS
  Block,     \* the basic blocks
  Inst,      \* the instructions
  Value,     \* everything an operand can be: instructions, arguments, constants
  Functions  \* the functions that may be analysed

FunctionRec ==
  [succ : [Block -> SUBSET Block],
   code : [Block -> Seq(Inst)],
   ops  : [Inst -> SUBSET Value],
   dbg  : SUBSET Inst]

ASSUME BlockAssumption == Block # {}
ASSUME InstAreValues == Inst \subseteq Value
ASSUME FunctionsAssumption == Functions \subseteq FunctionRec

Pred(f, b) == {p \in Block : b \in f.succ[p]}

(***************************************************************************)
(* The visitor.  merge() inserts every variable of src into dest.          *)
(* compDFVal(inst, dfval) leaves dfval alone for a debug intrinsic; for    *)
(* any other instruction it erases the value the instruction defines and   *)
(* only then inserts its operands that are instructions.                   *)
(***************************************************************************)
\* Mutant: merge() that assigns instead of inserting.
Merge_Overwrites(dest, src) == src

Merge(dest, src) == dest \cup src

InstOperands(f, i) == f.ops[i] \cap Inst

\* Mutant: compDFVal() without the erase.
CompDFVal_NoKill(f, i, live) ==
  IF i \in f.dbg THEN live ELSE live \cup InstOperands(f, i)

CompDFVal(f, i, live) ==
  IF i \in f.dbg THEN live ELSE (live \ {i}) \cup InstOperands(f, i)

(***************************************************************************)
(* What the visitor computes for a whole stretch of code, in closed form.  *)
(* Walking block b backward from its end with LiveVars = live, and having  *)
(* still the first p instructions to visit, a value is live if it is used  *)
(* by a visited instruction with no visited definition before that use, or *)
(* was live at the end of the block and no visited instruction defines it. *)
(***************************************************************************)
Defines(f, i, v) == i = v /\ i \notin f.dbg

Uses(f, i, v) == v \in InstOperands(f, i) /\ i \notin f.dbg

ExposedAfter(f, b, p, v) ==
  \E q \in (p + 1) .. Len(f.code[b]) :
    /\ Uses(f, f.code[b][q], v)
    /\ \A r \in (p + 1) .. (q - 1) : ~ Defines(f, f.code[b][r], v)

DefinedAfter(f, b, p, v) ==
  \E q \in (p + 1) .. Len(f.code[b]) : Defines(f, f.code[b][q], v)

LiveBefore(f, b, p, live) ==
  {v \in Inst : \/ ExposedAfter(f, b, p, v)
                \/ v \in live /\ ~ DefinedAfter(f, b, p, v)}

(***************************************************************************)
(* A solution of the liveness equations, as sets of values live at the     *)
(* start of every block: each block's set holds what its code makes live   *)
(* out of what its successors need.                                        *)
(***************************************************************************)
LiveOutOf(f, in, b) == UNION {in[s] : s \in f.succ[b]}

IsSolution(f, in) ==
  /\ in \in [Block -> SUBSET Inst]
  /\ \A b \in Block : LiveBefore(f, b, 0, LiveOutOf(f, in, b)) \subseteq in[b]
=============================================================================
