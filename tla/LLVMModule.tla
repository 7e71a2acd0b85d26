----------------------------- MODULE LLVMModule -----------------------------
(***************************************************************************)
(* LLVM modules after mem2reg, as data, and the queries the use-def pass   *)
(* makes of them.                                                          *)
(*                                                                         *)
(* A value is a tuple <<kind, name, block, number>>.  An instruction is    *)
(* named by its place: <<"inst", f, b, i>> is the i-th instruction of      *)
(* block b of function f, and stands for the value it defines.             *)
(*                                                                         *)
(* A module is a record                                                    *)
(*   fn   : function name -> [arity, blocks], no blocks if only declared;  *)
(*          a block is [insts, succ], succ the blocks it may branch to,    *)
(*   order : the functions in the order the module lists them,             *)
(*   init : global variable -> its initialiser,                            *)
(*   main : the function an execution starts in,                           *)
(*   says : the pairs <<line, function>> the source's comments list.       *)
(*                                                                         *)
(* An instruction is [op, args, at, n]: its operands, the callee first;    *)
(* for a phi the blocks the values come from; a call's source line or a    *)
(* GEP's byte offset.  Instructions on integers are left out: the pass     *)
(* looks at none of them.                                                  *)
(***************************************************************************)
EXTENDS Integers, AnySequence, SequencesExt

Fn(f)        == <<"fn", f, 0, 0>>
Global(g)    == <<"global", g, 0, 0>>
Cast(f)      == <<"cast", f, 0, 0>>       \* a constant expression over Fn(f)
Arg(f, i)    == <<"arg", f, 0, i>>        \* numbered from 0
Reg(f, b, i) == <<"inst", f, b, i>>
Null         == <<"null", "", 0, 0>>      \* a null pointer; in a parameter, nullptr
Undef        == <<"undef", "", 0, 0>>
Int0         == <<"int", "", 0, 0>>       \* any integer operand

Ins(op, args, at, n) == [op |-> op, args |-> args, at |-> at, n |-> n]

Alloca               == Ins("alloca", <<>>, <<>>, 0)
Load(p)              == Ins("load", <<p>>, <<>>, 0)
Store(v, p)          == Ins("store", <<v, p>>, <<>>, 0)
Gep(p, offset)       == Ins("gep", <<p>>, <<>>, offset)
Phi(vs, bs)          == Ins("phi", vs, bs, 0)
Call(line, callee, args) == Ins("call", <<callee>> \o args, <<>>, line)
Ret(v)               == Ins("ret", <<v>>, <<>>, 0)
RetVoid              == Ins("ret", <<>>, <<>>, 0)

Block(insts, succ) == [insts |-> insts, succ |-> succ]
Func(arity, blocks) == [arity |-> arity, blocks |-> blocks]
Straight(arity, insts) == Func(arity, <<Block(insts, {})>>)
Declared(arity) == Func(arity, <<>>)

-----------------------------------------------------------------------------
Insts(m) ==
  UNION {UNION {{Reg(f, b, i) : i \in DOMAIN m.fn[f].blocks[b].insts}
                : b \in DOMAIN m.fn[f].blocks} : f \in DOMAIN m.fn}

Inst(m, v) == m.fn[v[2]].blocks[v[3]].insts[v[4]]

Op(m, v) == IF v[1] = "inst" THEN Inst(m, v).op ELSE v[1]

\* Value::users(), the instructions with v among their operands.
Users(m, v) == {u \in Insts(m) : v \in ToSet(Inst(m, u).args)}

UsersOf(m, v, op) == {u \in Users(m, v) : Inst(m, u).op = op}

Callee(m, c) == Inst(m, c).args[1]

\* CallBase::getArgOperand(i).
ActualArg(m, c, i) == Inst(m, c).args[i + 2]

Calls(m) == {u \in Insts(m) : Inst(m, u).op = "call"}

\* CallBase::getCalledFunction(): none for an indirect call, or a function of
\* another type than the call's.  Of types the number of parameters is known
\* here; a function that is only declared may be variadic.
getCalledFunction(m, c) ==
  {f \in DOMAIN m.fn :
     /\ Callee(m, c) = Fn(f)
     /\ m.fn[f].blocks # <<>> => Len(Inst(m, c).args) = m.fn[f].arity + 1}

\* Instruction::getParent(); comesBefore() is about one block.
Parent(v) == <<v[2], v[3]>>
SameBlock(u, v) == Parent(u) = Parent(v)
ComesBefore(u, v) == SameBlock(u, v) /\ u[4] < v[4]

\* u comes before v when a loop goes through the functions of the module, the
\* blocks of each and their instructions.
Precedes(m, u, v) ==
  \/ \E i, j \in DOMAIN m.order : i < j /\ m.order[i] = u[2] /\ m.order[j] = v[2]
  \/ u[2] = v[2] /\ u[3] < v[3]
  \/ ComesBefore(u, v)

\* isPotentiallyReachable(u, v) within one function.
PotentiallyReachable(m, u, v) ==
  LET blocks == m.fn[u[2]].blocks
      After[n \in 0 .. Len(blocks)] ==
        IF n = 0 THEN blocks[u[3]].succ
        ELSE After[n - 1] \cup UNION {blocks[b].succ : b \in After[n - 1]}
  IN  ComesBefore(u, v) \/ v[3] \in After[Len(blocks)]

Arguments(m) ==
  UNION {{Arg(f, i) : i \in 0 .. m.fn[f].arity - 1} : f \in DOMAIN m.fn}

Operated(m) == UNION {ToSet(Inst(m, u).args) : u \in Insts(m)}

Values(m) ==
  Insts(m) \cup Operated(m) \cup {m.init[g] : g \in DOMAIN m.init}
    \cup {Fn(f) : f \in DOMAIN m.fn} \cup {Null} \cup Arguments(m)

-----------------------------------------------------------------------------
(***************************************************************************)
(* What LLVM's verifier sees to.                                           *)
(***************************************************************************)
\* What an operand or an initialiser may be.
Operands(m) ==
  Insts(m) \cup {Fn(f) : f \in DOMAIN m.fn} \cup {Cast(f) : f \in DOMAIN m.fn}
    \cup {Global(g) : g \in DOMAIN m.init} \cup {Null, Undef, Int0}
    \cup Arguments(m)

\* The numbers of operands an instruction may have.
OperandCounts(op) ==
  CASE op = "alloca" -> {0}
    [] op \in {"load", "gep"} -> {1}
    [] op = "ret" -> {0, 1}
    [] op = "store" -> {2}
    [] op = "call" -> Nat \ {0}
    [] op = "phi" -> Nat
    [] OTHER -> {}

IsModule(m) ==
  /\ IsFiniteSet(Values(m))
  /\ IsSeq(m.order) /\ IsInjective(m.order) /\ ToSet(m.order) = DOMAIN m.fn
  /\ \A f \in DOMAIN m.fn :
       /\ m.fn[f].arity \in Nat /\ IsSeq(m.fn[f].blocks)
       /\ \A b \in DOMAIN m.fn[f].blocks : IsSeq(m.fn[f].blocks[b].insts)
  /\ \A u \in Insts(m) :
       /\ IsSeq(Inst(m, u).args) /\ ToSet(Inst(m, u).args) \subseteq Operands(m)
       /\ Len(Inst(m, u).args) \in OperandCounts(Inst(m, u).op)
       /\ Inst(m, u).n \in Int
  /\ \A g \in DOMAIN m.init : m.init[g] \in Operands(m)
=============================================================================
