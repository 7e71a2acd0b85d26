----------------------------- MODULE Execution -----------------------------
(***************************************************************************)
(* What a module really calls when it runs: LLVM's execution of the part   *)
(* of the IR that moves pointers.  Branches are free, as conditions are    *)
(* not part of the module; calling an undefined or null function, or one with  *)
(* too few arguments, is undefined and there the execution stops.          *)
(*                                                                         *)
(* A run-time value is a function, null, undef, an integer, or an address  *)
(* <<variable, offset>> into an alloca or a global.                        *)
(***************************************************************************)
EXTENDS LLVMModule

CONSTANT MaxCalls    \* calls that may be active at once

VARIABLES
  at,      \* the next instruction, <<>> when the execution has stopped
  regs,    \* values of registers and arguments
  mem,     \* contents of memory
  calls,   \* the calls to return to, each with its caller's registers
  taken    \* the pairs <<line, function>> of the calls made

xvars == <<at, regs, mem, calls, taken>>

Entry(f) == Reg(f, 1, 1)

ExecInit(m) ==
  /\ at = Entry(m.main) /\ regs = <<>> /\ calls = <<>> /\ taken = {}
  /\ mem = [g \in {<<Global(x), 0>> : x \in DOMAIN m.init} |-> m.init[g[1][2]]]

ValueOf(v) ==
  CASE v[1] = "global" -> <<v, 0>>
    [] v[1] = "cast"   -> Fn(v[2])
    [] v[1] \in {"inst", "arg"} -> IF v \in DOMAIN regs THEN regs[v] ELSE Undef
    [] OTHER -> v

\* Into block b of the function, its phis taking their values all at once.
Goto(m, f, from, b) ==
  LET insts == m.fn[f].blocks[b].insts
      phis == {i \in DOMAIN insts : insts[i].op = "phi"}
      In(i) == insts[i].args[CHOOSE k \in DOMAIN insts[i].at : insts[i].at[k] = from]
  IN  /\ at' = Reg(f, b, Cardinality(phis) + 1)
      /\ regs' = [r \in {Reg(f, b, i) : i \in phis} |-> ValueOf(In(r[4]))] @@ regs

AtEnd(m) == at[4] > Len(m.fn[at[2]].blocks[at[3]].insts)

ExecBranch(m) ==
  /\ at # <<>> /\ AtEnd(m)
  /\ \E b \in m.fn[at[2]].blocks[at[3]].succ : Goto(m, at[2], at[3], b)
  /\ UNCHANGED <<mem, calls, taken>>

Following(v) == [v EXCEPT ![4] = @ + 1]

Defines(v) == regs' = (at :> v) @@ regs /\ at' = Following(at)

ExecData(m) ==
  /\ at # <<>> /\ ~AtEnd(m)
  /\ LET i == Inst(m, at) IN
       \/ i.op = "alloca" /\ Defines(<<at, 0>>) /\ UNCHANGED mem
       \/ /\ i.op = "gep" /\ Len(ValueOf(i.args[1])) = 2
          /\ LET p == ValueOf(i.args[1]) IN Defines(<<p[1], p[2] + i.n>>)
          /\ UNCHANGED mem
       \/ /\ i.op = "load"
          /\ LET p == ValueOf(i.args[1])
             IN  Defines(IF p \in DOMAIN mem THEN mem[p] ELSE Undef)
          /\ UNCHANGED mem
       \/ /\ i.op = "store" /\ Len(ValueOf(i.args[2])) = 2
          /\ mem' = (ValueOf(i.args[2]) :> ValueOf(i.args[1])) @@ mem
          /\ at' = Following(at) /\ UNCHANGED regs
  /\ UNCHANGED <<calls, taken>>

ExecCall(m) ==
  /\ at # <<>> /\ ~AtEnd(m) /\ Op(m, at) = "call"
  /\ LET f == ValueOf(Callee(m, at))
         formals == {Arg(f[2], i) : i \in 0 .. m.fn[f[2]].arity - 1}
     IN  /\ Len(f) = 4 /\ f[1] = "fn"
         /\ taken' = taken \cup {<<Inst(m, at).n, f[2]>>}
         /\ \/ /\ m.fn[f[2]].blocks # <<>>
               /\ Len(calls) < MaxCalls
               /\ m.fn[f[2]].arity < Len(Inst(m, at).args)
               /\ at' = Entry(f[2]) /\ calls' = Append(calls, <<at, regs>>)
               /\ regs' = [a \in formals |-> ValueOf(ActualArg(m, at, a[4]))] @@ regs
            \/ /\ m.fn[f[2]].blocks = <<>>
               /\ Defines(Undef) /\ UNCHANGED calls
  /\ UNCHANGED mem

ExecReturn(m) ==
  /\ at # <<>> /\ ~AtEnd(m) /\ Op(m, at) = "ret" /\ calls # <<>>
  /\ LET c == calls[Len(calls)]
         operands == Inst(m, at).args
     IN  /\ regs' = (c[1] :> IF operands = <<>> THEN Undef ELSE ValueOf(operands[1])) @@ c[2]
         /\ at' = Following(c[1])
  /\ calls' = SubSeq(calls, 1, Len(calls) - 1)
  /\ UNCHANGED <<mem, taken>>

Execute(m) == ExecBranch(m) \/ ExecData(m) \/ ExecCall(m) \/ ExecReturn(m)
=============================================================================
