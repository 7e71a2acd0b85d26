--------------------- MODULE FuncDefCollectorTypeProofs ---------------------
(***************************************************************************)
(* Proofs about FuncDefCollector, for every set of modules the verifier    *)
(* accepts: whatever is traced is a value of the module, and the blocks    *)
(* selected are those some activation is inside of.                        *)
(***************************************************************************)
EXTENDS FuncDefCollectorProofs, FiniteSetTheorems

-----------------------------------------------------------------------------
(***************************************************************************)
(* Sequences of calls.                                                     *)
(***************************************************************************)
\* The image of a finite set by a function.
LEMMA FiniteImage ==
  ASSUME NEW S, IsFiniteSet(S), NEW f, DOMAIN f = S
  PROVE  IsFiniteSet({f[x] : x \in S})
<1> DEFINE T == {f[x] : x \in S}
           g == [x \in S |-> f[x]]
<1>1. g \in Surjection(S, T)
  BY DEF Surjection
<1> QED BY <1>1, FS_Surjection

\* The elements of a finite set in some order.
LEMMA Listed ==
  ASSUME NEW S, IsFiniteSet(S)
  PROVE  IsSeq(SetToSeq(S)) /\ \A n \in DOMAIN SetToSeq(S) : SetToSeq(S)[n] \in S
<1> DEFINE C == Cardinality(S)
<1>1. C \in Nat /\ ExistsBijection(1 .. C, S)
  BY FS_CardinalityType
<1>2. \E f \in [1 .. C -> S] : IsInjective(f)
  BY <1>1 DEF ExistsBijection, Bijection, Injection, IsInjective
<1>3. SetToSeq(S) \in [1 .. C -> S]
  BY <1>2 DEF SetToSeq
<1>4. SetToSeq(S) \in Seq(S)
  BY <1>1, <1>3
<1> QED BY <1>3, <1>4, SeqOfAny

LEMMA HeadAndTail ==
  ASSUME NEW s, IsSeq(s), s # <<>>
  PROVE  /\ Len(s) \in Nat /\ Len(s) > 0 /\ Head(s) = s[1]
         /\ IsSeq(Tail(s)) /\ Len(Tail(s)) = Len(s) - 1
         /\ DOMAIN s = 1 .. Len(s) /\ DOMAIN Tail(s) = 1 .. Len(s) - 1
         /\ \A n \in 1 .. Len(s) - 1 : Tail(s)[n] = s[n + 1]
<1> DEFINE S == {s[i] : i \in DOMAIN s}
<1>1. s \in Seq(S) /\ Len(s) \in Nat /\ DOMAIN s = 1 .. Len(s)
  BY SeqShape DEF IsSeq
<1> HIDE DEF S
<1>2. /\ Len(s) > 0 /\ Head(s) = s[1] /\ Tail(s) \in Seq(S) /\ Len(Tail(s)) = Len(s) - 1
      /\ \A n \in 1 .. Len(Tail(s)) : Tail(s)[n] = s[n + 1]
  BY <1>1, HeadTailProperties, EmptySeq
<1> QED BY <1>1, <1>2, SeqOfAny, SeqShape

LEMMA Joined ==
  ASSUME NEW s, IsSeq(s), NEW t, IsSeq(t)
  PROVE  /\ IsSeq(s \o t) /\ Len(s \o t) = Len(s) + Len(t)
         /\ \A n \in 1 .. Len(s) + Len(t) :
              (s \o t)[n] = IF n <= Len(s) THEN s[n] ELSE t[n - Len(s)]
<1> DEFINE S == {s[i] : i \in DOMAIN s} \cup {t[i] : i \in DOMAIN t}
<1>1. s \in Seq(S) /\ t \in Seq(S)
  BY SeqMonotonic DEF IsSeq
<1> HIDE DEF S
<1>2. s \o t \in Seq(S) /\ Len(s \o t) = Len(s) + Len(t)
  BY <1>1, ConcatProperties
<1>3. \A n \in 1 .. Len(s) + Len(t) :
        (s \o t)[n] = IF n <= Len(s) THEN s[n] ELSE t[n - Len(s)]
  BY <1>1, ConcatProperties
<1> QED BY <1>2, <1>3, SeqOfAny

\* A flattened sequence, one element more at a time.
LEMMA Flattened ==
  ASSUME NEW S, NEW seqs, IsSeq(seqs), \A i \in 1 .. Len(seqs) : seqs[i] \in Seq(S)
  PROVE  \E g : /\ g[0] = <<>> /\ g[Len(seqs)] = FlattenSeq(seqs)
                /\ \A i \in Nat : g[i] \in Seq(S)
                /\ \A i \in Nat : i < Len(seqs) => g[i + 1] = g[i] \o seqs[i + 1]
<1> DEFINE L == Len(seqs)
           Def(f) == [i \in 1 .. L |-> IF i = 1 THEN seqs[i] ELSE f[i - 1] \o seqs[i]]
           flatten == CHOOSE f : f = Def(f)
           T == Seq(S)
           more(i) == IF i < L THEN seqs[i + 1] ELSE <<>>
           step == [i \in Nat |-> [t \in T |-> t \o more(i)]]
<1>1. L \in Nat
  BY SeqShape
<1>2. <<>> \in T
  OBVIOUS
<1>3. \A i \in Nat : more(i) \in T
  <2> TAKE i \in Nat
  <2>1. i < L => i + 1 \in 1 .. L
    BY <1>1
  <2> QED BY <1>2, <2>1
<1>4. \A t, u \in T : t \o u \in T
  BY ConcatProperties
<1>5. step \in [Nat -> [T -> T]]
  <2> HIDE DEF T, more
  <2> QED BY <1>3, <1>4
<1>6. PICK g : DefinedBy(g, T, <<>>, step)
  <2> HIDE DEF T, step
  <2> QED BY <1>2, <1>5, Recursion
<1>7. /\ g \in [Nat -> T] /\ g[0] = <<>>
      /\ \A i \in Nat : g[i + 1] = g[i] \o more(i)
  <2> HIDE DEF T, more
  <2> QED BY <1>6 DEF DefinedBy
<1>8. \A i \in Nat : i < L => g[i + 1] = g[i] \o seqs[i + 1]
  BY <1>7
<1>9. g[L] = FlattenSeq(seqs)
  <2>1. CASE L = 0
    BY <1>7, <2>1, EmptySeq DEF FlattenSeq, IsSeq
  <2>2. CASE L # 0
    <3> DEFINE h == [i \in 1 .. L |-> g[i]]
    <3>1. \A i \in 1 .. L : h[i] = IF i = 1 THEN seqs[i] ELSE h[i - 1] \o seqs[i]
      <4> TAKE i \in 1 .. L
      <4>1. i - 1 \in Nat /\ i - 1 < L /\ (i - 1) + 1 = i
        BY <1>1
      <4>2. g[i] = g[i - 1] \o seqs[i]
        BY <1>8, <4>1
      <4>3. CASE i = 1
        <5>1. <<>> \o seqs[1] = seqs[1]
          BY <4>3, ConcatEmptySeq
        <5>2. 0 < L /\ 0 + 1 = 1
          BY <1>1, <2>2
        <5>3. g[1] = <<>> \o seqs[1]
          BY <1>7, <1>8, <5>2
        <5>4. h[i] = seqs[i]
          BY <4>3, <5>1, <5>3
        <5> QED BY <4>3, <5>4
      <4>4. CASE i # 1
        <5>1. i - 1 \in 1 .. L
          BY <4>4, <1>1
        <5> QED BY <4>2, <4>4, <5>1
      <4> QED BY <4>3, <4>4
    <3>2. h = Def(h)
      <4> HIDE DEF h
      <4>1. h = [i \in 1 .. L |-> h[i]]
        BY DEF h
      <4> QED BY <3>1, <4>1
    <3>3. flatten = Def(flatten)
      <4>1. \E f : f = Def(f)
        BY <3>2
      <4> HIDE DEF Def
      <4> QED BY <4>1
    <3> HIDE DEF flatten, h
    <3>4. \A i \in 1 .. L : flatten[i] = IF i = 1 THEN seqs[i] ELSE flatten[i - 1] \o seqs[i]
      BY <3>3
    <3> DEFINE U == {n \in Nat : n + 1 \in 1 .. L => flatten[n + 1] = h[n + 1]}
    <3>5. 0 \in U
      BY <3>1, <3>4, <2>2, <1>1
    <3>6. ASSUME NEW n \in Nat, n \in U
          PROVE  n + 1 \in U
      <4> SUFFICES ASSUME (n + 1) + 1 \in 1 .. L
                   PROVE  flatten[(n + 1) + 1] = h[(n + 1) + 1]
        OBVIOUS
      <4>1. n + 1 \in 1 .. L /\ (n + 1) + 1 # 1 /\ ((n + 1) + 1) - 1 = n + 1
        BY <1>1
      <4>2. flatten[n + 1] = h[n + 1]
        BY <3>6, <4>1
      <4> QED BY <3>1, <3>4, <4>1, <4>2
    <3>7. Nat \subseteq U
      <4> HIDE DEF U
      <4> QED BY <3>5, <3>6, Induction
    <3>8. L - 1 \in Nat /\ (L - 1) + 1 = L /\ L \in 1 .. L
      BY <1>1, <2>2
    <3>9. flatten[L] = h[L]
      BY <3>7, <3>8
    <3>10. FlattenSeq(seqs) = flatten[L]
      BY <2>2 DEF FlattenSeq, flatten
    <3> QED BY <3>8, <3>9, <3>10 DEF h
  <2> QED BY <2>1, <2>2
<1> QED BY <1>7, <1>8, <1>9

-----------------------------------------------------------------------------
(***************************************************************************)
(* What is called with what.  s is the stack of activations; a call is     *)
(* made by the activation i - 1 and becomes the i-th.                      *)
(***************************************************************************)
IsCall(c) == c = [fn |-> c.fn, v |-> c.v, n |-> c.n, to |-> c.to, by |-> c.by]

Switches == {"insert", "erase"}

\* The two kinds of activations others report to: collectBases is the callback
\* of a traceMemory, callBases and visited are of a traceValue.
TracesGep(m, call) == call.fn = "traceMemory" /\ Op(m, call.v) = "gep"
TracesArg(m, call) == call.fn = "traceValue" /\ Op(m, call.v) = "arg"

MayCall(m, call, fn) ==
  LET op == Op(m, call.v)
  IN  \/ call.fn = "collect" /\ fn = "traceValue"
      \/ call.fn = "traceValue" /\ fn = "traceValue"
      \/ call.fn = "traceValue" /\ op = "load" /\ fn = "traceMemory"
      \/ call.fn = "traceValue" /\ op = "arg" /\ fn = "getCallBases"
      \/ call.fn = "traceValue" /\ op = "phi" /\ fn \in Switches
      \/ call.fn = "traceMemory" /\ op = "gep" /\ fn \in {"traceValue", "findSiblingGEPs"}
      \/ call.fn = "traceMemory" /\ op = "phi" /\ fn \in {"traceMemory"} \cup Switches
      \/ call.fn = "findSiblingGEPs" /\ fn = "findSiblingGEPs"
      \/ call.fn = "getCallBases" /\ fn \in {"getCallBases", "collect"}

CallOK(m, s, i, c) ==
  /\ IsCall(c)
  /\ c.fn \notin Switches => c.v \in Values(m)
  /\ c.fn = "findSiblingGEPs" => c.by \in Values(m)
  /\ c.fn = "collect" => c.v \in Calls(m) /\ c.n \in Nat
  /\ c.to \in 0 .. i - 1
  /\ c.fn = "traceValue" /\ c.to # 0 => TracesGep(m, s[c.to].call)
  /\ c.fn = "getCallBases" \/ (c.fn = "collect" /\ i > 1) =>
       c.to # 0 /\ TracesArg(m, s[c.to].call)

Stores(m) == {u \in Insts(m) : Inst(m, u).op = "store"}

TodoOK(m, s, i, todo) ==
  /\ IsSeq(todo)
  /\ \A n \in DOMAIN todo : CallOK(m, s, i + 1, todo[n]) /\ MayCall(m, s[i].call, todo[n].fn)

\* GEPInfos are pairs, CallBases calls, StoreInsts stores.
FoundOK(m, call, found) ==
  found \subseteq IF call.fn = "findSiblingGEPs" \/ TracesGep(m, call) THEN Values(m) \X Values(m)
                  ELSE IF TracesArg(m, call) THEN Insts(m) ELSE Stores(m)

SeenOK(m, call, seen) ==
  seen \subseteq IF call.fn = "traceMemory" THEN Values(m) \X Values(m) ELSE Values(m)

Offsets == -128 .. 127

\* What the i-th activation has still to do and has found.
BodyOK(m, s, i, a) ==
  /\ TodoOK(m, s, i, a.todo)
  /\ FoundOK(m, s[i].call, a.found)
  /\ SeenOK(m, s[i].call, a.seen)
  /\ a.offset \in Offsets

\* How it has been called.
LinkOK(m, s, i) ==
  /\ CallOK(m, s, i, s[i].call)
  /\ s[i].call.fn \notin Switches
  /\ i > 1 => MayCall(m, s[i - 1].call, s[i].call.fn)

ActivationsOK(m, s) == \A i \in 1 .. Len(s) : LinkOK(m, s, i) /\ BodyOK(m, s, i, s[i])

CollectorOK(m, c) ==
  /\ c.visitedSet \subseteq Values(m)
  /\ \A p \in DOMAIN c.visitedStack : c.visitedStack[p] \in Values(m)
  /\ c.results \subseteq DOMAIN m.fn

TypesOK ==
  /\ StackOK
  /\ input \in DOMAIN Modules /\ status \in {"running", "overflow", "fatal"}
  /\ pending \subseteq Calls(M)
  /\ ActivationsOK(M, stack)
  /\ \A k \in 1 .. Len(collectors) : CollectorOK(M, collectors[k])
  /\ IsSeq(output) /\ ToSet(output) \subseteq Lines

-----------------------------------------------------------------------------
(***************************************************************************)
(* The blocks selected.                                                    *)
(***************************************************************************)
Does(todo, n, fn, b) == todo[n].fn = fn /\ todo[n].v = b

\* Each insert is followed by an erase of its block before the next insert of
\* it, and between two erases of a block there is an insert.
Balanced(todo) ==
  /\ \A n \in DOMAIN todo : todo[n].fn = "insert" =>
       \E k \in n + 1 .. Len(todo) :
         /\ Does(todo, k, "erase", todo[n].v)
         /\ \A j \in n + 1 .. k - 1 : ~ Does(todo, j, "insert", todo[n].v)
  /\ \A n, k \in DOMAIN todo :
       n < k /\ todo[n].fn = "erase" /\ Does(todo, k, "erase", todo[n].v) =>
         \E j \in n + 1 .. k - 1 : Does(todo, j, "insert", todo[n].v)

Switched(todo) == {todo[n].v : n \in {k \in DOMAIN todo : todo[k].fn \in Switches}}

\* A block is selected by one activation of a collector, and those it calls leave
\* it alone.
SelectedOK(s, cs) ==
  /\ \A i \in 1 .. Len(s) : Balanced(s[i].todo)
  /\ \A i, j \in 1 .. Len(s) :
       i < j /\ s[i].level = s[j].level => Open(s[i].todo) \cap Switched(s[j].todo) = {}
  /\ \A k \in 1 .. Len(cs), i \in 1 .. Len(s) :
       s[i].level = k => Open(s[i].todo) \subseteq cs[k].selectedBlock
  /\ \A k \in 1 .. Len(cs) : \A b \in cs[k].selectedBlock :
       \E i \in 1 .. Len(s) : s[i].level = k /\ b \in Open(s[i].todo)

-----------------------------------------------------------------------------
(***************************************************************************)
(* Modules.                                                                *)
(***************************************************************************)
InstOps == {"alloca", "load", "gep", "ret", "store", "call", "phi"}

LEMMA InstShape ==
  ASSUME NEW m, IsModule(m), NEW u \in Insts(m)
  PROVE  /\ u \in Values(m) /\ Op(m, u) = Inst(m, u).op /\ Inst(m, u).op \in InstOps
         /\ Len(Inst(m, u).args) \in Nat
         /\ DOMAIN Inst(m, u).args = 1 .. Len(Inst(m, u).args)
         /\ \A i \in DOMAIN Inst(m, u).args : Inst(m, u).args[i] \in Values(m)
         /\ Op(m, u) \in {"load", "gep", "store", "call"} => 1 \in DOMAIN Inst(m, u).args
         /\ Op(m, u) = "store" => 2 \in DOMAIN Inst(m, u).args
         /\ Inst(m, u).args # <<>> => 1 \in DOMAIN Inst(m, u).args
         /\ Inst(m, u).n \in Int
         /\ u[1] = "inst" /\ u[2] \in DOMAIN m.fn /\ u[3] \in Nat
<1> DEFINE args == Inst(m, u).args
           op == Inst(m, u).op
<1>1. /\ IsSeq(args) /\ ToSet(args) \subseteq Operands(m)
      /\ Len(args) \in OperandCounts(op) /\ Inst(m, u).n \in Int
  BY DEF IsModule
<1>2. Len(args) \in Nat /\ DOMAIN args = 1 .. Len(args)
  BY <1>1, SeqShape
<1>3. op \in InstOps
  BY <1>1 DEF OperandCounts, InstOps
<1>4. PICK f \in DOMAIN m.fn :
        \E b_ \in DOMAIN m.fn[f].blocks : \E i \in DOMAIN m.fn[f].blocks[b_].insts :
          u = Reg(f, b_, i)
  BY DEF Insts
<1>. PICK b \in DOMAIN m.fn[f].blocks : \E i \in DOMAIN m.fn[f].blocks[b].insts : u = Reg(f, b, i)
  BY <1>4
<1>5. u[1] = "inst" /\ u[2] = f /\ u[3] = b
  BY <1>4 DEF Reg
<1>6. b \in Nat
  BY SeqShape DEF IsModule
<1>7. Op(m, u) = op
  BY <1>5 DEF Op
<1>8. u \in Values(m) /\ ToSet(args) \subseteq Values(m)
  BY DEF Values, Operated
<1>9. \A i_ \in DOMAIN args : args[i_] \in Values(m)
  BY <1>8 DEF ToSet
<1>10. op \in {"load", "gep", "store", "call"} => Len(args) >= 1
  BY <1>1, <1>2 DEF OperandCounts
<1>11. op = "store" => Len(args) >= 2
  <2> SUFFICES ASSUME op = "store"
               PROVE  Len(args) >= 2
    OBVIOUS
  <2>1. Len(args) = 2
    BY <1>1 DEF OperandCounts
  <2> HIDE DEF args, op
  <2> QED BY <2>1
<1> HIDE DEF args, op
<1>12. op \in {"load", "gep", "store", "call"} => 1 \in DOMAIN args
  BY <1>2, <1>10
<1>13. op = "store" => 2 \in DOMAIN args
  BY <1>2, <1>11
<1>14. args # <<>> => 1 \in DOMAIN args
  BY <1>1, <1>2, NonEmpty
<1> QED
  BY <1>1, <1>2, <1>3, <1>5, <1>6, <1>7, <1>8, <1>9, <1>12, <1>13, <1>14 DEF args, op

LEMMA ValuesAreOperands ==
  ASSUME NEW m, IsModule(m)
  PROVE  Values(m) \subseteq Operands(m)
<1>1. \A u \in Insts(m) : ToSet(Inst(m, u).args) \subseteq Operands(m)
  BY DEF IsModule
<1>2. \A g \in DOMAIN m.init : m.init[g] \in Operands(m)
  BY DEF IsModule
<1>3. /\ Insts(m) \subseteq Operands(m) /\ {Fn(f) : f \in DOMAIN m.fn} \subseteq Operands(m)
      /\ Null \in Operands(m) /\ Arguments(m) \subseteq Operands(m)
  BY DEF Operands
<1> QED BY <1>1, <1>2, <1>3 DEF Values, Operated

LEMMA ValueKinds ==
  ASSUME NEW m, IsModule(m), NEW v \in Values(m)
  PROVE  \/ v \in Insts(m)
         \/ v[1] = "fn" /\ v[2] \in DOMAIN m.fn /\ v = Fn(v[2])
         \/ v[1] = "cast" /\ v[2] \in DOMAIN m.fn
         \/ v[1] = "global" /\ v[2] \in DOMAIN m.init
         \/ v[1] = "arg" /\ v[2] \in DOMAIN m.fn
         \/ v[1] \in {"null", "undef", "int"}
<1>1. v \in Operands(m)
  BY ValuesAreOperands
<1>2. ASSUME NEW f \in DOMAIN m.fn, v = Fn(f)
      PROVE  v[1] = "fn" /\ v[2] \in DOMAIN m.fn /\ v = Fn(v[2])
  BY <1>2 DEF Fn
<1>3. ASSUME NEW f \in DOMAIN m.fn, v = Cast(f)
      PROVE  v[1] = "cast" /\ v[2] \in DOMAIN m.fn
  BY <1>3 DEF Cast
<1>4. ASSUME NEW g \in DOMAIN m.init, v = Global(g)
      PROVE  v[1] = "global" /\ v[2] \in DOMAIN m.init
  BY <1>4 DEF Global
<1>5. ASSUME NEW f \in DOMAIN m.fn, NEW i, v = Arg(f, i)
      PROVE  v[1] = "arg" /\ v[2] \in DOMAIN m.fn
  BY <1>5 DEF Arg
<1>6. Null[1] = "null" /\ Undef[1] = "undef" /\ Int0[1] = "int"
  BY DEF Null, Undef, Int0
<1>7. v \in {Null, Undef, Int0} => v[1] \in {"null", "undef", "int"}
  BY <1>6
<1> QED BY <1>1, <1>2, <1>3, <1>4, <1>5, <1>7 DEF Operands, Arguments

\* What a value is, by Op.
LEMMA ValueOps ==
  ASSUME NEW m, IsModule(m), NEW v \in Values(m)
  PROVE  /\ Op(m, v) \in InstOps <=> v \in Insts(m)
         /\ Op(m, v) = "fn" <=> v[1] = "fn"
         /\ Op(m, v) = "fn" => v[2] \in DOMAIN m.fn /\ v = Fn(v[2])
         /\ Op(m, v) \in {"cast", "arg"} => v[2] \in DOMAIN m.fn
         /\ Op(m, v) = "global" => v[2] \in DOMAIN m.init
<1>1. CASE v \in Insts(m)
  <2>1. Op(m, v) \in InstOps /\ v[1] = "inst"
    BY <1>1, InstShape
  <2> QED BY <1>1, <2>1 DEF InstOps
<1>2. CASE v \notin Insts(m)
  <2>1. v[1] \in {"fn", "cast", "global", "arg", "null", "undef", "int"}
    BY <1>2, ValueKinds
  <2>2. Op(m, v) = v[1] /\ v[1] \notin InstOps
    BY <2>1 DEF Op, InstOps
  <2> QED BY <1>2, <2>1, <2>2, ValueKinds
<1> QED BY <1>1, <1>2

LEMMA FunctionValues ==
  ASSUME NEW m, IsModule(m), NEW f \in DOMAIN m.fn
  PROVE  /\ Fn(f) \in Values(m)
         /\ \A i \in 0 .. m.fn[f].arity - 1 : Arg(f, i) \in Values(m)
BY DEF Values, Arguments

LEMMA InitialValues ==
  ASSUME NEW m, IsModule(m), NEW g \in DOMAIN m.init
  PROVE  m.init[g] \in Values(m)
BY DEF Values

\* Users, and the calls among them.
LEMMA UsersAreInsts ==
  ASSUME NEW m, NEW v, NEW op
  PROVE  /\ UsersOf(m, v, op) \subseteq Insts(m)
         /\ \A u \in UsersOf(m, v, op) : Inst(m, u).op = op /\ v \in ToSet(Inst(m, u).args)
BY DEF UsersOf, Users

\* Sets of values are finite, and so are images of them.
LEMMA FiniteValues ==
  ASSUME NEW m, IsModule(m), NEW S
  PROVE  /\ S \subseteq Values(m) => IsFiniteSet(S)
         /\ S \subseteq Values(m) \X Values(m) => IsFiniteSet(S)
<1>1. IsFiniteSet(Values(m))
  BY DEF IsModule
<1>2. IsFiniteSet(Values(m) \X Values(m))
  BY <1>1, FS_Product
<1> QED BY <1>1, <1>2, FS_Subset

-----------------------------------------------------------------------------
(***************************************************************************)
(* Activations and what they are called with, from one stack to the next.  *)
(***************************************************************************)
LEMMA FieldValues ==
  ASSUME NEW a, IsActivation(a), NEW x
  PROVE  /\ LET b == [a EXCEPT !.todo = x]
            IN  b.todo = x /\ b.found = a.found /\ b.seen = a.seen /\ b.offset = a.offset
         /\ LET b == [a EXCEPT !.stage = x]
            IN  b.todo = a.todo /\ b.found = a.found /\ b.seen = a.seen /\ b.offset = a.offset
         /\ LET b == [a EXCEPT !.found = x]
            IN  b.todo = a.todo /\ b.found = x /\ b.seen = a.seen /\ b.offset = a.offset
         /\ LET b == [a EXCEPT !.seen = x]
            IN  b.todo = a.todo /\ b.found = a.found /\ b.seen = x /\ b.offset = a.offset
         /\ LET b == [a EXCEPT !.offset = x]
            IN  b.todo = a.todo /\ b.found = a.found /\ b.seen = a.seen /\ b.offset = x
BY DEF IsActivation

LEMMA BodyChanged ==
  ASSUME NEW m, NEW s, NEW i, NEW a, IsActivation(a), BodyOK(m, s, i, a), NEW x
  PROVE  /\ TodoOK(m, s, i, x) => BodyOK(m, s, i, [a EXCEPT !.todo = x])
         /\ BodyOK(m, s, i, [a EXCEPT !.stage = x])
         /\ FoundOK(m, s[i].call, x) => BodyOK(m, s, i, [a EXCEPT !.found = x])
         /\ SeenOK(m, s[i].call, x) => BodyOK(m, s, i, [a EXCEPT !.seen = x])
         /\ x \in Offsets => BodyOK(m, s, i, [a EXCEPT !.offset = x])
BY FieldValues DEF BodyOK

\* The calls of t's activations below the i-th are those of s's.
SameCalls(s, t, i) == \A j \in 1 .. i : t[j].call = s[j].call

LEMMA CallStill ==
  ASSUME NEW m, NEW s, NEW t, NEW i \in Nat \ {0}, NEW c,
         SameCalls(s, t, i - 1), CallOK(m, s, i, c)
  PROVE  CallOK(m, t, i, c)
<1>1. c.to \in 0 .. i - 1 /\ (c.to # 0 => c.to \in 1 .. i - 1)
  BY DEF CallOK
<1>2. c.to # 0 => t[c.to].call = s[c.to].call
  BY <1>1 DEF SameCalls
<1> QED BY <1>2 DEF CallOK

LEMMA BodyStill ==
  ASSUME NEW m, NEW s, NEW t, NEW i \in Nat \ {0}, NEW a,
         SameCalls(s, t, i), BodyOK(m, s, i, a)
  PROVE  BodyOK(m, t, i, a)
<1>1. t[i].call = s[i].call
  BY DEF SameCalls
<1>2. i + 1 \in Nat \ {0} /\ SameCalls(s, t, (i + 1) - 1)
  BY DEF SameCalls
<1>3. \A n \in DOMAIN a.todo : CallOK(m, t, i + 1, a.todo[n])
  BY <1>2, CallStill DEF BodyOK, TodoOK
<1> QED BY <1>1, <1>3 DEF BodyOK, TodoOK

LEMMA LinkStill ==
  ASSUME NEW m, NEW s, NEW t, NEW i \in Nat \ {0},
         SameCalls(s, t, i), LinkOK(m, s, i)
  PROVE  LinkOK(m, t, i)
<1>1. t[i].call = s[i].call /\ SameCalls(s, t, i - 1)
  BY DEF SameCalls
<1>2. i > 1 => t[i - 1].call = s[i - 1].call
  BY DEF SameCalls
<1>3. CallOK(m, t, i, t[i].call)
  BY <1>1, CallStill DEF LinkOK
<1> QED BY <1>1, <1>2, <1>3 DEF LinkOK

\* What is common to two stacks is in order in the second if its bodies were in
\* the first.
LEMMA PrefixOK ==
  ASSUME NEW m, NEW s, NEW t, NEW n \in Nat, NEW k \in Nat, k <= n,
         \A i \in 1 .. n : LinkOK(m, s, i), SameCalls(s, t, k),
         \A i \in 1 .. k : BodyOK(m, s, i, t[i])
  PROVE  \A i \in 1 .. k : LinkOK(m, t, i) /\ BodyOK(m, t, i, t[i])
<1> TAKE i \in 1 .. k
<1>1. i \in Nat \ {0} /\ SameCalls(s, t, i) /\ i \in 1 .. n
  BY DEF SameCalls
<1> QED BY <1>1, LinkStill, BodyStill

LEMMA TypesKept ==
  ASSUME NEW m, NEW s, NEW t, IsStack(s), ActivationsOK(m, s), Kept(s, t),
         \A i \in 1 .. Len(s) : BodyOK(m, s, i, t[i])
  PROVE  ActivationsOK(m, t)
<1>1. Len(s) \in Nat /\ Len(t) = Len(s)
  BY SeqShape DEF IsStack, Kept
<1>2. SameCalls(s, t, Len(s))
  BY DEF SameCalls, Kept, Later
<1>3. Len(s) <= Len(s) /\ \A i \in 1 .. Len(s) : LinkOK(m, s, i)
  BY <1>1 DEF ActivationsOK
<1>4. \A i \in 1 .. Len(s) : LinkOK(m, t, i) /\ BodyOK(m, t, i, t[i])
  BY <1>1, <1>2, <1>3, PrefixOK
<1> QED BY <1>1, <1>4 DEF ActivationsOK

LEMMA TypesShrunk ==
  ASSUME NEW m, NEW s, NEW t, IsStack(s), Len(s) > 0, ActivationsOK(m, s), Shrunk(s, t),
         \A i \in 1 .. Len(s) - 1 : BodyOK(m, s, i, t[i])
  PROVE  ActivationsOK(m, t)
<1>1. Len(s) \in Nat /\ Len(t) = Len(s) - 1
  BY SeqShape DEF IsStack, Shrunk
<1>2. SameCalls(s, t, Len(s) - 1)
  BY DEF SameCalls, Shrunk, Later
<1>3. Len(s) - 1 \in Nat /\ Len(s) - 1 <= Len(s)
  BY <1>1
<1> QED BY <1>1, <1>2, <1>3, PrefixOK DEF ActivationsOK

LEMMA TypesGrown ==
  ASSUME NEW m, NEW s, NEW t, IsStack(s), ActivationsOK(m, s), NEW call, NEW level,
         Grown(s, t, call, level),
         \A i \in 1 .. Len(s) : BodyOK(m, s, i, t[i]),
         CallOK(m, s, Len(s) + 1, call), call.fn \notin Switches,
         Len(s) > 0 => MayCall(m, s[Len(s)].call, call.fn),
         BodyOK(m, t, Len(s) + 1, t[Len(s) + 1])
  PROVE  ActivationsOK(m, t)
<1> DEFINE L == Len(s)
<1>1. L \in Nat /\ Len(t) = L + 1 /\ t[L + 1].call = call
  BY SeqShape DEF IsStack, Grown
<1>2. SameCalls(s, t, L)
  BY DEF SameCalls, Grown, Later
<1>3. \A i \in 1 .. L : LinkOK(m, t, i) /\ BodyOK(m, t, i, t[i])
  <2>1. L <= L /\ \A i \in 1 .. L : LinkOK(m, s, i)
    BY <1>1 DEF ActivationsOK
  <2> HIDE DEF L
  <2> QED BY <1>1, <1>2, <2>1, PrefixOK DEF L
<1>4. L + 1 \in Nat \ {0} /\ (L + 1) - 1 = L
  BY <1>1
<1>5. CallOK(m, t, L + 1, call)
  BY <1>2, <1>4, CallStill
<1>6. L > 0 => t[L].call = s[L].call
  BY <1>1, <1>2 DEF SameCalls
<1>7. LinkOK(m, t, L + 1)
  BY <1>1, <1>4, <1>5, <1>6 DEF LinkOK
<1>8. \A i \in 1 .. L + 1 : i \in 1 .. L \/ i = L + 1
  BY <1>1
<1> QED BY <1>1, <1>3, <1>7, <1>8 DEF ActivationsOK

-----------------------------------------------------------------------------
(***************************************************************************)
(* The steps, in terms of these.                                           *)
(***************************************************************************)
LEMMA Acting ==
  ASSUME TypesOK
  PROVE  /\ IsModule(M) /\ IsStack(stack) /\ Len(stack) \in Nat
         /\ \A i \in 1 .. Len(stack) :
              IsActivation(stack[i]) /\ LinkOK(M, stack, i) /\ BodyOK(M, stack, i, stack[i])
         /\ stack # <<>> =>
              /\ Len(stack) > 0 /\ Len(stack) \in 1 .. Len(stack) /\ Top = stack[Len(stack)]
              /\ IsActivation(Top) /\ LinkOK(M, stack, Len(stack))
              /\ BodyOK(M, stack, Len(stack), Top)
<1>1. IsModule(M)
  BY ModulesAssumption DEF TypesOK, M
<1>2. IsStack(stack) /\ IsSeq(stack) /\ Len(stack) \in Nat
  BY SeqShape DEF TypesOK, StackOK, IsStack
<1>3. \A i \in 1 .. Len(stack) :
        IsActivation(stack[i]) /\ LinkOK(M, stack, i) /\ BodyOK(M, stack, i, stack[i])
  BY DEF TypesOK, StackOK, IsStack, ActivationsOK
<1>4. ASSUME stack # <<>>
      PROVE  Len(stack) > 0 /\ Len(stack) \in 1 .. Len(stack) /\ Top = stack[Len(stack)]
  <2>1. Len(stack) > 0
    BY <1>2, <1>4, NonEmpty
  <2> QED BY <1>2, <2>1 DEF Top, Depth
<1> QED BY <1>1, <1>2, <1>3, <1>4

LEMMA NextCall ==
  ASSUME TypesOK, NEW fn, Calling(fn)
  PROVE  /\ stack # <<>> /\ Head(Top.todo).fn = fn
         /\ CallOK(M, stack, Len(stack) + 1, Head(Top.todo))
         /\ MayCall(M, stack[Len(stack)].call, Head(Top.todo).fn)
         /\ Kept(stack, Called)
         /\ \A i \in 1 .. Len(stack) : BodyOK(M, stack, i, Called[i])
         /\ \A i \in 1 .. Len(stack) : Called[i].found = stack[i].found /\ Called[i].seen = stack[i].seen
<1> DEFINE L == Len(stack)
<1>1. stack # <<>> /\ Head(Top.todo).fn = fn /\ Top.todo # <<>>
  BY DEF Calling
<1>2. /\ L \in Nat /\ L > 0 /\ Top = stack[L] /\ IsActivation(Top)
      /\ TodoOK(M, stack, L, Top.todo) /\ IsSeq(stack)
  BY <1>1, Acting DEF BodyOK, IsStack
<1>3. /\ Head(Top.todo) = Top.todo[1] /\ 1 \in DOMAIN Top.todo
      /\ IsSeq(Tail(Top.todo))
      /\ \A n \in DOMAIN Tail(Top.todo) :
           n + 1 \in DOMAIN Top.todo /\ Tail(Top.todo)[n] = Top.todo[n + 1]
  BY <1>1, <1>2, HeadAndTail DEF TodoOK
<1>4. TodoOK(M, stack, L, Tail(Top.todo))
  BY <1>2, <1>3 DEF TodoOK
<1>5. CallOK(M, stack, L + 1, Head(Top.todo)) /\ MayCall(M, stack[L].call, Head(Top.todo).fn)
  BY <1>2, <1>3 DEF TodoOK
<1>6. \A i \in 1 .. L :
        Called[i] = IF i = L THEN [Top EXCEPT !.todo = Tail(Top.todo)] ELSE stack[i]
  <2>1. Called = [stack EXCEPT ![L] = [Top EXCEPT !.todo = Tail(Top.todo)]]
    BY <1>2 DEF Called, Depth
  <2> QED BY <1>2, <2>1, Replaced
<1>7. BodyOK(M, stack, L, [Top EXCEPT !.todo = Tail(Top.todo)])
  BY <1>1, <1>2, <1>4, Acting, BodyChanged
<1>8. \A i \in 1 .. L : BodyOK(M, stack, i, Called[i])
  BY <1>6, <1>7, Acting
<1>9. \A i \in 1 .. L : Called[i].found = stack[i].found /\ Called[i].seen = stack[i].seen
  <2> DEFINE a == [Top EXCEPT !.todo = Tail(Top.todo)]
  <2>1. a.found = Top.found /\ a.seen = Top.seen
    BY <1>2, FieldValues
  <2> HIDE DEF a
  <2> QED BY <1>2, <1>6, <2>1 DEF a
<1>10. Kept(stack, Called)
  BY CalledKept DEF TypesOK
<1> QED BY <1>1, <1>5, <1>8, <1>9, <1>10

\* A new activation has found nothing; what it has to do is what matters.
LEMMA NewBody ==
  ASSUME NEW m, NEW t, NEW i, NEW call, NEW todo, NEW level, TodoOK(m, t, i, todo)
  PROVE  BodyOK(m, t, i, Activation(call, todo, level))
BY DEF BodyOK, Activation, FoundOK, SeenOK, Offsets

LEMMA EnterTypes ==
  ASSUME TypesOK, NEW fn, Calling(fn), fn \notin Switches, NEW frames, Kept(stack, frames),
         \A i \in 1 .. Len(stack) : BodyOK(M, stack, i, frames[i]),
         NEW todo, Enter(frames, todo), TodoOK(M, stack', Len(stack) + 1, todo)
  PROVE  ActivationsOK(M, stack')
<1> DEFINE L == Len(stack)
           a == Activation(Head(Top.todo), todo, Top.level)
<1>1. IsStack(stack) /\ L \in Nat /\ IsSeq(frames) /\ Len(frames) = L
  BY Acting DEF Kept, IsStack
<1>2. stack' = Append(frames, a)
  BY DEF Enter
<1> HIDE DEF a
<1>3. stack'[L + 1] = a /\ \A i \in 1 .. L : stack'[i] = frames[i]
  BY <1>1, <1>2, Pushed
<1>4. Grown(stack, stack', Head(Top.todo), Top.level)
  BY Entered DEF TypesOK
<1>5. BodyOK(M, stack', L + 1, a)
  BY NewBody DEF a
<1>6. /\ CallOK(M, stack, L + 1, Head(Top.todo)) /\ Head(Top.todo).fn \notin Switches
      /\ MayCall(M, stack[L].call, Head(Top.todo).fn)
  BY NextCall
<1>7. ActivationsOK(M, stack)
  BY DEF TypesOK
<1>8. \A i \in 1 .. L : BodyOK(M, stack, i, stack'[i])
  BY <1>3
<1>9. BodyOK(M, stack', L + 1, stack'[L + 1])
  BY <1>3, <1>5
<1> QED BY <1>1, <1>4, <1>6, <1>7, <1>8, <1>9, TypesGrown

\* What a phi is traced with: its incoming values, and their blocks.
LEMMA IncomingTypes ==
  ASSUME IsModule(M), NEW call, call.v \in Insts(M), NEW todo, todo \in Incoming(call)
  PROVE  /\ IsSeq(todo)
         /\ \A n \in DOMAIN todo :
              \/ \E b : todo[n] = insertBlock(b) \/ todo[n] = eraseBlock(b)
              \/ \E w \in Values(M) \cap ToSet(Inst(M, call.v).args) : todo[n] = [call EXCEPT !.v = w]
<1> DEFINE phi == Inst(M, call.v)
           D == DOMAIN phi.args
           b(i) == <<call.v[2], phi.at[i]>>
           S == {insertBlock(b(i)) : i \in D} \cup {[call EXCEPT !.v = phi.args[i]] : i \in D}
                  \cup {eraseBlock(b(i)) : i \in D}
           seqs == [i \in D |-> <<insertBlock(b(i)), [call EXCEPT !.v = phi.args[i]], eraseBlock(b(i))>>]
<1>1. Len(phi.args) \in Nat /\ D = 1 .. Len(phi.args) /\ \A i \in D : phi.args[i] \in Values(M)
  BY InstShape
<1>2. \A x \in S :
        \/ \E b_ : x = insertBlock(b_) \/ x = eraseBlock(b_)
        \/ \E w \in Values(M) \cap ToSet(phi.args) : x = [call EXCEPT !.v = w]
  <2>1. \A i \in D : phi.args[i] \in Values(M) \cap ToSet(phi.args)
    BY <1>1 DEF ToSet
  <2> QED BY <2>1
<1>3. todo = FlattenSeq(seqs) \/ \E i \in D : todo = <<[call EXCEPT !.v = phi.args[i]]>>
  BY DEF Incoming
<1>4. CASE \E i \in D : todo = <<[call EXCEPT !.v = phi.args[i]]>>
  <2>1. PICK i \in D : todo = <<[call EXCEPT !.v = phi.args[i]]>>
    BY <1>4
  <2> DEFINE x == [call EXCEPT !.v = phi.args[i]]
  <2>2. x \in S
    OBVIOUS
  <2> HIDE DEF S, x
  <2>3. todo \in Seq(S)
    BY <2>1, <2>2 DEF x
  <2> QED BY <2>3, <1>2, SeqOfAny, SeqShape
<1>5. CASE todo = FlattenSeq(seqs)
  <2>1. \A i \in D : seqs[i] \in Seq(S)
    <3> TAKE i \in D
    <3> DEFINE x == insertBlock(b(i))
               y == [call EXCEPT !.v = phi.args[i]]
               z == eraseBlock(b(i))
    <3>1. x \in S /\ y \in S /\ z \in S
      OBVIOUS
    <3>2. seqs[i] = <<x, y, z>>
      OBVIOUS
    <3> HIDE DEF S, x, y, z, seqs
    <3> QED BY <3>1, <3>2
  <2>2. IsSeq(seqs) /\ Len(seqs) = Len(phi.args)
    <3> DEFINE R == {seqs[i] : i \in D}
    <3>1. seqs \in [1 .. Len(phi.args) -> R]
      BY <1>1
    <3>3. Len(seqs) = Len(phi.args)
      BY <1>1
    <3> HIDE DEF R, seqs
    <3>2. seqs \in Seq(R)
      BY <1>1, <3>1
    <3> QED BY <3>2, <3>3, SeqOfAny
  <2> HIDE DEF S, seqs
  <2>3. FlattenSeq(seqs) \in Seq(S)
    <3>1. PICK g : g[Len(seqs)] = FlattenSeq(seqs) /\ \A i \in Nat : g[i] \in Seq(S)
      BY <1>1, <2>1, <2>2, Flattened
    <3> QED BY <1>1, <2>2, <3>1
  <2> QED BY <1>2, <1>5, <2>3, SeqOfAny, SeqShape
<1> QED BY <1>3, <1>4, <1>5

LEMMA ReturnTypes ==
  ASSUME IsModule(M), NEW f, ReturnsValue(f)
  PROVE  ReturnValue(f) \in Values(M)
<1> DEFINE R == Returns(f)
           T == {r[3] : r \in R}
<1>1. R # {} /\ R \subseteq Insts(M) /\ \A r \in R : r[3] \in Nat
  BY InstShape DEF ReturnsValue, Returns
<1>2. PICK n \in T : \A k \in T : n <= k
  <2>1. T \subseteq Nat /\ T # {}
    BY <1>1
  <2> HIDE DEF T
  <2> QED BY <2>1, LeastNumber
<1>3. PICK r \in R : \A s \in R : r[3] <= s[3]
  BY <1>2
<1>4. getReturnInst(f) \in R
  BY <1>3 DEF getReturnInst
<1>5. getReturnInst(f) \in Insts(M) /\ Inst(M, getReturnInst(f)).args # <<>>
  BY <1>1, <1>4 DEF ReturnsValue
<1> QED BY <1>5, InstShape DEF ReturnValue

\* The index of a value among the arguments of a call of something else.
LEMMA ArgIndex ==
  ASSUME IsModule(M), NEW c, NEW v, ArgIndices(c, v) # {}, c \in Insts(M)
  PROVE  /\ findArgIndexInCall(c, v) \in Nat /\ findArgIndexInCall(c, v) <= Len(Inst(M, c).args) - 2
         /\ ActualArg(M, c, findArgIndexInCall(c, v)) = v
<1> DEFINE T == ArgIndices(c, v)
<1>1. Len(Inst(M, c).args) \in Nat
  BY InstShape
<1>2. T \subseteq Nat /\ \A i \in T : i <= Len(Inst(M, c).args) - 2
  BY <1>1 DEF ArgIndices
<1> HIDE DEF T
<1>3. PICK n \in T : \A k \in T : n <= k
  BY <1>2, LeastNumber DEF T
<1>4. findArgIndexInCall(c, v) \in T
  BY <1>3 DEF findArgIndexInCall, T
<1>5. \A i \in T : ActualArg(M, c, i) = v
  BY DEF T, ArgIndices
<1> QED BY <1>2, <1>4, <1>5

LEMMA ArgGiven ==
  ASSUME IsModule(M), NEW v, NEW c \in UsersOf(M, v, "call"), Callee(M, c) # v
  PROVE  ArgIndices(c, v) # {}
<1> DEFINE args == Inst(M, c).args
<1>1. c \in Insts(M) /\ v \in ToSet(args)
  BY UsersAreInsts
<1>2. Len(args) \in Nat /\ DOMAIN args = 1 .. Len(args)
  BY <1>1, InstShape
<1>3. PICK k \in 1 .. Len(args) : args[k] = v
  BY <1>1, <1>2 DEF ToSet
<1>4. k # 1
  BY <1>3 DEF Callee
<1>5. k - 2 \in 0 .. Len(args) - 2 /\ (k - 2) + 2 = k
  BY <1>2, <1>4
<1>6. ActualArg(M, c, k - 2) = v
  BY <1>3, <1>5 DEF ActualArg
<1> QED BY <1>5, <1>6 DEF ArgIndices

-----------------------------------------------------------------------------
(***************************************************************************)
(* The calls an activation is given to make.                               *)
(***************************************************************************)
LEMMA NoCalls ==
  ASSUME NEW m, NEW t, NEW i
  PROVE  TodoOK(m, t, i, <<>>)
<1>1. IsSeq(<<>>) /\ Len(<<>>) = 0
  BY SeqOfAny, EmptySeq
<1>2. DOMAIN <<>> = {}
  BY <1>1, SeqShape
<1> QED BY <1>1, <1>2 DEF TodoOK

LEMMA OneCall ==
  ASSUME NEW m, NEW t, NEW i, NEW c, CallOK(m, t, i + 1, c), MayCall(m, t[i].call, c.fn)
  PROVE  TodoOK(m, t, i, <<c>>)
<1>1. <<c>> \in Seq({c}) /\ DOMAIN <<c>> = {1} /\ <<c>>[1] = c
  OBVIOUS
<1>2. IsSeq(<<c>>)
  BY <1>1, SeqOfAny
<1> QED BY <1>1, <1>2 DEF TodoOK

LEMMA ListedCalls ==
  ASSUME NEW m, NEW t, NEW i, NEW S, IsFiniteSet(S),
         \A c \in S : CallOK(m, t, i + 1, c) /\ MayCall(m, t[i].call, c.fn)
  PROVE  TodoOK(m, t, i, SetToSeq(S))
BY Listed DEF TodoOK

\* The same function called with another value, for the same callback.
LEMMA SameCallback ==
  ASSUME NEW m, NEW s, NEW t, NEW i \in Nat \ {0}, NEW call, CallOK(m, s, i, call),
         SameCalls(s, t, i - 1), call.fn \in {"traceValue", "traceMemory"},
         NEW e, IsCall(e), e.fn = call.fn, e.v \in Values(m), e.to = call.to
  PROVE  CallOK(m, t, i + 1, e)
<1>1. CallOK(m, t, i, call)
  BY CallStill
<1>2. call.to \in 0 .. i - 1 /\ (call.fn = "traceValue" /\ call.to # 0 => TracesGep(m, t[call.to].call))
  BY <1>1 DEF CallOK
<1>3. call.to \in 0 .. (i + 1) - 1
  BY <1>2
<1> QED BY <1>2, <1>3 DEF CallOK, Switches

LEMMA Retraced ==
  ASSUME NEW call, IsCall(call), NEW w
  PROVE  LET c == [call EXCEPT !.v = w]
         IN  IsCall(c) /\ c.fn = call.fn /\ c.v = w /\ c.to = call.to
BY DEF IsCall

\* What the fields of a new call are.
LEMMA CallFields ==
  ASSUME NEW fn, NEW v, NEW n, NEW to, NEW by
  PROVE  /\ IsCall(CallOf(fn, v, n, to, by))
         /\ CallOf(fn, v, n, to, by).fn = fn /\ CallOf(fn, v, n, to, by).v = v
         /\ CallOf(fn, v, n, to, by).n = n /\ CallOf(fn, v, n, to, by).to = to
         /\ CallOf(fn, v, n, to, by).by = by
BY DEF CallOf, IsCall

LEMMA SwitchOK ==
  ASSUME NEW m, NEW t, NEW i \in Nat, NEW b
  PROVE  /\ CallOK(m, t, i + 1, insertBlock(b)) /\ insertBlock(b).fn \in Switches
         /\ CallOK(m, t, i + 1, eraseBlock(b)) /\ eraseBlock(b).fn \in Switches
<1>1. /\ IsCall(insertBlock(b)) /\ insertBlock(b).fn = "insert" /\ insertBlock(b).to = 0
      /\ IsCall(eraseBlock(b)) /\ eraseBlock(b).fn = "erase" /\ eraseBlock(b).to = 0
  BY CallFields DEF insertBlock, eraseBlock
<1>2. 0 \in 0 .. (i + 1) - 1
  OBVIOUS
<1> QED BY <1>1, <1>2 DEF CallOK, Switches

LEMMA IncomingOK ==
  ASSUME IsModule(M), NEW s, NEW t, NEW i \in Nat \ {0}, NEW call, CallOK(M, s, i, call),
         SameCalls(s, t, i - 1), t[i].call = call,
         call.fn \in {"traceValue", "traceMemory"}, Op(M, call.v) = "phi",
         NEW todo, todo \in Incoming(call)
  PROVE  TodoOK(M, t, i, todo)
<1>1. call.v \in Insts(M)
  BY ValueOps DEF CallOK, Switches, InstOps
<1>2. /\ IsSeq(todo)
      /\ \A n \in DOMAIN todo :
           \/ \E b : todo[n] = insertBlock(b) \/ todo[n] = eraseBlock(b)
           \/ \E w \in Values(M) : todo[n] = [call EXCEPT !.v = w]
  BY <1>1, IncomingTypes
<1>3. ASSUME NEW w \in Values(M)
      PROVE  CallOK(M, t, i + 1, [call EXCEPT !.v = w]) /\ MayCall(M, call, [call EXCEPT !.v = w].fn)
  <2> DEFINE c == [call EXCEPT !.v = w]
  <2>1. CallOK(M, t, i + 1, c) /\ c.fn = call.fn
    <3>1. IsCall(c) /\ c.fn = call.fn /\ c.v = w /\ c.to = call.to
      BY Retraced DEF CallOK
    <3> HIDE DEF c
    <3> QED BY <3>1, SameCallback
  <2>2. MayCall(M, call, call.fn)
    BY DEF MayCall
  <2> QED BY <2>1, <2>2
<1>4. ASSUME NEW fn \in Switches
      PROVE  MayCall(M, call, fn)
  <2>1. CASE call.fn = "traceValue"
    BY <2>1 DEF MayCall
  <2>2. CASE call.fn = "traceMemory"
    <3>1. fn \in {"traceMemory"} \cup Switches
      OBVIOUS
    <3> QED BY <2>2, <3>1 DEF MayCall
  <2> QED BY <2>1, <2>2
<1>5. ASSUME NEW n \in DOMAIN todo
      PROVE  CallOK(M, t, i + 1, todo[n]) /\ MayCall(M, call, todo[n].fn)
  <2>1. CASE \E b : todo[n] = insertBlock(b) \/ todo[n] = eraseBlock(b)
    BY <2>1, <1>4, SwitchOK
  <2>2. CASE \E w \in Values(M) : todo[n] = [call EXCEPT !.v = w]
    BY <2>2, <1>3
  <2> QED BY <1>2, <2>1, <2>2
<1> QED BY <1>2, <1>5 DEF TodoOK

-----------------------------------------------------------------------------
(***************************************************************************)
(* The activations after each step.                                        *)
(***************************************************************************)
\* What is known of a stack that a call has been entered on.
LEMMA EnteredStack ==
  ASSUME TypesOK, NEW frames, Kept(stack, frames), NEW todo, Enter(frames, todo)
  PROVE  /\ stack'[Len(stack) + 1].call = Head(Top.todo)
         /\ SameCalls(stack, stack', Len(stack))
         /\ Len(stack) \in Nat /\ Len(stack) + 1 \in Nat \ {0} /\ (Len(stack) + 1) - 1 = Len(stack)
<1>1. Grown(stack, stack', Head(Top.todo), Top.level) /\ Len(stack) \in Nat
  BY Entered, Acting DEF TypesOK
<1> QED BY <1>1 DEF Grown, Later, SameCalls

LEMMA FlowTypes ==
  ASSUME TypesOK, Calling("traceValue"),
         \A f \in AsksReturnOf(Head(Top.todo)) : ReturnsValue(f),
         NEW todo, todo \in Flow(Head(Top.todo)), Enter(Called, todo)
  PROVE  TodoOK(M, stack', Len(stack) + 1, todo)
<1> DEFINE call == Head(Top.todo)
           v == call.v
           op == Op(M, v)
           t == stack'
           i == Len(stack) + 1
<1>1. /\ CallOK(M, stack, i, call) /\ call.fn = "traceValue"
      /\ Kept(stack, Called)
  BY NextCall
<1>2. /\ t[i].call = call /\ SameCalls(stack, t, i - 1) /\ i \in Nat \ {0}
      /\ Len(stack) \in Nat /\ i - 1 = Len(stack)
  BY <1>1, EnteredStack
<1>3. IsModule(M) /\ v \in Values(M) /\ IsCall(call)
  BY <1>1, Acting DEF CallOK, Switches
<1> HIDE DEF call, t, i
<1> SUFFICES TodoOK(M, t, i, todo)
  BY DEF t, i
<1>4. ASSUME NEW w \in Values(M), NEW flag
      PROVE  TodoOK(M, t, i, <<[call EXCEPT !.v = w, !.n = flag]>>)
  <2> DEFINE c == [call EXCEPT !.v = w, !.n = flag]
  <2>1. IsCall(c) /\ c.fn = call.fn /\ c.v = w /\ c.to = call.to
    <3> DEFINE d == [call EXCEPT !.v = w]
    <3>1. IsCall(d) /\ d.fn = call.fn /\ d.v = w /\ d.to = call.to
      BY <1>3, Retraced
    <3>2. c = [d EXCEPT !.n = flag]
      OBVIOUS
    <3> HIDE DEF c, d
    <3> QED BY <3>1, <3>2 DEF IsCall
  <2> HIDE DEF c
  <2>2. CallOK(M, t, i + 1, c)
    BY <1>1, <1>2, <2>1, SameCallback
  <2>3. MayCall(M, t[i].call, c.fn)
    BY <1>1, <1>2, <2>1 DEF MayCall
  <2> QED BY <2>2, <2>3, OneCall DEF c
<1>5. op \in InstOps => v \in Insts(M)
  BY <1>3, ValueOps
<1>6. CASE op = "fn" /\ call.n > 0
  <2>1. v[1] = "fn"
    BY <1>3, <1>6, ValueOps
  <2>2. v[2] \in AsksReturnOf(call)
    BY <1>6, <2>1 DEF AsksReturnOf
  <2>3. ReturnValue(v[2]) \in Values(M)
    BY <1>3, <2>2, ReturnTypes DEF call
  <2>4. todo = <<[call EXCEPT !.v = ReturnValue(v[2]), !.n = call.n - 1]>>
    BY <1>6 DEF Flow, call
  <2> QED BY <1>4, <2>3, <2>4
<1>7. CASE op = "load"
  <2>1. Inst(M, v).args[1] \in Values(M)
    BY <1>3, <1>5, <1>7, InstShape DEF InstOps
  <2> DEFINE c == traceMemory(Inst(M, v).args[1], v)
  <2>2. todo = <<c>>
    BY <1>7 DEF Flow, call
  <2>3. IsCall(c) /\ c.fn = "traceMemory" /\ c.v = Inst(M, v).args[1] /\ c.to = 0
    BY CallFields DEF traceMemory
  <2> HIDE DEF c
  <2>4. CallOK(M, t, i + 1, c)
    BY <1>2, <2>1, <2>3 DEF CallOK
  <2>5. MayCall(M, t[i].call, c.fn)
    BY <1>1, <1>2, <1>7, <2>3 DEF MayCall
  <2> QED BY <2>2, <2>4, <2>5, OneCall
<1>8. CASE op = "phi"
  <2>1. todo \in Incoming(call)
    BY <1>8 DEF Flow, call
  <2> QED BY <1>1, <1>2, <1>3, <1>8, <2>1, IncomingOK
<1>9. CASE op = "arg"
  <2>1. Fn(v[2]) \in Values(M)
    BY <1>3, <1>9, ValueOps, FunctionValues
  <2> DEFINE c == getCallBases(Fn(v[2]), i)
  <2>2. todo = <<c>>
    BY <1>9 DEF Flow, call, Depth, i
  <2>3. IsCall(c) /\ c.fn = "getCallBases" /\ c.v = Fn(v[2]) /\ c.to = i
    BY CallFields DEF getCallBases
  <2> HIDE DEF c
  <2>4. TracesArg(M, t[i].call)
    BY <1>1, <1>2, <1>9 DEF TracesArg
  <2>5. i \in 0 .. (i + 1) - 1 /\ i # 0
    BY <1>2
  <2>6. CallOK(M, t, i + 1, c)
    BY <2>1, <2>3, <2>4, <2>5 DEF CallOK
  <2>7. MayCall(M, t[i].call, c.fn)
    BY <1>1, <1>2, <1>9, <2>3 DEF MayCall
  <2> QED BY <2>2, <2>6, <2>7, OneCall
<1>10. CASE op = "call"
  <2>1. Callee(M, v) \in Values(M)
    BY <1>3, <1>5, <1>10, InstShape DEF InstOps, Callee
  <2>2. CASE getCalledFunction(M, v) = {}
    <3>1. todo = <<[call EXCEPT !.v = Callee(M, v), !.n = call.n + 1]>>
      BY <1>10, <2>2 DEF Flow, call
    <3> QED BY <1>4, <2>1, <3>1
  <2>3. CASE getCalledFunction(M, v) # {} /\ AsksReturnOf(call) = {}
    <3>1. todo = <<>>
      BY <1>10, <2>3 DEF Flow, call
    <3> QED BY <3>1, NoCalls
  <2>4. CASE getCalledFunction(M, v) # {} /\ AsksReturnOf(call) # {}
    <3>1. todo = <<[call EXCEPT !.v = ReturnValue(Callee(M, v)[2]), !.n = call.n]>>
      BY <1>10, <2>4 DEF Flow, call
    <3>2. v[1] # "fn"
      BY <1>3, <1>10, ValueOps
    <3>3. AsksReturnOf(call) = Defined(getCalledFunction(M, v))
      BY <1>10, <3>2 DEF AsksReturnOf
    <3>4. PICK f \in AsksReturnOf(call) : Callee(M, v) = Fn(f)
      BY <2>4, <3>3 DEF Defined, getCalledFunction
    <3>5. Callee(M, v)[2] = f
      BY <3>4 DEF Fn
    <3>6. ReturnValue(f) \in Values(M)
      BY <1>3, ReturnTypes DEF call
    <3> QED BY <1>4, <3>1, <3>5, <3>6
  <2> QED BY <2>2, <2>3, <2>4
<1>11. CASE op = "cast"
  <2>1. Fn(v[2]) \in Values(M)
    BY <1>3, <1>11, ValueOps, FunctionValues
  <2>2. todo = <<[call EXCEPT !.v = Fn(v[2]), !.n = call.n]>>
    BY <1>11 DEF Flow, call
  <2> QED BY <1>4, <2>1, <2>2
<1>12. CASE op = "global"
  <2>1. M.init[v[2]] \in Values(M)
    BY <1>3, <1>12, ValueOps, InitialValues
  <2>2. todo = <<[call EXCEPT !.v = M.init[v[2]], !.n = call.n]>> \/ todo = <<>>
    BY <1>12 DEF Flow, call
  <2> QED BY <1>4, <2>1, <2>2, NoCalls
<1>13. CASE op = "gep"
  <2>1. Inst(M, v).args[1] \in Values(M)
    BY <1>3, <1>5, <1>13, InstShape DEF InstOps
  <2>2. todo = <<[call EXCEPT !.v = Inst(M, v).args[1], !.n = call.n]>>
    BY <1>13 DEF Flow, call
  <2> QED BY <1>4, <2>1, <2>2
<1>14. CASE ~(op = "fn" /\ call.n > 0)
             /\ op \notin {"load", "phi", "arg", "call", "cast", "global", "gep"}
  <2>1. todo = <<>>
    BY <1>14 DEF Flow, call
  <2> QED BY <2>1, NoCalls
<1> HIDE DEF op
<1> QED BY <1>6, <1>7, <1>8, <1>9, <1>10, <1>11, <1>12, <1>13, <1>14

LEMMA TraceValueTypes ==
  ASSUME TypesOK, TraceValue
  PROVE  ActivationsOK(M, stack')
<1>1. Calling("traceValue") /\ \A f \in AsksReturnOf(Head(Top.todo)) : ReturnsValue(f)
  BY DEF TraceValue
<1>2. PICK todo \in Flow(Head(Top.todo)) : Enter(Called, todo)
  BY DEF TraceValue
<1>3. TodoOK(M, stack', Len(stack) + 1, todo)
  BY <1>1, <1>2, FlowTypes
<1>4. Kept(stack, Called) /\ \A i \in 1 .. Len(stack) : BodyOK(M, stack, i, Called[i])
  BY <1>1, NextCall
<1>5. "traceValue" \notin Switches
  BY DEF Switches
<1> QED BY <1>1, <1>2, <1>3, <1>4, <1>5, EnterTypes

LEMMA TraceMemoryTypes ==
  ASSUME TypesOK, TraceMemory
  PROVE  ActivationsOK(M, stack')
<1> DEFINE call == Head(Top.todo)
           t == stack'
           i == Len(stack) + 1
<1>1. Calling("traceMemory")
  BY DEF TraceMemory
<1>2. /\ CallOK(M, stack, i, call) /\ call.fn = "traceMemory" /\ IsModule(M)
      /\ Kept(stack, Called) /\ \A n \in 1 .. Len(stack) : BodyOK(M, stack, n, Called[n])
  BY <1>1, NextCall, Acting
<1>3. PICK todo : /\ Enter(Called, todo)
                  /\ \/ Op(M, call.v) = "gep" /\ todo = <<traceValue(call.v, 0, i)>>
                     \/ Op(M, call.v) = "phi" /\ todo \in Incoming(call)
                     \/ todo = <<>>
  BY DEF TraceMemory, Depth
<1>4. t[i].call = call /\ SameCalls(stack, t, i - 1) /\ i \in Nat \ {0} /\ i - 1 = Len(stack)
  BY <1>2, <1>3, EnteredStack
<1> HIDE DEF call, t, i
<1>5. TodoOK(M, t, i, todo)
  <2>1. CASE Op(M, call.v) = "gep" /\ todo = <<traceValue(call.v, 0, i)>>
    <3> DEFINE c == traceValue(call.v, 0, i)
    <3>1. IsCall(c) /\ c.fn = "traceValue" /\ c.v = call.v /\ c.to = i
      BY CallFields DEF traceValue
    <3>2. todo = <<c>>
      BY <2>1
    <3> HIDE DEF c
    <3>3. TracesGep(M, t[i].call) /\ call.v \in Values(M)
      BY <1>2, <1>4, <2>1 DEF TracesGep, CallOK, Switches
    <3>4. i \in 0 .. (i + 1) - 1
      BY <1>4
    <3>5. CallOK(M, t, i + 1, c)
      BY <3>1, <3>3, <3>4 DEF CallOK
    <3>6. MayCall(M, t[i].call, c.fn)
      BY <1>2, <1>4, <2>1, <3>1 DEF MayCall
    <3> QED BY <3>2, <3>5, <3>6, OneCall
  <2>2. CASE Op(M, call.v) = "phi" /\ todo \in Incoming(call)
    BY <1>2, <1>4, <2>2, IncomingOK
  <2>3. CASE todo = <<>>
    BY <2>3, NoCalls
  <2> QED BY <1>3, <2>1, <2>2, <2>3
<1>6. "traceMemory" \notin Switches
  BY DEF Switches
<1>7. TodoOK(M, stack', Len(stack) + 1, todo)
  BY <1>5 DEF t, i
<1> QED BY <1>1, <1>2, <1>3, <1>6, <1>7, EnterTypes

\* A call on the list of another than collect or a block's switch.
LEMMA PlainCall ==
  ASSUME NEW m, NEW t, NEW i \in Nat, NEW c, IsCall(c), c.v \in Values(m), c.to = 0,
         c.fn = "findSiblingGEPs", c.by \in Values(m)
  PROVE  CallOK(m, t, i + 1, c)
<1>1. 0 \in 0 .. (i + 1) - 1
  OBVIOUS
<1> QED BY <1>1 DEF CallOK

LEMMA SiblingTypes ==
  ASSUME IsModule(M), NEW call, call.v \in Values(M), call.by \in Values(M)
  PROVE  /\ IsFiniteSet(SiblingCalls(call))
         /\ \A c \in SiblingCalls(call) :
              IsCall(c) /\ c.fn = "findSiblingGEPs" /\ c.v \in Values(M) /\ c.to = 0
                /\ c.by \in Values(M)
<1> DEFINE G == UsersOf(M, call.v, "gep")
           C == {d \in UsersOf(M, call.v, "call") :
                   ArgIndices(d, call.v) # {} /\ Defined(getCalledFunction(M, d)) # {}}
           onGep(g) == findSiblingGEPs(g, Wrap(call.n - Inst(M, g).n), call.by)
           onCall(c) == findSiblingGEPs(Arg(Callee(M, c)[2], findArgIndexInCall(c, call.v)), call.n,
                                        IF call.by = Null THEN c ELSE call.by)
<1>1. SiblingCalls(call) = {onGep(g) : g \in G} \cup {onCall(c) : c \in C}
  BY DEF SiblingCalls
<1>2. G \subseteq Insts(M) /\ C \subseteq Insts(M) /\ Insts(M) \subseteq Values(M)
  BY UsersAreInsts, InstShape
<1>3. IsFiniteSet(G) /\ IsFiniteSet(C)
  BY <1>2, FiniteValues
<1>4. IsFiniteSet({onGep(g) : g \in G}) /\ IsFiniteSet({onCall(c) : c \in C})
  <2> DEFINE f == [g \in G |-> onGep(g)]
             h == [c \in C |-> onCall(c)]
  <2>1. DOMAIN f = G /\ DOMAIN h = C
    OBVIOUS
  <2>2. {onGep(g) : g \in G} = {f[g] : g \in G} /\ {onCall(c) : c \in C} = {h[c] : c \in C}
    OBVIOUS
  <2> HIDE DEF f, h, G, C
  <2>3. IsFiniteSet({f[g] : g \in G}) /\ IsFiniteSet({h[c] : c \in C})
    BY <1>3, <2>1, FiniteImage
  <2> QED BY <2>2, <2>3
<1>5. IsFiniteSet(SiblingCalls(call))
  BY <1>1, <1>4, FS_Union
<1>6. ASSUME NEW g \in G
      PROVE  IsCall(onGep(g)) /\ onGep(g).fn = "findSiblingGEPs" /\ onGep(g).v \in Values(M)
               /\ onGep(g).to = 0 /\ onGep(g).by \in Values(M)
  <2>1. g \in Values(M)
    BY <1>2
  <2> QED BY <2>1, CallFields DEF findSiblingGEPs
<1>7. ASSUME NEW c \in C
      PROVE  IsCall(onCall(c)) /\ onCall(c).fn = "findSiblingGEPs" /\ onCall(c).v \in Values(M)
               /\ onCall(c).to = 0 /\ onCall(c).by \in Values(M)
  <2> DEFINE k == findArgIndexInCall(c, call.v)
  <2>1. PICK f \in DOMAIN M.fn : /\ Callee(M, c) = Fn(f) /\ Len(Inst(M, c).args) = M.fn[f].arity + 1
    BY DEF Defined, getCalledFunction
  <2>2. Callee(M, c)[2] = f
    BY <2>1 DEF Fn
  <2>3. k \in Nat /\ k <= Len(Inst(M, c).args) - 2
    BY <1>2, ArgIndex
  <2>4. M.fn[f].arity \in Nat
    BY DEF IsModule
  <2> HIDE DEF k
  <2>5. k \in 0 .. M.fn[f].arity - 1
    BY <2>1, <2>3, <2>4
  <2>6. Arg(f, k) \in Values(M) /\ c \in Values(M)
    BY <1>2, <2>5, FunctionValues
  <2>7. (IF call.by = Null THEN c ELSE call.by) \in Values(M)
    BY <2>6
  <2>8. onCall(c) = findSiblingGEPs(Arg(f, k), call.n, IF call.by = Null THEN c ELSE call.by)
    BY <2>2 DEF k
  <2> HIDE DEF onCall
  <2> QED BY <2>6, <2>7, <2>8, CallFields DEF findSiblingGEPs
<1>8. \A c \in SiblingCalls(call) : (\E g \in G : c = onGep(g)) \/ (\E d \in C : c = onCall(d))
  BY <1>1
<1> HIDE DEF onGep, onCall, G, C
<1> QED BY <1>5, <1>6, <1>7, <1>8

LEMMA FindSiblingTypes ==
  ASSUME TypesOK, FindSiblingGEPs
  PROVE  ActivationsOK(M, stack')
<1> DEFINE call == Head(Top.todo)
           S == SiblingCalls(call)
           t == stack'
           i == Len(stack) + 1
<1>1. Calling("findSiblingGEPs") /\ Enter(Called, SetToSeq(S))
  BY DEF FindSiblingGEPs
<1>2. /\ CallOK(M, stack, i, call) /\ call.fn = "findSiblingGEPs" /\ IsModule(M)
      /\ Kept(stack, Called) /\ \A n \in 1 .. Len(stack) : BodyOK(M, stack, n, Called[n])
  BY <1>1, NextCall, Acting
<1>3. t[i].call = call /\ i \in Nat \ {0}
  BY <1>1, <1>2, EnteredStack
<1>4. call.v \in Values(M) /\ call.by \in Values(M)
  BY <1>2 DEF CallOK, Switches
<1> HIDE DEF call, t, i
<1>5. /\ IsFiniteSet(S)
      /\ \A c \in S :
              IsCall(c) /\ c.fn = "findSiblingGEPs" /\ c.v \in Values(M) /\ c.to = 0
                /\ c.by \in Values(M)
  BY <1>2, <1>4, SiblingTypes
<1> HIDE DEF S
<1>6. \A c \in S : CallOK(M, t, i + 1, c)
  BY <1>3, <1>5, PlainCall
<1>7. \A c \in S : MayCall(M, t[i].call, c.fn)
  BY <1>2, <1>3, <1>5 DEF MayCall
<1>8. TodoOK(M, t, i, SetToSeq(S))
  BY <1>5, <1>6, <1>7, ListedCalls
<1>9. "findSiblingGEPs" \notin Switches
  BY DEF Switches
<1>10. TodoOK(M, stack', Len(stack) + 1, SetToSeq(S))
  BY <1>8 DEF t, i
<1> QED BY <1>1, <1>2, <1>9, <1>10, EnterTypes

LEMMA SiteTypes ==
  ASSUME IsModule(M), NEW call, call.v \in Values(M)
  PROVE  /\ IsFiniteSet(SiteCalls(call))
         /\ \A c \in SiteCalls(call) :
              /\ IsCall(c) /\ c.fn \in {"collect", "getCallBases"} /\ c.v \in Values(M)
              /\ c.to = call.to /\ (c.fn = "collect" => c.v \in Calls(M) /\ c.n \in Nat)
<1> DEFINE C == {d \in UsersOf(M, call.v, "call") : Callee(M, d) # call.v}
           P == UsersOf(M, call.v, "phi")
           Ld == UNION {UsersOf(M, Inst(M, s).args[2], "load") : s \in UsersOf(M, call.v, "store")}
           onCall(c) == collect(c, findArgIndexInCall(c, call.v), call.to)
           onUse(l) == getCallBases(l, call.to)
<1>1. SiteCalls(call) = {onCall(c) : c \in C} \cup {onUse(l) : l \in Ld} \cup {onUse(p) : p \in P}
  BY DEF SiteCalls
<1>2. C \subseteq Insts(M) /\ Ld \subseteq Insts(M) /\ P \subseteq Insts(M)
  BY UsersAreInsts
<1>3. Insts(M) \subseteq Values(M)
  BY InstShape
<1>4. IsFiniteSet(C) /\ IsFiniteSet(Ld) /\ IsFiniteSet(P)
  BY <1>2, <1>3, FiniteValues
<1>5. /\ IsFiniteSet({onCall(c) : c \in C}) /\ IsFiniteSet({onUse(l) : l \in Ld})
      /\ IsFiniteSet({onUse(p) : p \in P})
  <2> DEFINE f == [c \in C |-> onCall(c)]
             g == [l \in Ld |-> onUse(l)]
             h == [p \in P |-> onUse(p)]
  <2>1. DOMAIN f = C /\ DOMAIN g = Ld /\ DOMAIN h = P
    OBVIOUS
  <2>2. /\ {onCall(c) : c \in C} = {f[c] : c \in C} /\ {onUse(l) : l \in Ld} = {g[l] : l \in Ld}
        /\ {onUse(p) : p \in P} = {h[p] : p \in P}
    OBVIOUS
  <2> HIDE DEF f, g, h, C, Ld, P
  <2>3. /\ IsFiniteSet({f[c] : c \in C}) /\ IsFiniteSet({g[l] : l \in Ld})
        /\ IsFiniteSet({h[p] : p \in P})
    BY <1>4, <2>1, FiniteImage
  <2> QED BY <2>2, <2>3
<1>6. IsFiniteSet(SiteCalls(call))
  BY <1>1, <1>5, FS_Union
<1>7. ASSUME NEW c \in C
      PROVE  /\ IsCall(onCall(c)) /\ onCall(c).fn = "collect" /\ onCall(c).v = c
             /\ c \in Calls(M) /\ c \in Values(M) /\ onCall(c).to = call.to /\ onCall(c).n \in Nat
  <2>1. c \in Insts(M) /\ Inst(M, c).op = "call" /\ ArgIndices(c, call.v) # {}
    BY UsersAreInsts, ArgGiven
  <2>2. c \in Calls(M) /\ c \in Values(M)
    BY <1>3, <2>1 DEF Calls
  <2>3. findArgIndexInCall(c, call.v) \in Nat
    BY <2>1, ArgIndex
  <2> QED BY <2>2, <2>3, CallFields DEF collect
<1>8. ASSUME NEW l \in Insts(M)
      PROVE  /\ IsCall(onUse(l)) /\ onUse(l).fn = "getCallBases" /\ onUse(l).v \in Values(M)
             /\ onUse(l).to = call.to
  <2>1. l \in Values(M)
    BY <1>3
  <2> QED BY <2>1, CallFields DEF getCallBases
<1>9. \A c \in SiteCalls(call) : (\E d \in C : c = onCall(d)) \/ (\E l \in Insts(M) : c = onUse(l))
  BY <1>1, <1>2
<1> HIDE DEF onCall, onUse, C, Ld, P
<1>10. ASSUME NEW c \in SiteCalls(call)
       PROVE  /\ IsCall(c) /\ c.fn \in {"collect", "getCallBases"} /\ c.v \in Values(M)
              /\ c.to = call.to /\ (c.fn = "collect" => c.v \in Calls(M) /\ c.n \in Nat)
  <2>1. CASE \E d \in C : c = onCall(d)
    BY <2>1, <1>7
  <2>2. CASE \E l \in Insts(M) : c = onUse(l)
    BY <2>2, <1>8
  <2> QED BY <1>9, <2>1, <2>2
<1> QED BY <1>6, <1>10

\* A call that reports to the owner of a set of call sites.
LEMMA OwnedCall ==
  ASSUME NEW m, NEW s, NEW i \in Nat, NEW c, IsCall(c), c.v \in Values(m),
         c.fn \in {"collect", "getCallBases"}, c.fn = "collect" => c.v \in Calls(m) /\ c.n \in Nat,
         c.to \in 0 .. i, c.to # 0, TracesArg(m, s[c.to].call)
  PROVE  CallOK(m, s, i + 1, c)
<1>1. c.to \in 0 .. (i + 1) - 1
  OBVIOUS
<1> QED BY <1>1 DEF CallOK

LEMMA GetCallBasesTypes ==
  ASSUME TypesOK, GetCallBases
  PROVE  ActivationsOK(M, stack')
<1> DEFINE call == Head(Top.todo)
           to == call.to
           L == Len(stack)
           direct == {c \in UsersOf(M, call.v, "call") : Callee(M, c) = call.v}
           a == [Called[to] EXCEPT !.seen = Called[to].seen \cup {call.v}]
           b == [a EXCEPT !.found = Called[to].found \cup direct]
           frames == [Called EXCEPT ![to] = b]
           S == SiteCalls(call)
           t == stack'
           i == L + 1
<1>1. Calling("getCallBases")
  BY DEF GetCallBases
<1>2. /\ CallOK(M, stack, L + 1, call) /\ call.fn = "getCallBases" /\ IsModule(M)
      /\ Kept(stack, Called) /\ \A n \in 1 .. L : BodyOK(M, stack, n, Called[n])
      /\ MayCall(M, stack[L].call, call.fn) /\ L \in Nat /\ IsStack(Called) /\ Len(Called) = L
  BY <1>1, NextCall, Acting DEF Kept
<1>3. to \in 1 .. L /\ TracesArg(M, stack[to].call) /\ call.v \in Values(M) /\ IsCall(call)
  BY <1>2 DEF CallOK, Switches
<1>4. IsActivation(Called[to]) /\ IsActivation(a)
  BY <1>2, <1>3, FieldsChanged DEF IsStack, Later
<1>5. a.found = Called[to].found
  BY <1>4, FieldValues
<1>6. [Called EXCEPT ![to].seen = @ \cup {call.v}, ![to].found = @ \cup direct] = frames
  <2>1. to \in DOMAIN Called
    BY <1>2, <1>3, SeqShape DEF IsStack
  <2> DEFINE one == [Called EXCEPT ![to] = a]
  <2>2. one[to] = a
    BY <2>1
  <2>3. [Called EXCEPT ![to].seen = @ \cup {call.v}, ![to].found = @ \cup direct]
          = [one EXCEPT ![to] = [one[to] EXCEPT !.found = one[to].found \cup direct]]
    OBVIOUS
  <2>4. [one[to] EXCEPT !.found = one[to].found \cup direct] = b
    BY <1>5, <2>2
  <2> HIDE DEF a, b, direct
  <2> QED BY <2>3, <2>4
<1>7. Enter(frames, SetToSeq(S))
  BY <1>6 DEF GetCallBases
<1>8. Kept(stack, frames)
  <2>1. Later(Called[to], a) /\ Later(a, b)
    BY <1>4, FieldsChanged
  <2>2. Later(Called[to], b)
    BY <2>1, LaterStill
  <2> HIDE DEF a, b
  <2>3. Kept(Called, frames)
    BY <1>2, <2>2, KeptOne
  <2> QED BY <1>2, <2>3, KeptKept
<1>9. BodyOK(M, stack, to, b)
  <2>1. BodyOK(M, stack, to, Called[to]) /\ call.v \in Values(M)
    BY <1>2, <1>3
  <2>2. SeenOK(M, stack[to].call, Called[to].seen \cup {call.v})
    BY <1>3, <2>1 DEF BodyOK, SeenOK, TracesArg
  <2>3. direct \subseteq Insts(M)
    BY UsersAreInsts
  <2> HIDE DEF direct
  <2>4. FoundOK(M, stack[to].call, Called[to].found \cup direct)
    BY <1>3, <2>1, <2>3 DEF BodyOK, FoundOK, TracesArg, TracesGep
  <2>5. BodyOK(M, stack, to, a)
    BY <1>4, <2>1, <2>2, BodyChanged
  <2> HIDE DEF a
  <2> QED BY <1>4, <2>4, <2>5, BodyChanged
<1>10. \A n \in 1 .. L : BodyOK(M, stack, n, frames[n])
  <2> HIDE DEF b
  <2>1. \A n \in 1 .. L : frames[n] = IF n = to THEN b ELSE Called[n]
    BY <1>2, Replaced DEF IsStack
  <2> HIDE DEF frames
  <2> QED BY <1>2, <1>9, <2>1
<1> HIDE DEF frames
<1>11. t[i].call = call /\ i \in Nat \ {0} /\ SameCalls(stack, t, L)
  BY <1>7, <1>8, EnteredStack
<1> HIDE DEF call, t
<1>12. /\ IsFiniteSet(S)
       /\ \A c \in S :
            /\ IsCall(c) /\ c.fn \in {"collect", "getCallBases"} /\ c.v \in Values(M)
            /\ c.to = to /\ (c.fn = "collect" => c.v \in Calls(M) /\ c.n \in Nat)
  BY <1>2, <1>3, SiteTypes
<1>13. TracesArg(M, t[to].call) /\ to \in 0 .. i /\ to # 0
  BY <1>2, <1>3, <1>11 DEF SameCalls
<1> HIDE DEF S, to, i
<1>14. \A c \in S : CallOK(M, t, i + 1, c)
  BY <1>11, <1>12, <1>13, OwnedCall
<1>15. \A c \in S : MayCall(M, t[i].call, c.fn)
  BY <1>2, <1>11, <1>12 DEF MayCall
<1>16. TodoOK(M, t, i, SetToSeq(S))
  BY <1>12, <1>14, <1>15, ListedCalls
<1>17. "getCallBases" \notin Switches
  BY DEF Switches
<1>18. TodoOK(M, stack', Len(stack) + 1, SetToSeq(S))
  BY <1>16 DEF t, i
<1> QED BY <1>1, <1>7, <1>8, <1>10, <1>17, <1>18, EnterTypes

\* A collector's first trace is of the callee.
LEMMA CollectTypes ==
  ASSUME TypesOK, NEW frames, Kept(stack, frames),
         \A i \in 1 .. Len(stack) : BodyOK(M, stack, i, frames[i]),
         NEW call, BeginCollect(frames, call), call.fn = "collect",
         CallOK(M, stack, Len(stack) + 1, call),
         Len(stack) > 0 => MayCall(M, stack[Len(stack)].call, call.fn)
  PROVE  ActivationsOK(M, stack')
<1> DEFINE L == Len(stack)
           c == traceValue(Callee(M, call.v), 0, 0)
           a == Activation(call, <<c>>, Len(collectors) + 1)
<1>1. IsStack(stack) /\ L \in Nat /\ IsSeq(frames) /\ Len(frames) = L /\ IsModule(M)
  BY Acting DEF Kept, IsStack
<1>2. stack' = Append(frames, a)
  BY DEF BeginCollect
<1>3. Grown(stack, stack', call, Len(collectors) + 1)
  BY <1>1, GrownOne DEF BeginCollect
<1>4. call.v \in Calls(M)
  BY DEF CallOK
<1>5. Callee(M, call.v) \in Values(M)
  <2>1. call.v \in Insts(M) /\ Inst(M, call.v).op = "call"
    BY <1>4 DEF Calls
  <2> QED BY <1>1, <2>1, InstShape DEF Callee
<1>6. IsCall(c) /\ c.fn = "traceValue" /\ c.v = Callee(M, call.v) /\ c.to = 0
  BY CallFields DEF traceValue
<1> HIDE DEF a
<1>7. stack'[L + 1] = a /\ \A i \in 1 .. L : stack'[i] = frames[i]
  BY <1>1, <1>2, Pushed
<1>8. a.call = call
  BY DEF a, Activation
<1> HIDE DEF c
<1>9. 0 \in 0 .. (L + 1 + 1) - 1
  BY <1>1
<1>10. CallOK(M, stack', L + 1 + 1, c)
  BY <1>5, <1>6, <1>9 DEF CallOK
<1>11. MayCall(M, stack'[L + 1].call, c.fn)
  BY <1>6, <1>7, <1>8 DEF MayCall
<1>12. TodoOK(M, stack', L + 1, <<c>>)
  BY <1>10, <1>11, OneCall
<1>13. BodyOK(M, stack', L + 1, a)
  BY <1>12, NewBody DEF a
<1>14. call.fn \notin Switches /\ ActivationsOK(M, stack)
  BY DEF Switches, TypesOK
<1>15. \A i \in 1 .. L : BodyOK(M, stack, i, stack'[i])
  BY <1>7
<1>16. BodyOK(M, stack', L + 1, stack'[L + 1])
  BY <1>7, <1>13
<1> QED BY <1>1, <1>3, <1>14, <1>15, <1>16, TypesGrown

LEMMA CollectNextTypes ==
  ASSUME TypesOK, CollectNext
  PROVE  ActivationsOK(M, stack')
<1>1. PICK c \in pending : BeginCollect(<<>>, collect(c, 0, 0))
  BY DEF CollectNext
<1>2. stack = <<>> /\ Len(stack) = 0 /\ IsStack(stack)
  BY EmptySeq, Acting DEF CollectNext
<1> DEFINE call == collect(c, 0, 0)
<1>3. IsCall(call) /\ call.fn = "collect" /\ call.v = c /\ call.n = 0 /\ call.to = 0
  BY CallFields DEF collect
<1>4. c \in Calls(M) /\ c \in Values(M)
  BY Acting, InstShape DEF TypesOK, Calls
<1>5. Kept(stack, <<>>)
  BY <1>2, KeptSame
<1> HIDE DEF call
<1>6. 0 \in 0 .. (Len(stack) + 1) - 1 /\ ~ (Len(stack) + 1 > 1)
  BY <1>2
<1>7. CallOK(M, stack, Len(stack) + 1, call)
  BY <1>3, <1>4, <1>6 DEF CallOK
<1>8. BeginCollect(<<>>, call)
  BY <1>1 DEF call
<1>9. \A i \in 1 .. Len(stack) : FALSE
  BY <1>2
<1> QED BY <1>2, <1>3, <1>5, <1>7, <1>8, <1>9, CollectTypes

LEMMA CollectNestedTypes ==
  ASSUME TypesOK, CollectNested
  PROVE  ActivationsOK(M, stack')
<1>1. Calling("collect") /\ BeginCollect(Called, Head(Top.todo))
  BY DEF CollectNested
<1>2. /\ CallOK(M, stack, Len(stack) + 1, Head(Top.todo)) /\ Head(Top.todo).fn = "collect"
      /\ Kept(stack, Called) /\ \A n \in 1 .. Len(stack) : BodyOK(M, stack, n, Called[n])
      /\ MayCall(M, stack[Len(stack)].call, Head(Top.todo).fn)
  BY <1>1, NextCall
<1> QED BY <1>1, <1>2, CollectTypes

\* The same activation goes on.
LEMMA TakeUpTypes ==
  ASSUME TypesOK, stack # <<>>, NEW todo, TakeUp(todo), TodoOK(M, stack, Len(stack), todo)
  PROVE  ActivationsOK(M, stack')
<1> DEFINE L == Len(stack)
           a == [stack[L] EXCEPT !.todo = todo]
           b == [a EXCEPT !.stage = 2]
<1>1. /\ L \in 1 .. L /\ L \in Nat /\ IsStack(stack) /\ IsActivation(stack[L])
      /\ \A i \in 1 .. L : BodyOK(M, stack, i, stack[i])
  BY Acting
<1>2. Kept(stack, stack') /\ ActivationsOK(M, stack)
  BY TakenUp DEF TypesOK
<1>3. stack' = [stack EXCEPT ![L] = b]
  BY DEF TakeUp, Depth
<1>4. BodyOK(M, stack, L, a) /\ IsActivation(a)
  BY <1>1, BodyChanged, FieldsChanged DEF Later
<1> HIDE DEF a
<1>5. BodyOK(M, stack, L, b)
  BY <1>4, BodyChanged
<1> HIDE DEF b
<1>6. \A i \in 1 .. L : stack'[i] = IF i = L THEN b ELSE stack[i]
  BY <1>1, <1>3, Replaced DEF IsStack
<1>7. \A i \in 1 .. L : BodyOK(M, stack, i, stack'[i])
  BY <1>1, <1>5, <1>6
<1> QED BY <1>1, <1>2, <1>7, TypesKept

LEMMA UseFoundTypes ==
  ASSUME TypesOK, UseFound
  PROVE  ActivationsOK(M, stack')
<1> DEFINE L == Len(stack)
           call == Top.call
           To(w) == [call EXCEPT !.v = w]
<1>1. stack # <<>> /\ call.fn = "traceValue"
  BY DEF UseFound, Returning
<1>2. /\ IsModule(M) /\ L \in Nat \ {0} /\ Top = stack[L] /\ L - 1 \in Nat
      /\ LinkOK(M, stack, L) /\ BodyOK(M, stack, L, Top)
  BY <1>1, Acting
<1>3. CallOK(M, stack, L, call) /\ IsCall(call) /\ stack[L].call = call
  BY <1>2 DEF LinkOK, CallOK
<1>4. FoundOK(M, call, Top.found)
  BY <1>2 DEF BodyOK
<1>5. \E S, f : /\ TakeUp(SetToSeq({To(f[x]) : x \in S})) /\ S \subseteq Insts(M) /\ DOMAIN f = S
                /\ \A x \in S : f[x] \in Values(M)
  <2>1. CASE /\ Op(M, call.v) = "load"
             /\ TakeUp(SetToSeq({To(Inst(M, s).args[1]) : s \in Top.found}))
    <3> DEFINE S == Top.found
               f == [s \in S |-> Inst(M, s).args[1]]
    <3>1. S \subseteq Stores(M)
      BY <1>1, <1>4, <2>1 DEF FoundOK, TracesGep, TracesArg
    <3>2. S \subseteq Insts(M) /\ \A x \in S : Inst(M, x).op = "store"
      BY <3>1 DEF Stores
    <3>3. \A x \in S : f[x] \in Values(M)
      BY <1>2, <3>2, InstShape
    <3>4. {To(Inst(M, s).args[1]) : s \in S} = {To(f[x]) : x \in S} /\ DOMAIN f = S
      OBVIOUS
    <3> HIDE DEF f, To, S
    <3>5. TakeUp(SetToSeq({To(f[x]) : x \in S}))
      BY <2>1, <3>4 DEF S
    <3> QED BY <3>2, <3>3, <3>4, <3>5
  <2>2. CASE /\ Op(M, call.v) = "arg"
             /\ \A c \in Top.found : call.v[4] + 2 \in DOMAIN Inst(M, c).args
             /\ TakeUp(SetToSeq({To(ActualArg(M, c, call.v[4])) : c \in Top.found}))
    <3> DEFINE S == Top.found
               f == [c \in S |-> ActualArg(M, c, call.v[4])]
    <3>1. S \subseteq Insts(M)
      BY <1>1, <1>4, <2>2 DEF FoundOK, TracesGep, TracesArg
    <3>2. \A x \in S : f[x] \in Values(M)
      BY <1>2, <2>2, <3>1, InstShape DEF ActualArg
    <3>3. {To(ActualArg(M, c, call.v[4])) : c \in S} = {To(f[x]) : x \in S} /\ DOMAIN f = S
      OBVIOUS
    <3> HIDE DEF f, To, S
    <3>4. TakeUp(SetToSeq({To(f[x]) : x \in S}))
      BY <2>2, <3>3 DEF S
    <3> QED BY <3>1, <3>2, <3>3, <3>4
  <2> QED BY <2>1, <2>2 DEF UseFound
<1>6. PICK S, f : /\ TakeUp(SetToSeq({To(f[x]) : x \in S})) /\ S \subseteq Insts(M) /\ DOMAIN f = S
                  /\ \A x \in S : f[x] \in Values(M)
  BY <1>5
<1> DEFINE R == {To(f[x]) : x \in S}
<1>7. IsFiniteSet(R)
  <2>1. IsFiniteSet(S)
    <3>1. S \subseteq Values(M)
      BY <1>2, <1>6, InstShape
    <3> QED BY <1>2, <3>1, FiniteValues
  <2> DEFINE g == [x \in S |-> To(f[x])]
  <2>2. DOMAIN g = S /\ R = {g[x] : x \in S}
    OBVIOUS
  <2> HIDE DEF g, R
  <2>3. IsFiniteSet({g[x] : x \in S})
    BY <2>1, <2>2, FiniteImage
  <2> QED BY <2>2, <2>3
<1>8. ASSUME NEW w \in Values(M)
      PROVE  CallOK(M, stack, L + 1, To(w)) /\ To(w).fn = "traceValue"
  <2>1. IsCall(To(w)) /\ To(w).fn = call.fn /\ To(w).v = w /\ To(w).to = call.to
    BY <1>3, Retraced
  <2>2. SameCalls(stack, stack, L - 1)
    BY DEF SameCalls
  <2> HIDE DEF To, call
  <2>3. call.fn \in {"traceValue", "traceMemory"}
    BY <1>1
  <2>4. CallOK(M, stack, L + 1, To(w))
    BY <1>2, <1>3, <2>1, <2>2, <2>3, SameCallback
  <2> QED BY <1>1, <2>1, <2>4
<1>9. \A c \in R : \E w \in Values(M) : c = To(w)
  BY <1>6
<1> HIDE DEF To, R
<1>10. \A c \in R : CallOK(M, stack, L + 1, c) /\ c.fn = "traceValue"
  BY <1>8, <1>9
<1>11. MayCall(M, stack[L].call, "traceValue")
  BY <1>1, <1>3 DEF MayCall
<1>12. \A c \in R : MayCall(M, stack[L].call, c.fn)
  BY <1>10, <1>11
<1>13. TodoOK(M, stack, L, SetToSeq(R))
  BY <1>7, <1>10, <1>12, ListedCalls
<1>14. TakeUp(SetToSeq(R))
  BY <1>6 DEF R
<1> QED BY <1>1, <1>13, <1>14, TakeUpTypes

LEMMA AskSiblingsTypes ==
  ASSUME TypesOK, AskSiblings
  PROVE  ActivationsOK(M, stack')
<1> DEFINE L == Len(stack)
           call == Top.call
           c(b) == findSiblingGEPs(b[1], Top.offset, b[2])
           R == {c(b) : b \in Top.seen}
<1>1. stack # <<>> /\ call.fn = "traceMemory" /\ Op(M, call.v) = "gep" /\ TakeUp(SetToSeq(R))
  BY DEF AskSiblings, Returning
<1>2. /\ IsModule(M) /\ L \in Nat /\ stack[L].call = call /\ BodyOK(M, stack, L, Top)
  BY <1>1, Acting
<1>3. Top.seen \subseteq Values(M) \X Values(M)
  BY <1>1, <1>2 DEF BodyOK, SeenOK
<1>4. IsFiniteSet(R)
  <2> DEFINE S == Top.seen
             f == [b \in S |-> c(b)]
  <2>1. IsFiniteSet(S)
    BY <1>2, <1>3, FiniteValues
  <2>2. DOMAIN f = S /\ R = {f[b] : b \in S}
    OBVIOUS
  <2> HIDE DEF f, R, S
  <2>3. IsFiniteSet({f[b] : b \in S})
    BY <2>1, <2>2, FiniteImage
  <2> QED BY <2>2, <2>3
<1>5. ASSUME NEW b \in Top.seen
      PROVE  /\ IsCall(c(b)) /\ c(b).fn = "findSiblingGEPs" /\ c(b).v \in Values(M)
             /\ c(b).to = 0 /\ c(b).by \in Values(M)
  <2>1. b[1] \in Values(M) /\ b[2] \in Values(M)
    BY <1>3
  <2> QED BY <2>1, CallFields DEF findSiblingGEPs
<1>6. \A x \in R : \E b \in Top.seen : x = c(b)
  OBVIOUS
<1> HIDE DEF c, R
<1>7. \A x \in R : /\ IsCall(x) /\ x.fn = "findSiblingGEPs" /\ x.v \in Values(M)
                   /\ x.to = 0 /\ x.by \in Values(M)
  BY <1>5, <1>6
<1>8. \A x \in R : CallOK(M, stack, L + 1, x)
  BY <1>2, <1>7, PlainCall
<1>9. MayCall(M, stack[L].call, "findSiblingGEPs")
  BY <1>1, <1>2 DEF MayCall
<1>10. \A x \in R : MayCall(M, stack[L].call, x.fn)
  BY <1>7, <1>9
<1>11. TodoOK(M, stack, L, SetToSeq(R))
  BY <1>4, <1>8, <1>10, ListedCalls
<1> QED BY <1>1, <1>11, TakeUpTypes

\* The caller is there, and what it made the call for.
LEMMA Caller ==
  ASSUME TypesOK, stack # <<>>, Top.call.fn # "collect" \/ Len(stack) > 1
  PROVE  /\ Len(stack) \in Nat /\ Len(stack) - 1 \in 1 .. Len(stack) - 1 /\ Len(stack) > 0
         /\ Len(stack) - 1 \in 1 .. Len(stack)
         /\ IsModule(M) /\ Top = stack[Len(stack)]
         /\ CallOK(M, stack, Len(stack), Top.call)
         /\ MayCall(M, stack[Len(stack) - 1].call, Top.call.fn)
         /\ BodyOK(M, stack, Len(stack), Top)
         /\ BodyOK(M, stack, Len(stack) - 1, stack[Len(stack) - 1])
         /\ IsStack(stack) /\ Shrunk(stack, Popped) /\ IsStack(Popped) /\ Len(Popped) = Len(stack) - 1
         /\ \A i \in 1 .. Len(stack) - 1 : Popped[i] = stack[i] /\ IsActivation(stack[i])
<1> DEFINE L == Len(stack)
<1>1. /\ L \in Nat /\ L > 0 /\ Top = stack[L] /\ LinkOK(M, stack, L) /\ BodyOK(M, stack, L, Top)
      /\ IsModule(M) /\ IsStack(stack)
  BY Acting
<1>2. L > 1
  <2>1. stack[1].call.fn = "collect"
    BY <1>1 DEF TypesOK, StackOK, LevelsOK
  <2> QED BY <1>1, <2>1
<1>3. L - 1 \in 1 .. L - 1 /\ L - 1 \in 1 .. L
  BY <1>1, <1>2
<1>4. /\ CallOK(M, stack, L, Top.call) /\ MayCall(M, stack[L - 1].call, Top.call.fn)
      /\ BodyOK(M, stack, L - 1, stack[L - 1])
  BY <1>1, <1>2, <1>3, Acting DEF LinkOK
<1>5. Shrunk(stack, Popped)
  BY <1>1, ShrunkOne DEF Popped, Depth
<1>6. \A i \in 1 .. L - 1 : Popped[i] = stack[i]
  BY <1>1, AllButLast DEF IsStack, Popped, Depth
<1>7. \A i \in 1 .. L - 1 : IsActivation(stack[i])
  BY <1>1 DEF IsStack
<1> QED BY <1>1, <1>3, <1>4, <1>5, <1>6, <1>7 DEF Shrunk

LEMMA PoppedTypes ==
  ASSUME TypesOK, stack # <<>>, Top.call.fn # "collect" \/ Len(stack) > 1,
         NEW n \in 1 .. Len(stack) - 1, NEW b, Later(stack[n], b), BodyOK(M, stack, n, b),
         stack' = [Popped EXCEPT ![n] = b]
  PROVE  ActivationsOK(M, stack')
<1> DEFINE L == Len(stack)
<1>1. /\ L \in Nat /\ L > 0 /\ IsStack(stack) /\ Shrunk(stack, Popped) /\ IsStack(Popped)
      /\ Len(Popped) = L - 1 /\ \A i \in 1 .. L - 1 : Popped[i] = stack[i]
  BY Caller
<1>2. Kept(Popped, stack')
  <2>1. Later(Popped[n], b)
    BY <1>1
  <2> QED BY <1>1, <2>1, KeptOne
<1>3. Shrunk(stack, stack')
  BY <1>1, <1>2, ShrunkKept
<1>4. \A i \in 1 .. L - 1 : stack'[i] = IF i = n THEN b ELSE stack[i]
  <2>1. \A i \in 1 .. L - 1 : stack'[i] = IF i = n THEN b ELSE Popped[i]
    BY <1>1, Replaced DEF IsStack
  <2> QED BY <1>1, <2>1
<1>5. \A i \in 1 .. L - 1 : BodyOK(M, stack, i, stack'[i])
  <2>1. \A i \in 1 .. L - 1 : i \in 1 .. L
    BY <1>1
  <2> QED BY <1>4, <2>1, Acting
<1>6. ActivationsOK(M, stack)
  BY DEF TypesOK
<1> QED BY <1>1, <1>3, <1>5, <1>6, TypesShrunk

\* What is handed up is of the kind the caller asked for.
LEMMA HandUpTypes ==
  ASSUME TypesOK, stack # <<>>, Top.call.fn # "collect" \/ Len(stack) > 1, NEW results,
         HandUp(results), FoundOK(M, stack[Len(stack) - 1].call, results)
  PROVE  ActivationsOK(M, stack')
<1> DEFINE n == Len(stack) - 1
           a == stack[n]
           b == [a EXCEPT !.found = a.found \cup results]
<1>1. /\ n \in 1 .. n /\ IsActivation(a) /\ BodyOK(M, stack, n, a) /\ Popped[n] = a
  BY Caller
<1>2. stack' = [Popped EXCEPT ![n] = b]
  BY <1>1 DEF HandUp, Depth
<1>3. FoundOK(M, a.call, a.found \cup results)
  BY <1>1 DEF BodyOK, FoundOK
<1>4. BodyOK(M, stack, n, b) /\ Later(a, b)
  BY <1>1, <1>3, BodyChanged, FieldsChanged
<1> HIDE DEF b, n
<1> QED BY <1>1, <1>2, <1>4, PoppedTypes DEF n

LEMMA EndMemoryTypes ==
  ASSUME TypesOK, EndMemory
  PROVE  ActivationsOK(M, stack')
<1> DEFINE c == stack[Len(stack) - 1].call
           call == Top.call
<1>1. stack # <<>> /\ call.fn = "traceMemory"
  BY DEF EndMemory, Returning
<1>2. MayCall(M, c, "traceMemory") /\ BodyOK(M, stack, Len(stack), Top) /\ stack[Len(stack)].call = call
  BY <1>1, Caller
<1>3. \A results : results \subseteq Stores(M) => FoundOK(M, c, results)
  BY <1>2 DEF MayCall, FoundOK, TracesGep, TracesArg, Switches
<1>4. \A p, load : findStoresTo(p, load) \subseteq Stores(M)
  BY UsersAreInsts DEF findStoresTo, Stores
<1>5. \E results : HandUp(results) /\ results \subseteq Stores(M)
  <2>1. CASE HandUp(Unkilled(PossibleStores(Top.found, call.by)))
    <3>1. \A x \in PossibleStores(Top.found, call.by) : x[1] \in Stores(M)
      BY <1>4 DEF PossibleStores
    <3>2. Unkilled(PossibleStores(Top.found, call.by)) \subseteq Stores(M)
      BY <3>1 DEF Unkilled
    <3> QED BY <2>1, <3>2
  <2>2. CASE Op(M, call.v) = "phi" /\ HandUp(Top.found)
    <3>1. Top.found \subseteq Stores(M)
      BY <1>1, <1>2, <2>2 DEF BodyOK, FoundOK, TracesGep, TracesArg
    <3> QED BY <2>2, <3>1
  <2>3. CASE HandUp(findStoresTo(call.v, call.by))
    BY <1>4, <2>3
  <2> QED BY <2>1, <2>2, <2>3 DEF EndMemory
<1> QED BY <1>1, <1>3, <1>5, HandUpTypes

LEMMA EndSiblingsTypes ==
  ASSUME TypesOK, EndSiblings
  PROVE  ActivationsOK(M, stack')
<1> DEFINE c == stack[Len(stack) - 1].call
           call == Top.call
           own == {g \in UsersOf(M, call.v, "gep") : Inst(M, g).n = call.n}
           results == Top.found \cup {<<g, call.by>> : g \in own}
<1>1. stack # <<>> /\ call.fn = "findSiblingGEPs" /\ HandUp(results)
  BY DEF EndSiblings, Returning
<1>2. /\ MayCall(M, c, "findSiblingGEPs") /\ BodyOK(M, stack, Len(stack), Top) /\ IsModule(M)
      /\ stack[Len(stack)].call = call /\ CallOK(M, stack, Len(stack), call)
  BY <1>1, Caller
<1>3. Top.found \subseteq Values(M) \X Values(M) /\ call.by \in Values(M)
  BY <1>1, <1>2 DEF BodyOK, FoundOK, CallOK
<1>4. own \subseteq Values(M)
  BY <1>2, UsersAreInsts, InstShape
<1>5. results \subseteq Values(M) \X Values(M)
  BY <1>3, <1>4
<1> HIDE DEF results
<1>6. FoundOK(M, c, results)
  BY <1>2, <1>5 DEF MayCall, FoundOK, TracesGep, TracesArg, Switches
<1> QED BY <1>1, <1>6, HandUpTypes

LEMMA EndSitesTypes ==
  ASSUME TypesOK, EndSites
  PROVE  ActivationsOK(M, stack')
<1> DEFINE L == Len(stack)
<1>1. stack # <<>> /\ Top.call.fn = "getCallBases" /\ stack' = Popped
  BY DEF EndSites, Returning
<1>2. /\ IsStack(stack) /\ L \in Nat /\ L > 0 /\ Shrunk(stack, Popped)
      /\ \A i \in 1 .. L - 1 : Popped[i] = stack[i]
  BY <1>1, Caller
<1>3. \A i \in 1 .. L - 1 : i \in 1 .. L
  BY <1>2
<1>4. \A i \in 1 .. L - 1 : BodyOK(M, stack, i, stack'[i])
  BY <1>1, <1>2, <1>3, Acting
<1>5. ActivationsOK(M, stack)
  BY DEF TypesOK
<1> QED BY <1>1, <1>2, <1>4, <1>5, TypesShrunk

LEMMA LastTracedTypes ==
  ASSUME TypesOK, Len(stack) > 0, NEW load
  PROVE  LastTraced(load) \in Values(M)
<1> DEFINE trace == Self.visitedStack
           here == {i \in DOMAIN trace : trace[i][1] = "inst" /\ SameBlock(trace[i], load)}
<1>1. IsCollector(Self) /\ \A p \in DOMAIN trace : trace[p] \in Values(M)
  BY Innermost DEF TypesOK, CollectorOK, Self
<1>2. DOMAIN trace = 1 .. Len(trace) /\ Len(trace) \in Nat
  BY <1>1, SeqShape DEF IsCollector
<1>3. CASE here = {}
  BY <1>3 DEF LastTraced, Values
<1>4. CASE here # {}
  <2> DEFINE T == {Len(trace) - i : i \in here}
  <2>0. here \subseteq 1 .. Len(trace)
    BY <1>2
  <2> HIDE DEF here, trace
  <2>1. T \subseteq Nat /\ T # {}
    <3>1. \A i \in here : Len(trace) - i \in Nat
      BY <2>0, <1>2
    <3> QED BY <3>1, <1>4
  <2> HIDE DEF T
  <2>2. PICK k \in T : \A j \in T : k <= j
    BY <2>1, LeastNumber
  <2>3. PICK i \in here : \A j \in here : Len(trace) - i <= Len(trace) - j
    BY <2>2 DEF T
  <2>4. \A j \in here : j <= i
    BY <1>2, <2>0, <2>3
  <2> DEFINE last == CHOOSE x \in here : \A j \in here : j <= x
  <2>5. last \in here
    BY <2>3, <2>4
  <2>6. LastTraced(load) = trace[last]
    BY <1>4 DEF LastTraced, here, trace
  <2> HIDE DEF last
  <2> QED BY <1>1, <1>2, <2>0, <2>5, <2>6 DEF trace
<1> QED BY <1>3, <1>4

LEMMA EndTraceTypes ==
  ASSUME TypesOK, EndTrace
  PROVE  ActivationsOK(M, stack')
<1> DEFINE L == Len(stack)
           call == Top.call
           v == call.v
           to == call.to
           a == stack[to]
           b == collectBases(a, v)
<1>1. stack # <<>> /\ call.fn = "traceValue"
  BY DEF EndTrace, Returning
<1>2. /\ IsStack(stack) /\ L \in Nat /\ L > 0 /\ Shrunk(stack, Popped) /\ IsModule(M)
      /\ \A i \in 1 .. L - 1 : Popped[i] = stack[i] /\ IsActivation(stack[i])
      /\ CallOK(M, stack, L, call)
  BY <1>1, Caller
<1>3. \A i \in 1 .. L - 1 : BodyOK(M, stack, i, stack[i])
  <2>1. \A i \in 1 .. L - 1 : i \in 1 .. L
    BY <1>2
  <2> QED BY <2>1, Acting
<1>4. ActivationsOK(M, stack)
  BY DEF TypesOK
<1>5. CASE stack' = Popped
  BY <1>2, <1>3, <1>4, <1>5, TypesShrunk
<1>6. CASE to # 0 /\ stack' = [Popped EXCEPT ![to] = collectBases(@, v)]
  <2>1. v \in Values(M) /\ to \in 1 .. L - 1 /\ TracesGep(M, a.call)
    BY <1>1, <1>2, <1>6 DEF CallOK, Switches
  <2>2. IsActivation(a) /\ Popped[to] = a /\ BodyOK(M, stack, to, a)
    BY <1>2, <1>3, <2>1
  <2>3. stack' = [Popped EXCEPT ![to] = b]
    BY <1>6, <2>2
  <2>4. Later(a, b) /\ BodyOK(M, stack, to, b)
    <3>1. CASE Op(M, v) = "gep"
      <4> DEFINE x == Wrap(a.offset + Inst(M, v).n)
      <4>1. b = [a EXCEPT !.offset = x]
        BY <3>1 DEF collectBases
      <4>2. x \in Offsets
        <5>1. v \in Insts(M)
          BY <1>2, <2>1, <3>1, ValueOps DEF InstOps
        <5>2. Inst(M, v).n \in Int
          BY <1>2, <5>1, InstShape
        <5>3. a.offset \in Int
          BY <2>2 DEF BodyOK, Offsets
        <5> QED BY <5>2, <5>3 DEF Wrap, Offsets
      <4> HIDE DEF b, x
      <4> QED BY <2>2, <4>1, <4>2, FieldsChanged, BodyChanged
    <3>2. CASE Op(M, v) = "alloca"
      <4> DEFINE w == IF SameBlock(v, a.call.by) THEN Null ELSE LastTraced(a.call.by)
                 x == a.seen \cup {<<v, w>>}
      <4>1. b = [a EXCEPT !.seen = x]
        BY <3>2 DEF collectBases
      <4>2. w \in Values(M)
        BY <1>2, LastTracedTypes DEF Values
      <4>3. SeenOK(M, a.call, x)
        BY <2>1, <2>2, <4>2 DEF SeenOK, TracesGep, BodyOK
      <4> HIDE DEF b, x, a
      <4>4. SeenOK(M, stack[to].call, x)
        BY <4>3 DEF a
      <4> QED BY <2>2, <4>1, <4>4, FieldsChanged, BodyChanged
    <3>3. CASE Op(M, v) \notin {"gep", "alloca"}
      <4>1. b = a
        BY <3>3 DEF collectBases
      <4> QED BY <2>2, <4>1 DEF Later
    <3> QED BY <3>1, <3>2, <3>3
  <2> HIDE DEF b, to
  <2> QED BY <1>1, <2>1, <2>3, <2>4, PoppedTypes
<1> QED BY <1>5, <1>6 DEF EndTrace

LEMMA EndNestedTypes ==
  ASSUME TypesOK, EndNested
  PROVE  ActivationsOK(M, stack')
<1> DEFINE L == Len(stack)
           n == L - 1
           call == Top.call
           a == stack[n]
           formals == {Arg(f, call.n) : f \in Self.results}
           R == {getCallBases(v, call.to) : v \in formals}
           todo == SetToSeq(R) \o a.todo
           b == [a EXCEPT !.todo = todo]
<1>1. stack # <<>> /\ call.fn = "collect" /\ L > 1
  BY DEF EndNested, Returning, Depth
<1>2. /\ L \in Nat /\ n \in 1 .. n /\ IsActivation(a) /\ Popped[n] = a /\ BodyOK(M, stack, n, a)
      /\ IsModule(M) /\ CallOK(M, stack, L, call) /\ MayCall(M, a.call, "collect")
      /\ L > 0
  BY <1>1, Caller
<1>3. stack' = [Popped EXCEPT ![n] = b]
  BY <1>2 DEF EndNested, Depth
<1>4. a.call.fn = "getCallBases"
  BY <1>2 DEF MayCall, Switches
<1>5. formals \subseteq Values(M)
  <2>1. Self.results \subseteq DOMAIN M.fn
    BY <1>2, Innermost DEF TypesOK, CollectorOK, Self
  <2>2. call.n \in Nat
    BY <1>1, <1>2 DEF CallOK
  <2>3. ASSUME NEW f \in Self.results
        PROVE  Arg(f, call.n) \in Values(M)
    <3>1. call.n < M.fn[f].arity /\ M.fn[f].arity \in Nat
      BY <1>2, <2>1 DEF EndNested, IsModule
    <3>2. call.n \in 0 .. M.fn[f].arity - 1
      BY <2>2, <3>1
    <3> QED BY <1>2, <2>1, <3>2, FunctionValues
  <2> QED BY <2>3
<1>6. IsFiniteSet(R)
  <2>1. IsFiniteSet(formals)
    BY <1>2, <1>5, FiniteValues
  <2> DEFINE f == [v \in formals |-> getCallBases(v, call.to)]
  <2>2. DOMAIN f = formals /\ R = {f[v] : v \in formals}
    OBVIOUS
  <2> HIDE DEF f, R, formals
  <2>3. IsFiniteSet({f[v] : v \in formals})
    BY <2>1, <2>2, FiniteImage
  <2> QED BY <2>2, <2>3
<1>7. call.to \in 0 .. n /\ call.to # 0 /\ TracesArg(M, stack[call.to].call)
  BY <1>1, <1>2 DEF CallOK
<1>8. \A c \in R : /\ IsCall(c) /\ c.v \in Values(M) /\ c.fn = "getCallBases" /\ c.to = call.to
  <2> TAKE c \in R
  <2>1. PICK v \in formals : c = getCallBases(v, call.to)
    OBVIOUS
  <2> QED BY <1>5, <2>1, CallFields DEF getCallBases
<1> HIDE DEF R, formals
<1>9. \A c \in R : CallOK(M, stack, n + 1, c)
  <2>1. n \in Nat
    BY <1>2
  <2> HIDE DEF n, call
  <2> QED BY <1>7, <1>8, <2>1, OwnedCall
<1>10. \A c \in R : MayCall(M, a.call, c.fn)
  BY <1>4, <1>8 DEF MayCall
<1>11. TodoOK(M, stack, n, SetToSeq(R))
  BY <1>6, <1>9, <1>10, ListedCalls
<1>12. TodoOK(M, stack, n, a.todo)
  BY <1>2 DEF BodyOK
<1>13. TodoOK(M, stack, n, todo)
  <2> DEFINE s == SetToSeq(R)
             t == a.todo
  <2>1. IsSeq(s) /\ IsSeq(t)
    BY <1>11, <1>12 DEF TodoOK
  <2>2. Len(s) \in Nat /\ Len(t) \in Nat /\ DOMAIN s = 1 .. Len(s) /\ DOMAIN t = 1 .. Len(t)
    BY <2>1, SeqShape
  <2>3. /\ IsSeq(s \o t) /\ Len(s \o t) = Len(s) + Len(t)
        /\ \A k \in 1 .. Len(s) + Len(t) :
             (s \o t)[k] = IF k <= Len(s) THEN s[k] ELSE t[k - Len(s)]
    BY <2>1, Joined
  <2>4. DOMAIN (s \o t) = 1 .. Len(s) + Len(t)
    BY <2>3, SeqShape
  <2> HIDE DEF s, t
  <2>5. ASSUME NEW k \in DOMAIN (s \o t)
        PROVE  (\E j \in DOMAIN s : (s \o t)[k] = s[j]) \/ (\E j \in DOMAIN t : (s \o t)[k] = t[j])
    <3>1. CASE k <= Len(s)
      BY <2>2, <2>3, <2>4, <3>1
    <3>2. CASE ~ (k <= Len(s))
      <4>1. k - Len(s) \in DOMAIN t
        BY <2>2, <2>4, <3>2
      <4> QED BY <2>3, <2>4, <3>2, <4>1
    <3> QED BY <3>1, <3>2
  <2>6. \A k \in DOMAIN (s \o t) :
          CallOK(M, stack, n + 1, (s \o t)[k]) /\ MayCall(M, stack[n].call, (s \o t)[k].fn)
    BY <1>11, <1>12, <2>5 DEF TodoOK, s, t
  <2> QED BY <2>3, <2>6 DEF TodoOK, s, t
<1> HIDE DEF todo, n
<1>14. BodyOK(M, stack, n, b) /\ Later(a, b)
  BY <1>2, <1>13, BodyChanged, FieldsChanged
<1>15. n \in 1 .. Len(stack) - 1
  BY <1>2 DEF n
<1> HIDE DEF b
<1> QED BY <1>1, <1>3, <1>14, <1>15, PoppedTypes

-----------------------------------------------------------------------------
(***************************************************************************)
(* The collectors after each step.                                         *)
(***************************************************************************)
LEMMA CollectorFields ==
  ASSUME NEW c, IsCollector(c), NEW x
  PROVE  /\ LET d == [c EXCEPT !.selectedBlock = x]
            IN  /\ d.visitedSet = c.visitedSet /\ d.visitedStack = c.visitedStack
                /\ d.selectedBlock = x /\ d.results = c.results
         /\ LET d == [c EXCEPT !.results = x]
            IN  /\ d.visitedSet = c.visitedSet /\ d.visitedStack = c.visitedStack
                /\ d.selectedBlock = c.selectedBlock /\ d.results = x
BY DEF IsCollector

LEMMA TraceFields ==
  ASSUME NEW c, IsCollector(c), NEW vs, NEW st
  PROVE  /\ [c EXCEPT !.visitedSet = vs, !.visitedStack = st].visitedSet = vs
         /\ [c EXCEPT !.visitedSet = vs, !.visitedStack = st].visitedStack = st
         /\ [c EXCEPT !.visitedSet = vs, !.visitedStack = st].selectedBlock = c.selectedBlock
         /\ [c EXCEPT !.visitedSet = vs, !.visitedStack = st].results = c.results
<1> DEFINE e == [c EXCEPT !.visitedSet = vs]
           d == [c EXCEPT !.visitedSet = vs, !.visitedStack = st]
<1>1. e = [visitedSet |-> vs, visitedStack |-> c.visitedStack,
           selectedBlock |-> c.selectedBlock, results |-> c.results]
  BY DEF IsCollector
<1>2. d = [e EXCEPT !.visitedStack = st]
  OBVIOUS
<1> HIDE DEF e
<1>3. d = [visitedSet |-> vs, visitedStack |-> st,
           selectedBlock |-> c.selectedBlock, results |-> c.results]
  BY <1>1, <1>2
<1> HIDE DEF d
<1>4. /\ d.visitedSet = vs /\ d.visitedStack = st
      /\ d.selectedBlock = c.selectedBlock /\ d.results = c.results
  BY <1>3
<1> QED BY <1>4 DEF d

\* The innermost collector replaced.
LEMMA ReplacedTypes ==
  ASSUME TypesOK, Len(stack) > 0, NEW c, InCollector(c), CollectorOK(M, c)
  PROVE  \A k \in 1 .. Len(collectors') : CollectorOK(M, collectors'[k])
<1>1. InnermostIs(c) /\ Len(collectors) \in Nat
  BY Innermost DEF TypesOK
<1>2. \A k \in 1 .. Len(collectors) : k \in 1 .. Len(collectors) - 1 \/ k = Len(collectors)
  BY <1>1
<1> QED BY <1>1, <1>2 DEF InnermostIs, TypesOK

LEMMA SelfTypes ==
  ASSUME TypesOK, stack # <<>>
  PROVE  /\ Len(stack) > 0 /\ Len(collectors) \in Nat /\ Len(collectors) > 0
         /\ IsCollector(Self) /\ CollectorOK(M, Self) /\ Self = collectors[Len(collectors)]
BY Acting, Innermost DEF TypesOK, Self

LEMMA MarkedTypes ==
  ASSUME TypesOK, TraceValue
  PROVE  \A k \in 1 .. Len(collectors') : CollectorOK(M, collectors'[k])
<1> DEFINE v == Head(Top.todo).v
           vs == Self.visitedSet \cup {v}
           st == Append(Self.visitedStack, v)
           d == [Self EXCEPT !.visitedSet = vs, !.visitedStack = st]
<1>1. Calling("traceValue") /\ InCollector(d)
  BY DEF TraceValue
<1>2. stack # <<>> /\ v \in Values(M)
  BY <1>1, NextCall DEF CallOK, Switches
<1>3. IsCollector(Self) /\ CollectorOK(M, Self) /\ Len(stack) > 0
  BY <1>2, SelfTypes
<1>4. \A p \in DOMAIN st : st[p] \in Values(M)
  <2> DEFINE s == Self.visitedStack
  <2>1. IsSeq(s) /\ \A p \in DOMAIN s : s[p] \in Values(M)
    BY <1>3 DEF IsCollector, CollectorOK
  <2>2. /\ Len(s) \in Nat /\ DOMAIN s = 1 .. Len(s) /\ IsSeq(st) /\ Len(st) = Len(s) + 1
        /\ \A p \in 1 .. Len(s) : st[p] = s[p]
        /\ st[Len(s) + 1] = v
    BY <2>1, SeqShape, Pushed
  <2> HIDE DEF st, s
  <2>3. DOMAIN st = 1 .. Len(s) + 1
    BY <2>2, SeqShape
  <2> QED BY <1>2, <2>1, <2>2, <2>3
<1>5. vs \subseteq Values(M)
  BY <1>2, <1>3 DEF CollectorOK
<1> HIDE DEF vs, st
<1>6. d.visitedSet = vs /\ d.visitedStack = st /\ d.results = Self.results
  <2>1. d = [Self EXCEPT !.visitedSet = vs, !.visitedStack = st]
    OBVIOUS
  <2> HIDE DEF d
  <2> QED BY <1>3, <2>1, TraceFields
<1> HIDE DEF d
<1>7. CollectorOK(M, d)
  BY <1>3, <1>4, <1>5, <1>6 DEF CollectorOK
<1> QED BY <1>1, <1>3, <1>7, ReplacedTypes

LEMMA UntracedTypes ==
  ASSUME TypesOK, EndTrace
  PROVE  \A k \in 1 .. Len(collectors') : CollectorOK(M, collectors'[k])
<1> DEFINE v == Top.call.v
           s == Self.visitedStack
           vs == Self.visitedSet \ {v}
           st == SubSeq(s, 1, Len(s) - 1)
           d == Untraced(v)
<1>1. stack # <<>> /\ Top.call.fn = "traceValue"
  BY DEF EndTrace, Returning
<1>2. v \in Values(M) /\ IsModule(M)
  BY <1>1, Caller DEF CallOK, Switches
<1>3. IsCollector(Self) /\ CollectorOK(M, Self) /\ Len(stack) > 0
  BY <1>1, SelfTypes
<1>4. \A p \in DOMAIN st : st[p] \in Values(M)
  <2>1. IsSeq(s) /\ Len(s) \in Nat /\ DOMAIN s = 1 .. Len(s) /\ \A p \in DOMAIN s : s[p] \in Values(M)
    BY <1>3, SeqShape DEF IsCollector, CollectorOK
  <2>2. CASE Len(s) > 0
    <3>1. IsSeq(st) /\ Len(st) = Len(s) - 1 /\ \A p \in 1 .. Len(s) - 1 : st[p] = s[p]
      BY <2>1, <2>2, AllButLast
    <3> HIDE DEF st, s
    <3>2. DOMAIN st = 1 .. Len(s) - 1
      BY <3>1, SeqShape
    <3> QED BY <2>1, <3>1, <3>2
  <2>3. CASE ~ (Len(s) > 0)
    <3>1. DOMAIN st = {}
      <4>1. st = <<>>
        BY <2>1, <2>3
      <4>2. IsSeq(<<>>) /\ Len(<<>>) = 0
        BY SeqOfAny, EmptySeq
      <4>3. DOMAIN <<>> = {}
        BY <4>2, SeqShape
      <4> QED BY <4>1, <4>3
    <3> QED BY <3>1
  <2> QED BY <2>2, <2>3
<1>5. d.visitedSet = vs /\ d.visitedStack = st /\ d.results = Self.results /\ IsCollector(d)
  <2>1. d = [Self EXCEPT !.visitedSet = vs, !.visitedStack = st]
    BY DEF Untraced
  <2>2. IsSeq(st)
    <3>1. IsSeq(s) /\ Len(s) \in Nat
      BY <1>3, SeqShape DEF IsCollector
    <3>2. CASE Len(s) > 0
      BY <3>1, <3>2, AllButLast
    <3>3. CASE ~ (Len(s) > 0)
      <4>1. st = <<>>
        BY <3>1, <3>3
      <4> QED BY <4>1, SeqOfAny, EmptySeq
    <3> QED BY <3>2, <3>3
  <2> HIDE DEF d, vs, st
  <2>3. IsCollector(d)
    BY <1>3, <2>1, <2>2, CollectorChanged
  <2> QED BY <1>3, <2>1, <2>3, TraceFields
<1>6. vs \subseteq Values(M)
  BY <1>3 DEF CollectorOK
<1> HIDE DEF d, vs, st
<1>7. CollectorOK(M, d)
  BY <1>3, <1>4, <1>5, <1>6 DEF CollectorOK
<1>8. CASE InCollector([d EXCEPT !.results = @ \cup Targets(v)])
  <2> DEFINE r == d.results \cup Targets(v)
             e == [d EXCEPT !.results = r]
  <2>1. Targets(v) \subseteq DOMAIN M.fn
    BY <1>2, ValueKinds, InstShape DEF Targets
  <2>2. r \subseteq DOMAIN M.fn
    BY <1>7, <2>1 DEF CollectorOK
  <2> HIDE DEF r
  <2>3. e.visitedSet = d.visitedSet /\ e.visitedStack = d.visitedStack /\ e.results = r
    BY <1>5, CollectorFields
  <2>4. InCollector(e)
    BY <1>8 DEF r
  <2> HIDE DEF e
  <2>5. CollectorOK(M, e)
    BY <1>7, <2>2, <2>3 DEF CollectorOK
  <2> QED BY <1>3, <2>4, <2>5, ReplacedTypes
<1>9. CASE InCollector(d)
  BY <1>3, <1>7, <1>9, ReplacedTypes
<1> QED BY <1>8, <1>9 DEF EndTrace, d

LEMMA CollectorsTyped ==
  ASSUME TypesOK, Next
  PROVE  \A k \in 1 .. Len(collectors') : CollectorOK(M, collectors'[k])
<1>1. CASE UNCHANGED collectors
  BY <1>1 DEF TypesOK
<1>2. CASE SelectBlock \/ UnselectBlock
  <2>1. stack # <<>> /\ \E B : InCollector([Self EXCEPT !.selectedBlock = B])
    BY <1>2 DEF SelectBlock, UnselectBlock, Calling
  <2>2. PICK B : InCollector([Self EXCEPT !.selectedBlock = B])
    BY <2>1
  <2> DEFINE c == [Self EXCEPT !.selectedBlock = B]
  <2>3. CollectorOK(M, c)
    BY <2>1, SelfTypes, CollectorFields DEF CollectorOK
  <2>4. InCollector(c) /\ Len(stack) > 0
    BY <2>1, <2>2, SelfTypes
  <2> HIDE DEF c
  <2> QED BY <2>3, <2>4, ReplacedTypes
<1>3. CASE TraceValue
  BY <1>3, MarkedTypes
<1>4. CASE EndTrace
  BY <1>4, UntracedTypes
<1>5. CASE CollectNext \/ CollectNested
  <2>1. collectors' = Append(collectors, NewCollector)
    BY <1>5 DEF CollectNext, CollectNested, BeginCollect
  <2>2. IsSeq(collectors) /\ Len(collectors) \in Nat
    BY SeqShape DEF TypesOK, StackOK, CollectorsOK
  <2>3. /\ Len(collectors') = Len(collectors) + 1
        /\ \A k \in 1 .. Len(collectors) : collectors'[k] = collectors[k]
        /\ collectors'[Len(collectors) + 1] = NewCollector
    BY <2>1, <2>2, Pushed
  <2>4. CollectorOK(M, NewCollector)
    <3>1. DOMAIN <<>> = {}
      <4>1. IsSeq(<<>>) /\ Len(<<>>) = 0
        BY SeqOfAny, EmptySeq
      <4> QED BY <4>1, SeqShape
    <3> QED BY <3>1 DEF CollectorOK, NewCollector
  <2>5. \A k \in 1 .. Len(collectors') : k \in 1 .. Len(collectors) \/ k = Len(collectors) + 1
    BY <2>2, <2>3
  <2> QED BY <2>3, <2>4, <2>5 DEF TypesOK
<1>6. CASE EndNested
  <2>1. /\ Len(stack) > 0 /\ collectors' = SubSeq(collectors, 1, Len(collectors) - 1)
    BY <1>6, RunningStack DEF EndNested, TypesOK
  <2>2. IsSeq(collectors) /\ Len(collectors) \in Nat /\ Len(collectors) > 0
    BY <2>1, Innermost DEF TypesOK, StackOK, CollectorsOK
  <2>3. /\ Len(collectors') = Len(collectors) - 1
        /\ \A k \in 1 .. Len(collectors) - 1 : collectors'[k] = collectors[k]
    BY <2>1, <2>2, AllButLast
  <2>4. \A k \in 1 .. Len(collectors') : k \in 1 .. Len(collectors) /\ k \in 1 .. Len(collectors) - 1
    BY <2>2, <2>3
  <2> QED BY <2>3, <2>4 DEF TypesOK
<1>7. CASE Report
  <2>1. Len(collectors') = 0
    BY <1>7, EmptySeq DEF Report
  <2> QED BY <2>1
<1> QED
  BY <1>1, <1>2, <1>3, <1>4, <1>5, <1>6, <1>7
  DEF Next, Value, Memory, Sites, Collecting, SeenValue, NoReturn, UseFound, NoActualArg,
      TraceMemory, AskSiblings, EndMemory, FindSiblingGEPs, EndSiblings, SeenSite, GetCallBases,
      EndSites, NoFormalArg, Overflow

LEMMA ActivationsTyped ==
  ASSUME TypesOK, Next
  PROVE  ActivationsOK(M, stack')
<1>1. CASE UNCHANGED stack
  BY <1>1 DEF TypesOK
<1>2. CASE SeenValue \/ SeenSite \/ SelectBlock \/ UnselectBlock
  <2>1. stack' = Called /\ \E fn : Calling(fn)
    BY <1>2 DEF SeenValue, SeenSite, SelectBlock, UnselectBlock
  <2>2. /\ Kept(stack, stack') /\ IsStack(stack) /\ ActivationsOK(M, stack)
        /\ \A i \in 1 .. Len(stack) : BodyOK(M, stack, i, stack'[i])
    BY <2>1, NextCall, Acting DEF TypesOK
  <2> QED BY <2>2, TypesKept
<1>3. CASE Report
  <2>1. Len(stack') = 0
    BY <1>3, EmptySeq DEF Report
  <2> QED BY <2>1 DEF ActivationsOK
<1> QED
  BY <1>1, <1>2, <1>3, TraceValueTypes, UseFoundTypes, EndTraceTypes, TraceMemoryTypes,
     AskSiblingsTypes, EndMemoryTypes, FindSiblingTypes, EndSiblingsTypes, GetCallBasesTypes,
     EndSitesTypes, CollectNextTypes, CollectNestedTypes, EndNestedTypes
  DEF Next, Value, Memory, Sites, Collecting, NoReturn, NoActualArg, NoFormalArg, Overflow

LEMMA ReportedTypes ==
  ASSUME TypesOK, Report
  PROVE  IsSeq(output') /\ ToSet(output') \subseteq Lines
<1> DEFINE line == [line |-> Inst(M, Top.call.v).n, names |-> Self.results]
<1>1. stack # <<>> /\ Top.call.fn = "collect"
  BY DEF Report, Returning
<1>2. Top.call.v \in Calls(M)
  BY <1>1, Acting DEF LinkOK, CallOK
<1>3. Self.results \subseteq DOMAIN M.fn
  BY <1>1, SelfTypes DEF CollectorOK
<1>4. line \in Lines
  BY <1>2, <1>3 DEF Lines
<1>5. IsSeq(output) /\ ToSet(output) \subseteq Lines
  BY DEF TypesOK
<1>6. output' = output \/ output' = Append(output, line)
  BY DEF Report
<1> HIDE DEF line
<1>7. CASE output' = Append(output, line)
  <2>1. /\ Len(output) \in Nat /\ DOMAIN output = 1 .. Len(output) /\ IsSeq(output')
        /\ Len(output') = Len(output) + 1
        /\ \A i \in 1 .. Len(output) : output'[i] = output[i]
        /\ output'[Len(output) + 1] = line
    BY <1>5, <1>7, SeqShape, Pushed
  <2>2. DOMAIN output' = 1 .. Len(output) + 1
    BY <2>1, SeqShape
  <2>3. \A i \in DOMAIN output' : output'[i] \in Lines
    BY <1>4, <1>5, <2>1, <2>2 DEF ToSet
  <2> QED BY <2>1, <2>3 DEF ToSet
<1> QED BY <1>5, <1>6, <1>7

LEMMA TypesInit == Init => TypesOK
<1> SUFFICES ASSUME Init
             PROVE  TypesOK
  OBVIOUS
<1>1. stack = <<>> /\ collectors = <<>> /\ output = <<>>
  BY DEF Init
<1>2. IsSeq(<<>>) /\ Len(<<>>) = 0
  BY SeqOfAny, EmptySeq
<1>3. ToSet(<<>>) = {}
  BY <1>2, SeqShape DEF ToSet
<1>4. StackOK
  BY InitInStep
<1> QED BY <1>1, <1>2, <1>3, <1>4 DEF Init, TypesOK, ActivationsOK

LEMMA TypesStep == TypesOK /\ [Next]_vars => TypesOK'
<1> SUFFICES ASSUME TypesOK, [Next]_vars
             PROVE  TypesOK'
  OBVIOUS
<1>1. CASE UNCHANGED vars
  BY <1>1 DEF vars, TypesOK, StackOK, M, Lines, Calls
<1>2. CASE Next
  <2>1. StackOK'
    BY <1>2, StackSteps, StackKept DEF TypesOK
  <2>2. input' = input /\ M' = M
    BY <1>2 DEF Next, Value, Memory, Sites, Collecting, SeenValue, TraceValue, NoReturn, UseFound,
      NoActualArg, EndTrace, SelectBlock, UnselectBlock, TraceMemory, AskSiblings, EndMemory,
      FindSiblingGEPs, EndSiblings, SeenSite, GetCallBases, EndSites, CollectNext, CollectNested,
      NoFormalArg, EndNested, Report, Overflow, Others, M
  <2>3. /\ pending' \subseteq pending /\ status' \in {"running", "overflow", "fatal"}
        /\ output' = output \/ Report
    BY <1>2 DEF Next, Value, Memory, Sites, Collecting, SeenValue, TraceValue, NoReturn, UseFound,
      NoActualArg, EndTrace, SelectBlock, UnselectBlock, TraceMemory, AskSiblings, EndMemory,
      FindSiblingGEPs, EndSiblings, SeenSite, GetCallBases, EndSites, CollectNext, CollectNested,
      NoFormalArg, EndNested, Report, Overflow, Others, TypesOK
  <2>4. ActivationsOK(M, stack') /\ \A k \in 1 .. Len(collectors') : CollectorOK(M, collectors'[k])
    BY <1>2, ActivationsTyped, CollectorsTyped
  <2>5. IsSeq(output') /\ ToSet(output') \subseteq Lines
    BY <2>3, ReportedTypes DEF TypesOK
  <2>6. Lines' = Lines /\ Calls(M)' = Calls(M) /\ ToSet(output)' = ToSet(output')
    BY <2>2 DEF Lines, Calls, ToSet
  <2> QED BY <2>1, <2>2, <2>3, <2>4, <2>5, <2>6 DEF TypesOK
<1> QED BY <1>1, <1>2

LEMMA TypesEntail == TypesOK => TypeOK
<1> SUFFICES ASSUME TypesOK
             PROVE  TypeOK
  OBVIOUS
<1>1. /\ DOMAIN stack = 1 .. Len(stack) /\ DOMAIN collectors = 1 .. Len(collectors)
  BY SeqShape DEF TypesOK, StackOK, IsStack, CollectorsOK
<1>2. ASSUME NEW k \in DOMAIN collectors
      PROVE  /\ collectors[k].visitedSet \subseteq Values(M)
             /\ ToSet(collectors[k].visitedStack) \subseteq Values(M)
             /\ collectors[k].results \subseteq DOMAIN M.fn
  BY <1>1 DEF TypesOK, CollectorOK, ToSet
<1>3. ASSUME NEW i \in DOMAIN stack
      PROVE  /\ stack[i].level \in DOMAIN collectors
             /\ stack[i].call.v \in Values(M)
             /\ stack[i].offset \in -128 .. 127
             /\ stack[i].call.to \in 0 .. i - 1
  <2>1. LinkOK(M, stack, i) /\ BodyOK(M, stack, i, stack[i]) /\ stack[i].level \in DOMAIN collectors
    BY <1>1 DEF TypesOK, ActivationsOK, StackOK, LevelsOK
  <2> QED BY <2>1 DEF LinkOK, BodyOK, CallOK, Offsets
<1> QED BY <1>2, <1>3 DEF TypesOK, TypeOK

(***************************************************************************)
(* Whatever module the verifier accepts and whatever calls whatever: every *)
(* value traced is one of the module's, what a vector passed by reference  *)
(* gets is of the kind its owner reads, every callback is that of an       *)
(* activation still on the stack, and every line printed names functions   *)
(* at a call's line (lines 69, 182, 452 and 537).                          *)
(***************************************************************************)
THEOREM TypesInStep == Spec => []TypeOK
<1>1. Init => TypesOK
  BY TypesInit
<1>2. TypesOK /\ [Next]_vars => TypesOK'
  BY TypesStep
<1>3. TypesOK => TypeOK
  BY TypesEntail
<1> QED BY <1>1, <1>2, <1>3, PTL DEF Spec

-----------------------------------------------------------------------------
(***************************************************************************)
(* What a list of calls selects.                                           *)
(***************************************************************************)
Plain(todo) == \A n \in DOMAIN todo : todo[n].fn \notin Switches

\* As far as blocks go, y may take the place of x.
Alike(x, y) ==
  Open(y) = Open(x) /\ (Balanced(x) => Balanced(y)) /\ Switched(y) \subseteq Switched(x)

LEMMA PlainSelectsNone ==
  ASSUME NEW todo, Plain(todo)
  PROVE  Balanced(todo) /\ Open(todo) = {} /\ Switched(todo) = {}
<1>1. \A n \in DOMAIN todo : todo[n].fn # "insert" /\ todo[n].fn # "erase"
  BY DEF Plain, Switches
<1>2. Balanced(todo)
  BY <1>1 DEF Balanced
<1>3. Open(todo) = {}
  BY <1>1 DEF Open
<1>4. Switched(todo) = {}
  BY DEF Switched, Plain
<1> QED BY <1>2, <1>3, <1>4

\* Only a phi's incoming values come with blocks.
LEMMA PlainBody ==
  ASSUME NEW m, NEW s, NEW i, NEW a, BodyOK(m, s, i, a),
         s[i].call.fn \notin {"traceValue", "traceMemory"} \/ Op(m, s[i].call.v) # "phi"
  PROVE  Plain(a.todo)
<1> SUFFICES ASSUME NEW n \in DOMAIN a.todo
             PROVE  a.todo[n].fn \notin Switches
  BY DEF Plain
<1>1. MayCall(m, s[i].call, a.todo[n].fn)
  BY DEF BodyOK, TodoOK
<1> QED BY <1>1 DEF MayCall, Switches

\* An element of the tail, in the list.
LEMMA InTail ==
  ASSUME NEW todo, IsSeq(todo), todo # <<>>
  PROVE  /\ Len(todo) \in Nat /\ Len(todo) > 0 /\ Head(todo) = todo[1]
         /\ Len(Tail(todo)) = Len(todo) - 1
         /\ DOMAIN todo = 1 .. Len(todo) /\ DOMAIN Tail(todo) = 1 .. Len(todo) - 1
         /\ \A n \in 2 .. Len(todo) : n - 1 \in 1 .. Len(todo) - 1 /\ Tail(todo)[n - 1] = todo[n]
         /\ \A n \in 1 .. Len(todo) - 1 : n + 1 \in 2 .. Len(todo) /\ Tail(todo)[n] = todo[n + 1]
<1>1. /\ Len(todo) \in Nat /\ Len(todo) > 0 /\ Head(todo) = todo[1]
      /\ Len(Tail(todo)) = Len(todo) - 1
      /\ DOMAIN todo = 1 .. Len(todo) /\ DOMAIN Tail(todo) = 1 .. Len(todo) - 1
      /\ \A n \in 1 .. Len(todo) - 1 : Tail(todo)[n] = todo[n + 1]
  BY HeadAndTail
<1>2. ASSUME NEW n \in 2 .. Len(todo)
      PROVE  n - 1 \in 1 .. Len(todo) - 1 /\ Tail(todo)[n - 1] = todo[n]
  <2>1. n - 1 \in 1 .. Len(todo) - 1 /\ (n - 1) + 1 = n
    BY <1>1
  <2> QED BY <1>1, <2>1
<1>3. ASSUME NEW n \in 1 .. Len(todo) - 1
      PROVE  n + 1 \in 2 .. Len(todo) /\ Tail(todo)[n] = todo[n + 1]
  BY <1>1
<1> QED BY <1>1, <1>2, <1>3

LEMMA TailBalanced ==
  ASSUME NEW todo, IsSeq(todo), todo # <<>>, Balanced(todo)
  PROVE  Balanced(Tail(todo)) /\ Switched(Tail(todo)) \subseteq Switched(todo)
<1> DEFINE t == Tail(todo)
           L == Len(todo)
<1>1. /\ L \in Nat /\ L > 0 /\ DOMAIN todo = 1 .. L /\ DOMAIN t = 1 .. L - 1 /\ Len(t) = L - 1
      /\ \A n \in 2 .. L : n - 1 \in 1 .. L - 1 /\ t[n - 1] = todo[n]
      /\ \A n \in 1 .. L - 1 : n + 1 \in 2 .. L /\ t[n] = todo[n + 1]
  BY InTail
<1> HIDE DEF t, L
<1>2. ASSUME NEW n \in DOMAIN t, t[n].fn = "insert"
      PROVE  \E k \in n + 1 .. Len(t) :
               /\ Does(t, k, "erase", t[n].v)
               /\ \A j \in n + 1 .. k - 1 : ~ Does(t, j, "insert", t[n].v)
  <2>1. n + 1 \in DOMAIN todo /\ todo[n + 1] = t[n] /\ n \in Nat
    BY <1>1
  <2>2. PICK k \in (n + 1) + 1 .. L :
          /\ Does(todo, k, "erase", todo[n + 1].v)
          /\ \A j \in (n + 1) + 1 .. k - 1 : ~ Does(todo, j, "insert", todo[n + 1].v)
    BY <1>2, <2>1 DEF Balanced, L
  <2>3. k \in 2 .. L /\ k - 1 \in n + 1 .. Len(t)
    BY <1>1, <2>1, <2>2
  <2>4. Does(t, k - 1, "erase", t[n].v)
    BY <1>1, <2>1, <2>2, <2>3 DEF Does
  <2>5. ASSUME NEW j \in n + 1 .. (k - 1) - 1
        PROVE  ~ Does(t, j, "insert", t[n].v)
    <3>1. j + 1 \in (n + 1) + 1 .. k - 1 /\ j \in 1 .. L - 1
      BY <1>1, <2>1, <2>2
    <3> QED BY <1>1, <2>1, <2>2, <3>1 DEF Does
  <2> QED BY <2>3, <2>4, <2>5
<1>3. ASSUME NEW n \in DOMAIN t, NEW k \in DOMAIN t, n < k, t[n].fn = "erase",
             Does(t, k, "erase", t[n].v)
      PROVE  \E j \in n + 1 .. k - 1 : Does(t, j, "insert", t[n].v)
  <2>1. /\ n + 1 \in DOMAIN todo /\ k + 1 \in DOMAIN todo /\ n + 1 < k + 1
        /\ todo[n + 1] = t[n] /\ todo[k + 1] = t[k]
        /\ n \in Nat /\ k \in 1 .. L - 1
    BY <1>1, <1>3
  <2>2. PICK j \in (n + 1) + 1 .. (k + 1) - 1 : Does(todo, j, "insert", todo[n + 1].v)
    BY <1>3, <2>1 DEF Balanced, Does
  <2>3. j \in 2 .. L /\ j - 1 \in n + 1 .. k - 1
    <3>1. j \in (n + 1) + 1 .. (k + 1) - 1
      BY <2>2
    <3>2. n \in Nat /\ k \in Nat /\ k <= L - 1 /\ L \in Nat
      BY <1>1, <2>1
    <3> QED BY <3>1, <3>2
  <2>4. Does(t, j - 1, "insert", t[n].v)
    BY <1>1, <2>1, <2>2, <2>3 DEF Does
  <2> QED BY <2>3, <2>4
<1>4. Balanced(t)
  BY <1>2, <1>3 DEF Balanced
<1>5. Switched(t) \subseteq Switched(todo)
  <2> SUFFICES ASSUME NEW n \in DOMAIN t, t[n].fn \in Switches
               PROVE  t[n].v \in Switched(todo)
    BY DEF Switched
  <2>1. n + 1 \in DOMAIN todo /\ todo[n + 1] = t[n]
    BY <1>1
  <2> QED BY <2>1 DEF Switched
<1> QED BY <1>4, <1>5 DEF t

\* From the m-th call on, x is unselected before it is selected.
ErasedFirst(todo, m, x) ==
  \E k \in m .. Len(todo) : /\ todo[k].fn = "erase" /\ todo[k].v = x
                            /\ \A j \in m .. k - 1 : ~ (todo[j].fn = "insert" /\ todo[j].v = x)

LEMMA OpenMeans ==
  ASSUME NEW todo, DOMAIN todo = 1 .. Len(todo), NEW x
  PROVE  x \in Open(todo) <=> ErasedFirst(todo, 1, x)
<1>1. ASSUME x \in Open(todo)
      PROVE  ErasedFirst(todo, 1, x)
  BY <1>1 DEF Open, ErasedFirst
<1>2. ASSUME NEW k \in 1 .. Len(todo), todo[k].fn = "erase", todo[k].v = x,
             \A j \in 1 .. k - 1 : ~ (todo[j].fn = "insert" /\ todo[j].v = x)
      PROVE  x \in Open(todo)
  BY <1>2 DEF Open
<1> QED BY <1>1, <1>2 DEF ErasedFirst

\* The blocks open after the first call are those open before it, but for the
\* one it selects or unselects.
LEMMA TailOpen ==
  ASSUME NEW todo, IsSeq(todo), todo # <<>>, Balanced(todo), NEW b, Head(todo).v = b
  PROVE  /\ Head(todo).fn \notin Switches => Open(Tail(todo)) = Open(todo)
         /\ Head(todo).fn = "insert" => Open(Tail(todo)) = Open(todo) \cup {b}
         /\ Head(todo).fn = "erase" =>
              Open(Tail(todo)) = Open(todo) \ {b} /\ b \in Switched(todo)
<1> DEFINE t == Tail(todo)
           L == Len(todo)
<1>1. /\ L \in Nat /\ L > 0 /\ DOMAIN todo = 1 .. L /\ DOMAIN t = 1 .. L - 1 /\ Len(t) = L - 1
      /\ \A n \in 2 .. L : n - 1 \in 1 .. L - 1 /\ t[n - 1] = todo[n]
      /\ \A n \in 1 .. L - 1 : n + 1 \in 2 .. L /\ t[n] = todo[n + 1]
      /\ Head(todo) = todo[1]
  BY InTail
<1> HIDE DEF t, L
<1>2. \A x : x \in Open(todo) <=> ErasedFirst(todo, 1, x)
  BY <1>1, OpenMeans DEF L
<1>4. \A x : x \in Open(t) <=> ErasedFirst(todo, 2, x)
  <2> TAKE x
  <2>1. ASSUME x \in Open(t)
        PROVE  ErasedFirst(todo, 2, x)
    <3>1. ErasedFirst(t, 1, x)
      BY <1>1, <2>1, OpenMeans
    <3>2. PICK k \in 1 .. L - 1 :
                /\ t[k].fn = "erase" /\ t[k].v = x
                /\ \A j \in 1 .. k - 1 : ~ (t[j].fn = "insert" /\ t[j].v = x)
      BY <1>1, <3>1 DEF ErasedFirst
    <3>3. k + 1 \in 2 .. L /\ todo[k + 1].fn = "erase" /\ todo[k + 1].v = x
      BY <1>1, <3>2
    <3>4. ASSUME NEW j \in 2 .. (k + 1) - 1
          PROVE  ~ (todo[j].fn = "insert" /\ todo[j].v = x)
      <4>1. j \in 2 .. L /\ j - 1 \in 1 .. k - 1
        BY <1>1, <3>2
      <4> QED BY <1>1, <3>2, <4>1
    <3> QED BY <3>3, <3>4 DEF ErasedFirst, L
  <2>2. ASSUME ErasedFirst(todo, 2, x)
        PROVE  x \in Open(t)
    <3>1. PICK k \in 2 .. L :
                /\ todo[k].fn = "erase" /\ todo[k].v = x
                /\ \A j \in 2 .. k - 1 : ~ (todo[j].fn = "insert" /\ todo[j].v = x)
      BY <2>2 DEF ErasedFirst, L
    <3>2. k - 1 \in 1 .. L - 1 /\ t[k - 1].fn = "erase" /\ t[k - 1].v = x
      BY <1>1, <3>1
    <3>3. ASSUME NEW j \in 1 .. (k - 1) - 1
          PROVE  ~ (t[j].fn = "insert" /\ t[j].v = x)
      <4>1. j \in 1 .. L - 1 /\ j + 1 \in 2 .. k - 1
        BY <1>1, <3>1
      <4> QED BY <1>1, <3>1, <4>1
    <3>4. ErasedFirst(t, 1, x)
      BY <1>1, <3>2, <3>3 DEF ErasedFirst
    <3> QED BY <1>1, <3>4, OpenMeans
  <2> QED BY <2>1, <2>2
<1>5. ASSUME NEW x, todo[1].fn \notin Switches \/ todo[1].v # x
      PROVE  x \in Open(t) <=> x \in Open(todo)
  <2>1. (todo[1].fn # "insert" /\ todo[1].fn # "erase") \/ todo[1].v # x
    BY <1>5 DEF Switches
  <2>2. ASSUME NEW k \in 2 .. L
        PROVE  (\A j \in 1 .. k - 1 : ~ (todo[j].fn = "insert" /\ todo[j].v = x))
                 <=> (\A j \in 2 .. k - 1 : ~ (todo[j].fn = "insert" /\ todo[j].v = x))
    BY <2>1
  <2>3. \A k \in 1 .. L : todo[k].fn = "erase" /\ todo[k].v = x => k \in 2 .. L
    BY <2>1
  <2>4. \A k \in 2 .. L : k \in 1 .. L
    OBVIOUS
  <2>5. ErasedFirst(todo, 1, x) <=> ErasedFirst(todo, 2, x)
    BY <2>2, <2>3, <2>4 DEF ErasedFirst, L
  <2> QED BY <1>2, <1>4, <2>5
<1>6. CASE Head(todo).fn \notin Switches
  <2>1. \A x : x \in Open(t) <=> x \in Open(todo)
    BY <1>1, <1>5, <1>6
  <2> QED BY <1>6, <2>1 DEF t, Switches
<1>7. CASE Head(todo).fn = "insert"
  <2>1. b \in Open(t)
    <3>1. 1 \in DOMAIN todo /\ todo[1].fn = "insert" /\ todo[1].v = b
      BY <1>1, <1>7
    <3>2. \E k \in 1 + 1 .. L : /\ Does(todo, k, "erase", b)
                                 /\ \A j \in 1 + 1 .. k - 1 : ~ Does(todo, j, "insert", b)
      BY <3>1 DEF Balanced, L
    <3>3. PICK k \in 2 .. L : /\ todo[k].fn = "erase" /\ todo[k].v = b
                              /\ \A j \in 2 .. k - 1 : ~ (todo[j].fn = "insert" /\ todo[j].v = b)
      BY <3>2 DEF Does
    <3>4. ErasedFirst(todo, 2, b)
      BY <3>3 DEF ErasedFirst, L
    <3> QED BY <1>4, <3>4
  <2>2. \A x : x # b => (x \in Open(t) <=> x \in Open(todo))
    BY <1>1, <1>5
  <2>3. Open(t) = Open(todo) \cup {b}
    BY <2>1, <2>2
  <2> QED BY <1>7, <2>3 DEF t, Switches
<1>8. CASE Head(todo).fn = "erase"
  <2>1. b \notin Open(t)
    <3> SUFFICES ASSUME NEW k \in 2 .. L, todo[k].fn = "erase", todo[k].v = b,
                        \A j \in 2 .. k - 1 : ~ (todo[j].fn = "insert" /\ todo[j].v = b)
                 PROVE  FALSE
      BY <1>4 DEF ErasedFirst, L
    <3>1. 1 \in DOMAIN todo /\ k \in DOMAIN todo /\ 1 < k
      BY <1>1
    <3>2. todo[1].fn = "erase" /\ todo[1].v = b /\ Does(todo, k, "erase", todo[1].v)
      BY <1>1, <1>8 DEF Does
    <3>3. \E j \in 1 + 1 .. k - 1 : Does(todo, j, "insert", b)
      BY <3>1, <3>2 DEF Balanced
    <3> QED BY <3>3 DEF Does
  <2>2. \A x : x # b => (x \in Open(t) <=> x \in Open(todo))
    BY <1>1, <1>5
  <2>3. Open(t) = Open(todo) \ {b}
    BY <2>1, <2>2
  <2>4. b \in Switched(todo)
    BY <1>1, <1>8 DEF Switched, Switches
  <2> QED BY <1>8, <2>3, <2>4 DEF t, Switches
<1> QED BY <1>6, <1>7, <1>8

\* Lists that select nothing that they do not unselect.
Closed(todo) == Balanced(todo) /\ Open(todo) = {}

LEMMA ClosedMore ==
  ASSUME NEW x, IsSeq(x), Closed(x), NEW b, NEW c, c.fn \notin Switches,
         NEW y, IsSeq(y), Len(y) = Len(x) + 3, \A i \in 1 .. Len(x) : y[i] = x[i],
         y[Len(x) + 1] = insertBlock(b), y[Len(x) + 2] = c, y[Len(x) + 3] = eraseBlock(b)
  PROVE  Closed(y) /\ Switched(y) \subseteq Switched(x) \cup {b}
<1> DEFINE L == Len(x)
<1>1. /\ L \in Nat /\ DOMAIN x = 1 .. L /\ DOMAIN y = 1 .. L + 3 /\ Len(y) = L + 3
      /\ \A i \in 1 .. L : y[i] = x[i]
  BY SeqShape
<1>2. /\ y[L + 1].fn = "insert" /\ y[L + 1].v = b /\ y[L + 3].fn = "erase" /\ y[L + 3].v = b
      /\ y[L + 2].fn # "insert" /\ y[L + 2].fn # "erase"
  BY CallFields DEF insertBlock, eraseBlock, Switches
<1> HIDE DEF L
<1>3. \A i \in DOMAIN y : i \in 1 .. L \/ i = L + 1 \/ i = L + 2 \/ i = L + 3
  BY <1>1
<1>4. ASSUME NEW n \in DOMAIN y, y[n].fn = "insert"
      PROVE  \E k \in n + 1 .. Len(y) :
               /\ Does(y, k, "erase", y[n].v)
               /\ \A j \in n + 1 .. k - 1 : ~ Does(y, j, "insert", y[n].v)
  <2>1. CASE n \in 1 .. L
    <3>1. n \in DOMAIN x /\ x[n] = y[n] /\ n \in Nat
      BY <1>1, <2>1
    <3>2. PICK k \in n + 1 .. L : /\ Does(x, k, "erase", x[n].v)
                                  /\ \A j \in n + 1 .. k - 1 : ~ Does(x, j, "insert", x[n].v)
      BY <1>4, <3>1 DEF Closed, Balanced, L
    <3>3. k \in 1 .. L /\ k \in n + 1 .. Len(y) /\ \A j \in n + 1 .. k - 1 : j \in 1 .. L
      BY <1>1, <3>1, <3>2
    <3> QED BY <1>1, <3>1, <3>2, <3>3 DEF Does
  <2>2. CASE n = L + 1
    <3>1. L + 3 \in n + 1 .. Len(y) /\ \A j \in n + 1 .. (L + 3) - 1 : j = L + 2
      BY <1>1, <2>2
    <3>2. Does(y, L + 3, "erase", y[n].v)
      BY <1>2, <2>2 DEF Does
    <3>3. \A j \in n + 1 .. (L + 3) - 1 : ~ Does(y, j, "insert", y[n].v)
      BY <1>2, <3>1 DEF Does
    <3> QED BY <3>1, <3>2, <3>3
  <2> QED BY <1>2, <1>3, <1>4, <2>1, <2>2
<1>5. ASSUME NEW n \in DOMAIN y, NEW k \in DOMAIN y, n < k, y[n].fn = "erase",
             Does(y, k, "erase", y[n].v)
      PROVE  \E j \in n + 1 .. k - 1 : Does(y, j, "insert", y[n].v)
  <2>1. n \in 1 .. L
    BY <1>1, <1>2, <1>3, <1>5
  <2>2. CASE k \in 1 .. L
    <3>1. n \in DOMAIN x /\ k \in DOMAIN x /\ x[n] = y[n] /\ x[k] = y[k]
      BY <1>1, <2>1, <2>2
    <3>2. PICK j \in n + 1 .. k - 1 : Does(x, j, "insert", x[n].v)
      BY <1>5, <3>1 DEF Closed, Balanced, Does
    <3>3. j \in 1 .. L
      BY <1>1, <2>1, <2>2, <3>2
    <3> QED BY <1>1, <3>1, <3>2, <3>3 DEF Does
  <2>3. CASE k = L + 3
    <3>1. L + 1 \in n + 1 .. k - 1
      BY <1>1, <2>1, <2>3
    <3>2. y[n].v = b
      BY <1>2, <1>5, <2>3 DEF Does
    <3>3. Does(y, L + 1, "insert", y[n].v)
      BY <1>2, <3>2 DEF Does
    <3> QED BY <3>1, <3>3
  <2> QED BY <1>2, <1>3, <1>5, <2>2, <2>3 DEF Does
<1>6. Balanced(y)
  BY <1>4, <1>5 DEF Balanced
<1>7. Open(y) = {}
  <2> SUFFICES ASSUME NEW k \in DOMAIN y, y[k].fn = "erase",
                      \A j \in 1 .. k - 1 : ~ (y[j].fn = "insert" /\ y[j].v = y[k].v)
               PROVE  FALSE
    BY DEF Open
  <2>1. CASE k \in 1 .. L
    <3>1. k \in DOMAIN x /\ x[k] = y[k] /\ \A j \in 1 .. k - 1 : x[j] = y[j]
      BY <1>1, <2>1
    <3>2. x[k].v \in Open(x)
      BY <3>1 DEF Open
    <3> QED BY <3>2 DEF Closed
  <2>2. CASE k = L + 3
    <3>1. L + 1 \in 1 .. k - 1
      BY <1>1, <2>2
    <3> QED BY <1>2, <2>2, <3>1
  <2> QED BY <1>2, <1>3, <2>1, <2>2
<1>8. Switched(y) \subseteq Switched(x) \cup {b}
  <2> SUFFICES ASSUME NEW n \in DOMAIN y, y[n].fn \in Switches
               PROVE  y[n].v \in Switched(x) \cup {b}
    BY DEF Switched
  <2>1. CASE n \in 1 .. L
    <3>1. n \in DOMAIN x /\ x[n] = y[n]
      BY <1>1, <2>1
    <3> QED BY <3>1 DEF Switched
  <2>2. CASE n = L + 1 \/ n = L + 2 \/ n = L + 3
    BY <1>2, <2>2 DEF Switches
  <2> QED BY <1>3, <2>1, <2>2
<1> QED BY <1>6, <1>7, <1>8 DEF Closed

\* Wherever nothing is done to blocks, one list is like another.
LEMMA PlainAlike ==
  ASSUME NEW x, NEW y, Plain(x), Plain(y)
  PROVE  Alike(x, y)
BY PlainSelectsNone DEF Alike

\* The calls of a stack after a step, in place of those before it.
LEMMA SelectedFrame ==
  ASSUME NEW s, NEW t, NEW cs, NEW ds, NEW n \in Nat, SelectedOK(s, cs),
         Len(s) \in Nat, Len(t) \in Nat, Len(cs) \in Nat, Len(ds) \in Nat,
         n <= Len(s), n <= Len(t),
         \A i \in 1 .. n : t[i].level = s[i].level /\ Alike(s[i].todo, t[i].todo),
         \A i \in n + 1 .. Len(s) : Open(s[i].todo) = {},
         \A j \in n + 1 .. Len(t) :
           /\ Closed(t[j].todo)
           /\ \A i \in 1 .. n : s[i].level = t[j].level => Open(s[i].todo) \cap Switched(t[j].todo) = {},
         \A k \in 1 .. Len(ds) :
           \/ k \in 1 .. Len(cs) /\ ds[k].selectedBlock = cs[k].selectedBlock
           \/ ds[k].selectedBlock = {} /\ \A i \in 1 .. n : s[i].level # k
  PROVE  SelectedOK(t, ds)
<1>1. \A j \in 1 .. Len(t) : j \in 1 .. n \/ j \in n + 1 .. Len(t)
  OBVIOUS
<1>2. \A i \in 1 .. n : i \in 1 .. Len(s)
  OBVIOUS
<1>3. \A j \in 1 .. Len(t) : Balanced(t[j].todo)
  BY <1>1, <1>2 DEF SelectedOK, Alike, Closed
<1>4. ASSUME NEW i \in 1 .. Len(t), NEW j \in 1 .. Len(t), i < j, t[i].level = t[j].level
      PROVE  Open(t[i].todo) \cap Switched(t[j].todo) = {}
  <2>1. CASE i \in n + 1 .. Len(t)
    BY <2>1 DEF Closed
  <2>2. CASE i \in 1 .. n /\ j \in n + 1 .. Len(t)
    <3>1. Open(t[i].todo) = Open(s[i].todo) /\ s[i].level = t[i].level
      BY <2>2 DEF Alike
    <3> QED BY <1>4, <2>2, <3>1
  <2>3. CASE i \in 1 .. n /\ j \in 1 .. n
    <3>1. /\ Open(t[i].todo) = Open(s[i].todo) /\ Switched(t[j].todo) \subseteq Switched(s[j].todo)
          /\ s[i].level = s[j].level
      BY <1>4, <2>3 DEF Alike
    <3>2. Open(s[i].todo) \cap Switched(s[j].todo) = {}
      BY <1>2, <1>4, <2>3, <3>1 DEF SelectedOK
    <3> QED BY <3>1, <3>2
  <2> QED BY <1>1, <2>1, <2>2, <2>3
<1>5. ASSUME NEW k \in 1 .. Len(ds), NEW i \in 1 .. Len(t), t[i].level = k
      PROVE  Open(t[i].todo) \subseteq ds[k].selectedBlock
  <2>1. CASE i \in n + 1 .. Len(t)
    BY <2>1 DEF Closed
  <2>2. CASE i \in 1 .. n
    <3>1. Open(t[i].todo) = Open(s[i].todo) /\ s[i].level = k
      BY <1>5, <2>2 DEF Alike
    <3>2. k \in 1 .. Len(cs) /\ ds[k].selectedBlock = cs[k].selectedBlock
      BY <2>2, <3>1
    <3> QED BY <1>2, <2>2, <3>1, <3>2 DEF SelectedOK
  <2> QED BY <1>1, <2>1, <2>2
<1>6. ASSUME NEW k \in 1 .. Len(ds), NEW b \in ds[k].selectedBlock
      PROVE  \E i \in 1 .. Len(t) : t[i].level = k /\ b \in Open(t[i].todo)
  <2>1. k \in 1 .. Len(cs) /\ ds[k].selectedBlock = cs[k].selectedBlock
    BY <1>6
  <2>2. PICK i \in 1 .. Len(s) : s[i].level = k /\ b \in Open(s[i].todo)
    BY <1>6, <2>1 DEF SelectedOK
  <2>3. i \in 1 .. n
    <3>1. Open(s[i].todo) # {}
      BY <2>2
    <3>2. i \in 1 .. n \/ i \in n + 1 .. Len(s)
      OBVIOUS
    <3> QED BY <3>1, <3>2
  <2>4. i \in 1 .. Len(t) /\ t[i].level = k /\ Open(t[i].todo) = Open(s[i].todo)
    BY <2>2, <2>3 DEF Alike
  <2> QED BY <2>2, <2>4
<1> QED BY <1>3, <1>4, <1>5, <1>6 DEF SelectedOK

\* What a phi is traced with selects and unselects its blocks one by one, and
\* only if none of them is selected.
LEMMA IncomingClosed ==
  ASSUME IsModule(M), NEW call, IsCall(call), call.fn \notin Switches, call.v \in Insts(M),
         NEW todo, todo \in Incoming(call)
  PROVE  Closed(todo) /\ Switched(todo) \cap Self.selectedBlock = {}
<1> DEFINE phi == Inst(M, call.v)
           D == DOMAIN phi.args
           b(i) == <<call.v[2], phi.at[i]>>
           w(i) == [call EXCEPT !.v = phi.args[i]]
           B == {b(i) : i \in D}
           S == {insertBlock(b(i)) : i \in D} \cup {w(i) : i \in D} \cup {eraseBlock(b(i)) : i \in D}
           seqs == [i \in D |-> <<insertBlock(b(i)), w(i), eraseBlock(b(i))>>]
           L == Len(phi.args)
<1>1. L \in Nat /\ D = 1 .. L
  BY InstShape
<1>2. \A i \in D : w(i).fn = call.fn
  BY Retraced
<1>3. \/ \E i \in D : todo = <<w(i)>>
      \/ todo = FlattenSeq(seqs) /\ \A i \in D : b(i) \notin Self.selectedBlock
  BY DEF Incoming
<1>4. CASE \E i \in D : todo = <<w(i)>>
  <2>1. PICK i \in D : todo = <<w(i)>>
    BY <1>4
  <2> HIDE DEF w
  <2>2. DOMAIN todo = {1} /\ todo[1] = w(i)
    BY <2>1
  <2>3. Plain(todo)
    BY <1>2, <2>2 DEF Plain
  <2> QED BY <2>3, PlainSelectsNone DEF Closed
<1>5. CASE todo = FlattenSeq(seqs) /\ \A i \in D : b(i) \notin Self.selectedBlock
  <2>1. \A i \in D : seqs[i] \in Seq(S) /\ IsSeq(seqs[i]) /\ Len(seqs[i]) = 3
          /\ seqs[i][1] = insertBlock(b(i)) /\ seqs[i][2] = w(i) /\ seqs[i][3] = eraseBlock(b(i))
    <3> TAKE i \in D
    <3> DEFINE x == insertBlock(b(i))
               y == w(i)
               z == eraseBlock(b(i))
    <3>1. x \in S /\ y \in S /\ z \in S
      OBVIOUS
    <3>2. seqs[i] = <<x, y, z>>
      OBVIOUS
    <3> HIDE DEF S, x, y, z, seqs
    <3>3. seqs[i] \in Seq(S) /\ Len(seqs[i]) = 3 /\ seqs[i][1] = x /\ seqs[i][2] = y /\ seqs[i][3] = z
      BY <3>1, <3>2
    <3> QED BY <3>3, SeqOfAny DEF x, y, z
  <2>2. IsSeq(seqs) /\ Len(seqs) = L
    <3> DEFINE R == {seqs[i] : i \in D}
    <3> HIDE DEF b, w
    <3>1. seqs \in [1 .. L -> R]
      BY <1>1
    <3>2. Len(seqs) = L
      BY <1>1
    <3> HIDE DEF R, seqs
    <3>3. seqs \in Seq(R)
      BY <1>1, <3>1
    <3> QED BY <3>2, <3>3, SeqOfAny
  <2> HIDE DEF S, seqs, w, b, L, D
  <2>3. \A i \in 1 .. Len(seqs) : seqs[i] \in Seq(S)
    BY <1>1, <2>1, <2>2
  <2>4. PICK g : /\ g[0] = <<>> /\ g[Len(seqs)] = FlattenSeq(seqs)
                 /\ \A i \in Nat : g[i] \in Seq(S)
                 /\ \A i \in Nat : i < Len(seqs) => g[i + 1] = g[i] \o seqs[i + 1]
    BY <2>2, <2>3, Flattened
  <2> DEFINE U == {i \in Nat : i <= L => Closed(g[i]) /\ Switched(g[i]) \subseteq B}
  <2>5. 0 \in U
    <3>1. IsSeq(<<>>) /\ Len(<<>>) = 0
      BY SeqOfAny, EmptySeq
    <3>2. DOMAIN <<>> = {}
      BY <3>1, SeqShape
    <3>3. Plain(<<>>)
      BY <3>2 DEF Plain
    <3>4. Closed(g[0]) /\ Switched(g[0]) = {}
      BY <2>4, <3>3, PlainSelectsNone DEF Closed
    <3> QED BY <3>4
  <2>6. ASSUME NEW i \in Nat, i \in U
        PROVE  i + 1 \in U
    <3> SUFFICES ASSUME i + 1 <= L
                 PROVE  Closed(g[i + 1]) /\ Switched(g[i + 1]) \subseteq B
      OBVIOUS
    <3> DEFINE x == g[i]
               z == seqs[i + 1]
               y == g[i + 1]
    <3>1. i + 1 \in D /\ i < Len(seqs) /\ i <= L
      BY <1>1, <2>2
    <3>2. IsSeq(x) /\ IsSeq(y) /\ y = x \o z /\ Closed(x) /\ Switched(x) \subseteq B
      <4>1. i + 1 \in Nat
        OBVIOUS
      <4>2. g[i] \in Seq(S) /\ g[i + 1] \in Seq(S)
        BY <2>4, <4>1
      <4>3. g[i + 1] = g[i] \o seqs[i + 1]
        BY <2>4, <3>1
      <4>4. Closed(g[i]) /\ Switched(g[i]) \subseteq B
        BY <2>6, <3>1
      <4> HIDE DEF B, U
      <4> QED BY <4>2, <4>3, <4>4, SeqOfAny
    <3>3. /\ IsSeq(z) /\ Len(z) = 3 /\ z[1] = insertBlock(b(i + 1)) /\ z[2] = w(i + 1)
          /\ z[3] = eraseBlock(b(i + 1))
      BY <2>1, <3>1
    <3> HIDE DEF x, y, z, U
    <3>4. /\ Len(x) \in Nat /\ Len(y) = Len(x) + 3
          /\ \A n \in 1 .. Len(x) + 3 : y[n] = IF n <= Len(x) THEN x[n] ELSE z[n - Len(x)]
      BY <3>2, <3>3, Joined, SeqShape
    <3>5. \A n \in 1 .. Len(x) : y[n] = x[n]
      BY <3>4
    <3>6. y[Len(x) + 1] = z[1] /\ y[Len(x) + 2] = z[2] /\ y[Len(x) + 3] = z[3]
      BY <3>4
    <3>7. w(i + 1).fn \notin Switches
      BY <1>2, <3>1
    <3>8. /\ y[Len(x) + 1] = insertBlock(b(i + 1)) /\ y[Len(x) + 2] = w(i + 1)
          /\ y[Len(x) + 3] = eraseBlock(b(i + 1))
      BY <3>3, <3>6
    <3>9. Closed(y) /\ Switched(y) \subseteq Switched(x) \cup {b(i + 1)}
      BY <3>2, <3>4, <3>5, <3>7, <3>8, ClosedMore
    <3>10. b(i + 1) \in B
      BY <3>1
    <3> QED BY <3>2, <3>9, <3>10 DEF y
  <2>7. L \in U
    <3> HIDE DEF U
    <3>1. Nat \subseteq U
      BY <2>5, <2>6, Induction
    <3> QED BY <1>1, <3>1
  <2>8. Closed(todo) /\ Switched(todo) \subseteq B
    BY <1>1, <1>5, <2>2, <2>4, <2>7
  <2> QED BY <1>5, <2>8
<1> QED BY <1>3, <1>4, <1>5

-----------------------------------------------------------------------------
(***************************************************************************)
(* The blocks selected after each step.                                    *)
(***************************************************************************)
\* Every collector that goes on has the blocks it had.
SameSelected ==
  /\ Len(collectors') \in Nat /\ Len(collectors') <= Len(collectors)
  /\ \A k \in 1 .. Len(collectors') : collectors'[k].selectedBlock = collectors[k].selectedBlock

Blocks == TypesOK /\ SelectedOK(stack, collectors)

LEMMA SelectedKept ==
  ASSUME Blocks, Kept(stack, stack'), SameSelected,
         \A i \in 1 .. Len(stack) : Alike(stack[i].todo, stack'[i].todo)
  PROVE  SelectedOK(stack', collectors')
<1> DEFINE n == Len(stack)
<1>1. n \in Nat /\ Len(stack') = n /\ Len(collectors) \in Nat /\ Len(collectors') \in Nat
  BY Acting, SeqShape DEF Blocks, Kept, TypesOK, StackOK, CollectorsOK, SameSelected
<1>2. \A i \in 1 .. n : stack'[i].level = stack[i].level
  BY DEF Kept, Later
<1>3. \A k \in 1 .. Len(collectors') :
        k \in 1 .. Len(collectors) /\ collectors'[k].selectedBlock = collectors[k].selectedBlock
  BY <1>1 DEF SameSelected
<1>4. (\A i \in n + 1 .. Len(stack) : FALSE) /\ (\A i \in n + 1 .. Len(stack') : FALSE)
  BY <1>1
<1>5. n <= Len(stack) /\ n <= Len(stack')
  BY <1>1
<1> HIDE DEF n
<1>6. SelectedOK(stack, collectors) /\ Len(stack) \in Nat /\ Len(stack') \in Nat
  BY <1>1 DEF Blocks, n
<1>7. \A i \in 1 .. n : stack'[i].level = stack[i].level /\ Alike(stack[i].todo, stack'[i].todo)
  BY <1>2 DEF n
<1> QED BY <1>1, <1>3, <1>4, <1>5, <1>6, <1>7, SelectedFrame

LEMMA SelectedShrunk ==
  ASSUME Blocks, stack # <<>>, Shrunk(stack, stack'), SameSelected, Open(Top.todo) = {},
         \A i \in 1 .. Len(stack) - 1 : Alike(stack[i].todo, stack'[i].todo)
  PROVE  SelectedOK(stack', collectors')
<1> DEFINE n == Len(stack) - 1
<1>1. /\ n \in Nat /\ Len(stack) = n + 1 /\ Len(stack') = n /\ Len(collectors) \in Nat
      /\ Len(collectors') \in Nat /\ Top = stack[n + 1]
  <2>1. Len(stack) \in Nat /\ Len(stack) > 0 /\ Top = stack[Len(stack)]
    BY Acting DEF Blocks
  <2>2. Len(collectors) \in Nat /\ Len(collectors') \in Nat
    BY SeqShape DEF Blocks, TypesOK, StackOK, CollectorsOK, SameSelected
  <2>3. (Len(stack) - 1) + 1 = Len(stack) /\ Len(stack') = Len(stack) - 1
    BY <2>1 DEF Shrunk
  <2> QED BY <2>1, <2>2, <2>3
<1>2. \A i \in 1 .. n : stack'[i].level = stack[i].level
  BY DEF Shrunk, Later
<1>3. \A k \in 1 .. Len(collectors') :
        k \in 1 .. Len(collectors) /\ collectors'[k].selectedBlock = collectors[k].selectedBlock
  BY <1>1 DEF SameSelected
<1>4. (\A i \in n + 1 .. Len(stack) : i = n + 1) /\ (\A i \in n + 1 .. Len(stack') : FALSE)
  BY <1>1
<1>5. n <= Len(stack) /\ n <= Len(stack')
  BY <1>1
<1>6. \A i \in n + 1 .. Len(stack) : Open(stack[i].todo) = {}
  BY <1>1, <1>4
<1>7. \A i \in 1 .. n : stack'[i].level = stack[i].level /\ Alike(stack[i].todo, stack'[i].todo)
  BY <1>2
<1> HIDE DEF n
<1>8. SelectedOK(stack, collectors) /\ Len(stack) \in Nat /\ Len(stack') \in Nat
  BY <1>1 DEF Blocks
<1> QED BY <1>1, <1>3, <1>4, <1>5, <1>6, <1>7, <1>8, SelectedFrame

LEMMA SelectedGrown ==
  ASSUME Blocks, NEW call, NEW level, Grown(stack, stack', call, level),
         NEW todo, stack'[Len(stack) + 1].todo = todo, Closed(todo),
         \A i \in 1 .. Len(stack) : Alike(stack[i].todo, stack'[i].todo),
         \/ SameSelected /\ level \in 1 .. Len(collectors)
              /\ Switched(todo) \cap collectors[level].selectedBlock = {}
         \/ level = Len(collectors) + 1 /\ collectors' = Append(collectors, NewCollector)
  PROVE  SelectedOK(stack', collectors')
<1> DEFINE n == Len(stack)
<1>1. n \in Nat /\ Len(stack') = n + 1 /\ Len(collectors) \in Nat /\ IsSeq(collectors)
  BY Acting, SeqShape DEF Blocks, Grown, TypesOK, StackOK, CollectorsOK
<1>2. \A i \in 1 .. n : stack'[i].level = stack[i].level
  BY DEF Grown, Later
<1>3. stack'[n + 1].level = level /\ stack'[n + 1].todo = todo
  BY <1>1 DEF Grown
<1>4. (\A i \in n + 1 .. Len(stack) : FALSE) /\ (\A i \in n + 1 .. Len(stack') : i = n + 1)
  BY <1>1
<1>5. n <= Len(stack) /\ n <= Len(stack') /\ Len(stack) \in Nat /\ Len(stack') \in Nat
  BY <1>1
<1>6. SelectedOK(stack, collectors)
  BY DEF Blocks
<1>7. \A i \in 1 .. n : stack[i].level \in 1 .. Len(collectors)
  BY DEF Blocks, TypesOK, StackOK, LevelsOK
<1>8. CASE SameSelected /\ level \in 1 .. Len(collectors)
             /\ Switched(todo) \cap collectors[level].selectedBlock = {}
  <2>1. \A k \in 1 .. Len(collectors') :
          k \in 1 .. Len(collectors) /\ collectors'[k].selectedBlock = collectors[k].selectedBlock
    BY <1>1, <1>8 DEF SameSelected
  <2>2. \A i \in 1 .. n : stack[i].level = level => Open(stack[i].todo) \cap Switched(todo) = {}
    BY <1>6, <1>8 DEF SelectedOK
  <2>3. \A j \in n + 1 .. Len(stack') :
          /\ Closed(stack'[j].todo)
          /\ \A i \in 1 .. n : stack[i].level = stack'[j].level =>
               Open(stack[i].todo) \cap Switched(stack'[j].todo) = {}
    BY <1>3, <1>4, <2>2
  <2>4. Len(collectors') \in Nat
    BY <1>8 DEF SameSelected
  <2>5. \A i \in 1 .. n : stack'[i].level = stack[i].level /\ Alike(stack[i].todo, stack'[i].todo)
    BY <1>2
  <2> HIDE DEF n
  <2> QED BY <1>1, <1>4, <1>5, <1>6, <2>1, <2>3, <2>4, <2>5, SelectedFrame
<1>9. CASE level = Len(collectors) + 1 /\ collectors' = Append(collectors, NewCollector)
  <2>1. /\ Len(collectors') = Len(collectors) + 1
        /\ \A k \in 1 .. Len(collectors) : collectors'[k] = collectors[k]
        /\ collectors'[Len(collectors) + 1] = NewCollector
    BY <1>1, <1>9, Pushed
  <2>2. NewCollector.selectedBlock = {}
    BY DEF NewCollector
  <2>3. \A i \in 1 .. n : stack[i].level # level
    BY <1>1, <1>7, <1>9
  <2>4. \A k \in 1 .. Len(collectors') : k \in 1 .. Len(collectors) \/ k = Len(collectors) + 1
    BY <1>1, <2>1
  <2>5. \A k \in 1 .. Len(collectors') :
          \/ k \in 1 .. Len(collectors) /\ collectors'[k].selectedBlock = collectors[k].selectedBlock
          \/ collectors'[k].selectedBlock = {} /\ \A i \in 1 .. n : stack[i].level # k
    BY <1>9, <2>1, <2>2, <2>3, <2>4
  <2>6. \A j \in n + 1 .. Len(stack') :
          /\ Closed(stack'[j].todo)
          /\ \A i \in 1 .. n : stack[i].level = stack'[j].level =>
               Open(stack[i].todo) \cap Switched(stack'[j].todo) = {}
    BY <1>3, <1>4, <2>3
  <2>7. Len(collectors') \in Nat
    BY <1>1, <2>1
  <2>8. \A i \in 1 .. n : stack'[i].level = stack[i].level /\ Alike(stack[i].todo, stack'[i].todo)
    BY <1>2
  <2> HIDE DEF n
  <2> QED BY <1>1, <1>4, <1>5, <1>6, <2>5, <2>6, <2>7, <2>8, SelectedFrame
<1> QED BY <1>8, <1>9

LEMMA SameInside ==
  ASSUME TypesOK, stack # <<>>, NEW c, InCollector(c), c.selectedBlock = Self.selectedBlock
  PROVE  SameSelected
<1>1. InnermostIs(c) /\ Len(collectors) \in Nat /\ Self = collectors[Len(collectors)]
  BY SelfTypes, Innermost DEF TypesOK
<1>2. Len(collectors') = Len(collectors)
  BY <1>1 DEF InnermostIs
<1>3. \A k \in 1 .. Len(collectors) : k \in 1 .. Len(collectors) - 1 \/ k = Len(collectors)
  BY <1>1
<1>4. \A k \in 1 .. Len(collectors') : collectors'[k].selectedBlock = collectors[k].selectedBlock
  BY <1>1, <1>2, <1>3 DEF InnermostIs
<1> QED BY <1>1, <1>2, <1>4 DEF SameSelected

LEMMA SameOutside ==
  ASSUME TypesOK, UNCHANGED collectors
  PROVE  SameSelected
<1>1. Len(collectors) \in Nat
  BY SeqShape DEF TypesOK, StackOK, CollectorsOK
<1> QED BY <1>1 DEF SameSelected

\* What is left to do once the next call is made.
LEMMA CalledTodos ==
  ASSUME TypesOK, NEW fn, Calling(fn)
  PROVE  /\ Len(stack) \in 1 .. Len(stack) /\ Top = stack[Len(stack)]
         /\ IsSeq(Top.todo) /\ Top.todo # <<>> /\ Head(Top.todo).fn = fn
         /\ Called[Len(stack)].todo = Tail(Top.todo)
         /\ \A i \in 1 .. Len(stack) - 1 : Called[i].todo = stack[i].todo
<1> DEFINE L == Len(stack)
           b == [Top EXCEPT !.todo = Tail(Top.todo)]
<1>1. stack # <<>> /\ Top.todo # <<>> /\ Head(Top.todo).fn = fn
  BY DEF Calling
<1>2. /\ L \in 1 .. L /\ L \in Nat /\ Top = stack[L] /\ IsActivation(Top) /\ IsSeq(Top.todo)
      /\ IsSeq(stack)
  BY <1>1, Acting DEF BodyOK, TodoOK, IsStack
<1>3. Called = [stack EXCEPT ![L] = b]
  BY <1>2 DEF Called, Depth
<1>4. b.todo = Tail(Top.todo)
  BY <1>2, FieldValues
<1> HIDE DEF b
<1>5. \A i \in 1 .. L : Called[i] = IF i = L THEN b ELSE stack[i]
  BY <1>2, <1>3, Replaced
<1>6. \A i \in 1 .. L - 1 : i \in 1 .. L /\ i # L
  BY <1>2
<1> QED BY <1>1, <1>2, <1>4, <1>5, <1>6

LEMMA CalledAlike ==
  ASSUME Blocks, NEW fn, Calling(fn), fn \notin Switches
  PROVE  \A i \in 1 .. Len(stack) : Alike(stack[i].todo, Called[i].todo)
<1> DEFINE L == Len(stack)
           t == Top.todo
<1>1. /\ L \in 1 .. L /\ Top = stack[L] /\ IsSeq(t) /\ t # <<>> /\ Head(t).fn = fn
      /\ Called[L].todo = Tail(t) /\ \A i \in 1 .. L - 1 : Called[i].todo = stack[i].todo
  BY CalledTodos DEF Blocks
<1>2. Balanced(t)
  BY <1>1 DEF Blocks, SelectedOK
<1>3. Alike(t, Tail(t))
  <2>1. Balanced(Tail(t)) /\ Switched(Tail(t)) \subseteq Switched(t)
    BY <1>1, <1>2, TailBalanced
  <2>2. Open(Tail(t)) = Open(t)
    BY <1>1, <1>2, TailOpen
  <2> QED BY <2>1, <2>2 DEF Alike
<1>4. \A i \in 1 .. L - 1 : Alike(stack[i].todo, Called[i].todo)
  BY <1>1 DEF Alike
<1>5. \A i \in 1 .. L : i \in 1 .. L - 1 \/ i = L
  BY <1>1
<1> QED BY <1>1, <1>3, <1>4, <1>5

\* A block is selected or unselected.
LEMMA SwitchSelected ==
  ASSUME Blocks, SelectBlock \/ UnselectBlock
  PROVE  SelectedOK(stack', collectors')
<1> DEFINE L == Len(stack)
           t == Top.todo
           b == Head(t).v
           K == Len(collectors)
           old == Self.selectedBlock
<1>1. PICK fn \in Switches : /\ Calling(fn) /\ stack' = Called
                             /\ fn = "insert" => InCollector([Self EXCEPT !.selectedBlock = old \cup {b}])
                             /\ fn = "erase" => InCollector([Self EXCEPT !.selectedBlock = old \ {b}])
  BY DEF SelectBlock, UnselectBlock, Switches
<1>2. /\ L \in 1 .. L /\ Top = stack[L] /\ IsSeq(t) /\ t # <<>> /\ Head(t).fn = fn
      /\ stack'[L].todo = Tail(t) /\ \A i \in 1 .. L - 1 : stack'[i].todo = stack[i].todo
  BY <1>1, CalledTodos DEF Blocks
<1>3. stack # <<>> /\ Kept(stack, stack')
  BY <1>1, NextCall DEF Blocks
<1>4. L \in Nat /\ Len(stack') = L /\ \A i \in 1 .. L : stack'[i].level = stack[i].level
  BY <1>3, Acting DEF Blocks, Kept, Later
<1>5. /\ \A i \in 1 .. L : Balanced(stack[i].todo)
      /\ \A i, j \in 1 .. L :
           i < j /\ stack[i].level = stack[j].level => Open(stack[i].todo) \cap Switched(stack[j].todo) = {}
      /\ \A k \in 1 .. K, i \in 1 .. L :
           stack[i].level = k => Open(stack[i].todo) \subseteq collectors[k].selectedBlock
      /\ \A k \in 1 .. K : \A x \in collectors[k].selectedBlock :
           \E i \in 1 .. L : stack[i].level = k /\ x \in Open(stack[i].todo)
  BY DEF Blocks, SelectedOK
<1>6. Balanced(t) /\ Balanced(Tail(t)) /\ Switched(Tail(t)) \subseteq Switched(t)
  BY <1>2, <1>5, TailBalanced
<1>7. PICK new : /\ collectors'[K].selectedBlock = new /\ Len(collectors') = K /\ K \in Nat
                 /\ \A k \in 1 .. K - 1 : collectors'[k] = collectors[k]
                 /\ (fn = "insert" /\ new = old \cup {b}) \/ (fn = "erase" /\ new = old \ {b})
  <2>1. ASSUME NEW new, InCollector([Self EXCEPT !.selectedBlock = new])
        PROVE  /\ collectors'[K].selectedBlock = new /\ Len(collectors') = K /\ K \in Nat
               /\ \A k \in 1 .. K - 1 : collectors'[k] = collectors[k]
    <3> DEFINE c == [Self EXCEPT !.selectedBlock = new]
    <3>1. c.selectedBlock = new
      BY <1>3, SelfTypes, CollectorFields DEF Blocks
    <3> HIDE DEF c
    <3>2. InnermostIs(c) /\ K \in Nat
      BY <1>3, <2>1, SelfTypes, Innermost DEF Blocks, TypesOK, c
    <3> QED BY <3>1, <3>2 DEF InnermostIs
  <2>2. CASE fn = "insert"
    BY <1>1, <2>1, <2>2
  <2>3. CASE fn = "erase"
    BY <1>1, <2>1, <2>3
  <2> QED BY <2>2, <2>3 DEF Switches
<1>8. K \in 1 .. K /\ old = collectors[K].selectedBlock /\ stack[L].level = K
  <2>1. Len(stack) > 0 /\ Len(collectors) \in Nat /\ Len(collectors) > 0 /\ Self = collectors[K]
    BY <1>3, SelfTypes DEF Blocks
  <2>2. stack[L].level = K
    BY <2>1 DEF Blocks, TypesOK, StackOK, LevelsOK
  <2> QED BY <2>1, <2>2
<1>9. /\ fn = "insert" => Open(Tail(t)) = Open(t) \cup {b}
      /\ fn = "erase" => Open(Tail(t)) = Open(t) \ {b} /\ b \in Switched(t)
  BY <1>2, <1>6, TailOpen
<1> HIDE DEF L, t, b, K, old
<1>10. \A i \in 1 .. L : i \in 1 .. L - 1 \/ i = L
  BY <1>4
<1>11. \A k \in 1 .. K : k \in 1 .. K - 1 \/ k = K
  BY <1>7
<1>12. stack[L].todo = t
  BY <1>2 DEF t
<1>13. \A i \in 1 .. L : Balanced(stack'[i].todo)
  BY <1>2, <1>5, <1>6, <1>10
<1>14. ASSUME NEW i \in 1 .. L, NEW j \in 1 .. L, i < j, stack'[i].level = stack'[j].level
       PROVE  Open(stack'[i].todo) \cap Switched(stack'[j].todo) = {}
  <2>1. i \in 1 .. L - 1
    BY <1>4, <1>14
  <2>2. stack'[i].todo = stack[i].todo /\ Switched(stack'[j].todo) \subseteq Switched(stack[j].todo)
    BY <1>2, <1>6, <1>10, <1>12, <2>1
  <2>3. Open(stack[i].todo) \cap Switched(stack[j].todo) = {}
    BY <1>4, <1>5, <1>14
  <2> QED BY <2>2, <2>3
<1>15. ASSUME NEW i \in 1 .. L
       PROVE  Open(stack'[i].todo) \subseteq collectors'[stack'[i].level].selectedBlock
  <2>1. stack'[i].level = stack[i].level /\ stack[i].level \in 1 .. K
    BY <1>4 DEF Blocks, TypesOK, StackOK, LevelsOK, L, K
  <2>2. Open(stack[i].todo) \subseteq collectors[stack[i].level].selectedBlock
    BY <1>5, <2>1
  <2>3. CASE i = L
    BY <1>2, <1>7, <1>8, <1>9, <1>12, <2>1, <2>2, <2>3
  <2>4. CASE i \in 1 .. L - 1 /\ stack[i].level = K
    <3>1. Open(stack[i].todo) \subseteq old
      BY <1>8, <2>2, <2>4
    <3>2. i < L /\ L \in 1 .. L
      BY <1>4, <2>4
    <3>3. Open(stack[i].todo) \cap Switched(t) = {}
      BY <1>5, <1>8, <1>12, <2>4, <3>2
    <3>4. Open(stack[i].todo) \subseteq new
      BY <1>7, <1>9, <3>1, <3>3
    <3> QED BY <1>2, <1>7, <2>1, <2>4, <3>4
  <2>5. CASE i \in 1 .. L - 1 /\ stack[i].level # K
    <3>1. stack[i].level \in 1 .. K - 1
      BY <1>11, <2>1, <2>5
    <3> QED BY <1>2, <1>7, <2>1, <2>2, <2>5, <3>1
  <2> QED BY <1>10, <2>3, <2>4, <2>5
<1>16. ASSUME NEW k \in 1 .. K, NEW x \in collectors'[k].selectedBlock
       PROVE  \E i \in 1 .. L : stack'[i].level = k /\ x \in Open(stack'[i].todo)
  <2>1. L \in 1 .. L /\ stack'[L].level = K
    BY <1>2, <1>4, <1>8 DEF L
  <2>2. CASE k = K /\ x = b /\ fn = "insert"
    <3>1. x \in Open(stack'[L].todo)
      BY <1>2, <1>9, <2>2
    <3> QED BY <2>1, <2>2, <3>1
  <2>3. CASE ~ (k = K /\ x = b)
    <3>1. x \in collectors[k].selectedBlock
      BY <1>7, <1>8, <1>11, <1>16, <2>3
    <3>2. PICK i \in 1 .. L : stack[i].level = k /\ x \in Open(stack[i].todo)
      BY <1>5, <3>1
    <3>3. x \in Open(stack'[i].todo)
      BY <1>2, <1>8, <1>9, <1>10, <1>12, <2>3, <3>2 DEF Switches
    <3> QED BY <1>4, <3>2, <3>3
  <2>4. ~ (k = K /\ x = b /\ fn = "erase")
    BY <1>7, <1>16
  <2> QED BY <2>2, <2>3, <2>4 DEF Switches
<1>17. \A k \in 1 .. K, i \in 1 .. L :
         stack'[i].level = k => Open(stack'[i].todo) \subseteq collectors'[k].selectedBlock
  BY <1>15
<1> QED BY <1>4, <1>7, <1>13, <1>14, <1>16, <1>17 DEF SelectedOK

\* Whatever is called but a phi's values: its calls are none of blocks.
LEMMA PlainEntered ==
  ASSUME TypesOK, Next, NEW call, NEW level, Grown(stack, stack', call, level),
         call.fn \notin {"traceValue", "traceMemory"} \/ Op(M, call.v) # "phi"
  PROVE  Plain(stack'[Len(stack) + 1].todo)
<1> DEFINE i == Len(stack) + 1
<1>1. ActivationsOK(M, stack') /\ Len(stack) \in Nat
  BY ActivationsTyped, Acting
<1>2. Len(stack') = i /\ stack'[i].call = call /\ i \in 1 .. Len(stack')
  BY <1>1 DEF Grown
<1> HIDE DEF i
<1>3. BodyOK(M, stack', i, stack'[i])
  BY <1>1, <1>2 DEF ActivationsOK
<1> QED BY <1>2, <1>3, PlainBody DEF i

\* An activation is entered on the stack that the call is made from.
LEMMA EnterSelected ==
  ASSUME Blocks, NEW fn, Calling(fn), fn \notin Switches, NEW frames, Kept(stack, frames),
         \A i \in 1 .. Len(stack) : frames[i].todo = Called[i].todo,
         NEW todo, Enter(frames, todo), SameSelected,
         Closed(todo), Switched(todo) \cap Self.selectedBlock = {}
  PROVE  SelectedOK(stack', collectors')
<1> DEFINE L == Len(stack)
           call == Head(Top.todo)
           a == Activation(call, todo, Top.level)
           level == Top.level
<1>1. TypesOK /\ stack # <<>>
  BY DEF Calling, Blocks
<1>2. L \in Nat /\ L > 0 /\ Top = stack[L] /\ IsSeq(frames) /\ Len(frames) = L
  BY <1>1, Acting DEF Kept, IsStack
<1>3. stack' = Append(frames, a)
  BY DEF Enter
<1>4. a.todo = todo
  BY DEF Activation
<1> HIDE DEF a
<1>5. stack'[L + 1] = a /\ \A i \in 1 .. L : stack'[i] = frames[i]
  BY <1>2, <1>3, Pushed
<1>6. Grown(stack, stack', call, level)
  BY <1>1, Entered DEF TypesOK
<1>7. \A i \in 1 .. L : Alike(stack[i].todo, stack'[i].todo)
  BY <1>5, CalledAlike
<1>8. level = Len(collectors) /\ Len(collectors) \in 1 .. Len(collectors) /\ Self = collectors[level]
  <2>1. Len(collectors) \in Nat /\ Len(collectors) > 0 /\ Self = collectors[Len(collectors)]
    BY <1>1, SelfTypes
  <2>2. level = Len(collectors)
    BY <1>2 DEF Blocks, TypesOK, StackOK, LevelsOK
  <2> QED BY <2>1, <2>2
<1>9. stack'[Len(stack) + 1].todo = todo
  BY <1>4, <1>5
<1>10. level \in 1 .. Len(collectors) /\ Switched(todo) \cap collectors[level].selectedBlock = {}
  BY <1>8
<1> HIDE DEF call, level
<1> QED BY <1>6, <1>7, <1>9, <1>10, SelectedGrown

LEMMA EnterPlain ==
  ASSUME Blocks, Next, NEW fn, Calling(fn), fn \notin Switches, NEW frames, Kept(stack, frames),
         \A i \in 1 .. Len(stack) : frames[i].todo = Called[i].todo,
         NEW todo, Enter(frames, todo), SameSelected,
         fn \notin {"traceValue", "traceMemory"} \/ Op(M, Head(Top.todo).v) # "phi"
  PROVE  SelectedOK(stack', collectors')
<1> DEFINE call == Head(Top.todo)
           a == Activation(call, todo, Top.level)
<1>1. TypesOK /\ call.fn = fn /\ IsSeq(frames) /\ Len(frames) = Len(stack)
  BY DEF Calling, Blocks, Kept, IsStack
<1>2. Grown(stack, stack', call, Top.level)
  BY <1>1, Entered DEF TypesOK
<1>3. stack'[Len(stack) + 1] = a
  BY <1>1, Pushed DEF Enter
<1>4. a.todo = todo
  BY DEF Activation
<1> HIDE DEF a
<1>5. Plain(todo)
  <2> DEFINE level == Top.level
  <2> HIDE DEF call, level
  <2>1. Grown(stack, stack', call, level)
    BY <1>2 DEF level
  <2>2. call.fn \notin {"traceValue", "traceMemory"} \/ Op(M, call.v) # "phi"
    BY <1>1 DEF call
  <2>3. Plain(stack'[Len(stack) + 1].todo)
    BY <1>1, <2>1, <2>2, PlainEntered
  <2> QED BY <1>3, <1>4, <2>3
<1>6. Closed(todo) /\ Switched(todo) \cap Self.selectedBlock = {}
  BY <1>5, PlainSelectsNone DEF Closed
<1> QED BY <1>6, EnterSelected

LEMMA TraceValueSelected ==
  ASSUME Blocks, Next, TraceValue
  PROVE  SelectedOK(stack', collectors')
<1> DEFINE call == Head(Top.todo)
           vs == Self.visitedSet \cup {call.v}
           st == Append(Self.visitedStack, call.v)
           c == [Self EXCEPT !.visitedSet = vs, !.visitedStack = st]
<1>1. Calling("traceValue") /\ InCollector(c)
  BY DEF TraceValue
<1>2. PICK todo \in Flow(call) : Enter(Called, todo)
  BY DEF TraceValue
<1>3. /\ TypesOK /\ stack # <<>> /\ call.fn = "traceValue" /\ IsModule(M)
      /\ CallOK(M, stack, Len(stack) + 1, call) /\ Kept(stack, Called)
  BY <1>1, NextCall, Acting DEF Blocks
<1>4. SameSelected
  <2> HIDE DEF vs, st
  <2>1. c.selectedBlock = Self.selectedBlock
    BY <1>3, SelfTypes, TraceFields
  <2> HIDE DEF c
  <2> QED BY <1>1, <1>3, <2>1, SameInside
<1>5. "traceValue" \notin Switches
  BY DEF Switches
<1>6. CASE Op(M, call.v) = "phi"
  <2>1. todo \in Incoming(call)
    BY <1>6 DEF Flow
  <2>2. call.v \in Insts(M) /\ IsCall(call)
    BY <1>3, <1>6, ValueOps DEF CallOK, Switches, InstOps
  <2> HIDE DEF call
  <2>3. Closed(todo) /\ Switched(todo) \cap Self.selectedBlock = {}
    BY <1>3, <1>5, <2>1, <2>2, IncomingClosed
  <2> QED BY <1>1, <1>2, <1>3, <1>4, <1>5, <2>3, EnterSelected
<1>7. CASE Op(M, call.v) # "phi"
  BY <1>1, <1>2, <1>3, <1>4, <1>5, <1>7, EnterPlain
<1> QED BY <1>6, <1>7

LEMMA TraceMemorySelected ==
  ASSUME Blocks, Next, TraceMemory
  PROVE  SelectedOK(stack', collectors')
<1> DEFINE call == Head(Top.todo)
<1>1. Calling("traceMemory")
  BY DEF TraceMemory
<1>2. /\ TypesOK /\ stack # <<>> /\ call.fn = "traceMemory" /\ IsModule(M)
      /\ CallOK(M, stack, Len(stack) + 1, call) /\ Kept(stack, Called)
  BY <1>1, NextCall, Acting DEF Blocks
<1>3. SameSelected
  BY <1>2, SameOutside DEF TraceMemory
<1>4. "traceMemory" \notin Switches
  BY DEF Switches
<1>5. CASE Op(M, call.v) = "phi"
  <2>1. PICK todo \in Incoming(call) : Enter(Called, todo)
    BY <1>5 DEF TraceMemory
  <2>2. call.v \in Insts(M) /\ IsCall(call)
    BY <1>2, <1>5, ValueOps DEF CallOK, Switches, InstOps
  <2> HIDE DEF call
  <2>3. Closed(todo) /\ Switched(todo) \cap Self.selectedBlock = {}
    BY <1>2, <1>4, <2>1, <2>2, IncomingClosed
  <2> QED BY <1>1, <1>2, <1>3, <1>4, <2>1, <2>3, EnterSelected
<1>6. CASE Op(M, call.v) # "phi"
  <2>1. PICK todo : Enter(Called, todo)
    BY DEF TraceMemory
  <2> QED BY <1>1, <1>2, <1>3, <1>4, <1>6, <2>1, EnterPlain
<1> QED BY <1>5, <1>6

\* getCallBases adds to what another activation has found and seen.
SiteFrames(to, x, y) == [Called EXCEPT ![to].seen = @ \cup x, ![to].found = @ \cup y]

LEMMA SitesFramed ==
  ASSUME TypesOK, Calling("getCallBases"), NEW to, to = Head(Top.todo).to, NEW x, NEW y,
         NEW new, new = SiteFrames(to, x, y)
  PROVE  /\ Kept(stack, new)
         /\ \A i \in 1 .. Len(stack) : new[i].todo = Called[i].todo
         /\ \A i \in 1 .. Len(stack) : i # to => new[i] = Called[i]
         /\ new[to].found = Called[to].found \cup y /\ new[to].seen = Called[to].seen \cup x
<1> DEFINE L == Len(stack)
           a == [Called[to] EXCEPT !.seen = Called[to].seen \cup x]
           b == [a EXCEPT !.found = Called[to].found \cup y]
           frames == [Called EXCEPT ![to] = b]
<1>1. /\ CallOK(M, stack, L + 1, Head(Top.todo)) /\ Head(Top.todo).fn = "getCallBases"
      /\ Kept(stack, Called) /\ L \in Nat /\ IsStack(Called) /\ Len(Called) = L
  BY NextCall, Acting DEF Kept
<1>2. to \in 1 .. L
  BY <1>1 DEF CallOK
<1>3. IsActivation(Called[to]) /\ IsActivation(a)
  BY <1>1, <1>2, FieldsChanged DEF IsStack, Later
<1>4. a.found = Called[to].found /\ a.todo = Called[to].todo /\ a.seen = Called[to].seen \cup x
  BY <1>3, FieldValues
<1>5. b.todo = a.todo /\ b.seen = a.seen /\ b.found = Called[to].found \cup y
  <2> HIDE DEF a
  <2> QED BY <1>3, FieldValues
<1>6. SiteFrames(to, x, y) = frames
  <2>1. to \in DOMAIN Called
    BY <1>1, <1>2, SeqShape DEF IsStack
  <2> DEFINE one == [Called EXCEPT ![to] = a]
  <2>2. one[to] = a
    BY <2>1
  <2>3. SiteFrames(to, x, y)
          = [one EXCEPT ![to] = [one[to] EXCEPT !.found = one[to].found \cup y]]
    BY DEF SiteFrames
  <2>4. [one[to] EXCEPT !.found = one[to].found \cup y] = b
    BY <1>4, <2>2
  <2> HIDE DEF a, b
  <2> QED BY <2>3, <2>4
<1>7. Kept(stack, frames)
  <2>1. Later(Called[to], a) /\ Later(a, b)
    BY <1>3, FieldsChanged
  <2>2. Later(Called[to], b)
    BY <2>1, LaterStill
  <2> HIDE DEF a, b
  <2>3. Kept(Called, frames)
    BY <1>1, <2>2, KeptOne
  <2> QED BY <1>1, <2>3, KeptKept
<1>8. /\ \A i \in 1 .. L : frames[i].todo = Called[i].todo
      /\ \A i \in 1 .. L : i # to => frames[i] = Called[i]
      /\ frames[to].found = Called[to].found \cup y /\ frames[to].seen = Called[to].seen \cup x
  <2> HIDE DEF b
  <2>1. \A i \in 1 .. L : frames[i] = IF i = to THEN b ELSE Called[i]
    BY <1>1, Replaced DEF IsStack
  <2> HIDE DEF frames
  <2> QED BY <1>2, <1>4, <1>5, <2>1
<1> HIDE DEF frames
<1> QED BY <1>6, <1>7, <1>8

LEMMA OtherCallsSelected ==
  ASSUME Blocks, Next, FindSiblingGEPs \/ GetCallBases
  PROVE  SelectedOK(stack', collectors')
<1>1. TypesOK /\ SameSelected
  BY SameOutside DEF Blocks, FindSiblingGEPs, GetCallBases
<1>2. /\ "findSiblingGEPs" \notin Switches \cup {"traceValue", "traceMemory"}
      /\ "getCallBases" \notin Switches \cup {"traceValue", "traceMemory"}
  BY DEF Switches
<1>3. CASE FindSiblingGEPs
  <2>1. Calling("findSiblingGEPs") /\ \E todo : Enter(Called, todo)
    BY <1>3 DEF FindSiblingGEPs
  <2>2. Kept(stack, Called)
    BY <1>1, <2>1, NextCall
  <2> QED BY <1>1, <1>2, <2>1, <2>2, EnterPlain
<1>4. CASE GetCallBases
  <2> DEFINE call == Head(Top.todo)
             direct == {c \in UsersOf(M, call.v, "call") : Callee(M, c) = call.v}
             frames == [Called EXCEPT ![call.to].seen = @ \cup {call.v},
                                      ![call.to].found = @ \cup direct]
             todo == SetToSeq(SiteCalls(call))
  <2>1. Calling("getCallBases") /\ Enter(frames, todo)
    BY <1>4 DEF GetCallBases
  <2>2. Kept(stack, frames) /\ \A i \in 1 .. Len(stack) : frames[i].todo = Called[i].todo
    <3> DEFINE to == Head(Top.todo).to
               v == Head(Top.todo).v
    <3>1. frames = SiteFrames(to, {v}, direct) /\ to = Head(Top.todo).to
      BY DEF SiteFrames
    <3> HIDE DEF direct, frames, call, to, v
    <3> QED BY <1>1, <2>1, <3>1, SitesFramed
  <2> HIDE DEF frames, todo
  <2> QED BY <1>1, <1>2, <2>1, <2>2, EnterPlain
<1> QED BY <1>3, <1>4

LEMMA NothingToDo == Plain(<<>>)
<1>1. IsSeq(<<>>) /\ Len(<<>>) = 0
  BY SeqOfAny, EmptySeq
<1>2. DOMAIN <<>> = {}
  BY <1>1, SeqShape
<1> QED BY <1>2 DEF Plain

\* An activation with nothing left to do returns.
LEMMA PoppedSelected ==
  ASSUME Blocks, stack # <<>>, Top.todo = <<>>, Top.call.fn # "collect" \/ Len(stack) > 1,
         SameSelected, NEW n \in 1 .. Len(stack) - 1, NEW b,
         Later(stack[n], b), Alike(stack[n].todo, b.todo), stack' = [Popped EXCEPT ![n] = b]
  PROVE  SelectedOK(stack', collectors')
<1> DEFINE L == Len(stack)
<1>1. /\ L \in Nat /\ L > 0 /\ IsStack(stack) /\ Shrunk(stack, Popped) /\ IsStack(Popped)
      /\ Len(Popped) = L - 1 /\ \A i \in 1 .. L - 1 : Popped[i] = stack[i]
  BY Caller DEF Blocks
<1>2. Kept(Popped, stack')
  <2>1. Later(Popped[n], b)
    BY <1>1
  <2> QED BY <1>1, <2>1, KeptOne
<1>3. Shrunk(stack, stack')
  BY <1>1, <1>2, ShrunkKept
<1>4. \A i \in 1 .. L - 1 : stack'[i] = IF i = n THEN b ELSE stack[i]
  <2>1. \A i \in 1 .. L - 1 : stack'[i] = IF i = n THEN b ELSE Popped[i]
    BY <1>1, Replaced DEF IsStack
  <2> QED BY <1>1, <2>1
<1>5. \A i \in 1 .. L - 1 : Alike(stack[i].todo, stack'[i].todo)
  <2>1. \A i \in 1 .. L - 1 : Alike(stack[i].todo, stack[i].todo)
    BY DEF Alike
  <2> QED BY <1>4, <2>1
<1>6. Open(Top.todo) = {}
  BY NothingToDo, PlainSelectsNone
<1> QED BY <1>3, <1>5, <1>6, SelectedShrunk

LEMMA JustPopped ==
  ASSUME Blocks, stack # <<>>, Top.todo = <<>>, Top.call.fn # "collect" \/ Len(stack) > 1,
         SameSelected, stack' = Popped
  PROVE  SelectedOK(stack', collectors')
<1>1. Shrunk(stack, stack') /\ \A i \in 1 .. Len(stack) - 1 : stack'[i] = stack[i]
  BY Caller DEF Blocks
<1>2. \A i \in 1 .. Len(stack) - 1 : Alike(stack[i].todo, stack'[i].todo)
  BY <1>1 DEF Alike
<1>3. Open(Top.todo) = {}
  BY NothingToDo, PlainSelectsNone
<1> QED BY <1>1, <1>2, <1>3, SelectedShrunk

LEMMA UntracedBlocks ==
  ASSUME IsCollector(Self), NEW v, NEW x
  PROVE  /\ Untraced(v).selectedBlock = Self.selectedBlock
         /\ [Untraced(v) EXCEPT !.results = x].selectedBlock = Self.selectedBlock
<1> DEFINE vs == Self.visitedSet \ {v}
           st == SubSeq(Self.visitedStack, 1, Len(Self.visitedStack) - 1)
           e == [Self EXCEPT !.visitedSet = vs]
           d == [Self EXCEPT !.visitedSet = vs, !.visitedStack = st]
<1>1. Untraced(v) = d
  BY DEF Untraced
<1> HIDE DEF vs, st
<1>2. e = [visitedSet |-> vs, visitedStack |-> Self.visitedStack,
           selectedBlock |-> Self.selectedBlock, results |-> Self.results]
  BY DEF IsCollector
<1>3. d = [e EXCEPT !.visitedStack = st]
  OBVIOUS
<1> HIDE DEF e
<1>4. d = [visitedSet |-> vs, visitedStack |-> st,
           selectedBlock |-> Self.selectedBlock, results |-> Self.results]
  BY <1>2, <1>3
<1> HIDE DEF d
<1>5. d.selectedBlock = Self.selectedBlock
  BY <1>4
<1>6. [d EXCEPT !.results = x].selectedBlock = Self.selectedBlock
  BY <1>4
<1> QED BY <1>1, <1>5, <1>6

LEMMA EndTraceSelected ==
  ASSUME Blocks, EndTrace
  PROVE  SelectedOK(stack', collectors')
<1> DEFINE L == Len(stack)
           call == Top.call
           v == call.v
           to == call.to
           a == stack[to]
           b == collectBases(a, v)
<1>1. stack # <<>> /\ call.fn = "traceValue" /\ Top.todo = <<>> /\ TypesOK
  BY DEF EndTrace, Returning, Blocks
<1>2. /\ L \in Nat /\ \A i \in 1 .. L - 1 : Popped[i] = stack[i] /\ IsActivation(stack[i])
      /\ CallOK(M, stack, L, call)
  BY <1>1, Caller
<1>3. SameSelected
  <2>1. IsCollector(Self)
    BY <1>1, SelfTypes
  <2>2. CASE InCollector([Untraced(v) EXCEPT !.results = @ \cup Targets(v)])
    <3> DEFINE x == Untraced(v).results \cup Targets(v)
               c == [Untraced(v) EXCEPT !.results = x]
    <3>1. InCollector(c)
      BY <2>2
    <3> HIDE DEF x
    <3>2. c.selectedBlock = Self.selectedBlock
      BY <2>1, UntracedBlocks
    <3> HIDE DEF c
    <3> QED BY <1>1, <3>1, <3>2, SameInside
  <2>3. CASE InCollector(Untraced(v))
    BY <1>1, <2>1, <2>3, UntracedBlocks, SameInside
  <2> QED BY <2>2, <2>3 DEF EndTrace
<1>4. CASE stack' = Popped
  BY <1>1, <1>3, <1>4, JustPopped
<1>5. CASE to # 0 /\ stack' = [Popped EXCEPT ![to] = collectBases(@, v)]
  <2>1. to \in 1 .. L - 1
    BY <1>1, <1>2, <1>5 DEF CallOK, Switches
  <2>2. IsActivation(a) /\ Popped[to] = a
    BY <1>2, <2>1
  <2>3. stack' = [Popped EXCEPT ![to] = b]
    BY <1>5, <2>2
  <2>4. Later(a, b) /\ b.todo = a.todo
    <3>1. CASE Op(M, v) = "gep"
      <4> DEFINE x == Wrap(a.offset + Inst(M, v).n)
      <4>1. b = [a EXCEPT !.offset = x]
        BY <3>1 DEF collectBases
      <4> HIDE DEF b, x
      <4> QED BY <2>2, <4>1, FieldsChanged, FieldValues
    <3>2. CASE Op(M, v) = "alloca"
      <4> DEFINE x == a.seen \cup
                   {<<v, IF SameBlock(v, a.call.by) THEN Null ELSE LastTraced(a.call.by)>>}
      <4>1. b = [a EXCEPT !.seen = x]
        BY <3>2 DEF collectBases
      <4> HIDE DEF b, x
      <4> QED BY <2>2, <4>1, FieldsChanged, FieldValues
    <3>3. CASE Op(M, v) \notin {"gep", "alloca"}
      <4>1. b = a
        BY <3>3 DEF collectBases
      <4> QED BY <2>2, <4>1 DEF Later
    <3> QED BY <3>1, <3>2, <3>3
  <2>5. Alike(a.todo, b.todo)
    BY <2>4 DEF Alike
  <2> HIDE DEF b, to
  <2> QED BY <1>1, <1>3, <2>1, <2>3, <2>4, <2>5, PoppedSelected
<1> QED BY <1>4, <1>5 DEF EndTrace

LEMMA HandUpSelected ==
  ASSUME Blocks, stack # <<>>, Top.todo = <<>>, Top.call.fn # "collect",
         UNCHANGED collectors, NEW results, HandUp(results)
  PROVE  SelectedOK(stack', collectors')
<1> DEFINE n == Len(stack) - 1
           a == stack[n]
           b == [a EXCEPT !.found = a.found \cup results]
<1>1. n \in 1 .. n /\ IsActivation(a) /\ Popped[n] = a
  BY Caller DEF Blocks
<1>2. stack' = [Popped EXCEPT ![n] = b]
  BY <1>1 DEF HandUp, Depth
<1>3. Later(a, b) /\ b.todo = a.todo
  BY <1>1, FieldsChanged, FieldValues
<1>4. Alike(a.todo, b.todo)
  BY <1>3 DEF Alike
<1>5. SameSelected
  BY SameOutside DEF Blocks
<1> HIDE DEF b, n
<1>6. n \in 1 .. Len(stack) - 1
  BY <1>1 DEF n
<1> QED BY <1>2, <1>3, <1>4, <1>5, <1>6, PoppedSelected

LEMMA EndsSelected ==
  ASSUME Blocks, EndMemory \/ EndSiblings \/ EndSites
  PROVE  SelectedOK(stack', collectors')
<1>1. /\ stack # <<>> /\ Top.todo = <<>> /\ Top.call.fn # "collect" /\ UNCHANGED collectors
      /\ (\E results : HandUp(results)) \/ stack' = Popped
  BY DEF EndMemory, EndSiblings, EndSites, Returning
<1>2. SameSelected
  BY <1>1, SameOutside DEF Blocks
<1> QED BY <1>1, <1>2, HandUpSelected, JustPopped

\* getCallBases has no blocks to do with, before and after.
LEMMA EndNestedSelected ==
  ASSUME Blocks, Next, EndNested
  PROVE  SelectedOK(stack', collectors')
<1> DEFINE L == Len(stack)
           n == L - 1
           a == stack[n]
           formals == {Arg(f, Top.call.n) : f \in Self.results}
           todo == SetToSeq({getCallBases(v, Top.call.to) : v \in formals}) \o a.todo
           b == [a EXCEPT !.todo = todo]
<1>1. /\ stack # <<>> /\ Top.todo = <<>> /\ Top.call.fn = "collect" /\ L > 1
      /\ collectors' = SubSeq(collectors, 1, Len(collectors) - 1) /\ TypesOK
  BY DEF EndNested, Returning, Depth, Blocks
<1>2. /\ L \in Nat /\ n \in 1 .. n /\ IsActivation(a) /\ Popped[n] = a /\ BodyOK(M, stack, n, a)
      /\ MayCall(M, a.call, "collect") /\ IsStack(Popped) /\ Len(Popped) = n
  BY <1>1, Caller
<1>3. stack' = [Popped EXCEPT ![n] = b]
  BY <1>2 DEF EndNested, Depth
<1>4. a.call.fn = "getCallBases"
  BY <1>2 DEF MayCall, Switches
<1> HIDE DEF todo
<1>5. Later(a, b)
  BY <1>2, FieldsChanged
<1> HIDE DEF b
<1>6. stack'[n] = b /\ Len(stack') = n
  BY <1>2, <1>3, Replaced DEF IsStack
<1>7. Plain(a.todo)
  BY <1>2, <1>4, PlainBody
<1>8. Plain(b.todo)
  <2> HIDE DEF n, a
  <2>1. BodyOK(M, stack', n, stack'[n])
    BY <1>1, <1>2, <1>6, ActivationsTyped DEF ActivationsOK
  <2>2. stack'[n].call.fn = "getCallBases"
    BY <1>4, <1>5, <1>6 DEF Later
  <2>3. Plain(stack'[n].todo)
    BY <2>1, <2>2, PlainBody
  <2> QED BY <1>6, <2>3
<1>9. Alike(a.todo, b.todo)
  BY <1>7, <1>8, PlainAlike
<1>10. SameSelected
  <2>1. IsSeq(collectors) /\ Len(collectors) \in Nat /\ Len(collectors) > 0
    BY <1>1, SelfTypes DEF TypesOK, StackOK, CollectorsOK
  <2>2. /\ Len(collectors') = Len(collectors) - 1
        /\ \A k \in 1 .. Len(collectors) - 1 : collectors'[k] = collectors[k]
    BY <1>1, <2>1, AllButLast
  <2> QED BY <2>1, <2>2 DEF SameSelected
<1>11. n \in 1 .. Len(stack) - 1
  BY <1>2
<1> HIDE DEF n
<1> QED BY <1>1, <1>3, <1>5, <1>9, <1>10, <1>11, PoppedSelected

\* What was found is taken up: none of it is a phi's.
LEMMA TakeUpSelected ==
  ASSUME Blocks, Next, UseFound \/ AskSiblings
  PROVE  SelectedOK(stack', collectors')
<1> DEFINE L == Len(stack)
<1>1. /\ stack # <<>> /\ Top.todo = <<>> /\ UNCHANGED collectors /\ \E todo : TakeUp(todo)
      /\ Op(M, Top.call.v) # "phi" /\ TypesOK
  BY DEF UseFound, AskSiblings, Returning, Blocks
<1>2. PICK todo : TakeUp(todo)
  BY <1>1
<1>3. Kept(stack, stack')
  BY <1>1, <1>2, TakenUp DEF TypesOK
<1>4. L \in 1 .. L /\ L \in Nat /\ Top = stack[L] /\ IsSeq(stack)
  BY <1>1, Acting DEF IsStack
<1>5. \A i \in 1 .. L - 1 : stack'[i] = stack[i]
  <2> DEFINE a == stack[L]
             b == [a EXCEPT !.todo = todo, !.stage = 2]
  <2>1. stack' = [stack EXCEPT ![L] = b]
    BY <1>2 DEF TakeUp, Depth
  <2> HIDE DEF b
  <2>2. \A i \in 1 .. L : stack'[i] = IF i = L THEN b ELSE stack[i]
    BY <1>4, <2>1, Replaced
  <2>3. \A i \in 1 .. L - 1 : i \in 1 .. L /\ i # L
    BY <1>4
  <2> QED BY <2>2, <2>3
<1>6. Len(stack') = L /\ stack'[L].call = Top.call
  BY <1>3, <1>4 DEF Kept, Later
<1>7. Plain(stack'[L].todo)
  <2> HIDE DEF L
  <2>1. BodyOK(M, stack', L, stack'[L])
    BY <1>1, <1>4, <1>6, ActivationsTyped DEF ActivationsOK
  <2> QED BY <1>1, <1>6, <2>1, PlainBody
<1>8. Alike(stack[L].todo, stack'[L].todo)
  BY <1>1, <1>4, <1>7, NothingToDo, PlainAlike
<1>9. \A i \in 1 .. L - 1 : Alike(stack[i].todo, stack'[i].todo)
  BY <1>5 DEF Alike
<1>10. \A i \in 1 .. L : i \in 1 .. L - 1 \/ i = L
  BY <1>4
<1>11. \A i \in 1 .. L : Alike(stack[i].todo, stack'[i].todo)
  BY <1>8, <1>9, <1>10
<1>12. SameSelected
  BY <1>1, SameOutside
<1> QED BY <1>3, <1>11, <1>12, SelectedKept

\* A new collector has selected nothing, and its call has nothing to select.
LEMMA CollectSelected ==
  ASSUME Blocks, Next, CollectNext \/ CollectNested
  PROVE  SelectedOK(stack', collectors')
<1> DEFINE level == Len(collectors) + 1
<1>1. TypesOK /\ IsStack(stack) /\ Len(stack) \in Nat
  BY Acting DEF Blocks
<1>2. \E frames, call :
        /\ BeginCollect(frames, call) /\ call.fn = "collect" /\ Kept(stack, frames)
        /\ \A i \in 1 .. Len(stack) : Alike(stack[i].todo, frames[i].todo)
  <2>1. CASE CollectNext
    <3>1. PICK c \in pending : BeginCollect(<<>>, collect(c, 0, 0))
      BY <2>1 DEF CollectNext
    <3>2. stack = <<>> /\ Len(stack) = 0
      BY <2>1, EmptySeq DEF CollectNext
    <3>3. Kept(stack, <<>>)
      BY <1>1, <3>2, KeptSame
    <3>4. collect(c, 0, 0).fn = "collect"
      BY CallFields DEF collect
    <3>5. \A i \in 1 .. Len(stack) : FALSE
      BY <3>2
    <3> QED BY <3>1, <3>3, <3>4, <3>5
  <2>2. CASE CollectNested
    <3>1. Calling("collect") /\ BeginCollect(Called, Head(Top.todo))
      BY <2>2 DEF CollectNested
    <3>2. Head(Top.todo).fn = "collect" /\ Kept(stack, Called)
      BY <1>1, <3>1, NextCall
    <3>3. "collect" \notin Switches
      BY DEF Switches
    <3>4. \A i \in 1 .. Len(stack) : Alike(stack[i].todo, Called[i].todo)
      BY <3>1, <3>3, CalledAlike
    <3> QED BY <3>1, <3>2, <3>4
  <2> QED BY <2>1, <2>2
<1>3. PICK frames, call :
        /\ BeginCollect(frames, call) /\ call.fn = "collect" /\ Kept(stack, frames)
        /\ \A i \in 1 .. Len(stack) : Alike(stack[i].todo, frames[i].todo)
  BY <1>2
<1>4. Grown(stack, stack', call, level) /\ collectors' = Append(collectors, NewCollector)
  BY <1>1, <1>3, GrownOne DEF BeginCollect
<1>5. \A i \in 1 .. Len(stack) : stack'[i] = frames[i]
  BY <1>3, Pushed DEF BeginCollect, Kept, IsStack
<1>6. \A i \in 1 .. Len(stack) : Alike(stack[i].todo, stack'[i].todo)
  BY <1>3, <1>5
<1> DEFINE todo == stack'[Len(stack) + 1].todo
<1>7. Plain(todo)
  <2> HIDE DEF level
  <2> QED BY <1>1, <1>3, <1>4, PlainEntered
<1>8. Closed(todo)
  BY <1>7, PlainSelectsNone DEF Closed
<1>9. stack'[Len(stack) + 1].todo = todo /\ level = Len(collectors) + 1
  OBVIOUS
<1> HIDE DEF level, todo
<1> QED BY <1>4, <1>6, <1>8, <1>9, SelectedGrown

LEMMA SelectedStep ==
  ASSUME Blocks, Next
  PROVE  SelectedOK(stack', collectors')
<1>1. CASE UNCHANGED <<stack, collectors>>
  BY <1>1 DEF Blocks
<1>2. CASE SeenValue \/ SeenSite
  <2>1. PICK fn \in {"traceValue", "getCallBases"} :
          Calling(fn) /\ stack' = Called /\ UNCHANGED collectors
    BY <1>2 DEF SeenValue, SeenSite
  <2>2. fn \notin Switches
    BY DEF Switches
  <2>3. Kept(stack, stack') /\ SameSelected
    BY <2>1, NextCall, SameOutside DEF Blocks
  <2>4. \A i \in 1 .. Len(stack) : Alike(stack[i].todo, stack'[i].todo)
    BY <2>1, <2>2, CalledAlike
  <2> QED BY <2>3, <2>4, SelectedKept
<1>3. CASE Report
  <2>1. Len(stack') = 0 /\ Len(collectors') = 0
    BY <1>3, EmptySeq DEF Report
  <2> QED BY <2>1 DEF SelectedOK
<1> QED
  BY <1>1, <1>2, <1>3, TraceValueSelected, TakeUpSelected, EndTraceSelected, SwitchSelected,
     TraceMemorySelected, EndsSelected, OtherCallsSelected, CollectSelected, EndNestedSelected
  DEF Next, Value, Memory, Sites, Collecting, NoReturn, NoActualArg, NoFormalArg, Overflow

LEMMA SelectedEntails == Blocks => SelectedIsOpen
<1> SUFFICES ASSUME Blocks, NEW k \in DOMAIN collectors
             PROVE  collectors[k].selectedBlock =
                      UNION {Open(stack[i].todo) : i \in {j \in DOMAIN stack : stack[j].level = k}}
  BY DEF SelectedIsOpen
<1>1. DOMAIN stack = 1 .. Len(stack) /\ k \in 1 .. Len(collectors)
  BY SeqShape DEF Blocks, TypesOK, StackOK, IsStack, CollectorsOK
<1>2. \A i \in 1 .. Len(stack) :
        stack[i].level = k => Open(stack[i].todo) \subseteq collectors[k].selectedBlock
  BY <1>1 DEF Blocks, SelectedOK
<1>3. \A b \in collectors[k].selectedBlock :
        \E i \in 1 .. Len(stack) : stack[i].level = k /\ b \in Open(stack[i].todo)
  BY <1>1 DEF Blocks, SelectedOK
<1> QED BY <1>1, <1>2, <1>3

(***************************************************************************)
(* However phis nest and whatever the calls in between: a block is         *)
(* selected exactly while some activation of the collector is inside of it *)
(* (lines 164 to 168 and 375 to 379).  SelectedOK says why: only one       *)
(* activation is, so no erase takes away another's block.                  *)
(***************************************************************************)
THEOREM SelectedInStep == Spec => []SelectedIsOpen
<1>1. Init => Blocks
  <2> SUFFICES ASSUME Init
               PROVE  Blocks
    OBVIOUS
  <2>1. TypesOK
    BY TypesInit
  <2>2. Len(stack) = 0 /\ Len(collectors) = 0
    BY EmptySeq DEF Init
  <2>3. SelectedOK(stack, collectors)
    BY <2>2 DEF SelectedOK
  <2> QED BY <2>1, <2>3 DEF Blocks
<1>2. Blocks /\ [Next]_vars => Blocks'
  <2> SUFFICES ASSUME Blocks, [Next]_vars
               PROVE  Blocks'
    OBVIOUS
  <2>1. TypesOK'
    BY TypesStep DEF Blocks
  <2>2. SelectedOK(stack', collectors')
    BY SelectedStep DEF vars, Blocks
  <2>3. SelectedOK(stack, collectors)'
    BY <2>2 DEF SelectedOK, Balanced, Does, Open, Switched, Switches
  <2> QED BY <2>1, <2>3 DEF Blocks
<1>3. Blocks => SelectedIsOpen
  BY SelectedEntails
<1> QED BY <1>1, <1>2, <1>3, PTL DEF Spec
=============================================================================
