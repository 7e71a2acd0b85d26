---------------------- MODULE FuncDefCollectorFlowProofs ----------------------
(***************************************************************************)
(* Proofs about what FuncDefCollector prints, for every set of modules the *)
(* verifier accepts: the pass implements AbstractDefs.                     *)
(***************************************************************************)
EXTENDS FuncDefCollectorTypeProofs

-----------------------------------------------------------------------------
(***************************************************************************)
(* The invariant: what the activations trace, look for and have found is   *)
(* in the relations of PointerFlow.  As there, m is a module and F what is *)
(* related in it.                                                          *)
(***************************************************************************)
\* f may be what the parameter's activation s[i] traces is a parameter of.
Owned(s, i) == s[i].call.v[2]

\* A call made by the activation i - 1 that becomes the i-th: what is traced is
\* where the collector's callee, or the base's GEP, comes from; what is looked
\* for as a callee may be the function; addresses and bases follow the caller's.
CallFlows(m, F, s, i, c) ==
  LET by == s[i - 1].call
  IN  /\ c.fn = "traceValue" =>
           /\ c.n \in 0 .. i - 1
           /\ c.to # 0 => <<s[c.to].call.v, c.v, c.n>> \in F.traces
           /\ c.to = 0 =>
                \A j \in 1 .. i - 1 :
                  s[j].call.fn = "collect" /\ s[j].level = s[i - 1].level =>
                    <<Callee(m, s[j].call.v), c.v, c.n>> \in F.traces
      /\ c.fn = "traceMemory" /\ by.fn = "traceValue" => c.v = Inst(m, by.v).args[1]
      /\ c.fn = "traceMemory" /\ by.fn = "traceMemory" => c.v \in ToSet(Inst(m, by.v).args)
      /\ c.fn = "findSiblingGEPs" /\ by.fn = "traceMemory" =>
           Op(m, c.v) = "alloca" /\ c.v \in From(F.traces, by.v)
      /\ c.fn = "findSiblingGEPs" /\ by.fn = "findSiblingGEPs" => c.v \in Derived(m, by.v)
      /\ c.fn = "getCallBases" => <<Owned(s, c.to), c.v>> \in F.carries
      /\ c.fn = "collect" =>
           /\ c.n + 2 \in DOMAIN Inst(m, c.v).args
           /\ <<Owned(s, c.to), ActualArg(m, c.v, c.n)>> \in F.carries

\* What an activation has found: stores, callers and GEPs the relations allow.
FoundFlows(m, F, call, found) ==
  LET op == Op(m, call.v)
  IN  /\ call.fn = "traceValue" /\ op = "load" => found \subseteq From(F.stores, Inst(m, call.v).args[1])
      /\ call.fn = "traceValue" /\ op = "arg" =>
           found \subseteq {c \in Calls(m) : <<call.v[2], Callee(m, c)>> \in F.carries}
      /\ call.fn = "traceMemory" /\ op = "phi" => found \subseteq From(F.stores, call.v)
      /\ call.fn = "traceMemory" /\ op = "gep" =>
           \A x \in found : \E b \in From(F.traces, call.v) : Op(m, b) = "alloca" /\ x[1] \in From(F.derives, b)
      /\ call.fn = "findSiblingGEPs" => \A x \in found : x[1] \in From(F.derives, call.v)

SeenFlows(m, F, call, seen) ==
  call.fn = "traceMemory" =>
    \A x \in seen : Op(m, x[1]) = "alloca" /\ x[1] \in From(F.traces, call.v)

BodyFlows(m, F, s, i, a) ==
  /\ \A n \in DOMAIN a.todo : CallFlows(m, F, s, i + 1, a.todo[n])
  /\ FoundFlows(m, F, s[i].call, a.found)
  /\ SeenFlows(m, F, s[i].call, a.seen)

LinkFlows(m, F, s, i) == i > 1 => CallFlows(m, F, s, i, s[i].call)

ActivationsFlow(m, F, s) ==
  \A i \in 1 .. Len(s) : LinkFlows(m, F, s, i) /\ BodyFlows(m, F, s, i, s[i])

ResultsFlow(m, F, s, cs) ==
  \A k \in 1 .. Len(cs), j \in 1 .. Len(s) :
    s[j].call.fn = "collect" /\ s[j].level = k => cs[k].results \subseteq Callable(m, F, s[j].call.v)

Flows == FlowOf[input]

Flowing ==
  TypesOK /\ ActivationsFlow(M, Flows, stack) /\ ResultsFlow(M, Flows, stack, collectors)

-----------------------------------------------------------------------------
(***************************************************************************)
(* The relations are closed under their rules.                             *)
(***************************************************************************)
LEMMA RelatedPairs ==
  ASSUME NEW R, NEW u, NEW v, <<u, v>> \in R
  PROVE  v \in From(R, u)
<1>1. <<u, v>>[1] = u /\ <<u, v>>[2] = v
  OBVIOUS
<1> QED BY <1>1 DEF From

LEMMA RelatedTriples ==
  ASSUME NEW R, NEW u, NEW v, NEW n, <<u, v, n>> \in R
  PROVE  v \in From(R, u)
<1>1. <<u, v, n>>[1] = u /\ <<u, v, n>>[2] = v
  OBVIOUS
<1> QED BY <1>1 DEF From

LEMMA TracesRules ==
  ASSUME NEW m, NEW F, Apply(m, F) = F
  PROVE  /\ \A u \in Starts(m) : <<u, u, 0>> \in F.traces
         /\ \A u, v, w : \A n, k \in Nat :
              /\ <<u, v, n>> \in F.traces /\ <<w, k>> \in Sources(m, F, v, n) /\ k <= MaxDepth
              => <<u, w, k>> \in F.traces
<1> DEFINE New(t) == {<<t[1], x[1], x[2]>> : x \in {y \in Sources(m, F, t[2], t[3]) : y[2] <= MaxDepth}}
<1>1. F.traces = F.traces \cup {<<u, u, 0>> : u \in Starts(m)} \cup UNION {New(t) : t \in F.traces}
  <2>1. Apply(m, F).traces = F.traces \cup {<<u, u, 0>> : u \in Starts(m)} \cup UNION {New(t) : t \in F.traces}
    BY DEF Apply
  <2> QED BY <2>1
<1>2. \A u \in Starts(m) : <<u, u, 0>> \in F.traces
  BY <1>1
<1>3. ASSUME NEW u, NEW v, NEW w, NEW n \in Nat, NEW k \in Nat,
             <<u, v, n>> \in F.traces, <<w, k>> \in Sources(m, F, v, n), k <= MaxDepth
      PROVE  <<u, w, k>> \in F.traces
  <2> DEFINE t == <<u, v, n>>
             x == <<w, k>>
  <2>1. t[1] = u /\ t[2] = v /\ t[3] = n /\ x[1] = w /\ x[2] = k
    OBVIOUS
  <2>2. <<t[1], x[1], x[2]>> \in New(t)
    <3>1. x \in {y \in Sources(m, F, t[2], t[3]) : y[2] <= MaxDepth}
      BY <1>3, <2>1
    <3> HIDE DEF t, x
    <3> QED BY <3>1
  <2>3. New(t) \subseteq F.traces
    <3> HIDE DEF New, t
    <3> QED BY <1>1, <1>3 DEF t
  <2> QED BY <2>1, <2>2, <2>3
<1> QED BY <1>2, <1>3

LEMMA CarriesRules ==
  ASSUME NEW m, NEW F, Apply(m, F) = F
  PROVE  /\ \A f \in DOMAIN m.fn : <<f, Fn(f)>> \in F.carries
         /\ \A f, v : <<f, v>> \in F.carries =>
              \A w \in Carriers(m, F, v) : <<f, w>> \in F.carries
<1> DEFINE New(t) == {<<t[1], w>> : w \in Carriers(m, F, t[2])}
<1>1. F.carries = F.carries \cup {<<f, Fn(f)>> : f \in DOMAIN m.fn} \cup UNION {New(t) : t \in F.carries}
  <2>1. Apply(m, F).carries = F.carries \cup {<<f, Fn(f)>> : f \in DOMAIN m.fn}
                                \cup UNION {New(t) : t \in F.carries}
    BY DEF Apply
  <2> QED BY <2>1
<1>2. ASSUME NEW f, NEW v, <<f, v>> \in F.carries, NEW w \in Carriers(m, F, v)
      PROVE  <<f, w>> \in F.carries
  <2> DEFINE t == <<f, v>>
  <2>1. t[1] = f /\ t[2] = v
    OBVIOUS
  <2>2. <<t[1], w>> \in New(t)
    BY <1>2, <2>1
  <2>3. New(t) \subseteq F.carries
    <3> HIDE DEF New, t
    <3> QED BY <1>1, <1>2 DEF t
  <2> QED BY <2>1, <2>2, <2>3
<1> QED BY <1>1, <1>2

LEMMA StoresRules ==
  ASSUME NEW m, NEW F, Apply(m, F) = F, NEW p \in Operated(m), NEW s \in Writers(m, F, p)
  PROVE  s \in From(F.stores, p)
<1> DEFINE New(q) == {<<q, x>> : x \in Writers(m, F, q)}
<1>1. Apply(m, F).stores = F.stores \cup UNION {New(q) : q \in Operated(m)}
  BY DEF Apply
<1>2. <<p, s>> \in New(p)
  OBVIOUS
<1>3. New(p) \subseteq F.stores
  <2> HIDE DEF New
  <2> QED BY <1>1
<1> QED BY <1>2, <1>3, RelatedPairs

LEMMA DerivesRules ==
  ASSUME NEW m, NEW F, Apply(m, F) = F, NEW b \in Operated(m), NEW g,
         g \in UsersOf(m, b, "gep") \/ \E x \in Derived(m, b) : g \in From(F.derives, x)
  PROVE  g \in From(F.derives, b)
<1> DEFINE Found(c) == UsersOf(m, c, "gep") \cup UNION {From(F.derives, x) : x \in Derived(m, c)}
           New(c) == {<<c, h>> : h \in Found(c)}
<1>1. Apply(m, F).derives = F.derives \cup UNION {New(c) : c \in Operated(m)}
  BY DEF Apply
<1>2. g \in Found(b)
  OBVIOUS
<1>3. New(b) \subseteq F.derives
  <2> HIDE DEF New
  <2> QED BY <1>1
<1>4. <<b, g>> \in New(b)
  <2> HIDE DEF Found
  <2> QED BY <1>2
<1> QED BY <1>3, <1>4, RelatedPairs

-----------------------------------------------------------------------------
(***************************************************************************)
(* From one stack to the next.                                             *)
(***************************************************************************)
SameLinks(s, t, i) == \A j \in 1 .. i : t[j].call = s[j].call /\ t[j].level = s[j].level

LEMMA CallFlowsStill ==
  ASSUME NEW m, NEW F, NEW s, NEW t, NEW i \in Nat, i > 1, NEW c,
         SameLinks(s, t, i - 1), CallOK(m, t, i, c), CallFlows(m, F, s, i, c)
  PROVE  CallFlows(m, F, t, i, c)
<1>1. c.to \in 0 .. i - 1 /\ (c.fn \in {"getCallBases", "collect"} => c.to # 0)
  BY DEF CallOK
<1>2. c.to # 0 => t[c.to].call = s[c.to].call
  BY <1>1 DEF SameLinks
<1>3. t[i - 1].call = s[i - 1].call /\ t[i - 1].level = s[i - 1].level
  BY DEF SameLinks
<1>4. \A j \in 1 .. i - 1 : t[j].call = s[j].call /\ t[j].level = s[j].level
  BY DEF SameLinks
<1> QED BY <1>1, <1>2, <1>3, <1>4 DEF CallFlows, Owned

\* What is common to two stacks.
LEMMA FlowsPrefix ==
  ASSUME NEW m, NEW F, NEW s, NEW t, NEW k \in Nat, Len(s) \in Nat, Len(t) \in Nat,
         k <= Len(s), k <= Len(t), ActivationsFlow(m, F, s), ActivationsOK(m, t),
         \A i \in 1 .. k : Later(s[i], t[i]) /\ BodyFlows(m, F, s, i, t[i])
  PROVE  /\ SameLinks(s, t, k)
         /\ \A i \in 1 .. k : LinkFlows(m, F, t, i) /\ BodyFlows(m, F, t, i, t[i])
<1>1. SameLinks(s, t, k)
  BY DEF SameLinks, Later
<1>2. ASSUME NEW i \in 1 .. k
      PROVE  LinkFlows(m, F, t, i) /\ BodyFlows(m, F, t, i, t[i])
  <2>1. i \in 1 .. Len(s) /\ i \in 1 .. Len(t) /\ i \in Nat /\ i + 1 \in Nat /\ i + 1 > 1
    OBVIOUS
  <2>2. SameLinks(s, t, i - 1) /\ SameLinks(s, t, (i + 1) - 1) /\ t[i].call = s[i].call
    BY <1>1 DEF SameLinks
  <2>3. /\ LinkFlows(m, F, s, i) /\ BodyFlows(m, F, s, i, t[i])
        /\ CallOK(m, t, i, t[i].call) /\ \A n \in DOMAIN t[i].todo : CallOK(m, t, i + 1, t[i].todo[n])
    BY <1>2, <2>1 DEF ActivationsFlow, ActivationsOK, LinkOK, BodyOK, TodoOK
  <2>4. LinkFlows(m, F, t, i)
    BY <2>1, <2>2, <2>3, CallFlowsStill DEF LinkFlows
  <2>5. \A n \in DOMAIN t[i].todo : CallFlows(m, F, t, i + 1, t[i].todo[n])
    BY <2>1, <2>2, <2>3, CallFlowsStill DEF BodyFlows
  <2> QED BY <2>2, <2>3, <2>4, <2>5 DEF BodyFlows
<1> QED BY <1>1, <1>2

LEMMA FlowsKept ==
  ASSUME Flowing, Next, Kept(stack, stack'),
         \A i \in 1 .. Len(stack) : BodyFlows(M, Flows, stack, i, stack'[i])
  PROVE  ActivationsFlow(M, Flows, stack')
<1>1. Len(stack) \in Nat /\ Len(stack') = Len(stack) /\ Len(stack) <= Len(stack)
      /\ \A i \in 1 .. Len(stack) : Later(stack[i], stack'[i])
  BY Acting DEF Kept, Flowing
<1>2. ActivationsOK(M, stack')
  BY ActivationsTyped DEF Flowing
<1> QED BY <1>1, <1>2, FlowsPrefix DEF Flowing, ActivationsFlow

LEMMA FlowsShrunk ==
  ASSUME Flowing, Next, stack # <<>>, Shrunk(stack, stack'),
         \A i \in 1 .. Len(stack) - 1 : BodyFlows(M, Flows, stack, i, stack'[i])
  PROVE  ActivationsFlow(M, Flows, stack')
<1> DEFINE k == Len(stack) - 1
<1>1. Len(stack) \in Nat /\ Len(stack') = k /\ k <= Len(stack) /\ k \in Nat /\ k <= k
      /\ \A i \in 1 .. k : Later(stack[i], stack'[i])
  BY Acting DEF Shrunk, Flowing
<1>2. ActivationsOK(M, stack')
  BY ActivationsTyped DEF Flowing
<1> HIDE DEF k
<1>3. \A i \in 1 .. k : BodyFlows(M, Flows, stack, i, stack'[i])
  BY DEF k
<1> QED BY <1>1, <1>2, <1>3, FlowsPrefix DEF Flowing, ActivationsFlow

LEMMA FlowsGrown ==
  ASSUME Flowing, Next, NEW call, NEW level, Grown(stack, stack', call, level),
         \A i \in 1 .. Len(stack) : BodyFlows(M, Flows, stack, i, stack'[i]),
         Len(stack) > 0 => CallFlows(M, Flows, stack, Len(stack) + 1, call),
         BodyFlows(M, Flows, stack', Len(stack) + 1, stack'[Len(stack) + 1])
  PROVE  ActivationsFlow(M, Flows, stack')
<1> DEFINE L == Len(stack)
<1>1. L \in Nat /\ Len(stack') = L + 1 /\ stack'[L + 1].call = call /\ L <= L + 1 /\ L + 1 \in Nat
      /\ \A i \in 1 .. L : Later(stack[i], stack'[i])
  BY Acting DEF Grown, Flowing
<1>2. ActivationsOK(M, stack')
  BY ActivationsTyped DEF Flowing
<1>3. /\ SameLinks(stack, stack', L)
      /\ \A i \in 1 .. L : LinkFlows(M, Flows, stack', i) /\ BodyFlows(M, Flows, stack', i, stack'[i])
  <2> HIDE DEF L
  <2>1. \A i \in 1 .. L : BodyFlows(M, Flows, stack, i, stack'[i])
    BY DEF L
  <2> QED BY <1>1, <1>2, <2>1, FlowsPrefix DEF Flowing, L
<1>4. LinkFlows(M, Flows, stack', L + 1)
  <2> SUFFICES ASSUME L + 1 > 1
               PROVE  CallFlows(M, Flows, stack', L + 1, call)
    BY <1>1 DEF LinkFlows
  <2>1. L > 0 /\ (L + 1) - 1 = L
    BY <1>1
  <2>2. CallOK(M, stack', L + 1, call)
    BY <1>1, <1>2 DEF ActivationsOK, LinkOK
  <2> HIDE DEF L
  <2>3. CallFlows(M, Flows, stack, L + 1, call)
    BY <2>1 DEF L
  <2> QED BY <1>1, <1>3, <2>1, <2>2, <2>3, CallFlowsStill
<1>5. \A i \in 1 .. L + 1 : i \in 1 .. L \/ i = L + 1
  BY <1>1
<1> QED BY <1>1, <1>3, <1>4, <1>5 DEF ActivationsFlow

LEMMA NextFlows ==
  ASSUME Flowing, NEW fn, Calling(fn)
  PROVE  /\ CallFlows(M, Flows, stack, Len(stack) + 1, Head(Top.todo))
         /\ \A i \in 1 .. Len(stack) : BodyFlows(M, Flows, stack, i, Called[i])
<1> DEFINE L == Len(stack)
<1>1. TypesOK /\ L \in Nat
  BY Acting DEF Flowing
<1>2. /\ L \in 1 .. L /\ Top = stack[L] /\ IsSeq(Top.todo) /\ Top.todo # <<>>
      /\ Called[L].todo = Tail(Top.todo)
      /\ \A i \in 1 .. L - 1 : Called[i].todo = stack[i].todo
  BY <1>1, CalledTodos
<1>3. \A i \in 1 .. L : Called[i].found = stack[i].found /\ Called[i].seen = stack[i].seen
  BY <1>1, NextCall
<1>4. \A i \in 1 .. L : BodyFlows(M, Flows, stack, i, stack[i])
  BY DEF Flowing, ActivationsFlow
<1>5. /\ Head(Top.todo) = Top.todo[1] /\ 1 \in DOMAIN Top.todo
      /\ \A n \in DOMAIN Tail(Top.todo) : n + 1 \in DOMAIN Top.todo /\ Tail(Top.todo)[n] = Top.todo[n + 1]
  BY <1>2, HeadAndTail
<1>6. CallFlows(M, Flows, stack, L + 1, Head(Top.todo))
  BY <1>2, <1>4, <1>5 DEF BodyFlows
<1>7. \A n \in DOMAIN Called[L].todo : CallFlows(M, Flows, stack, L + 1, Called[L].todo[n])
  BY <1>2, <1>4, <1>5 DEF BodyFlows
<1>8. \A i \in 1 .. L : i \in 1 .. L - 1 \/ i = L
  BY <1>1
<1> HIDE DEF L
<1>9. \A i \in 1 .. L : BodyFlows(M, Flows, stack, i, Called[i])
  BY <1>2, <1>3, <1>4, <1>7, <1>8 DEF BodyFlows
<1> QED BY <1>6, <1>9 DEF L

LEMMA EnterFlows ==
  ASSUME Flowing, Next, NEW fn, Calling(fn), NEW frames, Kept(stack, frames),
         \A i \in 1 .. Len(stack) : BodyFlows(M, Flows, stack, i, frames[i]),
         NEW todo, Enter(frames, todo),
         \A n \in DOMAIN todo : CallFlows(M, Flows, stack', Len(stack) + 2, todo[n])
  PROVE  ActivationsFlow(M, Flows, stack')
<1> DEFINE L == Len(stack)
           a == Activation(Head(Top.todo), todo, Top.level)
<1>1. IsStack(stack) /\ L \in Nat /\ IsSeq(frames) /\ Len(frames) = L
  BY Acting DEF Kept, IsStack, Flowing
<1>2. stack' = Append(frames, a)
  BY DEF Enter
<1>3. a.todo = todo /\ a.found = {} /\ a.seen = {}
  BY DEF Activation
<1> HIDE DEF a
<1>4. stack'[L + 1] = a /\ \A i \in 1 .. L : stack'[i] = frames[i]
  BY <1>1, <1>2, Pushed
<1>5. Grown(stack, stack', Head(Top.todo), Top.level)
  BY Entered DEF TypesOK, Flowing
<1>6. BodyFlows(M, Flows, stack', L + 1, a)
  <2>1. (L + 1) + 1 = L + 2
    BY <1>1
  <2>2. FoundFlows(M, Flows, stack'[L + 1].call, {}) /\ SeenFlows(M, Flows, stack'[L + 1].call, {})
    BY DEF FoundFlows, SeenFlows
  <2> QED BY <1>3, <2>1, <2>2 DEF BodyFlows
<1>7. CallFlows(M, Flows, stack, L + 1, Head(Top.todo))
  BY NextFlows
<1>8. \A i \in 1 .. L : BodyFlows(M, Flows, stack, i, stack'[i])
  BY <1>4
<1> QED BY <1>4, <1>5, <1>6, <1>7, <1>8, FlowsGrown

-----------------------------------------------------------------------------
(***************************************************************************)
(* traceValue on the way in.                                               *)
(***************************************************************************)
LEMMA FlowsClosed == TypesOK => IsModule(M) /\ Apply(M, Flows) = Flows
BY ModulesAssumption, RoundsAssumption DEF TypesOK, M, Flows

LEMMA EnteredLinks ==
  ASSUME TypesOK, NEW fn, Calling(fn), NEW frames, Kept(stack, frames), NEW todo, Enter(frames, todo)
  PROVE  LET i == Len(stack) + 1
         IN  /\ i \in Nat /\ i > 1 /\ i - 1 = Len(stack) /\ i + 1 = Len(stack) + 2 /\ i <= MaxDepth
             /\ SameLinks(stack, stack', i - 1)
             /\ stack'[i].call = Head(Top.todo) /\ stack'[i].level = stack[i - 1].level
<1>1. Grown(stack, stack', Head(Top.todo), Top.level) /\ Len(stack) \in Nat
  BY Entered, Acting DEF TypesOK
<1>2. Len(stack) > 0 /\ Top = stack[Len(stack)] /\ Len(stack) < MaxDepth
  BY Acting DEF Calling, Running, Depth
<1>3. SameLinks(stack, stack', Len(stack))
  BY <1>1 DEF Grown, Later, SameLinks
<1> QED BY <1>1, <1>2, <1>3, MaxDepthAssumption DEF Grown

\* A value traced for the same callback, that the one traced may come from.
LEMMA TracedOn ==
  ASSUME NEW m, NEW F, NEW s, NEW t, NEW i \in Nat, i > 1, NEW call, call.fn = "traceValue",
         CallOK(m, s, i, call), CallFlows(m, F, s, i, call), SameLinks(s, t, i - 1),
         t[i].call = call, t[i].level = s[i - 1].level,
         NEW c, c.fn = "traceValue", c.to = call.to, c.n \in 0 .. i,
         \A u : <<u, call.v, call.n>> \in F.traces => <<u, c.v, c.n>> \in F.traces
  PROVE  CallFlows(m, F, t, i + 1, c)
<1>1. call.to \in 0 .. i - 1
  BY DEF CallOK
<1>2. call.to # 0 => t[call.to].call = s[call.to].call
  BY <1>1 DEF SameLinks
<1>3. c.to # 0 => <<t[c.to].call.v, c.v, c.n>> \in F.traces
  BY <1>2 DEF CallFlows
<1>4. ASSUME c.to = 0, NEW j \in 1 .. (i + 1) - 1,
             t[j].call.fn = "collect", t[j].level = t[(i + 1) - 1].level
      PROVE  <<Callee(m, t[j].call.v), c.v, c.n>> \in F.traces
  <2>1. (i + 1) - 1 = i /\ j # i
    BY <1>4
  <2>2. j \in 1 .. i - 1 /\ t[j].call = s[j].call /\ t[j].level = s[j].level
    BY <2>1 DEF SameLinks
  <2> QED BY <1>4, <2>1, <2>2 DEF CallFlows
<1> QED BY <1>3, <1>4 DEF CallFlows

LEMMA SwitchFlows ==
  ASSUME NEW m, NEW F, NEW t, NEW i, NEW c, c.fn \in Switches
  PROVE  CallFlows(m, F, t, i, c)
BY DEF CallFlows, Switches

LEMMA OneFlow ==
  ASSUME NEW m, NEW F, NEW t, NEW i, NEW c, CallFlows(m, F, t, i, c)
  PROVE  \A n \in DOMAIN <<c>> : CallFlows(m, F, t, i, <<c>>[n])
<1>1. DOMAIN <<c>> = {1} /\ <<c>>[1] = c
  OBVIOUS
<1> QED BY <1>1

LEMMA NoFlows ==
  ASSUME NEW m, NEW F, NEW t, NEW i
  PROVE  \A n \in DOMAIN <<>> : CallFlows(m, F, t, i, <<>>[n])
<1>1. DOMAIN <<>> = {}
  BY SeqShape, SeqOfAny, EmptySeq
<1> QED BY <1>1

LEMMA ReturnGiven ==
  ASSUME IsModule(M), NEW f, ReturnsValue(f)
  PROVE  ReturnValue(f) \in Returned(M, f)
<1> DEFINE R == Returns(f)
           T == {r[3] : r \in R}
<1>1. R # {} /\ R \subseteq Insts(M) /\ \A r \in R : r[3] \in Nat
  BY InstShape DEF ReturnsValue, Returns
<1>2. PICK n \in T : \A k \in T : n <= k
  <2>1. T \subseteq Nat /\ T # {}
    BY <1>1
  <2> HIDE DEF T
  <2> QED BY <2>1, LeastNumber
<1>3. PICK r \in R : \A s \in R : r[3] <= s[3]
  BY <1>2
<1>4. getReturnInst(f) \in R
  BY <1>3 DEF getReturnInst
<1>5. getReturnInst(f) \in {x \in Insts(M) : x[2] = f /\ Op(M, x) = "ret"}
  BY <1>4, InstShape DEF Returns
<1>6. 1 \in DOMAIN Inst(M, getReturnInst(f)).args
  BY <1>1, <1>4, InstShape DEF ReturnsValue
<1>7. ReturnValue(f) \in ToSet(Inst(M, getReturnInst(f)).args)
  BY <1>6 DEF ReturnValue, ToSet
<1> QED BY <1>5, <1>7 DEF Returned

LEMMA FirstOperand ==
  ASSUME NEW m, IsModule(m), NEW u \in Insts(m), Op(m, u) \in {"load", "gep", "store", "call"}
  PROVE  Inst(m, u).args[1] \in ToSet(Inst(m, u).args)
<1>1. 1 \in DOMAIN Inst(m, u).args
  BY InstShape
<1> QED BY <1>1 DEF ToSet

\* A phi, by traceValue and traceMemory alike.
LEMMA IncomingFlows ==
  ASSUME IsModule(M), NEW call, IsCall(call), call.v \in Values(M), Op(M, call.v) = "phi",
         NEW todo, todo \in Incoming(call), NEW m, NEW F, NEW t, NEW i,
         \A w \in ToSet(Inst(M, call.v).args) : \A c :
           IsCall(c) /\ c.fn = call.fn /\ c.v = w /\ c.n = call.n /\ c.to = call.to =>
             CallFlows(m, F, t, i, c)
  PROVE  \A n \in DOMAIN todo : CallFlows(m, F, t, i, todo[n])
<1>1. call.v \in Insts(M)
  BY ValueOps DEF InstOps
<1> TAKE n \in DOMAIN todo
<1>2. CASE \E b : todo[n] = insertBlock(b) \/ todo[n] = eraseBlock(b)
  <2>1. todo[n].fn \in Switches
    BY <1>2, CallFields DEF insertBlock, eraseBlock, Switches
  <2> QED BY <2>1, SwitchFlows
<1>3. CASE \E w \in Values(M) \cap ToSet(Inst(M, call.v).args) : todo[n] = [call EXCEPT !.v = w]
  <2>1. PICK w \in ToSet(Inst(M, call.v).args) : todo[n] = [call EXCEPT !.v = w]
    BY <1>3
  <2> DEFINE c == [call EXCEPT !.v = w]
  <2>2. IsCall(c) /\ c.fn = call.fn /\ c.v = w /\ c.n = call.n /\ c.to = call.to
    BY DEF IsCall
  <2> HIDE DEF c
  <2> QED BY <2>1, <2>2 DEF c
<1> QED BY <1>1, <1>2, <1>3, IncomingTypes

LEMMA FlowFlows ==
  ASSUME Flowing, Calling("traceValue"),
         \A f \in AsksReturnOf(Head(Top.todo)) : ReturnsValue(f),
         NEW todo, todo \in Flow(Head(Top.todo)), Enter(Called, todo)
  PROVE  \A n \in DOMAIN todo : CallFlows(M, Flows, stack', Len(stack) + 2, todo[n])
<1> DEFINE call == Head(Top.todo)
           v == call.v
           op == Op(M, v)
           t == stack'
           i == Len(stack) + 1
<1>1. TypesOK /\ IsModule(M) /\ Apply(M, Flows) = Flows
  BY FlowsClosed DEF Flowing
<1>2. CallOK(M, stack, i, call) /\ call.fn = "traceValue" /\ Kept(stack, Called)
  BY <1>1, NextCall
<1>3. /\ i \in Nat /\ i > 1 /\ i - 1 = Len(stack) /\ i + 1 = Len(stack) + 2 /\ i <= MaxDepth
      /\ SameLinks(stack, t, i - 1) /\ t[i].call = call /\ t[i].level = stack[i - 1].level
  BY <1>1, <1>2, EnteredLinks
<1>4. v \in Values(M) /\ IsCall(call)
  BY <1>2 DEF CallOK, Switches
<1>5. CallFlows(M, Flows, stack, i, call)
  BY NextFlows
<1> HIDE DEF call, t, i
<1> SUFFICES \A n \in DOMAIN todo : CallFlows(M, Flows, t, i + 1, todo[n])
  BY <1>3 DEF t, i
<1>6. call.n \in 0 .. i - 1 /\ call.n \in Nat
  BY <1>2, <1>3, <1>5 DEF CallFlows
<1>7. ASSUME NEW w, NEW k \in 0 .. call.n + 1, <<w, k>> \in Sources(M, Flows, v, call.n),
             NEW c, c.fn = "traceValue", c.v = w, c.n = k, c.to = call.to
      PROVE  CallFlows(M, Flows, t, i + 1, c)
  <2>1. k \in 0 .. i /\ k \in Nat /\ k <= MaxDepth
    BY <1>3, <1>6, MaxDepthAssumption
  <2>2. \A u : <<u, v, call.n>> \in Flows.traces => <<u, w, k>> \in Flows.traces
    BY <1>1, <1>6, <1>7, <2>1, TracesRules
  <2> QED BY <1>2, <1>3, <1>5, <1>7, <2>1, <2>2, TracedOn
<1>8. ASSUME NEW w, NEW k \in 0 .. call.n + 1, <<w, k>> \in Sources(M, Flows, v, call.n),
             todo = <<[call EXCEPT !.v = w, !.n = k]>>
      PROVE  \A n \in DOMAIN todo : CallFlows(M, Flows, t, i + 1, todo[n])
  <2> DEFINE d == [call EXCEPT !.v = w]
             c == [call EXCEPT !.v = w, !.n = k]
  <2>1. c.fn = "traceValue" /\ c.v = w /\ c.n = k /\ c.to = call.to
    <3>1. IsCall(d) /\ d.fn = "traceValue" /\ d.v = w /\ d.to = call.to
      BY <1>2, <1>4 DEF IsCall
    <3>2. c = [d EXCEPT !.n = k]
      OBVIOUS
    <3> HIDE DEF c, d
    <3> QED BY <3>1, <3>2 DEF IsCall
  <2>2. CallFlows(M, Flows, t, i + 1, c)
    <3> HIDE DEF c
    <3> QED BY <1>7, <1>8, <2>1
  <2>3. todo = <<c>>
    BY <1>8
  <2> HIDE DEF c
  <2> QED BY <2>2, <2>3, OneFlow
<1>9. op \in InstOps => v \in Insts(M)
  BY <1>4, <1>1, ValueOps
<1>10. call.n \in 0 .. call.n + 1 /\ call.n + 1 \in 0 .. call.n + 1
       /\ (call.n > 0 => call.n - 1 \in 0 .. call.n + 1)
  BY <1>6
<1>11. CASE op = "fn" /\ call.n > 0
  <2>1. v[1] = "fn"
    BY <1>1, <1>4, <1>11, ValueOps
  <2>2. v[2] \in AsksReturnOf(call)
    BY <1>11, <2>1 DEF AsksReturnOf
  <2>3. ReturnValue(v[2]) \in Returned(M, v[2])
    BY <1>1, <2>2, ReturnGiven DEF call
  <2>4. todo = <<[call EXCEPT !.v = ReturnValue(v[2]), !.n = call.n - 1]>>
    BY <1>11 DEF Flow, call
  <2>5. <<ReturnValue(v[2]), call.n - 1>> \in Sources(M, Flows, v, call.n)
    BY <1>11, <2>3 DEF Sources
  <2> QED BY <1>8, <1>10, <1>11, <2>4, <2>5
<1>12. CASE op = "load"
  <2> DEFINE c == traceMemory(Inst(M, v).args[1], v)
  <2>1. todo = <<c>>
    BY <1>12 DEF Flow, call
  <2>2. c.fn = "traceMemory" /\ c.v = Inst(M, v).args[1]
    BY CallFields DEF traceMemory
  <2> HIDE DEF c
  <2>3. (i + 1) - 1 = i
    BY <1>3
  <2>4. CallFlows(M, Flows, t, i + 1, c)
    BY <1>2, <1>3, <2>2, <2>3 DEF CallFlows
  <2> QED BY <2>1, <2>4, OneFlow
<1>13. CASE op = "phi"
  <2>1. todo \in Incoming(call)
    BY <1>13 DEF Flow, call
  <2>2. ASSUME NEW w \in ToSet(Inst(M, v).args), NEW c,
               c.fn = call.fn, c.v = w, c.n = call.n, c.to = call.to
        PROVE  CallFlows(M, Flows, t, i + 1, c)
    <3>1. <<w, call.n>> \in Sources(M, Flows, v, call.n)
      BY <1>13 DEF Sources
    <3> QED BY <1>2, <1>7, <1>10, <2>2, <3>1
  <2> QED BY <1>1, <1>4, <1>13, <2>1, <2>2, IncomingFlows
<1>14. CASE op = "arg"
  <2> DEFINE c == getCallBases(Fn(v[2]), i)
  <2>1. todo = <<c>>
    BY <1>14 DEF Flow, call, Depth, i
  <2>2. c.fn = "getCallBases" /\ c.v = Fn(v[2]) /\ c.to = i
    BY CallFields DEF getCallBases
  <2> HIDE DEF c
  <2>3. v[2] \in DOMAIN M.fn
    BY <1>1, <1>4, <1>14, ValueOps
  <2>4. <<v[2], Fn(v[2])>> \in Flows.carries
    BY <1>1, <2>3, CarriesRules
  <2>5. CallFlows(M, Flows, t, i + 1, c)
    BY <1>3, <2>2, <2>4 DEF CallFlows, Owned
  <2> QED BY <2>1, <2>5, OneFlow
<1>15. CASE op = "call"
  <2>1. CASE getCalledFunction(M, v) = {}
    <3>1. todo = <<[call EXCEPT !.v = Callee(M, v), !.n = call.n + 1]>>
      BY <1>15, <2>1 DEF Flow, call
    <3>2. <<Callee(M, v), call.n + 1>> \in Sources(M, Flows, v, call.n)
      BY <1>15, <2>1 DEF Sources
    <3> QED BY <1>8, <1>10, <3>1, <3>2
  <2>2. CASE getCalledFunction(M, v) # {} /\ AsksReturnOf(call) = {}
    <3>1. todo = <<>>
      BY <1>15, <2>2 DEF Flow, call
    <3> QED BY <3>1, NoFlows
  <2>3. CASE getCalledFunction(M, v) # {} /\ AsksReturnOf(call) # {}
    <3>1. todo = <<[call EXCEPT !.v = ReturnValue(Callee(M, v)[2]), !.n = call.n]>>
      BY <1>15, <2>3 DEF Flow, call
    <3>2. v[1] # "fn"
      BY <1>1, <1>4, <1>15, ValueOps
    <3>3. AsksReturnOf(call) = Defined(getCalledFunction(M, v))
      BY <1>15, <3>2 DEF AsksReturnOf
    <3>4. PICK f \in AsksReturnOf(call) : Callee(M, v) = Fn(f)
      BY <2>3, <3>3 DEF Defined, getCalledFunction
    <3>5. Callee(M, v)[2] = f
      BY <3>4 DEF Fn
    <3>6. ReturnValue(f) \in Returned(M, f)
      BY <1>1, ReturnGiven DEF call
    <3>7. <<ReturnValue(f), call.n>> \in Sources(M, Flows, v, call.n)
      BY <1>15, <2>3, <3>5, <3>6 DEF Sources
    <3> QED BY <1>8, <1>10, <3>1, <3>5, <3>7
  <2> QED BY <2>1, <2>2, <2>3
<1>16. CASE op = "cast"
  <2>1. todo = <<[call EXCEPT !.v = Fn(v[2]), !.n = call.n]>>
    BY <1>16 DEF Flow, call
  <2>2. <<Fn(v[2]), call.n>> \in Sources(M, Flows, v, call.n)
    BY <1>16 DEF Sources
  <2> QED BY <1>8, <1>10, <2>1, <2>2
<1>17. CASE op = "global"
  <2>1. todo = <<[call EXCEPT !.v = M.init[v[2]], !.n = call.n]>> \/ todo = <<>>
    BY <1>17 DEF Flow, call
  <2>2. <<M.init[v[2]], call.n>> \in Sources(M, Flows, v, call.n)
    BY <1>17 DEF Sources
  <2> QED BY <1>8, <1>10, <2>1, <2>2, NoFlows
<1>18. CASE op = "gep"
  <2>1. todo = <<[call EXCEPT !.v = Inst(M, v).args[1], !.n = call.n]>>
    BY <1>18 DEF Flow, call
  <2>2. Inst(M, v).args[1] \in ToSet(Inst(M, v).args)
    BY <1>1, <1>9, <1>18, FirstOperand DEF InstOps
  <2>3. <<Inst(M, v).args[1], call.n>> \in Sources(M, Flows, v, call.n)
    BY <1>18, <2>2 DEF Sources
  <2> QED BY <1>8, <1>10, <2>1, <2>3
<1>19. CASE ~(op = "fn" /\ call.n > 0)
             /\ op \notin {"load", "phi", "arg", "call", "cast", "global", "gep"}
  <2>1. todo = <<>>
    BY <1>19 DEF Flow, call
  <2> QED BY <2>1, NoFlows
<1> HIDE DEF op
<1> QED BY <1>11, <1>12, <1>13, <1>14, <1>15, <1>16, <1>17, <1>18, <1>19

LEMMA TraceValueFlows ==
  ASSUME Flowing, Next, TraceValue
  PROVE  ActivationsFlow(M, Flows, stack')
<1>1. Calling("traceValue") /\ \A f \in AsksReturnOf(Head(Top.todo)) : ReturnsValue(f) /\ TypesOK
  BY DEF TraceValue, Flowing
<1>2. PICK todo \in Flow(Head(Top.todo)) : Enter(Called, todo)
  BY DEF TraceValue
<1>3. \A n \in DOMAIN todo : CallFlows(M, Flows, stack', Len(stack) + 2, todo[n])
  BY <1>1, <1>2, FlowFlows
<1>4. Kept(stack, Called) /\ \A i \in 1 .. Len(stack) : BodyFlows(M, Flows, stack, i, Called[i])
  BY <1>1, NextCall, NextFlows DEF Flowing
<1> QED BY <1>1, <1>2, <1>3, <1>4, EnterFlows

-----------------------------------------------------------------------------
(***************************************************************************)
(* The other functions on the way in.                                      *)
(***************************************************************************)
LEMMA ListedFlows ==
  ASSUME NEW m, NEW F, NEW t, NEW i, NEW S, IsFiniteSet(S), \A c \in S : CallFlows(m, F, t, i, c)
  PROVE  \A n \in DOMAIN SetToSeq(S) : CallFlows(m, F, t, i, SetToSeq(S)[n])
BY Listed

LEMMA TraceMemoryFlows ==
  ASSUME Flowing, Next, TraceMemory
  PROVE  ActivationsFlow(M, Flows, stack')
<1> DEFINE call == Head(Top.todo)
           t == stack'
           i == Len(stack) + 1
<1>1. Calling("traceMemory") /\ TypesOK /\ IsModule(M) /\ Apply(M, Flows) = Flows
  BY FlowsClosed DEF TraceMemory, Flowing
<1>2. /\ CallOK(M, stack, i, call) /\ call.fn = "traceMemory" /\ Kept(stack, Called)
      /\ \A n \in 1 .. Len(stack) : BodyFlows(M, Flows, stack, n, Called[n])
  BY <1>1, NextCall, NextFlows
<1>3. PICK todo : /\ Enter(Called, todo)
                  /\ \/ Op(M, call.v) = "gep" /\ todo = <<traceValue(call.v, 0, i)>>
                     \/ Op(M, call.v) = "phi" /\ todo \in Incoming(call)
                     \/ todo = <<>>
  BY DEF TraceMemory, Depth
<1>4. t[i].call = call /\ i \in Nat /\ i > 1 /\ i + 1 = Len(stack) + 2 /\ (i + 1) - 1 = i
  BY <1>1, <1>2, <1>3, EnteredLinks
<1>5. call.v \in Values(M) /\ IsCall(call)
  BY <1>2 DEF CallOK, Switches
<1> HIDE DEF call, t, i
<1>6. \A n \in DOMAIN todo : CallFlows(M, Flows, t, i + 1, todo[n])
  <2>1. CASE Op(M, call.v) = "gep" /\ todo = <<traceValue(call.v, 0, i)>>
    <3> DEFINE c == traceValue(call.v, 0, i)
    <3>1. c.fn = "traceValue" /\ c.v = call.v /\ c.n = 0 /\ c.to = i
      BY CallFields DEF traceValue
    <3>2. todo = <<c>>
      BY <2>1
    <3> HIDE DEF c
    <3>3. call.v \in Insts(M)
      BY <1>1, <1>5, <2>1, ValueOps DEF InstOps
    <3>4. call.v \in Starts(M)
      BY <2>1, <3>3 DEF Starts
    <3>5. <<call.v, call.v, 0>> \in Flows.traces
      BY <1>1, <3>4, TracesRules
    <3>6. 0 \in 0 .. (i + 1) - 1 /\ i # 0
      BY <1>4
    <3>7. CallFlows(M, Flows, t, i + 1, c)
      BY <1>4, <3>1, <3>5, <3>6 DEF CallFlows
    <3> QED BY <3>2, <3>7, OneFlow
  <2>2. CASE Op(M, call.v) = "phi" /\ todo \in Incoming(call)
    <3>1. ASSUME NEW w \in ToSet(Inst(M, call.v).args), NEW c, c.fn = call.fn, c.v = w
          PROVE  CallFlows(M, Flows, t, i + 1, c)
      BY <1>2, <1>4, <3>1 DEF CallFlows
    <3> QED BY <1>1, <1>5, <2>2, <3>1, IncomingFlows
  <2>3. CASE todo = <<>>
    BY <2>3, NoFlows
  <2> QED BY <1>3, <2>1, <2>2, <2>3
<1>7. \A n \in DOMAIN todo : CallFlows(M, Flows, stack', Len(stack) + 2, todo[n])
  BY <1>4, <1>6 DEF t
<1> QED BY <1>1, <1>2, <1>3, <1>7, EnterFlows

LEMMA SiblingsDerived ==
  ASSUME IsModule(M), NEW call, NEW c \in SiblingCalls(call)
  PROVE  c.v \in Derived(M, call.v)
<1>1. CASE \E g \in UsersOf(M, call.v, "gep") :
             c = findSiblingGEPs(g, Wrap(call.n - Inst(M, g).n), call.by)
  <2>1. c.v \in UsersOf(M, call.v, "gep")
    BY <1>1, CallFields DEF findSiblingGEPs
  <2> QED BY <2>1 DEF Derived
<1>2. ASSUME NEW d \in UsersOf(M, call.v, "call"), ArgIndices(d, call.v) # {},
             Defined(getCalledFunction(M, d)) # {},
             c = findSiblingGEPs(Arg(Callee(M, d)[2], findArgIndexInCall(d, call.v)), call.n,
                                 IF call.by = Null THEN d ELSE call.by)
      PROVE  c.v \in Derived(M, call.v)
  <2> DEFINE k == findArgIndexInCall(d, call.v)
  <2>1. PICK f \in DOMAIN M.fn :
          f \in getCalledFunction(M, d) /\ Callee(M, d) = Fn(f) /\ Len(Inst(M, d).args) = M.fn[f].arity + 1
    BY <1>2 DEF Defined, getCalledFunction
  <2>2. Callee(M, d)[2] = f
    BY <2>1 DEF Fn
  <2>3. d \in Insts(M) /\ Len(Inst(M, d).args) \in Nat /\ DOMAIN Inst(M, d).args = 1 .. Len(Inst(M, d).args)
    BY UsersAreInsts, InstShape
  <2>4. k \in Nat /\ k <= Len(Inst(M, d).args) - 2 /\ ActualArg(M, d, k) = call.v
    BY <1>2, <2>3, ArgIndex
  <2>5. M.fn[f].arity \in Nat
    BY DEF IsModule
  <2>6. c.v = Arg(f, k)
    BY <1>2, <2>2, CallFields DEF findSiblingGEPs
  <2> HIDE DEF k
  <2>7. k \in 0 .. M.fn[f].arity - 1 /\ k + 2 \in DOMAIN Inst(M, d).args
    BY <2>1, <2>3, <2>4, <2>5
  <2>8. Arg(f, k) \in Arguments(M) /\ Arg(f, k)[2] = f /\ Arg(f, k)[4] = k
    BY <2>7 DEF Arguments, Arg
  <2>9. Arg(f, k) \in Formals(M, d, call.v, getCalledFunction(M, d))
    BY <2>1, <2>4, <2>7, <2>8 DEF Formals
  <2> QED BY <2>6, <2>9 DEF Derived
<1> QED BY <1>1, <1>2 DEF SiblingCalls

LEMMA FindSiblingFlows ==
  ASSUME Flowing, Next, FindSiblingGEPs
  PROVE  ActivationsFlow(M, Flows, stack')
<1> DEFINE call == Head(Top.todo)
           S == SiblingCalls(call)
           t == stack'
           i == Len(stack) + 1
<1>1. Calling("findSiblingGEPs") /\ Enter(Called, SetToSeq(S)) /\ TypesOK /\ IsModule(M)
  BY FlowsClosed DEF FindSiblingGEPs, Flowing
<1>2. /\ CallOK(M, stack, i, call) /\ call.fn = "findSiblingGEPs" /\ Kept(stack, Called)
      /\ \A n \in 1 .. Len(stack) : BodyFlows(M, Flows, stack, n, Called[n])
  BY <1>1, NextCall, NextFlows
<1>3. t[i].call = call /\ i + 1 = Len(stack) + 2 /\ (i + 1) - 1 = i
  BY <1>1, <1>2, EnteredLinks
<1>4. call.v \in Values(M) /\ call.by \in Values(M)
  BY <1>2 DEF CallOK, Switches
<1> HIDE DEF call, t, i
<1>5. /\ IsFiniteSet(S)
      /\ \A c \in S : c.fn = "findSiblingGEPs" /\ c.v \in Derived(M, call.v)
  BY <1>1, <1>4, SiblingTypes, SiblingsDerived
<1> HIDE DEF S
<1>6. \A c \in S : CallFlows(M, Flows, t, i + 1, c)
  BY <1>2, <1>3, <1>5 DEF CallFlows
<1>7. \A n \in DOMAIN SetToSeq(S) : CallFlows(M, Flows, stack', Len(stack) + 2, SetToSeq(S)[n])
  BY <1>3, <1>5, <1>6, ListedFlows DEF t
<1> QED BY <1>1, <1>2, <1>7, EnterFlows

\* Where getCallBases goes on, the function is carried.
LEMMA SitesCarried ==
  ASSUME IsModule(M), NEW call, NEW F, Apply(M, F) = F, NEW f, <<f, call.v>> \in F.carries,
         NEW c \in SiteCalls(call)
  PROVE  /\ c.fn = "getCallBases" => <<f, c.v>> \in F.carries
         /\ c.fn = "collect" => /\ c.n + 2 \in DOMAIN Inst(M, c.v).args
                                /\ <<f, ActualArg(M, c.v, c.n)>> \in F.carries
<1>1. ASSUME NEW d \in UsersOf(M, call.v, "call"), Callee(M, d) # call.v,
             c = collect(d, findArgIndexInCall(d, call.v), call.to)
      PROVE  /\ c.fn = "collect" /\ c.n + 2 \in DOMAIN Inst(M, c.v).args
             /\ <<f, ActualArg(M, c.v, c.n)>> \in F.carries
  <2> DEFINE k == findArgIndexInCall(d, call.v)
  <2>1. d \in Insts(M) /\ Len(Inst(M, d).args) \in Nat /\ DOMAIN Inst(M, d).args = 1 .. Len(Inst(M, d).args)
    BY UsersAreInsts, InstShape
  <2>2. k \in Nat /\ k <= Len(Inst(M, d).args) - 2 /\ ActualArg(M, d, k) = call.v
    BY <1>1, <2>1, ArgGiven, ArgIndex
  <2>3. c.fn = "collect" /\ c.v = d /\ c.n = k
    BY <1>1, CallFields DEF collect
  <2> HIDE DEF k
  <2>4. k + 2 \in DOMAIN Inst(M, d).args
    BY <2>1, <2>2
  <2> QED BY <2>2, <2>3, <2>4
<1>2. ASSUME NEW l, l \in UsersOf(M, call.v, "phi")
                      \/ l \in UNION {UsersOf(M, Inst(M, s).args[2], "load") : s \in UsersOf(M, call.v, "store")},
             c = getCallBases(l, call.to)
      PROVE  c.fn = "getCallBases" /\ <<f, c.v>> \in F.carries
  <2> DEFINE loads == UNION {UsersOf(M, Inst(M, s).args[2], "load") : s \in UsersOf(M, call.v, "store")}
             given == UNION {Formals(M, d, call.v, Callable(M, F, d)) : d \in UsersOf(M, call.v, "call")}
  <2>1. l \in Carriers(M, F, call.v)
    <3>1. Carriers(M, F, call.v) = loads \cup UsersOf(M, call.v, "phi") \cup given
      BY DEF Carriers
    <3> HIDE DEF loads, given
    <3> QED BY <1>2, <3>1 DEF loads
  <2>2. c.fn = "getCallBases" /\ c.v = l
    BY <1>2, CallFields DEF getCallBases
  <2> QED BY <2>1, <2>2, CarriesRules
<1> QED BY <1>1, <1>2 DEF SiteCalls

LEMMA GetCallBasesFlows ==
  ASSUME Flowing, Next, GetCallBases
  PROVE  ActivationsFlow(M, Flows, stack')
<1> DEFINE call == Head(Top.todo)
           to == call.to
           L == Len(stack)
           i == L + 1
           t == stack'
           f == Owned(stack, to)
           direct == {c \in UsersOf(M, call.v, "call") : Callee(M, c) = call.v}
           frames == SiteFrames(call.to, {call.v}, direct)
           S == SiteCalls(call)
<1>1. /\ Calling("getCallBases") /\ Enter(frames, SetToSeq(S)) /\ TypesOK /\ IsModule(M)
      /\ Apply(M, Flows) = Flows
  BY FlowsClosed DEF GetCallBases, SiteFrames, Flowing
<1>2. /\ CallOK(M, stack, i, call) /\ call.fn = "getCallBases" /\ L \in Nat
      /\ \A n \in 1 .. L : BodyFlows(M, Flows, stack, n, Called[n])
      /\ CallFlows(M, Flows, stack, i, call)
  BY <1>1, NextCall, NextFlows, Acting
<1>3. to \in 1 .. L /\ TracesArg(M, stack[to].call) /\ call.v \in Values(M)
  BY <1>2 DEF CallOK, Switches
<1>4. <<f, call.v>> \in Flows.carries
  BY <1>2 DEF CallFlows
<1> HIDE DEF direct, frames
<1>5. /\ Kept(stack, frames)
      /\ \A n \in 1 .. L : frames[n].todo = Called[n].todo
      /\ \A n \in 1 .. L : n # to => frames[n] = Called[n]
      /\ frames[to].found = Called[to].found \cup direct
  <2> DEFINE v == call.v
  <2>1. frames = SiteFrames(to, {v}, direct) /\ to = Head(Top.todo).to
    BY DEF frames
  <2> HIDE DEF to, v, call, S
  <2> QED BY <1>1, <2>1, SitesFramed
<1>6. t[i].call = call /\ i + 1 = L + 2 /\ (i + 1) - 1 = i /\ SameLinks(stack, t, i - 1) /\ i - 1 = L
  BY <1>1, <1>5, EnteredLinks
<1> HIDE DEF call, t
<1>7. direct \subseteq {c \in Calls(M) : <<stack[to].call.v[2], Callee(M, c)>> \in Flows.carries}
  <2>1. \A c \in direct : c \in Calls(M) /\ Callee(M, c) = call.v
    BY UsersAreInsts DEF direct, Calls
  <2> QED BY <1>4, <2>1 DEF Owned
<1>8. \A n \in 1 .. L : BodyFlows(M, Flows, stack, n, frames[n])
  <2> TAKE n \in 1 .. L
  <2>1. BodyFlows(M, Flows, stack, n, Called[n])
    BY <1>2
  <2>2. CASE n # to
    BY <1>5, <2>1, <2>2 DEF BodyFlows
  <2>3. CASE n = to
    <3>1. stack[n].call.fn = "traceValue" /\ Op(M, stack[n].call.v) = "arg"
      BY <1>3, <2>3 DEF TracesArg
    <3>2. FoundFlows(M, Flows, stack[n].call, frames[n].found)
      BY <1>5, <1>7, <2>1, <2>3, <3>1 DEF BodyFlows, FoundFlows
    <3>3. SeenFlows(M, Flows, stack[n].call, frames[n].seen)
      BY <3>1 DEF SeenFlows
    <3> QED BY <1>5, <2>1, <3>2, <3>3 DEF BodyFlows
  <2> QED BY <2>2, <2>3
<1>9. IsFiniteSet(S) /\ \A c \in S : c.fn \in {"collect", "getCallBases"} /\ c.to = to
  BY <1>1, <1>3, SiteTypes
<1>10. \A c \in S : CallFlows(M, Flows, t, i + 1, c)
  <2> TAKE c \in S
  <2>1. /\ c.fn = "getCallBases" => <<f, c.v>> \in Flows.carries
        /\ c.fn = "collect" => /\ c.n + 2 \in DOMAIN Inst(M, c.v).args
                               /\ <<f, ActualArg(M, c.v, c.n)>> \in Flows.carries
    BY <1>1, <1>4, SitesCarried
  <2>2. Owned(t, c.to) = f /\ c.fn \in {"collect", "getCallBases"}
    BY <1>3, <1>6, <1>9 DEF SameLinks, Owned
  <2> HIDE DEF f
  <2> QED BY <2>1, <2>2 DEF CallFlows
<1> HIDE DEF S
<1>11. \A n \in DOMAIN SetToSeq(S) : CallFlows(M, Flows, stack', Len(stack) + 2, SetToSeq(S)[n])
  BY <1>6, <1>9, <1>10, ListedFlows DEF t
<1> QED BY <1>1, <1>5, <1>8, <1>11, EnterFlows

\* A collector starts from the callee of its call.
LEMMA CollectFlows ==
  ASSUME Flowing, Next, NEW frames, Kept(stack, frames),
         \A i \in 1 .. Len(stack) : BodyFlows(M, Flows, stack, i, frames[i]),
         NEW call, BeginCollect(frames, call), call.fn = "collect", call.v \in Calls(M),
         Len(stack) > 0 => CallFlows(M, Flows, stack, Len(stack) + 1, call)
  PROVE  ActivationsFlow(M, Flows, stack')
<1> DEFINE L == Len(stack)
           i == L + 1
           c == traceValue(Callee(M, call.v), 0, 0)
           a == Activation(call, <<c>>, Len(collectors) + 1)
           t == stack'
<1>1. /\ TypesOK /\ IsStack(stack) /\ L \in Nat /\ IsSeq(frames) /\ Len(frames) = L
      /\ Apply(M, Flows) = Flows
  BY Acting, FlowsClosed DEF Kept, IsStack, Flowing
<1>2. stack' = Append(frames, a)
  BY DEF BeginCollect
<1>3. Grown(stack, stack', call, Len(collectors) + 1)
  BY <1>1, GrownOne DEF BeginCollect
<1>4. a.call = call /\ a.todo = <<c>> /\ a.found = {} /\ a.seen = {} /\ a.level = Len(collectors) + 1
  BY DEF Activation
<1>5. c.fn = "traceValue" /\ c.v = Callee(M, call.v) /\ c.n = 0 /\ c.to = 0
  BY CallFields DEF traceValue
<1> HIDE DEF a, c
<1>6. t[i] = a /\ \A n \in 1 .. L : t[n] = frames[n]
  BY <1>1, <1>2, Pushed
<1>7. CallFlows(M, Flows, t, i + 1, c)
  <2>1. \A j \in 1 .. i : t[j].level = t[i].level => j = i
    <3>1. \A j \in 1 .. L : t[j].level = stack[j].level
      BY <1>3 DEF Grown, Later
    <3>2. Len(collectors) \in Nat /\ \A j \in 1 .. L : stack[j].level \in 1 .. Len(collectors)
      BY <1>1, SeqShape DEF TypesOK, StackOK, CollectorsOK, LevelsOK
    <3>3. \A j \in 1 .. i : j \in 1 .. L \/ j = i
      BY <1>1
    <3>4. t[i].level = Len(collectors) + 1
      BY <1>4, <1>6
    <3> HIDE DEF t, L
    <3> QED BY <3>1, <3>2, <3>3, <3>4
  <2>2. Callee(M, call.v) \in Starts(M)
    BY DEF Starts
  <2>3. <<Callee(M, call.v), Callee(M, call.v), 0>> \in Flows.traces
    BY <1>1, <2>2, TracesRules
  <2>4. t[i].call = call /\ (i + 1) - 1 = i /\ 0 \in 0 .. i
    BY <1>1, <1>4, <1>6
  <2>5. \A j \in 1 .. i : t[j].level = t[i].level => <<Callee(M, t[j].call.v), c.v, c.n>> \in Flows.traces
    BY <1>5, <2>1, <2>3, <2>4
  <2> HIDE DEF t, i
  <2> QED BY <1>5, <2>4, <2>5 DEF CallFlows
<1>8. BodyFlows(M, Flows, t, i, a)
  <2>1. FoundFlows(M, Flows, t[i].call, {}) /\ SeenFlows(M, Flows, t[i].call, {})
    BY DEF FoundFlows, SeenFlows
  <2> HIDE DEF t, i
  <2> QED BY <1>4, <1>7, <2>1, OneFlow DEF BodyFlows
<1>9. \A n \in 1 .. L : BodyFlows(M, Flows, stack, n, stack'[n])
  BY <1>6
<1>10. BodyFlows(M, Flows, stack', L + 1, stack'[L + 1])
  BY <1>6, <1>8
<1> QED BY <1>3, <1>9, <1>10, FlowsGrown

LEMMA CollectNextFlows ==
  ASSUME Flowing, Next, CollectNext
  PROVE  ActivationsFlow(M, Flows, stack')
<1>1. PICK c \in pending : BeginCollect(<<>>, collect(c, 0, 0))
  BY DEF CollectNext
<1> DEFINE call == collect(c, 0, 0)
<1>2. stack = <<>> /\ Len(stack) = 0 /\ IsStack(stack) /\ TypesOK
  BY EmptySeq, Acting DEF CollectNext, Flowing
<1>3. call.fn = "collect" /\ call.v = c /\ c \in Calls(M)
  BY <1>2, CallFields DEF collect, TypesOK
<1>4. Kept(stack, <<>>) /\ \A i \in 1 .. Len(stack) : FALSE
  BY <1>2, KeptSame
<1>5. BeginCollect(<<>>, call) /\ ~ (Len(stack) > 0)
  BY <1>1, <1>2
<1> HIDE DEF call
<1> QED BY <1>3, <1>4, <1>5, CollectFlows

LEMMA CollectNestedFlows ==
  ASSUME Flowing, Next, CollectNested
  PROVE  ActivationsFlow(M, Flows, stack')
<1>1. Calling("collect") /\ BeginCollect(Called, Head(Top.todo)) /\ TypesOK
  BY DEF CollectNested, Flowing
<1>2. /\ CallOK(M, stack, Len(stack) + 1, Head(Top.todo)) /\ Head(Top.todo).fn = "collect"
      /\ Kept(stack, Called) /\ \A n \in 1 .. Len(stack) : BodyFlows(M, Flows, stack, n, Called[n])
      /\ CallFlows(M, Flows, stack, Len(stack) + 1, Head(Top.todo))
  BY <1>1, NextCall, NextFlows
<1>3. Head(Top.todo).v \in Calls(M)
  BY <1>2 DEF CallOK
<1> QED BY <1>1, <1>2, <1>3, CollectFlows

-----------------------------------------------------------------------------
(***************************************************************************)
(* On the way back.                                                        *)
(***************************************************************************)
LEMMA FlowsChanged ==
  ASSUME NEW m, NEW F, NEW s, NEW i, NEW a, IsActivation(a), BodyFlows(m, F, s, i, a), NEW x
  PROVE  /\ (\A n \in DOMAIN x : CallFlows(m, F, s, i + 1, x[n])) =>
              BodyFlows(m, F, s, i, [a EXCEPT !.todo = x])
         /\ BodyFlows(m, F, s, i, [a EXCEPT !.stage = x])
         /\ FoundFlows(m, F, s[i].call, x) => BodyFlows(m, F, s, i, [a EXCEPT !.found = x])
         /\ SeenFlows(m, F, s[i].call, x) => BodyFlows(m, F, s, i, [a EXCEPT !.seen = x])
         /\ BodyFlows(m, F, s, i, [a EXCEPT !.offset = x])
BY FieldValues DEF BodyFlows

LEMMA TakeUpFlows ==
  ASSUME Flowing, Next, stack # <<>>, NEW todo, TakeUp(todo),
         \A n \in DOMAIN todo : CallFlows(M, Flows, stack, Len(stack) + 1, todo[n])
  PROVE  ActivationsFlow(M, Flows, stack')
<1> DEFINE L == Len(stack)
           a == [stack[L] EXCEPT !.todo = todo]
           b == [a EXCEPT !.stage = 2]
<1>1. /\ L \in 1 .. L /\ L \in Nat /\ IsStack(stack) /\ IsActivation(stack[L])
      /\ \A i \in 1 .. L : BodyFlows(M, Flows, stack, i, stack[i])
  BY Acting DEF Flowing, ActivationsFlow
<1>2. Kept(stack, stack')
  BY TakenUp DEF TypesOK, Flowing
<1>3. stack' = [stack EXCEPT ![L] = b]
  BY DEF TakeUp, Depth
<1>4. BodyFlows(M, Flows, stack, L, a) /\ IsActivation(a)
  BY <1>1, FlowsChanged, FieldsChanged DEF Later
<1> HIDE DEF a
<1>5. BodyFlows(M, Flows, stack, L, b)
  BY <1>4, FlowsChanged
<1> HIDE DEF b
<1>6. \A i \in 1 .. L : stack'[i] = IF i = L THEN b ELSE stack[i]
  BY <1>1, <1>3, Replaced DEF IsStack
<1>7. \A i \in 1 .. L : BodyFlows(M, Flows, stack, i, stack'[i])
  BY <1>1, <1>5, <1>6
<1> QED BY <1>2, <1>7, FlowsKept

LEMMA PoppedFlows ==
  ASSUME Flowing, Next, stack # <<>>, Top.call.fn # "collect" \/ Len(stack) > 1,
         NEW n \in 1 .. Len(stack) - 1, NEW b, Later(stack[n], b),
         BodyFlows(M, Flows, stack, n, b), stack' = [Popped EXCEPT ![n] = b]
  PROVE  ActivationsFlow(M, Flows, stack')
<1> DEFINE L == Len(stack)
<1>1. /\ L \in Nat /\ L > 0 /\ IsStack(stack) /\ Shrunk(stack, Popped) /\ IsStack(Popped)
      /\ Len(Popped) = L - 1 /\ \A i \in 1 .. L - 1 : Popped[i] = stack[i]
  BY Caller DEF Flowing
<1>2. Kept(Popped, stack')
  <2>1. Later(Popped[n], b)
    BY <1>1
  <2> QED BY <1>1, <2>1, KeptOne
<1>3. Shrunk(stack, stack')
  BY <1>1, <1>2, ShrunkKept
<1>4. \A i \in 1 .. L - 1 : stack'[i] = IF i = n THEN b ELSE stack[i]
  <2>1. \A i \in 1 .. L - 1 : stack'[i] = IF i = n THEN b ELSE Popped[i]
    BY <1>1, Replaced DEF IsStack
  <2> QED BY <1>1, <2>1
<1>5. \A i \in 1 .. L - 1 : BodyFlows(M, Flows, stack, i, stack'[i])
  <2>1. \A i \in 1 .. L - 1 : i \in 1 .. L
    BY <1>1
  <2> QED BY <1>4, <2>1 DEF Flowing, ActivationsFlow
<1> QED BY <1>3, <1>5, FlowsShrunk

LEMMA JustPoppedFlows ==
  ASSUME Flowing, Next, stack # <<>>, Top.call.fn # "collect" \/ Len(stack) > 1, stack' = Popped
  PROVE  ActivationsFlow(M, Flows, stack')
<1>1. /\ Len(stack) \in Nat /\ Shrunk(stack, stack')
      /\ \A i \in 1 .. Len(stack) - 1 : stack'[i] = stack[i]
  BY Caller DEF Flowing
<1>2. \A i \in 1 .. Len(stack) - 1 : i \in 1 .. Len(stack)
  BY <1>1
<1> QED BY <1>1, <1>2, FlowsShrunk DEF Flowing, ActivationsFlow

LEMMA HandUpFlows ==
  ASSUME Flowing, Next, stack # <<>>, Top.call.fn # "collect", NEW results, HandUp(results),
         FoundFlows(M, Flows, stack[Len(stack) - 1].call, results)
  PROVE  ActivationsFlow(M, Flows, stack')
<1> DEFINE n == Len(stack) - 1
           a == stack[n]
           b == [a EXCEPT !.found = a.found \cup results]
<1>1. n \in 1 .. n /\ IsActivation(a) /\ Popped[n] = a /\ n \in 1 .. Len(stack)
  BY Caller DEF Flowing
<1>2. BodyFlows(M, Flows, stack, n, a)
  BY <1>1 DEF Flowing, ActivationsFlow
<1>3. stack' = [Popped EXCEPT ![n] = b]
  BY <1>1 DEF HandUp, Depth
<1>4. FoundFlows(M, Flows, a.call, a.found \cup results)
  BY <1>2 DEF BodyFlows, FoundFlows
<1>5. BodyFlows(M, Flows, stack, n, b) /\ Later(a, b)
  BY <1>1, <1>2, <1>4, FlowsChanged, FieldsChanged
<1> HIDE DEF b, n
<1> QED BY <1>1, <1>3, <1>5, PoppedFlows DEF n

\* How the activation on top was called.
LEMMA CalledBy ==
  ASSUME Flowing, stack # <<>>, Top.call.fn # "collect"
  PROVE  /\ CallFlows(M, Flows, stack, Len(stack), Top.call)
         /\ BodyFlows(M, Flows, stack, Len(stack), Top)
         /\ stack[Len(stack)].level = stack[Len(stack) - 1].level
         /\ stack[Len(stack)].level = Len(collectors) /\ stack[Len(stack)].call = Top.call
<1> DEFINE L == Len(stack)
<1>1. L \in Nat /\ L - 1 \in 1 .. L - 1 /\ Top = stack[L]
  BY Caller DEF Flowing
<1>2. L \in 1 .. L /\ L \in 2 .. L /\ L > 1 /\ L > 0
  BY <1>1
<1>3. LinkFlows(M, Flows, stack, L) /\ BodyFlows(M, Flows, stack, L, stack[L])
  BY <1>2 DEF Flowing, ActivationsFlow
<1>4. LevelsOK(stack, Len(collectors))
  BY DEF Flowing, TypesOK, StackOK
<1>5. stack[L].level = Len(collectors)
  BY <1>2, <1>4 DEF LevelsOK
<1>6. stack[L].level = stack[L - 1].level + 0
  BY <1>1, <1>2, <1>4 DEF LevelsOK
<1>7. stack[L - 1].level \in Int
  <2>1. L - 1 \in 1 .. L
    BY <1>1
  <2> HIDE DEF L
  <2> QED BY <2>1, <1>4 DEF LevelsOK, L
<1> QED BY <1>1, <1>2, <1>3, <1>5, <1>6, <1>7 DEF LinkFlows

LEMMA UseFoundFlows ==
  ASSUME Flowing, Next, UseFound
  PROVE  ActivationsFlow(M, Flows, stack')
<1> DEFINE L == Len(stack)
           call == Top.call
           v == call.v
           To(w) == [call EXCEPT !.v = w]
<1>1. stack # <<>> /\ call.fn = "traceValue" /\ L < MaxDepth
  BY DEF UseFound, Returning, Running, Depth
<1>2. /\ TypesOK /\ IsModule(M) /\ Apply(M, Flows) = Flows /\ L \in Nat /\ L > 1
      /\ CallOK(M, stack, L, call) /\ BodyOK(M, stack, L, Top)
  BY <1>1, Caller, FlowsClosed DEF Flowing
<1>3. /\ CallFlows(M, Flows, stack, L, call) /\ FoundFlows(M, Flows, call, Top.found)
      /\ stack[L].level = stack[L - 1].level /\ stack[L].call = call
  BY <1>1, CalledBy DEF BodyFlows
<1>4. IsCall(call) /\ call.n \in 0 .. L - 1 /\ call.n \in 0 .. L /\ call.n \in Nat /\ call.n <= MaxDepth
  <2>1. IsCall(call) /\ call.n \in 0 .. L - 1
    BY <1>1, <1>2, <1>3 DEF CallFlows, CallOK
  <2> QED BY <1>1, <1>2, <2>1, MaxDepthAssumption
<1>5. SameLinks(stack, stack, L - 1)
  BY DEF SameLinks
<1>6. FoundOK(M, call, Top.found)
  BY <1>2, <1>3 DEF BodyOK
<1> HIDE DEF call, L
<1>7. ASSUME NEW w, <<w, call.n>> \in Sources(M, Flows, v, call.n)
      PROVE  CallFlows(M, Flows, stack, L + 1, To(w))
  <2> DEFINE c == To(w)
  <2>1. c.fn = "traceValue" /\ c.v = w /\ c.n = call.n /\ c.to = call.to
    BY <1>1, <1>4 DEF IsCall
  <2>2. \A u : <<u, v, call.n>> \in Flows.traces => <<u, w, call.n>> \in Flows.traces
    BY <1>2, <1>4, <1>7, TracesRules
  <2> HIDE DEF c
  <2>3. CallFlows(M, Flows, stack, L + 1, c)
    BY <1>1, <1>2, <1>3, <1>4, <1>5, <2>1, <2>2, TracedOn
  <2> QED BY <2>3 DEF c
<1>8. ASSUME NEW S, S \subseteq Insts(M), NEW f, DOMAIN f = S,
             \A x \in S : <<f[x], call.n>> \in Sources(M, Flows, v, call.n),
             TakeUp(SetToSeq({To(f[x]) : x \in S}))
      PROVE  ActivationsFlow(M, Flows, stack')
  <2> DEFINE R == {To(f[x]) : x \in S}
             g == [x \in S |-> To(f[x])]
  <2>1. IsFiniteSet(S)
    <3>1. S \subseteq Values(M)
      BY <1>2, <1>8, InstShape
    <3> QED BY <1>2, <3>1, FiniteValues
  <2>2. DOMAIN g = S /\ R = {g[x] : x \in S}
    OBVIOUS
  <2>3. \A c \in R : \E x \in S : c = To(f[x])
    OBVIOUS
  <2> HIDE DEF g, R, To, v
  <2>4. IsFiniteSet(R)
    BY <2>1, <2>2, FiniteImage
  <2>5. \A c \in R : CallFlows(M, Flows, stack, L + 1, c)
    BY <1>7, <1>8, <2>3
  <2>6. \A n \in DOMAIN SetToSeq(R) : CallFlows(M, Flows, stack, Len(stack) + 1, SetToSeq(R)[n])
    BY <2>4, <2>5, ListedFlows DEF L
  <2> QED BY <1>1, <1>8, <2>6, TakeUpFlows DEF R
<1>9. CASE /\ Op(M, v) = "load"
           /\ TakeUp(SetToSeq({To(Inst(M, s).args[1]) : s \in Top.found}))
  <2> DEFINE S == Top.found
             f == [s \in S |-> Inst(M, s).args[1]]
  <2>1. S \subseteq Insts(M)
    BY <1>1, <1>6, <1>9 DEF FoundOK, TracesGep, TracesArg, Stores
  <2>2. \A x \in S : <<f[x], call.n>> \in Sources(M, Flows, v, call.n)
    <3>1. S \subseteq From(Flows.stores, Inst(M, v).args[1])
      BY <1>1, <1>3, <1>9 DEF FoundFlows
    <3> QED BY <1>9, <3>1 DEF Sources
  <2>3. {To(Inst(M, s).args[1]) : s \in S} = {To(f[x]) : x \in S} /\ DOMAIN f = S
    OBVIOUS
  <2> HIDE DEF f, To, S
  <2>4. TakeUp(SetToSeq({To(f[x]) : x \in S}))
    BY <1>9, <2>3 DEF S
  <2> QED BY <1>8, <2>1, <2>2, <2>3, <2>4
<1>10. CASE /\ Op(M, v) = "arg"
            /\ \A c \in Top.found : v[4] + 2 \in DOMAIN Inst(M, c).args
            /\ TakeUp(SetToSeq({To(ActualArg(M, c, v[4])) : c \in Top.found}))
  <2> DEFINE S == Top.found
             f == [c \in S |-> ActualArg(M, c, v[4])]
  <2>1. S \subseteq Insts(M)
    BY <1>1, <1>6, <1>10 DEF FoundOK, TracesGep, TracesArg
  <2>2. \A x \in S : <<f[x], call.n>> \in Sources(M, Flows, v, call.n)
    <3>1. S \subseteq {c \in Calls(M) : <<v[2], Callee(M, c)>> \in Flows.carries}
      BY <1>1, <1>3, <1>10 DEF FoundFlows
    <3>2. \A x \in S : f[x] \in Given(M, Flows, v)
      BY <1>10, <3>1 DEF Given
    <3> HIDE DEF f, S
    <3> QED BY <1>10, <3>2 DEF Sources
  <2>3. {To(ActualArg(M, c, v[4])) : c \in S} = {To(f[x]) : x \in S} /\ DOMAIN f = S
    OBVIOUS
  <2> HIDE DEF f, To, S
  <2>4. TakeUp(SetToSeq({To(f[x]) : x \in S}))
    BY <1>10, <2>3 DEF S
  <2> QED BY <1>8, <2>1, <2>2, <2>3, <2>4
<1> QED BY <1>9, <1>10 DEF UseFound, call

LEMMA AskSiblingsFlows ==
  ASSUME Flowing, Next, AskSiblings
  PROVE  ActivationsFlow(M, Flows, stack')
<1> DEFINE L == Len(stack)
           call == Top.call
           c(b) == findSiblingGEPs(b[1], Top.offset, b[2])
           S == Top.seen
           R == {c(b) : b \in S}
           g == [b \in S |-> c(b)]
<1>1. stack # <<>> /\ call.fn = "traceMemory" /\ TakeUp(SetToSeq(R))
  BY DEF AskSiblings, Returning
<1>2. /\ TypesOK /\ IsModule(M) /\ L \in Nat /\ BodyOK(M, stack, L, Top)
      /\ BodyFlows(M, Flows, stack, L, Top) /\ stack[L].call = call
  BY <1>1, Acting, CalledBy DEF Flowing
<1>3. S \subseteq Values(M) \X Values(M)
  BY <1>1, <1>2 DEF BodyOK, SeenOK
<1>4. IsFiniteSet(S)
  BY <1>2, <1>3, FiniteValues
<1>5. \A b \in S : c(b).fn = "findSiblingGEPs" /\ c(b).v = b[1]
  BY CallFields DEF findSiblingGEPs
<1>6. \A b \in S : Op(M, b[1]) = "alloca" /\ b[1] \in From(Flows.traces, call.v)
  BY <1>1, <1>2 DEF BodyFlows, SeenFlows
<1>7. DOMAIN g = S /\ R = {g[b] : b \in S} /\ \A x \in R : \E b \in S : x = c(b)
  OBVIOUS
<1> HIDE DEF c, R, g, S, call, L
<1>8. IsFiniteSet(R)
  BY <1>4, <1>7, FiniteImage
<1>9. \A x \in R : CallFlows(M, Flows, stack, L + 1, x)
  <2> TAKE x \in R
  <2>1. x.fn = "findSiblingGEPs" /\ Op(M, x.v) = "alloca" /\ x.v \in From(Flows.traces, call.v)
    BY <1>5, <1>6, <1>7
  <2>2. (L + 1) - 1 = L
    BY <1>2
  <2> QED BY <1>1, <1>2, <2>1, <2>2 DEF CallFlows
<1>10. \A n \in DOMAIN SetToSeq(R) : CallFlows(M, Flows, stack, Len(stack) + 1, SetToSeq(R)[n])
  BY <1>8, <1>9, ListedFlows DEF L
<1> QED BY <1>1, <1>10, TakeUpFlows

LEMMA Operating ==
  ASSUME NEW m, NEW u \in Insts(m), NEW v \in ToSet(Inst(m, u).args)
  PROVE  v \in Operated(m)
BY DEF Operated

\* What traceMemory is called with is an operand.
LEMMA AddressOperated ==
  ASSUME Flowing, NEW i \in 1 .. Len(stack), stack[i].call.fn = "traceMemory"
  PROVE  i > 1 /\ stack[i].call.v \in Operated(M)
<1>1. IsModule(M) /\ Len(stack) \in Nat /\ LinkOK(M, stack, i)
  BY Acting DEF Flowing
<1>2. i > 1
  <2>1. Len(stack) > 0
    BY <1>1
  <2>2. stack[1].call.fn = "collect"
    BY <2>1 DEF Flowing, TypesOK, StackOK, LevelsOK
  <2> QED BY <1>1, <2>2
<1> DEFINE by == stack[i - 1].call
           v == stack[i].call.v
<1>3. MayCall(M, by, "traceMemory") /\ CallFlows(M, Flows, stack, i, stack[i].call)
  BY <1>1, <1>2 DEF LinkOK, Flowing, ActivationsFlow, LinkFlows
<1>4. CallOK(M, stack, i - 1, by)
  <2>1. i - 1 \in 1 .. Len(stack)
    BY <1>1, <1>2
  <2> QED BY <2>1, Acting DEF LinkOK, Flowing
<1> HIDE DEF by
<1>5. CASE by.fn = "traceValue" /\ Op(M, by.v) = "load"
  <2>1. by.v \in Values(M)
    BY <1>4, <1>5 DEF CallOK, Switches
  <2>2. by.v \in Insts(M)
    BY <1>1, <1>5, <2>1, ValueOps DEF InstOps
  <2>3. v = Inst(M, by.v).args[1]
    BY <1>3, <1>5 DEF CallFlows, by
  <2>4. v \in ToSet(Inst(M, by.v).args)
    BY <1>1, <1>5, <2>2, <2>3, FirstOperand
  <2> QED BY <1>2, <2>2, <2>4, Operating
<1>6. CASE by.fn = "traceMemory" /\ Op(M, by.v) = "phi"
  <2>1. by.v \in Values(M)
    BY <1>4, <1>6 DEF CallOK, Switches
  <2>2. by.v \in Insts(M)
    BY <1>1, <1>6, <2>1, ValueOps DEF InstOps
  <2>3. v \in ToSet(Inst(M, by.v).args)
    BY <1>3, <1>6 DEF CallFlows, by
  <2> QED BY <1>2, <2>2, <2>3, Operating
<1> QED BY <1>3, <1>5, <1>6 DEF MayCall, Switches

\* What traceMemory hands up are writers of its address.
LEMMA MemoryFlows ==
  ASSUME Flowing, stack # <<>>, Top.call.fn = "traceMemory", NEW s,
         \/ Op(M, Top.call.v) = "gep" /\ s \in Unkilled(PossibleStores(Top.found, Top.call.by))
         \/ Op(M, Top.call.v) = "phi" /\ s \in Top.found
         \/ Op(M, Top.call.v) \notin {"gep", "phi"} /\ s \in findStoresTo(Top.call.v, Top.call.by)
  PROVE  s \in From(Flows.stores, Top.call.v)
<1> DEFINE v == Top.call.v
           L == Len(stack)
<1>1. /\ TypesOK /\ Apply(M, Flows) = Flows /\ FoundFlows(M, Flows, Top.call, Top.found)
      /\ L \in 1 .. L /\ stack[L].call = Top.call
  BY FlowsClosed, CalledBy, Acting DEF Flowing, BodyFlows
<1>2. v \in Operated(M)
  <2>1. stack[L].call.fn = "traceMemory"
    BY <1>1
  <2> HIDE DEF L
  <2> QED BY <1>1, <2>1, AddressOperated DEF L
<1>3. CASE Op(M, v) = "gep" /\ s \in Unkilled(PossibleStores(Top.found, Top.call.by))
  <2>1. PICK g \in Top.found : s \in findStoresTo(g[1], Top.call.by)
    <3>1. PICK x \in PossibleStores(Top.found, Top.call.by) : s = x[1]
      BY <1>3 DEF Unkilled
    <3>2. PICK g \in Top.found :
            x \in {<<y, IF g[2] = Null THEN y ELSE g[2]>> : y \in findStoresTo(g[1], Top.call.by)}
      BY <3>1 DEF PossibleStores
    <3> QED BY <3>1, <3>2
  <2>2. s \in UsersOf(M, g[1], "store")
    BY <2>1 DEF findStoresTo
  <2>3. PICK b \in From(Flows.traces, v) : Op(M, b) = "alloca" /\ g[1] \in From(Flows.derives, b)
    BY <1>1, <1>3 DEF FoundFlows
  <2>4. s \in Writers(M, Flows, v)
    BY <1>3, <2>2, <2>3 DEF Writers
  <2> QED BY <1>1, <1>2, <2>4, StoresRules
<1>4. CASE Op(M, v) = "phi" /\ s \in Top.found
  BY <1>1, <1>4 DEF FoundFlows
<1>5. CASE Op(M, v) \notin {"gep", "phi"} /\ s \in findStoresTo(v, Top.call.by)
  <2>1. s \in Writers(M, Flows, v)
    BY <1>5 DEF Writers, findStoresTo
  <2> QED BY <1>1, <1>2, <2>1, StoresRules
<1> QED BY <1>3, <1>4, <1>5

LEMMA EndMemoryFlows ==
  ASSUME Flowing, Next, EndMemory
  PROVE  ActivationsFlow(M, Flows, stack')
<1> DEFINE L == Len(stack)
           n == L - 1
           c == stack[n].call
           call == Top.call
<1>1. stack # <<>> /\ call.fn = "traceMemory"
  BY DEF EndMemory, Returning
<1>2. /\ TypesOK /\ IsModule(M) /\ Apply(M, Flows) = Flows /\ MayCall(M, c, "traceMemory")
      /\ CallFlows(M, Flows, stack, L, call) /\ n \in 1 .. L /\ LinkOK(M, stack, n)
  BY <1>1, Caller, CalledBy, FlowsClosed, Acting DEF Flowing
<1>3. PICK results : /\ HandUp(results)
                     /\ \A s \in results : s \in From(Flows.stores, call.v)
  <2>1. CASE Op(M, call.v) = "gep" /\ HandUp(Unkilled(PossibleStores(Top.found, call.by)))
    BY <1>1, <2>1, MemoryFlows
  <2>2. CASE Op(M, call.v) = "phi" /\ HandUp(Top.found)
    BY <1>1, <2>2, MemoryFlows
  <2>3. CASE Op(M, call.v) \notin {"gep", "phi"} /\ HandUp(findStoresTo(call.v, call.by))
    BY <1>1, <2>3, MemoryFlows
  <2> QED BY <2>1, <2>2, <2>3 DEF EndMemory
<1>4. c.v \in Values(M)
  BY <1>2 DEF LinkOK, CallOK
<1>5. c.fn = "traceMemory" => c.v \in Operated(M)
  <2> HIDE DEF n
  <2>1. ASSUME c.fn = "traceMemory" PROVE c.v \in Operated(M)
    BY <1>2, <2>1, AddressOperated
  <2> QED BY <2>1
<1> HIDE DEF c, call
<1>6. FoundFlows(M, Flows, c, results)
  <2>1. CASE c.fn = "traceValue" /\ Op(M, c.v) = "load"
    <3>1. call.v = Inst(M, c.v).args[1]
      BY <1>1, <1>2, <2>1 DEF CallFlows, c
    <3> QED BY <1>3, <2>1, <3>1 DEF FoundFlows
  <2>2. CASE c.fn = "traceMemory" /\ Op(M, c.v) = "phi"
    <3>1. call.v \in ToSet(Inst(M, c.v).args)
      BY <1>1, <1>2, <2>2 DEF CallFlows, c
    <3>2. \A s \in results : s \in Writers(M, Flows, c.v)
      BY <1>3, <2>2, <3>1 DEF Writers
    <3>3. \A s \in results : s \in From(Flows.stores, c.v)
      BY <1>2, <1>5, <2>2, <3>2, StoresRules
    <3> QED BY <2>2, <3>3 DEF FoundFlows
  <2> QED BY <1>2, <2>1, <2>2 DEF MayCall, Switches
<1> QED BY <1>1, <1>3, <1>6, HandUpFlows DEF c, call

\* What findSiblingGEPs is called with is an operand.
LEMMA BaseOperated ==
  ASSUME NEW m, IsModule(m), NEW b, UsersOf(m, b, "gep") # {} \/ Derived(m, b) # {}
  PROVE  b \in Operated(m)
<1>1. \A op : \A u \in UsersOf(m, b, op) : b \in Operated(m)
  BY UsersAreInsts, Operating
<1> QED BY <1>1 DEF Derived

LEMMA EndSiblingsFlows ==
  ASSUME Flowing, Next, EndSiblings
  PROVE  ActivationsFlow(M, Flows, stack')
<1> DEFINE L == Len(stack)
           n == L - 1
           c == stack[n].call
           call == Top.call
           own == {g \in UsersOf(M, call.v, "gep") : Inst(M, g).n = call.n}
           results == Top.found \cup {<<g, call.by>> : g \in own}
<1>1. stack # <<>> /\ call.fn = "findSiblingGEPs" /\ HandUp(results)
  BY DEF EndSiblings, Returning
<1>2. /\ TypesOK /\ IsModule(M) /\ Apply(M, Flows) = Flows /\ MayCall(M, c, "findSiblingGEPs")
      /\ CallFlows(M, Flows, stack, L, call) /\ FoundFlows(M, Flows, call, Top.found)
      /\ stack[L].call = call
  BY <1>1, Caller, CalledBy, FlowsClosed DEF Flowing, BodyFlows
<1> HIDE DEF c, call
<1>3. \A x \in results : x[1] \in From(Flows.derives, call.v)
  <2>1. \A g \in own : g \in From(Flows.derives, call.v)
    <3> TAKE g \in own
    <3>1. g \in UsersOf(M, call.v, "gep")
      OBVIOUS
    <3>2. call.v \in Operated(M)
      BY <1>2, <3>1, BaseOperated
    <3> QED BY <1>2, <3>1, <3>2, DerivesRules
  <2>2. \A x \in Top.found : x[1] \in From(Flows.derives, call.v)
    BY <1>1, <1>2 DEF FoundFlows
  <2> HIDE DEF own
  <2> QED BY <2>1, <2>2
<1> HIDE DEF results
<1>4. FoundFlows(M, Flows, c, results)
  <2>1. CASE c.fn = "traceMemory" /\ Op(M, c.v) = "gep"
    <3>1. Op(M, call.v) = "alloca" /\ call.v \in From(Flows.traces, c.v)
      BY <1>1, <1>2, <2>1 DEF CallFlows, c
    <3> QED BY <1>3, <2>1, <3>1 DEF FoundFlows
  <2>2. CASE c.fn = "findSiblingGEPs"
    <3>1. call.v \in Derived(M, c.v)
      BY <1>1, <1>2, <2>2 DEF CallFlows, c
    <3>2. c.v \in Operated(M)
      BY <1>2, <3>1, BaseOperated
    <3>3. \A x \in results : x[1] \in From(Flows.derives, c.v)
      BY <1>2, <1>3, <3>1, <3>2, DerivesRules
    <3> QED BY <2>2, <3>3 DEF FoundFlows
  <2> QED BY <1>2, <2>1, <2>2 DEF MayCall, Switches
<1> QED BY <1>1, <1>4, HandUpFlows DEF c, call

LEMMA EndSitesFlows ==
  ASSUME Flowing, Next, EndSites
  PROVE  ActivationsFlow(M, Flows, stack')
BY JustPoppedFlows DEF EndSites, Returning

LEMMA EndTraceFlows ==
  ASSUME Flowing, Next, EndTrace
  PROVE  ActivationsFlow(M, Flows, stack')
<1> DEFINE L == Len(stack)
           call == Top.call
           v == call.v
           to == call.to
           a == stack[to]
           b == collectBases(a, v)
<1>1. stack # <<>> /\ call.fn = "traceValue"
  BY DEF EndTrace, Returning
<1>2. /\ L \in Nat /\ L > 0 /\ CallOK(M, stack, L, call) /\ CallFlows(M, Flows, stack, L, call)
      /\ \A i \in 1 .. L - 1 : Popped[i] = stack[i] /\ IsActivation(stack[i])
  BY <1>1, Caller, CalledBy DEF Flowing
<1>3. CASE stack' = Popped
  BY <1>1, <1>3, JustPoppedFlows
<1>4. CASE to # 0 /\ stack' = [Popped EXCEPT ![to] = collectBases(@, v)]
  <2>1. to \in 1 .. L - 1 /\ to \in 1 .. L
    BY <1>2, <1>4 DEF CallOK
  <2>2. IsActivation(a) /\ Popped[to] = a /\ BodyFlows(M, Flows, stack, to, a)
    BY <1>2, <2>1 DEF Flowing, ActivationsFlow
  <2>3. stack' = [Popped EXCEPT ![to] = b]
    BY <1>4, <2>2
  <2>4. v \in From(Flows.traces, a.call.v)
    <3>1. <<a.call.v, v, call.n>> \in Flows.traces
      BY <1>1, <1>2, <1>4 DEF CallFlows
    <3> QED BY <3>1, RelatedTriples
  <2>5. Later(a, b) /\ BodyFlows(M, Flows, stack, to, b)
    <3>1. CASE Op(M, v) = "gep"
      <4> DEFINE x == Wrap(a.offset + Inst(M, v).n)
      <4>1. b = [a EXCEPT !.offset = x]
        BY <3>1 DEF collectBases
      <4> HIDE DEF b, x
      <4> QED BY <2>2, <4>1, FieldsChanged, FlowsChanged
    <3>2. CASE Op(M, v) = "alloca"
      <4> DEFINE w == IF SameBlock(v, a.call.by) THEN Null ELSE LastTraced(a.call.by)
                 x == a.seen \cup {<<v, w>>}
      <4>1. b = [a EXCEPT !.seen = x]
        BY <3>2 DEF collectBases
      <4>2. SeenFlows(M, Flows, a.call, x)
        <5>1. SeenFlows(M, Flows, a.call, a.seen)
          BY <2>2 DEF BodyFlows
        <5>2. <<v, w>>[1] = v
          OBVIOUS
        <5> HIDE DEF w
        <5> QED BY <2>4, <3>2, <5>1, <5>2 DEF SeenFlows
      <4> HIDE DEF b, x, a
      <4>3. SeenFlows(M, Flows, stack[to].call, x)
        BY <4>2 DEF a
      <4> QED BY <2>2, <4>1, <4>3, FieldsChanged, FlowsChanged
    <3>3. CASE Op(M, v) \notin {"gep", "alloca"}
      <4>1. b = a
        BY <3>3 DEF collectBases
      <4> QED BY <2>2, <4>1 DEF Later
    <3> QED BY <3>1, <3>2, <3>3
  <2> HIDE DEF b, to
  <2> QED BY <1>1, <2>1, <2>3, <2>5, PoppedFlows
<1> QED BY <1>3, <1>4 DEF EndTrace

LEMMA InJoined ==
  ASSUME NEW s, IsSeq(s), NEW t, IsSeq(t), NEW k \in DOMAIN (s \o t)
  PROVE  (\E j \in DOMAIN s : (s \o t)[k] = s[j]) \/ (\E j \in DOMAIN t : (s \o t)[k] = t[j])
<1>1. Len(s) \in Nat /\ Len(t) \in Nat /\ DOMAIN s = 1 .. Len(s) /\ DOMAIN t = 1 .. Len(t)
  BY SeqShape
<1>2. /\ IsSeq(s \o t) /\ Len(s \o t) = Len(s) + Len(t)
      /\ \A i \in 1 .. Len(s) + Len(t) :
           (s \o t)[i] = IF i <= Len(s) THEN s[i] ELSE t[i - Len(s)]
  BY Joined
<1>3. k \in 1 .. Len(s) + Len(t)
  BY <1>2, SeqShape
<1>4. CASE k <= Len(s)
  BY <1>1, <1>2, <1>3, <1>4
<1>5. CASE ~ (k <= Len(s))
  <2>1. k - Len(s) \in DOMAIN t
    BY <1>1, <1>3, <1>5
  <2> QED BY <1>2, <1>3, <1>5, <2>1
<1> QED BY <1>4, <1>5

\* A parameter of a function that a nested collector has found carries what is
\* passed for it.
LEMMA FormalsCarried ==
  ASSUME NEW m, IsModule(m), NEW F, Apply(m, F) = F, NEW c \in Calls(m), NEW n \in Nat,
         n + 2 \in DOMAIN Inst(m, c).args, NEW f \in DOMAIN m.fn, f \in Callable(m, F, c),
         n < m.fn[f].arity, NEW g, <<g, ActualArg(m, c, n)>> \in F.carries
  PROVE  <<g, Arg(f, n)>> \in F.carries
<1> DEFINE w == ActualArg(m, c, n)
           a == Arg(f, n)
<1>1. a[2] = f /\ a[4] = n
  BY DEF Arg
<1>2. a \in Arguments(m)
  <2>1. n \in 0 .. m.fn[f].arity - 1
    BY DEF IsModule
  <2> QED BY <2>1 DEF Arguments
<1> HIDE DEF a
<1>3. a \in Formals(m, c, w, Callable(m, F, c))
  BY <1>1, <1>2 DEF Formals
<1>4. c \in UsersOf(m, w, "call")
  BY DEF Calls, UsersOf, Users, ToSet, ActualArg
<1>5. a \in Carriers(m, F, w)
  <2> DEFINE given == UNION {Formals(m, d, w, Callable(m, F, d)) : d \in UsersOf(m, w, "call")}
             loads == UNION {UsersOf(m, Inst(m, s).args[2], "load") : s \in UsersOf(m, w, "store")}
  <2>1. Carriers(m, F, w) = loads \cup UsersOf(m, w, "phi") \cup given
    BY DEF Carriers
  <2>2. a \in given
    <3> HIDE DEF w
    <3> QED BY <1>3, <1>4
  <2> HIDE DEF given, loads
  <2> QED BY <2>1, <2>2
<1> HIDE DEF w
<1>6. <<g, a>> \in F.carries
  BY <1>5, CarriesRules DEF w
<1> QED BY <1>6 DEF a

LEMMA EndNestedFlows ==
  ASSUME Flowing, Next, EndNested
  PROVE  ActivationsFlow(M, Flows, stack')
<1> DEFINE L == Len(stack)
           n == L - 1
           call == Top.call
           a == stack[n]
           fs == Self.results
           formals == {Arg(f, call.n) : f \in fs}
           R == {getCallBases(v, call.to) : v \in formals}
           todo == SetToSeq(R) \o a.todo
           b == [a EXCEPT !.todo = todo]
<1>1. stack # <<>> /\ call.fn = "collect" /\ L > 1
  BY DEF EndNested, Returning, Depth
<1>2. /\ L \in Nat /\ n \in 1 .. n /\ IsActivation(a) /\ Popped[n] = a /\ BodyOK(M, stack, n, a)
      /\ IsModule(M) /\ CallOK(M, stack, L, call) /\ L > 0 /\ L \in 1 .. L /\ n \in 1 .. L
      /\ TypesOK /\ Apply(M, Flows) = Flows /\ stack[L].call = call
  BY <1>1, Caller, FlowsClosed DEF Flowing
<1>3. stack' = [Popped EXCEPT ![n] = b]
  BY <1>2 DEF EndNested, Depth
<1>4. CallFlows(M, Flows, stack, L, call)
  BY <1>1, <1>2 DEF Flowing, ActivationsFlow, LinkFlows
<1>5. BodyFlows(M, Flows, stack, n, a)
  BY <1>2 DEF Flowing, ActivationsFlow
<1>6. fs \subseteq DOMAIN M.fn /\ fs \subseteq Callable(M, Flows, call.v)
  <2>1. stack[L].level = Len(collectors) /\ Len(collectors) \in Nat /\ Len(collectors) > 0
    <3>1. LevelsOK(stack, Len(collectors)) /\ StackOK
      BY <1>2 DEF TypesOK, StackOK
    <3> QED BY <1>2, <3>1, Innermost DEF LevelsOK
  <2>2. Len(collectors) \in 1 .. Len(collectors) /\ Self = collectors[Len(collectors)]
    BY <2>1 DEF Self
  <2> HIDE DEF L, call
  <2>3. \A k \in 1 .. Len(collectors), j \in 1 .. L :
          stack[j].call.fn = "collect" /\ stack[j].level = k =>
            collectors[k].results \subseteq Callable(M, Flows, stack[j].call.v)
    BY DEF Flowing, ResultsFlow, L
  <2> QED BY <1>1, <1>2, <2>1, <2>2, <2>3 DEF TypesOK, CollectorOK
<1>7. \A f \in fs : call.n < M.fn[f].arity
  BY DEF EndNested
<1>8. call.v \in Calls(M) /\ call.n \in Nat
  BY <1>1, <1>2 DEF CallOK
<1>9. \A v \in formals : v \in Values(M) /\ <<Owned(stack, call.to), v>> \in Flows.carries
  <2> SUFFICES ASSUME NEW f \in fs
               PROVE  /\ Arg(f, call.n) \in Values(M)
                      /\ <<Owned(stack, call.to), Arg(f, call.n)>> \in Flows.carries
    OBVIOUS
  <2>1. call.n < M.fn[f].arity /\ f \in DOMAIN M.fn /\ f \in Callable(M, Flows, call.v)
    BY <1>6, <1>7
  <2>2. call.n \in 0 .. M.fn[f].arity - 1
    BY <1>2, <1>8, <2>1 DEF IsModule
  <2>3. Arg(f, call.n) \in Values(M)
    BY <1>2, <2>1, <2>2, FunctionValues
  <2>4. /\ call.n + 2 \in DOMAIN Inst(M, call.v).args
        /\ <<Owned(stack, call.to), ActualArg(M, call.v, call.n)>> \in Flows.carries
    BY <1>1, <1>4 DEF CallFlows
  <2> DEFINE c == call.v
             k == call.n
             g == Owned(stack, call.to)
  <2>5. c \in Calls(M) /\ k \in Nat /\ k + 2 \in DOMAIN Inst(M, c).args /\ k < M.fn[f].arity
        /\ f \in Callable(M, Flows, c) /\ <<g, ActualArg(M, c, k)>> \in Flows.carries
    BY <1>8, <2>1, <2>4
  <2>6. <<g, Arg(f, k)>> \in Flows.carries
    <3> HIDE DEF c, k, g
    <3> QED BY <1>2, <2>1, <2>5, FormalsCarried
  <2> QED BY <2>3, <2>6
<1>10. IsFiniteSet(R)
  <2>1. IsFiniteSet(formals)
    BY <1>2, <1>9, FiniteValues
  <2> DEFINE f == [v \in formals |-> getCallBases(v, call.to)]
  <2>2. DOMAIN f = formals /\ R = {f[v] : v \in formals}
    OBVIOUS
  <2> HIDE DEF f, R, formals
  <2>3. IsFiniteSet({f[v] : v \in formals})
    BY <2>1, <2>2, FiniteImage
  <2> QED BY <2>2, <2>3
<1>11. \A c \in R : c.fn = "getCallBases" /\ <<Owned(stack, c.to), c.v>> \in Flows.carries
  <2> TAKE c \in R
  <2>1. PICK v \in formals : c = getCallBases(v, call.to)
    OBVIOUS
  <2>2. c.fn = "getCallBases" /\ c.to = call.to /\ c.v = v
    BY <2>1, CallFields DEF getCallBases
  <2> HIDE DEF formals
  <2> QED BY <1>9, <2>2
<1> HIDE DEF R, formals
<1>12. \A c \in R : CallFlows(M, Flows, stack, n + 1, c)
  BY <1>11 DEF CallFlows
<1>13. \A k \in DOMAIN todo : CallFlows(M, Flows, stack, n + 1, todo[k])
  <2> DEFINE s == SetToSeq(R)
             t == a.todo
  <2>1. IsSeq(s) /\ IsSeq(t)
    BY <1>2, <1>10, Listed DEF BodyOK, TodoOK
  <2>2. \A j \in DOMAIN s : CallFlows(M, Flows, stack, n + 1, s[j])
    BY <1>10, <1>12, Listed
  <2>3. \A j \in DOMAIN t : CallFlows(M, Flows, stack, n + 1, t[j])
    BY <1>5 DEF BodyFlows
  <2> HIDE DEF s, t, n
  <2>4. \A k \in DOMAIN (s \o t) : CallFlows(M, Flows, stack, n + 1, (s \o t)[k])
    BY <2>1, <2>2, <2>3, InJoined
  <2> QED BY <2>4 DEF s, t, n
<1> HIDE DEF todo, n
<1>14. BodyFlows(M, Flows, stack, n, b) /\ Later(a, b)
  BY <1>2, <1>5, <1>13, FlowsChanged, FieldsChanged
<1>15. n \in 1 .. Len(stack) - 1
  BY <1>2 DEF n
<1> HIDE DEF b
<1> QED BY <1>1, <1>3, <1>14, <1>15, PoppedFlows

LEMMA ActivationsFlowing ==
  ASSUME Flowing, Next
  PROVE  ActivationsFlow(M, Flows, stack')
<1>1. CASE UNCHANGED stack
  BY <1>1 DEF Flowing
<1>2. CASE SeenValue \/ SeenSite \/ SelectBlock \/ UnselectBlock
  <2>1. stack' = Called /\ \E fn : Calling(fn)
    BY <1>2 DEF SeenValue, SeenSite, SelectBlock, UnselectBlock
  <2>2. /\ Kept(stack, stack')
        /\ \A i \in 1 .. Len(stack) : BodyFlows(M, Flows, stack, i, stack'[i])
    BY <2>1, NextCall, NextFlows DEF Flowing
  <2> QED BY <2>2, FlowsKept
<1>3. CASE Report
  <2>1. Len(stack') = 0
    BY <1>3, EmptySeq DEF Report
  <2> QED BY <2>1 DEF ActivationsFlow
<1> QED
  BY <1>1, <1>2, <1>3, TraceValueFlows, UseFoundFlows, EndTraceFlows, TraceMemoryFlows,
     AskSiblingsFlows, EndMemoryFlows, FindSiblingFlows, EndSiblingsFlows, GetCallBasesFlows,
     EndSitesFlows, CollectNextFlows, CollectNestedFlows, EndNestedFlows
  DEF Next, Value, Memory, Sites, Collecting, NoReturn, NoActualArg, NoFormalArg, Overflow

-----------------------------------------------------------------------------
(***************************************************************************)
(* What the collectors have found.                                         *)
(***************************************************************************)
Reporting == EndTrace /\ Top.call.to = 0

LEMMA ReplacedResults ==
  ASSUME TypesOK, stack # <<>>, NEW c, InCollector(c)
  PROVE  /\ Len(collectors') = Len(collectors) /\ collectors'[Len(collectors)].results = c.results
         /\ \A k \in 1 .. Len(collectors) : k # Len(collectors) => collectors'[k] = collectors[k]
<1>1. InnermostIs(c) /\ Len(collectors) \in Nat
  BY SelfTypes, Innermost DEF TypesOK
<1>2. \A k \in 1 .. Len(collectors) : k # Len(collectors) => k \in 1 .. Len(collectors) - 1
  BY <1>1
<1> QED BY <1>1, <1>2 DEF InnermostIs

\* results is added to only when something traced for collect itself is.
LEMMA ResultsChange ==
  ASSUME TypesOK, Next, NEW k \in 1 .. Len(collectors')
  PROVE  \/ /\ k \in 1 .. Len(collectors) /\ collectors'[k].results = collectors[k].results
            /\ ~ (Reporting /\ k = Len(collectors))
         \/ /\ k = Len(collectors) + 1 /\ collectors'[k].results = {}
            /\ CollectNext \/ CollectNested
         \/ /\ Reporting /\ k = Len(collectors) /\ k \in 1 .. Len(collectors)
            /\ collectors'[k].results = collectors[k].results \cup Targets(Top.call.v)
<1>0. IsSeq(collectors) /\ Len(collectors) \in Nat
  BY SeqShape DEF TypesOK, StackOK, CollectorsOK
<1>1. CASE UNCHANGED collectors /\ ~ EndTrace
  BY <1>1 DEF Reporting
<1>2. ASSUME stack # <<>>, NEW c, InCollector(c), c.results = Self.results, ~ Reporting
      PROVE  k \in 1 .. Len(collectors) /\ collectors'[k].results = collectors[k].results
  BY <1>2, ReplacedResults, SelfTypes
<1>3. CASE TraceValue /\ ~ EndTrace
  <2> DEFINE v == Head(Top.todo).v
             vs == Self.visitedSet \cup {v}
             st == Append(Self.visitedStack, v)
             d == [Self EXCEPT !.visitedSet = vs, !.visitedStack = st]
  <2>1. InCollector(d) /\ stack # <<>>
    BY <1>3 DEF TraceValue, Calling
  <2>2. d.results = Self.results
    <3>1. d = [Self EXCEPT !.visitedSet = vs, !.visitedStack = st] /\ IsCollector(Self)
      BY <2>1, SelfTypes
    <3> HIDE DEF d, vs, st
    <3> QED BY <3>1, TraceFields
  <2> HIDE DEF d
  <2> QED BY <1>2, <1>3, <2>1, <2>2 DEF Reporting
<1>4. CASE (SelectBlock \/ UnselectBlock) /\ ~ EndTrace
  <2>1. stack # <<>> /\ \E B : InCollector([Self EXCEPT !.selectedBlock = B])
    BY <1>4 DEF SelectBlock, UnselectBlock, Calling
  <2>2. PICK B : InCollector([Self EXCEPT !.selectedBlock = B])
    BY <2>1
  <2> DEFINE c == [Self EXCEPT !.selectedBlock = B]
  <2>3. c.results = Self.results
    BY <2>1, SelfTypes, CollectorFields
  <2>4. InCollector(c)
    BY <2>2
  <2> HIDE DEF c
  <2> QED BY <1>2, <1>4, <2>1, <2>3, <2>4 DEF Reporting
<1>5. CASE EndTrace
  <2> DEFINE v == Top.call.v
             s == Self.visitedStack
             vs == Self.visitedSet \ {v}
             st == SubSeq(s, 1, Len(s) - 1)
             d == Untraced(v)
             r == Self.results \cup Targets(v)
             e == [d EXCEPT !.results = r]
  <2>1. stack # <<>> /\ IsCollector(Self)
    BY <1>5, SelfTypes DEF EndTrace, Returning
  <2>2. d = [Self EXCEPT !.visitedSet = vs, !.visitedStack = st]
    BY DEF Untraced
  <2>3. d.results = Self.results /\ d = [visitedSet |-> d.visitedSet, visitedStack |-> d.visitedStack,
                                        selectedBlock |-> d.selectedBlock, results |-> d.results]
    <3> HIDE DEF vs, st
    <3>1. d = [visitedSet |-> vs, visitedStack |-> st,
               selectedBlock |-> Self.selectedBlock, results |-> Self.results]
      <4> DEFINE x == [Self EXCEPT !.visitedSet = vs]
      <4>1. x = [visitedSet |-> vs, visitedStack |-> Self.visitedStack,
                 selectedBlock |-> Self.selectedBlock, results |-> Self.results]
        BY <2>1 DEF IsCollector
      <4>2. d = [x EXCEPT !.visitedStack = st]
        BY <2>2
      <4> HIDE DEF x, d
      <4> QED BY <4>1, <4>2
    <3> HIDE DEF d
    <3> QED BY <3>1
  <2> HIDE DEF d
  <2>4. e.results = r
    BY <2>3
  <2>5. \/ Top.call.to = 0 /\ InCollector([d EXCEPT !.results = @ \cup Targets(v)])
        \/ Top.call.to # 0 /\ InCollector(d)
    BY <1>5 DEF EndTrace, d
  <2>6. [d EXCEPT !.results = @ \cup Targets(v)] = e
    BY <2>3
  <2> HIDE DEF e, v
  <2>7. CASE Top.call.to # 0 /\ InCollector(d)
    BY <1>2, <2>1, <2>3, <2>7 DEF Reporting
  <2>8. CASE Top.call.to = 0 /\ InCollector(e)
    <3>1. /\ Len(collectors') = Len(collectors) /\ collectors'[Len(collectors)].results = e.results
          /\ \A n \in 1 .. Len(collectors) : n # Len(collectors) => collectors'[n] = collectors[n]
      BY <2>1, <2>8, ReplacedResults
    <3>2. Self = collectors[Len(collectors)]
      BY DEF Self
    <3>3. CASE k = Len(collectors)
      BY <1>5, <2>4, <2>8, <3>1, <3>2, <3>3 DEF Reporting, v
    <3>4. CASE k # Len(collectors)
      BY <3>1, <3>4
    <3> QED BY <3>3, <3>4
  <2> QED BY <2>5, <2>6, <2>7, <2>8
<1>6. CASE (CollectNext \/ CollectNested) /\ ~ EndTrace
  <2>1. collectors' = Append(collectors, NewCollector)
    BY <1>6 DEF CollectNext, CollectNested, BeginCollect
  <2>2. /\ Len(collectors') = Len(collectors) + 1
        /\ \A n \in 1 .. Len(collectors) : collectors'[n] = collectors[n]
        /\ collectors'[Len(collectors) + 1] = NewCollector
    BY <1>0, <2>1, Pushed
  <2>3. NewCollector.results = {}
    BY DEF NewCollector
  <2>4. k \in 1 .. Len(collectors) \/ k = Len(collectors) + 1
    BY <1>0, <2>2
  <2> QED BY <1>6, <2>2, <2>3, <2>4 DEF Reporting
<1>7. CASE EndNested /\ ~ EndTrace
  <2>1. /\ Len(stack) > 0 /\ collectors' = SubSeq(collectors, 1, Len(collectors) - 1)
    BY <1>7, RunningStack DEF EndNested, TypesOK
  <2>2. Len(collectors) > 0
    BY <2>1, Innermost DEF TypesOK
  <2>3. /\ Len(collectors') = Len(collectors) - 1
        /\ \A n \in 1 .. Len(collectors) - 1 : collectors'[n] = collectors[n]
    BY <1>0, <2>1, <2>2, AllButLast
  <2>4. k \in 1 .. Len(collectors) /\ k \in 1 .. Len(collectors) - 1
    BY <1>0, <2>2, <2>3
  <2> QED BY <1>7, <2>3, <2>4 DEF Reporting
<1>8. CASE Report
  <2>1. Len(collectors') = 0
    BY <1>8, EmptySeq DEF Report
  <2> QED BY <2>1
<1> QED
  BY <1>1, <1>3, <1>4, <1>5, <1>6, <1>7, <1>8
  DEF Next, Value, Memory, Sites, Collecting, SeenValue, NoReturn, UseFound, NoActualArg,
      TraceMemory, AskSiblings, EndMemory, FindSiblingGEPs, EndSiblings, SeenSite, GetCallBases,
      EndSites, NoFormalArg, Overflow

LEMMA CollectStays ==
  ASSUME TypesOK, Next, NEW j \in 1 .. Len(stack'), stack'[j].call.fn = "collect"
  PROVE  \/ /\ j \in 1 .. Len(stack) /\ stack'[j].call = stack[j].call
            /\ stack'[j].level = stack[j].level
         \/ stack'[j].level = Len(collectors) + 1
<1>1. StackStep /\ Len(stack) \in Nat
  BY StackSteps, Acting DEF TypesOK
<1>2. ASSUME j \in 1 .. Len(stack), Later(stack[j], stack'[j])
      PROVE  stack'[j].call = stack[j].call /\ stack'[j].level = stack[j].level
  BY <1>2 DEF Later
<1>3. CASE Kept(stack, stack')
  BY <1>2, <1>3 DEF Kept
<1>4. CASE Shrunk(stack, stack')
  BY <1>1, <1>2, <1>4 DEF Shrunk
<1>5. ASSUME NEW call, NEW level, Grown(stack, stack', call, level),
             call.fn # "collect" \/ level = Len(collectors) + 1
      PROVE  \/ j \in 1 .. Len(stack) /\ Later(stack[j], stack'[j])
             \/ stack'[j].level = Len(collectors) + 1
  <2>1. j \in 1 .. Len(stack) \/ j = Len(stack')
    BY <1>1, <1>5 DEF Grown
  <2> QED BY <1>5, <2>1 DEF Grown
<1> QED
  BY <1>1, <1>2, <1>3, <1>4, <1>5
  DEF StackStep, Works, EntersOther, EntersTrace, EntersCollect, LeavesOther, LeavesTrace, LeavesCollect

LEMMA ResultsFlowing ==
  ASSUME Flowing, Next
  PROVE  ResultsFlow(M, Flows, stack', collectors')
<1> SUFFICES ASSUME NEW k \in 1 .. Len(collectors'), NEW j \in 1 .. Len(stack'),
                    stack'[j].call.fn = "collect", stack'[j].level = k
             PROVE  collectors'[k].results \subseteq Callable(M, Flows, stack'[j].call.v)
  BY DEF ResultsFlow
<1>1. TypesOK /\ Len(collectors) \in Nat
  BY SeqShape DEF Flowing, TypesOK, StackOK, CollectorsOK
<1>2. CASE k = Len(collectors) + 1 /\ collectors'[k].results = {}
  BY <1>2
<1>3. ASSUME k \in 1 .. Len(collectors)
      PROVE  /\ j \in 1 .. Len(stack) /\ stack'[j].call = stack[j].call /\ stack[j].level = k
             /\ collectors[k].results \subseteq Callable(M, Flows, stack[j].call.v)
  <2>1. k # Len(collectors) + 1
    BY <1>1, <1>3
  <2>2. j \in 1 .. Len(stack) /\ stack'[j].call = stack[j].call /\ stack[j].level = k
    BY <1>1, <2>1, CollectStays
  <2> QED BY <1>3, <2>2 DEF Flowing, ResultsFlow
<1>4. CASE k \in 1 .. Len(collectors) /\ collectors'[k].results = collectors[k].results
  BY <1>3, <1>4
<1>5. CASE /\ Reporting /\ k = Len(collectors) /\ k \in 1 .. Len(collectors)
           /\ collectors'[k].results = collectors[k].results \cup Targets(Top.call.v)
  <2> DEFINE L == Len(stack)
             c == stack[j].call.v
             call == Top.call
  <2>1. stack # <<>> /\ call.fn = "traceValue" /\ call.to = 0
    BY <1>5 DEF Reporting, EndTrace, Returning
  <2>2. /\ CallFlows(M, Flows, stack, L, call) /\ stack[L].level = stack[L - 1].level
        /\ stack[L].level = Len(collectors) /\ stack[L].call = call
    BY <2>1, CalledBy
  <2>3. L \in Nat /\ j \in 1 .. L /\ stack[j].level = k /\ stack[j].call.fn = "collect"
    BY <1>1, <1>3, <1>5, Acting
  <2>4. j \in 1 .. L - 1
    BY <2>1, <2>2, <2>3
  <2>5. <<Callee(M, c), call.v, call.n>> \in Flows.traces
    BY <1>5, <2>1, <2>2, <2>3, <2>4 DEF CallFlows
  <2>6. call.v \in From(Flows.traces, Callee(M, c))
    BY <2>5, RelatedTriples
  <2>7. Targets(call.v) \subseteq Callable(M, Flows, c)
    BY <2>6 DEF Targets, Callable
  <2> QED BY <1>3, <1>5, <2>7
<1> QED BY <1>1, <1>2, <1>4, <1>5, ResultsChange

LEMMA FlowingInit == Init => Flowing
<1> SUFFICES ASSUME Init
             PROVE  Flowing
  OBVIOUS
<1>1. Len(stack) = 0 /\ Len(collectors) = 0
  BY EmptySeq DEF Init
<1> QED BY <1>1, TypesInit DEF Flowing, ActivationsFlow, ResultsFlow

LEMMA SameModule == [Next]_vars => input' = input /\ M' = M /\ Flows' = Flows
BY DEF vars, Next, Value, Memory, Sites, Collecting, SeenValue, TraceValue, NoReturn, UseFound,
  NoActualArg, EndTrace, SelectBlock, UnselectBlock, TraceMemory, AskSiblings, EndMemory,
  FindSiblingGEPs, EndSiblings, SeenSite, GetCallBases, EndSites, CollectNext, CollectNested,
  NoFormalArg, EndNested, Report, Overflow, Others, M, Flows

LEMMA FlowingStep == Flowing /\ [Next]_vars => Flowing'
<1> SUFFICES ASSUME Flowing, [Next]_vars
             PROVE  Flowing'
  OBVIOUS
<1>1. TypesOK' /\ M' = M /\ Flows' = Flows
  BY TypesStep, SameModule DEF Flowing
<1>2. ActivationsFlow(M, Flows, stack') /\ ResultsFlow(M, Flows, stack', collectors')
  <2>1. CASE UNCHANGED vars
    BY <2>1 DEF vars, Flowing
  <2>2. CASE Next
    BY <2>2, ActivationsFlowing, ResultsFlowing
  <2> QED BY <2>1, <2>2
<1>3. ActivationsFlow(M, Flows, stack)' = ActivationsFlow(M, Flows, stack')
  BY <1>1 DEF ActivationsFlow, LinkFlows, BodyFlows, CallFlows, FoundFlows, SeenFlows, Owned
<1>4. ResultsFlow(M, Flows, stack, collectors)' = ResultsFlow(M, Flows, stack', collectors')
  BY <1>1 DEF ResultsFlow
<1> QED BY <1>1, <1>2, <1>3, <1>4 DEF Flowing

-----------------------------------------------------------------------------
(***************************************************************************)
(* The call at hand is the first activation's.                             *)
(***************************************************************************)
AtHand ==
  stack # <<>> =>
    LET c == stack[1].call.v
    IN  c \in Calls(M) /\ c \notin pending /\ \A d \in pending : Precedes(M, c, d)

LEMMA StackShapes ==
  StackStep => \/ Kept(stack, stack') \/ Shrunk(stack, stack')
               \/ \E call, level : Grown(stack, stack', call, level)
BY DEF StackStep, Works, EntersOther, EntersTrace, EntersCollect, LeavesOther, LeavesTrace, LeavesCollect

LEMMA OnlyReport ==
  ASSUME TypesOK, Next, stack # <<>>, stack' = <<>>
  PROVE  Report
<1>1. StackStep /\ StackOK' /\ StackOK
  BY StackSteps, StackKept DEF TypesOK
<1>2. Len(stack') = 0 /\ Len(collectors') = 0
  BY <1>1, EmptySeq DEF StackOK, LevelsOK
<1>3. Len(collectors) \in Nat /\ Len(collectors) > 0 /\ Len(stack) \in Nat /\ Len(stack) > 0
  BY <1>1, SelfTypes, Acting DEF TypesOK
<1>4. ~ UNCHANGED collectors
  BY <1>2, <1>3
<1>5. \A c : ~ InCollector(c)
  BY <1>1, <1>2, <1>3, Innermost DEF InnermostIs
<1>6. ~ CollectNested
  <2>1. IsSeq(collectors)
    BY <1>1 DEF StackOK, CollectorsOK
  <2>2. Len(Append(collectors, NewCollector)) = Len(collectors) + 1
    BY <2>1, Pushed
  <2> QED BY <1>2, <1>3, <2>2 DEF CollectNested, BeginCollect
<1>7. ~ EndNested
  <2>1. Len(stack) <= 1
    <3> DEFINE l == Len(stack)
               k == Len(stack')
    <3>1. k = l \/ k = l - 1 \/ k = l + 1
      BY <1>1, StackShapes DEF Kept, Grown, Shrunk
    <3> HIDE DEF l, k
    <3>2. l \in Nat /\ k = 0
      BY <1>2, <1>3 DEF l, k
    <3>3. l <= 1
      BY <3>1, <3>2
    <3> QED BY <3>3 DEF l
  <2> QED BY <1>3, <2>1 DEF EndNested, Depth
<1> QED
  BY <1>4, <1>5, <1>6, <1>7
  DEF Next, Value, Memory, Sites, Collecting, SeenValue, TraceValue, NoReturn, UseFound,
      NoActualArg, EndTrace, SelectBlock, UnselectBlock, TraceMemory, AskSiblings, EndMemory,
      FindSiblingGEPs, EndSiblings, SeenSite, GetCallBases, EndSites, CollectNext, NoFormalArg,
      Overflow

LEMMA FirstStays ==
  ASSUME TypesOK, Next, stack # <<>>
  PROVE  /\ pending' = pending
         /\ stack' # <<>> => stack'[1].call = stack[1].call /\ output' = output
<1>1. StackStep /\ StackOK' /\ Len(stack) \in Nat /\ Len(stack) > 0
  BY StackSteps, StackKept, Acting DEF TypesOK
<1>2. pending' = pending /\ (output' = output \/ stack' = <<>>)
  BY DEF Next, Value, Memory, Sites, Collecting, SeenValue, TraceValue, NoReturn, UseFound,
      NoActualArg, EndTrace, SelectBlock, UnselectBlock, TraceMemory, AskSiblings, EndMemory,
      FindSiblingGEPs, EndSiblings, SeenSite, GetCallBases, EndSites, CollectNext, CollectNested,
      NoFormalArg, EndNested, Report, Overflow, Others
<1>3. ASSUME stack' # <<>>
      PROVE  stack'[1].call = stack[1].call
  <2>1. Len(stack') \in Nat /\ Len(stack') > 0
    BY <1>1, <1>3, NonEmpty DEF StackOK, IsStack
  <2>2. 1 \in 1 .. Len(stack) /\ 1 \in 1 .. Len(stack')
    BY <1>1, <2>1
  <2>3. CASE Kept(stack, stack')
    BY <2>2, <2>3 DEF Kept, Later
  <2>4. CASE Shrunk(stack, stack')
    BY <2>2, <2>4 DEF Shrunk, Later
  <2>5. CASE \E call, level : Grown(stack, stack', call, level)
    BY <2>2, <2>5 DEF Grown, Later
  <2> QED BY <1>1, <2>3, <2>4, <2>5, StackShapes
<1> QED BY <1>2, <1>3

\* From no call at hand to the next.
LEMMA FirstStarts ==
  ASSUME TypesOK, Next, stack = <<>>
  PROVE  /\ output' = output
         /\ stack' # <<>> => CollectNext
         /\ stack' = <<>> => pending' = pending
<1>1. \A fn : ~ Calling(fn) /\ ~ Returning(fn)
  BY DEF Calling, Returning
<1>2. CollectNext \/ Overflow
  BY <1>1 DEF Next, Value, Memory, Sites, Collecting, SeenValue, TraceValue, NoReturn, UseFound,
      NoActualArg, EndTrace, SelectBlock, UnselectBlock, TraceMemory, AskSiblings, EndMemory,
      FindSiblingGEPs, EndSiblings, SeenSite, GetCallBases, EndSites, CollectNested, NoFormalArg,
      EndNested, Report
<1>3. CASE Overflow
  BY <1>3 DEF Overflow
<1>4. CASE CollectNext
  <2>1. PICK a : stack' = Append(<<>>, a)
    BY <1>4 DEF CollectNext, BeginCollect
  <2>2. Len(stack') = 1
    <3>1. IsSeq(<<>>) /\ Len(<<>>) = 0
      BY SeqOfAny, EmptySeq
    <3> QED BY <2>1, <3>1, Pushed
  <2>3. stack' # <<>>
    BY <2>2, EmptySeq
  <2> QED BY <1>4, <2>3 DEF CollectNext
<1> QED BY <1>2, <1>3, <1>4

\* What the next call starts with.
LEMMA FirstStarted ==
  ASSUME TypesOK, CollectNext
  PROVE  \E c \in pending :
           /\ \A d \in pending \ {c} : Precedes(M, c, d)
           /\ pending' = pending \ {c} /\ c \in Calls(M)
           /\ Len(stack') = 1 /\ stack'[1].call.v = c
           /\ stack'[1].todo = <<traceValue(Callee(M, c), 0, 0)>>
<1>1. PICK c \in pending : /\ \A d \in pending \ {c} : Precedes(M, c, d)
                           /\ BeginCollect(<<>>, collect(c, 0, 0)) /\ pending' = pending \ {c}
  BY DEF CollectNext
<1> DEFINE call == collect(c, 0, 0)
           todo == <<traceValue(Callee(M, c), 0, 0)>>
           a == Activation(call, todo, Len(collectors) + 1)
<1>2. call.v = c
  BY CallFields DEF collect
<1>3. stack' = Append(<<>>, a)
  BY <1>1, <1>2 DEF BeginCollect
<1>4. a.call = call /\ a.todo = todo
  BY DEF Activation
<1> HIDE DEF a
<1>5. IsSeq(<<>>) /\ Len(<<>>) = 0
  BY SeqOfAny, EmptySeq
<1>6. Len(stack') = 1 /\ stack'[1] = a
  BY <1>3, <1>5, Pushed
<1> QED BY <1>1, <1>2, <1>4, <1>6 DEF TypesOK

LEMMA AtHandStep ==
  ASSUME TypesOK, AtHand, [Next]_vars
  PROVE  AtHand'
<1>1. M' = M /\ Calls(M)' = Calls(M)
  BY SameModule DEF Calls
<1> SUFFICES ASSUME stack' # <<>>, NEW c, c = stack'[1].call.v
             PROVE  c \in Calls(M) /\ c \notin pending' /\ \A d \in pending' : Precedes(M, c, d)
  BY <1>1 DEF AtHand
<1>2. CASE UNCHANGED vars
  BY <1>2 DEF vars, AtHand
<1>3. CASE Next /\ stack # <<>>
  BY <1>3, FirstStays DEF AtHand
<1>4. CASE Next /\ stack = <<>>
  <2>1. CollectNext
    BY <1>4, FirstStarts
  <2>2. /\ c \in pending /\ (\A d \in pending \ {c} : Precedes(M, c, d))
        /\ pending' = pending \ {c} /\ c \in Calls(M)
    BY <2>1, FirstStarted
  <2> QED BY <2>2
<1> QED BY <1>2, <1>3, <1>4

-----------------------------------------------------------------------------
(***************************************************************************)
(* The function of a direct call: it is among the results, or on its way   *)
(* there, nothing else being done before.                                  *)
(***************************************************************************)
DirectlyCalled(c) == LET v == Callee(M, c) IN IF v[1] \in {"fn", "cast"} THEN {v[2]} ELSE {}

Awaited(s, f) ==
  LET a == s[Len(s)]
  IN  /\ \A i \in 2 .. Len(s) : /\ s[i].call.fn = "traceValue" /\ s[i].call.to = 0
                                /\ s[i].level = 1
      /\ \/ \E w : /\ a.todo = <<traceValue(w, 0, 0)>> /\ w[1] \in {"fn", "cast"} /\ w[2] = f
                   /\ \A i \in 2 .. Len(s) : s[i].call.v[1] = "cast" /\ s[i].call.v # w
         \/ /\ a.todo = <<>> /\ Len(s) > 1 /\ a.call.v[1] = "fn" /\ a.call.v[2] = f

DirectOK ==
  stack # <<>> =>
    \A f \in DirectlyCalled(stack[1].call.v) : f \in collectors[1].results \/ Awaited(stack, f)

LEMMA OnlyTrace ==
  ASSUME Next, stack # <<>>, Top.todo # <<>>, Head(Top.todo).fn = "traceValue"
  PROVE  SeenValue \/ TraceValue \/ NoReturn \/ Overflow
<1>1. \A fn : ~ Returning(fn) /\ (Calling(fn) => fn = "traceValue")
  BY DEF Calling, Returning
<1> QED
  BY <1>1
  DEF Next, Value, Memory, Sites, Collecting, UseFound, NoActualArg, EndTrace, SelectBlock,
      UnselectBlock, TraceMemory, AskSiblings, EndMemory, FindSiblingGEPs, EndSiblings, SeenSite,
      GetCallBases, EndSites, CollectNext, CollectNested, NoFormalArg, EndNested, Report

LEMMA OnlyEnd ==
  ASSUME Next, stack # <<>>, Top.todo = <<>>, Top.call.fn = "traceValue",
         Op(M, Top.call.v) \notin {"load", "arg"}
  PROVE  EndTrace \/ Overflow
<1>1. \A fn : ~ Calling(fn) /\ (Returning(fn) => fn = "traceValue")
  BY DEF Calling, Returning
<1> QED
  BY <1>1
  DEF Next, Value, Memory, Sites, Collecting, UseFound, NoActualArg, SelectBlock, SeenValue,
      TraceValue, NoReturn, UnselectBlock, TraceMemory, AskSiblings, EndMemory, FindSiblingGEPs,
      EndSiblings, SeenSite, GetCallBases, EndSites, CollectNext, CollectNested, NoFormalArg,
      EndNested, Report

LEMMA Found ==
  ASSUME TypesOK, Next, stack # <<>>, stack' # <<>>, NEW f, f \in collectors[1].results
  PROVE  f \in collectors'[1].results
<1>1. StackOK /\ StackOK'
  BY StackSteps, StackKept DEF TypesOK
<1>2. /\ Len(collectors) \in Nat /\ Len(collectors) > 0
      /\ Len(collectors') \in Nat /\ Len(collectors') > 0
  <2>1. Len(stack) \in Nat /\ Len(stack) > 0 /\ Len(stack') \in Nat /\ Len(stack') > 0
    BY <1>1, NonEmpty DEF StackOK, IsStack
  <2>2. Len(collectors) \in Nat /\ Len(collectors') \in Nat
    BY <1>1, SeqShape DEF StackOK, CollectorsOK
  <2>3. 1 \in 1 .. Len(collectors) /\ 1 \in 1 .. Len(collectors')
    <3>1. LevelsOK(stack, Len(collectors)) /\ LevelsOK(stack', Len(collectors'))
      BY <1>1 DEF StackOK, LevelsOK
    <3>2. 1 \in 1 .. Len(stack) /\ 1 \in 1 .. Len(stack')
      BY <2>1
    <3> QED BY <2>1, <3>1, <3>2 DEF LevelsOK
  <2> QED BY <2>2, <2>3
<1>3. 1 \in 1 .. Len(collectors') /\ 1 # Len(collectors) + 1
  BY <1>2
<1> QED BY <1>3, ResultsChange

\* Such a value is traced at once, whatever comes before it.
LEMMA DirectFlow ==
  ASSUME NEW call, NEW w, call = traceValue(w, 0, 0), w[1] \in {"fn", "cast"}, NEW todo
  PROVE  /\ AsksReturnOf(call) = {}
         /\ todo \in Flow(call) => todo = IF w[1] = "fn" THEN <<>>
                                          ELSE <<traceValue(Fn(w[2]), 0, 0)>>
<1>1. call.v = w /\ call.n = 0 /\ Op(M, w) = w[1]
  BY CallFields DEF traceValue, Op
<1>2. AsksReturnOf(call) = {}
  BY <1>1 DEF AsksReturnOf
<1>3. [call EXCEPT !.v = Fn(w[2]), !.n = 0] = traceValue(Fn(w[2]), 0, 0)
  <2> DEFINE g == Fn(w[2])
             d == [call EXCEPT !.v = g]
             e == [call EXCEPT !.v = g, !.n = 0]
  <2>1. d = [fn |-> "traceValue", v |-> g, n |-> 0, to |-> 0, by |-> Null]
    BY DEF traceValue, CallOf
  <2>2. e = [d EXCEPT !.n = 0]
    OBVIOUS
  <2> HIDE DEF d, e, g
  <2>3. e = [fn |-> "traceValue", v |-> g, n |-> 0, to |-> 0, by |-> Null]
    BY <2>1, <2>2
  <2> QED BY <2>3 DEF traceValue, CallOf, e, g
<1>4. ASSUME todo \in Flow(call), w[1] = "fn"
      PROVE  todo = <<>>
  BY <1>1, <1>4 DEF Flow
<1>5. ASSUME todo \in Flow(call), w[1] = "cast"
      PROVE  todo = <<traceValue(Fn(w[2]), 0, 0)>>
  <2>1. todo = <<[call EXCEPT !.v = Fn(w[2]), !.n = 0]>>
    BY <1>1, <1>5 DEF Flow
  <2> QED BY <1>3, <2>1
<1> QED BY <1>2, <1>4, <1>5

LEMMA AwaitedTraced ==
  ASSUME TypesOK, TraceOK, Next, stack # <<>>, NEW f, NEW w,
         \A i \in 2 .. Len(stack) : /\ stack[i].call.fn = "traceValue" /\ stack[i].call.to = 0
                                    /\ stack[i].level = 1,
         Top.todo = <<traceValue(w, 0, 0)>>, w[1] \in {"fn", "cast"}, w[2] = f,
         \A i \in 2 .. Len(stack) : stack[i].call.v[1] = "cast" /\ stack[i].call.v # w
  PROVE  Awaited(stack', f)
<1> DEFINE L == Len(stack)
           call == Head(Top.todo)
           t == stack'
<1>1. /\ L \in Nat /\ L > 0 /\ Top = stack[L] /\ IsStack(stack)
      /\ StackOK /\ stack[1].call.fn = "collect" /\ stack[1].level = 1
  <2>1. L \in Nat /\ L > 0 /\ Top = stack[L] /\ IsStack(stack) /\ StackOK
    BY Acting DEF TypesOK
  <2>2. LevelsOK(stack, Len(collectors))
    BY <2>1 DEF StackOK
  <2> QED BY <2>1, <2>2 DEF LevelsOK
<1>2. call = traceValue(w, 0, 0) /\ Top.todo # <<>> /\ call.fn = "traceValue" /\ call.v = w /\ call.to = 0
  <2> DEFINE c == traceValue(w, 0, 0)
  <2>1. c.fn = "traceValue" /\ c.v = w /\ c.to = 0
    BY CallFields DEF traceValue
  <2>2. Top.todo = <<c>>
    OBVIOUS
  <2> HIDE DEF c
  <2>3. Head(Top.todo) = c /\ Top.todo # <<>>
    BY <2>2
  <2> QED BY <2>1, <2>3 DEF c
<1>3. AsksReturnOf(call) = {}
  BY <1>2, DirectFlow
<1>4. ~ SeenValue
  <2> SUFFICES ASSUME w \in Self.visitedSet
               PROVE  FALSE
    BY <1>2 DEF SeenValue
  <2>1. VisitedIsTraced /\ Len(collectors) \in DOMAIN collectors
    <3>1. Len(collectors) \in Nat /\ Len(collectors) > 0 /\ IsSeq(collectors)
      BY <1>1, SelfTypes DEF StackOK, CollectorsOK
    <3>2. DOMAIN collectors = 1 .. Len(collectors)
      BY <3>1, SeqShape
    <3> QED BY <1>1, <3>1, <3>2, InStepVisited
  <2>2. PICK i \in Tracers(Len(collectors)) : stack[i].call.v = w
    BY <2>1 DEF VisitedIsTraced, Self
  <2>3. i \in 1 .. L /\ stack[i].call.fn = "traceValue"
    BY <1>1, SeqShape DEF Tracers, IsStack
  <2>4. i # 1
    BY <1>1, <2>3
  <2>5. i \in 2 .. L
    BY <1>1, <2>3, <2>4
  <2> QED BY <2>2, <2>5
<1>5. TraceValue \/ Overflow
  BY <1>2, <1>3, <1>4, OnlyTrace DEF NoReturn
<1>6. CASE Overflow
  <2>1. stack' = stack
    BY <1>6 DEF Overflow
  <2> QED BY <1>1, <2>1 DEF Awaited
<1>7. CASE TraceValue
  <2>1. PICK todo \in Flow(call) : Enter(Called, todo)
    BY <1>7 DEF TraceValue
  <2> DEFINE a == Activation(call, todo, Top.level)
  <2>2. t = Append(Called, a) /\ IsSeq(Called) /\ Len(Called) = L
        /\ \A i \in 1 .. L : Called[i].call = stack[i].call /\ Called[i].level = stack[i].level
    BY <1>1, <2>1, CalledKept DEF Enter, Kept, IsStack, Later
  <2>3. a.call = call /\ a.todo = todo /\ a.level = Top.level
    BY DEF Activation
  <2> HIDE DEF a
  <2>4. Len(t) = L + 1 /\ t[L + 1] = a /\ \A i \in 1 .. L : t[i] = Called[i]
    BY <1>1, <2>2, Pushed
  <2>5. Top.level = 1
    <3>1. \A i \in 2 .. L : stack[i].level = 1
      OBVIOUS
    <3> HIDE DEF L
    <3>2. L = 1 \/ L \in 2 .. L
      BY <1>1
    <3>3. stack[L].level = 1
      BY <1>1, <3>1, <3>2
    <3> QED BY <1>1, <3>3
  <2>6. \A i \in 2 .. L + 1 : (i \in 2 .. L /\ i \in 1 .. L) \/ i = L + 1
    BY <1>1
  <2>7. \A i \in 2 .. L + 1 : t[i].call.fn = "traceValue" /\ t[i].call.to = 0 /\ t[i].level = 1
    BY <1>2, <2>2, <2>3, <2>4, <2>5, <2>6
  <2>8. todo = IF w[1] = "fn" THEN <<>> ELSE <<traceValue(Fn(w[2]), 0, 0)>>
    BY <1>2, <2>1, DirectFlow
  <2> HIDE DEF t, call, L
  <2>9. CASE w[1] = "fn"
    <3>1. t[Len(t)].todo = <<>> /\ Len(t) > 1 /\ t[Len(t)].call.v = w
      BY <1>1, <1>2, <2>3, <2>4, <2>8, <2>9
    <3> QED BY <2>4, <2>7, <2>9, <3>1 DEF Awaited, t
  <2>10. CASE w[1] = "cast"
    <3> DEFINE g == Fn(w[2])
    <3>1. g[1] = "fn" /\ g[2] = f
      BY DEF Fn
    <3> HIDE DEF g
    <3>2. t[Len(t)].todo = <<traceValue(g, 0, 0)>>
      BY <2>3, <2>4, <2>8, <2>10 DEF g
    <3>3. \A i \in 2 .. L + 1 : t[i].call.v[1] = "cast"
      BY <1>2, <2>2, <2>3, <2>4, <2>6, <2>10 DEF L
    <3>4. \A i \in 2 .. L + 1 : t[i].call.v[1] = "cast" /\ t[i].call.v # g
      BY <3>1, <3>3
    <3> QED BY <2>4, <2>7, <3>1, <3>2, <3>4 DEF Awaited, t
  <2> QED BY <2>9, <2>10
<1> QED BY <1>5, <1>6, <1>7

LEMMA AwaitedFound ==
  ASSUME TypesOK, Next, stack # <<>>, NEW f, Awaited(stack, f), Top.todo = <<>>
  PROVE  f \in collectors'[1].results \/ Awaited(stack', f)
<1> DEFINE L == Len(stack)
           v == Top.call.v
<1>1. L \in Nat /\ L > 0 /\ Top = stack[L] /\ LevelsOK(stack, Len(collectors)) /\ Len(collectors) \in Nat
  BY Acting, SelfTypes DEF TypesOK, StackOK
<1>2. L > 1 /\ v[1] = "fn" /\ v[2] = f
  <2>1. \A c : <<c>> # <<>>
    OBVIOUS
  <2> QED BY <1>1, <2>1 DEF Awaited
<1>3. Top.call.fn = "traceValue" /\ Top.call.to = 0 /\ stack[L].level = 1
  <2>1. L \in 2 .. L
    BY <1>1, <1>2
  <2> QED BY <1>1, <2>1 DEF Awaited
<1>4. Op(M, v) = "fn"
  BY <1>2 DEF Op
<1>5. EndTrace \/ Overflow
  BY <1>3, <1>4, OnlyEnd
<1>6. CASE Overflow
  <2>1. stack' = stack
    BY <1>6 DEF Overflow
  <2> QED BY <2>1 DEF Awaited
<1>7. CASE EndTrace
  <2>1. Len(collectors) = 1
    BY <1>1, <1>3 DEF LevelsOK
  <2>2. Reporting
    BY <1>3, <1>7 DEF Reporting
  <2>3. Len(collectors') = Len(collectors)
    <3>1. \E c : InCollector(c)
      BY <1>7 DEF EndTrace
    <3> QED BY <3>1, ReplacedResults
  <2>4. 1 \in 1 .. Len(collectors') /\ 1 # Len(collectors) + 1
    BY <2>1, <2>3
  <2>5. collectors'[1].results = collectors[1].results \cup Targets(v)
    BY <2>1, <2>2, <2>4, ResultsChange
  <2> QED BY <1>2, <2>5 DEF Targets
<1> QED BY <1>5, <1>6, <1>7

LEMMA DirectStep ==
  ASSUME TypesOK, TraceOK, DirectOK, [Next]_vars
  PROVE  DirectOK'
<1>1. M' = M
  BY SameModule
<1>2. CASE UNCHANGED vars
  BY <1>2 DEF vars, DirectOK, Awaited, DirectlyCalled, M
<1>3. CASE Next
  <2> SUFFICES ASSUME stack' # <<>>, NEW c, c = stack'[1].call.v, NEW f \in DirectlyCalled(c)
               PROVE  f \in collectors'[1].results \/ Awaited(stack', f)
    BY <1>1 DEF DirectOK, DirectlyCalled, Awaited
  <2>1. CASE stack # <<>>
    <3>1. f \in collectors[1].results \/ Awaited(stack, f)
      BY <1>3, <2>1, FirstStays DEF DirectOK
    <3>2. CASE f \in collectors[1].results
      BY <1>3, <2>1, <3>2, Found
    <3>3. CASE Awaited(stack, f) /\ Top.todo = <<>>
      BY <1>3, <2>1, <3>3, AwaitedFound
    <3>4. CASE Awaited(stack, f) /\ Top.todo # <<>>
      <4>1. Top = stack[Len(stack)]
        BY DEF Top, Depth
      <4>2. PICK w : /\ Top.todo = <<traceValue(w, 0, 0)>> /\ w[1] \in {"fn", "cast"} /\ w[2] = f
                     /\ \A i \in 2 .. Len(stack) : stack[i].call.v[1] = "cast" /\ stack[i].call.v # w
        BY <3>4, <4>1 DEF Awaited
      <4>3. \A i \in 2 .. Len(stack) : /\ stack[i].call.fn = "traceValue" /\ stack[i].call.to = 0
                                       /\ stack[i].level = 1
        BY <3>4 DEF Awaited
      <4> QED BY <1>3, <2>1, <4>2, <4>3, AwaitedTraced
    <3> QED BY <3>1, <3>2, <3>3, <3>4
  <2>2. CASE stack = <<>>
    <3>1. CollectNext
      BY <1>3, <2>2, FirstStarts
    <3>2. Len(stack') = 1 /\ stack'[1].todo = <<traceValue(Callee(M, c), 0, 0)>>
      BY <3>1, FirstStarted
    <3> DEFINE w == Callee(M, c)
    <3>3. w[1] \in {"fn", "cast"} /\ w[2] = f
      BY DEF DirectlyCalled
    <3> HIDE DEF w
    <3>4. \A i \in 2 .. Len(stack') : FALSE
      BY <3>2
    <3>5. stack'[Len(stack')].todo = <<traceValue(w, 0, 0)>>
      BY <3>2 DEF w
    <3> QED BY <3>3, <3>4, <3>5 DEF Awaited
  <2> QED BY <2>1, <2>2
<1> QED BY <1>2, <1>3

-----------------------------------------------------------------------------
(***************************************************************************)
(* The abstract specification.                                             *)
(***************************************************************************)
ToVisit == pending \cup {stack[i].call.v : i \in DOMAIN stack \cap {1}}

\* Its operators are those used here.
LEMMA SameRelations ==
  /\ Abstract!FlowOf = FlowOf
  /\ \A m : Abstract!Calls(m) = Calls(m)
  /\ \A m, F, c : Abstract!Callable(m, F, c) = Callable(m, F, c)
  /\ \A m, u, v : Abstract!Precedes(m, u, v) = Precedes(m, u, v)
  /\ \A c : Abstract!Line(c) = Inst(M, c).n
  /\ \A c : Abstract!Direct(c) = DirectlyCalled(c)
<1>1. Abstract!FlowOf = FlowOf
  BY DEF Abstract!FlowOf, FlowOf, Abstract!Apply, Apply, Abstract!Nothing, Nothing,
     Abstract!Starts, Starts, Abstract!Sources, Sources, Abstract!Carriers, Carriers,
     Abstract!Writers, Writers, Abstract!Derived, Derived, Abstract!Operated, Operated,
     Abstract!UsersOf, UsersOf, Abstract!Users, Users, Abstract!Calls, Calls, Abstract!Insts, Insts,
     Abstract!Inst, Inst, Abstract!Reg, Reg, Abstract!Op, Op, Abstract!Callee, Callee,
     Abstract!ActualArg, ActualArg, Abstract!getCalledFunction, getCalledFunction,
     Abstract!From, From, Abstract!Returned, Returned, Abstract!Given, Given,
     Abstract!Formals, Formals, Abstract!Callable, Callable, Abstract!Arguments, Arguments,
     Abstract!Arg, Arg, Abstract!Fn, Fn, Abstract!ToSet, ToSet
<1>2. \A m : Abstract!Calls(m) = Calls(m)
  BY DEF Abstract!Calls, Calls, Abstract!Insts, Insts, Abstract!Inst, Inst, Abstract!Reg, Reg
<1>3. \A m, F, c : Abstract!Callable(m, F, c) = Callable(m, F, c)
  BY DEF Abstract!Callable, Callable, Abstract!From, From, Abstract!Callee, Callee, Abstract!Inst, Inst
<1>4. \A m, u, v : Abstract!Precedes(m, u, v) = Precedes(m, u, v)
  BY DEF Abstract!Precedes, Precedes, Abstract!ComesBefore, ComesBefore, Abstract!SameBlock, SameBlock,
     Abstract!Parent, Parent
<1>5. \A c : Abstract!Line(c) = Inst(M, c).n
  BY DEF Abstract!Line, Abstract!Inst, Inst, M
<1>6. \A c : Abstract!Direct(c) = DirectlyCalled(c)
  BY DEF Abstract!Direct, DirectlyCalled, Abstract!Callee, Callee, Abstract!Inst, Inst, M
<1> QED BY <1>1, <1>2, <1>3, <1>4, <1>5, <1>6

LEMMA VisitedNow ==
  ASSUME IsSeq(stack)
  PROVE  /\ stack = <<>> => ToVisit = pending
         /\ stack # <<>> => ToVisit = pending \cup {stack[1].call.v}
<1>1. Len(stack) \in Nat /\ DOMAIN stack = 1 .. Len(stack) /\ (stack # <<>> => Len(stack) > 0)
      /\ (stack = <<>> => Len(stack) = 0)
  BY SeqShape, NonEmpty, EmptySeq
<1>2. stack = <<>> => DOMAIN stack \cap {1} = {}
  BY <1>1
<1>3. stack # <<>> => DOMAIN stack \cap {1} = {1}
  BY <1>1
<1> QED BY <1>2, <1>3 DEF ToVisit

Implementing == Flowing /\ TraceOK /\ AtHand /\ DirectOK

LEMMA ImplementingInit == Init => Implementing
<1> SUFFICES ASSUME Init
             PROVE  Implementing
  OBVIOUS
<1>1. stack = <<>>
  BY DEF Init
<1> QED BY <1>1, FlowingInit, InitInStep DEF Implementing, AtHand, DirectOK

LEMMA ImplementingStep == Implementing /\ [Next]_vars => Implementing'
<1> SUFFICES ASSUME Implementing, [Next]_vars
             PROVE  Implementing'
  OBVIOUS
<1>1. Flowing' /\ TypesOK /\ StackOK
  BY FlowingStep DEF Implementing, Flowing, TypesOK
<1>2. TraceOK' /\ AtHand' /\ DirectOK'
  BY <1>1, StepInStep, AtHandStep, DirectStep DEF Implementing
<1> QED BY <1>1, <1>2 DEF Implementing

LEMMA AbstractInit == Init => Abstract!AInit
<1> SUFFICES ASSUME Init
             PROVE  Abstract!AInit
  OBVIOUS
<1>1. stack = <<>> /\ IsSeq(stack)
  BY SeqOfAny, EmptySeq DEF Init
<1>2. ToVisit = Calls(M)
  BY <1>1, VisitedNow DEF Init
<1> QED BY <1>2, SameRelations DEF Init, Abstract!AInit, ToVisit, M

\* What is printed for the call at hand.
LEMMA ReportVisits ==
  ASSUME Implementing, Next, Report
  PROVE  Abstract!ANext
<1> DEFINE c == stack[1].call.v
           names == Self.results
<1>1. /\ TypesOK /\ stack # <<>> /\ Len(stack) = 1 /\ stack' = <<>> /\ Top = stack[1]
      /\ Top.todo = <<>> /\ Top.call.fn = "collect"
  BY DEF Implementing, Flowing, Report, Returning, Depth, Top
<1>2. c \in Calls(M) /\ c \notin pending /\ \A d \in pending : Precedes(M, c, d)
  BY <1>1 DEF Implementing, AtHand
<1>3. Len(collectors) = 1 /\ Self = collectors[1] /\ stack[1].level = 1
  <2>1. LevelsOK(stack, Len(collectors))
    BY <1>1 DEF TypesOK, StackOK
  <2> QED BY <1>1, <2>1 DEF LevelsOK, Self
<1>4. names \subseteq Callable(M, Flows, c)
  BY <1>1, <1>3 DEF Implementing, Flowing, ResultsFlow
<1>5. DirectlyCalled(c) \subseteq names
  <2> SUFFICES ASSUME NEW f \in DirectlyCalled(c)
               PROVE  f \in names
    OBVIOUS
  <2>1. \A w : <<traceValue(w, 0, 0)>> # <<>>
    OBVIOUS
  <2>2. ~ Awaited(stack, f)
    BY <1>1, <2>1 DEF Awaited
  <2> QED BY <1>1, <1>3, <2>2 DEF Implementing, DirectOK
<1>6. ToVisit = pending \cup {c} /\ ToVisit' = pending /\ input' = input
  <2>1. IsSeq(stack) /\ IsSeq(stack')
    BY <1>1, SeqOfAny, EmptySeq DEF TypesOK, StackOK, IsStack
  <2>2. ToVisit = pending \cup {c}
    BY <1>1, <2>1, VisitedNow
  <2>3. ToVisit' = pending'
    <3>1. DOMAIN <<>> = {}
      BY SeqShape, SeqOfAny, EmptySeq
    <3>2. DOMAIN stack' \cap {1} = {}
      BY <1>1, <3>1
    <3> QED BY <3>2 DEF ToVisit
  <2> QED BY <2>2, <2>3 DEF Report
<1>7. output' = IF names = {} THEN output
                ELSE Append(output, [line |-> Inst(M, c).n, names |-> names])
  BY <1>1 DEF Report
<1>8. \A d \in ToVisit \ {c} : Precedes(M, c, d)
  BY <1>2, <1>6
<1>9. ToVisit' = ToVisit \ {c} /\ c \in ToVisit
  BY <1>2, <1>6
<1> HIDE DEF c, names
<1>10. PICK x \in ToVisit : x = c
  BY <1>9
<1>11. Abstract!Visit(x)
  <2>1. /\ \A d \in ToVisit \ {x} : Abstract!Precedes(M, x, d)
        /\ names \in SUBSET Abstract!Callable(M, Abstract!FlowOf[input], x)
        /\ Abstract!Direct(x) \subseteq names
        /\ output' = IF names = {} THEN output
                     ELSE Append(output, [line |-> Abstract!Line(x), names |-> names])
    BY <1>4, <1>5, <1>7, <1>8, <1>10, SameRelations DEF Flows
  <2> QED BY <1>6, <1>9, <1>10, <2>1 DEF Abstract!Visit, ToVisit, M
<1> QED BY <1>10, <1>11 DEF Abstract!ANext, ToVisit

LEMMA AbstractStep == Implementing /\ [Next]_vars => [Abstract!ANext]_(Abstract!avars)
<1> SUFFICES ASSUME Implementing, [Next]_vars
             PROVE  Abstract!ANext \/ UNCHANGED <<input, ToVisit, output>>
  BY DEF Abstract!avars, ToVisit
<1>1. TypesOK /\ IsSeq(stack) /\ IsSeq(stack') /\ input' = input
  <2>1. TypesOK /\ TypesOK'
    BY TypesStep DEF Implementing, Flowing
  <2> QED BY <2>1, SameModule DEF TypesOK, StackOK, IsStack
<1>2. /\ stack' = <<>> => ToVisit' = pending'
      /\ stack' # <<>> => ToVisit' = pending' \cup {stack'[1].call.v}
  <2>1. Len(stack') \in Nat /\ DOMAIN stack' = 1 .. Len(stack') /\ (stack' # <<>> => Len(stack') > 0)
        /\ (stack' = <<>> => Len(stack') = 0)
    BY <1>1, SeqShape, NonEmpty, EmptySeq
  <2>2. stack' = <<>> => DOMAIN stack' \cap {1} = {}
    BY <2>1
  <2>3. stack' # <<>> => DOMAIN stack' \cap {1} = {1}
    BY <2>1
  <2> QED BY <2>2, <2>3 DEF ToVisit
<1>3. CASE UNCHANGED vars
  BY <1>3 DEF vars, ToVisit
<1>4. CASE Next /\ stack # <<>> /\ stack' = <<>>
  BY <1>1, <1>4, OnlyReport, ReportVisits
<1>5. CASE Next /\ stack # <<>> /\ stack' # <<>>
  BY <1>1, <1>2, <1>5, FirstStays, VisitedNow
<1>6. CASE Next /\ stack = <<>> /\ stack' = <<>>
  BY <1>1, <1>2, <1>6, FirstStarts, VisitedNow
<1>7. CASE Next /\ stack = <<>> /\ stack' # <<>>
  <2>1. CollectNext /\ output' = output
    BY <1>1, <1>7, FirstStarts
  <2>2. PICK c \in pending : pending' = pending \ {c} /\ stack'[1].call.v = c
    BY <1>1, <2>1, FirstStarted
  <2>3. ToVisit' = pending /\ ToVisit = pending
    BY <1>1, <1>2, <1>7, <2>2, VisitedNow
  <2> QED BY <1>1, <2>1, <2>3
<1> QED BY <1>3, <1>4, <1>5, <1>6, <1>7

(***************************************************************************)
(* The pass implements its abstract specification, whatever the module,    *)
(* however deep the recursion may go and in whatever order the sets it     *)
(* keeps yield their elements: no function is printed for a call that does *)
(* not flow there, through traceValue (line 118), traceMemory (line 316)   *)
(* and getCallBases (line 507) together; for a direct call its function is,*)
(* for visitedSet (line 118) cannot have it before; and each call is dealt *)
(* with once, in the order of the module's functions, blocks and           *)
(* instructions (lines 598 to 603).                                        *)
(***************************************************************************)
THEOREM PassImplementsAbstract == Spec => ImplementsAbstract
<1>1. Init => Implementing /\ Abstract!AInit
  BY ImplementingInit, AbstractInit
<1>2. Implementing /\ [Next]_vars => Implementing'
  BY ImplementingStep
<1>3. Implementing /\ [Next]_vars => [Abstract!ANext]_(Abstract!avars)
  BY AbstractStep
<1> QED BY <1>1, <1>2, <1>3, PTL DEF Spec, ImplementsAbstract, Abstract!ASpec
=============================================================================
