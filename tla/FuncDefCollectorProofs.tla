----------------------- MODULE FuncDefCollectorProofs -----------------------
(***************************************************************************)
(* Proofs about FuncDefCollector, for every set of modules and every depth *)
(* of the native stack: what the collectors remember is in step with the   *)
(* activations on the stack.                                               *)
(***************************************************************************)
EXTENDS FuncDefCollector, DataLemmas

-----------------------------------------------------------------------------
(***************************************************************************)
(* Records of which only the fields matter.                                *)
(***************************************************************************)
IsActivation(a) ==
  a = [call |-> a.call, todo |-> a.todo, level |-> a.level, stage |-> a.stage,
       found |-> a.found, seen |-> a.seen, offset |-> a.offset]

IsCollector(c) ==
  /\ c = [visitedSet |-> c.visitedSet, visitedStack |-> c.visitedStack,
          selectedBlock |-> c.selectedBlock, results |-> c.results]
  /\ IsSeq(c.visitedStack)

\* b is a at a later moment.
Later(a, b) == IsActivation(b) /\ b.call = a.call /\ b.level = a.level

LEMMA FieldsChanged ==
  ASSUME NEW a, IsActivation(a), NEW x
  PROVE  /\ Later(a, [a EXCEPT !.todo = x])
         /\ Later(a, [a EXCEPT !.stage = x])
         /\ Later(a, [a EXCEPT !.found = x])
         /\ Later(a, [a EXCEPT !.seen = x])
         /\ Later(a, [a EXCEPT !.offset = x])
BY DEF IsActivation, Later

LEMMA CollectorChanged ==
  ASSUME NEW c, IsCollector(c), NEW vs, NEW st, IsSeq(st)
  PROVE  /\ IsCollector([c EXCEPT !.visitedSet = vs, !.visitedStack = st])
         /\ [c EXCEPT !.visitedSet = vs, !.visitedStack = st].visitedSet = vs
         /\ [c EXCEPT !.visitedSet = vs, !.visitedStack = st].visitedStack = st
<1> DEFINE e == [c EXCEPT !.visitedSet = vs]
           d == [e EXCEPT !.visitedStack = st]
<1>1. e = [visitedSet |-> vs, visitedStack |-> c.visitedStack,
           selectedBlock |-> c.selectedBlock, results |-> c.results]
  BY DEF IsCollector
<1> HIDE DEF e
<1>2. d = [visitedSet |-> vs, visitedStack |-> st,
           selectedBlock |-> c.selectedBlock, results |-> c.results]
  BY <1>1
<1>3. IsCollector(d) /\ d.visitedSet = vs /\ d.visitedStack = st
  BY <1>2 DEF IsCollector
<1>4. [c EXCEPT !.visitedSet = vs, !.visitedStack = st] = d
  BY DEF e
<1> HIDE DEF d
<1> QED BY <1>3, <1>4

LEMMA LaterStill ==
  ASSUME NEW a, NEW b, NEW c, Later(a, b), Later(b, c)
  PROVE  Later(a, c)
BY DEF Later

-----------------------------------------------------------------------------
(***************************************************************************)
(* Stacks.                                                                 *)
(***************************************************************************)
IsStack(s) == IsSeq(s) /\ \A i \in 1 .. Len(s) : IsActivation(s[i])

\* t has the activations of s, later.
Kept(s, t) == IsStack(t) /\ Len(t) = Len(s) /\ \A i \in 1 .. Len(s) : Later(s[i], t[i])

\* ... and one more, or one less.
Grown(s, t, call, level) ==
  /\ IsStack(t) /\ Len(t) = Len(s) + 1
  /\ \A i \in 1 .. Len(s) : Later(s[i], t[i])
  /\ t[Len(t)].call = call /\ t[Len(t)].level = level

Shrunk(s, t) ==
  IsStack(t) /\ Len(t) = Len(s) - 1 /\ \A i \in 1 .. Len(s) - 1 : Later(s[i], t[i])

LEMMA KeptSame ==
  ASSUME NEW s, IsStack(s)
  PROVE  Kept(s, s)
BY DEF IsStack, Kept, Later, IsActivation

LEMMA KeptOne ==
  ASSUME NEW s, IsStack(s), NEW n, NEW a, n \in 1 .. Len(s) => Later(s[n], a)
  PROVE  Kept(s, [s EXCEPT ![n] = a])
<1> DEFINE t == [s EXCEPT ![n] = a]
<1>1. IsSeq(s)
  BY DEF IsStack
<1>2. IsSeq(t)
  BY <1>1, Replaced
<1>3. Len(t) = Len(s)
  BY <1>1, Replaced
<1>4. \A i \in 1 .. Len(s) : t[i] = IF i = n THEN a ELSE s[i]
  BY <1>1, Replaced
<1> HIDE DEF t
<1>5. \A i \in 1 .. Len(s) : Later(s[i], s[i])
  BY DEF IsStack, Later
<1>6. \A i \in 1 .. Len(s) : Later(s[i], t[i])
  BY <1>4, <1>5
<1> QED BY <1>2, <1>3, <1>6 DEF Kept, IsStack, Later, t

LEMMA KeptKept ==
  ASSUME NEW s, NEW t, NEW u, Kept(s, t), Kept(t, u)
  PROVE  Kept(s, u)
BY LaterStill DEF Kept

LEMMA GrownOne ==
  ASSUME NEW s, NEW t, IsStack(s), Kept(s, t), NEW call, NEW todo, NEW level
  PROVE  Grown(s, Append(t, Activation(call, todo, level)), call, level)
<1> DEFINE a == Activation(call, todo, level)
           u == Append(t, a)
<1>1. IsActivation(a) /\ a.call = call /\ a.level = level
  BY DEF Activation, IsActivation
<1>2. IsSeq(t) /\ Len(t) \in Nat /\ Len(t) = Len(s)
  BY SeqShape DEF Kept, IsStack
<1> HIDE DEF a
<1>3. /\ IsSeq(u) /\ Len(u) = Len(t) + 1
      /\ \A i \in 1 .. Len(t) : u[i] = t[i]
      /\ u[Len(t) + 1] = a
  BY <1>2, Pushed
<1> HIDE DEF u
<1>4. \A i \in 1 .. Len(u) : IsActivation(u[i])
  BY <1>1, <1>2, <1>3 DEF Kept, IsStack
<1>5. \A i \in 1 .. Len(s) : Later(s[i], u[i])
  BY <1>2, <1>3 DEF Kept
<1> QED BY <1>1, <1>2, <1>3, <1>4, <1>5 DEF Grown, IsStack, u, a

LEMMA ShrunkOne ==
  ASSUME NEW s, IsStack(s), Len(s) > 0
  PROVE  Shrunk(s, SubSeq(s, 1, Len(s) - 1))
<1> DEFINE t == SubSeq(s, 1, Len(s) - 1)
<1>1. Len(s) \in Nat
  BY SeqShape DEF IsStack
<1>2. IsSeq(t) /\ Len(t) = Len(s) - 1 /\ \A i \in 1 .. Len(s) - 1 : t[i] = s[i]
  BY AllButLast DEF IsStack
<1> HIDE DEF t
<1> QED BY <1>1, <1>2 DEF Shrunk, IsStack, Later, t

LEMMA ShrunkKept ==
  ASSUME NEW s, NEW t, NEW u, IsStack(s), Shrunk(s, t), Kept(t, u)
  PROVE  Shrunk(s, u)
BY LaterStill DEF Shrunk, Kept

-----------------------------------------------------------------------------
(***************************************************************************)
(* Stack and collectors are in step: every collect activation has its own  *)
(* collector, and what it calls works for that one.                        *)
(***************************************************************************)
\* The activations of s work for n collectors.
LevelsOK(s, n) ==
  /\ \A i \in 1 .. Len(s) : s[i].level \in 1 .. n
  /\ \A i, j \in 1 .. Len(s) : i <= j => s[i].level <= s[j].level
  /\ Len(s) = 0 => n = 0
  /\ Len(s) > 0 => s[1].level = 1 /\ s[1].call.fn = "collect" /\ s[Len(s)].level = n
  /\ \A i \in 2 .. Len(s) :
       s[i].level = s[i - 1].level + (IF s[i].call.fn = "collect" THEN 1 ELSE 0)

CollectorsOK(cs) == IsSeq(cs) /\ \A k \in 1 .. Len(cs) : IsCollector(cs[k])

StackOK == IsStack(stack) /\ CollectorsOK(collectors) /\ LevelsOK(stack, Len(collectors))

\* d is c but for the blocks selected and the results.
SameTrace(c, d) ==
  IsCollector(d) /\ d.visitedSet = c.visitedSet /\ d.visitedStack = c.visitedStack

\* The collectors but for the innermost one are what they were, that one is c.
InnermostIs(c) ==
  /\ IsSeq(collectors') /\ Len(collectors') = Len(collectors)
  /\ \A k \in 1 .. Len(collectors) - 1 : collectors'[k] = collectors[k]
  /\ collectors'[Len(collectors)] = c

(***************************************************************************)
(* The steps, by what they do to the two.                                  *)
(***************************************************************************)
Works ==
  /\ Kept(stack, stack')
  /\ \/ UNCHANGED collectors
     \/ Len(stack) > 0 /\ \E c : InnermostIs(c) /\ SameTrace(Self, c)

EntersOther ==
  /\ UNCHANGED collectors
  /\ Len(stack) > 0
  /\ \E call : /\ call.fn \notin {"traceValue", "collect"}
               /\ Grown(stack, stack', call, Top.level)

EntersTrace ==
  /\ Len(stack) > 0
  /\ \E call : /\ call.fn = "traceValue" /\ call.v \notin Self.visitedSet
               /\ Grown(stack, stack', call, Top.level)
               /\ InnermostIs([Self EXCEPT !.visitedSet = @ \cup {call.v},
                                           !.visitedStack = Append(@, call.v)])

EntersCollect ==
  /\ \E call : call.fn = "collect" /\ Grown(stack, stack', call, Len(collectors) + 1)
  /\ collectors' = Append(collectors, NewCollector)

LeavesOther ==
  /\ Len(stack) > 0 /\ Top.call.fn \notin {"traceValue", "collect"}
  /\ Shrunk(stack, stack')
  /\ UNCHANGED collectors

LeavesTrace ==
  /\ Len(stack) > 0 /\ Top.call.fn = "traceValue"
  /\ Shrunk(stack, stack')
  /\ \E c : InnermostIs(c) /\ SameTrace(Untraced(Top.call.v), c)

LeavesCollect ==
  /\ Len(stack) > 0 /\ Top.call.fn = "collect"
  /\ Shrunk(stack, stack')
  /\ IsSeq(collectors') /\ Len(collectors') = Len(collectors) - 1
  /\ \A k \in 1 .. Len(collectors) - 1 : collectors'[k] = collectors[k]

StackStep ==
  \/ Works \/ EntersOther \/ EntersTrace \/ EntersCollect
  \/ LeavesOther \/ LeavesTrace \/ LeavesCollect

LEMMA NonEmpty ==
  ASSUME NEW s, IsSeq(s), s # <<>>
  PROVE  Len(s) \in Nat /\ Len(s) > 0
BY SeqShape, EmptySeq DEF IsSeq

LEMMA CalledKept ==
  ASSUME StackOK
  PROVE  Kept(stack, Called)
<1>1. IsStack(stack)
  BY DEF StackOK
<1>2. Depth \in 1 .. Len(stack) =>
        Later(stack[Depth], [stack[Depth] EXCEPT !.todo = Tail(stack[Depth].todo)])
  BY <1>1, FieldsChanged DEF IsStack
<1> QED BY <1>1, <1>2, KeptOne DEF Called

LEMMA Innermost ==
  ASSUME StackOK, Len(stack) > 0
  PROVE  /\ Len(stack) \in Nat /\ Len(collectors) \in Nat /\ Len(collectors) > 0
         /\ IsCollector(Self)
         /\ \A c : InCollector(c) => InnermostIs(c)
<1>1. Len(stack) \in Nat /\ Len(collectors) \in Nat
  BY SeqShape DEF StackOK, IsStack, CollectorsOK
<1>2. Len(collectors) > 0
  BY <1>1 DEF StackOK, LevelsOK
<1>3. IsCollector(Self)
  BY <1>1, <1>2 DEF StackOK, CollectorsOK, Self
<1>4. ASSUME NEW c, InCollector(c)
      PROVE  InnermostIs(c)
  <2>1. IsSeq(collectors)
    BY DEF StackOK, CollectorsOK
  <2> DEFINE d == [collectors EXCEPT ![Len(collectors)] = c]
  <2>2. IsSeq(d)
    BY <2>1, Replaced
  <2>3. Len(d) = Len(collectors)
    BY <2>1, Replaced
  <2>4. \A k \in 1 .. Len(collectors) : d[k] = IF k = Len(collectors) THEN c ELSE collectors[k]
    BY <2>1, Replaced
  <2>5. collectors' = d
    BY <1>4 DEF InCollector
  <2> HIDE DEF d
  <2> QED BY <1>1, <1>2, <2>2, <2>3, <2>4, <2>5 DEF InnermostIs
<1> QED BY <1>1, <1>2, <1>3, <1>4

LEMMA Entered ==
  ASSUME StackOK, NEW frames, Kept(stack, frames), NEW todo, Enter(frames, todo)
  PROVE  Grown(stack, stack', Head(Top.todo), Top.level)
<1>1. IsStack(stack)
  BY DEF StackOK
<1> QED BY <1>1, GrownOne DEF Enter

LEMMA HandedUp ==
  ASSUME StackOK, Len(stack) > 0, NEW results, HandUp(results)
  PROVE  Shrunk(stack, stack')
<1> DEFINE p == SubSeq(stack, 1, Len(stack) - 1)
           n == Len(stack) - 1
           b == [p[n] EXCEPT !.found = p[n].found \cup results]
<1>1. IsStack(stack) /\ Shrunk(stack, p)
  BY ShrunkOne DEF StackOK
<1>2. stack' = [p EXCEPT ![n] = b]
  BY DEF HandUp, Popped, Depth
<1>3. n \in 1 .. Len(p) => Later(p[n], b)
  BY <1>1, FieldsChanged DEF Shrunk, IsStack
<1>4. Kept(p, stack')
  BY <1>1, <1>2, <1>3, KeptOne DEF Shrunk
<1> QED BY <1>1, <1>4, ShrunkKept

LEMMA TakenUp ==
  ASSUME StackOK, NEW todo, TakeUp(todo)
  PROVE  Kept(stack, stack')
<1>1. IsStack(stack)
  BY DEF StackOK
<1> DEFINE a == stack[Depth]
           b == [a EXCEPT !.todo = todo]
           c == [b EXCEPT !.stage = 2]
<1>2. Depth \in 1 .. Len(stack) => Later(a, c)
  <2> SUFFICES ASSUME Depth \in 1 .. Len(stack)
               PROVE  Later(a, c)
    OBVIOUS
  <2>1. Later(a, b)
    BY <1>1, FieldsChanged DEF IsStack
  <2>2. Later(b, c)
    BY <2>1, FieldsChanged DEF Later
  <2> QED BY <2>1, <2>2, LaterStill
<1>3. stack' = [stack EXCEPT ![Depth] = c]
  BY DEF TakeUp
<1> QED BY <1>1, <1>2, <1>3, KeptOne

LEMMA RunningStack ==
  ASSUME StackOK, NEW fn, Calling(fn) \/ Returning(fn)
  PROVE  Len(stack) \in Nat /\ Len(stack) > 0
BY NonEmpty DEF Calling, Returning, StackOK, IsStack

LEMMA StackSteps ==
  ASSUME StackOK, Next
  PROVE  StackStep
<1>1. IsStack(stack)
  BY DEF StackOK
<1>2. Kept(stack, stack)
  BY <1>1, KeptSame
<1>3. CASE SeenValue \/ SeenSite
  BY <1>3, CalledKept DEF SeenValue, SeenSite, Works, StackStep
<1>4. CASE NoReturn \/ NoActualArg \/ NoFormalArg \/ Overflow
  BY <1>4, <1>2 DEF NoReturn, NoActualArg, NoFormalArg, Overflow, Works, StackStep
<1>5. CASE UseFound
  <2>1. \E todo : TakeUp(todo)
    BY <1>5 DEF UseFound
  <2> QED BY <1>5, <2>1, TakenUp DEF UseFound, Works, StackStep
<1>6. CASE AskSiblings
  BY <1>6, TakenUp DEF AskSiblings, Works, StackStep
<1>7. CASE SelectBlock \/ UnselectBlock
  <2>1. Len(stack) > 0
    BY <1>7, RunningStack DEF SelectBlock, UnselectBlock
  <2>2. \E B : InCollector([Self EXCEPT !.selectedBlock = B])
    BY <1>7 DEF SelectBlock, UnselectBlock
  <2>3. PICK B : InCollector([Self EXCEPT !.selectedBlock = B])
    BY <2>2
  <2>4. InnermostIs([Self EXCEPT !.selectedBlock = B])
    BY <2>1, <2>3, Innermost
  <2>5. SameTrace(Self, [Self EXCEPT !.selectedBlock = B])
    BY <2>1, Innermost DEF SameTrace, IsCollector
  <2> QED BY <1>7, <2>1, <2>4, <2>5, CalledKept DEF SelectBlock, UnselectBlock, Works, StackStep
<1>8. CASE TraceMemory \/ FindSiblingGEPs
  <2>1. Len(stack) > 0
    BY <1>8, RunningStack DEF TraceMemory, FindSiblingGEPs
  <2>2. UNCHANGED collectors /\ \E todo : Enter(Called, todo)
    BY <1>8 DEF TraceMemory, FindSiblingGEPs
  <2>3. Head(Top.todo).fn \notin {"traceValue", "collect"}
    BY <1>8 DEF TraceMemory, FindSiblingGEPs, Calling
  <2> QED BY <2>1, <2>2, <2>3, CalledKept, Entered DEF EntersOther, StackStep
<1>9. CASE EndMemory \/ EndSiblings
  <2>1. Len(stack) > 0
    BY <1>9, RunningStack DEF EndMemory, EndSiblings
  <2>2. UNCHANGED collectors /\ \E results : HandUp(results)
    BY <1>9 DEF EndMemory, EndSiblings
  <2>3. Top.call.fn \notin {"traceValue", "collect"}
    BY <1>9 DEF EndMemory, EndSiblings, Returning
  <2> QED BY <2>1, <2>2, <2>3, HandedUp DEF LeavesOther, StackStep
<1>10. CASE GetCallBases
  <2>1. Len(stack) > 0
    BY <1>10, RunningStack DEF GetCallBases
  <2> DEFINE to == Head(Top.todo).to
  <2>2. PICK x, y, todo : Enter([Called EXCEPT ![to].seen = x, ![to].found = y], todo)
    BY <1>10 DEF GetCallBases
  <2> DEFINE a == [Called[to] EXCEPT !.seen = x]
             b == [a EXCEPT !.found = y]
  <2>3. Kept(stack, Called) /\ IsStack(Called)
    BY CalledKept DEF Kept
  <2>4. to \in 1 .. Len(Called) => Later(Called[to], b)
    <3> SUFFICES ASSUME to \in 1 .. Len(Called)
                 PROVE  Later(Called[to], b)
      OBVIOUS
    <3>1. Later(Called[to], a)
      BY <2>3, FieldsChanged DEF IsStack
    <3>2. Later(a, b)
      BY <3>1, FieldsChanged DEF Later
    <3> QED BY <3>1, <3>2, LaterStill
  <2> DEFINE frames == [Called EXCEPT ![to] = b]
  <2>5. Kept(Called, frames)
    BY <2>3, <2>4, KeptOne
  <2>6. Kept(stack, frames)
    BY <2>3, <2>5, KeptKept
  <2>7. frames = [Called EXCEPT ![to].seen = x, ![to].found = y]
    OBVIOUS
  <2>8. Enter(frames, todo)
    BY <2>2, <2>7
  <2> HIDE DEF frames
  <2>9. Grown(stack, stack', Head(Top.todo), Top.level)
    BY <2>6, <2>8, Entered
  <2>10. Head(Top.todo).fn \notin {"traceValue", "collect"} /\ UNCHANGED collectors
    BY <1>10 DEF GetCallBases, Calling
  <2> QED BY <2>1, <2>9, <2>10 DEF EntersOther, StackStep
<1>11. CASE EndSites
  <2>1. Len(stack) > 0
    BY <1>11, RunningStack DEF EndSites
  <2> QED BY <1>1, <1>11, <2>1, ShrunkOne DEF EndSites, Popped, Depth, Returning, LeavesOther, StackStep
<1>12. CASE TraceValue
  <2>1. Len(stack) > 0
    BY <1>12, RunningStack DEF TraceValue
  <2> DEFINE call == Head(Top.todo)
             c == [Self EXCEPT !.visitedSet = @ \cup {call.v},
                               !.visitedStack = Append(@, call.v)]
  <2>2. PICK todo : Enter(Called, todo)
    BY <1>12 DEF TraceValue
  <2>3. Grown(stack, stack', call, Top.level)
    BY <2>2, CalledKept, Entered
  <2>4. InCollector(c) /\ call.fn = "traceValue" /\ call.v \notin Self.visitedSet
    BY <1>12 DEF TraceValue, Calling
  <2>5. InnermostIs(c)
    BY <2>1, <2>4, Innermost
  <2> HIDE DEF call
  <2> QED BY <2>1, <2>3, <2>4, <2>5 DEF EntersTrace, StackStep
<1>13. CASE CollectNext \/ CollectNested
  <2>1. PICK frames, call : BeginCollect(frames, call) /\ Kept(stack, frames) /\ call.fn = "collect"
    <3>1. CASE CollectNext
      BY <3>1, <1>2 DEF CollectNext, collect, CallOf
    <3>2. CASE CollectNested
      BY <3>2, CalledKept DEF CollectNested, Calling
    <3> QED BY <1>13, <3>1, <3>2
  <2>2. Grown(stack, stack', call, Len(collectors) + 1)
    BY <1>1, <2>1, GrownOne DEF BeginCollect
  <2> QED BY <2>1, <2>2 DEF BeginCollect, EntersCollect, StackStep
<1>14. CASE EndTrace
  <2>1. Len(stack) > 0
    BY <1>14, RunningStack DEF EndTrace
  <2>2. Top.call.fn = "traceValue"
    BY <1>14 DEF EndTrace, Returning
  <2>3. Shrunk(stack, Popped)
    BY <1>1, <2>1, ShrunkOne DEF Popped, Depth
  <2>4. Shrunk(stack, stack')
    <3>1. CASE stack' = Popped
      BY <3>1, <2>3
    <3>2. CASE stack' = [Popped EXCEPT ![Top.call.to] = collectBases(@, Top.call.v)]
      <4> DEFINE n == Top.call.to
                 a == Popped[n]
                 b == collectBases(a, Top.call.v)
      <4>1. n \in 1 .. Len(Popped) => Later(a, b)
        <5> SUFFICES ASSUME n \in 1 .. Len(Popped)
                     PROVE  Later(a, b)
          OBVIOUS
        <5>1. IsActivation(a)
          BY <2>3 DEF Shrunk, IsStack
        <5>2. b = a \/ (\E x : b = [a EXCEPT !.offset = x]) \/ (\E x : b = [a EXCEPT !.seen = x])
          BY DEF collectBases
        <5> HIDE DEF a, b
        <5>3. b = a => Later(a, b)
          BY <5>1 DEF Later
        <5>4. ASSUME NEW x, b = [a EXCEPT !.offset = x]
              PROVE  Later(a, b)
          BY <5>1, <5>4, FieldsChanged
        <5>5. ASSUME NEW x, b = [a EXCEPT !.seen = x]
              PROVE  Later(a, b)
          BY <5>1, <5>5, FieldsChanged
        <5> QED BY <5>2, <5>3, <5>4, <5>5
      <4>2. Kept(Popped, [Popped EXCEPT ![n] = b])
        BY <2>3, <4>1, KeptOne DEF Shrunk
      <4>3. stack' = [Popped EXCEPT ![n] = b]
        BY <3>2
      <4> QED BY <1>1, <2>3, <4>2, <4>3, ShrunkKept
    <3> QED BY <1>14, <3>1, <3>2 DEF EndTrace
  <2>5. IsCollector(Untraced(Top.call.v))
    <3>1. IsCollector(Self)
      BY <2>1, Innermost
    <3>2. IsSeq(SubSeq(Self.visitedStack, 1, Len(Self.visitedStack) - 1))
      <4>1. CASE Len(Self.visitedStack) > 0
        BY <3>1, <4>1, AllButLast DEF IsCollector
      <4>2. CASE ~(Len(Self.visitedStack) > 0)
        <5>1. Len(Self.visitedStack) = 0
          BY <3>1, <4>2, SeqShape DEF IsCollector
        <5> QED BY <5>1, SeqOfAny, EmptySeq DEF IsSeq
      <4> QED BY <4>1, <4>2
    <3> QED BY <3>1, <3>2, CollectorChanged DEF Untraced
  <2>6. PICK r : InCollector([Untraced(Top.call.v) EXCEPT !.results = r])
    <3>1. CASE InCollector(Untraced(Top.call.v))
      <4>1. Untraced(Top.call.v) = [Untraced(Top.call.v) EXCEPT !.results = Untraced(Top.call.v).results]
        BY <2>5 DEF IsCollector
      <4> QED BY <3>1, <4>1
    <3>2. CASE \E r : InCollector([Untraced(Top.call.v) EXCEPT !.results = r])
      BY <3>2
    <3> QED BY <1>14, <3>1, <3>2 DEF EndTrace
  <2> DEFINE c == [Untraced(Top.call.v) EXCEPT !.results = r]
  <2>7. SameTrace(Untraced(Top.call.v), c)
    BY <2>5 DEF SameTrace, IsCollector
  <2>8. InnermostIs(c)
    BY <2>1, <2>6, Innermost
  <2> HIDE DEF c
  <2> QED BY <2>1, <2>2, <2>4, <2>7, <2>8 DEF LeavesTrace, StackStep

<1>15. CASE EndNested
  <2>1. Len(stack) \in Nat /\ Len(stack) > 0
    BY <1>15, RunningStack DEF EndNested
  <2>2. Shrunk(stack, Popped)
    BY <1>1, <2>1, ShrunkOne DEF Popped, Depth
  <2> DEFINE n == Depth - 1
  <2>3. PICK todo : stack' = [Popped EXCEPT ![n].todo = todo]
    BY <1>15 DEF EndNested
  <2> DEFINE b == [Popped[n] EXCEPT !.todo = todo]
  <2>4. n \in 1 .. Len(Popped) => Later(Popped[n], b)
    BY <2>2, FieldsChanged DEF Shrunk, IsStack
  <2>5. stack' = [Popped EXCEPT ![n] = b]
    BY <2>3
  <2>6. Kept(Popped, stack')
    <3>1. IsStack(Popped)
      BY <2>2 DEF Shrunk
    <3>2. Kept(Popped, [Popped EXCEPT ![n] = b])
      BY <3>1, <2>4, KeptOne
    <3> QED BY <3>2, <2>5
  <2>7. Shrunk(stack, stack')
    BY <1>1, <2>2, <2>6, ShrunkKept
  <2>8. /\ IsSeq(collectors') /\ Len(collectors') = Len(collectors) - 1
        /\ \A k \in 1 .. Len(collectors) - 1 : collectors'[k] = collectors[k]
    BY <1>15, <2>1, Innermost, AllButLast DEF EndNested, StackOK, CollectorsOK
  <2> QED BY <1>15, <2>1, <2>7, <2>8 DEF EndNested, Returning, LeavesCollect, StackStep
<1>16. CASE Report
  <2>1. Len(stack) = 1 /\ Len(collectors) = 1
    BY <1>16, RunningStack DEF Report, Depth, StackOK, LevelsOK
  <2>2. stack' = <<>> /\ collectors' = <<>>
    BY <1>16 DEF Report
  <2>3. IsSeq(<<>>) /\ Len(<<>>) = 0
    BY SeqOfAny, EmptySeq
  <2>4. Shrunk(stack, stack')
    BY <2>1, <2>2, <2>3 DEF Shrunk, IsStack
  <2> QED BY <1>16, <2>1, <2>2, <2>3, <2>4 DEF Report, Returning, LeavesCollect, StackStep
<1> QED
  BY <1>3, <1>4, <1>5, <1>6, <1>7, <1>8, <1>9, <1>10, <1>11, <1>12, <1>13, <1>14, <1>15, <1>16
  DEF Next, Value, Memory, Sites, Collecting

-----------------------------------------------------------------------------
LEMMA LevelsKept ==
  ASSUME NEW s, NEW t, NEW n, LevelsOK(s, n), Kept(s, t)
  PROVE  LevelsOK(t, n)
<1>1. Len(s) \in Nat /\ Len(t) = Len(s)
  BY SeqShape DEF Kept, IsStack
<1>2. \A i \in 1 .. Len(s) : t[i].call = s[i].call /\ t[i].level = s[i].level
  BY DEF Kept, Later
<1> DEFINE L == Len(s)
<1> HIDE DEF L
<1>3. \A i \in 1 .. L : t[i].level \in 1 .. n
  BY <1>2 DEF LevelsOK, L
<1>4. \A i, j \in 1 .. L : i <= j => t[i].level <= t[j].level
  BY <1>2 DEF LevelsOK, L
<1>5. L = 0 => n = 0
  BY DEF LevelsOK, L
<1>6. L > 0 => t[1].level = 1 /\ t[1].call.fn = "collect" /\ t[L].level = n
  BY <1>1, <1>2 DEF LevelsOK, L
<1>7. \A i \in 2 .. L :
        t[i].level = t[i - 1].level + (IF t[i].call.fn = "collect" THEN 1 ELSE 0)
  <2>1. \A i \in 2 .. L :
          s[i].level = s[i - 1].level + (IF s[i].call.fn = "collect" THEN 1 ELSE 0)
    BY DEF LevelsOK, L
  <2> TAKE i \in 2 .. L
  <2>2. i \in 1 .. L /\ i - 1 \in 1 .. L
    BY <1>1 DEF L
  <2>3. t[i].level = s[i].level /\ t[i].call = s[i].call /\ t[i - 1].level = s[i - 1].level
    BY <1>2, <2>2 DEF L
  <2> QED BY <2>1, <2>3
<1> QED BY <1>1, <1>3, <1>4, <1>5, <1>6, <1>7 DEF LevelsOK, L

LEMMA LevelsGrown ==
  ASSUME NEW s, NEW t, NEW n \in Nat, NEW call, NEW level, NEW m \in Nat,
         IsStack(s), LevelsOK(s, n), Grown(s, t, call, level),
         \/ call.fn = "collect" /\ level = n + 1 /\ m = n + 1
         \/ call.fn # "collect" /\ Len(s) > 0 /\ level = s[Len(s)].level /\ m = n
  PROVE  LevelsOK(t, m)
<1> DEFINE L == Len(s)
<1>1. L \in Nat /\ Len(t) = L + 1
  BY SeqShape DEF IsStack, Grown
<1>2. \A i \in 1 .. L : t[i].call = s[i].call /\ t[i].level = s[i].level
  BY DEF Grown, Later
<1>3. t[L + 1].call.fn = call.fn /\ t[L + 1].level = m
  BY <1>1 DEF Grown, LevelsOK
<1>4. m >= n
  OBVIOUS
<1> HIDE DEF L
<1>5. \A i \in 1 .. L : t[i].level \in 1 .. n
  BY <1>2 DEF LevelsOK, L
<1>6. \A i, j \in 1 .. L : i <= j => t[i].level <= t[j].level
  BY <1>2 DEF LevelsOK, L
<1>7. L = 0 => m = 1 /\ call.fn = "collect"
  BY DEF LevelsOK, L
<1>8. L > 0 => t[1].level = 1 /\ t[1].call.fn = "collect" /\ t[L].level = n
  BY <1>1, <1>2 DEF LevelsOK, L
<1>9. m = n + (IF call.fn = "collect" THEN 1 ELSE 0)
  BY DEF LevelsOK
<1>10. \A i \in 2 .. L :
         t[i].level = t[i - 1].level + (IF t[i].call.fn = "collect" THEN 1 ELSE 0)
  BY <1>1, <1>2 DEF LevelsOK, L
<1>11. m > 0
  BY <1>1, <1>5, <1>7, <1>8, <1>4
<1>12. \A i \in 1 .. L + 1 : t[i].level \in 1 .. m
  BY <1>1, <1>3, <1>4, <1>5, <1>11
<1>13. \A i, j \in 1 .. L + 1 : i <= j => t[i].level <= t[j].level
  BY <1>1, <1>3, <1>4, <1>5, <1>6
<1>14. t[1].level = 1 /\ t[1].call.fn = "collect"
  BY <1>1, <1>3, <1>7, <1>8
<1>15. \A i \in 2 .. L + 1 :
         t[i].level = t[i - 1].level + (IF t[i].call.fn = "collect" THEN 1 ELSE 0)
  BY <1>1, <1>3, <1>8, <1>9, <1>10
<1> QED BY <1>1, <1>3, <1>12, <1>13, <1>14, <1>15 DEF LevelsOK

LEMMA LevelsShrunk ==
  ASSUME NEW s, NEW t, NEW n \in Nat,
         IsStack(s), LevelsOK(s, n), Shrunk(s, t), Len(s) > 0
  PROVE  LevelsOK(t, IF s[Len(s)].call.fn = "collect" THEN n - 1 ELSE n)
<1> DEFINE L == Len(s)
           m == IF s[L].call.fn = "collect" THEN n - 1 ELSE n
<1>1. L \in Nat /\ Len(t) = L - 1
  BY SeqShape DEF IsStack, Shrunk
<1>2. \A i \in 1 .. L - 1 : t[i].call = s[i].call /\ t[i].level = s[i].level
  BY DEF Shrunk, Later
<1> HIDE DEF L
<1>3. \A i \in 1 .. L : s[i].level \in 1 .. n
  BY DEF LevelsOK, L
<1>4. s[1].level = 1 /\ s[1].call.fn = "collect" /\ s[L].level = n
  BY DEF LevelsOK, L
<1>5. L = 1 => m = 0
  BY <1>4
<1>6. L > 1 => s[L].level = s[L - 1].level + (IF s[L].call.fn = "collect" THEN 1 ELSE 0)
  BY <1>1 DEF LevelsOK, L
<1>7. L > 1 => m = s[L - 1].level
  BY <1>1, <1>3, <1>4, <1>6
<1>8. \A i, j \in 1 .. L : i <= j => s[i].level <= s[j].level
  BY DEF LevelsOK, L
<1>9. \A i \in 1 .. L - 1 : t[i].level \in 1 .. m
  BY <1>1, <1>2, <1>3, <1>7, <1>8
<1>10. \A i, j \in 1 .. L - 1 : i <= j => t[i].level <= t[j].level
  BY <1>1, <1>2, <1>8
<1>11. L - 1 > 0 => t[1].level = 1 /\ t[1].call.fn = "collect" /\ t[L - 1].level = m
  BY <1>1, <1>2, <1>4, <1>7
<1>12. \A i \in 2 .. L - 1 :
         t[i].level = t[i - 1].level + (IF t[i].call.fn = "collect" THEN 1 ELSE 0)
  <2>1. \A i \in 2 .. L :
          s[i].level = s[i - 1].level + (IF s[i].call.fn = "collect" THEN 1 ELSE 0)
    BY DEF LevelsOK, L
  <2> TAKE i \in 2 .. L - 1
  <2>2. i \in 2 .. L /\ i \in 1 .. L - 1 /\ i - 1 \in 1 .. L - 1
    BY <1>1
  <2>3. t[i].level = s[i].level /\ t[i].call = s[i].call /\ t[i - 1].level = s[i - 1].level
    BY <1>2, <2>2
  <2> QED BY <2>1, <2>2, <2>3
<1>13. L > 0
  BY DEF L
<1> HIDE DEF m
<1>14. LevelsOK(t, m)
  BY <1>1, <1>5, <1>9, <1>10, <1>11, <1>12, <1>13 DEF LevelsOK
<1> QED BY <1>14 DEF m, L

LEMMA CollectorsKept ==
  ASSUME StackOK, Len(stack) > 0, NEW c, IsCollector(c), InnermostIs(c)
  PROVE  CollectorsOK(collectors') /\ Len(collectors') = Len(collectors)
<1>1. Len(collectors) \in Nat
  BY Innermost
<1>2. \A k \in 1 .. Len(collectors) : IsCollector(collectors'[k])
  BY <1>1 DEF StackOK, CollectorsOK, InnermostIs
<1> QED BY <1>2 DEF InnermostIs, CollectorsOK

LEMMA StackKept ==
  ASSUME StackOK, StackStep
  PROVE  StackOK'
<1> DEFINE n == Len(collectors)
<1>1. Len(stack) \in Nat /\ n \in Nat /\ IsStack(stack) /\ LevelsOK(stack, n) /\ CollectorsOK(collectors)
  BY SeqShape DEF StackOK, IsStack, CollectorsOK
<1>2. SUFFICES IsStack(stack') /\ CollectorsOK(collectors') /\ LevelsOK(stack', Len(collectors'))
  BY DEF StackOK, IsStack, CollectorsOK, LevelsOK
<1>3. CASE Works
  <2>1. CollectorsOK(collectors') /\ Len(collectors') = n
    BY <1>1, <1>3, CollectorsKept DEF Works, SameTrace
  <2>2. Kept(stack, stack')
    BY <1>3 DEF Works
  <2>3. LevelsOK(stack', n)
    BY <1>1, <2>2, LevelsKept
  <2> QED BY <2>1, <2>2, <2>3 DEF Kept
<1>4. CASE EntersOther
  <2>1. PICK call : call.fn # "collect" /\ Grown(stack, stack', call, stack[Len(stack)].level)
    BY <1>4 DEF EntersOther, Top, Depth
  <2>2. UNCHANGED collectors /\ Len(stack) > 0
    BY <1>4 DEF EntersOther
  <2>3. LevelsOK(stack', n)
    BY <1>1, <2>1, <2>2, LevelsGrown
  <2> QED BY <1>1, <2>1, <2>2, <2>3 DEF Grown
<1>5. CASE EntersTrace
  <2>1. Len(stack) > 0
    BY <1>5 DEF EntersTrace
  <2>2. PICK call : /\ call.fn = "traceValue" /\ Grown(stack, stack', call, stack[Len(stack)].level)
                    /\ InnermostIs([Self EXCEPT !.visitedSet = @ \cup {call.v},
                                                !.visitedStack = Append(@, call.v)])
    BY <1>5 DEF EntersTrace, Top, Depth
  <2> DEFINE c == [Self EXCEPT !.visitedSet = @ \cup {call.v},
                               !.visitedStack = Append(@, call.v)]
  <2>3. IsCollector(c)
    <3>1. IsCollector(Self)
      BY <2>1, Innermost
    <3>2. IsSeq(Append(Self.visitedStack, call.v))
      BY <3>1, Pushed DEF IsCollector
    <3> QED BY <3>1, <3>2, CollectorChanged
  <2> HIDE DEF c
  <2>4. CollectorsOK(collectors') /\ Len(collectors') = n
    BY <2>1, <2>2, <2>3, CollectorsKept DEF c
  <2>5. LevelsOK(stack', n)
    BY <1>1, <2>1, <2>2, LevelsGrown
  <2> QED BY <2>2, <2>4, <2>5 DEF Grown
<1>6. CASE EntersCollect
  <2>1. PICK call : call.fn = "collect" /\ Grown(stack, stack', call, n + 1)
    BY <1>6 DEF EntersCollect
  <2>2. IsCollector(NewCollector)
    BY SeqOfAny, EmptySeq DEF NewCollector, IsCollector
  <2>3. /\ IsSeq(collectors') /\ Len(collectors') = n + 1
        /\ \A k \in 1 .. n : collectors'[k] = collectors[k]
        /\ collectors'[n + 1] = NewCollector
    BY <1>1, <1>6, Pushed DEF EntersCollect, CollectorsOK
  <2>4. CollectorsOK(collectors')
    BY <1>1, <2>2, <2>3 DEF CollectorsOK
  <2>5. LevelsOK(stack', n + 1)
    BY <1>1, <2>1, LevelsGrown
  <2> QED BY <2>1, <2>3, <2>4, <2>5 DEF Grown
<1>7. CASE LeavesOther
  <2>1. stack[Len(stack)].call.fn # "collect" /\ Shrunk(stack, stack')
    BY <1>7 DEF LeavesOther, Top, Depth
  <2>2. UNCHANGED collectors /\ Len(stack) > 0
    BY <1>7 DEF LeavesOther
  <2>3. LevelsOK(stack', n)
    BY <1>1, <2>1, <2>2, LevelsShrunk
  <2> QED BY <1>1, <2>1, <2>2, <2>3 DEF Shrunk
<1>8. CASE LeavesTrace
  <2>1. /\ stack[Len(stack)].call.fn # "collect" /\ Shrunk(stack, stack')
        /\ Len(stack) > 0
    BY <1>8 DEF LeavesTrace, Top, Depth
  <2>2. CollectorsOK(collectors') /\ Len(collectors') = n
    BY <1>8, <2>1, CollectorsKept DEF LeavesTrace, SameTrace
  <2>3. LevelsOK(stack', n)
    BY <1>1, <2>1, LevelsShrunk
  <2> QED BY <2>1, <2>2, <2>3 DEF Shrunk
<1>9. CASE LeavesCollect
  <2>1. /\ stack[Len(stack)].call.fn = "collect" /\ Shrunk(stack, stack')
        /\ Len(stack) > 0
    BY <1>9 DEF LeavesCollect, Top, Depth
  <2>2. /\ IsSeq(collectors') /\ Len(collectors') = n - 1
        /\ \A k \in 1 .. n - 1 : collectors'[k] = collectors[k]
    BY <1>9 DEF LeavesCollect
  <2>3. CollectorsOK(collectors')
    BY <1>1, <2>2 DEF CollectorsOK
  <2>4. LevelsOK(stack', n - 1)
    BY <1>1, <2>1, LevelsShrunk
  <2> QED BY <2>1, <2>2, <2>3, <2>4 DEF Shrunk
<1> QED BY <1>3, <1>4, <1>5, <1>6, <1>7, <1>8, <1>9 DEF StackStep

-----------------------------------------------------------------------------
(***************************************************************************)
(* What is visited is what is being traced.  That visitedStack lists the   *)
(* values in the order of their activations is what makes its last element *)
(* the one that end_trace removes.                                         *)
(***************************************************************************)
Tracing(s, k) == {i \in 1 .. Len(s) : s[i].level = k /\ s[i].call.fn = "traceValue"}

TracedBy(s, k, c) ==
  /\ \A i \in Tracing(s, k) : s[i].call.v \in c.visitedSet
  /\ \A x \in c.visitedSet : \E i \in Tracing(s, k) : s[i].call.v = x
  /\ \A i, j \in Tracing(s, k) : s[i].call.v = s[j].call.v => i = j
  /\ \A p \in 1 .. Len(c.visitedStack) : c.visitedStack[p] \in c.visitedSet
  /\ \A x \in c.visitedSet : \E p \in 1 .. Len(c.visitedStack) : c.visitedStack[p] = x
  /\ \A p, q \in 1 .. Len(c.visitedStack), i, j \in Tracing(s, k) :
       p < q /\ c.visitedStack[p] = s[i].call.v /\ c.visitedStack[q] = s[j].call.v => i < j

TraceOK == \A k \in 1 .. Len(collectors) : TracedBy(stack, k, collectors[k])

LEMMA TracedStill ==
  ASSUME NEW s, NEW t, NEW k, NEW c, NEW d, TracedBy(s, k, c),
         Tracing(t, k) = Tracing(s, k),
         \A i \in Tracing(s, k) : t[i].call = s[i].call,
         d.visitedSet = c.visitedSet, d.visitedStack = c.visitedStack
  PROVE  TracedBy(t, k, d)
<1> DEFINE T == Tracing(s, k)
           vs == c.visitedStack
<1>1. \A i \in T : t[i].call.v = s[i].call.v
  OBVIOUS
<1>2. \A i \in T : t[i].call.v \in c.visitedSet
  <2>1. \A i \in T : s[i].call.v \in c.visitedSet
    BY DEF TracedBy
  <2> HIDE DEF T
  <2> QED BY <1>1, <2>1
<1>3. \A x \in c.visitedSet : \E i \in T : t[i].call.v = x
  <2>1. \A x \in c.visitedSet : \E i \in T : s[i].call.v = x
    BY DEF TracedBy
  <2> HIDE DEF T
  <2> QED BY <1>1, <2>1
<1>4. \A i, j \in T : t[i].call.v = t[j].call.v => i = j
  <2>1. \A i, j \in T : s[i].call.v = s[j].call.v => i = j
    BY DEF TracedBy
  <2> HIDE DEF T
  <2> QED BY <1>1, <2>1
<1>5. \A p \in 1 .. Len(vs) : vs[p] \in c.visitedSet
  BY DEF TracedBy
<1>6. \A x \in c.visitedSet : \E p \in 1 .. Len(vs) : vs[p] = x
  BY DEF TracedBy
<1>7. \A p, q \in 1 .. Len(vs), i, j \in T :
        p < q /\ vs[p] = t[i].call.v /\ vs[q] = t[j].call.v => i < j
  <2>1. \A p, q \in 1 .. Len(vs), i, j \in T :
          p < q /\ vs[p] = s[i].call.v /\ vs[q] = s[j].call.v => i < j
    BY DEF TracedBy
  <2> QED BY <1>1, <2>1
<1> HIDE DEF T
<1>8. Tracing(t, k) = T
  BY DEF T
<1> QED BY <1>2, <1>3, <1>4, <1>5, <1>6, <1>7, <1>8 DEF TracedBy

LEMMA TracedKept ==
  ASSUME NEW s, NEW t, NEW k, NEW c, NEW d, TracedBy(s, k, c), Kept(s, t),
         d.visitedSet = c.visitedSet, d.visitedStack = c.visitedStack
  PROVE  TracedBy(t, k, d)
<1>1. \A i \in 1 .. Len(s) : t[i].call = s[i].call /\ t[i].level = s[i].level
  BY DEF Kept, Later
<1>2. Tracing(t, k) = Tracing(s, k)
  BY <1>1 DEF Kept, Tracing
<1>3. \A i \in Tracing(s, k) : t[i].call = s[i].call
  BY <1>1 DEF Tracing
<1> QED BY <1>2, <1>3, TracedStill

LEMMA TracingGrown ==
  ASSUME NEW s, NEW t, NEW k, NEW call, NEW level, IsStack(s), Grown(s, t, call, level)
  PROVE  /\ Tracing(t, k) = Tracing(s, k) \cup
              (IF level = k /\ call.fn = "traceValue" THEN {Len(s) + 1} ELSE {})
         /\ \A i \in Tracing(s, k) : i \in 1 .. Len(s) /\ t[i].call = s[i].call
<1> DEFINE L == Len(s)
<1>1. L \in Nat /\ Len(t) = L + 1
  BY SeqShape DEF IsStack, Grown
<1>2. \A i \in 1 .. L : t[i].call = s[i].call /\ t[i].level = s[i].level
  BY DEF Grown, Later
<1>3. t[L + 1].call = call /\ t[L + 1].level = level
  BY <1>1 DEF Grown
<1>4. 1 .. L + 1 = (1 .. L) \cup {L + 1}
  BY <1>1
<1>5. Tracing(s, k) = {i \in 1 .. L : s[i].level = k /\ s[i].call.fn = "traceValue"}
  BY DEF Tracing
<1>6. Tracing(t, k) = {i \in (1 .. L) \cup {L + 1} : t[i].level = k /\ t[i].call.fn = "traceValue"}
  BY <1>1, <1>4 DEF Tracing
<1> HIDE DEF L
<1> QED BY <1>2, <1>3, <1>5, <1>6 DEF L

LEMMA TracingShrunk ==
  ASSUME NEW s, NEW t, NEW k, IsStack(s), Len(s) > 0, Shrunk(s, t)
  PROVE  /\ Tracing(t, k) = Tracing(s, k) \ {Len(s)}
         /\ \A i \in Tracing(s, k) \ {Len(s)} : i \in 1 .. Len(s) - 1 /\ t[i].call = s[i].call
<1> DEFINE L == Len(s)
<1>1. L \in Nat /\ Len(t) = L - 1
  BY SeqShape DEF IsStack, Shrunk
<1>2. \A i \in 1 .. L - 1 : t[i].call = s[i].call /\ t[i].level = s[i].level
  BY DEF Shrunk, Later
<1>3. 1 .. L - 1 = (1 .. L) \ {L}
  BY <1>1
<1>4. Tracing(s, k) = {i \in 1 .. L : s[i].level = k /\ s[i].call.fn = "traceValue"}
  BY DEF Tracing
<1>5. Tracing(t, k) = {i \in (1 .. L) \ {L} : t[i].level = k /\ t[i].call.fn = "traceValue"}
  BY <1>1, <1>3 DEF Tracing
<1> HIDE DEF L
<1> QED BY <1>2, <1>3, <1>4, <1>5 DEF L

\* Steps that leave the tracing of level k alone.
LEMMA TracedGrown ==
  ASSUME NEW s, NEW t, NEW k, NEW call, NEW level, NEW c, NEW d,
         IsStack(s), Grown(s, t, call, level), level # k \/ call.fn # "traceValue",
         TracedBy(s, k, c), d.visitedSet = c.visitedSet, d.visitedStack = c.visitedStack
  PROVE  TracedBy(t, k, d)
<1>1. Tracing(t, k) = Tracing(s, k) \cup {}
  BY TracingGrown
<1>2. \A i \in Tracing(s, k) : t[i].call = s[i].call
  BY DEF Tracing, Grown, Later
<1>3. Tracing(t, k) = Tracing(s, k)
  BY <1>1
<1> QED BY <1>2, <1>3, TracedStill

LEMMA TracedShrunk ==
  ASSUME NEW s, NEW t, NEW k, NEW c, NEW d,
         IsStack(s), Len(s) > 0, Shrunk(s, t), Len(s) \notin Tracing(s, k),
         TracedBy(s, k, c), d.visitedSet = c.visitedSet, d.visitedStack = c.visitedStack
  PROVE  TracedBy(t, k, d)
<1>1. Tracing(t, k) = Tracing(s, k) \ {Len(s)}
  BY TracingShrunk
<1>2. \A i \in Tracing(s, k) \ {Len(s)} : t[i].call = s[i].call
  BY TracingShrunk
<1>3. Tracing(s, k) \ {Len(s)} = Tracing(s, k)
  OBVIOUS
<1> QED BY <1>1, <1>2, <1>3, TracedStill

LEMMA TracedNew ==
  ASSUME NEW s, NEW t, NEW k, NEW call, NEW level,
         IsStack(s), Grown(s, t, call, level), call.fn = "collect", Tracing(s, k) = {}
  PROVE  TracedBy(t, k, NewCollector)
<1>1. Tracing(t, k) = {}
  BY TracingGrown
<1>2. NewCollector.visitedSet = {} /\ Len(NewCollector.visitedStack) = 0
  BY EmptySeq DEF NewCollector
<1> QED BY <1>1, <1>2 DEF TracedBy

\* A value that is not being traced is entered.
LEMMA TracedPushed ==
  ASSUME NEW s, NEW t, NEW k, NEW call, NEW c, NEW d,
         IsStack(s), IsCollector(c), TracedBy(s, k, c), Grown(s, t, call, k),
         call.fn = "traceValue", call.v \notin c.visitedSet,
         d.visitedSet = c.visitedSet \cup {call.v},
         d.visitedStack = Append(c.visitedStack, call.v)
  PROVE  TracedBy(t, k, d)
<1> DEFINE n == Len(s) + 1
           v == call.v
           vs == c.visitedStack
           m == Len(vs)
           T == Tracing(s, k)
<1>1. Len(s) \in Nat /\ m \in Nat
  BY SeqShape DEF IsStack, IsCollector
<1>2. Tracing(t, k) = T \cup {n} /\ \A i \in T : i \in 1 .. Len(s) /\ t[i].call = s[i].call
  BY TracingGrown
<1>3. t[n].call = call
  BY <1>1 DEF Grown
<1>4. /\ Len(d.visitedStack) = m + 1
      /\ \A i \in 1 .. m : d.visitedStack[i] = vs[i]
      /\ d.visitedStack[m + 1] = v
  BY Pushed DEF IsCollector
<1>5. \A i \in T : t[i].call.v \in c.visitedSet /\ t[i].call.v # v /\ i < n
  <2>1. \A i \in T : s[i].call.v \in c.visitedSet
    BY DEF TracedBy
  <2>2. v \notin c.visitedSet
    OBVIOUS
  <2> QED BY <1>1, <1>2, <2>1, <2>2
<1>6. t[n].call.v = v /\ n \notin T
  BY <1>1, <1>2, <1>3
<1>7. 1 .. m + 1 = (1 .. m) \cup {m + 1}
  BY <1>1
<1>8. \A p \in 1 .. m : vs[p] \in c.visitedSet /\ vs[p] # v
  <2>1. \A p \in 1 .. m : vs[p] \in c.visitedSet
    BY DEF TracedBy
  <2>2. v \notin c.visitedSet
    OBVIOUS
  <2> QED BY <2>1, <2>2
<1>9. \A i \in Tracing(t, k) : t[i].call.v \in d.visitedSet
  BY <1>2, <1>5, <1>6
<1>10. \A x \in d.visitedSet : \E i \in Tracing(t, k) : t[i].call.v = x
  <2>1. \A x \in c.visitedSet : \E i \in T : t[i].call.v = x
    <3>1. \A x \in c.visitedSet : \E i \in T : s[i].call.v = x
      BY DEF TracedBy
    <3> QED BY <1>2, <3>1
  <2> QED BY <1>2, <1>6, <2>1
<1>11. \A i, j \in Tracing(t, k) : t[i].call.v = t[j].call.v => i = j
  <2>1. \A i, j \in T : t[i].call.v = t[j].call.v => i = j
    <3>1. \A i, j \in T : s[i].call.v = s[j].call.v => i = j
      BY DEF TracedBy
    <3>2. \A i \in T : t[i].call.v = s[i].call.v
      BY <1>2
    <3> QED BY <3>1, <3>2
  <2> QED BY <1>2, <1>5, <1>6, <2>1
<1>12. \A p \in 1 .. Len(d.visitedStack) : d.visitedStack[p] \in d.visitedSet
  BY <1>4, <1>7, <1>8
<1>13. \A x \in d.visitedSet : \E p \in 1 .. Len(d.visitedStack) : d.visitedStack[p] = x
  <2>1. \A x \in c.visitedSet : \E p \in 1 .. m : d.visitedStack[p] = x
    BY <1>4 DEF TracedBy
  <2> QED BY <1>4, <1>7, <2>1
<1>14. ASSUME NEW p \in 1 .. m + 1, NEW q \in 1 .. m + 1, p < q,
              NEW i \in Tracing(t, k), NEW j \in Tracing(t, k),
              d.visitedStack[p] = t[i].call.v, d.visitedStack[q] = t[j].call.v
       PROVE  i < j
  <2>1. p \in 1 .. m
    BY <1>1, <1>14
  <2>2. d.visitedStack[p] # v /\ d.visitedStack[p] = vs[p]
    BY <1>4, <1>8, <2>1
  <2>3. i \in T
    BY <1>2, <1>6, <1>14, <2>2
  <2>4. CASE q = m + 1
    <3>1. j = n
      BY <1>2, <1>4, <1>5, <1>14, <2>4
    <3> QED BY <1>5, <2>3, <3>1
  <2>5. CASE q # m + 1
    <3>1. q \in 1 .. m
      BY <1>1, <2>5
    <3>2. d.visitedStack[q] # v /\ d.visitedStack[q] = vs[q]
      BY <1>4, <1>8, <3>1
    <3>3. j \in T
      BY <1>2, <1>6, <1>14, <3>2
    <3>4. vs[p] = s[i].call.v /\ vs[q] = s[j].call.v
      BY <1>2, <1>14, <2>2, <2>3, <3>2, <3>3
    <3>5. \A x, y \in 1 .. m, a, b \in T :
            x < y /\ vs[x] = s[a].call.v /\ vs[y] = s[b].call.v => a < b
      BY DEF TracedBy
    <3> QED BY <1>14, <2>1, <2>3, <3>1, <3>3, <3>4, <3>5
  <2> QED BY <2>4, <2>5
<1> QED BY <1>4, <1>9, <1>10, <1>11, <1>12, <1>13, <1>14 DEF TracedBy

\* The value of the innermost activation leaves.
LEMMA TracedPopped ==
  ASSUME NEW s, NEW t, NEW k, NEW c, NEW d,
         IsStack(s), Len(s) > 0, IsCollector(c), TracedBy(s, k, c), Shrunk(s, t),
         Len(s) \in Tracing(s, k),
         d.visitedSet = c.visitedSet \ {s[Len(s)].call.v},
         d.visitedStack = SubSeq(c.visitedStack, 1, Len(c.visitedStack) - 1)
  PROVE  TracedBy(t, k, d)
<1> DEFINE n == Len(s)
           v == s[n].call.v
           vs == c.visitedStack
           m == Len(vs)
           T == Tracing(s, k)
<1>1. n \in Nat /\ m \in Nat
  BY SeqShape DEF IsStack, IsCollector
<1>2. Tracing(t, k) = T \ {n} /\ \A i \in T \ {n} : i \in 1 .. n - 1 /\ t[i].call = s[i].call
  BY TracingShrunk
<1>3. \A i \in T : s[i].call.v = v => i = n
  BY DEF TracedBy
<1>4. \A p, q \in 1 .. m, i, j \in T :
        p < q /\ vs[p] = s[i].call.v /\ vs[q] = s[j].call.v => i < j
  BY DEF TracedBy
<1>5. \A p \in 1 .. m : \E i \in T : vs[p] = s[i].call.v
  BY DEF TracedBy
<1>6. ASSUME NEW p \in 1 .. m, vs[p] = v
      PROVE  p = m
  <2>1. PICK j \in T : vs[m] = s[j].call.v
    BY <1>1, <1>5
  <2>2. ~(n < j)
    BY <1>1, <1>2, <2>1
  <2>3. m \in 1 .. m
    BY <1>1
  <2>4. ~(p < m)
    BY <1>4, <1>6, <2>1, <2>2, <2>3
  <2> QED BY <1>1, <2>4
<1>7. m > 0 /\ vs[m] = v
  <2>1. v \in c.visitedSet
    BY DEF TracedBy
  <2>2. PICK p \in 1 .. m : vs[p] = v
    BY <2>1 DEF TracedBy
  <2> QED BY <1>1, <1>6, <2>2
<1>8. /\ Len(d.visitedStack) = m - 1
      /\ \A p \in 1 .. m - 1 : d.visitedStack[p] = vs[p]
  BY <1>7, AllButLast DEF IsCollector
<1>9. \A p \in 1 .. m - 1 : p \in 1 .. m /\ vs[p] # v
  BY <1>1, <1>6
<1>10. \A i \in Tracing(t, k) : t[i].call.v \in d.visitedSet
  BY <1>2, <1>3 DEF TracedBy
<1>11. \A x \in d.visitedSet : \E i \in Tracing(t, k) : t[i].call.v = x
  <2> TAKE x \in d.visitedSet
  <2>1. PICK i \in T : s[i].call.v = x
    BY DEF TracedBy
  <2>2. i # n
    BY <2>1
  <2> QED BY <1>2, <2>1, <2>2
<1>12. \A i, j \in Tracing(t, k) : t[i].call.v = t[j].call.v => i = j
  BY <1>2 DEF TracedBy
<1>13. \A p \in 1 .. m - 1 : d.visitedStack[p] \in d.visitedSet
  BY <1>8, <1>9 DEF TracedBy
<1>14. \A x \in d.visitedSet : \E p \in 1 .. m - 1 : d.visitedStack[p] = x
  <2> TAKE x \in d.visitedSet
  <2>1. PICK p \in 1 .. m : vs[p] = x
    BY DEF TracedBy
  <2>2. p # m
    BY <1>7, <2>1
  <2>3. p \in 1 .. m - 1
    BY <1>1, <2>2
  <2> QED BY <1>8, <2>1, <2>3
<1>15. \A p, q \in 1 .. m - 1, i, j \in Tracing(t, k) :
         p < q /\ d.visitedStack[p] = t[i].call.v /\ d.visitedStack[q] = t[j].call.v => i < j
  BY <1>2, <1>4, <1>8, <1>9
<1> HIDE DEF m, T, n, vs, v
<1> QED BY <1>8, <1>10, <1>11, <1>12, <1>13, <1>14, <1>15 DEF TracedBy

LEMMA EnteredFields ==
  ASSUME NEW c, IsCollector(c), NEW v, NEW d,
         d = [c EXCEPT !.visitedSet = @ \cup {v}, !.visitedStack = Append(@, v)]
  PROVE  /\ d.visitedSet = c.visitedSet \cup {v}
         /\ d.visitedStack = Append(c.visitedStack, v)
<1> DEFINE vs == c.visitedSet \cup {v}
           st == Append(c.visitedStack, v)
<1>1. d = [c EXCEPT !.visitedSet = vs, !.visitedStack = st]
  OBVIOUS
<1> HIDE DEF vs, st
<1> DEFINE e == [c EXCEPT !.visitedSet = vs]
<1>2. e = [visitedSet |-> vs, visitedStack |-> c.visitedStack,
           selectedBlock |-> c.selectedBlock, results |-> c.results]
  BY DEF IsCollector
<1>3. d = [e EXCEPT !.visitedStack = st]
  BY <1>1
<1> HIDE DEF e
<1>4. d = [visitedSet |-> vs, visitedStack |-> st,
           selectedBlock |-> c.selectedBlock, results |-> c.results]
  BY <1>2, <1>3
<1> QED BY <1>4 DEF vs, st

LEMMA UntracedFields ==
  ASSUME IsCollector(Self), NEW v, NEW d, d = Untraced(v)
  PROVE  /\ d.visitedSet = Self.visitedSet \ {v}
         /\ d.visitedStack = SubSeq(Self.visitedStack, 1, Len(Self.visitedStack) - 1)
<1> DEFINE vs == Self.visitedSet \ {v}
           st == SubSeq(Self.visitedStack, 1, Len(Self.visitedStack) - 1)
<1>1. d = [Self EXCEPT !.visitedSet = vs, !.visitedStack = st]
  BY DEF Untraced
<1> HIDE DEF vs, st
<1> DEFINE e == [Self EXCEPT !.visitedSet = vs]
<1>2. e = [visitedSet |-> vs, visitedStack |-> Self.visitedStack,
           selectedBlock |-> Self.selectedBlock, results |-> Self.results]
  BY DEF IsCollector
<1>3. d = [e EXCEPT !.visitedStack = st]
  BY <1>1
<1> HIDE DEF e
<1>4. d = [visitedSet |-> vs, visitedStack |-> st,
           selectedBlock |-> Self.selectedBlock, results |-> Self.results]
  BY <1>2, <1>3
<1> QED BY <1>4 DEF vs, st

LEMMA TraceKept ==
  ASSUME StackOK, TraceOK, StackStep
  PROVE  TraceOK'
<1> DEFINE n == Len(collectors)
           L == Len(stack)
<1>1. /\ L \in Nat /\ n \in Nat /\ IsStack(stack)
      /\ LevelsOK(stack, n) /\ CollectorsOK(collectors)
  BY SeqShape DEF StackOK, IsStack, CollectorsOK
<1>2. \A k \in 1 .. n : TracedBy(stack, k, collectors[k])
  BY DEF TraceOK
<1>3. L > 0 => n \in 1 .. n /\ stack[L].level = n /\ Self = collectors[n] /\ IsCollector(Self)
  BY <1>1, Innermost DEF LevelsOK, Self
<1>4. SUFFICES ASSUME NEW k \in 1 .. Len(collectors')
               PROVE  TracedBy(stack', k, collectors'[k])
  BY DEF TraceOK
<1>5. CASE Works
  <2>1. Kept(stack, stack')
    BY <1>5 DEF Works
  <2>2. CASE UNCHANGED collectors
    BY <1>2, <1>4, <2>1, <2>2, TracedKept
  <2>3. CASE L > 0 /\ \E c : InnermostIs(c) /\ SameTrace(Self, c)
    <3>1. PICK c : InnermostIs(c) /\ SameTrace(Self, c)
      BY <2>3
    <3>2. k \in 1 .. n
      BY <3>1 DEF InnermostIs
    <3>3. /\ collectors'[k].visitedSet = collectors[k].visitedSet
          /\ collectors'[k].visitedStack = collectors[k].visitedStack
      BY <1>1, <1>3, <2>3, <3>1, <3>2 DEF InnermostIs, SameTrace
    <3> QED BY <1>2, <2>1, <3>2, <3>3, TracedKept
  <2> QED BY <1>5, <2>2, <2>3 DEF Works
<1>6. CASE EntersOther
  <2>1. PICK call : call.fn # "traceValue" /\ Grown(stack, stack', call, Top.level)
    BY <1>6 DEF EntersOther
  <2>2. UNCHANGED collectors
    BY <1>6 DEF EntersOther
  <2>3. TracedBy(stack, k, collectors[k]) /\ collectors'[k] = collectors[k]
    BY <1>2, <1>4, <2>2
  <2> QED BY <1>1, <2>1, <2>3, TracedGrown
<1>7. CASE EntersTrace
  <2>1. L > 0
    BY <1>7 DEF EntersTrace
  <2> DEFINE c(v) == [Self EXCEPT !.visitedSet = @ \cup {v}, !.visitedStack = Append(@, v)]
  <2>2. PICK call : /\ call.fn = "traceValue" /\ call.v \notin Self.visitedSet
                    /\ Grown(stack, stack', call, Top.level) /\ InnermostIs(c(call.v))
    BY <1>7 DEF EntersTrace
  <2>3. Top.level = n
    BY <1>3, <2>1 DEF Top, Depth
  <2>4. k \in 1 .. n
    BY <2>2 DEF InnermostIs
  <2>5. CASE k = n
    <3>1. IsCollector(Self)
      BY <1>3, <2>1
    <3>2. /\ c(call.v).visitedSet = Self.visitedSet \cup {call.v}
          /\ c(call.v).visitedStack = Append(Self.visitedStack, call.v)
      BY <3>1, EnteredFields
    <3>3. collectors'[k] = c(call.v)
      BY <2>2, <2>5 DEF InnermostIs
    <3>4. TracedBy(stack, k, Self)
      BY <1>2, <1>3, <2>1, <2>5
    <3>5. Grown(stack, stack', call, k)
      BY <2>2, <2>3, <2>5
    <3> HIDE DEF c
    <3> QED BY <1>1, <1>3, <2>1, <2>2, <3>2, <3>3, <3>4, <3>5, TracedPushed
  <2>6. CASE k # n
    <3>1. collectors'[k] = collectors[k]
      BY <1>1, <2>2, <2>4, <2>6 DEF InnermostIs
    <3>2. TracedBy(stack, k, collectors[k]) /\ Top.level # k
      BY <1>2, <2>3, <2>4, <2>6
    <3> HIDE DEF c
    <3>3. Grown(stack, stack', call, Top.level)
      BY <2>2
    <3> QED BY <1>1, <3>1, <3>2, <3>3, TracedGrown
  <2> QED BY <2>5, <2>6
<1>8. CASE EntersCollect
  <2>1. PICK call : call.fn = "collect" /\ Grown(stack, stack', call, n + 1)
    BY <1>8 DEF EntersCollect
  <2>3. /\ Len(collectors') = n + 1
        /\ \A j \in 1 .. n : collectors'[j] = collectors[j]
        /\ collectors'[n + 1] = NewCollector
    BY <1>8, <1>1, Pushed DEF EntersCollect, CollectorsOK
  <2>4. CASE k \in 1 .. n
    <3>1. TracedBy(stack, k, collectors[k]) /\ collectors'[k] = collectors[k]
      BY <1>2, <2>3, <2>4
    <3>2. call.fn # "traceValue" /\ Grown(stack, stack', call, n + 1)
      BY <2>1
    <3> QED BY <1>1, <3>1, <3>2, TracedGrown
  <2>5. CASE k = n + 1
    <3>1. Tracing(stack, k) = {}
      BY <1>1, <2>5 DEF Tracing, LevelsOK
    <3>2. TracedBy(stack', k, NewCollector)
      BY <1>1, <2>1, <3>1, TracedNew
    <3> QED BY <2>3, <2>5, <3>2
  <2> QED BY <1>1, <1>4, <2>3, <2>4, <2>5
<1>9. CASE LeavesOther \/ LeavesCollect
  <2>1. L > 0 /\ Top.call.fn # "traceValue" /\ Shrunk(stack, stack')
    BY <1>9 DEF LeavesOther, LeavesCollect
  <2>2. L \notin Tracing(stack, k)
    BY <2>1 DEF Tracing, Top, Depth
  <2>3. k \in 1 .. n /\ collectors'[k] = collectors[k]
    BY <1>1, <1>4, <1>9 DEF LeavesOther, LeavesCollect
  <2>4. TracedBy(stack, k, collectors[k])
    BY <1>2, <2>3
  <2> QED BY <1>1, <2>1, <2>2, <2>3, <2>4, TracedShrunk
<1>10. CASE LeavesTrace
  <2>1. L > 0 /\ Top.call.fn = "traceValue" /\ Shrunk(stack, stack') /\ Top.level = n
    BY <1>3, <1>10 DEF LeavesTrace, Top, Depth
  <2>2. PICK c : InnermostIs(c) /\ SameTrace(Untraced(Top.call.v), c)
    BY <1>10 DEF LeavesTrace
  <2>3. k \in 1 .. n
    BY <2>2 DEF InnermostIs
  <2>4. CASE k = n
    <3>1. L \in Tracing(stack, k)
      BY <1>1, <2>1, <2>4 DEF Tracing, Top, Depth
    <3>2. TracedBy(stack, k, Self)
      BY <1>2, <1>3, <2>1, <2>4
    <3>3. /\ c.visitedSet = Self.visitedSet \ {stack[L].call.v}
          /\ c.visitedStack = SubSeq(Self.visitedStack, 1, Len(Self.visitedStack) - 1)
      <4>1. IsCollector(Self)
        BY <1>3, <2>1
      <4>2. /\ Untraced(Top.call.v).visitedSet = Self.visitedSet \ {Top.call.v}
            /\ Untraced(Top.call.v).visitedStack = SubSeq(Self.visitedStack, 1, Len(Self.visitedStack) - 1)
        BY <4>1, UntracedFields
      <4> QED BY <2>2, <4>2 DEF SameTrace, Top, Depth
    <3>4. collectors'[k] = c
      BY <2>2, <2>4 DEF InnermostIs
    <3> QED BY <1>1, <1>3, <2>1, <3>1, <3>2, <3>3, <3>4, TracedPopped
  <2>5. CASE k # n
    <3>1. collectors'[k] = collectors[k]
      BY <1>1, <2>2, <2>3, <2>5 DEF InnermostIs
    <3>2. L \notin Tracing(stack, k)
      BY <2>1, <2>5 DEF Tracing, Top, Depth
    <3>3. TracedBy(stack, k, collectors[k])
      BY <1>2, <2>3
    <3> QED BY <1>1, <2>1, <3>1, <3>2, <3>3, TracedShrunk
  <2> QED BY <2>4, <2>5
<1> QED BY <1>5, <1>6, <1>7, <1>8, <1>9, <1>10 DEF StackStep

-----------------------------------------------------------------------------
LEMMA InitInStep == Init => StackOK /\ TraceOK
<1> SUFFICES ASSUME Init
             PROVE  StackOK /\ TraceOK
  OBVIOUS
<1>1. stack = <<>> /\ collectors = <<>>
  BY DEF Init
<1>2. IsSeq(<<>>) /\ Len(<<>>) = 0
  BY SeqOfAny, EmptySeq
<1> QED BY <1>1, <1>2 DEF StackOK, TraceOK, IsStack, CollectorsOK, LevelsOK

LEMMA StepInStep == StackOK /\ TraceOK /\ [Next]_vars => StackOK' /\ TraceOK'
<1> SUFFICES ASSUME StackOK, TraceOK, [Next]_vars
             PROVE  StackOK' /\ TraceOK'
  OBVIOUS
<1>1. CASE Next
  BY <1>1, StackSteps, StackKept, TraceKept
<1>2. CASE UNCHANGED vars
  BY <1>2 DEF vars, StackOK, TraceOK
<1> QED BY <1>1, <1>2

LEMMA InStepVisited == StackOK /\ TraceOK => VisitedIsTraced
<1> SUFFICES ASSUME StackOK, TraceOK, NEW k \in DOMAIN collectors
             PROVE  /\ collectors[k].visitedSet = {stack[i].call.v : i \in Tracers(k)}
                    /\ ToSet(collectors[k].visitedStack) = collectors[k].visitedSet
                    /\ \A i, j \in Tracers(k) : i # j => stack[i].call.v # stack[j].call.v
  BY DEF VisitedIsTraced
<1> DEFINE c == collectors[k]
<1>1. DOMAIN stack = 1 .. Len(stack) /\ DOMAIN collectors = 1 .. Len(collectors)
  BY SeqShape DEF StackOK, IsStack, CollectorsOK
<1>2. Tracers(k) = Tracing(stack, k)
  BY <1>1 DEF Tracers, Tracing
<1>3. TracedBy(stack, k, c) /\ IsCollector(c)
  BY <1>1 DEF TraceOK, StackOK, CollectorsOK
<1>4. DOMAIN c.visitedStack = 1 .. Len(c.visitedStack)
  BY <1>3, SeqShape DEF IsCollector
<1> HIDE DEF c
<1>5. c.visitedSet = {stack[i].call.v : i \in Tracers(k)}
  <2>1. \A i \in Tracers(k) : stack[i].call.v \in c.visitedSet
    BY <1>2, <1>3 DEF TracedBy
  <2>2. \A x \in c.visitedSet : \E i \in Tracers(k) : stack[i].call.v = x
    BY <1>2, <1>3 DEF TracedBy
  <2> QED BY <2>1, <2>2
<1>6. {c.visitedStack[p] : p \in 1 .. Len(c.visitedStack)} = c.visitedSet
  <2>1. \A p \in 1 .. Len(c.visitedStack) : c.visitedStack[p] \in c.visitedSet
    BY <1>3 DEF TracedBy
  <2>2. \A x \in c.visitedSet : \E p \in 1 .. Len(c.visitedStack) : c.visitedStack[p] = x
    BY <1>3 DEF TracedBy
  <2> QED BY <2>1, <2>2
<1>7. ToSet(c.visitedStack) = c.visitedSet
  BY <1>4, <1>6 DEF ToSet
<1>8. \A i, j \in Tracers(k) : i # j => stack[i].call.v # stack[j].call.v
  BY <1>2, <1>3 DEF TracedBy
<1> QED BY <1>5, <1>7, <1>8 DEF c

(***************************************************************************)
(* visitedSet and visitedStack hold the values being traced, each by one   *)
(* activation, in every collector at every moment, whatever the module and *)
(* however the functions of the collector call each other: end_trace's     *)
(* pop_back (line 245) removes the value its erase (line 246) removes.     *)
(***************************************************************************)
THEOREM TracesInStep == Spec => []VisitedIsTraced
<1>1. Init => StackOK /\ TraceOK
  BY InitInStep
<1>2. StackOK /\ TraceOK /\ [Next]_vars => (StackOK /\ TraceOK)'
  BY StepInStep
<1>3. StackOK /\ TraceOK => VisitedIsTraced
  BY InStepVisited
<1> QED BY <1>1, <1>2, <1>3, PTL DEF Spec
=============================================================================
