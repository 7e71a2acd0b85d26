-------------------------- MODULE FuncDefCollector --------------------------
(***************************************************************************)
(* The use-def pass of use-def/HomeworkLLVMPass.cpp: for every call of a   *)
(* module it prints the functions the called operand may be.               *)
(*                                                                         *)
(* FuncDefCollector is a set of mutually recursive functions: traceValue,  *)
(* traceMemory, findSiblingGEPs, getCallBases and, through a collector     *)
(* made by getCallBases, collect itself.  Each runs by making further      *)
(* calls one after the other and then returning, so the C++ call stack is  *)
(* a stack of activations                                                  *)
(*   call   : the function and its parameters,                             *)
(*   todo   : the calls it has still to make,                              *)
(*   level  : which of the live collectors is this,                        *)
(*   stage  : whether what its calls found has been taken up,              *)
(*   found  : the vector its calls add to (StoreInsts, GEPInfos or         *)
(*            CallBases),                                                  *)
(*   seen   : getCallBases' visited, traceMemory's resolvedBases,          *)
(*   offset : traceMemory's totalOffset.                                   *)
(* Vectors whose order and repetitions no result depends on are sets.      *)
(***************************************************************************)
EXTENDS PointerFlow

VARIABLES
  input,       \* the module's name
  pending,     \* the calls passImpl has still to visit
  collectors,  \* live FuncDefCollectors, the innermost last
  stack,       \* the activations
  output,      \* lines printed
  status       \* "running", "overflow" (stack exhausted) or "fatal"

vars == <<input, pending, collectors, stack, output, status>>

M == Modules[input]

\* int64_t, scaled to a byte: the offset of a GEP with an index that is no
\* constant is its minimum, and sums wrap.
Dynamic == -128
Wrap(n) == ((n + 128) % 256) - 128

-----------------------------------------------------------------------------
(***************************************************************************)
(* Activations.  "to" is whom a call reports to: for traceValue, 0 when    *)
(* its callback is collect's and otherwise the traceMemory activation      *)
(* whose collectBases it is; for getCallBases and collect, the activation  *)
(* that owns callBases and visited.                                        *)
(***************************************************************************)
CallOf(fn, v, n, to, by) == [fn |-> fn, v |-> v, n |-> n, to |-> to, by |-> by]

traceValue(v, flag, to)         == CallOf("traceValue", v, flag, to, Null)
traceMemory(addr, load)         == CallOf("traceMemory", addr, 0, 0, load)
findSiblingGEPs(base, off, by)  == CallOf("findSiblingGEPs", base, off, 0, by)
getCallBases(v, to)             == CallOf("getCallBases", v, 0, to, Null)
collect(call, argIndex, to)     == CallOf("collect", call, argIndex, to, Null)
insertBlock(b)                  == CallOf("insert", b, 0, 0, Null)
eraseBlock(b)                   == CallOf("erase", b, 0, 0, Null)

Activation(call, todo, level) ==
  [call |-> call, todo |-> todo, level |-> level, stage |-> 1,
   found |-> {}, seen |-> {}, offset |-> 0]

NewCollector == [visitedSet |-> {}, visitedStack |-> <<>>, selectedBlock |-> {}, results |-> {}]

Depth == Len(stack)
Top   == stack[Depth]
Self  == collectors[Len(collectors)]

Running == status = "running" /\ Depth < MaxDepth

Calling(fn) ==
  /\ Running /\ stack # <<>>
  /\ Top.todo # <<>> /\ Head(Top.todo).fn = fn

Returning(fn) ==
  /\ Running /\ stack # <<>>
  /\ Top.todo = <<>> /\ Top.call.fn = fn

\* The call is taken off the caller's list, with or without an activation.
Called == [stack EXCEPT ![Depth].todo = Tail(@)]

Enter(frames, todo) ==
  stack' = Append(frames, Activation(Head(Top.todo), todo, Top.level))

InCollector(c) == collectors' = [collectors EXCEPT ![Len(collectors)] = c]

Popped == SubSeq(stack, 1, Depth - 1)

\* Return, adding results to the vector the caller passed by reference.
HandUp(results) ==
  stack' = [Popped EXCEPT ![Depth - 1].found = @ \cup results]

\* What the calls found is taken up as further calls of the same activation.
TakeUp(todo) ==
  stack' = [stack EXCEPT ![Depth].todo = todo, ![Depth].stage = 2]

Others == UNCHANGED <<input, pending, output, status>>

-----------------------------------------------------------------------------
(***************************************************************************)
(* traceValue.                                                             *)
(***************************************************************************)
\* Mutant: a phi is never pruned.
Incoming_Unpruned(call) ==
  LET phi == Inst(M, call.v)
      b(i) == <<call.v[2], phi.at[i]>>
  IN  {FlattenSeq([i \in DOMAIN phi.args |->
         <<insertBlock(b(i)), [call EXCEPT !.v = phi.args[i]], eraseBlock(b(i))>>])}

\* What is done with the incoming values of a phi, by traceValue and by
\* traceMemory alike: if one of its blocks is selected, only what comes from
\* there (whichever the set yields first), else everything, each with its
\* block selected meanwhile.
Incoming(call) ==
  LET phi == Inst(M, call.v)
      b(i) == <<call.v[2], phi.at[i]>>
      chosen == {i \in DOMAIN phi.args : b(i) \in Self.selectedBlock}
  IN  IF chosen # {}
        THEN {<<[call EXCEPT !.v = phi.args[i]]>> : i \in chosen}
        ELSE {FlattenSeq([i \in DOMAIN phi.args |->
                <<insertBlock(b(i)), [call EXCEPT !.v = phi.args[i]], eraseBlock(b(i))>>])}

\* Mutant: only the entry block's terminator is looked at.
Returns_EntryBlock(f) == {r \in Insts(M) : r[2] = f /\ r[3] = 1 /\ Inst(M, r).op = "ret"}

\* getReturnInst: the ret of the first block that ends in one.
Returns(f) == {r \in Insts(M) : r[2] = f /\ Inst(M, r).op = "ret"}

getReturnInst(f) == CHOOSE r \in Returns(f) : \A s \in Returns(f) : r[3] <= s[3]

\* getReturnValue(): none for a ret void.
ReturnValue(f) == Inst(M, getReturnInst(f)).args[1]

ReturnsValue(f) == IF Returns(f) = {} THEN FALSE ELSE Inst(M, getReturnInst(f)).args # <<>>

Defined(fs) == {f \in fs : M.fn[f].blocks # <<>>}

\* The function whose ReturnInst traceValue(v, flag) asks for.
AsksReturnOf(call) ==
  CASE call.v[1] = "fn"         -> IF call.n > 0 THEN {call.v[2]} ELSE {}
    [] Op(M, call.v) = "call"   -> Defined(getCalledFunction(M, call.v))
    [] OTHER                    -> {}

\* Mutant: the callee of a direct call is traced too.
Flow_TracesCallee(call) ==
  LET v == call.v
      To(w, flag) == {<<[call EXCEPT !.v = w, !.n = flag]>>}
      op == Op(M, v)
  IN  CASE op = "fn" /\ call.n > 0 -> To(ReturnValue(v[2]), call.n - 1)
        [] op = "load"   -> {<<traceMemory(Inst(M, v).args[1], v)>>}
        [] op = "phi"    -> Incoming(call)
        [] op = "arg"    -> {<<getCallBases(Fn(v[2]), Depth + 1)>>}
        [] op = "call"   -> To(Callee(M, v), call.n + 1)
        [] op \in {"cast", "gep"} -> To(IF op = "cast" THEN Fn(v[2]) ELSE Inst(M, v).args[1], call.n)
        [] OTHER         -> {<<>>}

\* The calls traceValue(v, flag, callback) makes before it looks at what they
\* found: one sequence of them, or several when the order of a set decides.
Flow(call) ==
  LET v == call.v
      To(w, flag) == {<<[call EXCEPT !.v = w, !.n = flag]>>}
      op == Op(M, v)
  IN  CASE op = "fn" /\ call.n > 0 -> To(ReturnValue(v[2]), call.n - 1)
        [] op = "load"   -> {<<traceMemory(Inst(M, v).args[1], v)>>}
        [] op = "phi"    -> Incoming(call)
        [] op = "arg"    -> {<<getCallBases(Fn(v[2]), Depth + 1)>>}
        [] op = "call"   -> IF getCalledFunction(M, v) = {} THEN To(Callee(M, v), call.n + 1)
                            ELSE IF AsksReturnOf(call) = {} THEN {<<>>}
                            ELSE To(ReturnValue(Callee(M, v)[2]), call.n)
        [] op = "cast"   -> To(Fn(v[2]), call.n)
        [] op = "global" -> IF M.init[v[2]][1] \in {"fn", "cast"}
                              THEN To(M.init[v[2]], call.n) ELSE {<<>>}
        [] op = "gep"    -> To(Inst(M, v).args[1], call.n)
        [] OTHER         -> {<<>>}

\* The value is already being traced: return at once.
SeenValue ==
  /\ Calling("traceValue") /\ Head(Top.todo).v \in Self.visitedSet
  /\ stack' = Called
  /\ UNCHANGED collectors /\ Others

\* There is no ReturnInst, or it is a ret void: report_fatal_error, or nullptr
\* traced.
NoReturn ==
  /\ Calling("traceValue") /\ Head(Top.todo).v \notin Self.visitedSet
  /\ \E f \in AsksReturnOf(Head(Top.todo)) : ~ReturnsValue(f)
  /\ status' = "fatal"
  /\ UNCHANGED <<input, pending, collectors, stack, output>>

\* Mutant: the value is not put into visitedSet.
TraceValue_Unmarked ==
  /\ Calling("traceValue") /\ Head(Top.todo).v \notin Self.visitedSet
  /\ LET call == Head(Top.todo) IN
       /\ \A f \in AsksReturnOf(call) : ReturnsValue(f)
       /\ \E todo \in Flow(call) : Enter(Called, todo)
       /\ InCollector([Self EXCEPT !.visitedStack = Append(@, call.v)])
  /\ Others

TraceValue ==
  /\ Calling("traceValue") /\ Head(Top.todo).v \notin Self.visitedSet
  /\ LET call == Head(Top.todo) IN
       /\ \A f \in AsksReturnOf(call) : ReturnsValue(f)
       /\ \E todo \in Flow(call) : Enter(Called, todo)
       /\ InCollector([Self EXCEPT !.visitedSet = @ \cup {call.v},
                                   !.visitedStack = Append(@, call.v)])
  /\ Others

\* traceMemory is back with the stores that reach the load, or getCallBases
\* with the calls of the function: the stored, the actual values are traced.
UseFound ==
  /\ Returning("traceValue") /\ Top.stage = 1
  /\ LET call == Top.call
         To(w) == [call EXCEPT !.v = w]
     IN  \/ /\ Op(M, call.v) = "load"
            /\ TakeUp(SetToSeq({To(Inst(M, s).args[1]) : s \in Top.found}))
         \/ /\ Op(M, call.v) = "arg"
            /\ \A c \in Top.found : call.v[4] + 2 \in DOMAIN Inst(M, c).args
            /\ TakeUp(SetToSeq({To(ActualArg(M, c, call.v[4])) : c \in Top.found}))
  /\ UNCHANGED collectors /\ Others

\* getArgOperand() of a call with fewer arguments.
NoActualArg ==
  /\ Returning("traceValue") /\ Top.stage = 1 /\ Op(M, Top.call.v) = "arg"
  /\ \E c \in Top.found : Top.call.v[4] + 2 \notin DOMAIN Inst(M, c).args
  /\ status' = "fatal"
  /\ UNCHANGED <<input, pending, collectors, stack, output>>

\* The last instruction of the load's block that is being traced.
LastTraced(load) ==
  LET trace == Self.visitedStack
      here == {i \in DOMAIN trace : trace[i][1] = "inst" /\ SameBlock(trace[i], load)}
  IN  IF here = {} THEN Null ELSE trace[CHOOSE i \in here : \A j \in here : j <= i]

\* collectBases, the callback of the traceMemory activation a.
collectBases(a, v) ==
  CASE Op(M, v) = "gep" -> [a EXCEPT !.offset = Wrap(@ + Inst(M, v).n)]
    [] Op(M, v) = "alloca" ->
         [a EXCEPT !.seen = @ \cup
            {<<v, IF SameBlock(v, a.call.by) THEN Null ELSE LastTraced(a.call.by)>>}]
    [] OTHER -> a

\* The callback of collect(); no intrinsic is among a module's functions.
Targets(v) == IF v[1] = "fn" THEN {v[2]} ELSE {}

\* The value leaves visitedStack and visitedSet.
Untraced_KeepsVisited(v) ==
  [Self EXCEPT !.visitedStack = SubSeq(@, 1, Len(@) - 1)]

Untraced(v) ==
  [Self EXCEPT !.visitedSet = @ \ {v}, !.visitedStack = SubSeq(@, 1, Len(@) - 1)]

\* end_trace: the callback, for every value on the way back too.
EndTrace ==
  /\ Returning("traceValue")
  /\ Top.stage = 2 \/ Op(M, Top.call.v) \notin {"load", "arg"}
  /\ LET v == Top.call.v IN
       \/ /\ Top.call.to = 0
          /\ InCollector([Untraced(v) EXCEPT !.results = @ \cup Targets(v)])
          /\ stack' = Popped
       \/ /\ Top.call.to # 0
          /\ InCollector(Untraced(v))
          /\ stack' = [Popped EXCEPT ![Top.call.to] = collectBases(@, v)]
  /\ Others

SelectBlock ==
  /\ Calling("insert") /\ stack' = Called
  /\ InCollector([Self EXCEPT !.selectedBlock = @ \cup {Head(Top.todo).v}])
  /\ Others

\* Mutant: the block stays selected.
UnselectBlock_Keeps ==
  /\ Calling("erase") /\ stack' = Called
  /\ UNCHANGED collectors /\ Others

UnselectBlock ==
  /\ Calling("erase") /\ stack' = Called
  /\ InCollector([Self EXCEPT !.selectedBlock = @ \ {Head(Top.todo).v}])
  /\ Others

-----------------------------------------------------------------------------
(***************************************************************************)
(* traceMemory.                                                            *)
(***************************************************************************)
\* Whether two addresses are one: the same register, or GEPs of equal offset from
\* the same base, however many GEPs deep: a module has only so many.
isSameMemoryLocation(p, q) ==
  LET Same[n \in Nat, u \in Values(M), w \in Values(M)] ==
        \/ u = w
        \/ /\ n > 0 /\ Op(M, u) = "gep" /\ Op(M, w) = "gep"
           /\ Inst(M, u).n = Inst(M, w).n
           /\ Same[n - 1, Inst(M, u).args[1], Inst(M, w).args[1]]
  IN  Same[Cardinality(Insts(M)), p, q]

\* The store may be what the load reads: not after it in its block, not
\* overwritten in its own block (before the load, if that is there too), and
\* on a path to it if both are in one function.
isReachableStore(s, load) ==
  /\ ~ComesBefore(load, s)
  /\ \A t \in Insts(M) :
       /\ Inst(M, t).op = "store" /\ ComesBefore(s, t)
       /\ SameBlock(s, load) => ComesBefore(t, load)
       => ~isSameMemoryLocation(Inst(M, t).args[2], Inst(M, s).args[2])
  /\ s[2] = load[2] => PotentiallyReachable(M, s, load)

\* Mutant: whatever address they use.
findStoresTo_AnyAddress(addr, load) ==
  {s \in Insts(M) : Inst(M, s).op = "store" /\ isReachableStore(s, load)}

\* findStoresTo: the stores that use the address, as what they store too.
findStoresTo(addr, load) == {s \in UsersOf(M, addr, "store") : isReachableStore(s, load)}

\* The storeInstInfos of the sibling GEPs, each store with its place in the
\* block that makes it happen: a call, or itself.
PossibleStores(geps, load) ==
  UNION {{<<s, IF g[2] = Null THEN s ELSE g[2]>> : s \in findStoresTo(g[1], load)} : g \in geps}

\* Mutant: no store is killed by a later one.
Unkilled_All(infos) == {x[1] : x \in infos}

\* The stores not overwritten by one whose place comes later in its block.
Unkilled(infos) ==
  {x[1] : x \in {y \in infos :
     ~\E z \in infos : y[1] # z[1] /\ ComesBefore(y[2], z[2])}}

TraceMemory ==
  /\ Calling("traceMemory")
  /\ LET call == Head(Top.todo) IN
       \/ /\ Op(M, call.v) = "gep"
          /\ Enter(Called, <<traceValue(call.v, 0, Depth + 1)>>)
       \/ /\ Op(M, call.v) = "phi"
          /\ \E todo \in Incoming(call) : Enter(Called, todo)
       \/ /\ Op(M, call.v) \notin {"gep", "phi"}
          /\ Enter(Called, <<>>)
  /\ UNCHANGED collectors /\ Others

\* The bases are resolved: the GEPs at the total offset from each of them.
AskSiblings ==
  /\ Returning("traceMemory") /\ Top.stage = 1 /\ Op(M, Top.call.v) = "gep"
  /\ TakeUp(SetToSeq({findSiblingGEPs(b[1], Top.offset, b[2]) : b \in Top.seen}))
  /\ UNCHANGED collectors /\ Others

EndMemory ==
  /\ Returning("traceMemory")
  /\ LET a == Top.call IN
       \/ /\ Op(M, a.v) = "gep" /\ Top.stage = 2
          /\ HandUp(Unkilled(PossibleStores(Top.found, a.by)))
       \/ Op(M, a.v) = "phi" /\ HandUp(Top.found)
       \/ Op(M, a.v) \notin {"gep", "phi"} /\ HandUp(findStoresTo(a.v, a.by))
  /\ UNCHANGED collectors /\ Others

\* findArgIndexInCall; a value that is no argument has no index.
ArgIndices(c, v) == {i \in 0 .. Len(Inst(M, c).args) - 2 : ActualArg(M, c, i) = v}
findArgIndexInCall(c, v) == CHOOSE i \in ArgIndices(c, v) : \A j \in ArgIndices(c, v) : i <= j

\* Mutant: the offset already passed is not taken off.
SiblingCalls_WholeOffset(call) ==
  {findSiblingGEPs(g, call.n, call.by) : g \in UsersOf(M, call.v, "gep")}

SiblingCalls(call) ==
  {findSiblingGEPs(g, Wrap(call.n - Inst(M, g).n), call.by) : g \in UsersOf(M, call.v, "gep")}
  \cup
  {findSiblingGEPs(Arg(Callee(M, c)[2], findArgIndexInCall(c, call.v)), call.n,
                   IF call.by = Null THEN c ELSE call.by) :
     c \in {d \in UsersOf(M, call.v, "call") :
              ArgIndices(d, call.v) # {} /\ Defined(getCalledFunction(M, d)) # {}}}

FindSiblingGEPs ==
  /\ Calling("findSiblingGEPs")
  /\ Enter(Called, SetToSeq(SiblingCalls(Head(Top.todo))))
  /\ UNCHANGED collectors /\ Others

EndSiblings ==
  /\ Returning("findSiblingGEPs")
  /\ LET own == {g \in UsersOf(M, Top.call.v, "gep") : Inst(M, g).n = Top.call.n}
     IN  HandUp(Top.found \cup {<<g, Top.call.by>> : g \in own})
  /\ UNCHANGED collectors /\ Others

-----------------------------------------------------------------------------
(***************************************************************************)
(* getCallBases.                                                           *)
(***************************************************************************)
\* Mutant: phis are not followed.
SiteCalls_NoPhi(call) ==
  {collect(c, findArgIndexInCall(c, call.v), call.to) :
     c \in {d \in UsersOf(M, call.v, "call") : Callee(M, d) # call.v}}

\* Where a function goes that is not called there and then: it is passed to
\* a call (whose own targets a new collector is to find), stored, or merged.
SiteCalls(call) ==
  {collect(c, findArgIndexInCall(c, call.v), call.to) :
     c \in {d \in UsersOf(M, call.v, "call") : Callee(M, d) # call.v}}
  \cup
  {getCallBases(l, call.to) : l \in
     UNION {UsersOf(M, Inst(M, s).args[2], "load") : s \in UsersOf(M, call.v, "store")}}
  \cup
  {getCallBases(p, call.to) : p \in UsersOf(M, call.v, "phi")}

SeenSite ==
  /\ Calling("getCallBases")
  /\ LET call == Head(Top.todo) IN call.v \in stack[call.to].seen
  /\ stack' = Called
  /\ UNCHANGED collectors /\ Others

GetCallBases ==
  /\ Calling("getCallBases")
  /\ LET call == Head(Top.todo)
         direct == {c \in UsersOf(M, call.v, "call") : Callee(M, c) = call.v}
     IN  /\ call.v \notin stack[call.to].seen
         /\ Enter([Called EXCEPT ![call.to].seen = @ \cup {call.v},
                                 ![call.to].found = @ \cup direct],
                  SetToSeq(SiteCalls(call)))
  /\ UNCHANGED collectors /\ Others

EndSites ==
  /\ Returning("getCallBases")
  /\ stack' = Popped
  /\ UNCHANGED collectors /\ Others

-----------------------------------------------------------------------------
(***************************************************************************)
(* Collectors: collect, made by passImpl for every call and by             *)
(* getCallBases for a call the function is passed to.                      *)
(***************************************************************************)
BeginCollect(frames, call) ==
  /\ collectors' = Append(collectors, NewCollector)
  /\ stack' = Append(frames, Activation(call, <<traceValue(Callee(M, call.v), 0, 0)>>,
                                        Len(collectors) + 1))

\* passImpl's loops come to the next call.
CollectNext ==
  /\ Running /\ stack = <<>>
  /\ \E c \in pending :
       /\ \A d \in pending \ {c} : Precedes(M, c, d)
       /\ BeginCollect(<<>>, collect(c, 0, 0))
       /\ pending' = pending \ {c}
  /\ UNCHANGED <<input, output, status>>

CollectNested ==
  /\ Calling("collect")
  /\ BeginCollect(Called, Head(Top.todo))
  /\ Others

\* getArg() of a function with fewer parameters.
NoFormalArg ==
  /\ Returning("collect") /\ Depth > 1
  /\ \E f \in Self.results : Top.call.n >= M.fn[f].arity
  /\ status' = "fatal"
  /\ UNCHANGED <<input, pending, collectors, stack, output>>

\* Mutant: a parameter the function does not have is followed.
EndNested_AnyFormal ==
  /\ Returning("collect") /\ Depth > 1
  /\ LET call == Top.call
         formals == {Arg(f, call.n) : f \in Self.results}
     IN  stack' = [Popped EXCEPT ![Depth - 1].todo =
                     SetToSeq({getCallBases(a, call.to) : a \in formals}) \o @]
  /\ collectors' = SubSeq(collectors, 1, Len(collectors) - 1)
  /\ Others

\* getCallBases goes on with the parameter of every function found.
EndNested ==
  /\ Returning("collect") /\ Depth > 1
  /\ LET call == Top.call
         formals == {Arg(f, call.n) : f \in Self.results}
     IN  /\ \A f \in Self.results : call.n < M.fn[f].arity
         /\ stack' = [Popped EXCEPT ![Depth - 1].todo =
                        SetToSeq({getCallBases(a, call.to) : a \in formals}) \o @]
  /\ collectors' = SubSeq(collectors, 1, Len(collectors) - 1)
  /\ Others

\* report: nothing is printed for a call without a target.
Report ==
  /\ Returning("collect") /\ Depth = 1
  /\ output' = IF Self.results = {} THEN output
               ELSE Append(output, [line |-> Inst(M, Top.call.v).n, names |-> Self.results])
  /\ collectors' = <<>> /\ stack' = <<>>
  /\ UNCHANGED <<input, pending, status>>

\* The native stack is exhausted.
Overflow ==
  /\ status = "running" /\ Depth = MaxDepth
  /\ status' = "overflow"
  /\ UNCHANGED <<input, pending, collectors, stack, output>>

-----------------------------------------------------------------------------
Init ==
  /\ input \in DOMAIN Modules
  /\ pending = Calls(M)
  /\ collectors = <<>> /\ stack = <<>>
  /\ output = <<>> /\ status = "running"

Value == SeenValue \/ TraceValue \/ NoReturn \/ UseFound \/ NoActualArg \/ EndTrace
           \/ SelectBlock \/ UnselectBlock
Memory == TraceMemory \/ AskSiblings \/ EndMemory \/ FindSiblingGEPs \/ EndSiblings
Sites == SeenSite \/ GetCallBases \/ EndSites
Collecting == CollectNext \/ CollectNested \/ NoFormalArg \/ EndNested \/ Report \/ Overflow

Next == Value \/ Memory \/ Sites \/ Collecting

\* The analysis is one thread that nothing blocks.
Spec == Init /\ [][Next]_vars /\ WF_vars(Next)

Finished == status = "running" /\ stack = <<>> /\ pending = {}

-----------------------------------------------------------------------------
(***************************************************************************)
(* Properties.                                                             *)
(***************************************************************************)
Lines == {[line |-> Inst(M, c).n, names |-> fs] :
            c \in Calls(M), fs \in SUBSET (DOMAIN M.fn)}

\* Types: whatever is traced or followed, getArg's and getArgOperand's results
\* (lines 182, 452, 537) among it, is a value of the module, and results
\* holds functions only, which collect's dyn_cast (line 69) is for.
TypeOK ==
  /\ input \in DOMAIN Modules
  /\ status \in {"running", "overflow", "fatal"}
  /\ pending \subseteq Calls(M)
  /\ \A k \in DOMAIN collectors :
       /\ collectors[k].visitedSet \subseteq Values(M)
       /\ ToSet(collectors[k].visitedStack) \subseteq Values(M)
       /\ collectors[k].results \subseteq DOMAIN M.fn
  /\ \A i \in DOMAIN stack :
       /\ stack[i].level \in DOMAIN collectors
       /\ stack[i].call.v \in Values(M)
       /\ stack[i].offset \in -128 .. 127
       /\ stack[i].call.to \in 0 .. i - 1
  /\ ToSet(output) \subseteq Lines

\* The values that activations of level k are tracing.
Tracers(k) == {i \in DOMAIN stack : stack[i].level = k /\ stack[i].call.fn = "traceValue"}

\* visitedSet is the values being traced, each by one activation, and
\* visitedStack lists them: what traceValue's insert and erase (lines 118,
\* 246) are for.  A value left behind would hide its flow from later traces;
\* one erased early lets the recursion go round.
VisitedIsTraced ==
  \A k \in DOMAIN collectors :
    /\ collectors[k].visitedSet = {stack[i].call.v : i \in Tracers(k)}
    /\ ToSet(collectors[k].visitedStack) = collectors[k].visitedSet
    /\ \A i, j \in Tracers(k) : i # j => stack[i].call.v # stack[j].call.v

\* The blocks selected now among those the calls to do select and unselect:
\* they are erased before they are inserted (again).
Open(todo) ==
  {todo[n].v : n \in {k \in DOMAIN todo :
     /\ todo[k].fn = "erase"
     /\ \A j \in 1 .. k - 1 : ~ (todo[j].fn = "insert" /\ todo[j].v = todo[k].v)}}

\* selectedBlock is exactly the blocks some activation is still inside of:
\* the insert and erase of lines 164 to 168 and 375 to 379 balance however
\* the phis nest, so a pruned phi is pruned for a path that is being followed.
SelectedIsOpen ==
  \A k \in DOMAIN collectors :
    collectors[k].selectedBlock =
      UNION {Open(stack[i].todo) : i \in {j \in DOMAIN stack : stack[j].level = k}}

\* The pass prints for a call no function that does not flow there, however
\* traceValue, traceMemory and getCallBases call one another, and for a direct
\* call the function; each call is dealt with once, in the module's order.
Abstract ==
  INSTANCE AbstractDefs WITH todo <- pending \cup {stack[i].call.v : i \in DOMAIN stack \cap {1}}

ImplementsAbstract == Abstract!ASpec

=============================================================================
