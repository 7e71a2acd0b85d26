------------------------- MODULE InterpreterProofs -------------------------
(***************************************************************************)
(* Proofs about Interpreter, for every set of programs and every arena.    *)
(* First the call stack's discipline and the heap's bookkeeping: neither   *)
(* needs the types of the values computed, so the invariants speak of the  *)
(* shape of the stacks and of the heap only.  Then the visitor: the tasks  *)
(* of an activation fit their nodes, try blocks nest as the loops do, and  *)
(* what is thrown finds the catch that is meant for it.                    *)
(***************************************************************************)
EXTENDS Interpreter, DataLemmas

-----------------------------------------------------------------------------
LEMMA Popped ==
  ASSUME NEW s, IsSeq(s), Len(s) > 0
  PROVE  /\ IsSeq(Pop(s)) /\ Len(Pop(s)) = Len(s) - 1
         /\ \A i \in 1 .. Len(s) - 1 : Pop(s)[i] = s[i]
BY AllButLast DEF Pop

-----------------------------------------------------------------------------
(***************************************************************************)
(* What a step does to the two stacks: it works in the current frame and   *)
(* the current activation, or pushes both, or pops both.                   *)
(***************************************************************************)
InFrame == UNCHANGED mStack \/ \E frame : ReplaceTop(frame)
InActivation == UNCHANGED ctl \/ \E ts : ctl' = Continue(ts)

Pushes ==
  /\ \E frame : mStack' = Append(mStack, frame)
  /\ \E ts, a : ctl' = Append(Continue(ts), a)

Pops ==
  /\ Len(ctl) > 1
  /\ ctl' = Pop(ctl)
  /\ \/ mStack' = Pop(mStack)
     \/ \E frame : mStack' = [Pop(mStack) EXCEPT ![Len(Pop(mStack))] = frame]

StackStep == (InFrame /\ InActivation) \/ Pushes \/ Pops

\* The handlers work in the current frame.
LEMMA HandlersInFrame ==
  /\ \A n, v : bindStmtVal(n, v) => InFrame
  /\ \A lhs, v, n, val : assgnLVal(lhs, v, n, val) => InFrame
  /\ \A n, addr : bindAccess(n, addr) => InFrame
BY DEF bindStmtVal, assgnLVal, bindAccess, InFrame

LEMMA ExpandInActivation ==
  ASSUME NEW ts, Expand(ts)
  PROVE  InActivation
BY DEF Expand, InActivation

LEMMA StackSteps ==
  ASSUME Next
  PROVE  StackStep
<1> USE DEF Advance
<1>1. CASE VisitFunctionDecl
  BY <1>1, ExpandInActivation DEF VisitFunctionDecl, fdecl, StackStep, InFrame
<1>2. CASE VisitGlobalVarDecl \/ VisitChildren \/ VisitGroup \/ VisitCondition
             \/ TakeBranch \/ VisitLoop \/ ForHead \/ TestLoop \/ EndBody \/ Throw \/ Unwind
  BY <1>2, ExpandInActivation
     DEF VisitGlobalVarDecl, VisitChildren, VisitGroup, VisitCondition, TakeBranch, VisitLoop,
         ForHead, TestLoop, EndBody, Throw, Unwind, envVars, StackStep, InFrame
<1>3. CASE EnterMain
  BY <1>3, ExpandInActivation DEF EnterMain, initGlobalVars, ReplaceTop, StackStep, InFrame
<1>4. CASE HandleLiteral \/ HandleParen \/ HandleSizeof \/ BindConditional
  BY <1>4, HandlersInFrame, ExpandInActivation
     DEF HandleLiteral, literal, HandleParen, paren, HandleSizeof, ueott, BindConditional, StackStep
<1>5. CASE HandleBinop \/ HandleUnaryop \/ HandleArraysub
  BY <1>5, HandlersInFrame, ExpandInActivation
     DEF HandleBinop, binop, HandleUnaryop, unaryop, incdec, HandleArraysub, arraysub, StackStep
<1>6. CASE HandleDeclref \/ HandleCast
  <2>1. InFrame
    BY <1>6, HandlersInFrame DEF HandleDeclref, declref, HandleCast, cast, InFrame, envVars
  <2> QED BY <1>6, <2>1, ExpandInActivation DEF HandleDeclref, HandleCast, StackStep
<1>7. CASE HandleVardecl
  <2>1. InFrame
    BY <1>7 DEF HandleVardecl, vardecl, InFrame, envVars
  <2> QED BY <1>7, <2>1, ExpandInActivation DEF HandleVardecl, StackStep
<1>8. CASE HandleReturn
  <2>1. InFrame
    BY <1>8 DEF HandleReturn, returnstmt, InFrame, envVars
  <2> QED BY <1>8, <2>1, ExpandInActivation DEF HandleReturn, StackStep
<1>9. CASE HandleBuiltIn
  <2>1. InFrame
    BY <1>9 DEF HandleBuiltIn, callbuildin, InFrame
  <2> QED BY <1>9, <2>1, ExpandInActivation DEF HandleBuiltIn, StackStep
<1>10. CASE HandleCall
  BY <1>10 DEF HandleCall, call, StackStep, Pushes
<1>11. CASE LeaveFunction
  BY <1>11 DEF LeaveFunction, exit, StackStep, Pops
<1>12. CASE LeaveMain
  BY <1>12 DEF LeaveMain, destroyHeap, StackStep, InFrame, InActivation
<1>13. CASE CatchInLoop
  BY <1>13 DEF CatchInLoop, envVars, StackStep, InFrame, InActivation
<1>14. CASE LogicError \/ AssertFails \/ UndefinedBehaviour
  BY <1>14 DEF LogicError, AssertFails, UndefinedBehaviour, Fail, envVars, StackStep, InFrame,
               InActivation
<1> QED BY <1>1, <1>2, <1>3, <1>4, <1>5, <1>6, <1>7, <1>8, <1>9, <1>10, <1>11, <1>12, <1>13,
           <1>14 DEF Next

-----------------------------------------------------------------------------
(***************************************************************************)
(* The stacks' invariant.  That they are sequences is part of TypeOK.      *)
(***************************************************************************)
StacksOK ==
  /\ IsSeq(mStack) /\ IsSeq(ctl)
  /\ Len(ctl) > 0
  /\ Len(mStack) = Len(ctl)

\* The frames a step leaves below the top are what they were.
LowerFramesKept == \A i \in DOMAIN mStack : i < Len(mStack') => mStack'[i] = mStack[i]

LEMMA StacksStep ==
  ASSUME StacksOK, StackStep
  PROVE  StacksOK' /\ LowerFramesKept
<1> USE DEF StacksOK, LowerFramesKept
<1>0. Len(ctl) \in Nat /\ DOMAIN mStack = 1 .. Len(mStack)
  BY SeqShape
<1>1. CASE InFrame /\ InActivation
  <2>1. /\ IsSeq(mStack') /\ Len(mStack') = Len(mStack)
        /\ \A i \in 1 .. Len(mStack) - 1 : mStack'[i] = mStack[i]
    BY <1>1, <1>0, TopReplaced DEF InFrame, ReplaceTop
  <2>2. IsSeq(ctl') /\ Len(ctl') = Len(ctl)
    <3>1. CASE UNCHANGED ctl
      BY <3>1
    <3>2. CASE \E ts : ctl' = Continue(ts)
      <4>1. PICK ts : ctl' = Continue(ts)
        BY <3>2
      <4> QED BY <4>1, TopReplaced DEF Continue
    <3> QED BY <1>1, <3>1, <3>2 DEF InActivation
  <2> QED BY <1>0, <2>1, <2>2
<1>2. CASE Pushes
  <2>1. /\ IsSeq(mStack') /\ Len(mStack') = Len(mStack) + 1
        /\ \A i \in 1 .. Len(mStack) : mStack'[i] = mStack[i]
    BY <1>2, Pushed DEF Pushes
  <2>2. PICK ts, a : ctl' = Append(Continue(ts), a)
    BY <1>2 DEF Pushes
  <2>3. IsSeq(Continue(ts)) /\ Len(Continue(ts)) = Len(ctl)
    BY TopReplaced DEF Continue
  <2>4. IsSeq(ctl') /\ Len(ctl') = Len(ctl) + 1
    BY <2>2, <2>3, Pushed
  <2> QED BY <1>0, <2>1, <2>4
<1>3. CASE Pops
  <2>1. IsSeq(ctl') /\ Len(ctl') = Len(ctl) - 1
    BY <1>3, Popped DEF Pops
  <2>2. /\ IsSeq(Pop(mStack)) /\ Len(Pop(mStack)) = Len(mStack) - 1
        /\ \A i \in 1 .. Len(mStack) - 1 : Pop(mStack)[i] = mStack[i]
    BY Popped
  <2>3. /\ IsSeq(mStack') /\ Len(mStack') = Len(mStack) - 1
        /\ \A i \in 1 .. Len(mStack) - 2 : mStack'[i] = mStack[i]
    <3>1. CASE mStack' = Pop(mStack)
      BY <3>1, <2>2, <1>0
    <3>2. CASE \E frame : mStack' = [Pop(mStack) EXCEPT ![Len(Pop(mStack))] = frame]
      <4>1. Len(Pop(mStack)) > 0
        BY <1>3, <1>0, <2>2 DEF Pops
      <4>2. /\ IsSeq(mStack') /\ Len(mStack') = Len(Pop(mStack))
            /\ \A i \in 1 .. Len(Pop(mStack)) - 1 : mStack'[i] = Pop(mStack)[i]
        <5>1. PICK frame : mStack' = [Pop(mStack) EXCEPT ![Len(Pop(mStack))] = frame]
          BY <3>2
        <5> QED BY <5>1, <4>1, <2>2, TopReplaced
      <4> QED BY <1>0, <2>2, <4>2
    <3> QED BY <1>3, <3>1, <3>2 DEF Pops
  <2> QED BY <1>0, <1>3, <2>1, <2>3 DEF Pops
<1> QED BY <1>1, <1>2, <1>3 DEF StackStep

LEMMA InitStacks == Init => StacksOK
<1>1. ASSUME NEW x PROVE IsSeq(<<x>>) /\ Len(<<x>>) = 1
  BY SeqOfAny, <<x>> \in Seq({x})
<1> QED BY <1>1 DEF Init, StacksOK

LEMMA StacksKept ==
  ASSUME StacksOK, [Next]_vars
  PROVE  StacksOK' /\ LowerFramesKept
<1>1. CASE Next
  BY <1>1, StackSteps, StacksStep
<1>2. CASE UNCHANGED vars
  BY <1>2 DEF vars, envVars, StacksOK, LowerFramesKept
<1> QED BY <1>1, <1>2

LEMMA StacksInvariance == Spec => []StacksOK
BY InitStacks, StacksKept, PTL DEF Spec

\* The environment has one frame for the unit or main and one for every call
\* in progress: call(), exit() and the exceptions keep mStack and the visitor's
\* recursion in step.
THEOREM FramesInStep == Spec => []FramesMatchCalls
<1>1. StacksOK => FramesMatchCalls
  <2> SUFFICES ASSUME StacksOK PROVE FramesMatchCalls
    OBVIOUS
  <2>1. Len(<<>>) = 0
    OBVIOUS
  <2> QED BY <2>1 DEF StacksOK, FramesMatchCalls
<1> QED BY <1>1, StacksInvariance, PTL

\* No handler writes into a frame below the top: bindDecl, bindStmt, bindPtr
\* and setReturnValue all go through currentFrame().
THEOREM CallersUntouched == Spec => CallerFramesUntouched
<1>1. ASSUME StacksOK, [Next]_vars
      PROVE  [LowerFramesKept]_vars
  BY <1>1, StacksKept
<1> QED BY <1>1, StacksInvariance, PTL DEF Spec, CallerFramesUntouched, LowerFramesKept

-----------------------------------------------------------------------------
(***************************************************************************)
(* What a step does to the heap.                                           *)
(***************************************************************************)
heapVars == <<mSpace, alloc, mem>>

HeapKept == UNCHANGED <<mSpace, alloc>> /\ DOMAIN mem' = DOMAIN mem
Mallocs  == \E size, a, content : HeapMalloc(size, a, content)
Frees    == \E a \in DOMAIN mSpace : HeapFree(a)

HeapStep == ((HeapKept \/ Mallocs \/ Frees) /\ status' # "done") \/ destroyHeap

\* Storing to memory adds and removes no byte.
LEMMA StoreKeeps == \A m, a, ty, v : DOMAIN Store(m, a, ty, v) = DOMAIN m
BY DEF Store

\* All handlers but two leave the heap alone or store to it.
LEMMA HandlersKeepHeap ==
  /\ \A n, v : bindStmtVal(n, v) => HeapKept
  /\ \A lhs, v, n, val : assgnLVal(lhs, v, n, val) => HeapKept
  /\ \A n, addr : bindAccess(n, addr) => HeapKept
  /\ UNCHANGED envVars => HeapKept
BY StoreKeeps DEF bindStmtVal, assgnLVal, bindAccess, envVars, HeapKept

LEMMA HeapSteps ==
  ASSUME Next
  PROVE  HeapStep
<1> USE DEF HeapStep, Advance, Quiet, Visiting, Testing, Due, Ready, Thrown
<1>1. CASE VisitFunctionDecl \/ VisitGlobalVarDecl \/ VisitChildren \/ VisitGroup
             \/ VisitCondition \/ TakeBranch \/ VisitLoop \/ ForHead \/ TestLoop \/ EndBody
             \/ Throw \/ Unwind \/ CatchInLoop
  BY <1>1, HandlersKeepHeap
     DEF VisitFunctionDecl, fdecl, VisitGlobalVarDecl, VisitChildren, VisitGroup,
         VisitCondition, TakeBranch, VisitLoop, ForHead, TestLoop, EndBody, Throw, Unwind,
         CatchInLoop, HeapKept
<1>2. CASE LogicError \/ AssertFails \/ UndefinedBehaviour
  BY <1>2, HandlersKeepHeap DEF LogicError, AssertFails, UndefinedBehaviour, Fail
<1>3. CASE EnterMain \/ HandleCall \/ LeaveFunction
  BY <1>3 DEF EnterMain, initGlobalVars, HandleCall, call, LeaveFunction, exit, HeapKept
<1>4. CASE HandleLiteral \/ HandleParen \/ HandleSizeof \/ BindConditional
  BY <1>4, HandlersKeepHeap
     DEF HandleLiteral, literal, HandleParen, paren, HandleSizeof, ueott, BindConditional
<1>5. CASE HandleBinop \/ HandleUnaryop \/ HandleArraysub
  BY <1>5, HandlersKeepHeap
     DEF HandleBinop, binop, HandleUnaryop, unaryop, incdec, HandleArraysub, arraysub
<1>6. CASE HandleDeclref \/ HandleCast
  BY <1>6, HandlersKeepHeap DEF HandleDeclref, declref, HandleCast, cast
<1>7. CASE HandleReturn
  <2>1. HeapKept
    BY <1>7, HandlersKeepHeap DEF HandleReturn, returnstmt, HeapKept
  <2> QED BY <1>7, <2>1 DEF HandleReturn
<1>8. CASE HandleVardecl
  <2>1. HeapKept \/ Mallocs
    BY <1>8, HandlersKeepHeap DEF HandleVardecl, vardecl, HeapKept, Mallocs
  <2> QED BY <1>8, <2>1 DEF HandleVardecl
<1>9. CASE HandleBuiltIn
  <2>1. ~ Refused(This) /\ N(This).kind = "call" /\ isBuiltIn(This)
    BY <1>9 DEF HandleBuiltIn, Asserts
  <2>2. HeapKept \/ Mallocs \/ (HeapFree(Arg(This, 1)) /\ N(This).decl = "FREE")
    BY <1>9 DEF HandleBuiltIn, callbuildin, HeapKept, Mallocs
  <2>3. HeapKept \/ Mallocs \/ Frees
    BY <2>1, <2>2 DEF Refused, NotAllocated, Frees
  <2> QED BY <1>9, <2>3 DEF HandleBuiltIn
<1>10. CASE LeaveMain
  BY <1>10 DEF LeaveMain
<1> QED BY <1>1, <1>2, <1>3, <1>4, <1>5, <1>6, <1>7, <1>8, <1>9, <1>10 DEF Next

-----------------------------------------------------------------------------
(***************************************************************************)
(* The heap's invariant: HeapAccounted with the types of the chunks.       *)
(***************************************************************************)
Apart == \A a, b \in DOMAIN alloc : a < b => a + alloc[a] < b

BytesOfChunks == DOMAIN mem = UNION {Chunk(a, alloc[a]) : a \in DOMAIN alloc}

HeapOK ==
  /\ mSpace = alloc
  /\ DOMAIN alloc \subseteq Nat /\ \A a \in DOMAIN alloc : alloc[a] \in Nat
  /\ Apart
  /\ BytesOfChunks
  /\ status = "done" => DOMAIN alloc = {}

\* A chunk malloc finds room for is clear of all others.
LEMMA MallocKeeps ==
  ASSUME HeapOK, NEW size, NEW a, NEW content, HeapMalloc(size, a, content),
         status' # "done"
  PROVE  HeapOK'
<1>1. CASE a = 0
  <2>1. ~ Fits(a, size)
    BY <1>1, MemoryAssumption DEF Fits
  <2>2. UNCHANGED heapVars
    BY <1>1, <2>1 DEF HeapMalloc, malloc, heapVars
  <2> QED BY <2>2 DEF HeapOK, Apart, BytesOfChunks, heapVars
<1>2. CASE a # 0
  <2>1. /\ size \in Nat /\ Fits(a, size)
        /\ mSpace' = Bind(mSpace, a, size) /\ alloc' = Bind(alloc, a, size)
        /\ DOMAIN mem' = DOMAIN mem \cup Chunk(a, size)
    BY <1>2 DEF HeapMalloc, malloc
  <2>2. a \in Nat /\ a \notin DOMAIN alloc
    BY <2>1, MemoryAssumption DEF Fits, HeapOK
  <2>3. /\ DOMAIN alloc' = DOMAIN alloc \cup {a}
        /\ alloc'[a] = size
        /\ \A c \in DOMAIN alloc : alloc'[c] = alloc[c]
    BY <2>1, <2>2 DEF Bind
  <2>4. Apart'
    BY <2>1, <2>2, <2>3 DEF Apart, Fits, HeapOK
  <2>5. BytesOfChunks'
    BY <2>1, <2>3 DEF BytesOfChunks, HeapOK, Chunk
  <2>6. mSpace' = alloc'
    BY <2>1 DEF HeapOK
  <2> QED BY <2>1, <2>2, <2>3, <2>4, <2>5, <2>6 DEF HeapOK
<1> QED BY <1>1, <1>2

\* Chunks being apart, no byte of another is freed with one.
LEMMA FreeKeeps ==
  ASSUME HeapOK, NEW a \in DOMAIN mSpace, HeapFree(a), status' # "done"
  PROVE  HeapOK'
<1>1. /\ a \in DOMAIN alloc
      /\ mSpace' = Without(mSpace, a) /\ alloc' = Without(alloc, a)
      /\ DOMAIN mem' = DOMAIN mem \ Chunk(a, alloc[a])
  BY DEF HeapOK, HeapFree, free
<1>2. /\ DOMAIN alloc' = DOMAIN alloc \ {a}
      /\ \A c \in DOMAIN alloc' : alloc'[c] = alloc[c]
  BY <1>1 DEF Without
<1>3. Apart'
  BY <1>2 DEF Apart, HeapOK
<1>4. ASSUME NEW c \in DOMAIN alloc, c # a
      PROVE  Chunk(c, alloc[c]) \cap Chunk(a, alloc[a]) = {}
  BY <1>1, <1>4 DEF HeapOK, Apart, Chunk
<1>5. BytesOfChunks'
  <2>1. ASSUME NEW x
        PROVE  x \in DOMAIN mem' <=> \E c \in DOMAIN alloc' : x \in Chunk(c, alloc'[c])
    BY <1>1, <1>2, <1>4 DEF HeapOK, BytesOfChunks
  <2> QED BY <2>1 DEF BytesOfChunks, Chunk
<1>6. mSpace' = alloc'
  BY <1>1 DEF HeapOK
<1> QED BY <1>2, <1>3, <1>5, <1>6 DEF HeapOK

\* As every live chunk is recorded, ~Heap() leaves none.
LEMMA DestroyKeeps ==
  ASSUME HeapOK, destroyHeap
  PROVE  HeapOK'
<1>1. DOMAIN alloc' = {} /\ mSpace' = alloc'
  BY DEF HeapOK, destroyHeap, Empty
<1>2. DOMAIN mem' = {}
  BY DEF HeapOK, BytesOfChunks, destroyHeap
<1> QED BY <1>1, <1>2 DEF HeapOK, Apart, BytesOfChunks

LEMMA InitHeap == Init => HeapOK
BY DEF Init, Empty, HeapOK, Apart, BytesOfChunks

LEMMA HeapMaintained ==
  ASSUME HeapOK, [Next]_vars
  PROVE  HeapOK'
<1>1. CASE UNCHANGED vars
  BY <1>1 DEF vars, envVars, HeapOK, Apart, BytesOfChunks
<1>2. CASE HeapKept /\ status' # "done"
  BY <1>2 DEF HeapKept, HeapOK, Apart, BytesOfChunks
<1>3. CASE Mallocs /\ status' # "done"
  BY <1>3, MallocKeeps DEF Mallocs
<1>4. CASE Frees /\ status' # "done"
  BY <1>4, FreeKeeps DEF Frees
<1> QED BY <1>1, <1>2, <1>3, <1>4, HeapSteps, DestroyKeeps DEF HeapStep

\* Heap's record of the spaces is the allocator's, whatever malloc answers and
\* in whatever order spaces are freed; no two live spaces share a byte, and
\* ~Heap() leaves nothing.
THEOREM HeapInStep == Spec => []HeapAccounted
<1>1. HeapOK => HeapAccounted
  BY DEF HeapOK, Apart, BytesOfChunks, HeapAccounted
<1> QED BY <1>1, InitHeap, HeapMaintained, PTL DEF Spec

-----------------------------------------------------------------------------
(***************************************************************************)
(* The syntax tree.                                                        *)
(***************************************************************************)
ProgramOK == prog \in Programs

\* A node's fields and children.
LEMMA NodeShape ==
  ASSUME ProgramOK, NEW n \in NodeNo
  PROVE  /\ NodeNo = 1 .. Len(prog.node) /\ Len(prog.node) \in Nat
         /\ N(n) \in Node
         /\ N(n).kids \in Seq(Nat) /\ Len(N(n).kids) \in Nat
         /\ DOMAIN N(n).kids = 1 .. Len(N(n).kids)
         /\ Len(N(n).kids) \in KidCounts(N(n).kind)
         /\ \A i \in DOMAIN N(n).kids : Kid(n, i) \in {Null} \cup (n + 1) .. Len(prog.node)
         /\ Children(n) \subseteq NodeNo
<1>1. IsProgram(prog)
  BY ProgramsAssumption DEF ProgramOK
<1>2. prog.node \in Seq(Node)
  BY <1>1 DEF IsProgram
<1>3. NodeNo = 1 .. Len(prog.node) /\ Len(prog.node) \in Nat /\ N(n) \in Node
  BY <1>2, LenProperties, ElementOfSeq DEF NodeNo, N
<1>4. N(n).kids \in Seq(Nat)
  BY <1>3 DEF Node
<1>5. Len(N(n).kids) \in Nat /\ DOMAIN N(n).kids = 1 .. Len(N(n).kids)
  BY <1>4, LenProperties
<1>6. /\ Len(N(n).kids) \in KidCounts(N(n).kind)
      /\ \A i \in DOMAIN N(n).kids : Kid(n, i) \in {Null} \cup (n + 1) .. Len(prog.node)
  BY <1>1 DEF IsProgram, N, Kid, NodeNo
<1>7. Children(n) \subseteq NodeNo
  BY <1>3, <1>6 DEF Children
<1> QED BY <1>3, <1>4, <1>5, <1>6, <1>7

\* Only one node has m among its children, and it has it once; no root is.
LEMMA OneParent ==
  ASSUME ProgramOK, NEW n \in NodeNo, NEW k \in NodeNo,
         NEW i \in DOMAIN N(n).kids, NEW j \in DOMAIN N(k).kids,
         Kid(n, i) = Kid(k, j), Kid(n, i) # Null
  PROVE  n = k /\ i = j
<1>1. IsProgram(prog)
  BY ProgramsAssumption DEF ProgramOK
<1> QED BY <1>1 DEF IsProgram, N, Kid, NodeNo

LEMMA RootsHaveNoParent ==
  ASSUME ProgramOK, NEW n \in NodeNo, NEW m \in Roots(prog)
  PROVE  m \notin Children(n)
<1>1. IsProgram(prog)
  BY ProgramsAssumption DEF ProgramOK
<1> QED BY <1>1 DEF IsProgram, Children, N, Kid, NodeNo

\* The children of statements with a fixed number of them.
LEMMA Selections ==
  ASSUME ProgramOK, NEW n \in NodeNo, N(n).kind \in {"if", "cond"}, NEW i \in 1 .. 3
  PROVE  i \in DOMAIN N(n).kids
BY NodeShape, 3 \in {3} DEF KidCounts

LEMMA Loops ==
  ASSUME ProgramOK, NEW n \in NodeNo
  PROVE  /\ N(n).kind = "while" => DOMAIN N(n).kids = 1 .. 2
         /\ N(n).kind = "for" => DOMAIN N(n).kids = 1 .. 4
BY NodeShape DEF KidCounts

-----------------------------------------------------------------------------
(***************************************************************************)
(* VisitStmt visits the children there are.                                *)
(***************************************************************************)
LEMMA VisitsChildren ==
  ASSUME ProgramOK, NEW n \in NodeNo
  PROVE  /\ VisitStmt(n) \in Seq({Task("visit", k) : k \in Children(n)})
         /\ \A k \in Children(n) : \E j \in DOMAIN VisitStmt(n) : VisitStmt(n)[j] = Task("visit", k)
<1> DEFINE V == {Task("visit", k) : k \in Children(n)}
           S == Seq(V)
           L == Len(N(n).kids)
           Def(g) == [i \in 0 .. L |-> IF i = 0 THEN <<>> ELSE g[i - 1] \o Visit(Kid(n, i))]
           more(i) == IF i < L THEN Visit(Kid(n, i + 1)) ELSE <<>>
           step == [i \in Nat |-> [s \in S |-> s \o more(i)]]
           visits == CHOOSE g : g = Def(g)
<1>1. L \in Nat /\ DOMAIN N(n).kids = 1 .. L
  BY NodeShape
<1>2. <<>> \in S
  OBVIOUS
<1>3. \A i \in 1 .. L : Visit(Kid(n, i)) \in S
  <2> SUFFICES ASSUME NEW i \in 1 .. L PROVE Visit(Kid(n, i)) \in S
    OBVIOUS
  <2>1. CASE Kid(n, i) = Null
    BY <2>1, <1>2 DEF Visit
  <2>2. CASE Kid(n, i) # Null
    <3>1. Task("visit", Kid(n, i)) \in V
      BY <2>2, <1>1 DEF Children
    <3> QED BY <2>2, <3>1 DEF Visit
  <2> QED BY <2>1, <2>2
<1>4. \A i \in Nat : more(i) \in S
  <2> SUFFICES ASSUME NEW i \in Nat, i < L PROVE Visit(Kid(n, i + 1)) \in S
    BY <1>2
  <2>1. i + 1 \in 1 .. L
    BY <1>1
  <2> QED BY <2>1, <1>3
<1>5. \A s, t \in S : s \o t \in S
  BY ConcatProperties
<1>6. step \in [Nat -> [S -> S]]
  <2> HIDE DEF S, more
  <2> QED BY <1>4, <1>5
<1>7. \E g : g = Def(g)
  <2>1. PICK g : DefinedBy(g, S, <<>>, step)
    <3> HIDE DEF S, step
    <3> QED BY <1>2, <1>6, Recursion
  <2>2. /\ g \in [Nat -> S] /\ g[0] = <<>>
        /\ \A i \in Nat : g[i + 1] = g[i] \o more(i)
    <3> HIDE DEF S, more
    <3> QED BY <2>1 DEF DefinedBy
  <2> DEFINE h == [i \in 0 .. L |-> g[i]]
  <2>3. \A i \in 0 .. L : h[i] = IF i = 0 THEN <<>> ELSE h[i - 1] \o Visit(Kid(n, i))
    <3> SUFFICES ASSUME NEW i \in 0 .. L, i # 0 PROVE h[i] = h[i - 1] \o Visit(Kid(n, i))
      BY <2>2
    <3>1. i - 1 \in Nat /\ i - 1 \in 0 .. L /\ (i - 1) + 1 = i /\ i - 1 < L
      BY <1>1
    <3>2. g[(i - 1) + 1] = g[i - 1] \o more(i - 1)
      <4> HIDE DEF more
      <4> QED BY <3>1, <2>2
    <3>3. more(i - 1) = Visit(Kid(n, i))
      BY <3>1
    <3> HIDE DEF more, L
    <3> QED BY <3>1, <3>2, <3>3
  <2>4. h = [i \in 0 .. L |-> h[i]]
    OBVIOUS
  <2> HIDE DEF h
  <2>5. h = Def(h)
    BY <2>3, <2>4
  <2> QED BY <2>5
<1>8. visits = Def(visits)
  <2> HIDE DEF Def
  <2> QED BY <1>7
<1>9. VisitStmt(n) = visits[L]
  BY DEF VisitStmt
<1> HIDE DEF visits
<1> DEFINE Holds(s, m) == \E j \in DOMAIN s : s[j] = Task("visit", Kid(n, m))
           Shown(i) == \A m \in 1 .. i : Kid(n, m) # Null => Holds(visits[i], m)
           T == {i \in Nat : i <= L => visits[i] \in S /\ Shown(i)}
<1>10. 0 \in T
  <2>1. visits[0] = <<>>
    BY <1>1, <1>8
  <2>2. Shown(0)
    OBVIOUS
  <2> HIDE DEF Shown
  <2> QED BY <2>1, <2>2, <1>2
<1>11. \A i \in Nat : i \in T => i + 1 \in T
  <2> SUFFICES ASSUME NEW i \in Nat, i \in T, i + 1 <= L
               PROVE  visits[i + 1] \in S /\ Shown(i + 1)
    OBVIOUS
  <2>1. i + 1 \in 0 .. L /\ i + 1 \in 1 .. L /\ i + 1 # 0 /\ (i + 1) - 1 = i /\ i <= L
    BY <1>1
  <2>2. visits[i + 1] = visits[i] \o Visit(Kid(n, i + 1))
    BY <2>1, <1>8
  <2>3. visits[i] \in S /\ Shown(i)
    BY <2>1
  <2>4. Visit(Kid(n, i + 1)) \in S
    BY <2>1, <1>3
  <2>5. ASSUME NEW s \in S, NEW t \in S, NEW m, Holds(s, m) \/ Holds(t, m)
        PROVE  Holds(s \o t, m)
    <3>1. /\ \A j \in DOMAIN s : j \in DOMAIN (s \o t) /\ (s \o t)[j] = s[j]
          /\ \A j \in DOMAIN t : Len(s) + j \in DOMAIN (s \o t) /\ (s \o t)[Len(s) + j] = t[j]
      BY ConcatShape
    <3> QED BY <2>5, <3>1
  <2>6. Kid(n, i + 1) # Null => Holds(Visit(Kid(n, i + 1)), i + 1)
    BY DEF Visit
  <2> HIDE DEF S, Holds
  <2>7. \A m \in 1 .. i + 1 : m \in 1 .. i \/ m = i + 1
    OBVIOUS
  <2>8. Shown(i + 1)
    BY <2>2, <2>3, <2>4, <2>5, <2>6, <2>7
  <2> HIDE DEF Shown
  <2> QED BY <2>2, <2>3, <2>4, <2>8, <1>5
<1>12. Nat \subseteq T
  <2> HIDE DEF T
  <2> QED BY <1>10, <1>11, Induction
<1>13. visits[L] \in S /\ Shown(L)
  BY <1>1, <1>12
<1>14. ASSUME NEW k \in Children(n)
       PROVE  \E j \in DOMAIN visits[L] : visits[L][j] = Task("visit", k)
  <2>1. PICK m \in 1 .. L : k = Kid(n, m) /\ k # Null
    BY <1>1 DEF Children
  <2> QED BY <1>13, <2>1
<1> QED BY <1>9, <1>13, <1>14

-----------------------------------------------------------------------------
(***************************************************************************)
(* What stands in the body of a loop.  InBodies finds it in one pass, as   *)
(* what a node adds comes after it.                                        *)
(***************************************************************************)
LoopKinds == {"while", "for"}

\* The body of a loop is one of its children.
LEMMA BodyIsChild ==
  ASSUME ProgramOK, NEW n \in NodeNo, N(n).kind \in LoopKinds
  PROVE  \E i \in DOMAIN N(n).kids :
           LoopBody(n) = Kid(n, i) /\ i = IF N(n).kind = "for" THEN 4 ELSE 2
BY Loops DEF LoopKinds, LoopBody

LEMMA EnclosedAfter ==
  ASSUME ProgramOK, NEW n \in NodeNo, NEW A
  PROVE  \A m \in Enclosed(n, A) : m = Null \/ m \in (n + 1) .. Len(prog.node)
BY BodyIsChild, NodeShape DEF Enclosed, Children, LoopKinds

LEMMA Pass ==
  ASSUME ProgramOK
  PROVE  /\ Len(prog.node) \in Nat /\ NodeNo = 1 .. Len(prog.node)
         /\ InBodies[0] = {}
         /\ \A k \in Nat : k < Len(prog.node) =>
              InBodies[k + 1] = InBodies[k] \cup Enclosed(k + 1, InBodies[k])
<1> DEFINE L == Len(prog.node)
           S == SUBSET Nat
           Def(g) == [k \in 0 .. L |->
                        IF k = 0 THEN {} ELSE g[k - 1] \cup Enclosed(k, g[k - 1])]
           more(k, A) == IF k < L THEN Enclosed(k + 1, A) ELSE {}
           step == [k \in Nat |-> [A \in S |-> A \cup more(k, A)]]
<1>1. L \in Nat /\ NodeNo = 1 .. L
  <2>1. prog.node \in Seq(Node)
    BY ProgramsAssumption DEF ProgramOK, IsProgram
  <2> QED BY <2>1, LenProperties DEF NodeNo
<1>2. \A k \in Nat, A \in S : more(k, A) \in S
  <2> SUFFICES ASSUME NEW k \in Nat, NEW A \in S, k < L PROVE Enclosed(k + 1, A) \in S
    OBVIOUS
  <2>1. k + 1 \in NodeNo
    BY <1>1
  <2>2. \A m \in Enclosed(k + 1, A) : m \in Nat
    BY <1>1, <2>1, EnclosedAfter DEF Null
  <2> QED BY <2>2
<1>3. step \in [Nat -> [S -> S]] /\ {} \in S
  <2> HIDE DEF more
  <2> QED BY <1>2
<1>4. \E g : g = Def(g)
  <2>1. PICK g : DefinedBy(g, S, {}, step)
    <3> HIDE DEF S, step
    <3> QED BY <1>3, Recursion
  <2>2. /\ g \in [Nat -> S] /\ g[0] = {}
        /\ \A i \in Nat : g[i + 1] = g[i] \cup more(i, g[i])
    <3> HIDE DEF S, more
    <3> QED BY <2>1 DEF DefinedBy
  <2> DEFINE h == [i \in 0 .. L |-> g[i]]
  <2>3. \A i \in 0 .. L : h[i] = IF i = 0 THEN {} ELSE h[i - 1] \cup Enclosed(i, h[i - 1])
    <3> SUFFICES ASSUME NEW i \in 0 .. L, i # 0
                 PROVE  h[i] = h[i - 1] \cup Enclosed(i, h[i - 1])
      BY <2>2
    <3>1. i - 1 \in Nat /\ i - 1 \in 0 .. L /\ (i - 1) + 1 = i /\ i - 1 < L
      BY <1>1
    <3>2. g[(i - 1) + 1] = g[i - 1] \cup more(i - 1, g[i - 1])
      <4> HIDE DEF more
      <4> QED BY <3>1, <2>2
    <3>3. more(i - 1, g[i - 1]) = Enclosed(i, g[i - 1])
      BY <3>1
    <3> HIDE DEF more, L
    <3> QED BY <3>1, <3>2, <3>3
  <2>4. h = [i \in 0 .. L |-> h[i]]
    OBVIOUS
  <2> HIDE DEF h
  <2>5. h = Def(h)
    BY <2>3, <2>4
  <2> QED BY <2>5
<1>5. InBodies = CHOOSE g : g = Def(g)
  BY DEF InBodies
<1>6. InBodies = Def(InBodies)
  <2> HIDE DEF Def
  <2> QED BY <1>4, <1>5
<1>7. \A k \in 0 .. L :
        InBodies[k] = IF k = 0 THEN {} ELSE InBodies[k - 1] \cup Enclosed(k, InBodies[k - 1])
  BY <1>6
<1>8. ASSUME NEW k \in Nat, k < L
      PROVE  InBodies[k + 1] = InBodies[k] \cup Enclosed(k + 1, InBodies[k])
  <2>1. k + 1 \in 0 .. L /\ k + 1 # 0 /\ (k + 1) - 1 = k
    BY <1>1, <1>8
  <2> QED BY <1>7, <2>1
<1>9. InBodies[0] = {}
  <2>1. 0 \in 0 .. L
    BY <1>1
  <2> QED BY <1>7, <2>1
<1> QED BY <1>1, <1>8, <1>9

\* Whether n is inside is settled when the pass comes to it.
LEMMA Settled ==
  ASSUME ProgramOK, NEW n \in NodeNo
  PROVE  n \in InLoop <=> n \in InBodies[n - 1]
<1> DEFINE L == Len(prog.node)
           T == {d \in Nat : n - 1 + d <= L =>
                                (n \in InBodies[n - 1 + d] <=> n \in InBodies[n - 1])}
<1>1. L \in Nat /\ n \in 1 .. L
  BY Pass
<1>2. 0 \in T
  BY <1>1
<1>3. ASSUME NEW d \in Nat, d \in T
      PROVE  d + 1 \in T
  <2> SUFFICES ASSUME n - 1 + (d + 1) <= L
               PROVE  n \in InBodies[n - 1 + (d + 1)] <=> n \in InBodies[n - 1]
    OBVIOUS
  <2> DEFINE k == n - 1 + d
  <2>1. k \in Nat /\ k < L /\ k + 1 = n - 1 + (d + 1) /\ k + 1 \in NodeNo /\ n <= k + 1 /\ k <= L
    BY <1>1, Pass
  <2>2. n \in InBodies[k] <=> n \in InBodies[n - 1]
    BY <1>3, <2>1
  <2> HIDE DEF k
  <2>3. InBodies[k + 1] = InBodies[k] \cup Enclosed(k + 1, InBodies[k])
    BY <2>1, Pass
  <2>4. n \notin Enclosed(k + 1, InBodies[k])
    <3>1. \A m \in Enclosed(k + 1, InBodies[k]) : m = Null \/ m \in (k + 1 + 1) .. L
      BY <2>1, EnclosedAfter
    <3> QED BY <3>1, <2>1, <1>1 DEF Null
  <2> QED BY <2>1, <2>2, <2>3, <2>4
<1>4. Nat \subseteq T
  <2> HIDE DEF T
  <2> QED BY <1>2, <1>3, Induction
<1>5. L - (n - 1) \in Nat /\ n - 1 + (L - (n - 1)) = L /\ L <= L
  BY <1>1
<1>6. L - (n - 1) \in T
  BY <1>4, <1>5
<1>7. n \in InBodies[L] <=> n \in InBodies[n - 1]
  <2> HIDE DEF L
  <2> QED BY <1>5, <1>6
<1> QED BY <1>7 DEF InLoop

\* What is inside is what some node adds.
LEMMA WhatIsInside ==
  ASSUME ProgramOK, NEW m
  PROVE  m \in InLoop <=> \E n \in NodeNo : m \in Enclosed(n, InLoop)
<1> DEFINE L == Len(prog.node)
           Adds(n) == m \in Enclosed(n, InBodies[n - 1])
           T == {k \in Nat : k <= L => (m \in InBodies[k] <=> \E n \in 1 .. k : Adds(n))}
<1>1. L \in Nat /\ NodeNo = 1 .. L
  BY Pass
<1>2. 0 \in T
  BY Pass
<1>3. ASSUME NEW k \in Nat, k \in T
      PROVE  k + 1 \in T
  <2> SUFFICES ASSUME k + 1 <= L
               PROVE  m \in InBodies[k + 1] <=> \E n \in 1 .. k + 1 : Adds(n)
    OBVIOUS
  <2>1. k < L /\ k <= L /\ (k + 1) - 1 = k
    BY <1>1
  <2>2. m \in InBodies[k + 1] <=> m \in InBodies[k] \/ Adds(k + 1)
    BY <2>1, Pass
  <2>3. m \in InBodies[k] <=> \E n \in 1 .. k : Adds(n)
    BY <1>3, <2>1
  <2> HIDE DEF Adds
  <2>4. 1 .. k + 1 = (1 .. k) \cup {k + 1}
    OBVIOUS
  <2> QED BY <2>2, <2>3, <2>4
<1>4. Nat \subseteq T
  <2> HIDE DEF T
  <2> QED BY <1>2, <1>3, Induction
<1>5. m \in InLoop <=> \E n \in NodeNo : Adds(n)
  BY <1>1, <1>4 DEF InLoop
<1>6. \A n \in NodeNo : Adds(n) <=> m \in Enclosed(n, InLoop)
  BY Settled DEF Enclosed
<1> HIDE DEF Adds
<1> QED BY <1>5, <1>6

\* The children of a node in a loop are in it, so is the body of a loop; the
\* other children of a node are where it is, and a root is in no loop.
LEMMA ChildrenInLoop ==
  ASSUME ProgramOK, NEW n \in NodeNo, NEW i \in DOMAIN N(n).kids, Kid(n, i) # Null
  PROVE  IF N(n).kind \in LoopKinds /\ i = (IF N(n).kind = "for" THEN 4 ELSE 2)
         THEN Kid(n, i) \in InLoop
         ELSE Kid(n, i) \in InLoop <=> n \in InLoop
<1>1. Kid(n, i) \in Children(n)
  BY DEF Children
<1>2. n \in InLoop => Kid(n, i) \in InLoop
  BY <1>1, WhatIsInside DEF Enclosed
<1>3. CASE N(n).kind \in LoopKinds /\ i = (IF N(n).kind = "for" THEN 4 ELSE 2)
  <2>1. LoopBody(n) = Kid(n, i)
    BY <1>3, BodyIsChild
  <2>2. n \notin InLoop => Kid(n, i) \in Enclosed(n, InLoop)
    BY <1>3, <2>1 DEF Enclosed, LoopKinds
  <2> QED BY <1>2, <1>3, <2>2, WhatIsInside
<1>4. CASE ~ (N(n).kind \in LoopKinds /\ i = (IF N(n).kind = "for" THEN 4 ELSE 2))
  <2> SUFFICES ASSUME Kid(n, i) \in InLoop PROVE n \in InLoop
    BY <1>2, <1>4
  <2>1. PICK p \in NodeNo : Kid(n, i) \in Enclosed(p, InLoop)
    BY WhatIsInside
  <2>2. CASE p \in InLoop
    <3>1. PICK j \in DOMAIN N(p).kids : Kid(n, i) = Kid(p, j)
      BY <2>1, <2>2 DEF Enclosed, Children
    <3> QED BY <2>2, <3>1, OneParent
  <2>3. CASE p \notin InLoop
    <3>1. N(p).kind \in LoopKinds /\ Kid(n, i) = LoopBody(p)
      BY <2>1, <2>3 DEF Enclosed, LoopKinds
    <3>2. PICK j \in DOMAIN N(p).kids :
            LoopBody(p) = Kid(p, j) /\ j = IF N(p).kind = "for" THEN 4 ELSE 2
      BY <3>1, BodyIsChild
    <3>3. n = p /\ i = j
      BY <3>1, <3>2, OneParent
    <3> QED BY <3>1, <3>2, <3>3, <1>4
  <2> QED BY <2>2, <2>3
<1> QED BY <1>3, <1>4

LEMMA RootsInNoLoop ==
  ASSUME ProgramOK, NEW m \in Roots(prog), m # Null
  PROVE  m \notin InLoop
<1> SUFFICES ASSUME m \in InLoop PROVE FALSE
  OBVIOUS
<1>1. PICK n \in NodeNo : m \in Enclosed(n, InLoop)
  BY WhatIsInside
<1>2. m \in Children(n)
  <2>1. CASE n \in InLoop
    BY <1>1, <2>1 DEF Enclosed
  <2>2. CASE n \notin InLoop
    BY <1>1, <2>2, BodyIsChild DEF Enclosed, LoopKinds, Children
  <2> QED BY <2>1, <2>2
<1> QED BY <1>2, RootsHaveNoParent

-----------------------------------------------------------------------------
(***************************************************************************)
(* The tasks of an activation.  What a task does fits its node, and its    *)
(* node is inside a loop exactly when the task of a try block follows it.  *)
(***************************************************************************)
Nodes(kinds) == {n \in NodeNo : N(n).kind \in kinds}

Handled == LeafKinds \cup ExprKinds \cup {"return", "vardecl"}

ProperTasks ==
  [do : {"decl"}, n : DOMAIN prog.unit]
    \cup [do : {"initGlobalVars"}, n : {Null}]
    \cup [do : {"visit"}, n : NodeNo]
    \cup [do : {"handle"}, n : Nodes(Handled)]
    \cup [do : {"branch"}, n : Nodes({"if", "cond"})]
    \cup [do : {"bind"}, n : Nodes({"cond"})]
    \cup [do : {"loop"}, n : Nodes({"for"})]
    \cup [do : {"test", "endbody"}, n : Nodes(LoopKinds)]

Inside(t) == t.do \notin {"decl", "initGlobalVars"} /\ t.n \in InLoop

Tries(ts) == \E j \in DOMAIN ts : ts[j].do = "endbody"

Nested(ts) ==
  \A k \in DOMAIN ts : Inside(ts[k]) <=> \E j \in DOMAIN ts : k < j /\ ts[j].do = "endbody"

TasksOK(ts) == ts \in Seq(ProperTasks) /\ Nested(ts)

\* The first task and the others.
LEMMA FirstTask ==
  ASSUME NEW ts, TasksOK(ts), ts # <<>>
  PROVE  /\ Head(ts) \in ProperTasks
         /\ TasksOK(Tail(ts))
         /\ Inside(Head(ts)) <=> Tries(Tail(ts))
         /\ Tries(ts) <=> Head(ts).do = "endbody" \/ Tries(Tail(ts))
<1> DEFINE r == Tail(ts)
<1>1. ts \in Seq(ProperTasks) /\ Len(ts) \in Nat \ {0} /\ DOMAIN ts = 1 .. Len(ts)
  BY EmptySeq, LenProperties DEF TasksOK
<1>2. /\ Head(ts) \in ProperTasks /\ Head(ts) = ts[1]
      /\ r \in Seq(ProperTasks) /\ Len(r) = Len(ts) - 1 /\ DOMAIN r = 1 .. Len(r)
      /\ \A i \in 1 .. Len(r) : r[i] = ts[i + 1]
  <2>1. Head(ts) = ts[1]
    BY <1>1
  <2>2. r \in Seq(ProperTasks)
    BY <1>1, HeadTailProperties
  <2> QED BY <2>1, <2>2, <1>1, HeadTailProperties, LenProperties
<1> HIDE DEF r
<1>3. \A i \in DOMAIN r : i + 1 \in DOMAIN ts /\ 1 < i + 1
  BY <1>1, <1>2
<1>4. \A j \in DOMAIN ts : 1 < j => j - 1 \in DOMAIN r /\ ts[j] = r[j - 1]
  BY <1>1, <1>2
<1>5. Tries(r) <=> \E j \in DOMAIN ts : 1 < j /\ ts[j].do = "endbody"
  BY <1>2, <1>3, <1>4 DEF Tries
<1>6. 1 \in DOMAIN ts
  BY <1>1
<1>7. Inside(ts[1]) <=> Tries(r)
  BY <1>5, <1>6 DEF TasksOK, Nested
<1>8. Tries(ts) <=> ts[1].do = "endbody" \/ Tries(r)
  <2>1. \A j \in DOMAIN ts : j = 1 \/ 1 < j
    BY <1>1
  <2> QED BY <1>5, <1>6, <2>1 DEF Tries
<1>9. ASSUME NEW k \in DOMAIN r
      PROVE  Inside(r[k]) <=> \E j \in DOMAIN r : k < j /\ r[j].do = "endbody"
  <2>1. Inside(ts[k + 1]) <=> \E j \in DOMAIN ts : k + 1 < j /\ ts[j].do = "endbody"
    BY <1>3 DEF TasksOK, Nested
  <2>2. ASSUME NEW j \in DOMAIN ts, k + 1 < j
        PROVE  j - 1 \in DOMAIN r /\ k < j - 1 /\ r[j - 1] = ts[j]
    BY <2>2, <1>1, <1>2, <1>4
  <2>3. ASSUME NEW j \in DOMAIN r, k < j
        PROVE  j + 1 \in DOMAIN ts /\ k + 1 < j + 1 /\ r[j] = ts[j + 1]
    BY <2>3, <1>1, <1>2, <1>3
  <2> QED BY <1>2, <2>1, <2>2, <2>3
<1>10. TasksOK(r)
  BY <1>2, <1>9 DEF TasksOK, Nested
<1> QED BY <1>2, <1>7, <1>8, <1>10 DEF r

\* Tasks put in front.
LEMMA Concatenated ==
  ASSUME NEW s \in Seq(ProperTasks), NEW t \in Seq(ProperTasks)
  PROVE  /\ s \o t \in Seq(ProperTasks)
         /\ Len(s) \in Nat /\ Len(t) \in Nat
         /\ DOMAIN s = 1 .. Len(s) /\ DOMAIN t = 1 .. Len(t)
         /\ DOMAIN (s \o t) = 1 .. Len(s) + Len(t)
         /\ \A k \in DOMAIN s : k \in DOMAIN (s \o t) /\ (s \o t)[k] = s[k]
         /\ \A k \in DOMAIN t : /\ Len(s) + k \in DOMAIN (s \o t)
                                /\ (s \o t)[Len(s) + k] = t[k]
BY ConcatShape

LEMMA Prepended ==
  ASSUME NEW s \in Seq(ProperTasks), NEW t, TasksOK(t),
         \A k \in DOMAIN s : s[k].do # "endbody" /\ (Inside(s[k]) <=> Tries(t))
  PROVE  TasksOK(s \o t) /\ (Tries(s \o t) <=> Tries(t))
<1> DEFINE u == s \o t
<1>1. /\ u \in Seq(ProperTasks)
      /\ Len(s) \in Nat /\ Len(t) \in Nat
      /\ DOMAIN s = 1 .. Len(s) /\ DOMAIN t = 1 .. Len(t) /\ DOMAIN u = 1 .. Len(s) + Len(t)
      /\ \A k \in DOMAIN s : k \in DOMAIN u /\ u[k] = s[k]
      /\ \A k \in DOMAIN t : Len(s) + k \in DOMAIN u /\ u[Len(s) + k] = t[k]
  BY Concatenated DEF TasksOK
<1> HIDE DEF u
<1>2. ASSUME NEW j \in DOMAIN u
      PROVE  (j \in DOMAIN s) \/ (j - Len(s) \in DOMAIN t /\ u[j] = t[j - Len(s)])
  <2> SUFFICES ASSUME j \notin DOMAIN s
               PROVE  j - Len(s) \in DOMAIN t /\ u[j] = t[j - Len(s)]
    OBVIOUS
  <2>1. j - Len(s) \in DOMAIN t /\ Len(s) + (j - Len(s)) = j
    BY <1>1
  <2>2. u[Len(s) + (j - Len(s))] = t[j - Len(s)]
    BY <1>1, <2>1
  <2> QED BY <2>1, <2>2
<1>3. Tries(u) <=> Tries(t)
  BY <1>1, <1>2 DEF Tries
<1>4. ASSUME NEW k \in DOMAIN u
      PROVE  Inside(u[k]) <=> \E j \in DOMAIN u : k < j /\ u[j].do = "endbody"
  <2>1. CASE k \in DOMAIN s
    <3>1. Inside(u[k]) <=> Tries(t)
      BY <1>1, <2>1
    <3>2. \A j \in DOMAIN u : u[j].do = "endbody" => k < j
      BY <1>1, <2>1
    <3> QED BY <1>3, <3>1, <3>2 DEF Tries
  <2>2. CASE k \notin DOMAIN s
    <3> DEFINE i == k - Len(s)
    <3>1. i \in DOMAIN t /\ u[k] = t[i]
      BY <1>2, <2>2
    <3>2. Inside(t[i]) <=> \E j \in DOMAIN t : i < j /\ t[j].do = "endbody"
      BY <3>1 DEF TasksOK, Nested
    <3>3. ASSUME NEW j \in DOMAIN t, i < j
          PROVE  Len(s) + j \in DOMAIN u /\ k < Len(s) + j /\ u[Len(s) + j] = t[j]
      <4>1. k < Len(s) + j
        BY <1>1, <3>3
      <4> QED BY <1>1, <4>1
    <3>4. ASSUME NEW j \in DOMAIN u, k < j
          PROVE  j - Len(s) \in DOMAIN t /\ i < j - Len(s) /\ u[j] = t[j - Len(s)]
      <4>1. j \notin DOMAIN s /\ i < j - Len(s)
        BY <1>1, <2>2, <3>4
      <4> QED BY <4>1, <1>2
    <3> HIDE DEF i
    <3> QED BY <3>1, <3>2, <3>3, <3>4
  <2> QED BY <2>1, <2>2
<1> QED BY <1>1, <1>3, <1>4 DEF TasksOK, Nested, u

\* The end of a try block put in front of what its loop is followed by.
LEMMA TryPrepended ==
  ASSUME NEW x \in ProperTasks, x.do = "endbody", NEW t, TasksOK(t), Inside(x) <=> Tries(t)
  PROVE  TasksOK(<<x>> \o t) /\ Tries(<<x>> \o t)
<1> DEFINE s == <<x>>
           u == s \o t
<1>0. s \in Seq(ProperTasks) /\ Len(s) = 1 /\ DOMAIN s = {1} /\ s[1] = x
  OBVIOUS
<1>1. /\ u \in Seq(ProperTasks)
      /\ Len(t) \in Nat
      /\ DOMAIN t = 1 .. Len(t) /\ DOMAIN u = 1 .. 1 + Len(t)
      /\ 1 \in DOMAIN u /\ u[1] = x
      /\ \A k \in DOMAIN t : 1 + k \in DOMAIN u /\ u[1 + k] = t[k]
  <2> HIDE DEF s
  <2>1. t \in Seq(ProperTasks)
    BY DEF TasksOK
  <2>2. /\ u \in Seq(ProperTasks) /\ Len(t) \in Nat
        /\ DOMAIN t = 1 .. Len(t) /\ DOMAIN u = 1 .. Len(s) + Len(t)
        /\ \A k \in DOMAIN s : k \in DOMAIN u /\ u[k] = s[k]
        /\ \A k \in DOMAIN t : Len(s) + k \in DOMAIN u /\ u[Len(s) + k] = t[k]
    BY <1>0, <2>1, Concatenated
  <2> HIDE DEF u
  <2> QED BY <1>0, <2>2
<1> HIDE DEF s, u
<1>2. ASSUME NEW j \in DOMAIN u, j # 1
      PROVE  j - 1 \in DOMAIN t /\ u[j] = t[j - 1]
  <2>1. j - 1 \in DOMAIN t /\ 1 + (j - 1) = j
    BY <1>1, <1>2
  <2>2. u[1 + (j - 1)] = t[j - 1]
    BY <1>1, <2>1
  <2> QED BY <2>1, <2>2
<1>3. Tries(u)
  BY <1>1 DEF Tries
<1>4. ASSUME NEW k \in DOMAIN u
      PROVE  Inside(u[k]) <=> \E j \in DOMAIN u : k < j /\ u[j].do = "endbody"
  <2> DEFINE i == k - 1
  <2>1. ASSUME NEW j \in DOMAIN u, k < j
        PROVE  j - 1 \in DOMAIN t /\ i < j - 1 /\ u[j] = t[j - 1]
    <3>1. j # 1 /\ i < j - 1
      BY <1>1, <2>1
    <3> QED BY <3>1, <1>2
  <2>2. ASSUME NEW j \in DOMAIN t, i < j
        PROVE  1 + j \in DOMAIN u /\ k < 1 + j /\ u[1 + j] = t[j]
    <3>1. k < 1 + j
      BY <1>1, <2>2
    <3> QED BY <1>1, <3>1
  <2>3. CASE k = 1
    <3>1. \A j \in DOMAIN t : i < j
      BY <1>1, <2>3
    <3> HIDE DEF i
    <3> QED BY <1>1, <2>1, <2>2, <2>3, <3>1 DEF Tries
  <2>4. CASE k # 1
    <3>1. i \in DOMAIN t /\ u[k] = t[i]
      BY <1>2, <2>4
    <3> HIDE DEF i
    <3>2. Inside(t[i]) <=> \E j \in DOMAIN t : i < j /\ t[j].do = "endbody"
      BY <3>1 DEF TasksOK, Nested
    <3> QED BY <3>1, <3>2, <2>1, <2>2
  <2> QED BY <2>3, <2>4
<1> QED BY <1>1, <1>3, <1>4 DEF TasksOK, Nested, s, u

-----------------------------------------------------------------------------
(***************************************************************************)
(* What the visitor puts in front of the tasks that remain.                *)
(***************************************************************************)
LEMMA OneFirst ==
  ASSUME NEW x \in ProperTasks, x.do # "endbody", NEW t, TasksOK(t), Inside(x) <=> Tries(t)
  PROVE  TasksOK(<<x>> \o t) /\ (Tries(<<x>> \o t) <=> Tries(t))
<1> DEFINE s == <<x>>
<1>1. s \in Seq(ProperTasks) /\ \A k \in DOMAIN s : s[k] = x
  OBVIOUS
<1> HIDE DEF s
<1>2. TasksOK(s \o t) /\ (Tries(s \o t) <=> Tries(t))
  BY <1>1, Prepended
<1> QED BY <1>2 DEF s

LEMMA VisitTask ==
  ASSUME NEW k \in NodeNo
  PROVE  /\ Task("visit", k) \in ProperTasks /\ Task("visit", k).do = "visit"
         /\ Inside(Task("visit", k)) <=> k \in InLoop
BY DEF Task, ProperTasks, Inside

LEMMA VisitType ==
  ASSUME NEW k, k = Null \/ k \in NodeNo
  PROVE  Visit(k) \in Seq(ProperTasks)
BY VisitTask DEF Visit

LEMMA VisitFirst ==
  ASSUME NEW t, TasksOK(t), NEW k, k = Null \/ (k \in NodeNo /\ (k \in InLoop <=> Tries(t)))
  PROVE  TasksOK(Visit(k) \o t) /\ (Tries(Visit(k) \o t) <=> Tries(t))
<1>1. CASE k = Null
  <2>1. Visit(k) \o t = t
    BY <1>1, ConcatEmptySeq DEF Visit, TasksOK
  <2> QED BY <2>1
<1>2. CASE k # Null
  <2>1. Visit(k) = <<Task("visit", k)>>
    BY <1>2 DEF Visit
  <2> QED BY <1>2, <2>1, OneFirst, VisitTask
<1> QED BY <1>1, <1>2

\* A child of a statement that is no loop, or of a loop and not its body.
LEMMA ChildPlace ==
  ASSUME ProgramOK, NEW n \in NodeNo, NEW i \in DOMAIN N(n).kids,
         ~ (N(n).kind \in LoopKinds /\ i = (IF N(n).kind = "for" THEN 4 ELSE 2))
  PROVE  Kid(n, i) = Null \/ (Kid(n, i) \in NodeNo /\ (Kid(n, i) \in InLoop <=> n \in InLoop))
<1>1. Kid(n, i) = Null \/ Kid(n, i) \in NodeNo
  BY NodeShape
<1> QED BY <1>1, ChildrenInLoop

LEMMA VisitStmtFirst ==
  ASSUME ProgramOK, NEW t, TasksOK(t), NEW n \in NodeNo, N(n).kind \notin LoopKinds,
         n \in InLoop <=> Tries(t)
  PROVE  /\ VisitStmt(n) \in Seq(ProperTasks)
         /\ TasksOK(VisitStmt(n) \o t) /\ (Tries(VisitStmt(n) \o t) <=> Tries(t))
<1> DEFINE V == {Task("visit", k) : k \in Children(n)}
           s == VisitStmt(n)
<1>1. \A k \in Children(n) : k \in NodeNo /\ (k \in InLoop <=> Tries(t))
  BY ChildPlace DEF Children
<1>2. \A x \in V : x \in ProperTasks /\ x.do # "endbody" /\ (Inside(x) <=> Tries(t))
  BY <1>1, VisitTask
<1>3. s \in Seq(V)
  BY VisitsChildren
<1> HIDE DEF V, s
<1>4. s \in Seq(ProperTasks)
  BY <1>2, <1>3, SeqMonotonic
<1>5. \A k \in DOMAIN s : s[k] \in V
  BY <1>3, ElementOfSeq, LenProperties
<1>6. TasksOK(s \o t) /\ (Tries(s \o t) <=> Tries(t))
  BY <1>2, <1>4, <1>5, Prepended
<1> QED BY <1>4, <1>6 DEF s

\* A task of a node.
LEMMA NodeTask ==
  ASSUME NEW do, NEW n \in NodeNo, Task(do, n) \in ProperTasks,
         do \notin {"decl", "initGlobalVars"}
  PROVE  /\ Task(do, n).do = do /\ <<Task(do, n)>> \in Seq(ProperTasks)
         /\ Inside(Task(do, n)) <=> n \in InLoop
BY DEF Task, Inside

\* Children first, then the node's own task.
LEMMA ThenTask ==
  ASSUME NEW t, TasksOK(t), NEW s \in Seq(ProperTasks), NEW do, NEW n \in NodeNo,
         Task(do, n) \in ProperTasks, do \notin {"decl", "initGlobalVars", "endbody"},
         n \in InLoop <=> Tries(t)
  PROVE  /\ (s \o <<Task(do, n)>>) \o t = s \o (<<Task(do, n)>> \o t)
         /\ s \o <<Task(do, n)>> \in Seq(ProperTasks)
         /\ TasksOK(<<Task(do, n)>> \o t) /\ (Tries(<<Task(do, n)>> \o t) <=> Tries(t))
<1>1. <<Task(do, n)>> \in Seq(ProperTasks) /\ t \in Seq(ProperTasks)
  BY NodeTask DEF TasksOK
<1>2. (s \o <<Task(do, n)>>) \o t = s \o (<<Task(do, n)>> \o t)
  BY <1>1, ConcatAssociative
<1>3. s \o <<Task(do, n)>> \in Seq(ProperTasks)
  BY <1>1, ConcatProperties
<1> QED BY <1>2, <1>3, NodeTask, OneFirst

LEMMA HandleLast ==
  ASSUME ProgramOK, NEW t, TasksOK(t), NEW n \in Nodes(Handled), n \in InLoop <=> Tries(t)
  PROVE  TasksOK((VisitStmt(n) \o <<Task("handle", n)>>) \o t)
<1>1. n \in NodeNo /\ N(n).kind \notin LoopKinds /\ Task("handle", n) \in ProperTasks
  BY DEF Nodes, Handled, LeafKinds, ExprKinds, LoopKinds, Task, ProperTasks
<1>2. VisitStmt(n) \in Seq(ProperTasks)
  BY <1>1, VisitStmtFirst
<1> DEFINE u == <<Task("handle", n)>> \o t
           v == VisitStmt(n)
<1>3. (v \o <<Task("handle", n)>>) \o t = v \o u
  <2> HIDE DEF v
  <2> QED BY <1>1, <1>2, ThenTask
<1>4. TasksOK(u) /\ (Tries(u) <=> Tries(t))
  BY <1>1, <1>2, ThenTask
<1> HIDE DEF u
<1>5. TasksOK(v \o u)
  BY <1>1, <1>4, VisitStmtFirst
<1> QED BY <1>3, <1>5

\* A child, if there is one, then the node's own task.
LEMMA ChildThenTask ==
  ASSUME ProgramOK, NEW t, TasksOK(t), NEW n \in NodeNo, n \in InLoop <=> Tries(t),
         NEW k, k = Null \/ (k \in NodeNo /\ (k \in InLoop <=> n \in InLoop)),
         NEW do, Task(do, n) \in ProperTasks,
         do \notin {"decl", "initGlobalVars", "endbody"}
  PROVE  /\ Visit(k) \o <<Task(do, n)>> \in Seq(ProperTasks)
         /\ TasksOK((Visit(k) \o <<Task(do, n)>>) \o t)
         /\ Tries((Visit(k) \o <<Task(do, n)>>) \o t) <=> Tries(t)
<1>1. Visit(k) \in Seq(ProperTasks)
  BY VisitType
<1> DEFINE u == <<Task(do, n)>> \o t
           v == Visit(k)
<1>2. (v \o <<Task(do, n)>>) \o t = v \o u
  <2> HIDE DEF v
  <2> QED BY <1>1, ThenTask
<1>5. v \o <<Task(do, n)>> \in Seq(ProperTasks)
  <2>1. <<Task(do, n)>> \in Seq(ProperTasks)
    BY NodeTask
  <2> QED BY <1>1, <2>1, ConcatProperties
<1>3. TasksOK(u) /\ (Tries(u) <=> Tries(t))
  BY <1>1, ThenTask
<1> HIDE DEF u
<1>4. TasksOK(v \o u) /\ (Tries(v \o u) <=> Tries(t))
  BY <1>3, VisitFirst
<1> QED BY <1>2, <1>4, <1>5

\* The body of a loop, inside its try block.
LEMMA BodyFirst ==
  ASSUME ProgramOK, NEW t, TasksOK(t), NEW n \in Nodes(LoopKinds), n \in InLoop <=> Tries(t)
  PROVE  TryBody(n) \in Seq(ProperTasks) /\ TasksOK(TryBody(n) \o t)
<1> DEFINE x == Task("endbody", n)
<1>1. n \in NodeNo /\ N(n).kind \in LoopKinds /\ x \in ProperTasks /\ x.do = "endbody"
      /\ (Inside(x) <=> n \in InLoop)
  BY DEF Nodes, Task, ProperTasks, Inside
<1>2. <<x>> \in Seq(ProperTasks) /\ t \in Seq(ProperTasks)
  BY <1>1 DEF TasksOK
<1>3. PICK i \in DOMAIN N(n).kids :
        LoopBody(n) = Kid(n, i) /\ i = IF N(n).kind = "for" THEN 4 ELSE 2
  BY <1>1, BodyIsChild
<1>4. LoopBody(n) = Null \/ (LoopBody(n) \in NodeNo /\ LoopBody(n) \in InLoop)
  <2>1. LoopBody(n) = Null \/ LoopBody(n) \in NodeNo
    BY <1>1, <1>3, NodeShape
  <2> QED BY <2>1, <1>1, <1>3, ChildrenInLoop
<1>5. Visit(LoopBody(n)) \in Seq(ProperTasks)
  BY <1>4, VisitType
<1> HIDE DEF x
<1>6. TasksOK(<<x>> \o t) /\ Tries(<<x>> \o t)
  BY <1>1, TryPrepended
<1>7. TasksOK(Visit(LoopBody(n)) \o (<<x>> \o t))
  BY <1>4, <1>6, VisitFirst
<1>8. (Visit(LoopBody(n)) \o <<x>>) \o t = Visit(LoopBody(n)) \o (<<x>> \o t)
  BY <1>2, <1>5, ConcatAssociative
<1>9. Visit(LoopBody(n)) \o <<x>> \in Seq(ProperTasks)
  BY <1>2, <1>5, ConcatProperties
<1> QED BY <1>7, <1>8, <1>9 DEF TryBody, x

\* The condition of a loop and what follows.
LEMMA TestFirst ==
  ASSUME ProgramOK, NEW t, TasksOK(t), NEW n \in Nodes(LoopKinds), n \in InLoop <=> Tries(t)
  PROVE  TestCond(n) \in Seq(ProperTasks) /\ TasksOK(TestCond(n) \o t)
<1>1. n \in NodeNo /\ N(n).kind \in LoopKinds /\ Task("test", n) \in ProperTasks
  BY DEF Nodes, Task, ProperTasks
<1>2. Cond(n) = Null \/ (Cond(n) \in NodeNo /\ (Cond(n) \in InLoop <=> n \in InLoop))
  BY <1>1, Loops, ChildPlace DEF Cond, LoopKinds
<1>3. CASE Cond(n) = Null
  BY <1>3, BodyFirst DEF TestCond
<1>4. CASE Cond(n) # Null
  BY <1>1, <1>2, <1>4, ChildThenTask DEF TestCond
<1> QED BY <1>3, <1>4

\* What a for visits outside its try block, and back to its head.
LEMMA AroundLoop ==
  ASSUME ProgramOK, NEW t, TasksOK(t), NEW n \in Nodes({"for"}), n \in InLoop <=> Tries(t),
         NEW i \in {1, 3}
  PROVE  TasksOK((Visit(Kid(n, i)) \o <<Task("loop", n)>>) \o t)
<1>1. /\ n \in NodeNo /\ N(n).kind = "for" /\ Task("loop", n) \in ProperTasks
      /\ i \in DOMAIN N(n).kids
  BY Loops DEF Nodes, Task, ProperTasks
<1>2. Kid(n, i) = Null \/ (Kid(n, i) \in NodeNo /\ (Kid(n, i) \in InLoop <=> n \in InLoop))
  BY <1>1, ChildPlace
<1> QED BY <1>1, <1>2, ChildThenTask

\* A selection's condition, then the choice.
LEMMA ConditionFirst ==
  ASSUME ProgramOK, NEW t, TasksOK(t), NEW n \in Nodes({"if", "cond"}), n \in InLoop <=> Tries(t)
  PROVE  TasksOK((Visit(Kid(n, 1)) \o <<Task("branch", n)>>) \o t)
<1>1. /\ n \in NodeNo /\ N(n).kind \in {"if", "cond"} /\ N(n).kind \notin LoopKinds
      /\ Task("branch", n) \in ProperTasks /\ 1 \in DOMAIN N(n).kids
  BY Selections DEF Nodes, LoopKinds, Task, ProperTasks
<1>2. Kid(n, 1) = Null \/ (Kid(n, 1) \in NodeNo /\ (Kid(n, 1) \in InLoop <=> n \in InLoop))
  BY <1>1, ChildPlace
<1> QED BY <1>1, <1>2, ChildThenTask

LEMMA BranchFirst ==
  ASSUME ProgramOK, NEW t, TasksOK(t), NEW n \in Nodes({"if", "cond"}), n \in InLoop <=> Tries(t),
         NEW i \in {2, 3}
  PROVE  TasksOK((Visit(Kid(n, i)) \o (IF N(n).kind = "cond" THEN <<Task("bind", n)>> ELSE <<>>))
                    \o t)
<1>1. /\ n \in NodeNo /\ N(n).kind \in {"if", "cond"} /\ N(n).kind \notin LoopKinds
      /\ N(n).kind = "cond" => Task("bind", n) \in ProperTasks
      /\ i \in DOMAIN N(n).kids
  BY Selections DEF Nodes, LoopKinds, Task, ProperTasks
<1>2. Kid(n, i) = Null \/ (Kid(n, i) \in NodeNo /\ (Kid(n, i) \in InLoop <=> n \in InLoop))
  BY <1>1, ChildPlace
<1>3. CASE N(n).kind = "cond"
  BY <1>1, <1>2, <1>3, ChildThenTask
<1>4. CASE N(n).kind # "cond"
  <2>1. Visit(Kid(n, i)) \o <<>> = Visit(Kid(n, i))
    BY <1>2, VisitType, ConcatEmptySeq
  <2> QED BY <1>2, <1>4, <2>1, VisitFirst
<1> QED BY <1>3, <1>4

-----------------------------------------------------------------------------
(***************************************************************************)
(* The invariant of the visitor: its tasks are in order and an exception   *)
(* in flight has a try block before it, or none, as its kind wants it.     *)
(***************************************************************************)
ExcFits(e, ts) ==
  /\ e \in {None, "BREAK", "CONTINUE", "RETURN"}
  /\ Structured => /\ e \in {"BREAK", "CONTINUE"} => Tries(ts)
                   /\ e = "RETURN" => ~ Tries(ts)

ActivationsOK ==
  \A i \in DOMAIN ctl : /\ TasksOK(ctl[i].tasks)
                        /\ i > 1 => ctl[i].call \in Nodes({"call"})

ControlOK ==
  /\ ProgramOK
  /\ fdecls \subseteq DOMAIN prog.fn
  /\ StacksOK
  /\ ActivationsOK
  /\ ExcFits(exc, Tasks)
  /\ ExceptionsCaught

\* What a step does to it.
ControlStep ==
  /\ prog' = prog
  /\ \/ \E ts : TasksOK(ts) /\ ctl' = Continue(ts) /\ ExcFits(exc', ts)
     \/ \E ts, body : \E n \in Nodes({"call"}) :
          /\ TasksOK(ts) /\ TasksOK(body)
          /\ ctl' = Append(Continue(ts), [call |-> n, tasks |-> body])
          /\ exc' = None
     \/ Len(ctl) > 1 /\ ctl' = Pop(ctl) /\ exc' = None
     \/ UNCHANGED ctl /\ ExcFits(exc', Tasks)
  /\ status' = "logic_error" => ~ Structured

\* The task at hand.
LEMMA AtHand ==
  ASSUME ControlOK, Tasks # <<>>
  PROVE  /\ Head(Tasks) \in ProperTasks
         /\ TasksOK(Tail(Tasks))
         /\ Inside(Head(Tasks)) <=> Tries(Tail(Tasks))
         /\ Tries(Tasks) <=> Head(Tasks).do = "endbody" \/ Tries(Tail(Tasks))
<1>1. Len(ctl) \in DOMAIN ctl
  BY SeqShape DEF ControlOK, StacksOK
<1>2. TasksOK(Tasks)
  BY <1>1 DEF ControlOK, ActivationsOK, Tasks
<1> QED BY <1>2, FirstTask

LEMMA TheNode ==
  ASSUME ControlOK, NEW do, Ready(do), do \notin {"decl", "initGlobalVars"}
  PROVE  /\ This \in NodeNo
         /\ This \in InLoop <=> Tries(Tail(Tasks))
         /\ do = "handle" => This \in Nodes(Handled)
         /\ do = "branch" => This \in Nodes({"if", "cond"})
         /\ do = "bind" => This \in Nodes({"cond"})
         /\ do = "loop" => This \in Nodes({"for"})
         /\ do \in {"test", "endbody"} => This \in Nodes(LoopKinds)
<1>1. /\ Head(Tasks) \in ProperTasks /\ Head(Tasks).do = do /\ Head(Tasks).n = This
      /\ Inside(Head(Tasks)) <=> Tries(Tail(Tasks))
  BY AtHand DEF Ready, This
<1>2. This \in InLoop <=> Tries(Tail(Tasks))
  BY <1>1 DEF Inside
<1>3. /\ This \in NodeNo
      /\ do = "handle" => This \in Nodes(Handled)
      /\ do = "branch" => This \in Nodes({"if", "cond"})
      /\ do = "bind" => This \in Nodes({"cond"})
      /\ do = "loop" => This \in Nodes({"for"})
      /\ do \in {"test", "endbody"} => This \in Nodes(LoopKinds)
  BY <1>1 DEF ProperTasks, Nodes
<1> QED BY <1>2, <1>3

\* Going on with ts before the other tasks.
LEMMA GoOn ==
  ASSUME ControlOK, prog' = prog, NEW ts, TasksOK(ts \o Tail(Tasks)), Expand(ts),
         exc' = None, status' # "logic_error"
  PROVE  ControlStep
<1>1. ctl' = Continue(ts \o Tail(Tasks))
  BY DEF Expand
<1>2. ExcFits(exc', ts \o Tail(Tasks))
  BY DEF ExcFits, None
<1> QED BY <1>1, <1>2 DEF ControlStep

\* Dropping the task at hand.
LEMMA Dropped ==
  ASSUME ControlOK, Tasks # <<>>, Expand(<<>>)
  PROVE  ctl' = Continue(Tail(Tasks)) /\ TasksOK(Tail(Tasks)) /\ TasksOK(<<>> \o Tail(Tasks))
<1>1. TasksOK(Tail(Tasks))
  BY AtHand
<1>2. <<>> \o Tail(Tasks) = Tail(Tasks)
  BY <1>1, ConcatEmptySeq DEF TasksOK
<1> QED BY <1>1, <1>2 DEF Expand

\* No handler changes the program, only fdecl() what is declared.
LEMMA SameProgram ==
  ASSUME Next
  PROVE  /\ prog' = prog /\ status = "running"
         /\ fdecls' = fdecls \/ VisitFunctionDecl
<1> USE DEF Advance, Quiet, Visiting, Testing, Due, Ready, Thrown, envVars
<1>1. CASE VisitFunctionDecl \/ VisitGlobalVarDecl \/ VisitChildren \/ VisitGroup
             \/ VisitCondition \/ TakeBranch \/ VisitLoop \/ ForHead \/ TestLoop \/ EndBody
             \/ Throw \/ Unwind \/ CatchInLoop
  BY <1>1 DEF VisitFunctionDecl, fdecl, VisitGlobalVarDecl, VisitChildren, VisitGroup,
              VisitCondition, TakeBranch, VisitLoop, ForHead, TestLoop, EndBody, Throw, Unwind,
              CatchInLoop
<1>2. CASE LogicError \/ AssertFails \/ UndefinedBehaviour
  <2>1. CASE LogicError
    BY <2>1 DEF LogicError
  <2>2. CASE AssertFails
    BY <2>2 DEF AssertFails, Fail
  <2>3. CASE UndefinedBehaviour
    BY <2>3 DEF UndefinedBehaviour, Fail
  <2> QED BY <1>2, <2>1, <2>2, <2>3
<1>3. CASE EnterMain \/ HandleCall \/ LeaveFunction \/ LeaveMain
  BY <1>3 DEF EnterMain, initGlobalVars, HandleCall, call, LeaveFunction, exit, LeaveMain,
              destroyHeap
<1>4. CASE HandleLiteral \/ HandleParen \/ HandleSizeof \/ BindConditional
  BY <1>4 DEF HandleLiteral, literal, HandleParen, paren, HandleSizeof, ueott, BindConditional,
              bindStmtVal
<1>5. CASE HandleBinop \/ HandleUnaryop \/ HandleArraysub
  BY <1>5 DEF HandleBinop, binop, HandleUnaryop, unaryop, incdec, HandleArraysub, arraysub,
              bindStmtVal, assgnLVal, bindAccess
<1>6. CASE HandleDeclref \/ HandleCast
  BY <1>6 DEF HandleDeclref, declref, HandleCast, cast, bindStmtVal
<1>7. CASE HandleReturn \/ HandleVardecl
  BY <1>7 DEF HandleReturn, returnstmt, HandleVardecl, vardecl
<1>8. CASE HandleBuiltIn
  BY <1>8 DEF HandleBuiltIn, callbuildin
<1> QED BY <1>1, <1>2, <1>3, <1>4, <1>5, <1>6, <1>7, <1>8 DEF Next

\* The bodies of the functions are visited in an activation of their own.
LEMMA BodyOf ==
  ASSUME ProgramOK, NEW f \in DOMAIN prog.fn, Fn(f).body # Null,
         NEW t, TasksOK(t), ~ Tries(t)
  PROVE  TasksOK(VisitStmt(Fn(f).body)) /\ TasksOK(VisitStmt(Fn(f).body) \o t)
<1> DEFINE n == Fn(f).body
<1>1. n \in NodeNo /\ N(n).kind = "compound" /\ n \in Roots(prog)
  <2>1. IsProgram(prog)
    BY ProgramsAssumption DEF ProgramOK
  <2> QED BY <2>1 DEF IsProgram, Fn, N, NodeNo, Roots
<1>2. n \notin InLoop /\ N(n).kind \notin LoopKinds
  BY <1>1, RootsInNoLoop DEF LoopKinds
<1>3. TasksOK(<<>>) /\ ~ Tries(<<>>)
  BY DEF TasksOK, Nested, Tries
<1> HIDE DEF n
<1>4. VisitStmt(n) \in Seq(ProperTasks) /\ TasksOK(VisitStmt(n) \o t)
  BY <1>1, <1>2, VisitStmtFirst
<1>5. TasksOK(VisitStmt(n) \o <<>>)
  BY <1>1, <1>2, <1>3, VisitStmtFirst
<1>6. VisitStmt(n) \o <<>> = VisitStmt(n)
  BY <1>4, ConcatEmptySeq
<1> QED BY <1>4, <1>5, <1>6 DEF n

LEMMA DeclarationSteps ==
  ASSUME ControlOK, prog' = prog, VisitFunctionDecl \/ VisitGlobalVarDecl \/ EnterMain
  PROVE  ControlStep
<1> USE DEF Quiet
<1>0. ProgramOK
  BY DEF ControlOK
<1>1. CASE VisitFunctionDecl
  BY <1>1, Dropped, GoOn DEF VisitFunctionDecl, Ready
<1>2. CASE VisitGlobalVarDecl
  <2> DEFINE m == UnitDecl.vardecl
  <2>1. /\ Head(Tasks) \in ProperTasks /\ TasksOK(Tail(Tasks)) /\ ~ Tries(Tail(Tasks))
        /\ This \in DOMAIN prog.unit
    <3>1. Head(Tasks) \in ProperTasks /\ TasksOK(Tail(Tasks)) /\ ~ Tries(Tail(Tasks))
      BY <1>2, AtHand DEF VisitGlobalVarDecl, Ready, Inside
    <3>2. This \in DOMAIN prog.unit
      BY <1>2, <3>1 DEF VisitGlobalVarDecl, Ready, ProperTasks, This
    <3> QED BY <3>1, <3>2
  <2>2. m \in NodeNo /\ m \in Roots(prog) /\ m # Null
    <3>1. IsProgram(prog)
      BY <1>0, ProgramsAssumption DEF ProgramOK
    <3>2. m \in NodeNo /\ m \in Roots(prog)
      BY <1>2, <2>1, <3>1 DEF IsProgram, VisitGlobalVarDecl, UnitDecl, Roots, NodeNo
    <3> QED BY <3>2, <1>0, Pass DEF Null
  <2>3. m \notin InLoop
    BY <1>0, <2>2, RootsInNoLoop
  <2> HIDE DEF m
  <2>4. TasksOK(Visit(m) \o Tail(Tasks))
    BY <2>1, <2>2, <2>3, VisitFirst
  <2>5. Expand(Visit(m)) /\ exc' = None /\ status' # "logic_error"
    BY <1>2 DEF VisitGlobalVarDecl, Ready, m
  <2> QED BY <2>4, <2>5, GoOn
<1>3. CASE EnterMain
  <2>1. TasksOK(Tail(Tasks)) /\ ~ Tries(Tail(Tasks))
    BY <1>3, AtHand DEF EnterMain, Ready, Inside
  <2>2. "main" \in DOMAIN prog.fn /\ Fn("main").body # Null
    BY <1>3 DEF EnterMain, MainDefined, ControlOK
  <2>3. TasksOK(VisitStmt(Fn("main").body) \o Tail(Tasks))
    BY <1>0, <2>1, <2>2, BodyOf
  <2>4. Expand(VisitStmt(Fn("main").body)) /\ exc' = None /\ status' # "logic_error"
    BY <1>3 DEF EnterMain, Ready
  <2> QED BY <2>3, <2>4, GoOn
<1> QED BY <1>1, <1>2, <1>3

LEMMA VisitSteps ==
  ASSUME ControlOK, prog' = prog, VisitChildren \/ VisitGroup \/ VisitCondition \/ TakeBranch
  PROVE  ControlStep
<1> USE DEF Quiet
<1>0. ProgramOK
  BY DEF ControlOK
<1>1. TasksOK(Tail(Tasks))
  BY AtHand DEF VisitChildren, VisitGroup, VisitCondition, TakeBranch, Visiting, Testing, Ready
<1>2. CASE VisitChildren
  <2>1. This \in Nodes(Handled) /\ (This \in InLoop <=> Tries(Tail(Tasks)))
    BY <1>2, TheNode DEF VisitChildren, Visiting, Nodes, Handled
  <2>2. TasksOK((VisitStmt(This) \o <<Task("handle", This)>>) \o Tail(Tasks))
    BY <1>0, <1>1, <2>1, HandleLast
  <2>3. /\ Expand(VisitStmt(This) \o <<Task("handle", This)>>)
        /\ exc' = None /\ status' # "logic_error"
    BY <1>2 DEF VisitChildren, Visiting, Ready
  <2> QED BY <2>2, <2>3, GoOn
<1>3. CASE VisitGroup
  <2>1. This \in NodeNo /\ (This \in InLoop <=> Tries(Tail(Tasks)))
    BY <1>3, TheNode DEF VisitGroup, Visiting
  <2>2. N(This).kind \notin LoopKinds
    BY <1>3 DEF VisitGroup, Visiting, GroupKinds, LoopKinds
  <2>3. TasksOK(VisitStmt(This) \o Tail(Tasks))
    BY <1>0, <1>1, <2>1, <2>2, VisitStmtFirst
  <2>4. Expand(VisitStmt(This)) /\ exc' = None /\ status' # "logic_error"
    BY <1>3 DEF VisitGroup, Visiting, Ready
  <2> QED BY <2>3, <2>4, GoOn
<1>4. CASE VisitCondition
  <2>1. This \in Nodes({"if", "cond"}) /\ (This \in InLoop <=> Tries(Tail(Tasks)))
    BY <1>4, TheNode DEF VisitCondition, Visiting, Nodes
  <2>2. TasksOK((Visit(Kid(This, 1)) \o <<Task("branch", This)>>) \o Tail(Tasks))
    BY <1>0, <1>1, <2>1, ConditionFirst
  <2>3. /\ Expand(Visit(Kid(This, 1)) \o <<Task("branch", This)>>)
        /\ exc' = None /\ status' # "logic_error"
    BY <1>4 DEF VisitCondition, Visiting, Ready
  <2> QED BY <2>2, <2>3, GoOn
<1>5. CASE TakeBranch
  <2> DEFINE ts == Visit(Chosen(This))
                     \o (IF N(This).kind = "cond" THEN <<Task("bind", This)>> ELSE <<>>)
  <2>1. This \in Nodes({"if", "cond"}) /\ (This \in InLoop <=> Tries(Tail(Tasks)))
    BY <1>5, TheNode DEF TakeBranch, Testing
  <2>2. PICK i \in {2, 3} : Chosen(This) = Kid(This, i)
    BY DEF Chosen
  <2>3. TasksOK(ts \o Tail(Tasks))
    BY <1>0, <1>1, <2>1, <2>2, BranchFirst
  <2>4. Expand(ts) /\ exc' = None /\ status' # "logic_error"
    BY <1>5 DEF TakeBranch, Testing, Ready
  <2> HIDE DEF ts
  <2> QED BY <2>3, <2>4, GoOn
<1> QED BY <1>2, <1>3, <1>4, <1>5

LEMMA LoopSteps ==
  ASSUME ControlOK, prog' = prog, VisitLoop \/ ForHead \/ TestLoop \/ EndBody
  PROVE  ControlStep
<1> USE DEF Quiet
<1>0. ProgramOK
  BY DEF ControlOK
<1>1. TasksOK(Tail(Tasks))
  BY AtHand DEF VisitLoop, ForHead, TestLoop, EndBody, Visiting, Testing, Ready
<1>2. CASE VisitLoop
  <2>1. This \in Nodes(LoopKinds) /\ (This \in InLoop <=> Tries(Tail(Tasks)))
    BY <1>2, TheNode DEF VisitLoop, Visiting, Nodes, LoopKinds
  <2>2. exc' = None /\ status' # "logic_error"
    BY <1>2 DEF VisitLoop, Visiting, Ready
  <2>3. CASE N(This).kind = "for"
    <3>1. This \in Nodes({"for"})
      BY <2>1, <2>3 DEF Nodes
    <3>2. TasksOK((Visit(Kid(This, 1)) \o <<Task("loop", This)>>) \o Tail(Tasks))
      BY <1>0, <1>1, <2>1, <3>1, AroundLoop
    <3>3. Expand(Visit(Kid(This, 1)) \o <<Task("loop", This)>>)
      BY <1>2, <2>3 DEF VisitLoop
    <3> QED BY <2>2, <3>2, <3>3, GoOn
  <2>4. CASE N(This).kind # "for"
    <3>1. TasksOK(TestCond(This) \o Tail(Tasks))
      BY <1>0, <1>1, <2>1, TestFirst
    <3>2. Expand(TestCond(This))
      BY <1>2, <2>4 DEF VisitLoop
    <3> QED BY <2>2, <3>1, <3>2, GoOn
  <2> QED BY <2>3, <2>4
<1>3. CASE ForHead
  <2>1. This \in Nodes(LoopKinds) /\ (This \in InLoop <=> Tries(Tail(Tasks)))
    BY <1>3, TheNode DEF ForHead, Nodes, LoopKinds
  <2>2. TasksOK(TestCond(This) \o Tail(Tasks))
    BY <1>0, <1>1, <2>1, TestFirst
  <2>3. Expand(TestCond(This)) /\ exc' = None /\ status' # "logic_error"
    BY <1>3 DEF ForHead, Ready
  <2> QED BY <2>2, <2>3, GoOn
<1>4. CASE TestLoop
  <2>1. This \in Nodes(LoopKinds) /\ (This \in InLoop <=> Tries(Tail(Tasks)))
    BY <1>4, TheNode DEF TestLoop, Testing
  <2>2. exc' = None /\ status' # "logic_error" /\ Tasks # <<>>
    BY <1>4 DEF TestLoop, Testing, Ready
  <2>3. CASE getCondVal(Cond(This))
    <3>1. TasksOK(TryBody(This) \o Tail(Tasks))
      BY <1>0, <1>1, <2>1, BodyFirst
    <3>2. Expand(TryBody(This))
      BY <1>4, <2>3 DEF TestLoop
    <3> QED BY <2>2, <3>1, <3>2, GoOn
  <2>4. CASE ~ getCondVal(Cond(This))
    <3>1. Expand(<<>>)
      BY <1>4, <2>4 DEF TestLoop
    <3> QED BY <2>2, <3>1, Dropped, GoOn
  <2> QED BY <2>3, <2>4
<1>5. CASE EndBody
  <2>1. This \in Nodes(LoopKinds) /\ (This \in InLoop <=> Tries(Tail(Tasks)))
    BY <1>5, TheNode DEF EndBody
  <2>2. exc' = None /\ status' # "logic_error"
    BY <1>5 DEF EndBody, Ready
  <2>3. CASE N(This).kind = "for"
    <3>1. This \in Nodes({"for"})
      BY <2>1, <2>3 DEF Nodes
    <3>2. TasksOK((Visit(Kid(This, 3)) \o <<Task("loop", This)>>) \o Tail(Tasks))
      BY <1>0, <1>1, <2>1, <3>1, AroundLoop
    <3>3. Expand(Visit(Kid(This, 3)) \o <<Task("loop", This)>>)
      BY <1>5, <2>3 DEF EndBody
    <3> QED BY <2>2, <3>2, <3>3, GoOn
  <2>4. CASE N(This).kind # "for"
    <3>1. TasksOK(TestCond(This) \o Tail(Tasks))
      BY <1>0, <1>1, <2>1, TestFirst
    <3>2. Expand(TestCond(This))
      BY <1>5, <2>4 DEF EndBody
    <3> QED BY <2>2, <3>1, <3>2, GoOn
  <2> QED BY <2>3, <2>4
<1> QED BY <1>2, <1>3, <1>4, <1>5

\* The handlers that end with the task at hand.
LEMMA HandlerSteps ==
  ASSUME ControlOK, prog' = prog,
         \/ HandleLiteral \/ HandleParen \/ HandleBinop \/ HandleUnaryop \/ HandleDeclref
         \/ HandleCast \/ HandleArraysub \/ HandleSizeof \/ HandleVardecl \/ HandleBuiltIn
         \/ BindConditional
  PROVE  ControlStep
<1>1. Expand(<<>>) /\ Tasks # <<>> /\ exc' = None /\ status' # "logic_error"
  BY DEF HandleLiteral, HandleParen, HandleBinop, HandleUnaryop, HandleDeclref, HandleCast,
         HandleArraysub, HandleSizeof, HandleVardecl, HandleBuiltIn, BindConditional, Due, Ready,
         Advance, Quiet
<1> QED BY <1>1, Dropped, GoOn

LEMMA CallSteps ==
  ASSUME ControlOK, prog' = prog, HandleCall \/ LeaveFunction \/ LeaveMain
  PROVE  ControlStep
<1> USE DEF Quiet
<1>0. ProgramOK
  BY DEF ControlOK
<1>1. CASE HandleCall
  <2> DEFINE f == N(This).decl
  <2>1. TasksOK(Tail(Tasks)) /\ This \in Nodes({"call"})
    BY <1>1, AtHand, TheNode DEF HandleCall, Due, Ready, Nodes
  <2>2. f \in DOMAIN prog.fn
    <3>1. IsProgram(prog)
      BY <1>0, ProgramsAssumption DEF ProgramOK
    <3> QED BY <2>1, <3>1 DEF IsProgram, Resolved, Nodes, NodeNo, N
  <2>3. Fn(f).body # Null
    BY <1>1, <2>1 DEF HandleCall, Due, Undefined, NoBody, Nodes
  <2> HIDE DEF f
  <2>4. TasksOK(VisitStmt(Fn(f).body))
    <3>1. TasksOK(<<>>) /\ ~ Tries(<<>>)
      BY DEF TasksOK, Nested, Tries
    <3> QED BY <1>0, <2>2, <2>3, <3>1, BodyOf
  <2>5. /\ ctl' = Append(Continue(Tail(Tasks)), [call |-> This, tasks |-> VisitStmt(Fn(f).body)])
        /\ exc' = None /\ status' # "logic_error"
    BY <1>1 DEF HandleCall, Due, Ready, f
  <2> QED BY <2>1, <2>4, <2>5 DEF ControlStep
<1>2. CASE LeaveFunction
  BY <1>2 DEF LeaveFunction, ControlStep
<1>3. CASE LeaveMain
  BY <1>3 DEF LeaveMain, ControlStep, ExcFits, None
<1> QED BY <1>1, <1>2, <1>3

\* What is thrown fits: break and continue stand in loops, return does not.
LEMMA ThrowSteps ==
  ASSUME ControlOK, prog' = prog, Throw \/ HandleReturn
  PROVE  ControlStep
<1> USE DEF Visiting, Due, Ready
<1>1. Expand(<<>>) /\ Tasks # <<>> /\ status' # "logic_error"
  BY DEF Throw, HandleReturn
<1>2. ctl' = Continue(Tail(Tasks)) /\ TasksOK(Tail(Tasks))
  BY <1>1, Dropped
<1>3. This \in NodeNo /\ (This \in InLoop <=> Tries(Tail(Tasks)))
  BY TheNode DEF Throw, HandleReturn
<1>4. ExcFits(exc', Tail(Tasks))
  <2>1. CASE Throw
    BY <1>3, <2>1 DEF Throw, ExcFits, Structured
  <2>2. CASE HandleReturn
    BY <1>3, <2>2 DEF HandleReturn, ExcFits, Structured
  <2> QED BY <2>1, <2>2
<1> QED BY <1>1, <1>2, <1>4 DEF ControlStep

\* The stack unwinds to the catch that fits.
LEMMA UnwindSteps ==
  ASSUME ControlOK, prog' = prog, Unwind \/ CatchInLoop \/ LogicError
  PROVE  ControlStep
<1> USE DEF Thrown
<1>0. ExcFits(exc, Tasks) /\ exc # None
  BY DEF ControlOK, Unwind, CatchInLoop, LogicError
<1>1. CASE Unwind
  <2>1. Expand(<<>>) /\ Tasks # <<>> /\ exc' = exc /\ status' # "logic_error"
    BY <1>1 DEF Unwind
  <2>2. ctl' = Continue(Tail(Tasks)) /\ TasksOK(Tail(Tasks))
    BY <2>1, Dropped
  <2>3. Tries(Tasks) <=> Tries(Tail(Tasks))
    BY <1>1, <2>1, AtHand DEF Unwind, InTry
  <2>4. ExcFits(exc', Tail(Tasks))
    BY <1>0, <2>1, <2>3 DEF ExcFits
  <2> QED BY <2>1, <2>2, <2>4 DEF ControlStep
<1>2. CASE CatchInLoop
  <2>1. TasksOK(Tail(Tasks)) /\ exc' = None /\ status' # "logic_error"
    BY <1>2, AtHand DEF CatchInLoop, InTry
  <2>2. ctl' = ctl \/ ctl' = Continue(Tail(Tasks))
    BY <1>2 DEF CatchInLoop
  <2>3. \A ts : ExcFits(exc', ts)
    BY <2>1 DEF ExcFits, None
  <2> QED BY <2>1, <2>2, <2>3 DEF ControlStep
<1>3. CASE LogicError
  <2>1. ~ Structured
    <3> SUFFICES ASSUME Structured PROVE FALSE
      OBVIOUS
    <3>1. CASE InTry
      <4>1. Tries(Tasks)
        BY <3>1, AtHand DEF InTry
      <4> QED BY <1>0, <1>3, <3>1, <4>1 DEF LogicError, ExcFits
    <3>2. CASE ~ InTry
      <4>1. Tasks = <<>>
        BY <1>3, <3>2 DEF LogicError
      <4>2. ~ Tries(Tasks)
        BY <4>1 DEF Tries
      <4> QED BY <1>0, <1>3, <3>2, <4>2 DEF LogicError, ExcFits
    <3> QED BY <3>1, <3>2
  <2>2. UNCHANGED <<ctl, exc>>
    BY <1>3 DEF LogicError
  <2> QED BY <1>0, <2>1, <2>2 DEF ControlStep
<1> QED BY <1>1, <1>2, <1>3

LEMMA ControlSteps ==
  ASSUME ControlOK, Next
  PROVE  ControlStep
<1>1. prog' = prog
  BY SameProgram
<1>2. CASE AssertFails \/ UndefinedBehaviour
  BY <1>1, <1>2 DEF AssertFails, UndefinedBehaviour, Fail, ControlStep, ControlOK
<1> QED BY <1>1, <1>2, DeclarationSteps, VisitSteps, LoopSteps, HandlerSteps, CallSteps,
           ThrowSteps, UnwindSteps DEF Next

-----------------------------------------------------------------------------
(***************************************************************************)
(* The invariant is kept.                                                  *)
(***************************************************************************)
\* The program fixes what is in a loop and which tasks are proper.
LEMMA SameShape ==
  ASSUME prog' = prog
  PROVE  /\ NodeNo' = NodeNo /\ InLoop' = InLoop /\ (Structured' <=> Structured)
         /\ ProperTasks' = ProperTasks
         /\ \A kinds : Nodes(kinds)' = Nodes(kinds)
<1>1. InLoop' = InLoop
  BY DEF InLoop, InBodies, Enclosed, Children, LoopBody, Kid, N
<1>2. NodeNo' = NodeNo /\ \A kinds : Nodes(kinds)' = Nodes(kinds)
  BY DEF NodeNo, Nodes, N
<1>3. Structured' <=> Structured
  BY <1>1, <1>2 DEF Structured, N
<1>4. ProperTasks' = ProperTasks
  BY <1>2 DEF ProperTasks
<1> QED BY <1>1, <1>2, <1>3, <1>4

LEMMA SameTasks ==
  ASSUME prog' = prog
  PROVE  \A ts : TasksOK(ts)' <=> TasksOK(ts)
BY SameShape DEF TasksOK, Nested, Inside

LEMMA TopChanged ==
  ASSUME StacksOK, ActivationsOK, NEW ts, TasksOK(ts)
  PROVE  \A i \in DOMAIN Continue(ts) :
           /\ TasksOK(Continue(ts)[i].tasks)
           /\ i > 1 => Continue(ts)[i].call \in Nodes({"call"})
<1> DEFINE top == [call |-> ctl[Len(ctl)].call, tasks |-> ts]
<1>1. Len(ctl) \in Nat /\ DOMAIN ctl = 1 .. Len(ctl) /\ Len(ctl) > 0
  BY SeqShape DEF StacksOK
<1>2. DOMAIN Continue(ts) = DOMAIN ctl
  BY DEF Continue
<1>3. \A i \in DOMAIN ctl : Continue(ts)[i] = IF i = Len(ctl) THEN top ELSE ctl[i]
  BY DEF Continue
<1> QED BY <1>1, <1>2, <1>3 DEF ActivationsOK

LEMMA ControlKept ==
  ASSUME ControlOK, [Next]_vars
  PROVE  ControlOK'
<1> USE DEF ControlOK
<1>1. CASE UNCHANGED vars
  <2>1. prog' = prog /\ ctl' = ctl /\ exc' = exc /\ status' = status /\ fdecls' = fdecls
    BY <1>1 DEF vars, envVars
  <2>2. ActivationsOK'
    BY <2>1, SameTasks, SameShape DEF ActivationsOK
  <2>3. ExcFits(exc, Tasks)' /\ ExceptionsCaught' /\ ProgramOK'
    BY <2>1, SameShape DEF ExcFits, Tasks, ExceptionsCaught, ProgramOK
  <2>4. StacksOK'
    BY <1>1, StacksKept
  <2> QED BY <2>1, <2>2, <2>3, <2>4
<1>2. CASE Next
  <2>1. ControlStep
    BY <1>2, ControlSteps
  <2>2. prog' = prog /\ ProgramOK'
    BY <2>1 DEF ControlStep, ProgramOK
  <2>3. fdecls' \subseteq DOMAIN prog'.fn
    <3>1. CASE fdecls' = fdecls
      BY <2>2, <3>1
    <3>2. CASE VisitFunctionDecl
      <4>1. Head(Tasks) \in ProperTasks /\ Head(Tasks).do = "decl"
        BY <3>2, AtHand DEF VisitFunctionDecl, Ready
      <4>2. This \in DOMAIN prog.unit
        BY <4>1 DEF ProperTasks, This
      <4>3. UnitDecl.fdecl \in DOMAIN prog.fn
        <5>1. IsProgram(prog)
          BY ProgramsAssumption DEF ProgramOK
        <5> QED BY <3>2, <4>2, <5>1 DEF IsProgram, VisitFunctionDecl, UnitDecl
      <4> QED BY <3>2, <4>3, <2>2 DEF VisitFunctionDecl, fdecl
    <3> QED BY <1>2, <3>1, <3>2, SameProgram
  <2>4. StacksOK'
    BY <1>2, StacksKept
  <2>5. ExceptionsCaught'
    BY <2>1, <2>2, SameShape DEF ControlStep, ExceptionsCaught
  <2>6. Len(ctl) \in Nat /\ DOMAIN ctl = 1 .. Len(ctl) /\ Len(ctl) > 0 /\ IsSeq(ctl)
    BY SeqShape DEF StacksOK
  <2>7. CASE UNCHANGED ctl /\ ExcFits(exc', Tasks)
    <3>1. ActivationsOK'
      BY <2>2, <2>7, SameTasks, SameShape DEF ActivationsOK
    <3>2. ExcFits(exc, Tasks)'
      BY <2>2, <2>7, SameShape DEF ExcFits, Tasks
    <3> QED BY <2>2, <2>3, <2>4, <2>5, <3>1, <3>2
  <2>8. CASE \E ts : TasksOK(ts) /\ ctl' = Continue(ts) /\ ExcFits(exc', ts)
    <3>1. PICK ts : TasksOK(ts) /\ ctl' = Continue(ts) /\ ExcFits(exc', ts)
      BY <2>8
    <3>2. ActivationsOK'
      BY <2>2, <3>1, TopChanged, SameTasks, SameShape DEF ActivationsOK
    <3>3. Tasks' = ts
      <4>1. Len(ctl') = Len(ctl)
        BY <2>6, <3>1, TopReplaced DEF Continue
      <4>2. ctl'[Len(ctl)].tasks = ts
        BY <2>6, <3>1 DEF Continue
      <4> QED BY <4>1, <4>2 DEF Tasks
    <3>4. ExcFits(exc, Tasks)'
      BY <2>2, <3>1, <3>3, SameShape DEF ExcFits
    <3> QED BY <2>2, <2>3, <2>4, <2>5, <3>2, <3>4
  <2>9. CASE \E ts, body : \E n \in Nodes({"call"}) :
                /\ TasksOK(ts) /\ TasksOK(body)
                /\ ctl' = Append(Continue(ts), [call |-> n, tasks |-> body])
                /\ exc' = None
    <3>1. PICK ts, body : \E n \in Nodes({"call"}) :
                /\ TasksOK(ts) /\ TasksOK(body)
                /\ ctl' = Append(Continue(ts), [call |-> n, tasks |-> body])
                /\ exc' = None
      BY <2>9
    <3>2. PICK n \in Nodes({"call"}) :
                /\ TasksOK(ts) /\ TasksOK(body)
                /\ ctl' = Append(Continue(ts), [call |-> n, tasks |-> body])
                /\ exc' = None
      BY <3>1
    <3>3. IsSeq(Continue(ts)) /\ Len(Continue(ts)) = Len(ctl)
      BY <2>6, TopReplaced DEF Continue
    <3>4. /\ IsSeq(ctl') /\ Len(ctl') = Len(ctl) + 1
          /\ \A i \in 1 .. Len(ctl) : ctl'[i] = Continue(ts)[i]
          /\ ctl'[Len(ctl) + 1] = [call |-> n, tasks |-> body]
      BY <3>2, <3>3, Pushed
    <3>5. DOMAIN ctl' = 1 .. Len(ctl) + 1 /\ DOMAIN Continue(ts) = 1 .. Len(ctl)
      BY <3>3, <3>4, SeqShape
    <3>6. \A i \in DOMAIN ctl' : /\ TasksOK(ctl'[i].tasks)
                                 /\ i > 1 => ctl'[i].call \in Nodes({"call"})
      <4> SUFFICES ASSUME NEW i \in DOMAIN ctl'
                   PROVE  /\ TasksOK(ctl'[i].tasks)
                          /\ i > 1 => ctl'[i].call \in Nodes({"call"})
        OBVIOUS
      <4>1. CASE i \in 1 .. Len(ctl)
        BY <3>2, <3>4, <3>5, <4>1, TopChanged
      <4>2. CASE i = Len(ctl) + 1
        BY <3>2, <3>4, <4>2
      <4> QED BY <2>6, <3>5, <4>1, <4>2
    <3>7. ActivationsOK'
      BY <2>2, <3>6, SameTasks, SameShape DEF ActivationsOK
    <3>8. ExcFits(exc, Tasks)'
      BY <3>2 DEF ExcFits, None
    <3> QED BY <2>2, <2>3, <2>4, <2>5, <3>7, <3>8
  <2>10. CASE Len(ctl) > 1 /\ ctl' = Pop(ctl) /\ exc' = None
    <3>1. IsSeq(ctl') /\ Len(ctl') = Len(ctl) - 1 /\ \A i \in 1 .. Len(ctl) - 1 : ctl'[i] = ctl[i]
      BY <2>6, <2>10, Popped
    <3>2. \A i \in DOMAIN ctl' : i \in DOMAIN ctl /\ ctl'[i] = ctl[i]
      <4>1. DOMAIN ctl' = 1 .. Len(ctl) - 1
        BY <3>1, SeqShape
      <4> QED BY <2>6, <3>1, <4>1
    <3>3. ActivationsOK'
      BY <2>2, <3>2, SameTasks, SameShape DEF ActivationsOK
    <3>4. ExcFits(exc, Tasks)'
      BY <2>10 DEF ExcFits, None
    <3> QED BY <2>2, <2>3, <2>4, <2>5, <3>3, <3>4
  <2> QED BY <2>1, <2>7, <2>8, <2>9, <2>10 DEF ControlStep
<1> QED BY <1>1, <1>2

LEMMA InitControl == Init => ControlOK
<1> SUFFICES ASSUME Init PROVE ControlOK
  OBVIOUS
<1> DEFINE decls == [i \in 1 .. Len(prog.unit) |-> Task("decl", i)]
           last == <<Task("initGlobalVars", Null)>>
<1>1. ProgramOK /\ StacksOK
  BY InitStacks DEF Init, ProgramOK
<1>2. Len(prog.unit) \in Nat /\ DOMAIN prog.unit = 1 .. Len(prog.unit)
  <2>1. prog.unit \in Seq(Item)
    BY <1>1, ProgramsAssumption DEF ProgramOK, IsProgram
  <2> QED BY <2>1, LenProperties
<1>3. TasksOK(last) /\ ~ Tries(last)
  <2>1. last \in Seq(ProperTasks)
    <3>1. Task("initGlobalVars", Null) \in ProperTasks
      BY DEF Task, ProperTasks
    <3> QED BY <3>1
  <2>2. \A k \in DOMAIN last : last[k].do = "initGlobalVars"
    BY DEF Task
  <2> HIDE DEF last
  <2> QED BY <2>1, <2>2 DEF TasksOK, Nested, Inside, Tries
<1>4. decls \in Seq(ProperTasks)
  <2>1. \A i \in 1 .. Len(prog.unit) : Task("decl", i) \in ProperTasks
    BY <1>2 DEF Task, ProperTasks
  <2> QED BY <1>2, <2>1
<1>5. \A k \in DOMAIN decls : decls[k].do = "decl"
  BY DEF Task
<1>6. TasksOK(decls \o last) /\ ~ Tries(decls \o last)
  <2> HIDE DEF decls, last
  <2> QED BY <1>3, <1>4, <1>5, Prepended DEF Inside
<1>7. ctl = <<[call |-> Null, tasks |-> decls \o last]>> /\ exc = None /\ fdecls = {}
      /\ status = "running"
  BY DEF Init
<1> HIDE DEF decls, last
<1>8. Len(ctl) = 1 /\ DOMAIN ctl = {1} /\ ctl[1].tasks = decls \o last
  BY <1>7
<1>9. ActivationsOK
  <2>1. \A i \in DOMAIN ctl : i = 1 /\ ~ (i > 1)
    BY <1>8
  <2>2. TasksOK(ctl[1].tasks)
    BY <1>6, <1>8
  <2> HIDE <1>8
  <2> QED BY <2>1, <2>2 DEF ActivationsOK
<1>10. ExcFits(exc, Tasks) /\ ExceptionsCaught
  BY <1>7 DEF ExcFits, None, ExceptionsCaught
<1> QED BY <1>1, <1>7, <1>9, <1>10 DEF ControlOK

LEMMA ControlInvariance == Spec => []ControlOK
BY InitControl, ControlKept, PTL DEF Spec

\* Without a return in the body of a loop the walk never ends in "Unexpected
\* CtrlFlowException": Visit*'s catch blocks get what they expect, for every
\* program and however its loops and calls are nested.
THEOREM ExceptionsFindTheirCatch == Spec => []ExceptionsCaught
<1>1. ControlOK => ExceptionsCaught
  BY DEF ControlOK
<1> QED BY <1>1, ControlInvariance, PTL
=============================================================================
