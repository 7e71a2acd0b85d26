---------------------------- MODULE Interpreter ----------------------------
(***************************************************************************)
(* The InterpreterVisitor of ast-interpreter/ASTInterpreter.cpp: the       *)
(* recursive walk over the syntax tree that runs a program, calling the    *)
(* handlers of module Environment.                                         *)
(*                                                                         *)
(* The C++ call stack of the visitor is made explicit.  ctl has one        *)
(* activation for Init() and one for every VisitCallExpr in progress; its  *)
(* tasks are what the visitor functions of that activation have still to   *)
(* do, next one first.  A CtrlFlowException in flight is exc: while it is  *)
(* there tasks are dropped until a try block takes it.  The try blocks are *)
(* the "endbody" tasks of the loops and the end of an activation.          *)
(***************************************************************************)
EXTENDS Environment, AnySequence

VARIABLES
  ctl,     \* the activations: [call : node or Null, tasks : Seq(task)]
  exc,     \* the exception in flight, "none" without one
  status   \* "running", "done", or how the process died

vars == <<envVars, ctl, exc, status>>

None == "none"

Task(do, n) == [do |-> do, n |-> n]

Tasks == ctl[Len(ctl)].tasks

\* The tasks of the current activation become ts.
Continue(ts) ==
  [ctl EXCEPT ![Len(ctl)] = [call |-> ctl[Len(ctl)].call, tasks |-> ts]]

\* The first task is replaced by ts.
Expand(ts) == ctl' = Continue(ts \o Tail(Tasks))

Quiet == UNCHANGED <<exc, status>>

Visit(n) == IF n = Null THEN <<>> ELSE <<Task("visit", n)>>

\* VisitStmt: visit every child there is.
VisitStmt(n) ==
  LET visits[i \in 0 .. Len(N(n).kids)] ==
        IF i = 0 THEN <<>> ELSE visits[i - 1] \o Visit(Kid(n, i))
  IN  visits[Len(N(n).kids)]

-----------------------------------------------------------------------------
Init ==
  /\ prog \in Programs
  /\ taken = 0
  /\ mStack = <<StackFrame>>
  /\ mGlobal = Empty
  /\ mSpace = Empty
  /\ fdecls = {}
  /\ alloc = Empty
  /\ mem = Empty
  /\ out = <<>>
  /\ ctl = <<[call  |-> Null,
              tasks |-> [i \in 1 .. Len(prog.unit) |-> Task("decl", i)]
                          \o <<Task("initGlobalVars", Null)>>]>>
  /\ exc = None
  /\ status = "running"

\* The current activation is about to do something of this kind, to node This.
Ready(do) == status = "running" /\ exc = None /\ Tasks # <<>> /\ Head(Tasks).do = do

This == Head(Tasks).n

Visiting(kinds) == Ready("visit") /\ N(This).kind \in kinds

-----------------------------------------------------------------------------
(***************************************************************************)
(* Top-level declarations, then main.                                      *)
(***************************************************************************)
UnitDecl == prog.unit[This]

VisitFunctionDecl ==
  /\ Ready("decl") /\ "fdecl" \in DOMAIN UnitDecl
  /\ fdecl(UnitDecl.fdecl)
  /\ Expand(<<>>) /\ Quiet

VisitGlobalVarDecl ==
  /\ Ready("decl") /\ "vardecl" \in DOMAIN UnitDecl
  /\ Expand(Visit(UnitDecl.vardecl))
  /\ UNCHANGED envVars /\ Quiet

MainDefined == "main" \in fdecls /\ Fn("main").body # Null

EnterMain ==
  /\ Ready("initGlobalVars")
  /\ GlobalDecls \subseteq DOMAIN currentFrame.vars
  /\ MainDefined
  /\ initGlobalVars
  /\ Expand(VisitStmt(Fn("main").body)) /\ Quiet

-----------------------------------------------------------------------------
(***************************************************************************)
(* Expressions and declarations: the children, then the handler.           *)
(***************************************************************************)
VisitChildren ==
  /\ Visiting(LeafKinds \cup ExprKinds \cup {"return", "vardecl"})
  /\ Expand(VisitStmt(This) \o <<Task("handle", This)>>)
  /\ UNCHANGED envVars /\ Quiet

\* Compound and declaration statements, initialiser lists and the expressions
\* without a visitor of their own: only the children.
VisitGroup ==
  /\ Visiting(GroupKinds \cup {"declstmt"})
  /\ Expand(VisitStmt(This))
  /\ UNCHANGED envVars /\ Quiet

\* The handler of a node of this kind is due and gets through.
Due(kinds) ==
  /\ Ready("handle")
  /\ N(This).kind \in kinds
  /\ ~ Asserts(This)
  /\ ~ Undefined(This)

Advance == Expand(<<>>) /\ Quiet

HandleLiteral  == Due({"literal"}) /\ literal(This) /\ Advance
HandleParen    == Due({"paren"}) /\ paren(This) /\ Advance
HandleBinop    == Due({"binop", "assign"}) /\ binop(This) /\ Advance
HandleUnaryop  == Due({"unop", "incdec"}) /\ unaryop(This) /\ Advance
HandleDeclref  == Due({"declref"}) /\ declref(This) /\ Advance
HandleCast     == Due({"cast"}) /\ cast(This) /\ Advance
HandleArraysub == Due({"arraysub"}) /\ arraysub(This) /\ Advance
HandleSizeof   == Due({"sizeof"}) /\ ueott(This) /\ Advance
HandleVardecl  == Due({"vardecl"}) /\ vardecl(This) /\ Advance

HandleReturn ==
  /\ Due({"return"})
  /\ returnstmt(This)
  /\ Expand(<<>>)
  /\ exc' = "RETURN"
  /\ UNCHANGED status

-----------------------------------------------------------------------------
(***************************************************************************)
(* Calls.  A user function's body runs in an activation of its own, whose  *)
(* end is the catch of VisitCallExpr.                                      *)
(***************************************************************************)
HandleBuiltIn == Due({"call"}) /\ isBuiltIn(This) /\ callbuildin(This) /\ Advance

HandleCall ==
  /\ Due({"call"}) /\ ~ isBuiltIn(This)
  /\ call(This)
  /\ ctl' = Append(Continue(Tail(Tasks)),
                   [call |-> This, tasks |-> VisitStmt(Fn(N(This).decl).body)])
  /\ Quiet

\* Mutant: exit() is not reached when a return statement ends the body.
LeaveFunction_ReturnSkipsExit ==
  /\ status = "running"
  /\ Len(ctl) > 1 /\ Tasks = <<>>
  /\ exc \in {None, "RETURN"}
  /\ IF exc = None THEN exit(ctl[Len(ctl)].call) ELSE UNCHANGED envVars
  /\ ctl' = Pop(ctl)
  /\ exc' = None
  /\ UNCHANGED status

\* The body ended, or a return statement ended it.
LeaveFunction ==
  /\ status = "running"
  /\ Len(ctl) > 1 /\ Tasks = <<>>
  /\ exc \in {None, "RETURN"}
  /\ exit(ctl[Len(ctl)].call)
  /\ ctl' = Pop(ctl)
  /\ exc' = None
  /\ UNCHANGED status

\* Likewise main's; the consumer is destroyed and ~Heap() runs.
LeaveMain ==
  /\ status = "running"
  /\ Len(ctl) = 1 /\ Tasks = <<>>
  /\ exc \in {None, "RETURN"}
  /\ destroyHeap
  /\ exc' = None
  /\ status' = "done"
  /\ UNCHANGED ctl

-----------------------------------------------------------------------------
(***************************************************************************)
(* Selection.  A conditional expression binds the value of its branch.     *)
(***************************************************************************)
VisitCondition ==
  /\ Visiting({"if", "cond"})
  /\ Expand(Visit(Kid(This, 1)) \o <<Task("branch", This)>>)
  /\ UNCHANGED envVars /\ Quiet

getCondVal(n) == getStmtVal(n) # 0

\* The condition of a selection or of a while is the first child, of a for the
\* second.
Cond(n) == IF N(n).kind = "for" THEN Kid(n, 2) ELSE Kid(n, 1)

Testing(do) == Ready(do) /\ findStmt(Cond(This))

Chosen(n) == IF getCondVal(Cond(n)) THEN Kid(n, 2) ELSE Kid(n, 3)

TakeBranch ==
  /\ Testing("branch")
  /\ Expand(Visit(Chosen(This))
              \o (IF N(This).kind = "cond" THEN <<Task("bind", This)>> ELSE <<>>))
  /\ UNCHANGED envVars /\ Quiet

BindConditional ==
  /\ Ready("bind")
  /\ findStmt(Chosen(This))
  /\ bindStmtVal(This, getStmtVal(Chosen(This)))
  /\ Advance

-----------------------------------------------------------------------------
(***************************************************************************)
(* Loops.                                                                  *)
(***************************************************************************)
LoopBody(n) == IF N(n).kind = "for" THEN Kid(n, 4) ELSE Kid(n, 2)

\* Mutant: the body of a for is outside the try block.
TryBody_NoTry(n) ==
  Visit(LoopBody(n)) \o <<Task(IF N(n).kind = "for" THEN "loop" ELSE "endbody", n)>>

TryBody(n) == Visit(LoopBody(n)) \o <<Task("endbody", n)>>

\* Evaluate the condition and test it; a for without one goes on.
TestCond(n) ==
  IF Cond(n) = Null THEN TryBody(n) ELSE Visit(Cond(n)) \o <<Task("test", n)>>

VisitLoop ==
  /\ Visiting({"while", "for"})
  /\ IF N(This).kind = "for"
     THEN Expand(Visit(Kid(This, 1)) \o <<Task("loop", This)>>)
     ELSE Expand(TestCond(This))
  /\ UNCHANGED envVars /\ Quiet

ForHead ==
  /\ Ready("loop")
  /\ Expand(TestCond(This))
  /\ UNCHANGED envVars /\ Quiet

TestLoop ==
  /\ Testing("test")
  /\ Expand(IF getCondVal(Cond(This)) THEN TryBody(This) ELSE <<>>)
  /\ UNCHANGED envVars /\ Quiet

\* Mutant: a for does not increment.
EndBody_NoIncrement ==
  /\ Ready("endbody")
  /\ Expand(TestCond(This))
  /\ UNCHANGED envVars /\ Quiet

\* The body is done: a for increments and goes round, a while tests again.
EndBody ==
  /\ Ready("endbody")
  /\ IF N(This).kind = "for"
     THEN Expand(Visit(Kid(This, 3)) \o <<Task("loop", This)>>)
     ELSE Expand(TestCond(This))
  /\ UNCHANGED envVars /\ Quiet

-----------------------------------------------------------------------------
(***************************************************************************)
(* Exceptions.                                                             *)
(***************************************************************************)
Throw ==
  /\ Visiting({"break", "continue"})
  /\ exc' = IF N(This).kind = "break" THEN "BREAK" ELSE "CONTINUE"
  /\ Expand(<<>>)
  /\ UNCHANGED <<envVars, status>>

Thrown == status = "running" /\ exc # None

InTry == Tasks # <<>> /\ Head(Tasks).do = "endbody"

Unwind ==
  /\ Thrown
  /\ Tasks # <<>> /\ ~ InTry
  /\ Expand(<<>>)
  /\ UNCHANGED <<envVars, exc, status>>

\* Mutant: return leaves the loop only.
CatchInLoop_CatchesReturn ==
  /\ Thrown
  /\ InTry
  /\ ctl' = IF exc = "CONTINUE" THEN ctl ELSE Continue(Tail(Tasks))
  /\ exc' = None
  /\ UNCHANGED <<envVars, status>>

\* break leaves the loop; continue goes on after its body.
CatchInLoop ==
  /\ Thrown
  /\ InTry
  /\ exc \in {"BREAK", "CONTINUE"}
  /\ ctl' = IF exc = "BREAK" THEN Continue(Tail(Tasks)) ELSE ctl
  /\ exc' = None
  /\ UNCHANGED <<envVars, status>>

\* Any other exception that meets a try block is rethrown as a
\* std::logic_error that nobody catches.
LogicError ==
  /\ Thrown
  /\ Tasks = <<>> \/ InTry
  /\ exc \notin (IF InTry THEN {"BREAK", "CONTINUE"} ELSE {"RETURN"})
  /\ status' = "logic_error"
  /\ UNCHANGED <<envVars, ctl, exc>>

-----------------------------------------------------------------------------
(***************************************************************************)
(* The ways to die inside a handler: an assert() fails, or what the C++    *)
(* does is undefined (a null pointer it dereferences included).            *)
(***************************************************************************)
Fail(how) == status' = how /\ UNCHANGED <<envVars, ctl, exc>>

AssertFails ==
  /\ \/ Ready("handle") /\ Asserts(This)
     \/ Ready("branch") /\ ~ findStmt(Cond(This))
     \/ Ready("test") /\ ~ findStmt(Cond(This))
     \/ Ready("bind") /\ ~ findStmt(Chosen(This))
     \/ Ready("initGlobalVars") /\ ~ (GlobalDecls \subseteq DOMAIN currentFrame.vars)
  /\ Fail("assert")

MallocMayFail(n) == N(n).kind = "vardecl" /\ N(n).type = "array" /\ TRUE \in MayFail

UndefinedBehaviour ==
  /\ \/ /\ Ready("handle") /\ ~ Asserts(This)
        /\ Undefined(This) \/ MallocMayFail(This)
     \/ /\ Ready("initGlobalVars") /\ ~ MainDefined
        /\ GlobalDecls \subseteq DOMAIN currentFrame.vars
  /\ Fail("undefined")

Next ==
  \/ VisitFunctionDecl \/ VisitGlobalVarDecl \/ EnterMain
  \/ VisitChildren \/ VisitGroup
  \/ HandleLiteral \/ HandleParen \/ HandleBinop \/ HandleUnaryop \/ HandleDeclref
  \/ HandleCast \/ HandleArraysub \/ HandleSizeof \/ HandleVardecl \/ HandleReturn
  \/ HandleBuiltIn \/ HandleCall \/ LeaveFunction \/ LeaveMain
  \/ VisitCondition \/ TakeBranch \/ BindConditional
  \/ VisitLoop \/ ForHead \/ TestLoop \/ EndBody
  \/ Throw \/ Unwind \/ CatchInLoop \/ LogicError
  \/ AssertFails \/ UndefinedBehaviour

Spec == Init /\ [][Next]_vars

\* One sequential process: as long as it can go on, it does.
FairSpec == Spec /\ WF_vars(Next)

-----------------------------------------------------------------------------
(***************************************************************************)
(* Properties.                                                             *)
(***************************************************************************)
NodeNo == DOMAIN prog.node

\* m binds some of K to numbers.
Binds(m, K) == DOMAIN m \subseteq K /\ \A k \in DOMAIN m : m[k] \in Int

Doings == {"decl", "initGlobalVars", "visit", "handle", "branch", "bind", "loop",
           "test", "endbody"}

\* Every variable has its type: frames and globals bind what exists to
\* numbers, only nodes in memory have an address, the heap and the allocator
\* know of the same kind of chunks and every byte is a byte.
TypeOK ==
  /\ IsSeq(mStack) /\ IsSeq(ctl)
  /\ \A i \in DOMAIN mStack :
       /\ Binds(mStack[i].vars, Decl)
       /\ Binds(mStack[i].exprs, NodeNo)
       /\ Binds(mStack[i].ptrs, DOMAIN mStack[i].exprs)
       /\ \A n \in DOMAIN mStack[i].ptrs : InMemory(n)
       /\ mStack[i].ret \in Int
  /\ Binds(mGlobal, Decl)
  /\ fdecls \subseteq Builtins \cup {"main"}
  /\ Binds(mSpace, Arena)
  /\ DOMAIN alloc \subseteq Arena /\ \A a \in DOMAIN alloc : alloc[a] \in Nat
  /\ Binds(mem, Nat) /\ \A x \in DOMAIN mem : mem[x] \in 0 .. ByteBase - 1
  /\ taken \in 0 .. Len(prog.stdin)
  /\ out \in Seq(Int)
  /\ \A i \in DOMAIN ctl : \A k \in DOMAIN ctl[i].tasks :
       /\ ctl[i].tasks[k].do \in Doings
       /\ ctl[i].tasks[k].n \in Nat
  /\ exc \in {None, "BREAK", "CONTINUE", "RETURN"}
  /\ status \in {"running", "done", "logic_error", "assert", "undefined"}

\* The environment's frames stay in step with the visitor's recursion: there
\* is one frame for main (or the globals) and one for every call in progress,
\* however the calls before it were left.
FramesMatchCalls ==
  /\ mStack # <<>>
  /\ Len(mStack) = Len(ctl)

\* Heap's map is exactly what the allocator has handed out and not had back,
\* so no space is freed twice or forgotten; live chunks do not touch, and the
\* bytes in memory are theirs; when the program is done nothing is left.
HeapAccounted ==
  /\ mSpace = alloc
  /\ \A a, b \in DOMAIN alloc : a < b => a + alloc[a] < b
  /\ DOMAIN mem = UNION {Chunk(a, alloc[a]) : a \in DOMAIN alloc}
  /\ status = "done" => DOMAIN alloc = {}

\* No step changes a frame below the top: a callee reaches its callers' and
\* its recursive siblings' variables and values only through the value it
\* returns.  (exit() binds that value in the frame that becomes the top.)
CallerFramesUntouched ==
  [][\A i \in DOMAIN mStack : i < Len(mStack') => mStack'[i] = mStack[i]]_vars

\* No exception but break and continue reaches a loop, and none but return the
\* end of a function: the "Unexpected CtrlFlowException" never happens.
NoUnexpectedException == status # "logic_error"

Children(n) == {Kid(n, i) : i \in DOMAIN N(n).kids} \ {Null}

\* What node n adds to the set inside of what stands in the body of a loop.
Enclosed(n, inside) ==
  IF n \in inside THEN Children(n)
  ELSE IF N(n).kind \in {"while", "for"} THEN {LoopBody(n)} ELSE {}

\* A parent comes before its children: one pass over the nodes finds them all.
InBodies[k \in 0 .. Len(prog.node)] ==
  IF k = 0 THEN {}
  ELSE LET inside == InBodies[k - 1] IN inside \cup Enclosed(k, inside)

InLoop == InBodies[Len(prog.node)]

\* break and continue stand in loops, which Clang sees to, and return does not.
Structured ==
  LET inside == InLoop
  IN  \A n \in NodeNo :
        /\ N(n).kind \in {"break", "continue"} => n \in inside
        /\ N(n).kind = "return" => n \notin inside

\* In a program without a return in a loop every exception finds the catch
\* meant for it, through any nesting of loops, calls and expressions: break and
\* continue never leave a function and return never meets a loop.
ExceptionsCaught == status = "logic_error" => ~ Structured

\* Visiting an expression of this kind and type binds a value to it.
HasValue(n) ==
  \/ N(n).kind \in {"literal", "paren", "binop", "assign", "unop", "incdec", "arraysub",
                   "sizeof", "cond"}
  \/ N(n).kind = "cast" /\ N(n).type \in ScalarTypes
  \/ N(n).kind = "declref" /\ N(n).type \in ScalarTypes \cup {"array"}
  \/ N(n).kind = "call" /\ N(n).decl \notin {"PRINT", "FREE"} /\ ~ Fn(N(n).decl).void

\* The children whose values count.
Uses(n) ==
  CASE N(n).kind = "if" -> {Cond(n)}
    [] N(n).kind = "cond" -> {Kid(n, i) : i \in 1 .. 3}
    [] N(n).kind \in {"while", "for"} -> {Cond(n)} \ {Null}
    [] OTHER -> Reads(n)

\* As Clang checks: where a value is wanted there is an expression that has one
\* (and it is not of an unsupported kind, which never binds any).
Typed == \A n \in NodeNo : Uses(n) \subseteq {s \in NodeNo : HasValue(s)}

\* The next thing to do asks the frame for a value it does not have.
AsksInVain ==
  \/ Ready("handle") /\ \/ \E s \in Reads(This) : ~ findStmt(s)
                        \/ Stores(This) /\ Kid(This, 1) \notin DOMAIN currentFrame.ptrs
  \/ Ready("branch") /\ ~ findStmt(Cond(This))
  \/ Ready("test") /\ ~ findStmt(Cond(This))
  \/ Ready("bind") /\ ~ findStmt(Chosen(This))

\* Evaluation comes before use.  Whatever loops, calls, exceptions and branches
\* lie between, the values a handler asks its frame for have been bound there:
\* getStmtVal's assert never fails, an assignment to memory finds the address
\* bound with its left side, and a conditional takes the value of the branch it
\* went into.
OperandsBound == AsksInVain => ~ Typed

\* A program that ends in C ends under the interpreter: every loop, call and
\* exception is eventually left.
Terminates == <>(status # "running")
=============================================================================
