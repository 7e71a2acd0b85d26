------------------------------ MODULE MCUseDef ------------------------------
(***************************************************************************)
(* The use-def pass against what its test programs say and against what    *)
(* the programs do: the pass runs on one of the modules, and when it has   *)
(* ended the module itself runs.                                           *)
(***************************************************************************)
EXTENDS FuncDefCollector, Execution, UseDefTests

-----------------------------------------------------------------------------
(***************************************************************************)
(* Programs that keep function pointers in memory.  s is a struct with     *)
(* function pointers at offsets 0 and 8, the first instruction of main.    *)
(***************************************************************************)
S == Reg("main", 1, 1)
R(i) == Reg("main", 1, i)
II == <<I, I>>

\* s.a = plus; s.b = minus; s.a(1, 2);
fields == Source(<<"main">>,
  [main |-> Straight(0, <<Alloca, Gep(S, 0), Store(Plus, R(2)), Gep(S, 8), Store(Minus, R(4)),
                          Gep(S, 0), Load(R(6)), Call(5, R(7), II), Ret(I)>>)],
  "main", {<<5, "plus">>})

\* s.a = plus; s.a = minus; s.a(1, 2);
overwritten == Source(<<"main">>,
  [main |-> Straight(0, <<Alloca, Gep(S, 0), Store(Plus, R(2)), Gep(S, 0), Store(Minus, R(4)),
                          Gep(S, 0), Load(R(6)), Call(5, R(7), II), Ret(I)>>)],
  "main", {<<5, "minus">>})

\* void set(struct S *p) { p->a = minus; }   s.a = plus; set(&s); s.a(1, 2);
setter == Source(<<"set", "main">>,
  [set |-> Straight(1, <<Gep(Arg("set", 0), 0), Store(Minus, Reg("set", 1, 1)), RetVoid>>),
   main |-> Straight(0, <<Alloca, Gep(S, 0), Store(Plus, R(2)), Call(5, Fn("set"), <<S>>),
                          Gep(S, 0), Load(R(5)), Call(6, R(6), II), Ret(I)>>)],
  "main", {<<5, "set">>, <<6, "minus">>})

\* static int run(struct S *p) { return p->b(1, 2); }   s.a = plus; s.b = minus; run(&s);
\* A static function enters the module when it is first used.
runner == Source(<<"main", "run">>,
  [run |-> Straight(1, <<Gep(Arg("run", 0), 8), Load(Reg("run", 1, 1)),
                         Call(2, Reg("run", 1, 2), II), Ret(Reg("run", 1, 3))>>),
   main |-> Straight(0, <<Alloca, Gep(S, 0), Store(Plus, R(2)), Gep(S, 8), Store(Minus, R(4)),
                          Call(6, Fn("run"), <<S>>), Ret(I)>>)],
  "main", {<<2, "minus">>, <<6, "run">>})

\* if (c) s.a = plus; else s.a = minus;  s.a(1, 2);
branches == Source(<<"main">>,
  [main |-> Func(0,
     <<Block(<<Alloca>>, {2, 3}),
       Block(<<Gep(S, 0), Store(Plus, Reg("main", 2, 1))>>, {4}),
       Block(<<Gep(S, 0), Store(Minus, Reg("main", 3, 1))>>, {4}),
       Block(<<Gep(S, 0), Load(Reg("main", 4, 1)), Call(5, Reg("main", 4, 2), II),
               Ret(I)>>, {})>>)],
  "main", {<<5, "plus">>, <<5, "minus">>})

\* A struct within one: s.t.b = plus; s.t.a = minus; s.t.b(1, 2);
nested == Source(<<"main">>,
  [main |-> Straight(0, <<Alloca, Gep(S, 8), Gep(R(2), 8), Store(Plus, R(3)),
                          Gep(S, 8), Gep(R(5), 0), Store(Minus, R(6)),
                          Gep(S, 8), Gep(R(8), 8), Load(R(9)), Call(5, R(10), II), Ret(I)>>)],
  "main", {<<5, "plus">>})

\* f = plus; log(&f); f(1, 2);
logged == Source(<<"main", "log">>,
  [log |-> Declared(1),
   main |-> Straight(0, <<Alloca, Store(Cast("plus"), S), Call(4, Fn("log"), <<S>>),
                          Load(S), Call(5, R(4), II), Ret(I)>>)],
  "main", {<<4, "log">>, <<5, "plus">>})

\* int once(fp k) { return k(1, 2); }   int twice(fp k) { return k(1, 2); }
\* f = once; do { if (c) f = twice; f(plus); } while (d);
choosing == Source(<<"once", "twice", "main">>,
  [once |-> Straight(1, <<Call(1, Arg("once", 0), II), Ret(I)>>),
   twice |-> Straight(1, <<Call(2, Arg("twice", 0), II), Ret(I)>>),
   main |-> Func(0,
     <<Block(<<>>, {2}),
       Block(<<Phi(<<Fn("once"), Reg("main", 4, 1)>>, <<1, 4>>)>>, {3, 4}),
       Block(<<>>, {4}),
       Block(<<Phi(<<Fn("twice"), Reg("main", 2, 1)>>, <<3, 2>>),
               Call(5, Reg("main", 4, 1), <<Plus>>)>>, {2, 5}),
       Block(<<Ret(I)>>, {})>>)],
  "main", {<<1, "plus">>, <<2, "plus">>, <<5, "once">>, <<5, "twice">>})

\* f = plus; g = minus; p = c ? &f : &g; (*p)(1, 2);
pointed == Source(<<"main">>,
  [main |-> Func(0,
     <<Block(<<Alloca, Alloca, Store(Plus, S), Store(Minus, R(2))>>, {2, 3}),
       Block(<<>>, {4}), Block(<<>>, {4}),
       Block(<<Phi(<<S, R(2)>>, <<2, 3>>), Load(Reg("main", 4, 1)),
               Call(5, Reg("main", 4, 2), II), Ret(I)>>, {})>>)],
  "main", {<<5, "plus">>, <<5, "minus">>})

\* f = plus; switch (c) { case 1: case 2: break; default: f = minus; }  f(1, 2);
\* The phi has two entries for the block of the switch.
switched == Source(<<"main">>,
  [main |-> Func(0,
     <<Block(<<>>, {2, 3}), Block(<<>>, {3}),
       Block(<<Phi(<<Plus, Plus, Minus>>, <<1, 1, 2>>), Call(5, Reg("main", 3, 1), II),
               Ret(I)>>, {})>>)],
  "main", {<<5, "plus">>, <<5, "minus">>})

\* s.a = plus; t.a = minus; s.a(1, 2);
separate == Source(<<"main">>,
  [main |-> Straight(0, <<Alloca, Alloca, Gep(S, 0), Store(Plus, R(3)),
                          Gep(R(2), 0), Store(Minus, R(5)),
                          Gep(S, 0), Load(R(7)), Call(5, R(8), II), Ret(I)>>)],
  "main", {<<5, "plus">>})

\* for (; c; plus(1, 2))   and on the next line   minus(1, 2);
\* The third part of the for is a block after the body's.
stepped == Source(<<"main">>,
  [main |-> Func(0,
     <<Block(<<>>, {2}), Block(<<>>, {3, 5}), Block(<<Call(6, Minus, II)>>, {4}),
       Block(<<Call(5, Plus, II)>>, {2}), Block(<<Ret(I)>>, {})>>)],
  "main", {<<5, "plus">>, <<6, "minus">>})

\* fp none(void) { return 0; }   f = none(); if (f) f(1, 2);
absent == Source(<<"none", "main">>,
  [none |-> Straight(0, <<Ret(Null)>>),
   main |-> Func(0, <<Block(<<Call(4, Fn("none"), <<>>)>>, {2, 3}),
                      Block(<<Call(5, R(1), II)>>, {3}), Block(<<Ret(I)>>, {})>>)],
  "main", {<<4, "none">>})

\* plus(1, minus(1, 2));
oneLine == Source(<<"main">>,
  [main |-> Straight(0, <<Call(5, Minus, II), Call(5, Plus, <<I, R(1)>>), Ret(I)>>)],
  "main", {<<5, "plus">>, <<5, "minus">>})

-----------------------------------------------------------------------------
(***************************************************************************)
(* Programs the pass does not survive.                                     *)
(***************************************************************************)
\* f = plus; g = minus; p = &f; do { q = c ? &g : p; (*q)(1, 2); p = q; } while (d);
cursor == Source(<<"main">>,
  [main |-> Func(0,
     <<Block(<<Alloca, Alloca, Store(Plus, S), Store(Minus, R(2))>>, {2}),
       Block(<<Phi(<<S, Reg("main", 4, 1)>>, <<1, 4>>)>>, {3, 4}),
       Block(<<>>, {4}),
       Block(<<Phi(<<R(2), Reg("main", 2, 1)>>, <<3, 2>>), Load(Reg("main", 4, 1)),
               Call(5, Reg("main", 4, 2), II)>>, {2, 5}),
       Block(<<Ret(I)>>, {})>>)],
  "main", {<<5, "plus">>, <<5, "minus">>})

\* int walk(struct S *p) { if (c) walk(p); return p->a(1, 2); }   s.a = plus; walk(&s);
walker == Source(<<"walk", "main">>,
  [walk |-> Func(1,
     <<Block(<<>>, {2, 3}), Block(<<Call(2, Fn("walk"), <<Arg("walk", 0)>>)>>, {3}),
       Block(<<Gep(Arg("walk", 0), 0), Load(Reg("walk", 3, 1)), Call(3, Reg("walk", 3, 2), II),
               Ret(Reg("walk", 3, 3))>>, {})>>),
   main |-> Straight(0, <<Alloca, Gep(S, 0), Store(Plus, R(2)), Call(6, Fn("walk"), <<S>>),
                          Ret(I)>>)],
  "main", {<<2, "walk">>, <<3, "plus">>, <<6, "walk">>})

\* int apply(int (*g)()) { return g(apply); }   int one(int (*h)()) { return 1; }   apply(one);
applied == Source(<<"one", "apply", "main">>,
  [one |-> Straight(1, <<Ret(I)>>),
   apply |-> Straight(1, <<Call(2, Arg("apply", 0), <<Fn("apply")>>), Ret(Reg("apply", 1, 1))>>),
   main |-> Straight(0, <<Call(6, Fn("apply"), <<Fn("one")>>), Ret(I)>>)],
  "main", {<<2, "one">>, <<6, "apply">>})

\* int use(fp (*get)(void)) { fp f = get(); return f(1, 2); }   use(external);
fetched == Source(<<"use", "main", "external">>,
  [external |-> Declared(0),
   use |-> Straight(1, <<Call(2, Arg("use", 0), <<>>), Call(3, Reg("use", 1, 1), II), Ret(I)>>),
   main |-> Straight(0, <<Call(6, Fn("use"), <<Fn("external")>>), Ret(I)>>)],
  "main", {<<2, "external">>, <<6, "use">>})

\* int cb(fp k) { return k(1, 2); }   int take(fp2 c, int a) { return c(plus); }
\* fp2 get(void) { return take; }     int use(fp3 g) { return g()(1, cb); } with cb second
shifted == Source(<<"cb", "take", "get", "use", "main">>,
  [cb   |-> Straight(1, <<Call(1, Arg("cb", 0), II), Ret(I)>>),
   take |-> Straight(2, <<Call(2, Arg("take", 1), <<Plus>>), Ret(I)>>),
   get  |-> Straight(0, <<Ret(Fn("take"))>>),
   use  |-> Straight(1, <<Call(4, Arg("use", 0), <<>>),
                          Call(5, Reg("use", 1, 1), <<I, Fn("cb")>>), Ret(I)>>),
   main |-> Straight(0, <<Call(6, Fn("use"), <<Fn("get")>>), Ret(I)>>)],
  "main", {<<1, "plus">>, <<2, "cb">>, <<4, "get">>, <<5, "take">>, <<6, "use">>})

\* int run(fp k) { return k(1, 2); }   int (*f)() = run; f();
short == Source(<<"run", "main">>,
  [run  |-> Straight(1, <<Call(1, Arg("run", 0), II), Ret(I)>>),
   main |-> Straight(0, <<Call(4, Fn("run"), <<>>), Ret(I)>>)],
  "main", {<<4, "run">>})

-----------------------------------------------------------------------------
(***************************************************************************)
(* Programs with a target the pass does not report.                        *)
(***************************************************************************)
\* f = plus; g = minus; do { f(1, 2); f = g; g = times; } while (d);
delayed == Source(<<"times", "main">>,
  [times |-> Leaf,
   main |-> Func(0,
     <<Block(<<>>, {2}),
       Block(<<Phi(<<Plus, Reg("main", 2, 2)>>, <<1, 2>>), Phi(<<Minus, Fn("times")>>, <<1, 2>>),
               Call(5, Reg("main", 2, 1), II)>>, {2, 3}),
       Block(<<Ret(I)>>, {})>>)],
  "main", {<<5, "plus">>, <<5, "minus">>, <<5, "times">>})

\* s.a = plus; do { s.a(1, 2); s.a = minus; } while (d);
later == Source(<<"main">>,
  [main |-> Func(0,
     <<Block(<<Alloca, Gep(S, 0), Store(Plus, R(2))>>, {2}),
       Block(<<Gep(S, 0), Load(Reg("main", 2, 1)), Call(5, Reg("main", 2, 2), II),
               Gep(S, 0), Store(Minus, Reg("main", 2, 4))>>, {2, 3}),
       Block(<<Ret(I)>>, {})>>)],
  "main", {<<5, "plus">>, <<5, "minus">>})

\* void set(fp *p) { *p = minus; }   f = plus; set(&f); f(1, 2);
through == Source(<<"set", "main">>,
  [set |-> Straight(1, <<Store(Minus, Arg("set", 0)), RetVoid>>),
   main |-> Straight(0, <<Alloca, Store(Plus, S), Call(4, Fn("set"), <<S>>),
                          Load(S), Call(5, R(4), II), Ret(I)>>)],
  "main", {<<4, "set">>, <<5, "minus">>})

\* fp f = plus;   f(1, 2);
initialised ==
  [Source(<<"main">>, [main |-> Straight(0, <<Load(Global("f")), Call(5, R(1), II), Ret(I)>>)],
          "main", {<<5, "plus">>})
   EXCEPT !.init = [f |-> Plus]]

-----------------------------------------------------------------------------
InMemory ==
  [fields |-> fields, overwritten |-> overwritten, setter |-> setter, runner |-> runner,
   branches |-> branches, nested |-> nested, logged |-> logged, choosing |-> choosing,
   pointed |-> pointed, switched |-> switched, separate |-> separate, stepped |-> stepped,
   absent |-> absent, oneLine |-> oneLine, cursor |-> cursor, walker |-> walker,
   applied |-> applied, fetched |-> fetched, shifted |-> shifted, short |-> short]

MCModules == Tests @@ InMemory

Missing == [delayed |-> delayed, later |-> later, through |-> through, initialised |-> initialised]

OneTest == [test17 |-> test17]

OneLine == [oneLine |-> oneLine]

-----------------------------------------------------------------------------
allVars == <<vars, xvars>>

Ended == Finished \/ status # "running"

Analyse == Next /\ UNCHANGED xvars

MCInit == Init /\ ExecInit(M)
MCNext == Analyse \/ (Ended /\ Execute(M) /\ UNCHANGED vars)

MCSpec == MCInit /\ [][MCNext]_allVars /\ WF_allVars(Analyse)

-----------------------------------------------------------------------------
Reported == UNION {{<<o.line, f>> : f \in o.names} : o \in ToSet(output)}

\* The pass prints every line and every function the comments of its test
\* programs list: traceValue follows phis, arguments and returned values to
\* all their sources (lines 151 to 204), getCallBases finds every call of a
\* function that is passed around as a pointer (lines 517 to 557).
TargetsFound == Finished => M.says \subseteq Reported

\* What f returns may be called on the line, or what that returns.
ResultCalled(line, f) ==
  \E c \in {d \in Calls(M) : Inst(M, d).n = line}, n \in 1 .. MaxDepth :
    <<Callee(M, c), Fn(f), n>> \in FlowOf[input].traces

\* And nothing else but functions whose result is what is called, which
\* end_trace reports on the way back from their return value (line 244):
\* pruning phis by selectedBlock (lines 154 to 161) and killing overwritten
\* stores (lines 342 to 353, 494 to 503) keep apart what cannot come together.
NothingSpurious ==
  Finished => \A <<line, f>> \in Reported \ M.says : ResultCalled(line, f)

\* Whatever the program calls when it runs, the pass has printed for that
\* line: what collect and its helpers (lines 56 to 77) are for.
Sound == Finished => taken \subseteq Reported

\* The pass prints the lines of the test's comment and no more.
AsCommented == Finished => Reported = M.says

\* Every line number is printed once, whatever is called on the line.
LinesUnique ==
  Finished => \A i, j \in DOMAIN output : output[i].line = output[j].line => i = j

-----------------------------------------------------------------------------
\* A phi that selects a load's address.
AddressPhis ==
  LET phis == {u \in Insts(M) : Inst(M, u).op = "phi"}
      Into[n \in Nat] ==
        IF n = 0 THEN {u \in phis : UsersOf(M, u, "load") # {}}
        ELSE Into[n - 1] \cup (phis \cap UNION {ToSet(Inst(M, u).args) : u \in Into[n - 1]})
  IN  Into[Cardinality(phis)]

\* The three ways round without a visited set: among addresses' phis, along a
\* parameter passed on to the same function, and through a parameter that is
\* called with the function itself.
Cyclic ==
  \/ \E u, v \in AddressPhis : v \in ToSet(Inst(M, u).args) /\ u \in ToSet(Inst(M, v).args)
  \/ \E c \in Calls(M) :
       \/ \E i \in DOMAIN Inst(M, c).args \ {1} :
            /\ Callee(M, c) = Fn(c[2]) /\ Inst(M, c).args[i] = Arg(c[2], i - 2)
       \/ Callee(M, c)[1] = "arg" /\ Fn(c[2]) \in ToSet(Inst(M, c).args)

CalledBy(c) == {f \in DOMAIN M.fn : <<Inst(M, c).n, f>> \in M.says}

\* An indirect call gives a function that is called with another one as
\* argument, or its value is used but comes from a function without a body.
Opaque ==
  \E c \in {d \in Calls(M) : Callee(M, d)[1] # "fn"} :
    \/ \E d \in UsersOf(M, c, "call") : \E a \in ToSet(Inst(M, d).args) : a[1] = "fn"
    \/ Users(M, c) # {} /\ \E f \in CalledBy(c) : M.fn[f].blocks = <<>>

\* Every call has as many arguments as the functions it calls have parameters.
Regular ==
  \A c \in Calls(M) : \A f \in CalledBy(c) :
    M.fn[f].arity = Len(Inst(M, c).args) - 1

\* The analysis of a regular program ends with every call dealt with, although
\* values flow in circles: visitedSet (lines 113 to 119) and getCallBases'
\* visited (lines 519 to 521) stop it, except round the three cycles that
\* have no such set (lines 363 to 381, 431 to 456, 534); and no getArg or
\* getReturnInst (lines 537, 566) goes wrong, except after indirect calls that
\* return functions.
Terminates == (Regular /\ ~Cyclic /\ ~Opaque) ~> Finished
=============================================================================
