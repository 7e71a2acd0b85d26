--------------------------- MODULE MCInterpreter ---------------------------
(***************************************************************************)
(* Programs for the interpreter, and what C says of them.                  *)
(***************************************************************************)
EXTENDS Interpreter, InterpreterTests

C == INSTANCE CReference

-----------------------------------------------------------------------------
(***************************************************************************)
(* Expressions: every operator on numbers read from the input.             *)
(***************************************************************************)
ReadAB == <<Decls(<<Var("int", "a"), Var("int", "b")>>), Set("a", Get), Set("b", Get)>>

OnAB(ss) == Source(<<>>, Main(ReadAB \o ss))

Shifts == {"<<", ">>"}

BinopPrograms  == {OnAB(<<Out(Bin(op, V("a"), V("b")))>>) :
                     op \in (ArithmeticOps \cup LogicalOps) \ Shifts}
AssignPrograms == {OnAB(<<Out(Cast("int", Asg(op, Ref("a", "int"), V("b")))), Out(V("a"))>>) :
                     op \in (ArithmeticOps \cup {"="}) \ Shifts}
ShiftPrograms  == {OnAB(<<Out(Bin(op, V("a"), V("b"))), Asg(op, Ref("a", "int"), V("b")),
                          Out(V("a"))>>) : op \in Shifts}
IncDecPrograms == {OnAB(<<Out(Bin("+", Inc(op, Ref("a", "int")), V("b"))), Out(V("a"))>>) :
                     op \in {"++x", "--x", "x++", "x--"}}
UnaryPrograms  == {OnAB(<<Out(Un(op, Paren(Bin("-", V("a"), V("b")))))>>) :
                     op \in {"-", "+", "~", "!"}}
OtherPrograms  ==
  {OnAB(<<Out(CondE(Bin("<", V("a"), V("b")), V("a"), Paren(Bin("*", V("b"), Lit(2))))),
          Out(Cast("int", Cast("char", SizeofT("int")))), Out(SizeofT("char")),
          Out(SizeofT("int*"))>>),
   OnAB(<<IfE(Bin(">", V("a"), V("b")), Out(V("a")), Out(V("b"))), Out(Get)>>),
   OnAB(<<Decls(<<Var("char", "c"), Arr("char", "h", 3), Arr("int", "k", 2)>>),
          Out(Bin("+", V("a"), Sizeof(Ref("a", "int")))), Out(Sizeof(Ref("c", "char"))),
          Out(SizeofArr("char", "h", 3)), Out(SizeofArr("int", "k", 2)),
          Out(Sizeof(Sub("char", A("h", "char*"), Lit(1)))),
          Out(Bin("*", Sizeof(Bin("-", V("a"), V("b"))), V("b")))>>)}

Pairs == {<<7, 3>>, <<-7, 2>>, <<6, -4>>, <<0, 5>>, <<2, 2>>}

-----------------------------------------------------------------------------
(***************************************************************************)
(* Control flow: a loop of each form whose body is any two statements out  *)
(* of printing, leaving or restarting the loop, choosing, an inner loop    *)
(* that is left or restarted itself.                                       *)
(***************************************************************************)

Inner(s) == For(Set("j", Lit(0)), Bin("<", V("j"), Lit(2)), Inc("x++", Ref("j", "int")),
                Do(<<If(Is("j", 1), s), Out(V("j"))>>))

InnerWhile(s) == Do(<<Set("j", Lit(2)),
                      While(Bin(">", V("j"), Lit(0)),
                            Do(<<Inc("--x", Ref("j", "int")), If(Is("j", 0), s),
                                 Out(Bin("+", V("j"), Lit(10)))>>))>>)

BodyStatements ==
  {Out(V("i")), If(Is("i", 2), Brk), If(Is("i", 1), Cont),
   IfE(Is("i", 1), Inner(Brk), Do(<<InnerWhile(Cont), Brk>>)), Inner(Cont)}

LoopPrograms ==
  LET vs == Decls(<<Var("int", "i"), Var("int", "j")>>)
      more == Bin("<", V("i"), Lit(3))
      up == Asg("+", Ref("i", "int"), Lit(1))
      after == Out(Bin("*", V("i"), Lit(7)))
  IN  UNION {{Source(<<>>, Main(<<vs, While(more, Do(<<up, s, t>>)), after>>)),
              Source(<<>>, Main(<<vs, For(Absent, more, up, Do(<<s, t>>)), after>>)),
              Source(<<>>, Main(<<vs, For(Absent, Absent, Absent,
                                          Do(<<up, s, If(Bin(">", V("i"), Lit(2)), Brk), t>>)),
                                  after>>))} :
             <<s, t>> \in BodyStatements \X BodyStatements}

-----------------------------------------------------------------------------
(***************************************************************************)
(* Calls: recursion, several returns, none at all, calls as arguments,     *)
(* variables of the same name in every frame, globals read.                *)
(***************************************************************************)

Fib == Def(<<"n">>, Do(<<If(Bin("<", V("n"), Lit(2)), Ret(V("n"))),
                         Ret(Bin("+", Call1("fib", Minus("n", 1)), Call1("fib", Minus("n", 2))))>>),
           FALSE)

\* Prints on the way down and on the way up, with a local of its own.
Down == Def(<<"n">>, Do(<<Decls(<<VarI("int", "k", Bin("*", V("n"), Lit(10)))>>),
                          IfE(Bin(">", V("n"), Lit(0)),
                              Do(<<Out(V("k")), CallE("down", "void", <<Minus("n", 1)>>)>>),
                              Out(V("g"))),
                          Out(Bin("+", V("k"), V("n")))>>), TRUE)

Even == Def(<<"n">>, Do(<<IfE(Is("n", 0), Ret(Lit(1)), Ret(Call1("odd", Minus("n", 1))))>>), FALSE)
Odd  == Def(<<"m">>, Do(<<If(Is("m", 0), Ret(Lit(0))), Ret(Call1("even", Minus("m", 1)))>>), FALSE)

\* A loop in the callee, a loop around the call, return after the loop.
Sum == Def(<<"n">>, Do(<<Decls(<<Var("int", "i"), Var("int", "s")>>),
                         While(Bin("<", V("i"), V("n")),
                               Do(<<Inc("x++", Ref("i", "int")), If(Is("i", 2), Cont),
                                    Asg("+", Ref("s", "int"), V("i"))>>)),
                         Ret(V("s"))>>), FALSE)

Sub2 == Def(<<"x", "y">>, Do(<<Ret(Bin("-", V("x"), V("y")))>>), FALSE)

With(main, fns) == [f \in DOMAIN main \cup DOMAIN fns |->
                      IF f \in DOMAIN main THEN main[f] ELSE fns[f]]

CallPrograms ==
  {Source(<<>>, With(Main(<<Out(Call1("fib", Lit(4)))>>), [fib |-> Fib])),
   Source(<<VarI("int", "g", Lit(42)), Arr("int", "h", 2)>>,
          With(Main(<<CallE("down", "void", <<Lit(2)>>),
                      Out(Cast("int", Sub("int", A("h", "int*"), Lit(1)))), Ret(Lit(0)), Out(Lit(9))>>),
               [down |-> Down])),
   Source(<<>>, With(Main(<<Out(Call1("even", Lit(3))), Out(Call1("odd", Lit(3)))>>),
                     [even |-> Even, odd |-> Odd])),
   Source(<<>>, With(Main(<<Decls(<<VarI("int", "i", Lit(0))>>),
                            For(Absent, Bin("<", V("i"), Lit(3)), Inc("++x", Ref("i", "int")),
                                Out(Bin("+", Call1("sum", V("i")), V("i"))))>>), [sum |-> Sum])),
   Source(<<>>, With(Main(<<Out(CallE("sub", "int",
                                      <<CallE("sub", "int", <<Lit(9), Lit(4)>>),
                                        CallE("sub", "int", <<Lit(5), Lit(2)>>)>>))>>),
                     [sub |-> Sub2])),
   Source(<<>>, With(Main(<<CallE("twice", "void", <<Lit(3)>>), Out(Lit(4))>>),
                     [once |-> Def(<<"n">>, Do(<<Out(V("n"))>>), TRUE),
                      twice |-> Def(<<"n">>, Do(<<CallE("once", "void", <<V("n")>>),
                                                  Ret(CallE("once", "void", <<V("n")>>)),
                                                  Out(Lit(5))>>), TRUE)]))}

-----------------------------------------------------------------------------
(***************************************************************************)
(* Memory: arrays, MALLOC and FREE, pointers to char, int and pointers.    *)
(***************************************************************************)

Swap == Def(<<"p", "q">>, Do(<<Decls(<<VarI("int", "t", Rd("int", Deref("int", Pi("p"))))>>),
                               Put(Deref("int", Pi("p")), Rd("int", Deref("int", Pi("q")))),
                               Put(Deref("int", Pi("q")), V("t"))>>), TRUE)

MemoryPrograms ==
  {\* fill an array in a loop, read it backward
   Source(<<>>, Main(<<Decls(<<Arr("int", "h", 3), Var("int", "i")>>),
     For(Set("i", Lit(0)), Bin("<", V("i"), Lit(3)), Inc("x++", Ref("i", "int")),
         Put(At(A("h", "int*"), V("i")), Bin("*", V("i"), V("i")))),
     While(V("i"), Do(<<Inc("x--", Ref("i", "int")), Out(Rd("int", At(A("h", "int*"), V("i"))))>>))>>)),
   \* two ints through pointers, swapped by a function, then freed
   Source(<<>>, With(Main(<<Decls(<<VarI("int*", "p", NewInts(1)), VarI("int*", "q", NewInts(1))>>),
     Put(Deref("int", Pi("p")), Lit(24)), Put(Deref("int", Pi("q")), Lit(-42)),
     CallE("swap", "void", <<Pi("p"), Pi("q")>>),
     Out(Rd("int", Deref("int", Pi("p")))), Out(Rd("int", Deref("int", Pi("q")))),
     Free(Pi("p")), Free(Pi("q"))>>), [swap |-> Swap])),
   \* walk a space with p++, pointer + number, number + pointer; leak it
   Source(<<>>, Main(<<Decls(<<VarI("int*", "p", NewInts(2)), VarI("int*", "q", Pi("p"))>>),
     Put(Deref("int", Inc("x++", Ref("p", "int*"))), Lit(300)),
     Put(Deref("int", Pi("p")), Lit(-1)),
     Out(Rd("int", Deref("int", Paren(Bin("+", Pi("q"), Lit(1)))))),
     Out(Rd("int", Deref("int", Paren(Bin("+", Lit(1), Pi("q")))))),
     Asg("-", Ref("p", "int*"), Lit(1)), Asg("*", Deref("int", Pi("p")), Lit(2)),
     Inc("++x", At(Pi("q"), Lit(1))), Out(Rd("int", At(Pi("q"), Lit(0)))),
     Out(Rd("int", At(Pi("q"), Lit(1)))), Out(Bin("==", Pi("p"), Pi("q")))>>)),
   \* chars, and a pointer kept in memory
   Source(<<>>, Main(<<Decls(<<Arr("char", "h", 2), VarI("int**", "r", New("int**", SizeofT("int**"))),
                               VarI("char", "c", Cast("char", Lit(65)))>>),
     Put(Sub("char", A("h", "char*"), Lit(1)), Cast("char", Bin("+", Vc("c"), Lit(1)))),
     Put(Sub("int*", P("r", "int**"), Lit(0)), NewInts(1)),
     Put(Deref("int", Rd("int*", Deref("int*", P("r", "int**")))), Lit(5)),
     Out(Rd("int", Sub("char", A("h", "char*"), Lit(1)))),
     Out(Rd("int", Sub("char", A("h", "char*"), Lit(0)))),
     Out(Rd("int", Deref("int", Rd("int*", Sub("int*", P("r", "int**"), Lit(0)))))),
     Free(Rd("int*", Deref("int*", P("r", "int**")))), Free(P("r", "int**"))>>)),
   \* an initialised char array, and one in a callee that runs twice
   Source(<<>>, With(Main(<<Decls(<<ArrI("char", "h", 3, <<Lit(7), Lit(8)>>)>>),
     Out(Rd("int", Sub("char", A("h", "char*"), Lit(1)))),
     Out(Bin("+", Call1("tab", Lit(1)), Call1("tab", Lit(0))))>>),
     [tab |-> Def(<<"n">>, Do(<<Decls(<<Arr("int", "k", 2)>>),
                                Inc("x++", At(A("k", "int*"), V("n"))),
                                Ret(Bin("+", Rd("int", At(A("k", "int*"), Lit(1))), Lit(10)))>>), FALSE)]))}

-----------------------------------------------------------------------------
\* What C says of a program on an input: does it end, and what does it print?
Says(src, in) ==
  LET s == C!RunC(src.globals, src.fn, in) IN [ends |-> s.sig # "error", out |-> s.out]

WithInput(srcs, ins) == {Compile(src, in, Says(src, in)) : src \in srcs, in \in ins}

\* The repository's test programs.  class20 is run with 2 for 5, so that there
\* are no more arrays than the arena has places; class21 with 7 for 9 and
\* self10 with 5 and 3 for 1081 and 1232, so that the reference's recursion
\* fits TLC's stack.
TestPrograms ==
  WithInput(Silent \cup {class20(2), class21(7), self10(5, 3)}, {<<>>})
    \cup WithInput(Reading, {<<4>>, <<1>>})

\* What the comments of test programs say that they print.
Commented ==
  {Compile(t[1], <<>>, [ends |-> TRUE, out |-> t[2]]) :
     t \in {<<class01, <<10>>>>, <<class02, <<20>>>>, <<class12, <<4>>>>, <<class15, <<-8>>>>,
            <<class18, <<10, 20>>>>, <<class19, <<10, 20>>>>, <<self08, <<10, 20>>>>}}

MCPrograms ==
  WithInput(BinopPrograms \cup AssignPrograms \cup IncDecPrograms \cup UnaryPrograms
              \cup OtherPrograms, Pairs)
    \cup WithInput(ShiftPrograms, {<<5, 2>>, <<12, 0>>, <<-6, 1>>})
    \cup WithInput(LoopPrograms \cup CallPrograms \cup MemoryPrograms, {<<>>})
    \cup TestPrograms \cup Commented

MCDecl == {"a", "b", "c", "d", "g", "h", "i", "j", "k", "m", "n", "p", "q", "r", "s", "t", "x", "y", "z",
           "pa", "pb", "temp", "arg"}
MCFnName == Builtins \cup {"main", "fib", "down", "even", "odd", "sum", "sub", "swap", "tab",
                         "once", "twice", "f", "x", "fibonacci", "print1", "print2", "dswap",
                         "add", "gcd"}

-----------------------------------------------------------------------------
(***************************************************************************)
(* A program runs as C says: it prints what C says, in that order, it does *)
(* not die, and when it stops it has printed everything.                   *)
(***************************************************************************)
RunsLikeC ==
  /\ prog.says.ends
  /\ IsPrefix(out, prog.says.out)
  /\ status = "done" => out = prog.says.out
  /\ status \in {"running", "done"}
=============================================================================
