------------------------------ MODULE MCFaults ------------------------------
(***************************************************************************)
(* Programs that do what C forbids, that the interpreter does not support, *)
(* or whose allocations may fail; and the programs it gets wrong.          *)
(***************************************************************************)
EXTENDS MCInterpreter

\* Prints 1, does something and prints 2.
Around(ss) == Source(<<>>, Main(<<Out(Lit(1))>> \o ss \o <<Out(Lit(2))>>))

-----------------------------------------------------------------------------
(***************************************************************************)
(* Errors in C: a zero divisor, a space freed twice or not at its start,   *)
(* an access outside an object or after its release, a shift by too much.  *)
(***************************************************************************)
DeclP == Decls(<<VarI("int*", "p", NewInts(2)), Arr("int", "h", 2), Var("int", "a")>>)

Next1(p) == Paren(Bin("+", p, Lit(1)))

Errors ==
  {<<Out(Bin(op, Lit(1), V("a")))>> : op \in {"/", "%"}}
    \cup {<<Set("a", Lit(5)), Asg("/", Ref("a", "int"), Bin("-", V("a"), V("a")))>>}
    \cup {<<Out(Bin("<<", Lit(1), Lit(16)))>>, <<Asg(">>", Ref("a", "int"), Un("-", Lit(1)))>>}
    \cup {<<Free(Pi("p")), Free(Pi("p"))>>, <<Free(Next1(Pi("p")))>>,
          <<If(Pi("p"), Free(Pi("p"))), Put(Deref("int", Pi("p")), Lit(7))>>,
          <<Free(Pi("p")), Out(Rd("int", At(Pi("p"), Lit(1))))>>}
    \cup {<<Put(At(a, i), Lit(7))>> : a \in {A("h", "int*"), Pi("p")},
                                      i \in {Lit(2), Un("-", Lit(1))}}
    \cup {<<Out(Rd("int", Deref("int", Bin("+", A("h", "int*"), Lit(2)))))>>}
    \cup {<<Inc("x++", Deref("int", Next1(Next1(A("h", "int*")))))>>}

ErrorPrograms == WithInput({Around(<<DeclP>> \o ss) : ss \in Errors}, {<<>>})

-----------------------------------------------------------------------------
(***************************************************************************)
(* Right in C (or C++, which the tool parses its input as), but not        *)
(* supported: the interpreter stops there, or nothing is lost.             *)
(***************************************************************************)
Lost(ss)  == Compile(Around(ss), <<>>, [ends |-> TRUE, out |-> <<1, 2>>])

NoValue == Def(<<>>, Do(<<RetVoid>>), TRUE)

Unsupported ==
  {Lost(ss) : ss \in {
     \* a literal without a visitor where its value is needed
     <<Decls(<<VarI("char*", "p", Cast("char*", StringLit))>>)>>,
     <<IfE(TrueLit, Do(<<>>), Do(<<>>))>>, <<While(TrueLit, Brk)>>,
     \* an operator without a case: its value is 0
     <<Bin(",", Lit(3), Lit(4))>>, <<Decls(<<Var("int", "a")>>), Un("&", Ref("a", "int"))>>,
     \* assignments to (a) are dropped, to ++a refused
     <<Decls(<<Var("int", "a")>>), Set("a", Lit(5)), Put(Paren(Ref("a", "int")), Lit(5))>>,
     <<Decls(<<Var("int", "a")>>), Put(Inc("++x", Ref("a", "int")), Lit(5))>>,
     \* the second operand of && and || although the first decides: it fails
     <<Decls(<<Var("int", "a")>>), If(Bin("&&", V("a"), Bin("/", Lit(1), V("a"))), Out(Lit(9)))>>,
     <<Decls(<<Var("int", "a")>>), If(Bin("||", Un("!", V("a")), Bin("%", Lit(1), V("a"))), Do(<<>>))>>,
     <<Decls(<<Var("int*", "p")>>),
       If(Bin("&&", Bin("!=", Pi("p"), Lit(0)), Rd("int", At(Pi("p"), Lit(0)))), Out(Lit(9)))>>,
     \* the operand of sizeof, which fails
     <<Decls(<<Var("int", "a")>>), If(Sizeof(Bin("/", Lit(1), V("a"))), Do(<<>>))>>,
     <<Decls(<<Var("int*", "p")>>), If(Sizeof(Deref("int", Pi("p"))), Do(<<>>))>>,
     \* a local variable and a cast of another type
     <<Decls(<<Var("none", "a")>>)>>,
     <<Cast("void", Lit(3))>>,
     \* an array initialised by something else than a list
     <<Decls(<<T("vardecl", "char", "array", "h", 2, <<StringLit>>)>>)>>}}
  \cup {Compile(src, <<>>, [ends |-> TRUE, out |-> <<1, 2>>]) : src \in {
     \* return; and a function that is only declared
     Source(<<>>, With(Main(<<Out(Lit(1)), CallE("once", "void", <<>>), Out(Lit(2))>>),
                       [once |-> NoValue])),
     Source(<<>>, With(Main(<<Out(Lit(1)), Out(CallE("sum", "int", <<Lit(1)>>))>>),
                       [sum |-> Extern(<<"n">>, FALSE)])),
     \* both branches of a conditional are calls of void functions
     Source(<<>>, Main(<<CondE(Lit(1), Out(Lit(1)), Out(Lit(2))), Out(Lit(2))>>)),
     \* a global of another type; no main
     Source(<<Var("none", "g")>>, Main(<<Out(Lit(1)), Out(Lit(2))>>)),
     Source(<<Var("int", "g")>>, [once |-> NoValue]),
     Source(<<>>, [main |-> Extern(<<>>, FALSE)])}}

-----------------------------------------------------------------------------
(***************************************************************************)
(* Allocation: what a program prints when MALLOC may return nullptr.       *)
(***************************************************************************)
Checked(last) ==
  Source(<<>>, Main(<<Out(Lit(1)), Decls(<<VarI("int*", "p", NewInts(2)), VarI("int*", "q", NewInts(3))>>),
    If(Bin("!=", Pi("p"), Lit(0)), Do(<<Put(At(Pi("p"), Lit(1)), Lit(2))>>)),
    If(Bin("!=", Pi("q"), Lit(0)), Do(<<Put(At(Pi("q"), Lit(2)), Lit(3))>> \o last)),
    If(Bin("!=", Pi("p"), Lit(0)), Do(<<Out(Rd("int", At(Pi("p"), Lit(1)))), Free(Pi("p"))>>))>>))

\* Five spaces for three places; an array for none; a negative size.
Greedy == Source(<<>>, Main(<<Decls(<<Var("int", "i"), Var("int*", "p")>>), Out(Lit(1)),
    For(Absent, Bin("<", V("i"), Lit(5)), Inc("++x", Ref("i", "int")),
        Do(<<Asg("=", Ref("p", "int*"), NewInts(1)),
             IfE(Pi("p"), Put(At(Pi("p"), Lit(0)), V("i")), Brk)>>)),
    Decls(<<Arr("char", "h", 90)>>), Out(Lit(2))>>))

Negative == Around(<<Decls(<<VarI("int*", "p", New("int*", Un("-", Lit(4))))>>),
                     If(Pi("p"), Out(Lit(9)))>>)

Allocating ==
  {Compile(src, <<>>, [ends |-> TRUE, out |-> <<1, 2>>]) :
     src \in {Checked(<<Free(Pi("q"))>>), Checked(<<>>), Greedy, Negative}}

-----------------------------------------------------------------------------
\* return in the body of a loop, of each kind and depth, and of a callee.
Early(loop) == Def(<<"n">>, Do(<<Decls(<<Var("int", "i")>>), loop, Ret(Lit(7))>>), FALSE)

Forever(s) == For(Absent, Absent, Absent, s)

ReturnInLoop ==
  WithInput({Source(<<>>, With(Main(<<Out(Lit(1)), Out(Call1("sum", Lit(3)))>>), [sum |-> Early(l)])) :
    l \in {While(V("n"), Ret(V("i"))), Forever(Do(<<If(Is("n", 3), Ret(V("n"))), Brk>>)),
           While(V("n"), Forever(Ret(Call1("sum", Lit(0)))))}}, {<<>>})

MCFaultPrograms == ErrorPrograms \cup Unsupported \cup Allocating \cup ReturnInLoop

\* A function assigns a global, main reads it.
GlobalPrograms ==
  WithInput({Source(<<VarI("int", "g", Lit(1))>>,
                    With(Main(<<CallE("once", "void", <<>>), Out(V("g"))>>),
                         [once |-> Def(<<>>, Do(<<Set("g", Lit(5))>>), TRUE)]))}, {<<>>})

\* int h[8] = {7, 8}; PRINT(h[0]); PRINT(h[1]);
ArrayPrograms ==
  WithInput({Source(<<>>, Main(<<Decls(<<ArrI("int", "h", 8, <<Lit(7), Lit(8)>>)>>),
                                 Out(Rd("int", At(A("h", "int*"), Lit(0)))),
                                 Out(Rd("int", At(A("h", "int*"), Lit(1))))>>))}, {<<>>})

-----------------------------------------------------------------------------
(***************************************************************************)
(* Whatever happens to a program, what it has printed is right: a prefix   *)
(* of what C says, up to the error for a program that errs; and one that   *)
(* errs never comes to its end as if nothing had happened.                 *)
(***************************************************************************)
NeverWrong ==
  /\ IsPrefix(out, prog.says.out)
  /\ status = "done" => prog.says.ends
=============================================================================
