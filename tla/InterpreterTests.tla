--------------------------- MODULE InterpreterTests ---------------------------
(***************************************************************************)
(* The interpreter's test programs, ast-interpreter/testcases, as terms:   *)
(* class/ex.c and class/testNN.c are ex and classNN, self/testNN.c is      *)
(* selfNN.  Two variables of one name in nested scopes get two names here, *)
(* as they are two declarations for Clang.  self/ast-test.c, which starts  *)
(* with an endless loop, is a test of the parser only.                     *)
(***************************************************************************)
EXTENDS CTerms

\* int main() { ss }, with other functions fns and globals.
LOCAL Alone(ss)            == Source(<<>>, Main(ss))
LOCAL Together(gs, fns, ss) ==
  Source(gs, [f \in DOMAIN fns \cup {"main"} |-> IF f = "main" THEN Main(ss).main ELSE fns[f]])

LOCAL NewV(d)    == Decls(<<Var("int", d)>>)
LOCAL NewI(d, e) == Decls(<<VarI("int", d, e)>>)
LOCAL Add(d, k)  == Bin("+", V(d), Lit(k))
LOCAL Grow(d, k) == Set(d, Add(d, k))
LOCAL Lt(d, k)   == Bin("<", V(d), Lit(k))
LOCAL Gt(d, k)   == Bin(">", V(d), Lit(k))
LOCAL Neg(e)     == Un("-", e)
LOCAL UpTo(d, k, s) == For(Set(d, Lit(0)), Lt(d, k), Grow(d, 1), s)
LOCAL Star(p)    == Deref("int", Pi(p))
LOCAL Elem(h, e) == At(A(h, "int*"), e)
LOCAL Pc(d)      == P(d, "char*")
LOCAL StarC(d)   == Deref("char", Pc(d))
LOCAL OutC(d)    == Out(Cast("int", Rd("char", StarC(d))))

-----------------------------------------------------------------------------
(***************************************************************************)
(* Input, arithmetic, selection and loops.                                 *)
(***************************************************************************)
ex == Alone(<<NewV("a"), Set("a", Get), Out(V("a"))>>)

class00 == Alone(<<NewV("a"), Set("a", Lit(100)), Out(V("a"))>>)

class03 == Alone(<<NewV("a"), NewI("b", Lit(10)), Set("a", Lit(10)),
  IfE(Is("a", 10), Do(<<Set("b", Lit(20))>>), Do(<<Set("b", Lit(0))>>)),
  Out(Bin("*", V("a"), V("b")))>>)

class04 == Alone(<<NewV("a"), NewI("b", Lit(10)), Set("a", Neg(Lit(10))),
  IfE(Gt("a", 0), Do(<<Set("b", V("a"))>>), Do(<<Set("b", Neg(V("a")))>>)), Out(V("b"))>>)

class05 == Alone(<<NewV("a"), NewI("b", Lit(0)), Set("a", Lit(10)),
  While(Bin("<", V("b"), V("a")), Do(<<Grow("b", 1)>>)), Out(V("b"))>>)

class06 == Alone(<<NewI("a", Lit(0)), NewI("b", Lit(0)),
  While(Lt("a", 10), Do(<<Grow("a", 1), Grow("b", 2)>>)), Out(V("b"))>>)

class07 == Alone(<<NewI("a", Lit(0)), UpTo("a", 10, Do(<<>>)), Out(V("a"))>>)

class08 == Alone(<<NewV("a"), NewV("b"), Set("a", Lit(0)),
  While(Lt("a", 10), Do(<<Grow("a", 1)>>)),
  IfE(Gt("a", 10), Set("b", Lit(10)), Set("b", Lit(20))), Out(V("b"))>>)

class09 == Alone(<<NewI("a", Lit(0)), NewI("b", Lit(0)), Set("a", Lit(0)),
  UpTo("a", 10, Do(<<Grow("b", 2)>>)), Out(V("b"))>>)

class10 == Alone(<<NewI("a", Lit(0)), NewI("b", Lit(0)),
  While(Lt("a", 10), Do(<<Grow("a", 1), If(Gt("a", 5), Grow("b", 1))>>)), Out(V("b"))>>)

class11 == Alone(<<Decls(<<Var("int", "a"), Var("int", "b"), Var("int", "c")>>),
  Set("a", Lit(0)), Set("c", Lit(0)),
  While(Lt("a", 10),
        Do(<<Grow("a", 1), Set("b", Lit(0)),
             While(Lt("b", 10), Do(<<Grow("b", 1), Grow("c", 1)>>))>>)), Out(V("c"))>>)

self00 == Together(<<VarI("int", "a", Lit(10))>>, <<>>, <<Out(V("a")), Set("a", Get), Out(V("a"))>>)

\* The local a is k here.
self01 == Together(
  <<VarI("int", "a", Bin("-", Lit(10), Bin("*", Lit(13), Lit(2)))), VarI("int", "b", Lit(3))>>, <<>>,
  <<Out(V("a")), NewI("k", Bin("*", Paren(Bin("+", Lit(3), Lit(4))), V("b"))), Out(V("k")),
    Set("k", Get), Out(V("k"))>>)

self02 == Together(
  <<VarI("int", "a", Bin("+", Lit(10), Bin("*", Lit(13), Lit(2)))), Var("int", "b")>>, <<>>,
  <<Decls(<<VarI("int", "c", Bin("%", Lit(4), Lit(6))), VarI("int", "d", Lit(8))>>), Set("b", Get),
    Out(Bin("-", Bin("+", V("a"), V("b")), Bin("*", V("c"), V("d"))))>>)

\* The local a is k here.
self03 == Together(<<VarI("int", "a", Bin("+", Lit(10), Bin("*", Lit(13), Lit(2))))>>, <<>>,
  <<NewI("b", Get), NewI("k", CondE(Gt("b", 2), Neg(Lit(1)), Lit(1))), Out(V("k"))>>)

self04 == Alone(<<NewV("a"), Decls(<<VarI("int", "b", Lit(10)), VarI("int", "c", Get)>>),
  Set("a", Lit(10)),
  IfE(Bin("!=", V("a"), Lit(10)), Do(<<Set("b", Lit(20))>>),
      IfE(Gt("c", 1), Do(<<Set("b", Lit(0))>>),
          Do(<<Set("b", Neg(Paren(Bin("*", Lit(1), Lit(2)))))>>))),
  Out(Bin("*", V("a"), V("b")))>>)

self05 == Together(<<VarI("int", "a", Lit(1)), Var("int", "b")>>, <<>>,
  <<Set("b", Get), Out(Bin("+", Cast("int", Inc("++x", Ref("a", "int"))), Inc("x++", Ref("b", "int")))),
    Out(Bin("+", Inc("x--", Ref("a", "int")), Cast("int", Inc("--x", Ref("b", "int"))))),
    Out(V("a")), Out(V("b"))>>)

\* The loop's a is k here.
self06 == Alone(<<NewI("a", Neg(Lit(100))),
  For(NewI("k", Lit(0)), Lt("k", 10), Asg("+", Ref("k", "int"), Lit(1)),
      Do(<<Out(Cast("int", Inc("++x", Ref("k", "int"))))>>)), Out(V("a"))>>)

self07 == Alone(<<Out(SizeofT("int")), Out(SizeofT("int*")), Out(SizeofT("char")),
                 Out(Sizeof(Bin("*", Lit(123), Lit(123))))>>)

self09 == Alone(<<NewI("a", Lit(0)),
  For(NewI("i", Lit(0)), Absent, Inc("++x", Ref("i", "int")),
      Do(<<Out(V("i")), If(Bin(">=", V("a"), Lit(100)), Brk), Asg("+", Ref("a", "int"), V("i")),
           IfE(Bin("%", V("i"), Lit(3)), Do(<<Out(Bin("^", V("i"), V("a")))>>), Cont),
           Out(V("a"))>>)),
  Out(V("a")), Ret(Lit(0))>>)

-----------------------------------------------------------------------------
(***************************************************************************)
(* Functions.                                                              *)
(***************************************************************************)
class01 == Together(<<VarI("int", "b", Lit(10))>>,
  [f |-> Def(<<"x">>, Do(<<IfE(Gt("x", 0), Ret(Bin("+", Lit(5), Call1("f", Minus("x", 5)))),
                               Ret(Lit(0)))>>), FALSE)],
  <<Out(Call1("f", V("b")))>>)

class02 == Together(<<VarI("int", "b", Lit(10))>>,
  [f |-> Def(<<"x", "y">>,
             Do(<<IfE(Gt("y", 0),
                      Ret(Bin("+", V("x"), CallE("f", "int", <<V("x"), Minus("y", 1)>>))),
                      Ret(Lit(0)))>>), FALSE)],
  <<NewI("a", Lit(2)), Out(CallE("f", "int", <<V("b"), V("a")>>))>>)

\* The global b is g here.
class13 == Together(<<Var("int", "g")>>, [f |-> Def(<<"x">>, Do(<<Ret(Add("x", 10))>>), FALSE)],
  <<NewV("a"), NewV("b"), Set("a", Neg(Lit(10))),
    IfE(Gt("a", 0), Set("b", Call1("f", V("a"))), Set("b", Call1("f", Neg(V("a"))))), Out(V("b"))>>)

class14 == Together(<<>>,
  [f |-> Def(<<"x">>, Do(<<NewI("i", Lit(0)), While(Bin("<", V("i"), V("x")), Do(<<Grow("i", 2)>>)),
                           Ret(Add("i", 10))>>), FALSE)],
  <<NewV("a"), NewV("b"), Set("a", Lit(1)), Set("b", Call1("f", V("a"))), Out(V("b"))>>)

class16 == Together(<<>>,
  [x |-> Def(<<"y">>, Do(<<Ret(Add("y", 10))>>), FALSE),
   f |-> Def(<<"b">>, Do(<<Ret(Bin("+", Call1("x", V("b")), Lit(10)))>>), FALSE)],
  <<NewV("a"), Set("a", Lit(10)), Set("a", Call1("f", V("a"))), Out(V("a")), Ret(Lit(0))>>)

\* The greatest common divisor of 3 * m and 7 * n: 1081 and 1232 in
\* self/test10.c.
self10(m, n) == Together(<<>>,
  [add |-> Def(<<"a", "b">>, Do(<<Ret(Bin("+", V("a"), V("b")))>>), FALSE),
   gcd |-> Def(<<"a", "b">>,
               Do(<<Ret(CondE(Gt("b", 0), CallE("gcd", "int", <<V("b"), Bin("%", V("a"), V("b"))>>),
                              V("a")))>>), FALSE)],
  <<NewI("r", CallE("add", "int", <<Lit(3), Lit(4)>>)), Out(V("r")),
    Out(CallE("gcd", "int", <<Bin("*", Lit(3), Lit(m)), Bin("*", Lit(7), Lit(n))>>)),
    Out(CallE("gcd", "int", <<Bin("*", Lit(3), Lit(5)), Lit(3)>>)), Ret(Lit(0))>>)

-----------------------------------------------------------------------------
(***************************************************************************)
(* Arrays and pointers.                                                    *)
(***************************************************************************)
class12 == Alone(<<Decls(<<Arr("int", "h", 3)>>), NewV("i"), NewI("b", Lit(0)),
  UpTo("i", 3, Do(<<Put(Elem("h", V("i")), Bin("*", V("i"), V("i")))>>)),
  Set("b", Rd("int", Elem("h", Lit(2)))), Out(V("b"))>>)

class15 == Together(<<>>,
  [f |-> Def(<<"x">>, Do(<<Decls(<<Arr("int", "h", 3)>>), NewI("i", Lit(0)),
     For(Absent, Lt("i", 3), Grow("i", 1), Do(<<Put(Elem("h", V("i")), Bin("+", V("x"), V("i")))>>)),
     If(Gt("x", 0), Ret(Rd("int", Elem("h", Lit(1))))), Ret(Rd("int", Elem("h", Lit(2))))>>), FALSE)],
  <<NewV("a"), NewV("b"), Set("a", Neg(Lit(10))), Set("b", Call1("f", V("a"))), Out(V("b"))>>)

class17 == Alone(<<Decls(<<Var("int*", "p")>>), NewV("b"), Set("b", Lit(10)),
  Asg("=", Ref("p", "int*"), New("int*", SizeofT("int"))), Put(Star("p"), V("b")),
  Out(Rd("int", Star("p"))), Free(Pi("p"))>>)

LOCAL TwoInts(d) == Asg("=", Ref(d, "int*"), New("int*", Bin("*", SizeofT("int"), Lit(2))))
LOCAL OneOn(d)   == Deref("int", Paren(Bin("+", Pi(d), Lit(1))))
LOCAL StarR      == Deref("int*", P("r", "int**"))
LOCAL DeclPRQ    == <<Decls(<<Var("int*", "p")>>), Decls(<<Var("int**", "r")>>), Decls(<<Var("int*", "q")>>)>>
LOCAL NewR       == Asg("=", Ref("r", "int**"), New("int**", SizeofT("int*")))
LOCAL ReadBack   ==
  <<Asg("=", Ref("q", "int*"), Rd("int*", StarR)), Out(Rd("int", Star("q"))), Out(Rd("int", OneOn("q"))),
    Free(Pi("p")), Free(Cast("int*", P("r", "int**")))>>

\* a, b and c are p, r and q in the next two.
class18 == Alone(DeclPRQ \o
  <<TwoInts("p"), NewR, Put(StarR, Pi("p")), Put(Star("p"), Lit(10)), Put(OneOn("p"), Lit(20))>>
  \o ReadBack)

self08 == Alone(DeclPRQ \o
  <<Decls(<<Var("int*", "t")>>), TwoInts("p"), NewR, Asg("=", Ref("t", "int*"), Pi("p")),
    Put(StarR, Pi("p")), Put(Star("p"), Lit(10)), Put(Deref("int", Inc("++x", Ref("t", "int*"))), Lit(20))>>
  \o ReadBack)

class19 == LET c(k) == Sub("int*", A("c", "int**"), Lit(k)) IN
  Alone(<<Decls(<<Var("int*", "a")>>), Decls(<<Var("int*", "b")>>), Decls(<<Arr("int*", "c", 2)>>),
    TwoInts("a"), Put(Star("a"), Lit(10)), Put(OneOn("a"), Lit(20)),
    Put(c(0), Pi("a")), Put(c(1), Bin("+", Pi("a"), Lit(1))),
    Out(Rd("int", Deref("int", Rd("int*", c(0))))), Out(Rd("int", Deref("int", Rd("int*", c(1)))))>>)

\* Fibonacci number n, 5 in class/test20.c; every call allocates an array.
class20(n) == Together(<<>>,
  [fibonacci |-> Def(<<"b">>, Do(<<NewV("i"), NewV("c"), Decls(<<Arr("int", "h", 2)>>),
     If(Lt("b", 2), Ret(V("b"))),
     UpTo("i", 2, Do(<<Put(Elem("h", V("i")), Bin("-", Minus("b", 1), V("i")))>>)),
     Set("c", Bin("+", Call1("fibonacci", Rd("int", Elem("h", Lit(0)))),
                       Call1("fibonacci", Rd("int", Elem("h", Lit(1)))))),
     Ret(V("c"))>>), FALSE)],
  <<NewV("a"), NewV("b"), Set("a", Lit(5)), Set("b", Call1("fibonacci", Lit(n))), Out(V("b")), Ret(Lit(0))>>)

\* Mutual recursion from Fibonacci number h[k] on: k = 9 in class/test21.c.
class21(k) == Together(<<>>,
  [print1 |-> Def(<<"x">>, Do(<<If(Gt("x", 3), Do(<<Out(Minus("x", 1)),
                                                   CallE("print2", "void", <<Minus("x", 3)>>)>>)),
                                Out(V("x"))>>), TRUE),
   print2 |-> Def(<<"b">>, Do(<<If(Gt("b", 2), Do(<<Out(V("b")),
                                                   CallE("print1", "void", <<Minus("b", 2)>>)>>))>>), TRUE)],
  <<Decls(<<Arr("int", "h", 10)>>), NewV("i"), Put(Elem("h", Lit(0)), Lit(0)), Put(Elem("h", Lit(1)), Lit(1)),
    For(Set("i", Lit(2)), Lt("i", 10), Grow("i", 1),
        Put(Elem("h", V("i")), Bin("+", Rd("int", Elem("h", Minus("i", 1))),
                                        Rd("int", Elem("h", Minus("i", 2)))))),
    CallE("print1", "void", <<Rd("int", Elem("h", Lit(k)))>>), Ret(Lit(0))>>)

\* The body of swap(char *a, char *b).
LOCAL SwapChars ==
  <<Decls(<<Var("char", "temp")>>), Asg("=", Ref("temp", "char"), Rd("char", StarC("a"))),
    Put(StarC("a"), Rd("char", StarC("b"))), Put(StarC("b"), Rd("char", Ref("temp", "char")))>>

LOCAL NewChar(d)  == Asg("=", Ref(d, "char*"), New("char*", Lit(1)))
LOCAL NewRef(d)   == Asg("=", Ref(d, "char**"), New("char**", Lit(8)))
LOCAL DeclC(d)    == Decls(<<Var("char*", d)>>)
LOCAL DeclCC(d)   == Decls(<<Var("char**", d)>>)
LOCAL FillAB      == <<Put(StarC("b"), Cast("char", Lit(24))), Put(StarC("a"), Cast("char", Lit(42)))>>
LOCAL Finish      == <<OutC("a"), OutC("b"), Free(Pc("a")), Free(Pc("b")), Ret(Lit(0))>>
LOCAL StarCC(d)   == Deref("char*", P(d, "char**"))

class22 == Together(<<>>, [swap |-> Def(<<"a", "b">>, Do(SwapChars), TRUE)],
  <<DeclC("a"), DeclC("b"), NewChar("a"), NewChar("b")>> \o FillAB \o
  <<CallE("swap", "void", <<Pc("a"), Pc("b")>>)>> \o Finish)

\* main() of class/test23.c and test24.c, which differ in what more they pass.
LOCAL ThroughRefs(more) ==
  <<DeclC("a"), DeclCC("pa"), DeclC("b"), DeclCC("pb"), NewChar("a"), NewChar("b"),
    NewRef("pa"), NewRef("pb")>> \o FillAB \o
  <<Put(StarCC("pa"), Pc("a")), Put(StarCC("pb"), Pc("b")),
    CallE("dswap", "void", <<P("pa", "char**"), P("pb", "char**")>> \o more)>> \o Finish

class23 == Together(<<>>,
  [swap  |-> Def(<<"a", "b">>, Do(SwapChars), TRUE),
   dswap |-> Def(<<"a", "b">>, Do(<<CallE("swap", "void",
                                          <<Rd("char*", StarCC("a")), Rd("char*", StarCC("b"))>>)>>), TRUE)],
  ThroughRefs(<<>>))

class24 == LET again(k) == Do(<<CallE("swap", "void", <<Pc("a"), Pc("b"), Minus("x", k)>>)>>) IN
  Together(<<>>,
  [swap  |-> Def(<<"a", "b", "x">>,
                 Do(SwapChars \o <<IfE(Bin(">=", V("x"), Lit(5)), again(2),
                                       If(Bin(">=", V("x"), Lit(2)), again(1)))>>), TRUE),
   dswap |-> Def(<<"a", "b", "x">>,
                 Do(<<CallE("swap", "void", <<Rd("char*", StarCC("a")), Rd("char*", StarCC("b")), V("x")>>)>>),
                 TRUE)],
  ThroughRefs(<<Lit(6)>>))

\* ptr, parr, arr and result are q, p, h and r here, 'A' is its code.
self11 == LET add(e) == CallE("add", "int", <<V("x"), e>>)
              starQ == Deref("int", Cast("int*", P("q", "void*"))) IN
  Together(<<Arr("int", "h", 5)>>,
  [add |-> Def(<<"a", "b">>, Do(<<Ret(Bin("+", V("a"), V("b")))>>), FALSE)],
  <<Decls(<<Var("int", "x"), Var("int", "y"), Var("int", "z")>>), Decls(<<Var("char", "c")>>),
    Decls(<<Var("void*", "q")>>), Decls(<<Var("int*", "p")>>),
    Set("x", Lit(10)), Set("y", SizeofT("char")), Asg("=", Ref("c", "char"), Cast("char", Lit(65))),
    Out(Vc("c")),
    Set("z", Bin("^", Bin("+", Bin("/", V("x"), V("y")), V("y")), V("x"))), Out(V("z")),
    NewI("r", CondE(Bin("^", V("z"), Vc("c")), add(V("y")), add(Neg(V("y"))))), Out(V("r")),
    IfE(Bin(">", V("x"), V("y")), Do(<<Out(Neg(Lit(2333)))>>), Do(<<Out(Un("+", Lit(114514)))>>)),
    While(Gt("x", 0), Do(<<Out(V("x")), Inc("x--", Ref("x", "int"))>>)),
    For(Decls(<<VarI("int", "i", Lit(0)), VarI("int", "j", Lit(1))>>), Lt("i", 5),
        Inc("x++", Ref("i", "int")), Do(<<Out(Bin("*", V("i"), Inc("x--", Ref("j", "int"))))>>)),
    Asg("=", Ref("q", "void*"), CallE("MALLOC", "void*", <<SizeofT("int")>>)),
    If(Bin("!=", P("q", "void*"), Cast("void*", Lit(0))),
       Do(<<Put(starQ, Lit(42)), Out(Rd("int", starQ)), CallE("FREE", "void", <<P("q", "void*")>>)>>)),
    Asg("=", Ref("p", "int*"), Bin("+", A("h", "int*"), Lit(3))), Put(Star("p"), Lit(123)),
    Out(Rd("int", Elem("h", Lit(3)))), Ret(Lit(0))>>)

-----------------------------------------------------------------------------
\* The tests that read their input, and those that do not but for
\* class20, class21 and self10.
Reading == {ex, self00, self01, self02, self03, self04, self05}

Silent == {class00, class01, class02, class03, class04, class05, class06, class07, class08, class09,
           class10, class11, class12, class13, class14, class15, class16, class17, class18, class19,
           class22, class23, class24, self06, self07, self08, self09, self11}
=============================================================================
