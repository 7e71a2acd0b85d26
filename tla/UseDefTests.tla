---------------------------- MODULE UseDefTests ----------------------------
(***************************************************************************)
(* The programs of use-def/assign2-tests, as mem2reg leaves them, with the *)
(* lines their final comments expect the pass to print.  Of the .ll files  *)
(* test14, test17 and test19 are dumps of that form.                       *)
(***************************************************************************)
EXTENDS LLVMModule

I == Int0

Plus  == Fn("plus")
Minus == Fn("minus")

Leaf == Straight(2, <<Ret(I)>>)
\* A function that returns one of its arguments.
Picks(f, i) == Straight(4, <<Ret(Arg(f, i))>>)
\* A function that passes on what it is given, two integers first.
Applies(line, f) == Straight(3, <<Call(line, Arg(f, 2), <<I, I>>), Ret(Reg(f, 1, 1))>>)
Forwards(line, f, callee, arity, args) ==
  Straight(arity, <<Call(line, callee, args), Ret(Reg(f, 1, 1))>>)

\* if (c) t = v; else t = w;  with t the phi at <<f, 4, 1>>.
IfElse(v, w, after, succ) ==
  <<Block(<<>>, {2, 3}), Block(<<>>, {4}), Block(<<>>, {4}),
    Block(<<Phi(<<v, w>>, <<2, 3>>)>> \o after, succ)>>

\* t = w; if (c) t = v;  with t the phi at <<f, 3, 1>>.
IfOnly(v, w, after, succ) ==
  <<Block(<<>>, {2, 3}), Block(<<>>, {3}), Block(<<Phi(<<v, w>>, <<2, 1>>)>> \o after, succ)>>

\* t = u; if (c) t = v; else if (d) t = w;  with t the phi at <<f, 6, 1>>.
ElseIf(f, v, w, u, after) ==
  <<Block(<<>>, {2, 3}), Block(<<>>, {6}), Block(<<>>, {4, 5}), Block(<<>>, {5}),
    Block(<<Phi(<<w, u>>, <<4, 3>>)>>, {6}),
    Block(<<Phi(<<v, Reg(f, 5, 1)>>, <<2, 5>>)>> \o after, {})>>

\* order: the functions that follow plus and minus.
Source(order, fn, main, says) ==
  [fn |-> [plus |-> Leaf, minus |-> Leaf] @@ fn, order |-> <<"plus", "minus">> \o order,
   init |-> <<>>, main |-> main, says |-> says]

-----------------------------------------------------------------------------
test00 == Source(<<"clever">>,
  [clever |-> Straight(0, <<Call(10, Plus, <<I, I>>), Ret(I)>>)],
  "clever", {<<10, "plus">>})

test01 == Source(<<"clever">>,
  [clever |-> Func(1, IfOnly(Plus, Null, <<>>, {4, 5}) \o
     <<Block(<<Call(22, Reg("clever", 3, 1), <<I, I>>)>>, {5}), Block(<<Ret(I)>>, {})>>)],
  "clever", {<<22, "plus">>})

test02 == Source(<<"clever">>,
  [clever |-> Func(1, IfElse(Plus, Minus, <<>>, {5, 6}) \o
     <<Block(<<Call(24, Reg("clever", 4, 1), <<I, I>>)>>, {6}), Block(<<Ret(I)>>, {})>>)],
  "clever", {<<24, "plus">>, <<24, "minus">>})

test03 == Source(<<"clever">>,
  [clever |-> Func(1, IfOnly(Plus, Null, <<>>, {4, 5}) \o
     <<Block(<<>>, {5}),
       Block(<<Phi(<<Minus, Reg("clever", 3, 1)>>, <<4, 3>>)>>, {6, 7}),
       Block(<<Call(27, Reg("clever", 5, 1), <<I, I>>)>>, {7}), Block(<<Ret(I)>>, {})>>)],
  "clever", {<<27, "plus">>, <<27, "minus">>})

test04 == Source(<<"foo", "clever">>,
  [foo |-> Applies(10, "foo"),
   clever |-> Func(1,
     IfOnly(Minus, Null, <<Call(26, Fn("foo"), <<I, I, Reg("clever", 3, 1)>>)>>, {4, 5}) \o
     <<Block(<<>>, {5}),
       Block(<<Phi(<<Plus, Reg("clever", 3, 1)>>, <<4, 3>>), Phi(<<Plus, Null>>, <<4, 3>>)>>,
             {6, 7}),
       Block(<<Call(33, Fn("foo"), <<I, I, Reg("clever", 5, 2)>>)>>, {7}),
       Block(<<Ret(I)>>, {})>>)],
  "clever", {<<10, "plus">>, <<10, "minus">>, <<26, "foo">>, <<33, "foo">>})

test05 == Source(<<"clever">>,
  [clever |-> Func(1, IfOnly(Plus, Null, <<>>, {4, 5}) \o
     <<Block(<<>>, {5}), Block(<<Phi(<<Minus, Reg("clever", 3, 1)>>, <<4, 3>>)>>, {6, 7}),
       Block(<<>>, {7}), Block(<<Phi(<<Reg("clever", 5, 1), Null>>, <<6, 5>>)>>, {8, 9}),
       Block(<<>>, {9}), Block(<<Phi(<<Reg("clever", 7, 1), Null>>, <<8, 7>>)>>, {10, 11}),
       Block(<<Call(33, Reg("clever", 9, 1), <<I, I>>)>>, {11}), Block(<<Ret(I)>>, {})>>)],
  "clever", {<<33, "plus">>, <<33, "minus">>})

test06 == Source(<<"clever", "moo">>,
  [clever |-> Applies(10, "clever"),
   moo |-> Func(3, IfOnly(Plus, Null, <<>>, {4, 5}) \o
     <<Block(<<>>, {5}),
       Block(<<Phi(<<Minus, Reg("moo", 3, 1)>>, <<4, 3>>),
               Call(26, Fn("clever"), <<I, I, Reg("moo", 5, 1)>>), Ret(I)>>, {})>>)],
  "moo", {<<10, "plus">>, <<10, "minus">>, <<26, "clever">>})

test07 == Source(<<"clever", "moo">>,
  [clever |-> Applies(10, "clever"),
   moo |-> Func(3, IfElse(Plus, Minus, <<>>, {5, 6}) \o
     <<Block(<<Call(28, Fn("clever"), <<I, I, Reg("moo", 4, 1)>>)>>, {7}),
       Block(<<Call(30, Fn("clever"), <<I, I, Plus>>)>>, {7}), Block(<<Ret(I)>>, {})>>)],
  "moo", {<<10, "plus">>, <<10, "minus">>, <<28, "clever">>, <<30, "clever">>})

test08 == Source(<<"clever", "moo">>,
  [clever |-> Applies(10, "clever"),
   moo |-> Func(3, ElseIf("moo", Plus, Minus, Null,
     <<Call(26, Fn("clever"), <<I, I, Reg("moo", 6, 1)>>), Ret(I)>>))],
  "moo", {<<10, "plus">>, <<10, "minus">>, <<26, "clever">>})

test09 == Source(<<"foo", "clever", "moo">>,
  [foo |-> Applies(10, "foo"),
   clever |-> Forwards(14, "clever", Fn("foo"), 3, <<I, I, Arg("clever", 2)>>),
   moo |-> Func(3, ElseIf("moo", Plus, Minus, Null,
     <<Call(30, Fn("clever"), <<I, I, Reg("moo", 6, 1)>>), Ret(I)>>))],
  "moo", {<<10, "plus">>, <<10, "minus">>, <<14, "foo">>, <<30, "clever">>})

\* clever() of test10 hands its parameters on to foo(), moo() of test10 to
\* test12 calls clever() with plus and, on some path, either of the two.
MooOfTwo(line) ==
  Func(3, ElseIf("moo", Plus, Minus, Null,
    <<Call(line, Fn("clever"), <<I, I, Plus, Reg("moo", 6, 1)>>), Ret(I)>>))

test10 == Source(<<"foo", "clever", "moo">>,
  [foo |-> Func(4, IfElse(Arg("foo", 2), Arg("foo", 3),
     <<Call(15, Reg("foo", 4, 1), <<I, I>>), Ret(Reg("foo", 4, 2))>>, {})),
   clever |-> Forwards(19, "clever", Fn("foo"), 4, <<I, I, Arg("clever", 2), Arg("clever", 3)>>),
   moo |-> MooOfTwo(35)],
  "moo", {<<15, "plus">>, <<15, "minus">>, <<19, "foo">>, <<35, "clever">>})

\* clever() of test11 and test12 calls what foo() picks of its parameters.
CallsPicked ==
  Straight(4, <<Call(15, Fn("foo"), <<I, I, Arg("clever", 2), Arg("clever", 3)>>),
                Call(16, Reg("clever", 1, 1), <<I, I>>), Ret(Reg("clever", 1, 2))>>)

test11 == Source(<<"foo", "clever", "moo">>,
  [foo |-> Picks("foo", 2), clever |-> CallsPicked, moo |-> MooOfTwo(32)],
  "moo", {<<15, "foo">>, <<16, "plus">>, <<32, "clever">>})

test12 == Source(<<"foo", "clever", "moo">>,
  [foo |-> Picks("foo", 3), clever |-> CallsPicked, moo |-> MooOfTwo(32)],
  "moo", {<<15, "foo">>, <<16, "plus">>, <<16, "minus">>, <<32, "clever">>})

test13 == Source(<<"foo", "clever", "moo">>,
  [foo |-> Picks("foo", 2), clever |-> Picks("clever", 3),
   moo |-> Func(3, ElseIf("moo", Fn("foo"), Fn("clever"), Undef,
     <<Call(30, Reg("moo", 6, 1), <<I, I, Plus, Minus>>),
       Call(31, Reg("moo", 6, 2), <<I, I>>), Ret(I)>>))],
  "moo", {<<30, "foo">>, <<30, "clever">>, <<31, "plus">>, <<31, "minus">>})

test14 == Source(<<"foo", "clever", "moo">>,
  [foo |-> Picks("foo", 2), clever |-> Picks("clever", 3),
   moo |-> Func(3,
     <<Block(<<>>, {2, 3}),
       Block(<<Call(24, Fn("foo"), <<I, I, Plus, Minus>>)>>, {4}),
       Block(<<>>, {4}),
       Block(<<Phi(<<Plus, Minus>>, <<2, 3>>), Phi(<<Fn("foo"), Fn("clever")>>, <<2, 3>>),
               Call(31, Reg("moo", 4, 2), <<I, I, Reg("moo", 4, 1), Plus>>),
               Call(32, Reg("moo", 4, 3), <<I, I>>), Ret(I)>>, {})>>)],
  "moo", {<<24, "foo">>, <<31, "foo">>, <<31, "clever">>, <<32, "plus">>})

test15 == Source(<<"foo", "moo">>,
  [foo |-> Applies(14, "foo"),
   moo |-> Func(1,
     <<Block(<<>>, {2, 3}), Block(<<Call(24, Fn("foo"), <<I, I, Plus>>)>>, {3}),
       Block(<<Phi(<<Minus, Null>>, <<2, 1>>),
               Call(27, Fn("foo"), <<I, I, Reg("moo", 3, 1)>>), Ret(I)>>, {})>>)],
  "moo", {<<14, "plus">>, <<14, "minus">>, <<24, "foo">>, <<27, "foo">>})

\* clever() of test16 to test19 hands its parameters on to foo().
ToFoo(line) ==
  Forwards(line, "clever", Fn("foo"), 4, <<I, I, Arg("clever", 2), Arg("clever", 3)>>)

test16 == Source(<<"foo", "clever", "clever1", "moo">>,
  [foo |-> Picks("foo", 2), clever |-> ToFoo(14),
   clever1 |-> Forwards(17, "clever1", Fn("clever"), 4,
                        <<I, I, Arg("clever1", 3), Arg("clever1", 2)>>),
   moo |-> Straight(3, <<Call(24, Fn("clever1"), <<I, I, Minus, Plus>>),
                         Call(25, Reg("moo", 1, 1), <<I, I>>), Ret(I)>>)],
  "moo", {<<14, "foo">>, <<17, "clever">>, <<24, "clever1">>, <<25, "plus">>})

\* clever1() of test17 and test18 calls its parameter with the two swapped.
Swapping(line) ==
  Forwards(line, "clever1", Arg("clever1", 0), 5, <<I, I, Arg("clever1", 4), Arg("clever1", 3)>>)

test17 == Source(<<"foo", "clever", "clever1", "moo">>,
  [foo |-> Picks("foo", 2), clever |-> ToFoo(14), clever1 |-> Swapping(17),
   moo |-> Straight(3, <<Call(24, Fn("clever1"), <<Fn("clever"), I, I, Minus, Plus>>),
                         Call(25, Reg("moo", 1, 1), <<I, I>>), Ret(I)>>)],
  "moo", {<<14, "foo">>, <<17, "clever">>, <<24, "clever1">>, <<25, "plus">>})

\* moo() of test18 and test19: clever1() is given foo() or clever().
MooOfEither(line, next) ==
  Func(3, IfOnly(Fn("foo"), Fn("clever"),
    <<Call(line, Fn("clever1"), <<Reg("moo", 3, 1), I, I, Minus, Plus>>),
      Call(next, Reg("moo", 3, 2), <<I, I>>), Ret(I)>>, {}))

test18 == Source(<<"foo", "clever", "clever1", "moo">>,
  [foo |-> Picks("foo", 2), clever |-> ToFoo(14), clever1 |-> Swapping(18),
   moo |-> MooOfEither(30, 31)],
  "moo", {<<14, "foo">>, <<18, "clever">>, <<18, "foo">>, <<30, "clever1">>, <<31, "plus">>})

test19 == Source(<<"foo", "clever", "clever1", "moo">>,
  [foo |-> Picks("foo", 2), clever |-> ToFoo(14),
   clever1 |-> Func(5,
     <<Block(<<Call(18, Arg("clever1", 0), <<I, I, Arg("clever1", 4), Arg("clever1", 3)>>)>>,
             {2, 3}),
       Block(<<>>, {3}),
       Block(<<Phi(<<Minus, Arg("clever1", 3)>>, <<2, 1>>), Phi(<<Plus, Reg("clever1", 1, 1)>>, <<2, 1>>),
               Call(24, Arg("clever1", 0), <<I, I, Reg("clever1", 3, 2), Reg("clever1", 3, 1)>>),
               Ret(Reg("clever1", 3, 3))>>, {})>>),
   moo |-> MooOfEither(36, 37)],
  "moo", {<<14, "foo">>, <<18, "clever">>, <<18, "foo">>, <<24, "clever">>, <<24, "foo">>,
          <<36, "clever1">>, <<37, "plus">>})

Tests ==
  [test00 |-> test00, test01 |-> test01, test02 |-> test02, test03 |-> test03,
   test04 |-> test04, test05 |-> test05, test06 |-> test06, test07 |-> test07,
   test08 |-> test08, test09 |-> test09, test10 |-> test10, test11 |-> test11,
   test12 |-> test12, test13 |-> test13, test14 |-> test14, test15 |-> test15,
   test16 |-> test16, test17 |-> test17, test18 |-> test18, test19 |-> test19]
=============================================================================
