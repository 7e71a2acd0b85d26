------------------------------- MODULE CTerms -------------------------------
(***************************************************************************)
(* Building programs for the instances: syntax terms the way Clang builds  *)
(* them, and their numbering into the tables of module Ast.                *)
(***************************************************************************)
EXTENDS Ast, SequencesExt

-----------------------------------------------------------------------------
(***************************************************************************)
(* Terms.                                                                  *)
(***************************************************************************)
T(kind, op, type, decl, val, kids) ==
  [kind |-> kind, op |-> op, type |-> type, decl |-> decl, val |-> val, kids |-> kids]

Absent == T("none", "", "none", "none", 0, <<>>)

Lit(v)          == T("literal", "", "int", "none", v, <<>>)
Ref(d, ty)      == T("declref", "", ty, d, 0, <<>>)
Cast(ty, e)     == T("cast", "", ty, "none", 0, <<e>>)
Paren(e)        == T("paren", "", e.type, "none", 0, <<e>>)
Bin(op, l, r)   == T("binop", op, IF l.type \in PointerTypes THEN l.type
                                  ELSE IF op \in {"+", "-"} THEN r.type ELSE "int",
                     "none", 0, <<l, r>>)
Asg(op, l, r)   == T("assign", op, l.type, "none", 0, <<l, r>>)
Un(op, e)       == T("unop", op, "int", "none", 0, <<e>>)
Deref(ty, e)    == T("unop", "*", ty, "none", 0, <<e>>)
Inc(op, e)      == T("incdec", op, e.type, "none", 0, <<e>>)
Sub(ty, a, i)   == T("arraysub", "", ty, "none", 0, <<a, i>>)
SizeofT(ty)     == T("sizeof", ty, "int", "none", 1, <<>>)
CondE(c, a, b)  == T("cond", "", a.type, "none", 0, <<c, a, b>>)
CallE(f, ty, a) ==
  T("call", "", ty, f, 0,
    <<T("cast", "", "fn*", "none", 0, <<T("declref", "", "fn", f, 0, <<>>)>>)>> \o a)
StringLit       == T("unsupported", "", "char*", "none", 0, <<>>)
TrueLit         == T("unsupported", "", "int", "none", 0, <<>>)

\* Reading a variable: Clang wraps the reference in an LValueToRValue cast.
V(d)     == Cast("int", Ref(d, "int"))
Vc(d)    == Cast("int", Cast("char", Ref(d, "char")))
P(d, ty) == Cast(ty, Ref(d, ty))
\* An array decays to a pointer.
A(d, ty) == Cast(ty, Ref(d, "array"))

Out(e)      == CallE("PRINT", "void", <<e>>)
Get         == CallE("GET", "int", <<>>)
Free(e)     == CallE("FREE", "void", <<Cast("void*", e)>>)
New(ty, e)  == Cast(ty, CallE("MALLOC", "void*", <<e>>))

\* sizeof (e), sizeof of an array variable.
Sizeof(e)           == T("sizeof", e.type, "int", "none", 1, <<Paren(e)>>)
SizeofArr(el, d, n) == T("sizeof", el, "int", "none", n, <<Paren(Ref(d, "array"))>>)

Set(d, e)   == Asg("=", Ref(d, "int"), e)

\* Frequent forms: d == k, d - k, f(e), an int* p, p[e], reading and writing
\* through an lvalue, space for k ints.
Is(d, k)    == Bin("==", V(d), Lit(k))
Minus(d, k) == Bin("-", V(d), Lit(k))
Call1(f, e) == CallE(f, "int", <<e>>)
Pi(d)       == P(d, "int*")
At(p, e)    == Sub("int", p, e)
Rd(ty, e)   == Cast(ty, e)
Put(l, e)   == Asg("=", l, e)
NewInts(k)  == New("int*", Bin("*", Lit(k), SizeofT("int")))

Var(ty, d)        == T("vardecl", "", ty, d, 0, <<>>)
VarI(ty, d, e)    == T("vardecl", "", ty, d, 0, <<e>>)
Arr(el, d, n)     == T("vardecl", el, "array", d, n, <<>>)
ArrI(el, d, n, es) == T("vardecl", el, "array", d, n, <<T("initlist", "", "array", "none", 0, es)>>)
Decls(vs)  == T("declstmt", "", "none", "none", 0, vs)
Do(ss)     == T("compound", "", "none", "none", 0, ss)
If(c, a)   == T("if", "", "none", "none", 0, <<c, a, Absent>>)
IfE(c, a, b) == T("if", "", "none", "none", 0, <<c, a, b>>)
While(c, b)  == T("while", "", "none", "none", 0, <<c, b>>)
For(i, c, n, b) == T("for", "", "none", "none", 0, <<i, c, n, b>>)
Brk  == T("break", "", "none", "none", 0, <<>>)
Cont == T("continue", "", "none", "none", 0, <<>>)
Ret(e) == T("return", "", "none", "none", 0, <<e>>)
RetVoid == T("return", "", "none", "none", 0, <<>>)

\* A function definition: its parameters, body, and whether it returns void.
Def(ps, body, void) == [params |-> ps, body |-> body, void |-> void]
Extern(ps, void)    == Def(ps, Absent, void)

\* A program source: global variable declarations and functions.
Source(globals, fns) ==
  [globals |-> globals,
   fn |-> [f \in DOMAIN fns \cup Builtins |->
             CASE f = "GET"    -> Extern(<<>>, FALSE)
               [] f = "PRINT"  -> Extern(<<"arg">>, TRUE)
               [] f = "MALLOC" -> Extern(<<"arg">>, FALSE)
               [] f = "FREE"   -> Extern(<<"arg">>, TRUE)
               [] OTHER        -> fns[f]]]

Main(ss) == [main |-> Def(<<>>, Do(ss), FALSE)]

-----------------------------------------------------------------------------
(***************************************************************************)
(* Numbering: the nodes of a term in preorder, starting at n.              *)
(***************************************************************************)
Size[t \in Any] ==
  LET upTo[i \in Nat] == IF i = 0 THEN 0 ELSE upTo[i - 1] + Size[t.kids[i]]
  IN  IF t.kind = "none" THEN 0 ELSE 1 + upTo[Len(t.kids)]

\* First number of every kid when t itself is n.
KidStarts(t, n) ==
  LET start[i \in Nat] == IF i = 1 THEN n + 1 ELSE start[i - 1] + Size[t.kids[i - 1]]
  IN  [i \in 1 .. Len(t.kids) |-> start[i]]

Flatten[t \in Any, n \in Nat] ==
  IF t.kind = "none" THEN <<>>
  ELSE LET st == KidStarts(t, n)
       IN  <<[t EXCEPT !.kids = [i \in 1 .. Len(t.kids) |->
                                   IF t.kids[i].kind = "none" THEN Null ELSE st[i]]]>>
             \o FlattenSeq([i \in 1 .. Len(t.kids) |-> Flatten[t.kids[i], st[i]]])

\* The functions in some order.
Listed(S) == FoldSet(LAMBDA x, list : Append(list, x), <<>>, S)

\* The table of everything, with a standard input, and what is said of the
\* program, for the properties.
Compile(src, stdin, says) ==
  LET fs    == Listed(DOMAIN src.fn)
      terms == src.globals \o [i \in 1 .. Len(fs) |-> src.fn[fs[i]].body]
      st    == KidStarts(T("compound", "", "none", "none", 0, terms), 0)
      g     == Len(src.globals)
  IN  [unit |-> [i \in 1 .. Len(terms) |->
                   IF i <= g THEN [vardecl |-> st[i]] ELSE [fdecl |-> fs[i - g]]],
       fn   |-> [f \in DOMAIN src.fn |->
                   LET i == g + (CHOOSE k \in 1 .. Len(fs) : fs[k] = f)
                   IN  [params |-> src.fn[f].params, void |-> src.fn[f].void,
                        body |-> IF src.fn[f].body.kind = "none" THEN Null ELSE st[i]]],
       node |-> FlattenSeq([i \in 1 .. Len(terms) |-> Flatten[terms[i], st[i]]]),
       stdin |-> stdin,
       says |-> says]
=============================================================================
