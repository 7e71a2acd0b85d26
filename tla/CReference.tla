---------------------------- MODULE CReference ----------------------------
(***************************************************************************)
(* What C says a program of the supported subset does: a big-step          *)
(* evaluator over syntax terms, written independently of the interpreter,  *)
(* with which it shares the operators' arithmetic and the sizes of types   *)
(* (CArith).  Only TLC uses it.                                            *)
(*                                                                         *)
(* A term is a node of module Ast whose kids are terms; one of kind "none" *)
(* stands for an absent one.  A value is [o, v]: a number v when o = 0,    *)
(* else byte offset v into object o.  The store s of an execution is       *)
(*   fn        : function name -> definition,                              *)
(*   loc, glob : variable -> value, for the function running / the globals *)
(*   obj       : the objects so far, each [live, size, heap, cell], where  *)
(*               cell maps the byte offsets written to values,             *)
(*   in, out   : numbers still to read, numbers printed,                   *)
(*   sig       : "ok", or why control is not going on: "break",            *)
(*               "continue", "return", "error",                            *)
(*   val       : the value of the last expression, or the returned one,    *)
(*   vals      : the values of the operands evaluated last.                *)
(***************************************************************************)
EXTENDS CArith, SequencesExt

LOCAL Assign(m, k, v) == [x \in DOMAIN m \cup {k} |-> IF x = k THEN v ELSE m[x]]

NoTerm == [kind |-> "none"]

Num(v) == [o |-> 0, v |-> v]

Error(s) == [s EXCEPT !.sig = "error"]

Value(s, val) == [s EXCEPT !.val = val]

Goes(s) == s.sig = "ok"

-----------------------------------------------------------------------------
(***************************************************************************)
(* Variables and objects.                                                  *)
(***************************************************************************)
ReadVar(s, d) == Value(s, IF d \in DOMAIN s.loc THEN s.loc[d] ELSE s.glob[d])

WriteVar(s, d, val) ==
  IF d \in DOMAIN s.loc THEN [s EXCEPT !.loc = Assign(s.loc, d, val)]
                        ELSE [s EXCEPT !.glob = Assign(s.glob, d, val)]

\* May an access of this type go through pointer p?
Valid(s, p, ty) ==
  /\ p.o # 0
  /\ s.obj[p.o].live
  /\ p.v >= 0 /\ p.v + SizeOf(ty) <= s.obj[p.o].size

NewObject(s, size, heap, zero) ==
  [s EXCEPT !.val = [o |-> Len(s.obj) + 1, v |-> 0],
            !.obj = Append(s.obj,
               [live |-> TRUE, size |-> size, heap |-> heap,
                cell |-> [k \in (IF zero THEN 0 .. size - 1 ELSE {}) |-> Num(0)]])]

ReadCell(s, p, ty) ==
  IF Valid(s, p, ty) /\ p.v \in DOMAIN s.obj[p.o].cell
  THEN Value(s, s.obj[p.o].cell[p.v]) ELSE Error(s)

WriteCell(s, p, ty, val) ==
  IF Valid(s, p, ty)
  THEN [s EXCEPT !.obj[p.o].cell = Assign(s.obj[p.o].cell, p.v, val)]
  ELSE Error(s)

\* Conversion to a type: narrowing for numbers, pointers keep their value.
Convert(val, ty) == IF val.o = 0 /\ ty \in IntegerTypes THEN Num(Narrow(val.v, ty)) ELSE val

-----------------------------------------------------------------------------
(***************************************************************************)
(* Operators.                                                              *)
(***************************************************************************)
Moved(p, by) == [p EXCEPT !.v = @ + by]

\* Operator op on values l and r of types lt and rt.
Combine(op, lt, rt, l, r) ==
  CASE lt \in PointerTypes /\ rt \in IntegerTypes /\ op = "+" ->
         Moved(l, r.v * SizeOf(Pointee(lt)))
    [] lt \in PointerTypes /\ rt \in IntegerTypes /\ op = "-" ->
         Moved(l, - r.v * SizeOf(Pointee(lt)))
    [] lt \in IntegerTypes /\ rt \in PointerTypes /\ op = "+" ->
         Moved(r, l.v * SizeOf(Pointee(rt)))
    [] op = "==" -> Num(Truth(l = r))
    [] op = "!=" -> Num(Truth(l # r))
    [] OTHER -> Num(Arithmetic(op, l.v, r.v))

Faulty(op, r) == \/ op \in {"/", "%"} /\ r = Num(0)
                 \/ ~ DefinedShift(op, r.v)

Unary(op, val) == CASE op = "-" -> Num(- val.v)
                    [] op = "+" -> val
                    [] op = "~" -> Num(- val.v - 1)
                    [] op = "!" -> Num(Truth(val = Num(0)))

CallBuiltIn(f, a, s) ==
  CASE f = "GET"    -> IF s.in = <<>> THEN Value(s, Num(0))
                       ELSE [s EXCEPT !.val = Num(Head(s.in)), !.in = Tail(s.in)]
    [] f = "PRINT"  -> [s EXCEPT !.out = Append(s.out, a[1].v)]
    [] f = "MALLOC" -> NewObject(s, a[1].v, TRUE, FALSE)
    [] f = "FREE"   ->
         IF a[1].o # 0 /\ a[1].v = 0
         THEN IF s.obj[a[1].o].live /\ s.obj[a[1].o].heap
              THEN [s EXCEPT !.obj[a[1].o].live = FALSE] ELSE Error(s)
         ELSE Error(s)

-----------------------------------------------------------------------------
(***************************************************************************)
(* Lvalues: a variable, or the address its operands designate.             *)
(***************************************************************************)
PlaceOperands(t) == IF t.kind = "declref" THEN <<>> ELSE t.kids

Address(t, vals) ==
  IF t.kind = "arraysub" THEN Moved(vals[1], vals[2].v * SizeOf(t.type)) ELSE vals[1]

Get(t, s) == IF t.kind = "declref" THEN ReadVar(s, t.decl)
             ELSE ReadCell(s, Address(t, s.vals), t.type)

Put(t, s, val) == IF t.kind = "declref" THEN WriteVar(s, t.decl, val)
                  ELSE WriteCell(s, Address(t, s.vals), t.type, val)

\* Store val in t and have it as a value too.
PutValue(t, s, val) == Value(Put(t, s, val), val)

Compound(t, old, s) ==
  IF ~ Goes(old) THEN old
  ELSE PutValue(t.kids[1], s,
         Convert(Combine(t.op, t.kids[1].type, t.kids[2].type, old.val, Last(s.vals)),
                 t.kids[1].type))

\* The lvalue's operands and the right side are evaluated.
Assignment(t, s) ==
  IF Faulty(t.op, Last(s.vals)) THEN Error(s)
  ELSE IF t.op = "=" THEN PutValue(t.kids[1], s, Convert(Last(s.vals), t.kids[1].type))
  ELSE Compound(t, Get(t.kids[1], s), s)

Step(op, ty) == (IF op \in {"++x", "x++"} THEN 1 ELSE -1)
                  * (IF ty \in PointerTypes THEN SizeOf(Pointee(ty)) ELSE 1)

Increment(t, old, s) ==
  IF ~ Goes(old) THEN old
  ELSE Value(Put(t.kids[1], s, Moved(old.val, Step(t.op, t.kids[1].type))),
             IF t.op \in {"x++", "x--"} THEN old.val
             ELSE Moved(old.val, Step(t.op, t.kids[1].type)))

-----------------------------------------------------------------------------
(***************************************************************************)
(* Evaluation.  R is the evaluator: R[t, s] is the store after term t.     *)
(***************************************************************************)
\* One term after the other, keeping their values, as long as control goes on.
RunAll(R, ts, s) ==
  LET keep(a, s1) == [s1 EXCEPT !.vals = Append(a.vals, s1.val)]
      upTo[i \in 0 .. Len(ts)] ==
        IF i = 0 THEN [s EXCEPT !.vals = <<>>]
        ELSE LET a == upTo[i - 1] IN keep(a, R[ts[i], a])
  IN  upTo[Len(ts)]

\* A term whose operands are evaluated.
Finish(t, s) ==
  IF ~ Goes(s) THEN s ELSE
  CASE t.kind = "cast"     -> Value(s, Convert(s.vals[1], t.type))
    [] t.kind = "unop" /\ t.op # "*" -> Value(s, Unary(t.op, s.vals[1]))
    [] t.kind \in {"unop", "arraysub"} -> Get(t, s)
    [] t.kind = "binop"    ->
         IF Faulty(t.op, s.vals[2]) THEN Error(s)
         ELSE Value(s, Combine(t.op, t.kids[1].type, t.kids[2].type, s.vals[1], s.vals[2]))
    [] t.kind = "assign"   -> Assignment(t, s)
    [] t.kind = "incdec"   -> Increment(t, Get(t.kids[1], s), s)
    [] t.kind = "return"   -> [s EXCEPT !.sig = "return"]
    [] OTHER               -> s

Operands(t) ==
  CASE t.kind = "assign" -> Append(PlaceOperands(t.kids[1]), t.kids[2])
    [] t.kind = "incdec" -> PlaceOperands(t.kids[1])
    [] OTHER             -> t.kids

Selection(R, t, s) == R[IF s.val # Num(0) THEN t.kids[2] ELSE t.kids[3], s]

Logical(R, t, s) ==
  IF (s.val # Num(0)) = (t.op = "||") THEN s ELSE R[t.kids[2], s]

ToTruth(s) == Value(s, Num(Truth(s.val # Num(0))))

Returned(s, caller) ==
  [s EXCEPT !.loc = caller.loc, !.sig = IF @ = "return" THEN "ok" ELSE @]

Enter(f, s) ==
  [s EXCEPT !.loc = [d \in {f.params[i] : i \in DOMAIN f.params} |->
                       s.vals[CHOOSE i \in DOMAIN f.params : f.params[i] = d]]]

\* The arguments are evaluated.
Call(R, t, s) ==
  IF ~ Goes(s) THEN s
  ELSE IF t.decl \in {"GET", "PRINT", "MALLOC", "FREE"} THEN CallBuiltIn(t.decl, s.vals, s)
  ELSE Returned(R[s.fn[t.decl].body, Enter(s.fn[t.decl], s)], s)

\* The elements in turn.
InitCells(R, t, p, s) ==
  LET put(i, s1) == WriteCell(s1, Moved(p, (i - 1) * SizeOf(t.op)), t.op, s1.val)
  IN  FoldLeft(LAMBDA s1, i : put(i, R[t.kids[1].kids[i], s1]), s,
               [i \in 1 .. Len(t.kids[1].kids) |-> i])

Declared(t, s) == [s EXCEPT !.loc = Assign(s.loc, t.decl, Convert(s.val, t.type))]

DeclareArray(R, t, s) ==
  IF t.kids = <<>> THEN Declared(t, s) ELSE InitCells(R, t, s.val, Declared(t, s))

\* One round of a loop: condition, body, increment.  The loop is left for the
\* statement after it when the condition fails and at a break.
Leave(s) == [s EXCEPT !.sig = "left"]

AfterBody(R, inc, s) ==
  IF s.sig = "break" THEN Leave(s)
  ELSE IF s.sig \in {"ok", "continue"} THEN R[inc, [s EXCEPT !.sig = "ok"]]
  ELSE s

AfterTest(R, body, inc, s) ==
  IF ~ Goes(s) THEN s ELSE IF s.val = Num(0) THEN Leave(s)
  ELSE AfterBody(R, inc, R[body, s])

\* Up to Power[RoundBits] rounds, by doubling, so that TLC's recursion stays
\* shallow; a loop that goes on after them counts as an error of the program.
RoundBits == 7

Loop(R, cond, body, inc, s) ==
  LET upTo[k \in Nat, s1 \in Any] ==
        IF k = 0 THEN AfterTest(R, body, inc, R[cond, Value(s1, Num(1))])
        ELSE LET half == upTo[k - 1, s1]
             IN  IF Goes(half) THEN upTo[k - 1, half] ELSE half
      end == upTo[RoundBits, s]
  IN  CASE end.sig = "left" -> [end EXCEPT !.sig = "ok"]
        [] end.sig = "ok"   -> Error(end)
        [] OTHER            -> end

\* (TLC's Any contains every value.)
Run[t \in Any, s \in Any] ==
  IF t.kind = "none" \/ ~ Goes(s) THEN s ELSE
  CASE t.kind = "literal" -> Value(s, Num(t.val))
    [] t.kind = "sizeof"  -> Value(s, Num(t.val * SizeOf(t.op)))
    [] t.kind = "declref" -> ReadVar(s, t.decl)
    [] t.kind = "binop" /\ t.op \in {"&&", "||"} ->
         ToTruth(Logical(Run, t, Run[t.kids[1], s]))
    [] t.kind = "call"    -> Call(Run, t, RunAll(Run, Tail(t.kids), s))
    [] t.kind = "vardecl" ->
         IF t.type = "array"
         THEN DeclareArray(Run, t, NewObject(s, t.val * SizeOf(t.op), FALSE, TRUE))
         ELSE Declared(t, RunAll(Run, t.kids, Value(s, Num(0))))
    [] t.kind \in {"if", "cond"} -> Selection(Run, t, Run[t.kids[1], s])
    [] t.kind = "while" -> Loop(Run, t.kids[1], t.kids[2], NoTerm, s)
    [] t.kind = "for"   -> Loop(Run, t.kids[2], t.kids[4], t.kids[3], Run[t.kids[1], s])
    [] t.kind \in {"break", "continue"} -> [s EXCEPT !.sig = t.kind]
    [] OTHER -> Finish(t, RunAll(Run, Operands(t), s))

-----------------------------------------------------------------------------
(***************************************************************************)
(* The whole program on an input: its globals, then main.                  *)
(***************************************************************************)
NoVars == [d \in {} |-> Num(0)]

Start(fn, in) ==
  [fn |-> fn, loc |-> NoVars, glob |-> NoVars, obj |-> <<>>, in |-> in, out |-> <<>>,
   sig |-> "ok", val |-> Num(0), vals |-> <<>>]

RunMain(s) == Run[s.fn["main"].body, [s EXCEPT !.glob = s.loc, !.loc = NoVars]]

RunC(globals, fn, in) == RunMain(RunAll(Run, globals, Start(fn, in)))
=============================================================================
