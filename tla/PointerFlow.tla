----------------------------- MODULE PointerFlow -----------------------------
(***************************************************************************)
(* What may be what in a module, in whatever order things happen: four     *)
(* relations, each the least one that its rules allow.                     *)
(*   traces  <<u, v, n>> : u may be v, or for n > 0 what the function v    *)
(*                         returns, or what that returns in turn, n times, *)
(*   carries <<f, v>>    : v may be the function f,                        *)
(*   stores  <<p, s>>    : a load from p may read what the store s wrote,  *)
(*   derives <<b, g>>    : the GEP g may point into what b points to.      *)
(* Nothing is overwritten or pruned here, and offsets do not count: this   *)
(* models no code.                                                         *)
(***************************************************************************)
EXTENDS LLVMModule

CONSTANTS
  Modules,    \* name -> module that may be analysed
  MaxDepth,   \* activations the native stack holds
  Rounds      \* how often the rules are applied

ASSUME MaxDepthAssumption == MaxDepth \in Nat \ {0}

ASSUME ModulesAssumption == \A name \in DOMAIN Modules : IsModule(Modules[name])

From(R, u) == {t[2] : t \in {x \in R : x[1] = u}}

Returned(m, f) ==
  UNION {ToSet(Inst(m, r).args) : r \in {x \in Insts(m) : x[2] = f /\ Op(m, x) = "ret"}}

\* What the parameter a is given by the calls whose callee may be its function.
Given(m, F, a) ==
  {ActualArg(m, c, a[4]) : c \in
     {d \in Calls(m) : <<a[2], Callee(m, d)>> \in F.carries /\ a[4] + 2 \in DOMAIN Inst(m, d).args}}

\* The parameters of functions in fs that the call c gives the value v.
Formals(m, c, v, fs) ==
  {a \in Arguments(m) :
     a[2] \in fs /\ a[4] + 2 \in DOMAIN Inst(m, c).args /\ ActualArg(m, c, a[4]) = v}

\* Where v comes from, n returns deep.
Sources(m, F, v, n) ==
  LET op == Op(m, v)
  IN  CASE op = "fn"     -> IF n > 0 THEN Returned(m, v[2]) \X {n - 1} ELSE {}
        [] op = "cast"   -> {<<Fn(v[2]), n>>}
        [] op = "global" -> {<<m.init[v[2]], n>>}
        [] op \in {"gep", "phi"} -> ToSet(Inst(m, v).args) \X {n}
        [] op = "load"   -> {Inst(m, s).args[1] : s \in From(F.stores, Inst(m, v).args[1])} \X {n}
        [] op = "arg"    -> Given(m, F, v) \X {n}
        [] op = "call"   -> IF getCalledFunction(m, v) = {} THEN {<<Callee(m, v), n + 1>>}
                            ELSE Returned(m, Callee(m, v)[2]) \X {n}
        [] OTHER         -> {}

\* The functions the call c may call.
Callable(m, F, c) == {v[2] : v \in {x \in From(F.traces, Callee(m, c)) : x[1] = "fn"}}

\* What is a function if v is: what is loaded from where v is stored, a phi of
\* v, a parameter v is given to.
Carriers(m, F, v) ==
  (UNION {UsersOf(m, Inst(m, s).args[2], "load") : s \in UsersOf(m, v, "store")})
    \cup UsersOf(m, v, "phi")
    \cup UNION {Formals(m, c, v, Callable(m, F, c)) : c \in UsersOf(m, v, "call")}

\* What points into what b points to: a GEP, a parameter b is given to.
Derived(m, b) ==
  UsersOf(m, b, "gep")
    \cup UNION {Formals(m, c, b, getCalledFunction(m, c)) : c \in UsersOf(m, b, "call")}

\* The stores whose values a load from p may read.
Writers(m, F, p) ==
  LET bases == {b \in From(F.traces, p) : Op(m, b) = "alloca"}
  IN  CASE Op(m, p) = "gep" ->
             UNION {UsersOf(m, g, "store") : g \in UNION {From(F.derives, b) : b \in bases}}
        [] Op(m, p) = "phi" -> UNION {From(F.stores, q) : q \in ToSet(Inst(m, p).args)}
        [] OTHER -> UsersOf(m, p, "store")

\* What a load, a call and a GEP start from.
Starts(m) == {Callee(m, c) : c \in Calls(m)} \cup {u \in Insts(m) : Op(m, u) = "gep"}

\* Each rule applied once.
Apply(m, F) ==
  [traces  |-> F.traces \cup {<<u, u, 0>> : u \in Starts(m)}
                 \cup UNION {{<<t[1], w[1], w[2]>> :
                                w \in {x \in Sources(m, F, t[2], t[3]) : x[2] <= MaxDepth}}
                             : t \in F.traces},
   carries |-> F.carries \cup {<<f, Fn(f)>> : f \in DOMAIN m.fn}
                 \cup UNION {{<<t[1], w>> : w \in Carriers(m, F, t[2])} : t \in F.carries},
   stores  |-> F.stores \cup UNION {{<<p, s>> : s \in Writers(m, F, p)} : p \in Operated(m)},
   derives |-> F.derives
                 \cup UNION {{<<b, g>> : g \in UsersOf(m, b, "gep")
                                                 \cup UNION {From(F.derives, x) : x \in Derived(m, b)}}
                             : b \in Operated(m)}]

Nothing == [traces |-> {}, carries |-> {}, stores |-> {}, derives |-> {}]

FlowOf ==
  [name \in DOMAIN Modules |->
     LET After[k \in 0 .. Rounds] ==
           IF k = 0 THEN Nothing ELSE LET F == After[k - 1] IN Apply(Modules[name], F)
     IN  After[Rounds]]

ASSUME RoundsAssumption ==
  \A name \in DOMAIN Modules : Apply(Modules[name], FlowOf[name]) = FlowOf[name]
=============================================================================
