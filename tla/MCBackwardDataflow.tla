------------------------- MODULE MCBackwardDataflow -------------------------
(***************************************************************************)
(* Every control flow graph of three blocks, with four instructions placed *)
(* in them and every choice of operands that makes the function valid SSA: *)
(* all blocks reachable from the entry b1, b1 without predecessors, every  *)
(* use dominated by its definition.  i2 is a phi or an ordinary            *)
(* instruction, d is a debug intrinsic.                                    *)
(***************************************************************************)
EXTENDS LivenessByPaths, TLC

CONSTANTS b1, b2, b3, i1, i2, i3, i4, d, arg

MCBlock == {b1, b2, b3}
MCInst  == {i1, i2, i3, i4, d}
MCValue == MCInst \cup {arg}

MCAddresses == {a \in [MCBlock -> 1 .. 3] :
                  \A b, c \in MCBlock : a[b] = a[c] => b = c}

MCCode == (b1 :> <<i1>> @@ b2 :> <<i2, d, i3>> @@ b3 :> <<i4>>)

Home == (i1 :> b1 @@ i2 :> b2 @@ i3 :> b2 @@ i4 :> b3)

Graphs == {g \in [MCBlock -> SUBSET {b2, b3}] : g[b1] # {}}

\* Blocks reached from the entry without going through block x.
ReachedAvoiding(g, x) ==
  LET step(S) == S \cup ((UNION {g[b] : b \in S}) \ {x})
  IN  IF x = b1 THEN {} ELSE step(step({b1}))

Reached(g) == LET step(S) == S \cup UNION {g[b] : b \in S} IN step(step({b1}))

Dominates(g, x, b) == b \notin ReachedAvoiding(g, x)

\* Is value v available at the end of block b?
AvailableIn(g, b, v) == v = arg \/ Dominates(g, Home[v], b)

\* Operand choices: i1 reads an argument; i2 is a phi with one incoming value
\* per predecessor of b2, or reads i1; i3 and i4 read earlier values.
PhiChoices(g) ==
  LET preds == {p \in MCBlock : b2 \in g[p]}
  IN  {in \in [preds -> {arg, i1, i2, i3, i4}] :
         \A p \in preds : AvailableIn(g, p, in[p])}

SecondOps(g, phi) ==
  IF phi THEN {{in[p] : p \in DOMAIN in} : in \in PhiChoices(g)}
         ELSE {{i1, arg}, {arg}}

LastOps(g) == {o \in {{i1}, {i2, i3}, {i1, i3}, {}} :
                 \A v \in o : AvailableIn(g, b3, v)}

MCFunctions(phi) ==
  UNION {
    {[succ |-> g, code |-> MCCode, dbg |-> {d},
      ops  |-> (i1 :> {arg} @@ i2 :> o2 @@ i3 :> o3 @@ i4 :> o4 @@ d :> {arg})] :
       o2 \in SecondOps(g, phi), o3 \in {{i2}, {i1, i2}}, o4 \in LastOps(g)} :
    g \in {h \in Graphs : Reached(h) = MCBlock}}

PlainFunctions == MCFunctions(FALSE)
PhiFunctions   == MCFunctions(TRUE)
AllFunctions   == PlainFunctions \cup PhiFunctions

(***************************************************************************)
(* A smaller family, one instruction per block, for the properties that    *)
(* quantify over every candidate solution: i2 may be a phi of itself.      *)
(***************************************************************************)
SmallInst  == {i1, i2, i3}
SmallValue == SmallInst \cup {arg}

SmallCode == (b1 :> <<i1>> @@ b2 :> <<i2>> @@ b3 :> <<i3>>)

SmallHome == (i1 :> b1 @@ i2 :> b2 @@ i3 :> b3)

SmallFunctions ==
  UNION {
    {[succ |-> g, code |-> SmallCode, dbg |-> {},
      ops  |-> (i1 :> {arg} @@ i2 :> o2 @@ i3 :> o3)] :
       o2 \in {{arg}, {i1}, {i1, i2}, {i1, i3}},
       o3 \in {o \in {{i1}, {i2}, {i1, i2}} :
                 \A v \in o : Dominates(g, SmallHome[v], b3)}} :
    g \in {h \in Graphs : Reached(h) = MCBlock}}

SmallAddresses == {a \in MCAddresses : a[b1] < a[b2]}

-----------------------------------------------------------------------------
(***************************************************************************)
(* In SSA form every use is dominated by its definition, so no value is    *)
(* live when the function is entered.                                      *)
(***************************************************************************)
NothingLiveOnEntry == pc = "done" => result[b1].first = {}
=============================================================================
