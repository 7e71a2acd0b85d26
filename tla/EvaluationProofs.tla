-------------------------- MODULE EvaluationProofs --------------------------
(***************************************************************************)
(* Evaluation before use, for every set of programs: every value that a    *)
(* task of the visitor will ask its frame for is bound there, or will be   *)
(* by a task before it or by the call in progress, and no exception drops  *)
(* the one and not the other.                                              *)
(***************************************************************************)
EXTENDS InterpreterTypeProofs

-----------------------------------------------------------------------------
(***************************************************************************)
(* The invariant.                                                          *)
(***************************************************************************)
\* What the tasks of an activation will have bound when they are done: a visit
\* binds its node, that of an initialiser list its elements.
Gives(t) ==
  IF t.do = "visit" /\ N(t.n).kind = "initlist" THEN Children(t.n)
  ELSE IF t.do \in {"visit", "handle", "branch", "bind"} THEN {t.n} ELSE {}

Picked(n, bound) == Kid(n, IF bound[Kid(n, 1)] # 0 THEN 2 ELSE 3)

\* What a task asks the frame for, when bound is what it binds.
Needs(t, bound) ==
  CASE t.do = "handle" -> Reads(t.n)
    [] t.do \in {"branch", "test"} -> {Cond(t.n)}
    [] t.do = "bind" -> {Picked(t.n, bound)}
    [] OTHER -> {}

\* A task before the k-th gives s, and an exception that spares the k-th spares
\* it as well: no try block ends in between.
Supplied(s, ts, k) ==
  \E j \in 1 .. k - 1 : s \in Gives(ts[j]) /\ \A i \in j .. k - 1 : ts[i].do # "endbody"

\* calls is the call in progress, whose value exit() will bind.
Met(ts, k, bound, calls) ==
  \A s \in Needs(ts[k], bound) : s \in DOMAIN bound \cup calls \/ Supplied(s, ts, k)

\* An exception in flight drops the k-th task unless a try block ends before it.
Spared(ts, k) == \E i \in 1 .. k - 1 : ts[i].do = "endbody"

Waiting(ts, bound, calls, thrown) ==
  \A k \in DOMAIN ts : (thrown => Spared(ts, k)) => Met(ts, k, bound, calls)

\* While a conditional's branch is evaluated its condition keeps its value: the
\* tasks until then are about nodes in the branch.
Choosing(ts, bound, calls) ==
  \A k \in DOMAIN ts : ts[k].do = "bind" =>
    /\ Kid(ts[k].n, 1) \in DOMAIN bound /\ Kid(ts[k].n, 1) \notin calls
    /\ \A j \in 1 .. k - 1 : /\ ts[j].do \notin {"decl", "initGlobalVars"}
                             /\ ts[j].n > ts[k].n /\ ts[j].n # Kid(ts[k].n, 1)

MainLast(ts) == \A k \in DOMAIN ts : ts[k].do = "initGlobalVars" => k = Len(ts)

Supported(ts, bound, calls, thrown) ==
  Waiting(ts, bound, calls, thrown) /\ Choosing(ts, bound, calls) /\ MainLast(ts)

Pending(i) == IF i < Len(ctl) THEN {ctl[i + 1].call} ELSE {}

EvaluationOK ==
  Typed => \A i \in DOMAIN ctl :
    Supported(ctl[i].tasks, mStack[i].exprs, Pending(i), i = Len(ctl) /\ exc # None)

\* The program fixes what gives and needs what.
LEMMA SameUse ==
  ASSUME prog' = prog
  PROVE  /\ Typed' <=> Typed
         /\ \A ts, bound, calls, thrown :
              Supported(ts, bound, calls, thrown)' <=> Supported(ts, bound, calls, thrown)
<1>1. /\ NodeNo' = NodeNo /\ \A n : N(n)' = N(n) /\ Children(n)' = Children(n)
      /\ \A n, i : Kid(n, i)' = Kid(n, i) /\ (Has(n, i)' <=> Has(n, i))
      /\ \A f : Fn(f)' = Fn(f)
  BY DEF NodeNo, N, Kid, Has, Fn, Children
<1>2. \A n : Reads(n)' = Reads(n) /\ Cond(n)' = Cond(n)
  BY <1>1 DEF Reads, Cond, InitElements, TypeOf, Args
<1>3. \A n : (HasValue(n)' <=> HasValue(n)) /\ Uses(n)' = Uses(n)
  BY <1>1, <1>2 DEF HasValue, Uses
<1>4. \A t, bound : Gives(t)' = Gives(t) /\ Needs(t, bound)' = Needs(t, bound)
  BY <1>1, <1>2 DEF Gives, Needs, Picked
<1>5. \A ts, bound, calls :
        /\ \A k : Met(ts, k, bound, calls)' <=> Met(ts, k, bound, calls)
        /\ Choosing(ts, bound, calls)' <=> Choosing(ts, bound, calls)
  BY <1>1, <1>4 DEF Met, Supplied, Choosing
<1>6. \A ts, k : Spared(ts, k)' <=> Spared(ts, k)
  BY DEF Spared
<1>7. \A ts : MainLast(ts)' <=> MainLast(ts)
  BY DEF MainLast
<1>8. Typed' <=> Typed
  BY <1>1, <1>3 DEF Typed
<1> QED BY <1>5, <1>6, <1>7, <1>8 DEF Supported, Waiting

\* What a task needs has a value, and what gives a value is a node.
LEMMA NeedsValues ==
  ASSUME ProgramOK, Typed, NEW t \in ProperTasks, NEW bound, NEW s \in NodeNo, s \in Needs(t, bound)
  PROVE  HasValue(s)
<1>1. \A n \in NodeNo : s \in Uses(n) => HasValue(s)
  BY DEF Typed
<1>2. CASE t.do = "handle"
  <2>1. t.n \in Nodes(Handled)
    BY <1>2 DEF ProperTasks
  <2>2. t.n \in NodeNo /\ N(t.n).kind \notin {"if", "cond", "while", "for"}
    BY <2>1 DEF Nodes, Handled, LeafKinds, ExprKinds
  <2>3. s \in Uses(t.n)
    BY <1>2, <2>2 DEF Needs, Uses
  <2> QED BY <1>1, <2>2, <2>3
<1>3. CASE t.do = "branch"
  <2>1. t.n \in NodeNo /\ N(t.n).kind \in {"if", "cond"} /\ s = Cond(t.n)
    BY <1>3 DEF ProperTasks, Nodes, Needs
  <2>2. s \in Uses(t.n)
    BY <2>1 DEF Uses, Cond
  <2> QED BY <1>1, <2>1, <2>2
<1>4. CASE t.do = "test"
  <2>1. t.n \in NodeNo /\ N(t.n).kind \in {"while", "for"} /\ s = Cond(t.n)
    BY <1>4 DEF ProperTasks, Nodes, LoopKinds, Needs
  <2>2. s # Null
    BY NodeShape DEF Null
  <2>3. s \in Uses(t.n)
    BY <2>1, <2>2 DEF Uses
  <2> QED BY <1>1, <2>1, <2>3
<1>5. CASE t.do = "bind"
  <2>1. t.n \in NodeNo /\ N(t.n).kind = "cond" /\ s = Picked(t.n, bound)
    BY <1>5 DEF ProperTasks, Nodes, Needs
  <2>2. s \in Uses(t.n)
    BY <2>1 DEF Uses, Picked
  <2> QED BY <1>1, <2>1, <2>2
<1> QED BY <1>2, <1>3, <1>4, <1>5 DEF Needs

LEMMA GivesNodes ==
  ASSUME ProgramOK, NEW t \in ProperTasks
  PROVE  Gives(t) \subseteq NodeNo
<1>1. t.do \in {"visit", "handle", "branch", "bind"} => t.n \in NodeNo
  BY DEF ProperTasks, Nodes
<1>2. t.n \in NodeNo => Children(t.n) \subseteq NodeNo
  BY NodeShape
<1> QED BY <1>1, <1>2 DEF Gives

\* The tasks after the first.
LEMMA Shifted ==
  ASSUME NEW ts \in Seq(ProperTasks), ts # <<>>
  PROVE  /\ Len(ts) \in Nat \ {0} /\ DOMAIN ts = 1 .. Len(ts)
         /\ Head(ts) = ts[1] /\ Head(ts) \in ProperTasks
         /\ Tail(ts) \in Seq(ProperTasks) /\ Len(Tail(ts)) = Len(ts) - 1
         /\ DOMAIN Tail(ts) = 1 .. Len(ts) - 1
         /\ \A i \in 1 .. Len(ts) - 1 : Tail(ts)[i] = ts[i + 1]
<1>1. Len(ts) \in Nat \ {0} /\ DOMAIN ts = 1 .. Len(ts)
  BY EmptySeq, LenProperties
<1>2. Head(ts) = ts[1] /\ ts[1] \in ProperTasks
  BY <1>1, ElementOfSeq
<1>3. Tail(ts) \in Seq(ProperTasks) /\ Len(Tail(ts)) = Len(ts) - 1
  BY HeadTailProperties
<1> QED BY <1>1, <1>2, <1>3, HeadTailProperties, LenProperties

\* Tasks that ask for nothing.
Asking == {"handle", "branch", "test", "bind"}

LEMMA NothingAsked ==
  ASSUME NEW ts, \A k \in DOMAIN ts : ts[k].do \notin Asking, MainLast(ts),
         NEW bound, NEW calls, NEW thrown
  PROVE  Supported(ts, bound, calls, thrown)
<1>1. \A k \in DOMAIN ts : Needs(ts[k], bound) = {} /\ ts[k].do # "bind"
  BY DEF Asking, Needs
<1> QED BY <1>1 DEF Supported, Waiting, Met, Choosing

\* An exception drops the first task, or leaves a try block.
LEMMA FirstDropped ==
  ASSUME NEW ts \in Seq(ProperTasks), ts # <<>>, NEW bound, NEW thrown, NEW after,
         Supported(ts, bound, {}, thrown),
         after \/ Head(ts).do = "endbody"
  PROVE  Supported(Tail(ts), bound, {}, after)
<1> DEFINE r == Tail(ts)
<1>1. /\ Len(ts) \in Nat \ {0} /\ DOMAIN ts = 1 .. Len(ts) /\ Head(ts) = ts[1]
      /\ Len(r) = Len(ts) - 1 /\ DOMAIN r = 1 .. Len(ts) - 1
      /\ \A i \in 1 .. Len(ts) - 1 : r[i] = ts[i + 1]
  BY Shifted
<1> HIDE DEF r
<1>2. ASSUME NEW k \in DOMAIN r, after => Spared(r, k)
      PROVE  Met(r, k, bound, {})
  <2>1. k + 1 \in DOMAIN ts /\ r[k] = ts[k + 1] /\ k \in Nat /\ k >= 1
    BY <1>1
  <2>2. PICK e \in 1 .. k : ts[e].do = "endbody"
    <3>1. CASE after
      <4>1. PICK i \in 1 .. k - 1 : r[i].do = "endbody"
        BY <1>2, <3>1 DEF Spared
      <4>2. i + 1 \in 1 .. k /\ ts[i + 1] = r[i]
        BY <1>1, <2>1
      <4> QED BY <4>1, <4>2
    <3>2. CASE Head(ts).do = "endbody"
      BY <1>1, <2>1, <3>2
    <3> QED BY <3>1, <3>2
  <2>3. Spared(ts, k + 1)
    BY <2>1, <2>2 DEF Spared
  <2>4. Met(ts, k + 1, bound, {})
    BY <2>1, <2>3 DEF Supported, Waiting
  <2> SUFFICES ASSUME NEW s \in Needs(r[k], bound), s \notin DOMAIN bound
               PROVE  Supplied(s, r, k)
    BY DEF Met
  <2>5. PICK j \in 1 .. k : s \in Gives(ts[j]) /\ \A i \in j .. k : ts[i].do # "endbody"
    BY <2>1, <2>4 DEF Met, Supplied
  <2>6. j > e
    BY <2>1, <2>2, <2>5
  <2>7. j - 1 \in 1 .. k - 1 /\ r[j - 1] = ts[j]
    BY <1>1, <2>1, <2>5, <2>6
  <2>8. \A i \in j - 1 .. k - 1 : i + 1 \in j .. k /\ r[i] = ts[i + 1]
    BY <1>1, <2>1, <2>7
  <2> QED BY <2>5, <2>7, <2>8 DEF Supplied
<1>3. ASSUME NEW k \in DOMAIN r, r[k].do = "bind"
      PROVE  /\ Kid(r[k].n, 1) \in DOMAIN bound
             /\ \A j \in 1 .. k - 1 : /\ r[j].do \notin {"decl", "initGlobalVars"}
                                      /\ r[j].n > r[k].n /\ r[j].n # Kid(r[k].n, 1)
  <2>1. k + 1 \in DOMAIN ts /\ r[k] = ts[k + 1]
    BY <1>1
  <2>2. \A j \in 1 .. k - 1 : j + 1 \in 1 .. (k + 1) - 1 /\ r[j] = ts[j + 1]
    BY <1>1
  <2> QED BY <1>3, <2>1, <2>2 DEF Supported, Choosing
<1>4. MainLast(r)
  BY <1>1 DEF Supported, MainLast
<1> QED BY <1>2, <1>3, <1>4 DEF Supported, Waiting, Choosing, r

\* The catch of a try block goes on with the loop.
LEMMA Caught ==
  ASSUME NEW ts \in Seq(ProperTasks), ts # <<>>, NEW bound, NEW thrown, NEW after,
         Supported(ts, bound, {}, thrown), Head(ts).do = "endbody"
  PROVE  Supported(ts, bound, {}, after)
<1>1. Len(ts) \in Nat \ {0} /\ DOMAIN ts = 1 .. Len(ts) /\ Head(ts) = ts[1]
  BY Shifted
<1>2. ASSUME NEW k \in DOMAIN ts
      PROVE  Met(ts, k, bound, {})
  <2>1. CASE k = 1
    <3>1. Needs(ts[k], bound) = {}
      BY <1>1, <2>1 DEF Needs
    <3> QED BY <3>1 DEF Met
  <2>2. CASE k > 1
    <3>1. Spared(ts, k)
      BY <1>1, <2>2 DEF Spared
    <3> QED BY <3>1 DEF Supported, Waiting
  <2> QED BY <1>1, <2>1, <2>2
<1> QED BY <1>2 DEF Supported, Waiting

\* A call returns: its value is bound if it has one.
LEMMA Returned ==
  ASSUME ProgramOK, Typed, NEW ts \in Seq(ProperTasks), NEW bound, NEW call_ \in NodeNo,
         Supported(ts, bound, {call_}, FALSE),
         NEW after, DOMAIN bound \subseteq DOMAIN after, HasValue(call_) => call_ \in DOMAIN after,
         \A x \in DOMAIN bound : x # call_ => after[x] = bound[x]
  PROVE  Supported(ts, after, {}, FALSE)
<1>0. DOMAIN ts = 1 .. Len(ts)
  BY LenProperties
<1>1. ASSUME NEW k \in DOMAIN ts, ts[k].do = "bind"
      PROVE  Picked(ts[k].n, after) = Picked(ts[k].n, bound)
  BY <1>1 DEF Supported, Choosing, Picked
<1>2. ASSUME NEW k \in DOMAIN ts
      PROVE  Met(ts, k, after, {})
  <2>1. Met(ts, k, bound, {call_}) /\ Needs(ts[k], after) = Needs(ts[k], bound)
    BY <1>1 DEF Supported, Waiting, Needs
  <2>2. ts[k] \in ProperTasks
    BY <1>0, ElementOfSeq
  <2>3. call_ \in Needs(ts[k], bound) => HasValue(call_)
    BY <2>2, NeedsValues
  <2> QED BY <2>1, <2>3 DEF Met
<1>3. Choosing(ts, after, {}) /\ MainLast(ts)
  BY DEF Supported, Choosing
<1> QED BY <1>2, <1>3 DEF Supported, Waiting

\* What a frame keeps when the first task is done: everything but its node.
KeepsOthers(bound, after, n) ==
  /\ DOMAIN bound \subseteq DOMAIN after
  /\ \A x \in DOMAIN bound : x # n => after[x] = bound[x]

\* front, in the place of task t, makes up for it.
Replaces(front, t, after, calls) ==
  /\ front \in Seq(ProperTasks)
  /\ \A k \in DOMAIN front : Met(front, k, after, calls)
  /\ Choosing(front, after, calls)
  /\ calls \subseteq {t.n}
  /\ \A k \in DOMAIN front : front[k].do # "initGlobalVars"
  /\ t.do \in {"decl", "initGlobalVars"} \/
       \A k \in DOMAIN front : front[k].do # "decl" /\ front[k].n \in {t.n} \cup Children(t.n)
  /\ \A s \in Gives(t) : HasValue(s) =>
       \/ s \in DOMAIN after \cup calls
       \/ \E j \in DOMAIN front : /\ s \in Gives(front[j])
                                  /\ \A i \in DOMAIN front : i >= j => front[i].do # "endbody"

\* Nodes are numbered parents first.
LEMMA ChildrenAfter ==
  ASSUME ProgramOK
  PROVE  /\ NodeNo \subseteq Nat
         /\ \A n \in NodeNo : \A c \in Children(n) : c \in Nat /\ c > n
<1>1. NodeNo \subseteq Nat
  <2>1. prog.node \in Seq(Node)
    BY ProgramsAssumption DEF ProgramOK, IsProgram
  <2> QED BY <2>1, LenProperties DEF NodeNo
<1>2. ASSUME NEW n \in NodeNo, NEW c \in Children(n)
      PROVE  c \in Nat /\ c > n
  <2>1. PICK i \in DOMAIN N(n).kids : c = Kid(n, i) /\ c # Null
    BY DEF Children
  <2>2. c \in n + 1 .. Len(prog.node) /\ Len(prog.node) \in Nat /\ n \in Nat
    BY <1>1, <2>1, NodeShape
  <2> QED BY <2>2
<1> QED BY <1>1, <1>2

LEMMA GoesOn ==
  ASSUME ProgramOK, Typed, NEW ts \in Seq(ProperTasks), ts # <<>>, NEW bound,
         Supported(ts, bound, {}, FALSE),
         NEW front, NEW after, NEW calls, Replaces(front, Head(ts), after, calls),
         KeepsOthers(bound, after, Head(ts).n)
  PROVE  Supported(front \o Tail(ts), after, calls, FALSE)
<1> DEFINE r == Tail(ts)
           u == front \o Tail(ts)
           L == Len(front)
           t == Head(ts)
<1>1. /\ Len(ts) \in Nat \ {0} /\ DOMAIN ts = 1 .. Len(ts) /\ t = ts[1] /\ t \in ProperTasks
      /\ r \in Seq(ProperTasks) /\ Len(r) = Len(ts) - 1 /\ DOMAIN r = 1 .. Len(ts) - 1
      /\ \A i \in 1 .. Len(ts) - 1 : r[i] = ts[i + 1]
  BY Shifted
<1>2. /\ L \in Nat /\ DOMAIN front = 1 .. L /\ u \in Seq(ProperTasks)
      /\ DOMAIN u = 1 .. L + Len(r) /\ Len(u) = L + Len(r)
      /\ \A k \in 1 .. L : u[k] = front[k]
      /\ \A k \in 1 .. Len(r) : u[L + k] = r[k]
  <2>1. front \in Seq(ProperTasks) /\ r \in Seq(ProperTasks)
    BY <1>1 DEF Replaces
  <2>2. Len(front \o r) = Len(front) + Len(r)
    BY <2>1, ConcatProperties
  <2> HIDE DEF r
  <2> QED BY <2>1, <2>2, Concatenated DEF r
<1> HIDE DEF r, u, L, t
<1>3. \A k \in DOMAIN u : k \in 1 .. L \/ \E m \in 1 .. Len(ts) - 1 : k = L + m
  <2> SUFFICES ASSUME NEW k \in DOMAIN u, k \notin 1 .. L
               PROVE  \E m \in 1 .. Len(ts) - 1 : k = L + m
    OBVIOUS
  <2>1. k - L \in 1 .. Len(ts) - 1 /\ k = L + (k - L)
    BY <1>1, <1>2
  <2> QED BY <2>1
<1>4. \A m \in 1 .. Len(ts) - 1 :
        /\ L + m \in DOMAIN u /\ u[L + m] = ts[m + 1] /\ m + 1 \in DOMAIN ts
        /\ ts[m + 1] \in ProperTasks
  <2> SUFFICES ASSUME NEW m \in 1 .. Len(ts) - 1
               PROVE  /\ L + m \in DOMAIN u /\ u[L + m] = ts[m + 1] /\ m + 1 \in DOMAIN ts
                      /\ ts[m + 1] \in ProperTasks
    OBVIOUS
  <2>1. m \in 1 .. Len(r) /\ m + 1 \in DOMAIN ts /\ r[m] = ts[m + 1]
    BY <1>1
  <2>2. L + m \in DOMAIN u /\ u[L + m] = r[m]
    BY <1>1, <1>2, <2>1
  <2> QED BY <1>1, <2>1, <2>2, ElementOfSeq
<1>5. ASSUME NEW m \in 1 .. Len(ts) - 1, ts[m + 1].do = "bind"
      PROVE  /\ Kid(ts[m + 1].n, 1) \in DOMAIN bound
             /\ t.do \notin {"decl", "initGlobalVars"} /\ t.n > ts[m + 1].n
             /\ t.n # Kid(ts[m + 1].n, 1)
             /\ \A j \in 2 .. m : /\ ts[j].do \notin {"decl", "initGlobalVars"}
                                  /\ ts[j].n > ts[m + 1].n /\ ts[j].n # Kid(ts[m + 1].n, 1)
  <2>1. \A j \in 1 .. (m + 1) - 1 : /\ ts[j].do \notin {"decl", "initGlobalVars"}
                                    /\ ts[j].n > ts[m + 1].n /\ ts[j].n # Kid(ts[m + 1].n, 1)
    BY <1>4, <1>5 DEF Supported, Choosing
  <2>2. Kid(ts[m + 1].n, 1) \in DOMAIN bound
    BY <1>4, <1>5 DEF Supported, Choosing
  <2>3. 1 \in 1 .. (m + 1) - 1 /\ \A j \in 2 .. m : j \in 1 .. (m + 1) - 1
    OBVIOUS
  <2> QED BY <1>1, <2>1, <2>2, <2>3
<1>6. ASSUME NEW k \in 1 .. L
      PROVE  Met(u, k, after, calls)
  <2>1. Met(front, k, after, calls)
    BY <1>2 DEF Replaces
  <2>2. \A j \in 1 .. k : u[j] = front[j]
    BY <1>2
  <2> QED BY <2>1, <2>2 DEF Met, Supplied
<1>7. ASSUME NEW m \in 1 .. Len(ts) - 1
      PROVE  Met(u, L + m, after, calls)
  <2> DEFINE x == ts[m + 1]
  <2>1. Needs(x, after) = Needs(x, bound)
    <3>1. x.do = "bind" => Picked(x.n, after) = Picked(x.n, bound)
      BY <1>5 DEF Picked, KeepsOthers, t
    <3> QED BY <3>1 DEF Needs
  <2>2. Met(ts, m + 1, bound, {})
    BY <1>4 DEF Supported, Waiting
  <2> SUFFICES ASSUME NEW s \in Needs(x, bound), s \notin DOMAIN after, s \notin calls
               PROVE  Supplied(s, u, L + m)
    BY <1>4, <2>1 DEF Met
  <2>3. PICK j \in 1 .. m : s \in Gives(ts[j]) /\ \A i \in j .. m : ts[i].do # "endbody"
    <3>1. Supplied(s, ts, m + 1)
      BY <2>2 DEF Met, KeepsOthers
    <3>2. (m + 1) - 1 = m
      BY <1>1
    <3> QED BY <3>1, <3>2 DEF Supplied
  <2>4. CASE j = 1
    <3>1. s \in Gives(t) /\ s \in NodeNo
      BY <1>1, <2>3, <2>4, GivesNodes
    <3>2. HasValue(s)
      BY <1>4, <3>1, NeedsValues
    <3>3. PICK p \in DOMAIN front : /\ s \in Gives(front[p])
                                    /\ \A i \in DOMAIN front : i >= p => front[i].do # "endbody"
      BY <3>1, <3>2 DEF Replaces, t
    <3>4. p \in 1 .. (L + m) - 1 /\ u[p] = front[p]
      BY <1>2, <3>3
    <3>5. ASSUME NEW i \in p .. (L + m) - 1
          PROVE  u[i].do # "endbody"
      <4>1. CASE i \in 1 .. L
        BY <1>2, <3>3, <4>1
      <4>2. CASE i > L
        <5>1. i - L \in 1 .. m - 1 /\ i = L + (i - L) /\ i - L + 1 \in j .. m
              /\ i - L \in 1 .. Len(ts) - 1
          BY <1>2, <2>4, <4>2
        <5>2. u[L + (i - L)] = ts[i - L + 1]
          BY <1>4, <5>1
        <5> QED BY <2>3, <5>1, <5>2
      <4> QED BY <1>2, <3>4, <4>1, <4>2
    <3> QED BY <3>3, <3>4, <3>5 DEF Supplied
  <2>5. CASE j > 1
    <3>1. j - 1 \in 1 .. Len(ts) - 1 /\ L + (j - 1) \in 1 .. (L + m) - 1 /\ (j - 1) + 1 = j
      BY <1>1, <1>2, <2>3, <2>5
    <3>2. u[L + (j - 1)] = ts[j]
      BY <1>4, <3>1
    <3>3. ASSUME NEW i \in L + (j - 1) .. (L + m) - 1
          PROVE  u[i].do # "endbody"
      <4>1. i - L \in 1 .. Len(ts) - 1 /\ i = L + (i - L) /\ i - L + 1 \in j .. m
        BY <1>1, <1>2, <2>3, <2>5
      <4>2. u[L + (i - L)] = ts[i - L + 1]
        BY <1>4, <4>1
      <4> QED BY <2>3, <4>1, <4>2
    <3> QED BY <2>3, <3>1, <3>2, <3>3 DEF Supplied
  <2> QED BY <2>3, <2>4, <2>5
<1>8. Waiting(u, after, calls, FALSE)
  BY <1>3, <1>6, <1>7 DEF Waiting
<1>9. ASSUME NEW k \in 1 .. L, u[k].do = "bind"
      PROVE  /\ Kid(u[k].n, 1) \in DOMAIN after /\ Kid(u[k].n, 1) \notin calls
             /\ \A j \in 1 .. k - 1 : /\ u[j].do \notin {"decl", "initGlobalVars"}
                                      /\ u[j].n > u[k].n /\ u[j].n # Kid(u[k].n, 1)
  <2>1. \A j \in 1 .. k : u[j] = front[j]
    BY <1>2
  <2> QED BY <1>2, <1>9, <2>1 DEF Replaces, Choosing
<1>10. ASSUME NEW m \in 1 .. Len(ts) - 1, ts[m + 1].do = "bind"
       PROVE  /\ Kid(ts[m + 1].n, 1) \in DOMAIN after /\ Kid(ts[m + 1].n, 1) \notin calls
              /\ \A j \in 1 .. (L + m) - 1 :
                   /\ u[j].do \notin {"decl", "initGlobalVars"}
                   /\ u[j].n > ts[m + 1].n /\ u[j].n # Kid(ts[m + 1].n, 1)
  <2> DEFINE n == ts[m + 1].n
  <2>1. /\ Kid(n, 1) \in DOMAIN bound /\ t.n > n /\ t.n # Kid(n, 1)
        /\ t.do \notin {"decl", "initGlobalVars"}
    BY <1>5, <1>10
  <2>2. Kid(n, 1) \in DOMAIN after /\ Kid(n, 1) \notin calls
    BY <2>1 DEF Replaces, KeepsOthers, t
  <2>3. t.n \in NodeNo /\ n \in NodeNo /\ N(n).kind = "cond" /\ 1 \in DOMAIN N(n).kids
    <3>1. t.n \in NodeNo
      BY <1>1, <2>1 DEF ProperTasks, Nodes
    <3>2. n \in NodeNo /\ N(n).kind = "cond"
      BY <1>4, <1>10 DEF ProperTasks, Nodes
    <3> QED BY <3>1, <3>2, Selections
  <2> HIDE DEF n
  <2>4. ASSUME NEW c \in Children(t.n)
        PROVE  c > n /\ c # Kid(n, 1)
    <3>1. PICK i \in DOMAIN N(t.n).kids : c = Kid(t.n, i) /\ c # Null
      BY DEF Children
    <3>2. c > t.n /\ c \in Nat /\ t.n \in Nat /\ n \in Nat
      BY <2>3, ChildrenAfter
    <3>3. c # Kid(n, 1)
      <4> SUFFICES ASSUME c = Kid(n, 1) PROVE FALSE
        OBVIOUS
      <4>1. t.n = n
        BY <2>3, <3>1, OneParent
      <4> QED BY <2>1, <3>2, <4>1
    <3> QED BY <2>1, <3>2, <3>3
  <2>5. ASSUME NEW j \in 1 .. L
        PROVE  u[j].do \notin {"decl", "initGlobalVars"} /\ u[j].n > n /\ u[j].n # Kid(n, 1)
    <3>1. /\ u[j] = front[j] /\ front[j].do \notin {"decl", "initGlobalVars"}
          /\ front[j].n \in {t.n} \cup Children(t.n)
      BY <1>2, <2>1 DEF Replaces, t
    <3> QED BY <2>1, <2>4, <3>1
  <2>6. ASSUME NEW j \in L + 1 .. (L + m) - 1
        PROVE  u[j].do \notin {"decl", "initGlobalVars"} /\ u[j].n > n /\ u[j].n # Kid(n, 1)
    <3>1. j - L \in 1 .. Len(ts) - 1 /\ j = L + (j - L) /\ j - L + 1 \in 2 .. m
      BY <1>2
    <3>2. u[L + (j - L)] = ts[j - L + 1]
      BY <1>4, <3>1
    <3> QED BY <1>5, <1>10, <3>1, <3>2 DEF n
  <2>7. \A j \in 1 .. (L + m) - 1 : j \in 1 .. L \/ j \in L + 1 .. (L + m) - 1
    BY <1>2
  <2> QED BY <2>2, <2>5, <2>6, <2>7 DEF n
<1>11. Choosing(u, after, calls)
  <2> SUFFICES ASSUME NEW k \in DOMAIN u, u[k].do = "bind"
               PROVE  /\ Kid(u[k].n, 1) \in DOMAIN after /\ Kid(u[k].n, 1) \notin calls
                      /\ \A j \in 1 .. k - 1 : /\ u[j].do \notin {"decl", "initGlobalVars"}
                                               /\ u[j].n > u[k].n /\ u[j].n # Kid(u[k].n, 1)
    BY DEF Choosing
  <2>1. CASE k \in 1 .. L
    BY <1>9, <2>1
  <2>2. CASE \E m \in 1 .. Len(ts) - 1 : k = L + m
    BY <1>4, <1>10, <2>2
  <2> QED BY <1>3, <2>1, <2>2
<1>12. MainLast(u)
  <2> SUFFICES ASSUME NEW k \in DOMAIN u, u[k].do = "initGlobalVars" PROVE k = Len(u)
    BY DEF MainLast
  <2>1. Len(u) = L + Len(r)
    BY <1>2
  <2>2. CASE k \in 1 .. L
    BY <1>2, <2>2 DEF Replaces
  <2>3. ASSUME NEW m \in 1 .. Len(ts) - 1, k = L + m
        PROVE  k = Len(u)
    <3>1. m + 1 = Len(ts)
      BY <1>4, <2>3 DEF Supported, MainLast
    <3> QED BY <1>1, <1>2, <2>1, <2>3, <3>1
  <2> QED BY <1>3, <2>2, <2>3
<1> QED BY <1>8, <1>11, <1>12 DEF Supported, u

-----------------------------------------------------------------------------
(***************************************************************************)
(* What the visitor puts in front makes up for the task it replaces.       *)
(***************************************************************************)
Visits(n) == Seq({Task("visit", k) : k \in Children(n)})

LEMMA VisitsShape ==
  ASSUME ProgramOK, NEW n \in NodeNo, NEW A \in Visits(n)
  PROVE  /\ A \in Seq(ProperTasks) /\ DOMAIN A = 1 .. Len(A) /\ Len(A) \in Nat
         /\ \A j \in DOMAIN A : A[j].do = "visit" /\ A[j].n \in Children(n)
<1> DEFINE V == {Task("visit", k) : k \in Children(n)}
<1>1. \A x \in V : x \in ProperTasks /\ x.do = "visit" /\ x.n \in Children(n)
  <2>1. Children(n) \subseteq NodeNo
    BY NodeShape
  <2> QED BY <2>1, VisitTask DEF Task
<1>2. A \in Seq(V)
  BY DEF Visits
<1> HIDE DEF V
<1>3. A \in Seq(ProperTasks)
  BY <1>1, <1>2, SeqMonotonic
<1>4. Len(A) \in Nat /\ DOMAIN A = 1 .. Len(A) /\ \A j \in DOMAIN A : A[j] \in V
  BY <1>2, LenProperties, ElementOfSeq
<1> QED BY <1>1, <1>3, <1>4

\* Visiting s, or the list it stands in, gives it its value.
LEMMA VisitGives ==
  ASSUME NEW k
  PROVE  /\ HasValue(k) => Gives(Task("visit", k)) = {k}
         /\ N(k).kind = "initlist" => Gives(Task("visit", k)) = Children(k)
<1>1. Task("visit", k).do = "visit" /\ Task("visit", k).n = k
  BY DEF Task
<1>2. HasValue(k) => N(k).kind # "initlist"
  BY DEF HasValue
<1> DEFINE t == Task("visit", k)
<1> HIDE DEF t
<1>3. CASE N(k).kind = "initlist"
  <2>1. Gives(t) = Children(k)
    BY <1>1, <1>3 DEF Gives, t
  <2> QED BY <1>2, <1>3, <2>1 DEF t
<1>4. CASE N(k).kind # "initlist"
  <2>1. Gives(t) = {k}
    BY <1>1, <1>4 DEF Gives, t
  <2> QED BY <1>4, <2>1 DEF t
<1> QED BY <1>3, <1>4

\* Only visits of its node's children.
LEMMA VisitsReplace ==
  ASSUME ProgramOK, NEW t \in ProperTasks, t.do \notin {"decl", "initGlobalVars"}, t.n \in NodeNo,
         NEW A \in Visits(t.n), NEW after,
         \A s \in Gives(t) : HasValue(s) => \/ s \in DOMAIN after
                                            \/ \E j \in DOMAIN A : s \in Gives(A[j])
  PROVE  Replaces(A, t, after, {})
<1>1. /\ A \in Seq(ProperTasks)
      /\ \A j \in DOMAIN A : A[j].do = "visit" /\ A[j].n \in Children(t.n)
  BY VisitsShape
<1>2. \A k \in DOMAIN A : Met(A, k, after, {}) /\ A[k].do # "bind"
  BY <1>1 DEF Met, Needs
<1>3. Choosing(A, after, {})
  BY <1>2 DEF Choosing
<1> QED BY <1>1, <1>2, <1>3 DEF Replaces

\* Visits of its node's children, then something to do with it.
LEMMA VisitsThenReplace ==
  ASSUME ProgramOK, NEW t \in ProperTasks, t.do \notin {"decl", "initGlobalVars"},
         NEW n \in NodeNo, t.n = n,
         NEW A \in Visits(n), NEW do, Task(do, n) \in ProperTasks,
         do \notin {"decl", "initGlobalVars"}, NEW after,
         \A s \in Needs(Task(do, n), after) :
           s \in DOMAIN after \/ \E j \in DOMAIN A : s \in Gives(A[j]),
         \A s \in Gives(t) : HasValue(s) => s \in Gives(Task(do, n)) /\ do # "endbody",
         do = "bind" => /\ Kid(n, 1) \in DOMAIN after
                        /\ \A j \in DOMAIN A : A[j].n # Kid(n, 1)
  PROVE  Replaces(A \o <<Task(do, n)>>, t, after, {})
<1> DEFINE x == Task(do, n)
           F == A \o <<x>>
           L == Len(A)
<1>1. /\ A \in Seq(ProperTasks) /\ DOMAIN A = 1 .. L /\ L \in Nat
      /\ \A j \in DOMAIN A : A[j].do = "visit" /\ A[j].n \in Children(n)
  BY VisitsShape
<1>2. x.do = do /\ x.n = n /\ x \in ProperTasks
  BY DEF Task
<1> HIDE DEF x
<1>3. /\ F \in Seq(ProperTasks) /\ DOMAIN F = 1 .. L + 1
      /\ \A k \in 1 .. L : F[k] = A[k]
      /\ F[L + 1] = x
  <2> DEFINE S == <<x>>
  <2>1. S \in Seq(ProperTasks) /\ Len(S) = 1 /\ DOMAIN S = {1} /\ S[1] = x
    BY <1>2
  <2> HIDE DEF S
  <2>2. /\ A \o S \in Seq(ProperTasks) /\ DOMAIN (A \o S) = 1 .. L + Len(S)
        /\ \A k \in DOMAIN A : (A \o S)[k] = A[k]
        /\ \A k \in DOMAIN S : (A \o S)[L + k] = S[k]
    BY <1>1, <2>1, Concatenated
  <2>3. (A \o S)[L + 1] = x
    BY <2>1, <2>2
  <2> QED BY <1>1, <2>1, <2>2, <2>3 DEF S
<1> HIDE DEF F, L
<1>4. \A k \in DOMAIN F : k \in 1 .. L \/ k = L + 1
  BY <1>1, <1>3
<1>5. ASSUME NEW k \in 1 .. L
      PROVE  Met(F, k, after, {}) /\ F[k].do \notin {"bind", "endbody", "decl", "initGlobalVars"}
             /\ F[k].n \in Children(n)
  BY <1>1, <1>3 DEF Met, Needs
<1>6. Met(F, L + 1, after, {})
  <2> SUFFICES ASSUME NEW s \in Needs(x, after), s \notin DOMAIN after
               PROVE  Supplied(s, F, L + 1)
    BY <1>3 DEF Met
  <2>1. PICK j \in 1 .. L : s \in Gives(A[j])
    BY <1>1 DEF x
  <2>2. (L + 1) - 1 = L
    BY <1>1
  <2>3. \A i \in j .. L : F[i].do # "endbody"
    BY <1>1, <1>5
  <2> QED BY <1>3, <2>1, <2>2, <2>3 DEF Supplied
<1>7. Choosing(F, after, {})
  <2> SUFFICES ASSUME NEW k \in DOMAIN F, F[k].do = "bind"
               PROVE  /\ Kid(F[k].n, 1) \in DOMAIN after
                      /\ \A j \in 1 .. k - 1 : /\ F[j].do \notin {"decl", "initGlobalVars"}
                                               /\ F[j].n > F[k].n /\ F[j].n # Kid(F[k].n, 1)
    BY DEF Choosing
  <2>1. k = L + 1 /\ F[k] = x /\ do = "bind"
    BY <1>2, <1>3, <1>4, <1>5
  <2>2. (L + 1) - 1 = L
    BY <1>1
  <2>3. ASSUME NEW j \in 1 .. L
        PROVE  F[j].n > n /\ F[j].n # Kid(n, 1)
    <3>1. F[j] = A[j] /\ A[j].n \in Children(n) /\ A[j].n # Kid(n, 1)
      BY <1>1, <1>3, <2>1
    <3>2. \A c \in Children(n) : c > n
      BY ChildrenAfter
    <3> QED BY <3>1, <3>2
  <2> QED BY <1>2, <1>5, <2>1, <2>2, <2>3
<1>8. ASSUME NEW s \in Gives(t), HasValue(s)
      PROVE  \E j \in DOMAIN F : /\ s \in Gives(F[j])
                                 /\ \A i \in DOMAIN F : i >= j => F[i].do # "endbody"
  <2>1. L + 1 \in DOMAIN F /\ s \in Gives(F[L + 1]) /\ F[L + 1].do # "endbody"
    BY <1>1, <1>2, <1>3, <1>8 DEF x
  <2>2. \A i \in DOMAIN F : i >= L + 1 => i = L + 1
    BY <1>1, <1>4
  <2> QED BY <2>1, <2>2
<1>9. \A k \in DOMAIN F : /\ Met(F, k, after, {})
                          /\ F[k].do \notin {"decl", "initGlobalVars"}
                          /\ F[k].n \in {n} \cup Children(n)
  BY <1>2, <1>3, <1>4, <1>5, <1>6
<1> QED BY <1>3, <1>7, <1>8, <1>9 DEF Replaces, F, x

-----------------------------------------------------------------------------
(***************************************************************************)
(* A step of the program, and the invariant.                               *)
(***************************************************************************)
\* What a step does to the activations.
EvalStep ==
  \/ \E ts : ctl' = Continue(ts) /\ Supported(ts, currentFrame.exprs', {}, exc' # None)
  \/ UNCHANGED ctl /\ Supported(Tasks, currentFrame.exprs', {}, exc' # None)
  \/ /\ \E ts, body, n :
          /\ ctl' = Append(Continue(ts), [call |-> n, tasks |-> body])
          /\ Supported(ts, currentFrame.exprs, {n}, FALSE)
          /\ Supported(body, currentFrame.exprs', {}, FALSE)
     /\ exc' = None
  \/ /\ Len(ctl) > 1
     /\ ctl' = Pop(ctl)
     /\ exc' = None
     /\ Supported(ctl[Len(ctl) - 1].tasks, currentFrame.exprs', {}, FALSE)

LEMMA Top ==
  ASSUME TypesOK, Typed, EvaluationOK
  PROVE  /\ ProgramOK
         /\ IsSeq(ctl) /\ Len(ctl) \in Nat \ {0} /\ DOMAIN ctl = 1 .. Len(ctl)
         /\ Len(mStack) = Len(ctl) /\ DOMAIN mStack = 1 .. Len(ctl)
         /\ Tasks \in Seq(ProperTasks)
         /\ Supported(Tasks, currentFrame.exprs, {}, exc # None)
         /\ \A i \in 1 .. Len(ctl) - 1 :
              Supported(ctl[i].tasks, mStack[i].exprs, {ctl[i + 1].call}, FALSE)
<1>1. /\ ProgramOK /\ ActivationsOK
      /\ IsSeq(ctl) /\ Len(ctl) \in Nat \ {0} /\ DOMAIN ctl = 1 .. Len(ctl)
      /\ Len(mStack) = Len(ctl) /\ DOMAIN mStack = 1 .. Len(ctl)
  BY SeqShape DEF TypesOK, ControlOK, StacksOK
<1>2. Len(ctl) \in DOMAIN ctl
  BY <1>1
<1>3. Tasks \in Seq(ProperTasks)
  BY <1>1, <1>2 DEF ActivationsOK, Tasks, TasksOK
<1>4. \A i \in DOMAIN ctl :
        Supported(ctl[i].tasks, mStack[i].exprs, Pending(i), i = Len(ctl) /\ exc # None)
  BY DEF EvaluationOK
<1>5. Supported(Tasks, currentFrame.exprs, {}, exc # None)
  <2>1. Pending(Len(ctl)) = {}
    BY <1>1 DEF Pending
  <2>2. Supported(ctl[Len(ctl)].tasks, mStack[Len(ctl)].exprs, Pending(Len(ctl)),
                  Len(ctl) = Len(ctl) /\ exc # None)
    BY <1>2, <1>4
  <2>3. Supported(ctl[Len(ctl)].tasks, mStack[Len(ctl)].exprs, {}, exc # None)
    BY <2>1, <2>2
  <2> QED BY <1>1, <2>3 DEF Tasks, currentFrame
<1>6. ASSUME NEW i \in 1 .. Len(ctl) - 1
      PROVE  Supported(ctl[i].tasks, mStack[i].exprs, {ctl[i + 1].call}, FALSE)
  <2>0. Len(ctl) \in Nat /\ DOMAIN ctl = 1 .. Len(ctl)
    BY <1>1
  <2>1. i \in DOMAIN ctl /\ i < Len(ctl) /\ i # Len(ctl)
    <3> DEFINE L == Len(ctl)
    <3>1. L \in Nat /\ i \in 1 .. L - 1
      BY <1>6, <2>0
    <3> HIDE DEF L
    <3>2. i \in 1 .. L /\ i < L /\ i # L
      BY <3>1
    <3> QED BY <2>0, <3>2 DEF L
  <2>2. Pending(i) = {ctl[i + 1].call}
    BY <2>1 DEF Pending
  <2>3. Supported(ctl[i].tasks, mStack[i].exprs, Pending(i), i = Len(ctl) /\ exc # None)
    BY <1>4, <2>1
  <2>4. Supported(ctl[i].tasks, mStack[i].exprs, Pending(i), FALSE)
    BY <2>1, <2>3 DEF Supported, Waiting
  <2> QED BY <2>2, <2>4
<1> QED BY <1>1, <1>3, <1>5, <1>6

\* The activations below the top wait for the call above them.
LEMMA EvalKept ==
  ASSUME TypesOK, Typed, EvaluationOK, prog' = prog, StacksOK', LowerFramesKept, EvalStep
  PROVE  EvaluationOK'
<1> DEFINE L == Len(ctl)
           Fine(i) == Supported(ctl'[i].tasks, mStack'[i].exprs,
                                IF i < Len(ctl') THEN {ctl'[i + 1].call} ELSE {},
                                i = Len(ctl') /\ exc' # None)
<1>1. SUFFICES ASSUME NEW i \in DOMAIN ctl' PROVE Fine(i)
  BY SameUse DEF EvaluationOK, Pending
<1>2. /\ IsSeq(ctl) /\ L \in Nat \ {0} /\ Len(ctl) > 0 /\ DOMAIN ctl = 1 .. L
      /\ Len(mStack) = L /\ DOMAIN mStack = 1 .. L
      /\ \A k \in 1 .. L - 1 : Supported(ctl[k].tasks, mStack[k].exprs, {ctl[k + 1].call}, FALSE)
  <2>1. \A x \in Nat \ {0} : x > 0
    OBVIOUS
  <2> QED BY <2>1, Top
<1>3. /\ IsSeq(ctl') /\ Len(ctl') \in Nat \ {0} /\ DOMAIN ctl' = 1 .. Len(ctl')
      /\ Len(mStack') = Len(ctl')
  BY SeqShape DEF StacksOK
<1>4. \A k \in 1 .. L : k < Len(ctl') => mStack'[k] = mStack[k]
  BY <1>2, <1>3 DEF LowerFramesKept
\* The top, and the activations below it.
<1>5. ASSUME Supported(ctl'[Len(ctl')].tasks, currentFrame.exprs', {}, exc' # None),
             i = Len(ctl')
      PROVE  Fine(i)
  <2>1. (IF i < Len(ctl') THEN {ctl'[i + 1].call} ELSE {}) = {}
    BY <1>3, <1>5
  <2>2. Supported(ctl'[i].tasks, mStack'[i].exprs, {}, exc' # None)
    BY <1>3, <1>5 DEF currentFrame
  <2>3. Supported(ctl'[i].tasks, mStack'[i].exprs, {}, i = Len(ctl') /\ exc' # None)
    BY <1>5, <2>2 DEF Supported, Waiting
  <2> QED BY <2>1, <2>3
<1>6. ASSUME Supported(ctl'[i].tasks, mStack'[i].exprs, {ctl'[i + 1].call}, FALSE),
             i < Len(ctl')
      PROVE  Fine(i)
  <2>1. i # Len(ctl')
    BY <1>3, <1>6
  <2>2. (IF i < Len(ctl') THEN {ctl'[i + 1].call} ELSE {}) = {ctl'[i + 1].call}
    BY <1>6
  <2>3. Supported(ctl'[i].tasks, mStack'[i].exprs, {ctl'[i + 1].call}, i = Len(ctl') /\ exc' # None)
    BY <1>6, <2>1 DEF Supported, Waiting
  <2> QED BY <2>2, <2>3
<1> HIDE DEF L, Fine
<1>7. i \in 1 .. Len(ctl') /\ (i = Len(ctl') \/ i < Len(ctl'))
  BY <1>1, <1>3
<1>8. ASSUME NEW ts, ctl' = Continue(ts)
      PROVE  /\ Len(ctl') = L /\ ctl'[L].tasks = ts
             /\ \A k \in 1 .. L : ctl'[k].call = ctl[k].call
             /\ \A k \in 1 .. L - 1 : ctl'[k] = ctl[k]
  <2>1. Len(ctl') = L /\ \A k \in 1 .. L - 1 : ctl'[k] = ctl[k]
    BY <1>2, <1>8, TopReplaced DEF Continue, L
  <2>2. L \in 1 .. L /\ ctl'[L] = [call |-> ctl[L].call, tasks |-> ts]
    BY <1>2, <1>8 DEF Continue, L
  <2> QED BY <1>2, <2>1, <2>2
<1>9. ASSUME NEW ts, ctl' = Continue(ts), Supported(ts, currentFrame.exprs', {}, exc' # None)
      PROVE  Fine(i)
  <2>1. /\ Len(ctl') = L /\ ctl'[L].tasks = ts
        /\ \A k \in 1 .. L : ctl'[k].call = ctl[k].call
        /\ \A k \in 1 .. L - 1 : ctl'[k] = ctl[k]
    BY <1>8, <1>9
  <2>2. CASE i = L
    BY <1>5, <1>9, <2>1, <2>2
  <2>3. CASE i < L
    <3>1. i \in 1 .. L - 1 /\ i + 1 \in 1 .. L
      BY <1>2, <1>7, <2>1, <2>3
    <3>2. ctl'[i] = ctl[i] /\ ctl'[i + 1].call = ctl[i + 1].call /\ mStack'[i] = mStack[i]
      BY <1>4, <2>1, <2>3, <3>1
    <3>3. Supported(ctl'[i].tasks, mStack'[i].exprs, {ctl'[i + 1].call}, FALSE)
      BY <1>2, <3>1, <3>2
    <3> QED BY <1>6, <2>1, <2>3, <3>3
  <2> QED BY <1>7, <2>1, <2>2, <2>3
<1>10. ASSUME UNCHANGED ctl, Supported(Tasks, currentFrame.exprs', {}, exc' # None)
       PROVE  Fine(i)
  <2>1. CASE i = L
    BY <1>5, <1>10, <2>1 DEF Tasks, L
  <2>2. CASE i < L
    <3>1. i \in 1 .. L - 1 /\ i + 1 \in 1 .. L
      BY <1>2, <1>7, <1>10, <2>2 DEF L
    <3>2. ctl'[i] = ctl[i] /\ ctl'[i + 1].call = ctl[i + 1].call /\ mStack'[i] = mStack[i]
      BY <1>4, <1>10, <2>2, <3>1 DEF L
    <3>3. Supported(ctl'[i].tasks, mStack'[i].exprs, {ctl'[i + 1].call}, FALSE)
      BY <1>2, <3>1, <3>2
    <3> QED BY <1>6, <1>10, <2>2, <3>3 DEF L
  <2> QED BY <1>7, <1>10, <2>1, <2>2 DEF L
<1>11. ASSUME NEW ts, NEW body, NEW n,
              ctl' = Append(Continue(ts), [call |-> n, tasks |-> body]), exc' = None,
              Supported(ts, currentFrame.exprs, {n}, FALSE),
              Supported(body, currentFrame.exprs', {}, FALSE)
       PROVE  Fine(i)
  <2>1. IsSeq(Continue(ts)) /\ Len(Continue(ts)) = L
        /\ \A k \in 1 .. L - 1 : Continue(ts)[k] = ctl[k]
    BY <1>2, TopReplaced DEF Continue, L
  <2>2. Continue(ts)[L] = [call |-> ctl[L].call, tasks |-> ts]
    BY <1>2 DEF Continue, L
  <2>3. /\ Len(ctl') = L + 1 /\ \A k \in 1 .. L : ctl'[k] = Continue(ts)[k]
        /\ ctl'[L + 1] = [call |-> n, tasks |-> body]
    BY <1>11, <2>1, Pushed
  <2>4. CASE i = L + 1
    <3>1. Supported(body, currentFrame.exprs', {}, exc' # None)
      BY <1>11 DEF Supported, Waiting
    <3> QED BY <1>5, <2>3, <2>4, <3>1
  <2>5. CASE i = L
    <3>1. L \in 1 .. L /\ L < L + 1
      BY <1>2
    <3>2. ctl'[L].tasks = ts /\ ctl'[L + 1].call = n /\ mStack'[L] = currentFrame
      BY <1>2, <1>4, <2>2, <2>3, <3>1 DEF currentFrame
    <3> QED BY <1>6, <1>11, <2>3, <2>5, <3>1, <3>2
  <2>6. CASE i < L
    <3>1. i \in 1 .. L - 1 /\ i \in 1 .. L /\ i + 1 \in 1 .. L /\ i < L + 1
      BY <1>2, <1>7, <2>6
    <3>2. ctl'[i] = ctl[i] /\ mStack'[i] = mStack[i]
      BY <1>4, <2>1, <2>3, <3>1
    <3>3. ctl'[i + 1].call = ctl[i + 1].call
      <4>1. CASE i + 1 = L
        BY <2>2, <2>3, <3>1, <4>1
      <4>2. CASE i + 1 # L
        <5>1. i + 1 \in 1 .. L - 1
          BY <1>2, <3>1, <4>2
        <5> QED BY <2>1, <2>3, <3>1, <5>1
      <4> QED BY <4>1, <4>2
    <3>4. Supported(ctl'[i].tasks, mStack'[i].exprs, {ctl'[i + 1].call}, FALSE)
      BY <1>2, <3>1, <3>2, <3>3
    <3> QED BY <1>6, <2>3, <3>1, <3>4
  <2>7. i = L + 1 \/ i = L \/ i < L
    BY <1>2, <1>7, <2>3
  <2> QED BY <2>4, <2>5, <2>6, <2>7
<1>12. ASSUME L > 1, ctl' = Pop(ctl), exc' = None,
              Supported(ctl[L - 1].tasks, currentFrame.exprs', {}, FALSE)
       PROVE  Fine(i)
  <2>1. Len(ctl') = L - 1 /\ \A k \in 1 .. L - 1 : ctl'[k] = ctl[k]
    BY <1>2, <1>12, Popped DEF L
  <2>2. CASE i = L - 1
    <3>1. ctl'[L - 1] = ctl[L - 1]
      BY <1>2, <1>12, <2>1
    <3>2. Supported(ctl'[Len(ctl')].tasks, currentFrame.exprs', {}, exc' # None)
      BY <1>12, <2>1, <3>1 DEF Supported, Waiting
    <3> QED BY <1>5, <2>1, <2>2, <3>2
  <2>3. CASE i < L - 1
    <3>1. i \in 1 .. L - 1 /\ i + 1 \in 1 .. L - 1 /\ i \in 1 .. L
      BY <1>2, <1>7, <2>3
    <3>2. ctl'[i] = ctl[i] /\ ctl'[i + 1] = ctl[i + 1] /\ mStack'[i] = mStack[i]
      BY <1>4, <2>1, <2>3, <3>1
    <3>3. Supported(ctl'[i].tasks, mStack'[i].exprs, {ctl'[i + 1].call}, FALSE)
      BY <1>2, <3>1, <3>2
    <3> QED BY <1>6, <2>1, <2>3, <3>3
  <2> QED BY <1>2, <1>7, <2>1, <2>2, <2>3
<1> QED BY <1>9, <1>10, <1>11, <1>12 DEF EvalStep, L

-----------------------------------------------------------------------------
(***************************************************************************)
(* The steps that go on with the next task.                                *)
(***************************************************************************)
LEMMA Proceeds ==
  ASSUME TypesOK, Typed, EvaluationOK, NEW do, Ready(do), exc' = None,
         NEW front, Expand(front), Replaces(front, Head(Tasks), currentFrame.exprs', {}),
         KeepsOthers(currentFrame.exprs, currentFrame.exprs', This)
  PROVE  EvalStep
<1> DEFINE bound == currentFrame.exprs
           after == currentFrame.exprs'
<1>1. ProgramOK /\ Tasks \in Seq(ProperTasks) /\ Supported(Tasks, bound, {}, exc # None)
  BY Top
<1>2. Tasks # <<>> /\ exc = None
  BY DEF Ready
<1>3. Supported(Tasks, bound, {}, FALSE)
  BY <1>1, <1>2 DEF Supported, Waiting
<1>4. Replaces(front, Head(Tasks), after, {}) /\ KeepsOthers(bound, after, Head(Tasks).n)
  BY DEF This
<1>5. ctl' = Continue(front \o Tail(Tasks))
  BY DEF Expand
<1> HIDE DEF bound, after
<1>6. Supported(front \o Tail(Tasks), after, {}, FALSE)
  BY <1>1, <1>2, <1>3, <1>4, GoesOn
<1>7. Supported(front \o Tail(Tasks), after, {}, exc' # None)
  BY <1>6 DEF Supported, Waiting
<1> QED BY <1>5, <1>7 DEF EvalStep, after

\* Only the visitor's tasks change.
LEMMA Walks ==
  ASSUME TypesOK, Typed, EvaluationOK, NEW do, Ready(do), UNCHANGED <<envVars, exc>>,
         NEW front, Expand(front), Replaces(front, Head(Tasks), currentFrame.exprs, {})
  PROVE  EvalStep
<1>1. currentFrame.exprs' = currentFrame.exprs /\ exc' = None
  BY DEF envVars, currentFrame, Ready
<1>2. KeepsOthers(currentFrame.exprs, currentFrame.exprs', This)
  BY <1>1 DEF KeepsOthers
<1>3. Replaces(front, Head(Tasks), currentFrame.exprs', {})
  BY <1>1
<1> QED BY <1>1, <1>2, <1>3, Proceeds

\* A task is done: it leaves its node with a value, if it has one.
Evaluates ==
  /\ KeepsOthers(currentFrame.exprs, currentFrame.exprs', This)
  /\ HasValue(This) => This \in DOMAIN currentFrame.exprs'

LEMMA NothingLeft ==
  ASSUME NEW t, t.do \in {"handle", "bind"}, NEW after, NEW calls, calls \subseteq {t.n},
         HasValue(t.n) => t.n \in DOMAIN after \cup calls
  PROVE  Replaces(<<>>, t, after, calls)
<1> DEFINE e == <<>>
<1>1. e \in Seq(ProperTasks) /\ DOMAIN e = {}
  OBVIOUS
<1>2. Gives(t) = {t.n}
  BY DEF Gives
<1> HIDE DEF e
<1>3. Replaces(e, t, after, calls)
  BY <1>1, <1>2 DEF Replaces, Choosing
<1> QED BY <1>3 DEF e

LEMMA Finished ==
  ASSUME TypesOK, Typed, EvaluationOK, Ready("handle") \/ Ready("bind"), exc' = None,
         Expand(<<>>), Evaluates
  PROVE  EvalStep
<1>1. PICK do \in {"handle", "bind"} : Ready(do)
  OBVIOUS
<1>2. Head(Tasks).do \in {"handle", "bind"} /\ Head(Tasks).n = This
  BY DEF Ready, This
<1>3. Replaces(<<>>, Head(Tasks), currentFrame.exprs', {})
  BY <1>2, NothingLeft DEF Evaluates
<1> QED BY <1>1, <1>3, Proceeds DEF Evaluates

-----------------------------------------------------------------------------
(***************************************************************************)
(* What the handlers do to the values bound.                               *)
(***************************************************************************)
LEMMA NewTop ==
  ASSUME TypesOK, NEW f, ReplaceTop(f)
  PROVE  currentFrame' = f
<1>1. IsSeq(mStack) /\ Len(mStack) > 0 /\ Len(mStack) \in DOMAIN mStack
  BY SeqShape DEF TypesOK, ControlOK, StacksOK
<1>2. Len(mStack') = Len(mStack)
  BY <1>1, TopReplaced DEF ReplaceTop
<1>3. mStack'[Len(mStack)] = f
  BY <1>1 DEF ReplaceTop
<1> QED BY <1>2, <1>3 DEF currentFrame

LEMMA BindKeeps ==
  ASSUME NEW m, NEW n, NEW v
  PROVE  KeepsOthers(m, Bind(m, n, v), n) /\ n \in DOMAIN Bind(m, n, v)
BY DEF KeepsOthers, Bind

\* One more value in the current frame, or none.
LEMMA StmtValues ==
  ASSUME NEW f, FrameOK(f), NEW n, NEW v, NEW d, NEW w
  PROVE  /\ WithStmt(f, n, v).exprs = Bind(f.exprs, n, v)
         /\ WithPtr(WithStmt(f, n, v), n, w).exprs = Bind(f.exprs, n, v)
         /\ WithDecl(f, d, w).exprs = f.exprs
         /\ WithStmt(WithDecl(f, d, w), n, v).exprs = Bind(f.exprs, n, v)
         /\ [f EXCEPT !.ret = v].exprs = f.exprs
BY DEF FrameOK, WithStmt, WithPtr, WithDecl

LEMMA ValueBound ==
  ASSUME TypesOK, NEW v, NEW w, NEW d,
         \/ ReplaceTop(WithStmt(currentFrame, This, v))
         \/ ReplaceTop(WithPtr(WithStmt(currentFrame, This, v), This, w))
         \/ ReplaceTop(WithStmt(WithDecl(currentFrame, d, w), This, v))
  PROVE  Evaluates
<1>1. currentFrame.exprs' = Bind(currentFrame.exprs, This, v)
  BY Current, NewTop, StmtValues
<1> QED BY <1>1, BindKeeps DEF Evaluates

LEMMA NoValue ==
  ASSUME TypesOK, ~ HasValue(This),
         UNCHANGED mStack \/ \E d, v : ReplaceTop(WithDecl(currentFrame, d, v))
  PROVE  Evaluates
<1>1. currentFrame.exprs' = currentFrame.exprs
  <2>1. CASE UNCHANGED mStack
    BY <2>1 DEF currentFrame
  <2>2. CASE \E d, v : ReplaceTop(WithDecl(currentFrame, d, v))
    BY <2>2, Current, NewTop, StmtValues
  <2> QED BY <2>1, <2>2
<1> QED BY <1>1 DEF Evaluates, KeepsOthers

LEMMA Binders ==
  ASSUME TypesOK
  PROVE  /\ \A v : bindStmtVal(This, v) => Evaluates
         /\ \A lhs, v, val : assgnLVal(lhs, v, This, val) => Evaluates
         /\ \A a : bindAccess(This, a) => Evaluates
<1>1. ASSUME NEW v, bindStmtVal(This, v) PROVE Evaluates
  BY <1>1, ValueBound DEF bindStmtVal
<1>2. ASSUME NEW lhs, NEW v, NEW val, assgnLVal(lhs, v, This, val) PROVE Evaluates
  BY <1>2, ValueBound DEF assgnLVal
<1>3. ASSUME NEW a, bindAccess(This, a) PROVE Evaluates
  BY <1>3, ValueBound DEF bindAccess
<1> QED BY <1>1, <1>2, <1>3

LEMMA HandlersEvaluate ==
  ASSUME TypesOK,
         \/ HandleLiteral \/ HandleParen \/ HandleBinop \/ HandleUnaryop \/ HandleDeclref
         \/ HandleCast \/ HandleArraysub \/ HandleSizeof \/ HandleVardecl \/ HandleBuiltIn
         \/ BindConditional
  PROVE  Evaluates
<1>1. CASE HandleLiteral \/ HandleParen \/ HandleSizeof \/ BindConditional
  BY <1>1, Binders
     DEF HandleLiteral, literal, HandleParen, paren, HandleSizeof, ueott, BindConditional
<1>2. CASE HandleBinop
  BY <1>2, Binders DEF HandleBinop, binop
<1>3. CASE HandleUnaryop
  BY <1>3, Binders DEF HandleUnaryop, unaryop, incdec
<1>4. CASE HandleArraysub
  BY <1>4, Binders DEF HandleArraysub, arraysub
<1>5. CASE HandleDeclref
  <2>1. declref(This) /\ N(This).kind = "declref"
    BY <1>5 DEF HandleDeclref, Due
  <2>2. CASE N(This).type \in ScalarTypes \cup {"array"}
    BY <2>1, <2>2, Binders DEF declref
  <2>3. CASE N(This).type \notin ScalarTypes \cup {"array"}
    <3>1. ~ HasValue(This)
      BY <2>1, <2>3 DEF HasValue
    <3>2. UNCHANGED mStack
      BY <2>1, <2>3 DEF declref, envVars
    <3> QED BY <3>1, <3>2, NoValue
  <2> QED BY <2>2, <2>3
<1>6. CASE HandleCast
  <2>1. cast(This) /\ N(This).kind = "cast"
    BY <1>6 DEF HandleCast, Due
  <2>2. CASE N(This).type \in ScalarTypes
    BY <2>1, <2>2, Binders DEF cast
  <2>3. CASE N(This).type \notin ScalarTypes
    <3>1. ~ HasValue(This)
      BY <2>1, <2>3 DEF HasValue
    <3>2. UNCHANGED mStack
      BY <2>1, <2>3 DEF cast, envVars
    <3> QED BY <3>1, <3>2, NoValue
  <2> QED BY <2>2, <2>3
<1>7. CASE HandleVardecl
  <2>1. vardecl(This) /\ N(This).kind = "vardecl"
    BY <1>7 DEF HandleVardecl, Due
  <2>2. ~ HasValue(This)
    BY <2>1 DEF HasValue
  <2>3. UNCHANGED mStack \/ \E d, v : ReplaceTop(WithDecl(currentFrame, d, v))
    BY <2>1 DEF vardecl, envVars
  <2> QED BY <2>2, <2>3, NoValue
<1>8. CASE HandleBuiltIn
  <2>1. callbuildin(This) /\ N(This).kind = "call"
    BY <1>8 DEF HandleBuiltIn, Due
  <2>2. CASE N(This).decl \in {"PRINT", "FREE"}
    <3>1. ~ HasValue(This)
      BY <2>1, <2>2 DEF HasValue
    <3>2. UNCHANGED mStack
      BY <2>1, <2>2 DEF callbuildin
    <3> QED BY <3>1, <3>2, NoValue
  <2>3. CASE N(This).decl \notin {"PRINT", "FREE"}
    <3>1. \E v : ReplaceTop(WithStmt(currentFrame, This, v))
      BY <2>1, <2>3 DEF callbuildin
    <3> QED BY <3>1, ValueBound
  <2> QED BY <2>2, <2>3
<1> QED BY <1>1, <1>2, <1>3, <1>4, <1>5, <1>6, <1>7, <1>8

LEMMA HandlersGoOn ==
  ASSUME TypesOK, Typed, EvaluationOK,
         \/ HandleLiteral \/ HandleParen \/ HandleBinop \/ HandleUnaryop \/ HandleDeclref
         \/ HandleCast \/ HandleArraysub \/ HandleSizeof \/ HandleVardecl \/ HandleBuiltIn
         \/ BindConditional
  PROVE  EvalStep
<1>1. Expand(<<>>) /\ exc' = None /\ (Ready("handle") \/ Ready("bind"))
  BY DEF HandleLiteral, HandleParen, HandleBinop, HandleUnaryop, HandleDeclref, HandleCast,
         HandleArraysub, HandleSizeof, HandleVardecl, HandleBuiltIn, BindConditional, Due, Ready,
         Advance, Quiet
<1> QED BY <1>1, HandlersEvaluate, Finished

-----------------------------------------------------------------------------
(***************************************************************************)
(* Exceptions, calls and ends.                                             *)
(***************************************************************************)
LEMMA ThrowsOn ==
  ASSUME TypesOK, Typed, EvaluationOK, Throw \/ HandleReturn \/ Unwind
  PROVE  EvalStep
<1>1. Tasks # <<>> /\ Expand(<<>>) /\ exc' # None
  BY DEF Throw, HandleReturn, Unwind, Visiting, Due, Ready, Thrown, None
<1>2. ctl' = Continue(Tail(Tasks))
  BY <1>1, Dropped DEF TypesOK
<1>3. currentFrame.exprs' = currentFrame.exprs
  <2>1. CASE HandleReturn
    <3>1. returnstmt(This)
      BY <2>1 DEF HandleReturn
    <3>2. CASE TypeOf(This, 1) # "void"
      <4>1. ReplaceTop([currentFrame EXCEPT !.ret = Val(This, 1)])
        BY <3>1, <3>2 DEF returnstmt
      <4> QED BY <4>1, Current, NewTop, StmtValues
    <3>3. CASE TypeOf(This, 1) = "void"
      BY <3>1, <3>3 DEF returnstmt, envVars, currentFrame
    <3> QED BY <3>2, <3>3
  <2>2. CASE Throw \/ Unwind
    BY <2>2 DEF Throw, Unwind, envVars, currentFrame
  <2> QED BY <2>1, <2>2
<1>4. Tasks \in Seq(ProperTasks) /\ Supported(Tasks, currentFrame.exprs, {}, exc # None)
  BY Top
<1>5. Supported(Tail(Tasks), currentFrame.exprs, {}, TRUE)
  BY <1>1, <1>4, FirstDropped
<1>6. Supported(Tail(Tasks), currentFrame.exprs, {}, exc' # None)
  BY <1>1, <1>5 DEF Supported, Waiting
<1> QED BY <1>2, <1>3, <1>6 DEF EvalStep

LEMMA CatchesOn ==
  ASSUME TypesOK, Typed, EvaluationOK, CatchInLoop
  PROVE  EvalStep
<1>1. /\ Tasks # <<>> /\ Head(Tasks).do = "endbody" /\ exc' = None
      /\ ctl' = IF exc = "BREAK" THEN Continue(Tail(Tasks)) ELSE ctl
  BY DEF CatchInLoop, InTry
<1>2. currentFrame.exprs' = currentFrame.exprs
  BY DEF CatchInLoop, envVars, currentFrame
<1>3. Tasks \in Seq(ProperTasks) /\ Supported(Tasks, currentFrame.exprs, {}, exc # None)
  BY Top
<1>4. \A ts : Supported(ts, currentFrame.exprs, {}, FALSE)
                => Supported(ts, currentFrame.exprs', {}, exc' # None)
  BY <1>1, <1>2 DEF Supported, Waiting
<1>5. CASE exc = "BREAK"
  <2>1. Supported(Tail(Tasks), currentFrame.exprs, {}, FALSE)
    BY <1>1, <1>3, FirstDropped
  <2> QED BY <1>1, <1>4, <1>5, <2>1 DEF EvalStep
<1>6. CASE exc # "BREAK"
  <2>1. Supported(Tasks, currentFrame.exprs, {}, FALSE)
    BY <1>1, <1>3, Caught
  <2> QED BY <1>1, <1>4, <1>6, <2>1 DEF EvalStep
<1> QED BY <1>5, <1>6

LEMMA EndsThere ==
  ASSUME TypesOK, Typed, EvaluationOK,
         LeaveMain \/ LogicError \/ AssertFails \/ UndefinedBehaviour
  PROVE  EvalStep
<1>1. ctl' = ctl /\ currentFrame.exprs' = currentFrame.exprs
  BY DEF LeaveMain, destroyHeap, LogicError, AssertFails, UndefinedBehaviour, Fail, envVars,
         currentFrame
<1>2. CASE LeaveMain
  <2>1. Supported(Tasks, currentFrame.exprs', {}, exc' # None)
    <3>1. DOMAIN Tasks = {}
      BY <1>2 DEF LeaveMain
    <3> QED BY <3>1 DEF Supported, Waiting, Choosing, MainLast
  <2> QED BY <1>1, <2>1 DEF EvalStep
<1>3. CASE LogicError \/ AssertFails \/ UndefinedBehaviour
  <2>1. exc' = exc
    BY <1>3 DEF LogicError, AssertFails, UndefinedBehaviour, Fail
  <2>2. Supported(Tasks, currentFrame.exprs, {}, exc # None)
    BY Top
  <2> QED BY <1>1, <2>1, <2>2 DEF EvalStep
<1> QED BY <1>2, <1>3

\* A body's visits ask for nothing.
LEMMA BodyAsksNothing ==
  ASSUME ProgramOK, NEW f \in DOMAIN prog.fn, Fn(f).body # Null
  PROVE  /\ \A k \in DOMAIN VisitStmt(Fn(f).body) : VisitStmt(Fn(f).body)[k].do = "visit"
         /\ VisitStmt(Fn(f).body) \in Seq(ProperTasks)
<1> DEFINE n == Fn(f).body
<1>1. n \in NodeNo
  <2>1. IsProgram(prog)
    BY ProgramsAssumption DEF ProgramOK
  <2> QED BY <2>1 DEF IsProgram, Fn, NodeNo
<1> HIDE DEF n
<1>2. VisitStmt(n) \in Visits(n)
  BY <1>1, VisitsChildren DEF Visits
<1>3. /\ VisitStmt(n) \in Seq(ProperTasks)
      /\ \A k \in DOMAIN VisitStmt(n) : VisitStmt(n)[k].do = "visit"
  BY <1>1, <1>2, VisitsShape
<1> QED BY <1>3 DEF n

LEMMA VisitsSupported ==
  ASSUME NEW ts, \A k \in DOMAIN ts : ts[k].do = "visit", NEW bound
  PROVE  Supported(ts, bound, {}, FALSE)
BY NothingAsked DEF Asking, MainLast

\* The caller waits for the value of the call.
LEMMA CallsOn ==
  ASSUME TypesOK, Typed, EvaluationOK, HandleCall
  PROVE  EvalStep
<1> DEFINE f == N(This).decl
           body == VisitStmt(Fn(f).body)
           bound == currentFrame.exprs
<1>1. /\ ProgramOK /\ Tasks \in Seq(ProperTasks)
      /\ Supported(Tasks, bound, {}, exc # None)
  BY Top
<1>2. /\ Ready("handle") /\ Tasks # <<>> /\ exc = None /\ Head(Tasks).do = "handle"
      /\ N(This).kind = "call" /\ exc' = None /\ ~ isBuiltIn(This) /\ ~ Undefined(This)
      /\ ctl' = Append(Continue(Tail(Tasks)), [call |-> This, tasks |-> body])
  BY DEF HandleCall, Due, Ready, Quiet
<1>3. This \in NodeNo
  BY <1>2, TheNode DEF TypesOK
<1>4. f \in DOMAIN prog.fn /\ Fn(f).body # Null
  <2>1. IsProgram(prog)
    BY <1>1, ProgramsAssumption DEF ProgramOK
  <2>2. f \in DOMAIN prog.fn
    BY <1>2, <1>3, <2>1 DEF IsProgram, Resolved, NodeNo, N
  <2>3. Fn(f).body # Null
    BY <1>2 DEF Undefined, NoBody
  <2> QED BY <2>2, <2>3
<1> HIDE DEF f
<1>5. \A k \in DOMAIN body : body[k].do = "visit"
  BY <1>1, <1>4, BodyAsksNothing
<1>6. Supported(body, currentFrame.exprs', {}, FALSE)
  <2> HIDE DEF body
  <2> QED BY <1>5, VisitsSupported
<1>7. Supported(Tasks, bound, {}, FALSE)
  BY <1>1, <1>2 DEF Supported, Waiting
<1>8. Supported(<<>> \o Tail(Tasks), bound, {This}, FALSE)
  <2>1. Replaces(<<>>, Head(Tasks), bound, {This})
    BY <1>2, NothingLeft DEF This
  <2>2. KeepsOthers(bound, bound, Head(Tasks).n)
    BY DEF KeepsOthers
  <2> HIDE DEF bound
  <2> QED BY <1>1, <1>2, <1>7, <2>1, <2>2, GoesOn
<1>9. <<>> \o Tail(Tasks) = Tail(Tasks)
  <2>1. Tail(Tasks) \in Seq(ProperTasks)
    BY <1>1, <1>2, Shifted
  <2> QED BY <2>1, ConcatEmptySeq
<1>10. Supported(Tail(Tasks), bound, {This}, FALSE)
  BY <1>8, <1>9
<1> HIDE DEF body
<1> QED BY <1>2, <1>6, <1>10 DEF EvalStep

\* exit() binds it.
LEMMA LeavesOn ==
  ASSUME TypesOK, Typed, EvaluationOK, LeaveFunction
  PROVE  EvalStep
<1> DEFINE L == Len(ctl)
           n == ctl[L].call
           popped == Pop(mStack)
           caller == popped[Len(popped)]
           bound == mStack[L - 1].exprs
<1>1. /\ ProgramOK /\ L \in Nat \ {0} /\ DOMAIN ctl = 1 .. L /\ Len(mStack) = L
      /\ DOMAIN mStack = 1 .. L
      /\ \A i \in 1 .. L - 1 :
           Supported(ctl[i].tasks, mStack[i].exprs, {ctl[i + 1].call}, FALSE)
  BY Top
<1>2. L > 1 /\ exit(n) /\ ctl' = Pop(ctl) /\ exc' = None
  BY DEF LeaveFunction
<1>3. n \in NodeNo /\ N(n).kind = "call"
  BY <1>1, <1>2 DEF TypesOK, ControlOK, ActivationsOK, Nodes
<1>4. ctl[L - 1].tasks \in Seq(ProperTasks)
  <2>1. L - 1 \in DOMAIN ctl
    BY <1>1, <1>2
  <2> QED BY <2>1 DEF TypesOK, ControlOK, ActivationsOK, TasksOK
<1>5. IsSeq(mStack) /\ IsSeq(popped) /\ Len(popped) = L - 1 /\ popped[L - 1] = mStack[L - 1]
  <2>1. IsSeq(mStack) /\ Len(mStack) > 0
    BY DEF TypesOK, ControlOK, StacksOK
  <2>2. /\ IsSeq(popped) /\ Len(popped) = Len(mStack) - 1
        /\ \A i \in 1 .. Len(mStack) - 1 : popped[i] = mStack[i]
    BY <2>1, Popped
  <2>3. L - 1 \in 1 .. L - 1
    BY <1>1, <1>2
  <2> HIDE DEF popped, L
  <2> QED BY <1>1, <2>1, <2>2, <2>3
<1>6. FrameOK(mStack[L - 1])
  <2>1. L - 1 \in DOMAIN mStack
    BY <1>1, <1>2
  <2> QED BY <2>1 DEF TypesOK, FramesOK
<1>7. /\ DOMAIN bound \subseteq DOMAIN currentFrame.exprs'
      /\ HasValue(n) => n \in DOMAIN currentFrame.exprs'
      /\ \A x \in DOMAIN bound : x # n => currentFrame.exprs'[x] = bound[x]
  <2>1. CASE Fn(N(n).decl).void
    <3>1. mStack' = popped
      BY <1>2, <2>1 DEF exit
    <3>2. currentFrame' = mStack[L - 1]
      BY <1>5, <3>1 DEF currentFrame
    <3>3. ~ HasValue(n)
      BY <1>3, <2>1 DEF HasValue
    <3> QED BY <3>2, <3>3
  <2>2. CASE ~ Fn(N(n).decl).void
    <3> DEFINE g == WithStmt(caller, n, currentFrame.ret)
    <3>1. mStack' = [popped EXCEPT ![Len(popped)] = g]
      BY <1>2, <2>2 DEF exit
    <3> HIDE DEF popped, g
    <3>2. Len(popped) \in 1 .. Len(popped) /\ Len(popped) > 0
      BY <1>1, <1>2, <1>5
    <3>3. /\ Len(mStack') = Len(popped)
          /\ \A i \in 1 .. Len(popped) : mStack'[i] = IF i = Len(popped) THEN g ELSE popped[i]
      BY <1>5, <3>1, Replaced
    <3>4. currentFrame' = g
      BY <3>2, <3>3 DEF currentFrame
    <3>5. g = WithStmt(mStack[L - 1], n, currentFrame.ret)
      BY <1>5 DEF g
    <3>6. currentFrame.exprs' = Bind(bound, n, currentFrame.ret)
      BY <1>6, <3>4, <3>5, StmtValues
    <3> HIDE DEF bound
    <3> QED BY <3>6, BindKeeps DEF KeepsOthers
  <2> QED BY <2>1, <2>2
<1>8. Supported(ctl[L - 1].tasks, bound, {n}, FALSE)
  <2>1. L - 1 \in 1 .. L - 1 /\ (L - 1) + 1 = L
    BY <1>1, <1>2
  <2> QED BY <1>1, <2>1
<1> HIDE DEF n, bound, popped
<1>9. Supported(ctl[L - 1].tasks, currentFrame.exprs', {}, FALSE)
  BY <1>1, <1>3, <1>4, <1>7, <1>8, Returned
<1> QED BY <1>2, <1>9 DEF EvalStep

-----------------------------------------------------------------------------
(***************************************************************************)
(* The walk over expressions.                                              *)
(***************************************************************************)
\* One child, if it is there.
LEMMA OneVisit ==
  ASSUME ProgramOK, NEW n \in NodeNo, NEW i \in DOMAIN N(n).kids
  PROVE  /\ Visit(Kid(n, i)) \in Visits(n)
         /\ \A j \in DOMAIN Visit(Kid(n, i)) : Visit(Kid(n, i))[j].n = Kid(n, i)
         /\ Kid(n, i) # Null /\ HasValue(Kid(n, i)) =>
              \E j \in DOMAIN Visit(Kid(n, i)) : Kid(n, i) \in Gives(Visit(Kid(n, i))[j])
<1> DEFINE k == Kid(n, i)
           V == {Task("visit", c) : c \in Children(n)}
           x == Task("visit", k)
<1>1. k # Null => k \in Children(n)
  BY DEF Children
<1> HIDE DEF k
<1>2. CASE k = Null
  <2>1. Visit(k) = <<>>
    BY <1>2 DEF Visit
  <2>2. <<>> \in Seq(V) /\ DOMAIN <<>> = {}
    OBVIOUS
  <2> HIDE DEF V
  <2> QED BY <1>2, <2>1, <2>2 DEF Visits, V, k
<1>3. CASE k # Null
  <2>1. Visit(k) = <<x>> /\ x \in V /\ x.n = k
    BY <1>1, <1>3 DEF Visit, Task
  <2>2. HasValue(k) => k \in Gives(x)
    BY VisitGives
  <2> HIDE DEF x, V
  <2>3. <<x>> \in Seq(V) /\ DOMAIN <<x>> = {1} /\ <<x>>[1] = x
    BY <2>1
  <2>4. Visit(k) \in Seq(V) /\ DOMAIN Visit(k) = {1} /\ Visit(k)[1] = x
    BY <2>1, <2>3
  <2> QED BY <2>1, <2>2, <2>4 DEF Visits, V, k
<1> QED BY <1>2, <1>3

\* The operands of a handler are its children or stand in the list that is.
LEMMA ReadsBelow ==
  ASSUME ProgramOK, Typed, NEW n \in Nodes(Handled), NEW s \in Reads(n)
  PROVE  /\ s \in NodeNo /\ HasValue(s)
         /\ \/ s \in Children(n)
            \/ \E c \in Children(n) : N(c).kind = "initlist" /\ s \in Children(c)
<1>1. n \in NodeNo /\ N(n).kind \in Handled
  BY DEF Nodes
<1>2. s \in NodeNo /\ HasValue(s)
  <2>1. s \in Uses(n)
    BY <1>1 DEF Uses, Handled, LeafKinds, ExprKinds
  <2> QED BY <1>1, <2>1 DEF Typed
<1>3. s # Null
  BY <1>1, <1>2, NodeShape DEF Null
<1>4. /\ N(n).kids \in Seq(Nat) /\ Len(N(n).kids) \in Nat
      /\ DOMAIN N(n).kids = 1 .. Len(N(n).kids)
      /\ Len(N(n).kids) \in KidCounts(N(n).kind)
      /\ Children(n) \subseteq NodeNo
  BY <1>1, NodeShape
<1>5. \A i \in DOMAIN N(n).kids : Kid(n, i) # Null => Kid(n, i) \in Children(n)
  BY DEF Children
<1>6. CASE N(n).kind \in {"paren", "binop", "assign", "unop", "incdec", "arraysub"}
  BY <1>3, <1>2, <1>5, <1>6 DEF Reads
<1>7. CASE N(n).kind = "cast"
  <2>1. s = Kid(n, 1)
    BY <1>7 DEF Reads
  <2>2. 1 \in DOMAIN N(n).kids
    <3>1. KidCounts(N(n).kind) = {1}
      BY <1>7 DEF KidCounts
    <3>2. Len(N(n).kids) = 1 /\ 1 \in 1 .. 1
      BY <1>4, <3>1
    <3> QED BY <1>4, <3>2
  <2> QED BY <1>2, <1>3, <1>5, <2>1, <2>2
<1>8. CASE N(n).kind = "vardecl"
  <2>1. Has(n, 1) /\ 1 \in DOMAIN N(n).kids /\ Kid(n, 1) # Null
    BY <1>4, <1>8 DEF Reads, Has
  <2>2. CASE N(n).type = "array"
    <3>1. PICK i \in DOMAIN InitElements(n) : s = InitElements(n)[i]
      BY <1>8, <2>1, <2>2 DEF Reads
    <3>2. N(Kid(n, 1)).kind = "initlist" /\ InitElements(n) = N(Kid(n, 1)).kids
      BY <2>1, <3>1 DEF InitElements
    <3>3. s \in Children(Kid(n, 1))
      BY <1>3, <3>1, <3>2 DEF Children, Kid
    <3> QED BY <1>2, <1>5, <2>1, <3>2, <3>3
  <2>3. CASE N(n).type # "array"
    <3>1. s = Kid(n, 1)
      BY <1>8, <2>1, <2>3 DEF Reads
    <3> QED BY <1>2, <1>5, <2>1, <3>1
  <2> QED BY <2>2, <2>3
<1>9. CASE N(n).kind = "return"
  <2>1. Has(n, 1) /\ s = Kid(n, 1)
    BY <1>9 DEF Reads
  <2>2. 1 \in DOMAIN N(n).kids
    BY <1>4, <2>1 DEF Has
  <2> QED BY <1>2, <1>3, <1>5, <2>1, <2>2
<1>10. CASE N(n).kind = "call"
  <2>1. PICK i \in DOMAIN Args(n) : s = Args(n)[i]
    BY <1>10 DEF Reads
  <2>2. N(n).kids # <<>>
    <3>1. Len(N(n).kids) # 0
      BY <1>4, <1>10 DEF KidCounts
    <3> QED BY <1>4, <3>1, EmptySeq
  <2>3. /\ Len(Args(n)) = Len(N(n).kids) - 1 /\ Args(n) \in Seq(Nat)
        /\ \A j \in 1 .. Len(Args(n)) : Args(n)[j] = N(n).kids[j + 1]
    BY <1>4, <2>2, HeadTailProperties DEF Args
  <2>4. DOMAIN Args(n) = 1 .. Len(Args(n))
    BY <2>3, LenProperties
  <2>5. s = Kid(n, i + 1) /\ i + 1 \in DOMAIN N(n).kids
    BY <1>4, <2>1, <2>3, <2>4 DEF Kid
  <2> QED BY <1>2, <1>3, <1>5, <2>5
<1>11. N(n).kind \notin {"literal", "declref", "sizeof"}
  BY DEF Reads
<1> QED BY <1>1, <1>6, <1>7, <1>8, <1>9, <1>10, <1>11 DEF Handled, LeafKinds, ExprKinds

LEMMA OperandsVisited ==
  ASSUME ProgramOK, Typed, NEW n \in Nodes(Handled), NEW s \in Reads(n)
  PROVE  \E j \in DOMAIN VisitStmt(n) : s \in Gives(VisitStmt(n)[j])
<1>1. n \in NodeNo
  BY DEF Nodes
<1>2. \A c \in Children(n) : \E j \in DOMAIN VisitStmt(n) : VisitStmt(n)[j] = Task("visit", c)
  BY <1>1, VisitsChildren
<1>3. HasValue(s)
  BY ReadsBelow
<1>4. CASE s \in Children(n)
  BY <1>2, <1>3, <1>4, VisitGives
<1>5. CASE \E c \in Children(n) : N(c).kind = "initlist" /\ s \in Children(c)
  BY <1>2, <1>5, VisitGives
<1> QED BY <1>4, <1>5, ReadsBelow

\* What the walk meets at a node.
LEMMA AtNode ==
  ASSUME TypesOK, Typed, EvaluationOK, NEW do, Ready(do), do \notin {"decl", "initGlobalVars"}
  PROVE  /\ ProgramOK /\ This \in NodeNo
         /\ Head(Tasks) \in ProperTasks /\ Head(Tasks).do = do /\ Head(Tasks).n = This
<1>1. Head(Tasks) \in ProperTasks
  BY AtHand DEF Ready, TypesOK
<1> QED BY <1>1, Top, TheNode DEF Ready, This, TypesOK

LEMMA ChildrenWalked ==
  ASSUME TypesOK, Typed, EvaluationOK, VisitChildren
  PROVE  EvalStep
<1> DEFINE t == Head(Tasks)
           A == VisitStmt(This)
           after == currentFrame.exprs
<1>1. /\ Ready("visit") /\ N(This).kind \in Handled /\ UNCHANGED <<envVars, exc>>
      /\ Expand(A \o <<Task("handle", This)>>)
  BY DEF VisitChildren, Visiting, Handled, Quiet
<1>2. ProgramOK /\ This \in NodeNo /\ t \in ProperTasks /\ t.do = "visit" /\ t.n = This
  BY <1>1, AtNode
<1>3. This \in Nodes(Handled) /\ N(This).kind # "initlist"
  BY <1>1, <1>2 DEF Nodes, Handled, LeafKinds, ExprKinds
<1>4. A \in Visits(This)
  BY <1>2, VisitsChildren DEF Visits
<1>5. /\ Task("handle", This) \in ProperTasks
      /\ Gives(Task("handle", This)) = {This}
      /\ Needs(Task("handle", This), after) = Reads(This)
  BY <1>3 DEF Task, ProperTasks, Gives, Needs
<1>6. Gives(t) = {This}
  BY <1>2, <1>3 DEF Gives
<1>7. \A s \in Reads(This) : \E j \in DOMAIN A : s \in Gives(A[j])
  BY <1>2, <1>3, OperandsVisited
<1> HIDE DEF t, A, after
<1>8. Replaces(A \o <<Task("handle", This)>>, t, after, {})
  BY <1>2, <1>4, <1>5, <1>6, <1>7, VisitsThenReplace
<1> QED BY <1>1, <1>8, Walks DEF t, after

LEMMA GroupWalked ==
  ASSUME TypesOK, Typed, EvaluationOK, VisitGroup
  PROVE  EvalStep
<1> DEFINE t == Head(Tasks)
           A == VisitStmt(This)
           after == currentFrame.exprs
<1>1. /\ Ready("visit") /\ N(This).kind \in GroupKinds \cup {"declstmt"}
      /\ UNCHANGED <<envVars, exc>> /\ Expand(A)
  BY DEF VisitGroup, Visiting, Quiet
<1>2. ProgramOK /\ This \in NodeNo /\ t \in ProperTasks /\ t.do = "visit" /\ t.n = This
  BY <1>1, AtNode
<1>3. A \in Visits(This)
  BY <1>2, VisitsChildren DEF Visits
<1>4. \A c \in Children(This) : \E j \in DOMAIN A : A[j] = Task("visit", c)
  BY <1>2, VisitsChildren
<1>5. ASSUME NEW s \in Gives(t), HasValue(s)
      PROVE  \E j \in DOMAIN A : s \in Gives(A[j])
  <2>1. CASE N(This).kind = "initlist"
    <3>1. s \in Children(This)
      BY <1>2, <1>5, <2>1 DEF Gives
    <3> QED BY <1>4, <1>5, <3>1, VisitGives
  <2>2. CASE N(This).kind # "initlist"
    <3>1. s = This
      BY <1>2, <1>5, <2>2 DEF Gives
    <3> QED BY <1>1, <1>5, <3>1 DEF HasValue, GroupKinds
  <2> QED BY <2>1, <2>2
<1> HIDE DEF t, A, after
<1>6. Replaces(A, t, after, {})
  BY <1>2, <1>3, <1>5, VisitsReplace
<1> QED BY <1>1, <1>6, Walks DEF t, after

-----------------------------------------------------------------------------
(***************************************************************************)
(* Selections.                                                             *)
(***************************************************************************)
\* A selection's condition, and a conditional's branches, have values.
LEMMA Selecting ==
  ASSUME ProgramOK, Typed, NEW n \in NodeNo, N(n).kind \in {"if", "cond"}
  PROVE  /\ Cond(n) = Kid(n, 1) /\ Kid(n, 1) # Null /\ HasValue(Kid(n, 1))
         /\ N(n).kind = "cond" => \A i \in 1 .. 3 : Kid(n, i) # Null /\ HasValue(Kid(n, i))
<1>1. Cond(n) = Kid(n, 1)
  BY DEF Cond
<1>2. \A s \in Uses(n) : s \in NodeNo /\ HasValue(s)
  BY DEF Typed
<1>3. \A s \in NodeNo : s # Null
  BY NodeShape DEF Null
<1>4. Kid(n, 1) \in Uses(n)
  BY <1>1 DEF Uses
<1>5. N(n).kind = "cond" => \A i \in 1 .. 3 : Kid(n, i) \in Uses(n)
  BY DEF Uses
<1> QED BY <1>1, <1>2, <1>3, <1>4, <1>5

LEMMA ConditionWalked ==
  ASSUME TypesOK, Typed, EvaluationOK, VisitCondition
  PROVE  EvalStep
<1> DEFINE t == Head(Tasks)
           A == Visit(Kid(This, 1))
           after == currentFrame.exprs
<1>1. /\ Ready("visit") /\ N(This).kind \in {"if", "cond"} /\ UNCHANGED <<envVars, exc>>
      /\ Expand(A \o <<Task("branch", This)>>)
  BY DEF VisitCondition, Visiting, Quiet
<1>2. ProgramOK /\ This \in NodeNo /\ t \in ProperTasks /\ t.do = "visit" /\ t.n = This
  BY <1>1, AtNode
<1>3. Cond(This) = Kid(This, 1) /\ Kid(This, 1) # Null /\ HasValue(Kid(This, 1))
  BY <1>1, <1>2, Selecting
<1>4. 1 \in DOMAIN N(This).kids
  BY <1>1, <1>2, Selections
<1>5. A \in Visits(This) /\ \E j \in DOMAIN A : Kid(This, 1) \in Gives(A[j])
  BY <1>2, <1>3, <1>4, OneVisit
<1>6. /\ Task("branch", This) \in ProperTasks
      /\ Gives(Task("branch", This)) = {This}
      /\ Needs(Task("branch", This), after) = {Kid(This, 1)}
  BY <1>1, <1>2, <1>3 DEF Task, ProperTasks, Gives, Needs, Nodes
<1>7. Gives(t) = {This}
  BY <1>1, <1>2 DEF Gives
<1>8. \A s \in Needs(Task("branch", This), after) :
        s \in DOMAIN after \/ \E j \in DOMAIN A : s \in Gives(A[j])
  BY <1>5, <1>6
<1>9. \A s \in Gives(t) : HasValue(s) => s \in Gives(Task("branch", This))
  BY <1>6, <1>7
<1> HIDE DEF t, A, after
<1>10. Replaces(A \o <<Task("branch", This)>>, t, after, {})
  BY <1>2, <1>5, <1>6, <1>8, <1>9, VisitsThenReplace
<1> QED BY <1>1, <1>10, Walks DEF t, after

LEMMA BranchWalked ==
  ASSUME TypesOK, Typed, EvaluationOK, TakeBranch
  PROVE  EvalStep
<1> DEFINE t == Head(Tasks)
           A == Visit(Chosen(This))
           after == currentFrame.exprs
<1>1. /\ Ready("branch") /\ findStmt(Cond(This)) /\ UNCHANGED <<envVars, exc>>
      /\ Expand(A \o (IF N(This).kind = "cond" THEN <<Task("bind", This)>> ELSE <<>>))
  BY DEF TakeBranch, Testing, Quiet
<1>2. ProgramOK /\ This \in NodeNo /\ t \in ProperTasks /\ t.do = "branch" /\ t.n = This
  BY <1>1, AtNode
<1>3. N(This).kind \in {"if", "cond"}
  BY <1>1, TheNode DEF TypesOK, Nodes
<1>4. Cond(This) = Kid(This, 1) /\ Kid(This, 1) # Null
  BY <1>2, <1>3, Selecting
<1>5. PICK i \in {2, 3} : /\ Chosen(This) = Kid(This, i)
                          /\ Picked(This, after) = Kid(This, i)
  BY <1>4 DEF Chosen, Picked, getCondVal, getStmtVal
<1>6. 1 \in DOMAIN N(This).kids /\ i \in DOMAIN N(This).kids /\ i \in 1 .. 3
  BY <1>2, <1>3, Selections
<1>7. /\ A \in Visits(This)
      /\ \A j \in DOMAIN A : A[j].n = Kid(This, i)
      /\ Kid(This, i) # Null /\ HasValue(Kid(This, i)) =>
           \E j \in DOMAIN A : Kid(This, i) \in Gives(A[j])
  BY <1>2, <1>5, <1>6, OneVisit
<1>8. Gives(t) = {This}
  BY <1>2 DEF Gives
<1>9. CASE N(This).kind = "cond"
  <2>1. /\ Task("bind", This) \in ProperTasks
        /\ Gives(Task("bind", This)) = {This}
        /\ Needs(Task("bind", This), after) = {Kid(This, i)}
    BY <1>2, <1>5, <1>9 DEF Task, ProperTasks, Gives, Needs, Nodes
  <2>2. \E j \in DOMAIN A : Kid(This, i) \in Gives(A[j])
    BY <1>2, <1>6, <1>7, <1>9, Selecting
  <2>3. Kid(This, 1) \in DOMAIN after
    BY <1>1, <1>4 DEF findStmt
  <2>4. Kid(This, i) # Kid(This, 1)
    BY <1>2, <1>4, <1>5, <1>6, OneParent
  <2>5. \A j \in DOMAIN A : A[j].n # Kid(This, 1)
    BY <1>7, <2>4
  <2>6. Replaces(A \o <<Task("bind", This)>>, t, after, {})
    <3>1. \A s \in Needs(Task("bind", This), after) :
            s \in DOMAIN after \/ \E j \in DOMAIN A : s \in Gives(A[j])
      BY <2>1, <2>2
    <3>2. \A s \in Gives(t) : HasValue(s) => s \in Gives(Task("bind", This))
      BY <1>8, <2>1
    <3> HIDE DEF t, A, after
    <3> QED BY <1>2, <1>7, <2>1, <2>3, <2>5, <3>1, <3>2, VisitsThenReplace
  <2> HIDE DEF t, A, after
  <2>7. Expand(A \o <<Task("bind", This)>>)
    BY <1>1, <1>9
  <2> QED BY <1>1, <2>6, <2>7, Walks DEF t, after
<1>10. CASE N(This).kind = "if"
  <2>1. ~ HasValue(This)
    BY <1>10 DEF HasValue
  <2> HIDE DEF t, A, after
  <2>2. Replaces(A, t, after, {})
    BY <1>2, <1>7, <1>8, <2>1, VisitsReplace
  <2>3. Expand(A)
    <3>1. A \in Seq(ProperTasks)
      BY <1>2, <1>7, VisitsShape
    <3>2. A \o <<>> = A
      BY <3>1, ConcatEmptySeq
    <3> QED BY <1>1, <1>10, <3>2
  <2> QED BY <1>1, <2>2, <2>3, Walks DEF t, after
<1> QED BY <1>3, <1>9, <1>10

-----------------------------------------------------------------------------
(***************************************************************************)
(* Loops.                                                                  *)
(***************************************************************************)
\* A loop visits a child and goes on with something that asks for nothing, or
\* for the value of that child.
LEMMA LoopStage ==
  ASSUME ProgramOK, NEW n \in Nodes(LoopKinds), NEW t \in ProperTasks, t.n = n,
         t.do \in {"visit", "loop", "test", "endbody"},
         NEW i \in DOMAIN N(n).kids, NEW do, do \in {"loop", "test", "endbody"},
         do = "loop" => N(n).kind = "for",
         do = "test" => Cond(n) = Kid(n, i) /\ Kid(n, i) # Null /\ HasValue(Kid(n, i)),
         Typed, NEW after
  PROVE  Replaces(Visit(Kid(n, i)) \o <<Task(do, n)>>, t, after, {})
<1> DEFINE A == Visit(Kid(n, i))
<1>1. n \in NodeNo /\ N(n).kind \in LoopKinds
  BY DEF Nodes
<1>2. /\ A \in Visits(n)
      /\ Kid(n, i) # Null /\ HasValue(Kid(n, i)) =>
           \E j \in DOMAIN A : Kid(n, i) \in Gives(A[j])
  BY <1>1, OneVisit
<1>3. Task(do, n) \in ProperTasks
  BY <1>1 DEF Task, ProperTasks, Nodes
<1>4. Needs(Task(do, n), after) = IF do = "test" THEN {Cond(n)} ELSE {}
  BY DEF Needs, Task
<1>5. \A s \in Needs(Task(do, n), after) :
        s \in DOMAIN after \/ \E j \in DOMAIN A : s \in Gives(A[j])
  BY <1>2, <1>4
<1>6. \A s \in Gives(t) : ~ HasValue(s)
  BY <1>1 DEF Gives, HasValue, LoopKinds
<1> HIDE DEF A
<1>7. \A s \in Gives(t) : HasValue(s) => s \in Gives(Task(do, n)) /\ do # "endbody"
  BY <1>6
<1> QED BY <1>1, <1>2, <1>3, <1>5, <1>7, VisitsThenReplace DEF A

LEMMA LoopFronts ==
  ASSUME ProgramOK, Typed, NEW n \in Nodes(LoopKinds), NEW t \in ProperTasks, t.n = n,
         t.do \in {"visit", "loop", "test", "endbody"}, NEW after
  PROVE  /\ Replaces(TryBody(n), t, after, {})
         /\ Replaces(TestCond(n), t, after, {})
         /\ N(n).kind = "for" => \A i \in {1, 3} :
              Replaces(Visit(Kid(n, i)) \o <<Task("loop", n)>>, t, after, {})
         /\ Replaces(<<>>, t, after, {})
<1>1. n \in NodeNo /\ N(n).kind \in LoopKinds
  BY DEF Nodes
<1>2. PICK b \in DOMAIN N(n).kids : LoopBody(n) = Kid(n, b)
  BY <1>1, BodyIsChild
<1>3. Replaces(TryBody(n), t, after, {})
  <2>1. Replaces(Visit(Kid(n, b)) \o <<Task("endbody", n)>>, t, after, {})
    BY LoopStage
  <2> QED BY <1>2, <2>1 DEF TryBody
<1>4. Replaces(TestCond(n), t, after, {})
  <2>1. CASE Cond(n) = Null
    BY <1>3, <2>1 DEF TestCond
  <2>2. CASE Cond(n) # Null
    <3>1. PICK c \in DOMAIN N(n).kids : Cond(n) = Kid(n, c)
      BY <1>1, Loops DEF Cond, LoopKinds
    <3>2. Cond(n) \in Uses(n)
      BY <1>1, <2>2 DEF Uses, LoopKinds
    <3>3. HasValue(Cond(n))
      BY <1>1, <3>2 DEF Typed
    <3>4. Replaces(Visit(Kid(n, c)) \o <<Task("test", n)>>, t, after, {})
      BY <2>2, <3>1, <3>3, LoopStage
    <3> QED BY <2>2, <3>1, <3>4 DEF TestCond
  <2> QED BY <2>1, <2>2
<1>5. ASSUME N(n).kind = "for", NEW i \in {1, 3}
      PROVE  Replaces(Visit(Kid(n, i)) \o <<Task("loop", n)>>, t, after, {})
  <2>1. i \in DOMAIN N(n).kids
    BY <1>1, <1>5, Loops
  <2> QED BY <1>5, <2>1, LoopStage
<1>6. Replaces(<<>>, t, after, {})
  <2> DEFINE e == <<>>
  <2>1. e \in Seq(ProperTasks) /\ DOMAIN e = {}
    OBVIOUS
  <2>2. \A s \in Gives(t) : ~ HasValue(s)
    BY <1>1 DEF Gives, HasValue, LoopKinds
  <2> HIDE DEF e
  <2>3. Replaces(e, t, after, {})
    BY <2>1, <2>2 DEF Replaces, Choosing
  <2> QED BY <2>3 DEF e
<1> QED BY <1>3, <1>4, <1>5, <1>6

LEMMA LoopsOn ==
  ASSUME TypesOK, Typed, EvaluationOK, VisitLoop \/ ForHead \/ TestLoop \/ EndBody
  PROVE  EvalStep
<1> DEFINE t == Head(Tasks)
           n == This
           after == currentFrame.exprs
           Fronts == {TryBody(n), TestCond(n), <<>>}
                       \cup {Visit(Kid(n, i)) \o <<Task("loop", n)>> :
                               i \in {j \in {1, 3} : N(n).kind = "for"}}
<1>1. PICK do \in {"visit", "loop", "test", "endbody"} :
        Ready(do) /\ (do = "visit" => N(This).kind \in LoopKinds)
  BY DEF VisitLoop, Visiting, ForHead, TestLoop, Testing, EndBody, LoopKinds
<1>2. ProgramOK /\ n \in NodeNo /\ t \in ProperTasks /\ t.do = do /\ t.n = n
  BY <1>1, AtNode
<1>3. n \in Nodes(LoopKinds)
  BY <1>1, <1>2 DEF ProperTasks, Nodes, LoopKinds
<1>4. UNCHANGED <<envVars, exc>>
  BY DEF VisitLoop, ForHead, TestLoop, EndBody, Quiet
<1>5. \E front \in Fronts : Expand(front)
  BY DEF VisitLoop, ForHead, TestLoop, EndBody
<1>6. \A front \in Fronts : Replaces(front, t, after, {})
  <2> HIDE DEF n, t, after
  <2> QED BY <1>1, <1>2, <1>3, LoopFronts
<1> HIDE DEF n, Fronts
<1> QED BY <1>1, <1>4, <1>5, <1>6, Walks

-----------------------------------------------------------------------------
(***************************************************************************)
(* Top-level declarations, then main.                                      *)
(***************************************************************************)
\* Visits in the place of a declaration.
LEMMA DeclReplaced ==
  ASSUME NEW t, t.do = "decl", NEW front \in Seq(ProperTasks),
         \A k \in DOMAIN front : front[k].do = "visit", NEW after
  PROVE  Replaces(front, t, after, {})
<1>1. Gives(t) = {}
  BY DEF Gives
<1>2. \A k \in DOMAIN front : Needs(front[k], after) = {} /\ front[k].do # "bind"
  BY DEF Needs
<1> QED BY <1>1, <1>2 DEF Replaces, Choosing, Met

LEMMA DeclaresOn ==
  ASSUME TypesOK, Typed, EvaluationOK, VisitFunctionDecl \/ VisitGlobalVarDecl
  PROVE  EvalStep
<1>1. Ready("decl") /\ exc' = None /\ Head(Tasks).do = "decl"
  BY DEF VisitFunctionDecl, VisitGlobalVarDecl, Ready, Quiet
<1>2. currentFrame.exprs' = currentFrame.exprs
  BY DEF VisitFunctionDecl, fdecl, VisitGlobalVarDecl, envVars, currentFrame
<1>3. KeepsOthers(currentFrame.exprs, currentFrame.exprs', This)
  BY <1>2 DEF KeepsOthers
<1>4. \E front \in Seq(ProperTasks) :
        Expand(front) /\ \A k \in DOMAIN front : front[k].do = "visit"
  <2>1. CASE VisitFunctionDecl
    <3> DEFINE e == <<>>
    <3>1. Expand(e)
      BY <2>1 DEF VisitFunctionDecl
    <3>2. e \in Seq(ProperTasks) /\ DOMAIN e = {}
      OBVIOUS
    <3> HIDE DEF e
    <3> QED BY <3>1, <3>2
  <2>2. CASE VisitGlobalVarDecl
    <3> DEFINE m == UnitDecl.vardecl
               x == Task("visit", m)
    <3>1. ControlOK /\ ProgramOK /\ Head(Tasks) \in ProperTasks
      BY <1>1, AtHand DEF TypesOK, ControlOK, Ready
    <3>2. This \in DOMAIN prog.unit
      BY <1>1, <3>1 DEF ProperTasks, This
    <3>3. m \in NodeNo
      <4>1. IsProgram(prog)
        BY <3>1, ProgramsAssumption DEF ProgramOK
      <4> QED BY <2>2, <3>2, <4>1 DEF IsProgram, VisitGlobalVarDecl, UnitDecl, NodeNo
    <3>4. m # Null
      BY <3>1, <3>3, NodeShape DEF Null
    <3>5. x \in ProperTasks /\ x.do = "visit"
      BY <3>3, VisitTask DEF Task
    <3>6. Expand(<<x>>)
      BY <2>2, <3>4 DEF VisitGlobalVarDecl, Visit
    <3> HIDE DEF x
    <3>7. <<x>> \in Seq(ProperTasks) /\ \A k \in DOMAIN <<x>> : <<x>>[k] = x
      BY <3>5
    <3> DEFINE front == <<x>>
    <3>8. front \in Seq(ProperTasks) /\ Expand(front)
          /\ \A k \in DOMAIN front : front[k].do = "visit"
      BY <3>5, <3>6, <3>7
    <3> HIDE DEF front
    <3> QED BY <3>8
  <2> QED BY <2>1, <2>2
<1>5. PICK front \in Seq(ProperTasks) :
        Expand(front) /\ \A k \in DOMAIN front : front[k].do = "visit"
  BY <1>4
<1>6. Replaces(front, Head(Tasks), currentFrame.exprs', {})
  BY <1>1, <1>5, DeclReplaced
<1> QED BY <1>1, <1>3, <1>5, <1>6, Proceeds

\* main starts with nothing else to do.
LEMMA EntersMain ==
  ASSUME TypesOK, Typed, EvaluationOK, EnterMain
  PROVE  EvalStep
<1> DEFINE body == VisitStmt(Fn("main").body)
<1>1. /\ Ready("initGlobalVars") /\ MainDefined /\ exc' = None /\ Tasks # <<>>
      /\ Head(Tasks).do = "initGlobalVars" /\ Expand(body)
  BY DEF EnterMain, Ready, Quiet
<1>2. /\ ProgramOK /\ Tasks \in Seq(ProperTasks)
      /\ MainLast(Tasks)
  BY Top DEF Supported
<1>3. /\ Len(Tasks) \in Nat \ {0} /\ DOMAIN Tasks = 1 .. Len(Tasks) /\ Head(Tasks) = Tasks[1]
      /\ Tail(Tasks) \in Seq(ProperTasks) /\ Len(Tail(Tasks)) = Len(Tasks) - 1
  BY <1>1, <1>2, Shifted
<1>4. Len(Tasks) = 1
  BY <1>1, <1>2, <1>3 DEF MainLast
<1>5. Tail(Tasks) = <<>>
  <2>1. Len(Tail(Tasks)) = 0
    BY <1>3, <1>4
  <2> DEFINE r == Tail(Tasks)
  <2>2. r \in Seq(ProperTasks) /\ Len(r) = 0
    BY <1>3, <2>1
  <2> HIDE DEF r
  <2>3. r = <<>>
    BY <2>2, EmptySeq
  <2> QED BY <2>3 DEF r
<1>6. /\ body \in Seq(ProperTasks) /\ \A k \in DOMAIN body : body[k].do = "visit"
  <2>1. "main" \in DOMAIN prog.fn /\ Fn("main").body # Null
    BY <1>1 DEF MainDefined, TypesOK, ControlOK
  <2> QED BY <1>2, <2>1, BodyAsksNothing
<1> HIDE DEF body
<1>7. ctl' = Continue(body)
  BY <1>1, <1>5, <1>6, ConcatEmptySeq DEF Expand
<1>8. Supported(body, currentFrame.exprs', {}, exc' # None)
  BY <1>1, <1>6, VisitsSupported DEF Supported, Waiting
<1> QED BY <1>7, <1>8 DEF EvalStep

-----------------------------------------------------------------------------
(***************************************************************************)
(* The theorem.                                                            *)
(***************************************************************************)
LEMMA EvalSteps ==
  ASSUME TypesOK, Typed, EvaluationOK, Next
  PROVE  EvalStep
<1>1. CASE VisitFunctionDecl \/ VisitGlobalVarDecl \/ EnterMain
  BY <1>1, DeclaresOn, EntersMain
<1>2. CASE VisitChildren \/ VisitGroup \/ VisitCondition \/ TakeBranch
  BY <1>2, ChildrenWalked, GroupWalked, ConditionWalked, BranchWalked
<1>3. CASE \/ HandleLiteral \/ HandleParen \/ HandleBinop \/ HandleUnaryop \/ HandleDeclref
           \/ HandleCast \/ HandleArraysub \/ HandleSizeof \/ HandleVardecl \/ HandleBuiltIn
           \/ BindConditional
  BY <1>3, HandlersGoOn
<1>4. CASE HandleCall \/ LeaveFunction
  BY <1>4, CallsOn, LeavesOn
<1>5. CASE VisitLoop \/ ForHead \/ TestLoop \/ EndBody
  BY <1>5, LoopsOn
<1>6. CASE Throw \/ HandleReturn \/ Unwind \/ CatchInLoop
  BY <1>6, ThrowsOn, CatchesOn
<1>7. CASE LeaveMain \/ LogicError \/ AssertFails \/ UndefinedBehaviour
  BY <1>7, EndsThere
<1> QED BY <1>1, <1>2, <1>3, <1>4, <1>5, <1>6, <1>7 DEF Next

LEMMA EvaluationKept ==
  ASSUME TypesOK, EvaluationOK, [Next]_vars
  PROVE  EvaluationOK'
<1>1. CASE UNCHANGED vars
  <2>1. prog' = prog /\ ctl' = ctl /\ mStack' = mStack /\ exc' = exc
    BY <1>1 DEF vars, envVars
  <2> QED BY <2>1, SameUse DEF EvaluationOK, Pending
<1>2. CASE Next /\ ~ Typed
  <2>1. prog' = prog
    BY <1>2, SameProgram
  <2>2. ~ Typed'
    BY <1>2, <2>1, SameUse
  <2> QED BY <2>2 DEF EvaluationOK
<1>3. CASE Next /\ Typed
  <2>1. prog' = prog
    BY <1>3, SameProgram
  <2>2. StacksOK' /\ LowerFramesKept
    BY StacksKept DEF TypesOK, ControlOK
  <2>3. EvalStep
    BY <1>3, EvalSteps
  <2> QED BY <1>3, <2>1, <2>2, <2>3, EvalKept
<1> QED BY <1>1, <1>2, <1>3

LEMMA InitEvaluation == Init => EvaluationOK
<1> SUFFICES ASSUME Init PROVE EvaluationOK
  OBVIOUS
<1> DEFINE decls == [i \in 1 .. Len(prog.unit) |-> Task("decl", i)]
           x == Task("initGlobalVars", Null)
           last == <<x>>
           ts == decls \o last
           L == Len(prog.unit)
<1>1. L \in Nat /\ DOMAIN prog.unit = 1 .. L
  <2>1. prog.unit \in Seq(Item)
    BY ProgramsAssumption DEF Init, IsProgram
  <2> QED BY <2>1, LenProperties
<1>2. /\ decls \in Seq(ProperTasks) /\ DOMAIN decls = 1 .. L /\ Len(decls) = L
      /\ \A i \in DOMAIN decls : decls[i].do = "decl"
  <2>1. \A i \in 1 .. L : Task("decl", i) \in ProperTasks /\ Task("decl", i).do = "decl"
    BY <1>1 DEF Task, ProperTasks
  <2> QED BY <1>1, <2>1
<1>3. x \in ProperTasks /\ x.do = "initGlobalVars"
  BY DEF Task, ProperTasks
<1>4. ctl = <<[call |-> Null, tasks |-> ts]>> /\ mStack = <<StackFrame>> /\ exc = None
  BY DEF Init
<1> HIDE DEF decls, x, L
<1>5. last \in Seq(ProperTasks) /\ Len(last) = 1 /\ DOMAIN last = {1} /\ last[1] = x
  BY <1>3
<1> HIDE DEF last
<1>6. /\ DOMAIN ts = 1 .. L + 1 /\ Len(ts) = L + 1
      /\ \A k \in 1 .. L : ts[k] = decls[k]
      /\ ts[L + 1] = x
  <2>1. /\ DOMAIN (decls \o last) = 1 .. L + Len(last)
        /\ \A k \in DOMAIN decls : (decls \o last)[k] = decls[k]
        /\ \A k \in DOMAIN last : (decls \o last)[L + k] = last[k]
    BY <1>2, <1>5, Concatenated
  <2>2. Len(decls \o last) = L + Len(last)
    BY <1>2, <1>5, ConcatProperties
  <2> QED BY <1>2, <1>5, <2>1, <2>2
<1> HIDE DEF ts
<1>7. \A k \in DOMAIN ts : k \in 1 .. L \/ k = L + 1
  BY <1>1, <1>6 DEF L
<1>8. \A k \in DOMAIN ts : ts[k].do \notin Asking
  BY <1>2, <1>3, <1>6, <1>7 DEF Asking
<1>9. MainLast(ts)
  BY <1>2, <1>3, <1>6, <1>7 DEF MainLast
<1>10. \A i \in DOMAIN ctl : ctl[i].tasks = ts
  BY <1>4
<1>11. \A bound, calls, thrown : Supported(ts, bound, calls, thrown)
  BY <1>8, <1>9, NothingAsked
<1> QED BY <1>10, <1>11 DEF EvaluationOK

\* What the task at hand needs is bound.
LEMMA Bound ==
  ASSUME TypesOK, Typed, EvaluationOK, NEW do, Ready(do)
  PROVE  /\ Head(Tasks).do = do
         /\ \A s \in Needs(Head(Tasks), currentFrame.exprs) : findStmt(s)
         /\ do = "bind" => findStmt(Kid(This, 1))
<1>1. Tasks # <<>> /\ Head(Tasks).do = do /\ exc = None
  BY DEF Ready
<1>2. Tasks \in Seq(ProperTasks) /\ Supported(Tasks, currentFrame.exprs, {}, exc # None)
  BY Top
<1>3. 1 \in DOMAIN Tasks /\ Head(Tasks) = Tasks[1]
  BY <1>1, <1>2, Shifted
<1>4. Met(Tasks, 1, currentFrame.exprs, {})
  BY <1>1, <1>2, <1>3 DEF Supported, Waiting
<1>5. \A s \in Needs(Head(Tasks), currentFrame.exprs) : findStmt(s)
  BY <1>3, <1>4 DEF Met, Supplied, findStmt
<1>6. do = "bind" => findStmt(Kid(This, 1))
  BY <1>1, <1>2, <1>3 DEF Supported, Choosing, This, findStmt
<1> QED BY <1>1, <1>5, <1>6

LEMMA EvaluationSuffices == TypesOK /\ EvaluationOK => OperandsBound
<1> SUFFICES ASSUME TypesOK, EvaluationOK, Typed, AsksInVain PROVE FALSE
  BY DEF OperandsBound
<1>1. CASE Ready("handle")
  <2>1. /\ ProgramOK /\ This \in NodeNo /\ Head(Tasks).do = "handle" /\ Head(Tasks).n = This
    BY <1>1, AtNode
  <2>2. \A s \in Reads(This) : findStmt(s)
    <3>1. Needs(Head(Tasks), currentFrame.exprs) = Reads(This)
      BY <2>1 DEF Needs
    <3> QED BY <1>1, <3>1, Bound
  <2>3. ASSUME Stores(This) PROVE Kid(This, 1) \in DOMAIN currentFrame.ptrs
    <3>1. N(This).kind \in {"assign", "incdec"} /\ InMemory(Kid(This, 1))
      BY <2>3 DEF Stores
    <3>2. 1 \in DOMAIN N(This).kids
      <4>1. KidCounts(N(This).kind) \in {{1}, {2}}
        BY <3>1 DEF KidCounts
      <4>2. Len(N(This).kids) \in {1, 2}
        BY <2>1, <4>1, NodeShape
      <4> QED BY <2>1, <4>2, NodeShape
    <3>3. Kid(This, 1) \in Reads(This)
      BY <3>1, <3>2 DEF Reads
    <3>4. Kid(This, 1) \in DOMAIN currentFrame.exprs
      BY <2>2, <3>3 DEF findStmt
    <3> QED BY <3>1, <3>4, Current DEF FrameOK
  <2> QED BY <1>1, <2>1, <2>2, <2>3 DEF AsksInVain, Ready
<1>2. CASE Ready("branch") \/ Ready("test")
  <2>1. PICK do \in {"branch", "test"} : Ready(do)
    BY <1>2
  <2>2. Head(Tasks).do = do /\ Head(Tasks).n = This
    BY <2>1 DEF Ready, This
  <2>3. Needs(Head(Tasks), currentFrame.exprs) = {Cond(This)}
    BY <2>2 DEF Needs
  <2>4. findStmt(Cond(This))
    BY <2>1, <2>3, Bound
  <2> QED BY <2>1, <2>2, <2>4 DEF AsksInVain, Ready
<1>3. CASE Ready("bind")
  <2>1. /\ Head(Tasks) \in ProperTasks /\ Head(Tasks).do = "bind" /\ Head(Tasks).n = This
    BY <1>3, AtNode
  <2>2. N(This).kind = "cond"
    BY <2>1 DEF ProperTasks, Nodes
  <2>3. Picked(This, currentFrame.exprs) = Chosen(This)
    BY <2>2 DEF Picked, Chosen, Cond, getCondVal, getStmtVal
  <2>4. Needs(Head(Tasks), currentFrame.exprs) = {Chosen(This)}
    BY <2>1, <2>3 DEF Needs
  <2>5. findStmt(Chosen(This))
    BY <1>3, <2>4, Bound
  <2> QED BY <2>1, <2>5 DEF AsksInVain, Ready
<1> QED BY <1>1, <1>2, <1>3 DEF AsksInVain

\* Evaluation comes before use, in every program that Clang's type checker
\* lets through: what a handler, a selection or a loop asks its frame for has
\* been bound there since the frame was pushed, through every nesting of loops,
\* calls, conditionals and exceptions, so that getStmtVal's assert() never
\* fails and getPtrVal finds the address of what is assigned to.
THEOREM EvaluatedBeforeUse == Spec => []OperandsBound
<1>1. TypesOK /\ EvaluationOK /\ [Next]_vars => TypesOK' /\ EvaluationOK'
  BY TypesKept, EvaluationKept
<1>2. Init => TypesOK /\ EvaluationOK
  BY InitTypes, InitEvaluation
<1> QED BY <1>1, <1>2, EvaluationSuffices, PTL DEF Spec
=============================================================================
