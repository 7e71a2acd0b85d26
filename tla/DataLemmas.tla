------------------------------ MODULE DataLemmas ------------------------------
(***************************************************************************)
(* The lemmas about data the proofs rest on: what Append, SubSeq and       *)
(* EXCEPT do to a sequence of anything, induction over the natural numbers *)
(* and definition by recursion.                                            *)
(***************************************************************************)
EXTENDS AnySequence, Integers, SequenceTheorems, WellFoundedInduction, TLAPS

-----------------------------------------------------------------------------
(***************************************************************************)
(* Sequences.                                                              *)
(***************************************************************************)
LEMMA SeqShape ==
  ASSUME NEW s, IsSeq(s)
  PROVE  Len(s) \in Nat /\ DOMAIN s = 1 .. Len(s)
BY LenProperties DEF IsSeq

\* A sequence of elements of any set is a sequence.
LEMMA SeqOfAny ==
  ASSUME NEW S, NEW s \in Seq(S)
  PROVE  IsSeq(s)
<1> DEFINE R == {s[i] : i \in DOMAIN s}
<1>1. Len(s) \in Nat /\ DOMAIN s = 1 .. Len(s) /\ s \in [1 .. Len(s) -> S]
  BY LenProperties
<1>2. s \in [1 .. Len(s) -> R]
  BY <1>1
<1> QED BY <1>1, <1>2 DEF IsSeq

\* An element replaced; where there is none, nothing is.
LEMMA Replaced ==
  ASSUME NEW s, IsSeq(s), NEW n, NEW x
  PROVE  /\ IsSeq([s EXCEPT ![n] = x])
         /\ Len([s EXCEPT ![n] = x]) = Len(s)
         /\ \A i \in 1 .. Len(s) : [s EXCEPT ![n] = x][i] = IF i = n THEN x ELSE s[i]
<1> DEFINE S == {s[i] : i \in DOMAIN s} \cup {x}
           t == [s EXCEPT ![n] = x]
<1>1. s \in Seq(S) /\ Len(s) \in Nat /\ DOMAIN s = 1 .. Len(s)
  BY SeqMonotonic, SeqShape DEF IsSeq
<1>2. CASE n \in 1 .. Len(s)
  <2>1. t \in Seq(S) /\ Len(t) = Len(s)
    BY <1>1, <1>2, ExceptSeq
  <2>2. \A i \in 1 .. Len(s) : t[i] = IF i = n THEN x ELSE s[i]
    BY <1>1, <1>2, ExceptSeq
  <2> HIDE DEF S
  <2> QED BY <2>1, <2>2, SeqOfAny
<1>3. CASE n \notin 1 .. Len(s)
  <2>1. s = [i \in 1 .. Len(s) |-> s[i]]
    BY <1>1, LenProperties
  <2>2. t = s
    BY <1>1, <1>3, <2>1
  <2> QED BY <1>3, <2>2
<1> QED BY <1>2, <1>3

LEMMA TopReplaced ==
  ASSUME NEW s, IsSeq(s), Len(s) > 0, NEW x
  PROVE  /\ IsSeq([s EXCEPT ![Len(s)] = x])
         /\ Len([s EXCEPT ![Len(s)] = x]) = Len(s)
         /\ \A i \in 1 .. Len(s) - 1 : [s EXCEPT ![Len(s)] = x][i] = s[i]
<1> DEFINE t == [s EXCEPT ![Len(s)] = x]
<1>1. /\ IsSeq(t) /\ Len(t) = Len(s)
      /\ \A i \in 1 .. Len(s) : t[i] = IF i = Len(s) THEN x ELSE s[i]
  BY Replaced
<1>2. Len(s) \in Nat
  BY SeqShape
<1> HIDE DEF t
<1>3. \A i \in 1 .. Len(s) - 1 : t[i] = s[i]
  BY <1>1, <1>2
<1> QED BY <1>1, <1>3 DEF t

LEMMA Pushed ==
  ASSUME NEW s, IsSeq(s), NEW x
  PROVE  /\ IsSeq(Append(s, x)) /\ Len(Append(s, x)) = Len(s) + 1
         /\ \A i \in 1 .. Len(s) : Append(s, x)[i] = s[i]
         /\ Append(s, x)[Len(s) + 1] = x
<1> DEFINE S == {s[i] : i \in DOMAIN s} \cup {x}
<1>1. s \in Seq(S) /\ x \in S
  BY SeqMonotonic DEF IsSeq
<1>2. /\ Append(s, x) \in Seq(S) /\ Len(Append(s, x)) = Len(s) + 1
      /\ \A i \in 1 .. Len(s) : Append(s, x)[i] = s[i]
      /\ Append(s, x)[Len(s) + 1] = x
  BY <1>1, AppendProperties
<1> QED BY <1>2, SeqOfAny

LEMMA AllButLast ==
  ASSUME NEW s, IsSeq(s), Len(s) > 0
  PROVE  /\ IsSeq(SubSeq(s, 1, Len(s) - 1)) /\ Len(SubSeq(s, 1, Len(s) - 1)) = Len(s) - 1
         /\ \A i \in 1 .. Len(s) - 1 : SubSeq(s, 1, Len(s) - 1)[i] = s[i]
<1> DEFINE S == {s[i] : i \in DOMAIN s}
           Cut == SubSeq(s, 1, Len(s) - 1)
<1>1. Len(s) \in Nat /\ DOMAIN s = 1 .. Len(s)
  BY SeqShape
<1>2. \A i \in 1 .. Len(s) - 1 : s[i] \in S
  BY <1>1
<1>3. Len(s) - 1 \in Int /\ 1 \in Int
  BY <1>1
<1>4. /\ Cut \in Seq(S)
      /\ Len(Cut) = IF 1 <= Len(s) - 1 THEN (Len(s) - 1) - 1 + 1 ELSE 0
      /\ \A i \in 1 .. (Len(s) - 1) - 1 + 1 : Cut[i] = s[1 + i - 1]
  BY <1>2, <1>3, SubSeqProperties
<1>5. \A n \in Nat : n > 0 => /\ (IF 1 <= n - 1 THEN (n - 1) - 1 + 1 ELSE 0) = n - 1
                               /\ (n - 1) - 1 + 1 = n - 1
  OBVIOUS
<1>6. Len(Cut) = Len(s) - 1 /\ (Len(s) - 1) - 1 + 1 = Len(s) - 1
  BY <1>1, <1>4, <1>5
<1>7. ASSUME NEW i \in 1 .. Len(s) - 1
      PROVE  Cut[i] = s[i]
  <2>1. Cut[i] = s[1 + i - 1]
    BY <1>4, <1>6
  <2>2. 1 + i - 1 = i
    OBVIOUS
  <2> QED BY <2>1, <2>2
<1> QED BY <1>4, <1>6, <1>7, SeqOfAny

\* Two sequences one after the other.
LEMMA ConcatShape ==
  ASSUME NEW V, NEW s \in Seq(V), NEW t \in Seq(V)
  PROVE  /\ s \o t \in Seq(V)
         /\ Len(s) \in Nat /\ Len(t) \in Nat
         /\ DOMAIN s = 1 .. Len(s) /\ DOMAIN t = 1 .. Len(t)
         /\ DOMAIN (s \o t) = 1 .. Len(s) + Len(t)
         /\ \A k \in DOMAIN s : k \in DOMAIN (s \o t) /\ (s \o t)[k] = s[k]
         /\ \A k \in DOMAIN t : /\ Len(s) + k \in DOMAIN (s \o t)
                                /\ (s \o t)[Len(s) + k] = t[k]
<1>1. /\ s \o t \in Seq(V) /\ Len(s \o t) = Len(s) + Len(t)
      /\ \A i \in 1 .. Len(s) + Len(t) : (s \o t)[i] = IF i <= Len(s) THEN s[i] ELSE t[i - Len(s)]
  BY ConcatProperties
<1>2. /\ Len(s) \in Nat /\ Len(t) \in Nat
      /\ DOMAIN s = 1 .. Len(s) /\ DOMAIN t = 1 .. Len(t)
      /\ DOMAIN (s \o t) = 1 .. Len(s) + Len(t)
  BY <1>1, LenProperties
<1>3. ASSUME NEW k \in DOMAIN s PROVE k \in DOMAIN (s \o t) /\ (s \o t)[k] = s[k]
  BY <1>1, <1>2
<1>4. ASSUME NEW k \in DOMAIN t
      PROVE  Len(s) + k \in DOMAIN (s \o t) /\ (s \o t)[Len(s) + k] = t[k]
  <2>1. /\ Len(s) + k \in 1 .. Len(s) + Len(t)
        /\ ~ (Len(s) + k <= Len(s)) /\ (Len(s) + k) - Len(s) = k
    BY <1>2
  <2> QED BY <2>1, <1>1, <1>2
<1> QED BY <1>1, <1>2, <1>3, <1>4

-----------------------------------------------------------------------------
(***************************************************************************)
(* Induction and recursion, stated about sets and functions: what is       *)
(* proved of every number is a set of numbers, and the step of a recursion *)
(* is a function.                                                          *)
(***************************************************************************)
\* Every nonempty set of numbers has a least element.
LEMMA LeastNumber ==
  ASSUME NEW T, T \subseteq Nat, T # {}
  PROVE  \E n \in T : \A m \in T : n <= m
<1>1. IsWellFoundedOn(OpToRel(<, Nat), Nat)
  BY NatLessThanWellFounded
<1>2. PICK n \in T : \A m \in T : ~ (<<m, n>> \in OpToRel(<, Nat))
  BY <1>1, WFMin
<1>3. \A m \in T : m < n => <<m, n>> \in OpToRel(<, Nat)
  BY DEF OpToRel
<1>4. \A m \in T : ~ (m < n)
  BY <1>2, <1>3, Zenon
<1>5. \A m \in T : n <= m
  BY <1>4
<1> QED BY <1>5

\* A set that holds 0 and the successor of each of its numbers holds them all.
LEMMA Induction ==
  ASSUME NEW T, 0 \in T, \A n \in Nat : n \in T => n + 1 \in T
  PROVE  Nat \subseteq T
<1> DEFINE U == Nat \ T
<1> SUFFICES ASSUME U # {} PROVE FALSE
  OBVIOUS
<1>1. PICK n \in U : \A m \in U : n <= m
  <2>1. U \subseteq Nat
    OBVIOUS
  <2> HIDE DEF U
  <2> QED BY <2>1, LeastNumber
<1>2. n \in Nat /\ n # 0
  BY <1>1
<1>3. n - 1 \in Nat /\ (n - 1) + 1 = n /\ ~ (n <= n - 1)
  BY <1>2
<1>4. n - 1 \in T
  BY <1>1, <1>3
<1> QED BY <1>1, <1>3, <1>4

-----------------------------------------------------------------------------
(***************************************************************************)
(* The values of a recursion up to k: it starts with a and goes from the   *)
(* n-th value to the next by the function step[n].                         *)
(***************************************************************************)
Iterates(g, k, a, step) ==
  /\ g[0] = a
  /\ \A n \in Nat : n < k => g[n + 1] = step[n][g[n]]

\* They are determined.
LEMMA SameIterates ==
  ASSUME NEW a, NEW step, NEW k \in Nat, NEW g, NEW h,
         Iterates(g, k, a, step), Iterates(h, k, a, step)
  PROVE  g[k] = h[k]
<1> DEFINE T == {n \in Nat : n <= k => g[n] = h[n]}
<1>1. 0 \in T
  BY DEF Iterates
<1>2. ASSUME NEW n \in Nat, n \in T
      PROVE  n + 1 \in T
  <2> SUFFICES ASSUME n + 1 <= k PROVE g[n + 1] = h[n + 1]
    OBVIOUS
  <2>1. n < k /\ n <= k
    OBVIOUS
  <2> QED BY <1>2, <2>1 DEF Iterates
<1>3. Nat \subseteq T
  <2> HIDE DEF T
  <2> QED BY <1>1, <1>2, Induction
<1> QED BY <1>3

\* There are such values, up to any k.
LEMMA SomeIterates ==
  ASSUME NEW S, NEW a \in S, NEW step \in [Nat -> [S -> S]]
  PROVE  \A k \in Nat : \E g \in [Nat -> S] : Iterates(g, k, a, step)
<1> DEFINE T == {k \in Nat : \E g \in [Nat -> S] : Iterates(g, k, a, step)}
<1>1. 0 \in T
  <2> DEFINE g == [n \in Nat |-> a]
  <2>1. g \in [Nat -> S] /\ g[0] = a
    OBVIOUS
  <2>2. \A n \in Nat : ~ (n < 0)
    OBVIOUS
  <2>3. Iterates(g, 0, a, step)
    BY <2>1, <2>2 DEF Iterates
  <2> QED BY <2>1, <2>3
<1>2. ASSUME NEW k \in Nat, k \in T
      PROVE  k + 1 \in T
  <2>1. PICK g \in [Nat -> S] : Iterates(g, k, a, step)
    BY <1>2
  <2> DEFINE h == [n \in Nat |-> IF n = k + 1 THEN step[k][g[k]] ELSE g[n]]
  <2>2. step[k][g[k]] \in S
    OBVIOUS
  <2>3. h \in [Nat -> S]
    BY <2>2
  <2>4. h[0] = a
    BY <2>1 DEF Iterates
  <2>5. ASSUME NEW n \in Nat, n < k + 1
        PROVE  h[n + 1] = step[n][h[n]]
    <3>1. h[n] = g[n]
      BY <2>5
    <3>2. CASE n = k
      BY <3>1, <3>2
    <3>3. CASE n < k
      <4>1. h[n + 1] = g[n + 1]
        BY <3>3
      <4> QED BY <3>1, <3>3, <4>1, <2>1 DEF Iterates
    <3> QED BY <2>5, <3>2, <3>3
  <2>6. Iterates(h, k + 1, a, step)
    <3> HIDE DEF h
    <3> QED BY <2>4, <2>5 DEF Iterates
  <2> QED BY <2>3, <2>6
<1>3. Nat \subseteq T
  <2> HIDE DEF T
  <2> QED BY <1>1, <1>2, Induction
<1> QED BY <1>3

\* g is the function the recursion defines.
DefinedBy(g, S, a, step) ==
  /\ g \in [Nat -> S]
  /\ g[0] = a
  /\ \A n \in Nat : g[n + 1] = step[n][g[n]]

\* There is such a function.
LEMMA Recursion ==
  ASSUME NEW S, NEW a \in S, NEW step \in [Nat -> [S -> S]]
  PROVE  \E g : DefinedBy(g, S, a, step)
<1> DEFINE upTo(k) == CHOOSE g : g \in [Nat -> S] /\ Iterates(g, k, a, step)
           f == [k \in Nat |-> upTo(k)[k]]
<1>1. \A k \in Nat : upTo(k) \in [Nat -> S] /\ Iterates(upTo(k), k, a, step)
  BY SomeIterates
<1> HIDE DEF upTo
<1>2. f \in [Nat -> S]
  BY <1>1
<1>3. f[0] = a
  BY <1>1 DEF Iterates
<1>4. ASSUME NEW n \in Nat
      PROVE  f[n + 1] = step[n][f[n]]
  <2> DEFINE g == upTo(n + 1)
  <2>1. Iterates(g, n + 1, a, step)
    BY <1>1
  <2>2. Iterates(g, n, a, step)
    <3>1. \A m \in Nat : m < n => m < n + 1
      OBVIOUS
    <3> HIDE DEF g
    <3> QED BY <2>1, <3>1 DEF Iterates
  <2>3. g[n] = upTo(n)[n]
    <3> HIDE DEF g
    <3> QED BY <2>2, <1>1, SameIterates
  <2>4. g[n + 1] = step[n][g[n]]
    <3>1. n < n + 1
      OBVIOUS
    <3> HIDE DEF g
    <3> QED BY <2>1, <3>1 DEF Iterates
  <2> QED BY <2>3, <2>4
<1>5. DefinedBy(f, S, a, step)
  BY <1>2, <1>3, <1>4 DEF DefinedBy
<1> QED BY <1>5
=============================================================================
