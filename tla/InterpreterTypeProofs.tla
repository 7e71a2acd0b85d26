----------------------- MODULE InterpreterTypeProofs -----------------------
(***************************************************************************)
(* Type correctness of the interpreter, for every set of programs: the     *)
(* handlers bind nodes and variables that exist to numbers, every access   *)
(* to memory that is not undefined finds its bytes, and every node in      *)
(* memory has its address when it is assigned to.  First the arithmetic:   *)
(* values stay integers, bytes stay bytes.                                 *)
(***************************************************************************)
EXTENDS InterpreterProofs

-----------------------------------------------------------------------------
(***************************************************************************)
(* Powers, of two and of the byte.                                         *)
(***************************************************************************)
LEMMA PowersExist ==
  ASSUME NEW b \in Nat \ {0}
  PROVE  \E g : g = [n \in Nat |-> IF n = 0 THEN 1 ELSE b * g[n - 1]]
<1> DEFINE S == Nat
           step == [n \in Nat |-> [x \in S |-> b * x]]
<1>1. step \in [Nat -> [S -> S]] /\ 1 \in S
  OBVIOUS
<1>2. PICK g : DefinedBy(g, S, 1, step)
  <2> HIDE DEF step, S
  <2> QED BY <1>1, Recursion
<1>3. g \in [Nat -> S] /\ g[0] = 1 /\ \A n \in Nat : g[n + 1] = b * g[n]
  BY <1>2 DEF DefinedBy
<1>4. \A n \in Nat : g[n] = IF n = 0 THEN 1 ELSE b * g[n - 1]
  <2> SUFFICES ASSUME NEW n \in Nat, n # 0 PROVE g[n] = b * g[n - 1]
    BY <1>3
  <2>1. n - 1 \in Nat /\ (n - 1) + 1 = n
    OBVIOUS
  <2> QED BY <2>1, <1>3
<1> QED BY <1>3, <1>4

LEMMA Powers ==
  ASSUME NEW b \in Nat \ {0}, NEW g,
         g = [n \in Nat |-> IF n = 0 THEN 1 ELSE b * g[n - 1]]
  PROVE  /\ g \in [Nat -> Nat \ {0}]
         /\ g[0] = 1
         /\ \A n \in Nat : g[n + 1] = b * g[n]
<1>1. \A n \in Nat : g[n] = IF n = 0 THEN 1 ELSE b * g[n - 1]
  OBVIOUS
<1>2. \A n \in Nat : g[n + 1] = b * g[n]
  <2> SUFFICES ASSUME NEW n \in Nat PROVE g[n + 1] = b * g[n]
    OBVIOUS
  <2>1. n + 1 \in Nat /\ n + 1 # 0 /\ (n + 1) - 1 = n
    OBVIOUS
  <2> QED BY <2>1, <1>1
<1>3. g[0] = 1
  BY <1>1
<1> DEFINE T == {n \in Nat : g[n] \in Nat \ {0}}
<1>4. Nat \subseteq T
  <2>1. 0 \in T
    BY <1>3
  <2>2. \A x, y \in Nat \ {0} : x * y \in Nat \ {0}
    OBVIOUS
  <2>3. \A n \in Nat : n \in T => n + 1 \in T
    BY <1>2, <2>2
  <2> HIDE DEF T
  <2> QED BY <2>1, <2>3, Induction
<1>5. \A n \in Nat : g[n] \in Nat \ {0}
  BY <1>4
<1>6. g \in [Nat -> Nat \ {0}]
  BY <1>5
<1> QED BY <1>2, <1>3, <1>6

LEMMA PowerValues ==
  /\ Power \in [Nat -> Nat \ {0}]
  /\ Power[0] = 1
  /\ \A n \in Nat : Power[n + 1] = 2 * Power[n]
<1> DEFINE Def(g) == [n \in Nat |-> IF n = 0 THEN 1 ELSE 2 * g[n - 1]]
<1>1. \E g : g = Def(g)
  BY PowersExist
<1>2. Power = CHOOSE g : g = Def(g)
  BY DEF Power
<1>3. Power = Def(Power)
  <2> HIDE DEF Def
  <2> QED BY <1>1, <1>2
<1> QED BY <1>3, Powers

LEMMA BaseValues ==
  /\ Base \in [Nat -> Nat \ {0}]
  /\ Base[0] = 1
  /\ \A n \in Nat : Base[n + 1] = ByteBase * Base[n]
<1> DEFINE Def(g) == [n \in Nat |-> IF n = 0 THEN 1 ELSE ByteBase * g[n - 1]]
<1>0. ByteBase \in Nat \ {0}
  BY SizesAssumption
<1>1. \E g : g = Def(g)
  BY <1>0, PowersExist
<1>2. Base = CHOOSE g : g = Def(g)
  BY DEF Base
<1>3. Base = Def(Base)
  <2> HIDE DEF Def
  <2> QED BY <1>1, <1>2
<1> QED BY <1>0, <1>3, Powers

-----------------------------------------------------------------------------
(***************************************************************************)
(* Sums of digits: the recursions of Bitwise2 and FromBytes.               *)
(***************************************************************************)
LEMMA SumsExist ==
  ASSUME NEW w \in Nat, NEW t \in [Nat -> Int]
  PROVE  \E g : g = [k \in 0 .. w |-> IF k = 0 THEN 0 ELSE g[k - 1] + t[k - 1]]
<1> DEFINE S == Int
           step == [n \in Nat |-> [x \in S |-> x + t[n]]]
<1>1. step \in [Nat -> [S -> S]] /\ 0 \in S
  OBVIOUS
<1>2. PICK g : DefinedBy(g, S, 0, step)
  <2> HIDE DEF step, S
  <2> QED BY <1>1, Recursion
<1>3. g \in [Nat -> S] /\ g[0] = 0 /\ \A n \in Nat : g[n + 1] = g[n] + t[n]
  BY <1>2 DEF DefinedBy
<1> DEFINE h == [k \in 0 .. w |-> g[k]]
<1>4. \A k \in 0 .. w : h[k] = IF k = 0 THEN 0 ELSE h[k - 1] + t[k - 1]
  <2> SUFFICES ASSUME NEW k \in 0 .. w, k # 0 PROVE h[k] = h[k - 1] + t[k - 1]
    BY <1>3
  <2>1. k - 1 \in Nat /\ k - 1 \in 0 .. w /\ (k - 1) + 1 = k
    OBVIOUS
  <2>2. g[k] = g[k - 1] + t[k - 1]
    BY <2>1, <1>3
  <2> QED BY <2>1, <2>2
<1>5. h = [k \in 0 .. w |-> h[k]]
  OBVIOUS
<1> HIDE DEF h
<1>6. h = [k \in 0 .. w |-> IF k = 0 THEN 0 ELSE h[k - 1] + t[k - 1]]
  BY <1>4, <1>5
<1> QED BY <1>6

LEMMA Sums ==
  ASSUME NEW w \in Nat, NEW t \in [Nat -> Int], NEW g,
         g = [k \in 0 .. w |-> IF k = 0 THEN 0 ELSE g[k - 1] + t[k - 1]]
  PROVE  /\ g \in [0 .. w -> Int]
         /\ g[0] = 0
         /\ \A k \in Nat : k < w => g[k + 1] = g[k] + t[k]
<1>1. \A k \in 0 .. w : g[k] = IF k = 0 THEN 0 ELSE g[k - 1] + t[k - 1]
  OBVIOUS
<1>2. \A k \in Nat : k < w => g[k + 1] = g[k] + t[k]
  <2> SUFFICES ASSUME NEW k \in Nat, k < w PROVE g[k + 1] = g[k] + t[k]
    OBVIOUS
  <2>1. k + 1 \in 0 .. w /\ k + 1 # 0 /\ (k + 1) - 1 = k
    OBVIOUS
  <2> QED BY <2>1, <1>1
<1>3. g[0] = 0
  BY <1>1
<1> DEFINE T == {k \in Nat : k <= w => g[k] \in Int}
<1>4. Nat \subseteq T
  <2>1. 0 \in T
    BY <1>3
  <2>2. ASSUME NEW k \in Nat, k \in T
        PROVE  k + 1 \in T
    <3> SUFFICES ASSUME k + 1 <= w PROVE g[k + 1] \in Int
      OBVIOUS
    <3>1. k < w /\ k <= w
      OBVIOUS
    <3> QED BY <3>1, <2>2, <1>2
  <2> HIDE DEF T
  <2> QED BY <2>1, <2>2, Induction
<1>5. \A k \in 0 .. w : g[k] \in Int
  <2>1. \A k \in 0 .. w : k \in Nat /\ k <= w
    OBVIOUS
  <2> QED BY <2>1, <1>4
<1>6. g \in [0 .. w -> Int]
  BY <1>5
<1> QED BY <1>2, <1>3, <1>6

\* The value of w digits of base Base.
Raw(bytes, w) ==
  CHOOSE raw : raw = [k \in 0 .. w |->
                        IF k = 0 THEN 0 ELSE raw[k - 1] + bytes[k - 1] * Base[k - 1]]

LEMMA RawValues ==
  ASSUME NEW w \in Nat, NEW bytes \in [0 .. w - 1 -> Int]
  PROVE  /\ Raw(bytes, w) \in [0 .. w -> Int]
         /\ Raw(bytes, w)[0] = 0
         /\ \A k \in Nat :
              k < w => Raw(bytes, w)[k + 1] = Raw(bytes, w)[k] + bytes[k] * Base[k]
<1> DEFINE Def(g) == [k \in 0 .. w |->
                        IF k = 0 THEN 0 ELSE g[k - 1] + bytes[k - 1] * Base[k - 1]]
           t == [k \in Nat |-> IF k < w THEN bytes[k] * Base[k] ELSE 0]
           DefT(g) == [k \in 0 .. w |-> IF k = 0 THEN 0 ELSE g[k - 1] + t[k - 1]]
<1>1. t \in [Nat -> Int]
  <2>1. \A k \in Nat : k < w => k \in 0 .. w - 1
    OBVIOUS
  <2>2. \A k \in Nat : Base[k] \in Int
    BY BaseValues
  <2>3. \A k \in Nat : k < w => bytes[k] \in Int /\ Base[k] \in Int
    BY <2>1, <2>2
  <2>4. \A x, y \in Int : x * y \in Int
    OBVIOUS
  <2> QED BY <2>3, <2>4
<1>2. \A g : Def(g) = DefT(g)
  <2> SUFFICES ASSUME NEW g, NEW k \in 0 .. w, k # 0
               PROVE  g[k - 1] + bytes[k - 1] * Base[k - 1] = g[k - 1] + t[k - 1]
    OBVIOUS
  <2>1. k - 1 \in Nat /\ k - 1 < w
    OBVIOUS
  <2> QED BY <2>1
<1>3. \E g : g = DefT(g)
  <2> HIDE DEF t
  <2> QED BY <1>1, SumsExist
<1>4. \E g : g = Def(g)
  <2> HIDE DEF Def, DefT
  <2> QED BY <1>2, <1>3
<1>5. Raw(bytes, w) = CHOOSE g : g = Def(g)
  BY DEF Raw
<1>6. Raw(bytes, w) = Def(Raw(bytes, w))
  <2> HIDE DEF Def
  <2> QED BY <1>4, <1>5
<1>7. Raw(bytes, w) = DefT(Raw(bytes, w))
  <2> HIDE DEF Def, DefT
  <2> QED BY <1>2, <1>6
<1>8. /\ Raw(bytes, w) \in [0 .. w -> Int]
      /\ Raw(bytes, w)[0] = 0
      /\ \A k \in Nat : k < w => Raw(bytes, w)[k + 1] = Raw(bytes, w)[k] + t[k]
  <2> HIDE DEF t
  <2>1. \A g : g = DefT(g) => /\ g \in [0 .. w -> Int]
                              /\ g[0] = 0
                              /\ \A k \in Nat : k < w => g[k + 1] = g[k] + t[k]
    BY <1>1, Sums
  <2> HIDE DEF DefT
  <2> QED BY <1>7, <2>1
<1> QED BY <1>8

LEMMA FromBytesValue ==
  ASSUME NEW w, NEW bytes
  PROVE  FromBytes(bytes, w) =
           IF Raw(bytes, w)[w] < Base[w] \div 2 THEN Raw(bytes, w)[w]
           ELSE Raw(bytes, w)[w] - Base[w]
BY DEF FromBytes, Raw

LEMMA FromBytesType ==
  ASSUME NEW w \in Nat, NEW bytes \in [0 .. w - 1 -> Int]
  PROVE  FromBytes(bytes, w) \in Int
<1>1. Raw(bytes, w)[w] \in Int
  BY RawValues
<1>2. Base[w] \in Int
  BY BaseValues
<1> QED BY <1>1, <1>2, FromBytesValue

-----------------------------------------------------------------------------
(***************************************************************************)
(* Types.                                                                  *)
(***************************************************************************)
LEMMA SizeType ==
  ASSUME NEW ty
  PROVE  SizeOf(ty) \in Nat \ {0}
BY SizesAssumption DEF SizeOf

\* Integer division by a positive number.
LEMMA DivType ==
  ASSUME NEW v \in Int, NEW d \in Nat \ {0}
  PROVE  v \div d \in Int /\ v % d \in 0 .. d - 1
OBVIOUS

\* A byte is one.
LEMMA ByteType ==
  ASSUME NEW v \in Int, NEW k \in Nat
  PROVE  Byte(v, k) \in 0 .. ByteBase - 1
<1>1. Base[k] \in Nat \ {0} /\ ByteBase \in Nat \ {0}
  BY BaseValues, SizesAssumption
<1>2. v \div Base[k] \in Int
  BY <1>1, DivType
<1> QED BY <1>1, <1>2, DivType DEF Byte

LEMMA NarrowType ==
  ASSUME NEW v \in Int, NEW ty
  PROVE  Narrow(v, ty) \in Int
<1> DEFINE bytes == [k \in 0 .. SizeOf(ty) - 1 |-> Byte(v, k)]
<1>1. SizeOf(ty) \in Nat
  BY SizeType
<1>2. bytes \in [0 .. SizeOf(ty) - 1 -> Int]
  <2>1. \A k \in 0 .. SizeOf(ty) - 1 : Byte(v, k) \in Int
    <3> SUFFICES ASSUME NEW k \in 0 .. SizeOf(ty) - 1 PROVE Byte(v, k) \in Int
      OBVIOUS
    <3>1. k \in Nat
      BY <1>1
    <3>2. Byte(v, k) \in 0 .. ByteBase - 1 /\ ByteBase \in Nat
      BY <3>1, ByteType, SizesAssumption
    <3> QED BY <3>2
  <2> QED BY <2>1
<1> HIDE DEF bytes
<1>3. FromBytes(bytes, SizeOf(ty)) \in Int
  BY <1>1, <1>2, FromBytesType
<1> QED BY <1>3 DEF Narrow, bytes

LEMMA BitType ==
  ASSUME NEW v \in Int, NEW k \in Nat
  PROVE  Bit(v, k) \in {0, 1}
<1>1. Power[k] \in Nat \ {0}
  BY PowerValues
<1>2. v \div Power[k] \in Int
  BY <1>1, DivType
<1> QED BY <1>2 DEF Bit

LEMMA Bitwise2Type ==
  ASSUME NEW op \in [BitPair -> {0, 1}], NEW l \in Int, NEW r \in Int
  PROVE  Bitwise2(op, l, r) \in Int
<1> DEFINE at(k) == op[<<Bit(l, k), Bit(r, k)>>]
           Def(g) == [k \in 0 .. WordBits |->
                        IF k = 0 THEN 0 ELSE g[k - 1] + at(k - 1) * Power[k - 1]]
           low == CHOOSE g : g = Def(g)
           t == [k \in Nat |-> at(k) * Power[k]]
           DefT(g) == [k \in 0 .. WordBits |-> IF k = 0 THEN 0 ELSE g[k - 1] + t[k - 1]]
<1>1. \A k \in Nat : at(k) \in Int /\ Power[k] \in Int
  <2> SUFFICES ASSUME NEW k \in Nat PROVE at(k) \in Int /\ Power[k] \in Int
    OBVIOUS
  <2>1. <<Bit(l, k), Bit(r, k)>> \in BitPair
    BY BitType DEF BitPair
  <2>2. Power[k] \in Int
    BY PowerValues
  <2> QED BY <2>1, <2>2
<1>2. \A x, y \in Int : x * y \in Int
  OBVIOUS
<1>3. t \in [Nat -> Int]
  BY <1>1, <1>2
<1>4. \A g : Def(g) = DefT(g)
  <2> SUFFICES ASSUME NEW g, NEW k \in 0 .. WordBits, k # 0
               PROVE  g[k - 1] + at(k - 1) * Power[k - 1] = g[k - 1] + t[k - 1]
    OBVIOUS
  <2>1. k - 1 \in Nat
    OBVIOUS
  <2> QED BY <2>1
<1>5. WordBits \in Nat
  BY SizesAssumption
<1>6. \E g : g = DefT(g)
  <2> HIDE DEF t
  <2> QED BY <1>3, <1>5, SumsExist
<1>7. low = DefT(low)
  <2> HIDE DEF Def, DefT
  <2> QED BY <1>4, <1>6
<1>8. low \in [0 .. WordBits -> Int]
  <2> HIDE DEF t
  <2>1. \A g : g = DefT(g) => g \in [0 .. WordBits -> Int]
    BY <1>3, <1>5, Sums
  <2> HIDE DEF DefT, low
  <2> QED BY <1>7, <2>1
<1>9. Bitwise2(op, l, r) = low[WordBits] - at(WordBits) * Power[WordBits]
  BY DEF Bitwise2
<1> HIDE DEF low, at
<1>10. low[WordBits] \in Int /\ at(WordBits) * Power[WordBits] \in Int
  BY <1>1, <1>2, <1>5, <1>8
<1> QED BY <1>9, <1>10

LEMMA QuotientType ==
  ASSUME NEW l \in Int, NEW r \in Int, r # 0
  PROVE  Quotient(l, r) \in Int
<1>1. Abs(l) \in Int /\ Abs(r) \in Nat \ {0}
  BY DEF Abs
<1>2. Abs(l) \div Abs(r) \in Int
  BY <1>1, DivType
<1> QED BY <1>2 DEF Quotient

\* Every operator of binop() gives a number, if the divisor is not 0 and the
\* shift is defined.
LEMMA ArithmeticType ==
  ASSUME NEW op, NEW l \in Int, NEW r \in Int,
         op \in {"/", "%"} => r # 0, DefinedShift(op, r)
  PROVE  Arithmetic(op, l, r) \in Int
<1>1. \A x, y \in Int : x * y \in Int
  OBVIOUS
<1>2. op \in {"/", "%"} => Quotient(l, r) \in Int
  BY QuotientType
<1>3. op \in {"/", "%"} => r * Quotient(l, r) \in Int
  BY <1>1, <1>2
<1>4. op \in {"<<", ">>"} => Power[r] \in Nat \ {0}
  <2> SUFFICES ASSUME op \in {"<<", ">>"} PROVE Power[r] \in Nat \ {0}
    OBVIOUS
  <2>1. r \in 0 .. WordBits - 1
    BY DEF DefinedShift
  <2>2. r \in Nat
    BY <2>1, SizesAssumption
  <2> QED BY <2>2, PowerValues
<1>5. op = "<<" => l * Power[r] \in Int
  BY <1>1, <1>4
<1>6. op = ">>" => l \div Power[r] \in Int
  BY <1>4, DivType
<1>7. /\ Bitwise2(AndBits, l, r) \in Int
      /\ Bitwise2(OrBits, l, r) \in Int
      /\ Bitwise2(XorBits, l, r) \in Int
  <2>1. AndBits \in [BitPair -> {0, 1}]
    BY DEF AndBits
  <2>2. OrBits \in [BitPair -> {0, 1}]
    BY DEF OrBits
  <2>3. XorBits \in [BitPair -> {0, 1}]
    BY DEF XorBits
  <2> QED BY <2>1, <2>2, <2>3, Bitwise2Type
<1>8. \A b : Truth(b) \in Int
  BY DEF Truth
<1>9. l + r \in Int /\ l - r \in Int /\ l * r \in Int
  BY <1>1
<1>10. op = "%" => Remainder(l, r) \in Int
  BY <1>3 DEF Remainder
<1>11. CASE op \in {"+", "-", "*", "/", "%"}
  BY <1>11, <1>9, <1>2, <1>10 DEF Arithmetic
<1>12. CASE op \in {"<<", ">>", "&", "^", "|"}
  BY <1>12, <1>5, <1>6, <1>7 DEF Arithmetic
<1>13. CASE op \in {"<", ">", "<=", ">=", "==", "!=", "&&", "||"}
  BY <1>13, <1>8 DEF Arithmetic
<1>14. CASE op \notin {"+", "-", "*", "/", "%", "<<", ">>", "&", "^", "|",
                       "<", ">", "<=", ">=", "==", "!=", "&&", "||"}
  BY <1>14 DEF Arithmetic
<1> QED BY <1>11, <1>12, <1>13, <1>14

-----------------------------------------------------------------------------
(***************************************************************************)
(* Bytes stored and loaded.                                                *)
(***************************************************************************)
\* Quotient and remainder by a positive number.
LEMMA DivMod ==
  ASSUME NEW v \in Int, NEW d \in Nat \ {0}
  PROVE  v = (d * (v \div d)) + (v % d) /\ (v % d) \in 0 .. d - 1 /\ v \div d \in Int
OBVIOUS

\* Consecutive multiples of d are d apart.
LEMMA Product ==
  ASSUME NEW d \in Nat \ {0}, NEW a \in Int, NEW b \in Int, a < b
  PROVE d * a + d <= d * b /\ d * a \in Int /\ d * b \in Int
<1>1. d * b = d * a + d * (b - a)
  OBVIOUS
<1>2. \A x, y \in Nat \ {0} : x <= x * y
  OBVIOUS
<1>3. d <= d * (b - a)
  BY <1>2
<1>4. d * a \in Int /\ d * b \in Int /\ d * (b - a) \in Int
  OBVIOUS
<1> QED BY <1>1, <1>3, <1>4

\* The remainder is the only one.
LEMMA ModUnique ==
  ASSUME NEW d \in Nat \ {0}, NEW q \in Int, NEW s \in 0 .. d - 1
  PROVE  (d * q + s) % d = s
<1> DEFINE v == d * q + s
           a == v \div d
           t == v % d
<1>1. v \in Int /\ d * q \in Int
  OBVIOUS
<1>2. v = d * a + t /\ t \in 0 .. d - 1 /\ a \in Int
  BY <1>1, DivMod
<1>3. v = d * q + s
  OBVIOUS
<1> HIDE DEF a, t, v
<1>4. CASE a < q
  <2>1. d * a + d <= d * q /\ d * a \in Int
    BY <1>4, <1>2, Product
  <2> QED BY <2>1, <1>1, <1>2, <1>3
<1>5. CASE q < a
  <2>1. d * q + d <= d * a /\ d * a \in Int
    BY <1>5, <1>2, Product
  <2> QED BY <2>1, <1>1, <1>2, <1>3
<1>6. CASE a = q
  <2>1. d * a = d * q
    BY <1>6
  <2>2. t = s
    BY <2>1, <1>1, <1>2, <1>3
  <2> QED BY <2>2 DEF t, v
<1> QED BY <1>2, <1>4, <1>5, <1>6

\* One more digit: the remainder by b * c from the one by b.
LEMMA OneMoreDigit ==
  ASSUME NEW v \in Int, NEW b \in Nat \ {0}, NEW c \in Nat \ {0}
  PROVE  v % (c * b) = (v % b) + (((v \div b) % c) * b)
<1> DEFINE q == v \div b
           r == v % b
           p == q \div c
           u == q % c
<1>1. v = b * q + r /\ r \in 0 .. b - 1 /\ q \in Int
  BY DivMod
<1>2. q = c * p + u /\ u \in 0 .. c - 1 /\ p \in Int
  BY <1>1, DivMod
<1> HIDE DEF q, r, p, u
<1>3. \A x, y \in Nat \ {0} : x * y \in Nat \ {0}
  OBVIOUS
<1>4. c * b \in Nat \ {0} /\ u * b \in Nat
  BY <1>2, <1>3
<1>5. \A x, y, z, w \in Int : x * (y * z + w) = (y * x) * z + w * x
  OBVIOUS
<1>6. b * q = (c * b) * p + u * b
  BY <1>1, <1>2, <1>5
<1>7. u * b + r \in 0 .. (c * b) - 1
  <2>1. b * u + b <= b * c
    BY <1>2, Product
  <2>2. b * u = u * b /\ b * c = c * b
    BY <1>2
  <2> QED BY <2>1, <2>2, <1>1, <1>4
<1>8. (c * b) * p \in Int
  BY <1>2, <1>4
<1>9. v = (c * b) * p + (u * b + r)
  BY <1>1, <1>4, <1>6, <1>8
<1>10. ((c * b) * p + (u * b + r)) % (c * b) = u * b + r
  <2>1. \A d \in Nat \ {0}, x \in Int : \A s \in 0 .. d - 1 : (d * x + s) % d = s
    BY ModUnique
  <2> QED BY <2>1, <1>2, <1>4, <1>7
<1>11. v % (c * b) = u * b + r
  BY <1>9, <1>10
<1> QED BY <1>11, <1>1, <1>4 DEF q, r, u

\* The bytes of v, put together again, are v modulo the width.
LEMMA RawOfBytes ==
  ASSUME NEW v \in Int, NEW w \in Nat
  PROVE  Raw([k \in 0 .. w - 1 |-> Byte(v, k)], w)[w] = v % Base[w]
<1> DEFINE bytes == [k \in 0 .. w - 1 |-> Byte(v, k)]
           raw == Raw(bytes, w)
           T == {k \in Nat : k <= w => raw[k] = v % Base[k]}
<1>1. \A k \in Nat : k < w => bytes[k] = Byte(v, k) /\ Byte(v, k) \in Int
  <2> SUFFICES ASSUME NEW k \in Nat, k < w PROVE bytes[k] = Byte(v, k) /\ Byte(v, k) \in Int
    OBVIOUS
  <2>1. Byte(v, k) \in 0 .. ByteBase - 1 /\ ByteBase \in Nat
    BY ByteType, SizesAssumption
  <2> QED BY <2>1
<1>2. bytes \in [0 .. w - 1 -> Int]
  <2>1. \A k \in 0 .. w - 1 : k \in Nat /\ k < w
    OBVIOUS
  <2> QED BY <2>1, <1>1
<1>3. /\ raw[0] = 0
      /\ \A k \in Nat : k < w => raw[k + 1] = raw[k] + bytes[k] * Base[k]
  <2> HIDE DEF bytes
  <2> QED BY <1>2, RawValues
<1> HIDE DEF raw, bytes
<1>4. 0 \in T
  <2>1. v % 1 = 0
    OBVIOUS
  <2> QED BY <2>1, <1>3, BaseValues
<1>5. ASSUME NEW k \in Nat, k \in T
      PROVE  k + 1 \in T
  <2> SUFFICES ASSUME k + 1 <= w PROVE raw[k + 1] = v % Base[k + 1]
    OBVIOUS
  <2>1. k < w /\ raw[k] = v % Base[k]
    BY <1>5
  <2>2. raw[k + 1] = (v % Base[k]) + (Byte(v, k) * Base[k])
    BY <2>1, <1>1, <1>3
  <2>3. Base[k] \in Nat \ {0} /\ ByteBase \in Nat \ {0} /\ Base[k + 1] = ByteBase * Base[k]
    BY BaseValues, SizesAssumption
  <2>4. v % (ByteBase * Base[k])
          = (v % Base[k]) + (((v \div Base[k]) % ByteBase) * Base[k])
    BY <2>3, OneMoreDigit
  <2> QED BY <2>2, <2>3, <2>4 DEF Byte
<1>6. Nat \subseteq T
  <2> HIDE DEF T
  <2> QED BY <1>4, <1>5, Induction
<1>7. raw[w] = v % Base[w]
  BY <1>6
<1> QED BY <1>7 DEF raw, bytes

(***************************************************************************)
(* What is stored is loaded back: a number that fits a type survives being *)
(* cut to its bytes and put together again.  (The stores and loads through *)
(* char*, int* and pointer casts of Environment.cpp.)                      *)
(***************************************************************************)
THEOREM NarrowFits ==
  ASSUME NEW v \in Int, NEW ty,
         - (Base[SizeOf(ty)] \div 2) <= v, v < Base[SizeOf(ty)] \div 2
  PROVE  Narrow(v, ty) = v
<1> DEFINE w == SizeOf(ty)
           b == Base[w]
           r == v % b
<1>1. w \in Nat /\ b \in Nat \ {0}
  BY SizeType, BaseValues
<1>2. Narrow(v, ty) = IF r < b \div 2 THEN r ELSE r - b
  <2>1. Raw([k \in 0 .. w - 1 |-> Byte(v, k)], w)[w] = r
    BY <1>1, RawOfBytes
  <2> QED BY <2>1, FromBytesValue DEF Narrow
<1> DEFINE h == b \div 2
<1>3. h \in Nat /\ 2 * h <= b
  BY <1>1
<1>4. \A d \in Nat \ {0}, x \in Int : \A s \in 0 .. d - 1 : (d * x + s) % d = s
  BY ModUnique
<1>5. CASE v >= 0
  <2>1. v \in 0 .. b - 1 /\ b * 0 + v = v
    BY <1>1, <1>3, <1>5
  <2>2. r = v
    BY <2>1, <1>1, <1>4
  <2> QED BY <2>2, <1>2
<1>6. CASE v < 0
  <2> DEFINE x == -1
             s == v + b
  <2>1. x \in Int /\ s \in 0 .. b - 1 /\ b * x + s = v
    BY <1>1, <1>3, <1>6
  <2>2. (b * x + s) % b = s
    <3> HIDE DEF x, s, b
    <3> QED BY <2>1, <1>1, <1>4
  <2>3. r = v + b
    BY <2>1, <2>2
  <2>4. ~ (r < h)
    BY <2>3, <1>1, <1>3
  <2>5. Narrow(v, ty) = r - b
    BY <2>4, <1>2
  <2> QED BY <2>3, <2>5, <1>1
<1> QED BY <1>5, <1>6

-----------------------------------------------------------------------------
(***************************************************************************)
(* Frames.  TypeOK asks that only nodes in memory have an address; the     *)
(* handlers also rely on the converse, that every bound one does.          *)
(***************************************************************************)
FrameOK(f) ==
  /\ DOMAIN f = {"vars", "exprs", "ptrs", "ret"}
  /\ Binds(f.vars, Decl)
  /\ Binds(f.exprs, NodeNo)
  /\ DOMAIN f.ptrs = {n \in DOMAIN f.exprs : InMemory(n)}
  /\ \A n \in DOMAIN f.ptrs : f.ptrs[n] \in Int
  /\ f.ret \in Int

LEMMA BoundOne ==
  ASSUME NEW m, NEW K, Binds(m, K), NEW k \in K, NEW v \in Int
  PROVE  /\ Binds(Bind(m, k, v), K)
         /\ DOMAIN Bind(m, k, v) = DOMAIN m \cup {k}
BY DEF Binds, Bind

LEMMA StmtBound ==
  ASSUME NEW f, FrameOK(f), NEW n \in NodeNo, ~ InMemory(n), NEW v \in Int
  PROVE  FrameOK(WithStmt(f, n, v))
<1> DEFINE g == WithStmt(f, n, v)
<1>1. /\ DOMAIN g = {"vars", "exprs", "ptrs", "ret"}
      /\ g.vars = f.vars /\ g.ptrs = f.ptrs /\ g.ret = f.ret
      /\ g.exprs = Bind(f.exprs, n, v)
  BY DEF FrameOK, WithStmt
<1>2. Binds(g.exprs, NodeNo) /\ DOMAIN g.exprs = DOMAIN f.exprs \cup {n}
  BY <1>1, BoundOne DEF FrameOK
<1> HIDE DEF g
<1> QED BY <1>1, <1>2 DEF FrameOK, g

LEMMA AccessBound ==
  ASSUME NEW f, FrameOK(f), NEW n \in NodeNo, InMemory(n), NEW v \in Int, NEW a \in Int
  PROVE  FrameOK(WithPtr(WithStmt(f, n, v), n, a))
<1> DEFINE g == WithPtr(WithStmt(f, n, v), n, a)
<1>1. /\ DOMAIN g = {"vars", "exprs", "ptrs", "ret"}
      /\ g.vars = f.vars /\ g.ret = f.ret
      /\ g.exprs = Bind(f.exprs, n, v) /\ g.ptrs = Bind(f.ptrs, n, a)
  BY DEF FrameOK, WithStmt, WithPtr
<1> HIDE DEF g
<1>2. Binds(f.exprs, NodeNo) /\ Binds(f.ptrs, NodeNo)
  BY DEF FrameOK, Binds
<1>3. Binds(g.exprs, NodeNo) /\ DOMAIN g.exprs = DOMAIN f.exprs \cup {n}
  <2>1. /\ Binds(Bind(f.exprs, n, v), NodeNo)
        /\ DOMAIN Bind(f.exprs, n, v) = DOMAIN f.exprs \cup {n}
    BY <1>2, BoundOne
  <2> QED BY <1>1, <2>1
<1>4. Binds(g.ptrs, NodeNo) /\ DOMAIN g.ptrs = DOMAIN f.ptrs \cup {n}
  <2>1. /\ Binds(Bind(f.ptrs, n, a), NodeNo)
        /\ DOMAIN Bind(f.ptrs, n, a) = DOMAIN f.ptrs \cup {n}
    BY <1>2, BoundOne
  <2> QED BY <1>1, <2>1
<1>5. DOMAIN g.ptrs = {k \in DOMAIN g.exprs : InMemory(k)}
  BY <1>3, <1>4 DEF FrameOK
<1> QED BY <1>1, <1>3, <1>4, <1>5 DEF FrameOK, Binds, g

LEMMA DeclBound ==
  ASSUME NEW f, FrameOK(f), NEW d \in Decl, NEW v \in Int
  PROVE  FrameOK(WithDecl(f, d, v))
<1> DEFINE g == WithDecl(f, d, v)
<1>1. /\ DOMAIN g = {"vars", "exprs", "ptrs", "ret"}
      /\ g.exprs = f.exprs /\ g.ptrs = f.ptrs /\ g.ret = f.ret
      /\ g.vars = Bind(f.vars, d, v)
  BY DEF FrameOK, WithDecl
<1> HIDE DEF g
<1>2. Binds(f.vars, Decl)
  BY DEF FrameOK
<1>3. Binds(g.vars, Decl)
  <2>1. Binds(Bind(f.vars, d, v), Decl)
    BY <1>2, BoundOne
  <2> QED BY <1>1, <2>1
<1> QED BY <1>1, <1>3 DEF FrameOK, g

LEMMA RetBound ==
  ASSUME NEW f, FrameOK(f), NEW v \in Int
  PROVE  FrameOK([f EXCEPT !.ret = v])
<1> DEFINE g == [f EXCEPT !.ret = v]
<1>1. /\ DOMAIN g = {"vars", "exprs", "ptrs", "ret"}
      /\ g.vars = f.vars /\ g.exprs = f.exprs /\ g.ptrs = f.ptrs /\ g.ret = v
  BY DEF FrameOK
<1> HIDE DEF g
<1> QED BY <1>1 DEF FrameOK, g

\* A new frame, and one with parameters.
LEMMA NewFrame ==
  ASSUME NEW vars_, Binds(vars_, Decl)
  PROVE  FrameOK(StackFrame) /\ FrameOK([StackFrame EXCEPT !.vars = vars_])
<1>1. DOMAIN Empty = {} /\ Binds(Empty, Decl) /\ Binds(Empty, NodeNo)
  BY DEF Empty, Binds
<1>2. ASSUME NEW f, f = [vars |-> f.vars, exprs |-> Empty, ptrs |-> Empty, ret |-> 0],
             Binds(f.vars, Decl)
      PROVE  FrameOK(f)
  BY <1>1, <1>2 DEF FrameOK
<1>3. StackFrame = [vars |-> Empty, exprs |-> Empty, ptrs |-> Empty, ret |-> 0]
  BY DEF StackFrame
<1>4. [StackFrame EXCEPT !.vars = vars_]
        = [vars |-> vars_, exprs |-> Empty, ptrs |-> Empty, ret |-> 0]
  BY DEF StackFrame
<1>5. FrameOK([vars |-> Empty, exprs |-> Empty, ptrs |-> Empty, ret |-> 0])
  BY <1>1 DEF FrameOK
<1>6. FrameOK([vars |-> vars_, exprs |-> Empty, ptrs |-> Empty, ret |-> 0])
  BY <1>1 DEF FrameOK
<1> QED BY <1>3, <1>4, <1>5, <1>6

-----------------------------------------------------------------------------
(***************************************************************************)
(* The invariant.                                                          *)
(***************************************************************************)
FramesOK == \A i \in DOMAIN mStack : FrameOK(mStack[i])

MemoryOK ==
  /\ DOMAIN alloc \subseteq Arena
  /\ \A x \in DOMAIN mem : mem[x] \in 0 .. ByteBase - 1

StreamsOK == taken \in 0 .. Len(prog.stdin) /\ out \in Seq(Int)

GlobalsOK == Binds(mGlobal, Decl) /\ fdecls \subseteq Builtins \cup {"main"}

Statuses == {"running", "done", "logic_error", "assert", "undefined"}

TypesOK ==
  /\ ControlOK /\ HeapOK
  /\ FramesOK /\ MemoryOK /\ StreamsOK /\ GlobalsOK
  /\ status \in Statuses

\* What a step does to the frames.
FramesStep ==
  \/ UNCHANGED mStack
  \/ \E f : FrameOK(f) /\ (ReplaceTop(f) \/ mStack' = Append(mStack, f))
  \/ /\ Len(mStack) > 1
     /\ \/ mStack' = Pop(mStack)
        \/ \E f : FrameOK(f) /\ mStack' = [Pop(mStack) EXCEPT ![Len(Pop(mStack))] = f]

\* The program fixes which frames are in order.
LEMMA SameFrames ==
  ASSUME prog' = prog
  PROVE  \A f : FrameOK(f)' <=> FrameOK(f)
<1>1. NodeNo' = NodeNo
  BY SameShape
<1>2. \A n : InMemory(n)' <=> InMemory(n)
  BY DEF InMemory, N
<1> QED BY <1>1, <1>2 DEF FrameOK

LEMMA FramesKept ==
  ASSUME StacksOK, FramesOK, FramesStep, prog' = prog
  PROVE  FramesOK'
<1>0. IsSeq(mStack) /\ Len(mStack) \in Nat /\ Len(mStack) > 0 /\ DOMAIN mStack = 1 .. Len(mStack)
  BY SeqShape DEF StacksOK
<1> SUFFICES \A i \in DOMAIN mStack' : FrameOK(mStack'[i])
  BY SameFrames DEF FramesOK
<1>1. CASE UNCHANGED mStack
  BY <1>1 DEF FramesOK
<1>2. ASSUME NEW f, FrameOK(f), ReplaceTop(f)
      PROVE  \A i \in DOMAIN mStack' : FrameOK(mStack'[i])
  BY <1>0, <1>2 DEF FramesOK, ReplaceTop
<1>3. ASSUME NEW f, FrameOK(f), mStack' = Append(mStack, f)
      PROVE  \A i \in DOMAIN mStack' : FrameOK(mStack'[i])
  <2>1. /\ IsSeq(mStack') /\ Len(mStack') = Len(mStack) + 1
        /\ \A i \in 1 .. Len(mStack) : mStack'[i] = mStack[i]
        /\ mStack'[Len(mStack) + 1] = f
    BY <1>0, <1>3, Pushed
  <2>2. DOMAIN mStack' = 1 .. Len(mStack) + 1
    BY <2>1, SeqShape
  <2>3. \A i \in DOMAIN mStack' : i \in 1 .. Len(mStack) \/ i = Len(mStack) + 1
    BY <1>0, <2>2
  <2> QED BY <1>0, <1>3, <2>1, <2>3 DEF FramesOK
<1>4. CASE Len(mStack) > 1
  <2>1. /\ IsSeq(Pop(mStack)) /\ Len(Pop(mStack)) = Len(mStack) - 1
        /\ \A i \in 1 .. Len(mStack) - 1 : Pop(mStack)[i] = mStack[i]
    BY <1>0, Popped
  <2>2. DOMAIN Pop(mStack) = 1 .. Len(mStack) - 1
    BY <2>1, SeqShape
  <2>3. \A i \in DOMAIN Pop(mStack) : FrameOK(Pop(mStack)[i])
    BY <1>0, <2>1, <2>2 DEF FramesOK
  <2>4. ASSUME NEW f, FrameOK(f), mStack' = [Pop(mStack) EXCEPT ![Len(Pop(mStack))] = f]
        PROVE  \A i \in DOMAIN mStack' : FrameOK(mStack'[i])
    BY <2>3, <2>4
  <2>5. mStack' = Pop(mStack) => \A i \in DOMAIN mStack' : FrameOK(mStack'[i])
    BY <2>3
  <2> QED BY <1>1, <1>2, <1>3, <1>4, <2>4, <2>5 DEF FramesStep
<1> QED BY <1>1, <1>2, <1>3, <1>4 DEF FramesStep

-----------------------------------------------------------------------------
(***************************************************************************)
(* The handlers.                                                           *)
(***************************************************************************)
LEMMA Current ==
  ASSUME TypesOK
  PROVE  FrameOK(currentFrame)
<1>1. Len(mStack) \in DOMAIN mStack
  BY SeqShape DEF TypesOK, ControlOK, StacksOK
<1> QED BY <1>1 DEF TypesOK, FramesOK, currentFrame

LEMMA ValueFound ==
  ASSUME TypesOK, NEW n, findStmt(n)
  PROVE  n \in NodeNo /\ getStmtVal(n) \in Int
BY Current DEF FrameOK, Binds, findStmt, getStmtVal

\* What the handler at hand can rely on.
LEMMA AtHandler ==
  ASSUME TypesOK, NEW kinds, Due(kinds)
  PROVE  /\ This \in NodeNo /\ N(This).kind \in kinds
         /\ ~ Refused(This) /\ ~ Undefined(This)
         /\ \A s \in Reads(This) : s \in NodeNo /\ findStmt(s) /\ getStmtVal(s) \in Int
<1>1. This \in NodeNo
  BY TheNode DEF Due, TypesOK
<1>2. ~ Unbound(This) /\ ~ Refused(This) /\ ~ Undefined(This)
  BY DEF Due, Asserts
<1>3. \A s \in Reads(This) : findStmt(s)
  BY <1>2 DEF Unbound
<1> QED BY <1>1, <1>2, <1>3, ValueFound DEF Due

\* What a step keeps.
Keeps == FramesStep /\ MemoryOK' /\ StreamsOK' /\ GlobalsOK'

LEMMA Untouched ==
  ASSUME TypesOK
  PROVE  /\ UNCHANGED <<alloc, mem>> => MemoryOK'
         /\ UNCHANGED <<prog, taken, out>> => StreamsOK'
         /\ UNCHANGED <<mGlobal, fdecls>> => GlobalsOK'
         /\ UNCHANGED envVars => Keeps
<1>1. UNCHANGED <<alloc, mem>> => MemoryOK'
  BY DEF TypesOK, MemoryOK
<1>2. UNCHANGED <<prog, taken, out>> => StreamsOK'
  BY DEF TypesOK, StreamsOK
<1>3. UNCHANGED <<mGlobal, fdecls>> => GlobalsOK'
  BY DEF TypesOK, GlobalsOK, Binds
<1> QED BY <1>1, <1>2, <1>3 DEF Keeps, FramesStep, envVars

\* A number bound to a node that is not in memory.
LEMMA Computes ==
  ASSUME TypesOK, NEW n \in NodeNo, ~ InMemory(n), NEW v \in Int, bindStmtVal(n, v)
  PROVE  Keeps
<1>1. FrameOK(WithStmt(currentFrame, n, v))
  BY Current, StmtBound
<1> QED BY <1>1, Untouched DEF bindStmtVal, FramesStep, Keeps

\* The operands, and the values computed from them.
OperandKinds == {"paren", "binop", "assign", "unop", "incdec", "arraysub"}

LEMMA Operands ==
  ASSUME TypesOK, NEW kinds, Due(kinds), N(This).kind \in OperandKinds
  PROVE  /\ Kid(This, 1) \in NodeNo /\ findStmt(Kid(This, 1)) /\ Val(This, 1) \in Int
         /\ N(This).kind \in {"binop", "assign", "arraysub"} => Val(This, 2) \in Int
<1>1. This \in NodeNo /\ \A s \in Reads(This) : s \in NodeNo /\ findStmt(s) /\ getStmtVal(s) \in Int
  BY AtHandler
<1>2. Reads(This) = {Kid(This, i) : i \in DOMAIN N(This).kids}
  BY DEF Reads, OperandKinds
<1>3. /\ 1 \in DOMAIN N(This).kids
      /\ N(This).kind \in {"binop", "assign", "arraysub"} => 2 \in DOMAIN N(This).kids
  BY <1>1, NodeShape DEF TypesOK, ControlOK, KidCounts, OperandKinds
<1> QED BY <1>1, <1>2, <1>3 DEF Val

LEMMA BinaryValue ==
  ASSUME TypesOK, NEW kinds, Due(kinds), N(This).kind \in {"binop", "assign"}
  PROVE  BinopVal(This) \in Int
<1>1. Val(This, 1) \in Int /\ Val(This, 2) \in Int
  BY Operands DEF OperandKinds
<1>2. \A v \in Int : \A ty, other : Scaled(v, ty, other) \in Int
  <2>1. \A v \in Int : \A ty : v * SizeOf(ty) \in Int
    BY SizeType
  <2> QED BY <2>1 DEF Scaled
<1>3. leftVal(This) \in Int /\ rightVal(This) \in Int
  BY <1>1, <1>2 DEF leftVal, rightVal
<1>4. ~ ZeroDivisor(This) /\ ~ WildShift(This)
  BY AtHandler DEF Refused, Undefined
<1>5. /\ N(This).op \in {"/", "%"} => rightVal(This) # 0
      /\ DefinedShift(N(This).op, rightVal(This))
  BY <1>4 DEF ZeroDivisor, WildShift
<1>6. Arithmetic(N(This).op, leftVal(This), rightVal(This)) \in Int
  BY <1>3, <1>5, ArithmeticType
<1> QED BY <1>3, <1>6 DEF BinopVal

LEMMA SteppedValue ==
  ASSUME TypesOK, NEW kinds, Due(kinds), N(This).kind = "incdec"
  PROVE  Stepped(This) \in Int
<1>1. Val(This, 1) \in Int
  BY Operands DEF OperandKinds
<1>2. Unit(This) \in Int
  BY SizeType DEF Unit
<1> QED BY <1>1, <1>2 DEF Stepped

LEMMA UnaryValue ==
  ASSUME NEW op, NEW v \in Int
  PROVE  UnaryVal(op, v) \in Int
BY DEF UnaryVal, Truth

-----------------------------------------------------------------------------
\* The handlers that only compute.
LEMMA LiteralSteps ==
  ASSUME TypesOK, HandleLiteral \/ HandleParen \/ HandleSizeof
  PROVE  Keeps
<1>1. This \in NodeNo /\ ProgramOK
  BY AtHandler DEF HandleLiteral, HandleParen, HandleSizeof, TypesOK, ControlOK
<1>2. CASE HandleLiteral
  <2>1. ~ InMemory(This) /\ literal(This)
    BY <1>2 DEF HandleLiteral, Due, InMemory
  <2>2. N(This).val \in Int
    BY <1>1, NodeShape DEF Node
  <2> QED BY <1>1, <2>1, <2>2, Computes DEF literal
<1>3. CASE HandleParen
  <2>1. ~ InMemory(This) /\ paren(This) /\ Due({"paren"}) /\ N(This).kind = "paren"
    BY <1>3 DEF HandleParen, Due, InMemory
  <2>2. Val(This, 1) \in Int
    BY <2>1, Operands DEF OperandKinds
  <2> QED BY <1>1, <2>1, <2>2, Computes DEF paren
<1>4. CASE HandleSizeof
  <2>1. ~ InMemory(This) /\ ueott(This)
    BY <1>4 DEF HandleSizeof, Due, InMemory
  <2>2. N(This).val \in Int
    BY <1>1, NodeShape DEF Node
  <2>3. SizeOf(N(This).op) \in Int
    BY SizeType
  <2>4. N(This).val * SizeOf(N(This).op) \in Int
    BY <2>2, <2>3
  <2> QED BY <1>1, <2>1, <2>4, Computes DEF ueott
<1> QED BY <1>2, <1>3, <1>4

LEMMA ReferenceSteps ==
  ASSUME TypesOK, HandleDeclref \/ HandleCast
  PROVE  Keeps
<1>1. CASE HandleDeclref
  <2>1. This \in NodeNo /\ ~ InMemory(This) /\ declref(This) /\ ~ Unbound(This)
        /\ N(This).kind = "declref"
    BY <1>1, AtHandler DEF HandleDeclref, Due, InMemory, Asserts
  <2>2. CASE N(This).type \in ScalarTypes \cup {"array"}
    <3>1. findDecl(N(This).decl)
      BY <2>1, <2>2 DEF Unbound
    <3>2. getDeclVal(N(This).decl) \in Int
      <4>1. Binds(currentFrame.vars, Decl) /\ Binds(mGlobal, Decl)
        BY Current DEF FrameOK, TypesOK, GlobalsOK
      <4> QED BY <3>1, <4>1 DEF findDecl, getDeclVal, Binds
    <3> QED BY <2>1, <2>2, <3>2, Computes DEF declref
  <2>3. CASE N(This).type \notin ScalarTypes \cup {"array"}
    BY <2>1, <2>3, Untouched DEF declref
  <2> QED BY <2>2, <2>3
<1>2. CASE HandleCast
  <2>1. This \in NodeNo /\ ~ InMemory(This) /\ cast(This) /\ N(This).kind = "cast"
    BY <1>2, AtHandler DEF HandleCast, Due, InMemory
  <2>2. CASE N(This).type \in ScalarTypes
    <3>1. Kid(This, 1) \in Reads(This)
      BY <2>1, <2>2 DEF Reads
    <3>2. Val(This, 1) \in Int
      BY <1>2, <3>1, AtHandler DEF HandleCast, Val
    <3> QED BY <2>1, <2>2, <3>2, Computes DEF cast
  <2>3. CASE N(This).type \notin ScalarTypes
    BY <2>1, <2>3, Untouched DEF cast
  <2> QED BY <2>2, <2>3
<1> QED BY <1>1, <1>2

LEMMA ConditionalStep ==
  ASSUME TypesOK, BindConditional
  PROVE  Keeps
<1>1. This \in NodeNo /\ ~ InMemory(This)
  BY TheNode DEF BindConditional, TypesOK, Nodes, InMemory
<1>2. getStmtVal(Chosen(This)) \in Int
  BY ValueFound DEF BindConditional
<1> QED BY <1>1, <1>2, Computes DEF BindConditional

-----------------------------------------------------------------------------
(***************************************************************************)
(* The handlers that access memory.                                        *)
(***************************************************************************)
\* The bytes of a chunk are in memory and make a number.
LEMMA LoadType ==
  ASSUME TypesOK, NEW a \in Int, NEW ty, InChunk(a, SizeOf(ty))
  PROVE  Load(a, ty) \in Int
<1> DEFINE w == SizeOf(ty)
           bytes == [k \in 0 .. w - 1 |-> mem[a + k]]
<1>1. w \in Nat
  BY SizeType
<1>2. ASSUME NEW k \in 0 .. w - 1
      PROVE  mem[a + k] \in Int
  <2>1. PICK c \in DOMAIN alloc : c <= a /\ a + w <= c + alloc[c]
    BY DEF InChunk
  <2>2. c \in Nat /\ alloc[c] \in Nat
    BY DEF TypesOK, HeapOK
  <2> HIDE DEF w
  <2>3. a + k \in Chunk(c, alloc[c])
    BY <1>1, <2>1, <2>2 DEF Chunk
  <2>4. a + k \in DOMAIN mem
    BY <2>3 DEF TypesOK, HeapOK, BytesOfChunks
  <2>5. mem[a + k] \in 0 .. ByteBase - 1
    BY <2>4 DEF TypesOK, MemoryOK
  <2> QED BY <2>5, SizesAssumption
<1>3. bytes \in [0 .. w - 1 -> Int]
  BY <1>2
<1> HIDE DEF bytes, w
<1>4. FromBytes(bytes, w) \in Int
  BY <1>1, <1>3, FromBytesType
<1> QED BY <1>4 DEF Load, bytes, w

\* A store leaves bytes.
LEMMA StoreType ==
  ASSUME TypesOK, NEW a \in Int, NEW ty, NEW v \in Int
  PROVE  \A x \in DOMAIN Store(mem, a, ty, v) : Store(mem, a, ty, v)[x] \in 0 .. ByteBase - 1
<1> SUFFICES ASSUME NEW x \in DOMAIN mem
             PROVE  Store(mem, a, ty, v)[x] \in 0 .. ByteBase - 1
  BY StoreKeeps
<1>1. x \in Int
  BY DEF TypesOK, HeapOK, BytesOfChunks, Chunk
<1>2. mem[x] \in 0 .. ByteBase - 1
  BY DEF TypesOK, MemoryOK
<1>3. x \in a .. a + SizeOf(ty) - 1 => Byte(v, x - a) \in 0 .. ByteBase - 1
  <2> SUFFICES ASSUME x \in a .. a + SizeOf(ty) - 1
               PROVE  Byte(v, x - a) \in 0 .. ByteBase - 1
    OBVIOUS
  <2>1. x - a \in Nat
    BY <1>1, SizeType
  <2> QED BY <2>1, ByteType
<1> QED BY <1>2, <1>3 DEF Store

\* An access binds the value and the address.
LEMMA AccessStep ==
  ASSUME TypesOK, NEW n \in NodeNo, InMemory(n), NEW a \in Int, InChunk(a, SizeOf(N(n).type)),
         bindAccess(n, a)
  PROVE  Keeps
<1>1. Load(a, N(n).type) \in Int
  BY LoadType
<1>2. FrameOK(WithPtr(WithStmt(currentFrame, n, Load(a, N(n).type)), n, a))
  BY <1>1, Current, AccessBound
<1> QED BY <1>2, Untouched DEF bindAccess, FramesStep, Keeps

\* An assignment binds a variable or stores to memory.
LEMMA AssignStep ==
  ASSUME TypesOK, NEW lhs \in NodeNo, findStmt(lhs), N(lhs).kind = "declref" => N(lhs).decl \in Decl,
         NEW n \in NodeNo, ~ InMemory(n), NEW v \in Int, NEW val \in Int,
         assgnLVal(lhs, v, n, val)
  PROVE  Keeps
<1>1. StreamsOK' /\ GlobalsOK'
  BY Untouched DEF assgnLVal
<1>2. FrameOK(WithStmt(currentFrame, n, val))
  BY Current, StmtBound
<1>3. CASE N(lhs).kind = "declref"
  <2>1. FrameOK(WithDecl(currentFrame, N(lhs).decl, v))
    BY <1>3, Current, DeclBound
  <2>2. FrameOK(WithStmt(WithDecl(currentFrame, N(lhs).decl, v), n, val))
    BY <2>1, StmtBound
  <2>3. /\ ReplaceTop(WithStmt(WithDecl(currentFrame, N(lhs).decl, v), n, val))
        /\ UNCHANGED <<alloc, mem>>
    BY <1>3 DEF assgnLVal, InMemory
  <2> QED BY <1>1, <2>2, <2>3, Untouched DEF FramesStep, Keeps
<1>4. CASE InMemory(lhs)
  <2>1. getPtrVal(lhs) \in Int
    BY <1>4, Current DEF FrameOK, findStmt, getPtrVal
  <2>2. /\ mem' = Store(mem, getPtrVal(lhs), N(lhs).type, v) /\ UNCHANGED alloc
        /\ ReplaceTop(WithStmt(currentFrame, n, val))
    BY <1>4 DEF assgnLVal, InMemory
  <2>3. MemoryOK'
    BY <2>1, <2>2, StoreType DEF TypesOK, MemoryOK
  <2> QED BY <1>1, <1>2, <2>2, <2>3 DEF FramesStep, Keeps
<1>5. CASE N(lhs).kind # "declref" /\ ~ InMemory(lhs)
  <2>1. ReplaceTop(WithStmt(currentFrame, n, val)) /\ UNCHANGED <<alloc, mem>>
    BY <1>5 DEF assgnLVal
  <2> QED BY <1>1, <1>2, <2>1, Untouched DEF FramesStep, Keeps
<1> QED BY <1>3, <1>4, <1>5

LEMMA AssignedVariable ==
  ASSUME ProgramOK, NEW n \in NodeNo, N(n).kind \in {"assign", "incdec"},
         N(Kid(n, 1)).kind = "declref"
  PROVE  N(Kid(n, 1)).decl \in Decl
<1>1. IsProgram(prog)
  BY ProgramsAssumption DEF ProgramOK
<1> QED BY <1>1 DEF IsProgram, Resolved, N, Kid, NodeNo

LEMMA BinarySteps ==
  ASSUME TypesOK, HandleBinop
  PROVE  Keeps
<1>1. /\ This \in NodeNo /\ Due({"binop", "assign"}) /\ binop(This)
      /\ N(This).kind \in {"binop", "assign"} /\ ~ InMemory(This)
  BY AtHandler DEF HandleBinop, Due, InMemory
<1>2. BinopVal(This) \in Int
  BY <1>1, BinaryValue
<1>3. CASE N(This).kind = "binop"
  <2>1. bindStmtVal(This, BinopVal(This))
    BY <1>1, <1>3 DEF binop
  <2> QED BY <1>1, <1>2, <2>1, Computes
<1>4. CASE N(This).kind = "assign"
  <2>1. assgnLVal(Kid(This, 1), BinopVal(This), This, BinopVal(This))
    BY <1>1, <1>4 DEF binop
  <2>2. Kid(This, 1) \in NodeNo /\ findStmt(Kid(This, 1))
    BY <1>1, Operands DEF OperandKinds
  <2>3. N(Kid(This, 1)).kind = "declref" => N(Kid(This, 1)).decl \in Decl
    BY <1>1, <1>4, AssignedVariable DEF TypesOK, ControlOK
  <2> QED BY <1>1, <1>2, <2>1, <2>2, <2>3, AssignStep
<1> QED BY <1>1, <1>3, <1>4

LEMMA UnarySteps ==
  ASSUME TypesOK, HandleUnaryop
  PROVE  Keeps
<1>1. /\ This \in NodeNo /\ Due({"unop", "incdec"}) /\ unaryop(This)
      /\ N(This).kind \in {"unop", "incdec"}
      /\ ~ Undefined(This)
  BY AtHandler DEF HandleUnaryop, Due
<1>2. Kid(This, 1) \in NodeNo /\ findStmt(Kid(This, 1)) /\ Val(This, 1) \in Int
  BY <1>1, Operands DEF OperandKinds
<1>3. CASE N(This).kind = "incdec"
  <2> DEFINE val == IF N(This).op \in {"x++", "x--"} THEN Val(This, 1) ELSE Stepped(This)
  <2>1. assgnLVal(Kid(This, 1), Stepped(This), This, val)
    BY <1>1, <1>3 DEF unaryop, incdec
  <2>2. Stepped(This) \in Int /\ val \in Int
    BY <1>1, <1>2, <1>3, SteppedValue
  <2>3. N(Kid(This, 1)).kind = "declref" => N(Kid(This, 1)).decl \in Decl
    BY <1>1, <1>3, AssignedVariable DEF TypesOK, ControlOK
  <2>4. ~ InMemory(This)
    BY <1>3 DEF InMemory
  <2> HIDE DEF val
  <2> QED BY <1>1, <1>2, <2>1, <2>2, <2>3, <2>4, AssignStep
<1>4. CASE N(This).kind = "unop" /\ N(This).op = "*"
  <2>1. bindAccess(This, Val(This, 1)) /\ InMemory(This)
    BY <1>1, <1>4 DEF unaryop, InMemory
  <2>2. InChunk(Val(This, 1), SizeOf(N(This).type))
    BY <1>1, <1>4 DEF Undefined, WildRead
  <2> QED BY <1>1, <1>2, <2>1, <2>2, AccessStep
<1>5. CASE N(This).kind = "unop" /\ N(This).op # "*"
  <2>1. bindStmtVal(This, UnaryVal(N(This).op, Val(This, 1))) /\ ~ InMemory(This)
    BY <1>1, <1>5 DEF unaryop, InMemory
  <2>2. UnaryVal(N(This).op, Val(This, 1)) \in Int
    BY <1>2, UnaryValue
  <2> QED BY <1>1, <2>1, <2>2, Computes
<1> QED BY <1>1, <1>3, <1>4, <1>5

LEMMA ElementStep ==
  ASSUME TypesOK, HandleArraysub
  PROVE  Keeps
<1>1. /\ This \in NodeNo /\ Due({"arraysub"}) /\ arraysub(This)
      /\ N(This).kind = "arraysub" /\ InMemory(This) /\ ~ Undefined(This)
  BY AtHandler DEF HandleArraysub, Due, InMemory
<1>2. Val(This, 1) \in Int /\ Val(This, 2) \in Int
  BY <1>1, Operands DEF OperandKinds
<1>3. ElementAddress(This) \in Int
  <2>1. SizeOf(N(This).type) \in Int
    BY SizeType
  <2> QED BY <1>2, <2>1 DEF ElementAddress
<1>4. InChunk(ElementAddress(This), SizeOf(N(This).type))
  BY <1>1 DEF Undefined, WildRead
<1> QED BY <1>1, <1>3, <1>4, AccessStep DEF arraysub

-----------------------------------------------------------------------------
(***************************************************************************)
(* The handlers that allocate and free.                                    *)
(***************************************************************************)
\* malloc answers with an address of the arena or fails; fresh memory holds
\* the bytes it is given.
LEMMA MallocStep ==
  ASSUME TypesOK, NEW size, NEW a, NEW content, HeapMalloc(size, a, content),
         size \in Nat => \A k \in 0 .. size - 1 : content[k] \in 0 .. ByteBase - 1
  PROVE  MemoryOK'
<1>1. CASE UNCHANGED <<alloc, mem>>
  BY <1>1, Untouched
<1>2. CASE /\ size \in Nat
           /\ Fits(a, size)
           /\ alloc' = Bind(alloc, a, size)
           /\ mem' = [x \in DOMAIN mem \cup Chunk(a, size) |->
                        IF x \in Chunk(a, size) THEN content[x - a] ELSE mem[x]]
  <2>1. DOMAIN alloc' \subseteq Arena
    BY <1>2 DEF Fits, Bind, TypesOK, MemoryOK
  <2>2. ASSUME NEW x \in Chunk(a, size)
        PROVE  x - a \in 0 .. size - 1
    BY <1>2, <2>2, MemoryAssumption DEF Chunk, Fits
  <2>3. \A x \in DOMAIN mem' : mem'[x] \in 0 .. ByteBase - 1
    BY <1>2, <2>2 DEF TypesOK, MemoryOK
  <2> QED BY <2>1, <2>3 DEF MemoryOK
<1> QED BY <1>1, <1>2 DEF HeapMalloc, malloc

LEMMA FreeStep ==
  ASSUME TypesOK, NEW a, HeapFree(a)
  PROVE  MemoryOK'
BY DEF HeapFree, free, Without, TypesOK, MemoryOK

\* An array's elements are initialised with bytes.
LEMMA InitialBytes ==
  ASSUME TypesOK, NEW n, \A s \in {InitElements(n)[i] : i \in DOMAIN InitElements(n)} : getStmtVal(s) \in Int,
         InitElements(n) \in Seq(Nat)
  PROVE  \A k \in 0 .. ArraySize(n) - 1 : InitialContent(n)[k] \in 0 .. ByteBase - 1
<1> SUFFICES ASSUME NEW k \in 0 .. ArraySize(n) - 1
             PROVE  InitialContent(n)[k] \in 0 .. ByteBase - 1
  OBVIOUS
<1> DEFINE in(i) == k \in InitStore(n, i - 1)
           L == Len(InitElements(n))
           i == CHOOSE i \in 1 .. L : in(i)
<1>1. InitialContent(n)[k] =
        IF \E j \in 1 .. L : in(j)
        THEN Byte(getStmtVal(InitElements(n)[i]), k - InitOffset(n, i - 1)) ELSE 0
  BY DEF InitialContent
<1>2. 0 \in 0 .. ByteBase - 1
  BY SizesAssumption
<1>3. CASE \E j \in 1 .. L : in(j)
  <2>1. i \in 1 .. L /\ in(i)
    <3> HIDE DEF in
    <3> QED BY <1>3
  <2>2. L \in Nat /\ DOMAIN InitElements(n) = 1 .. L
    BY LenProperties
  <2> HIDE DEF i, L
  <2>3. InitOffset(n, i - 1) \in Int
    <3>1. SizeOf(N(n).op) \in Int /\ i - 1 \in Int
      BY <2>1, <2>2, SizeType
    <3>2. \A x, y \in Int : x * y * y \in Int
      OBVIOUS
    <3> QED BY <3>1, <3>2 DEF InitOffset
  <2>4. k - InitOffset(n, i - 1) \in Nat
    <3>1. SizeOf(N(n).op) \in Nat
      BY SizeType
    <3>2. k \in InitOffset(n, i - 1) .. InitOffset(n, i - 1) + SizeOf(N(n).op) - 1
      BY <2>1 DEF InitStore
    <3> QED BY <2>3, <3>1, <3>2
  <2>5. getStmtVal(InitElements(n)[i]) \in Int
    BY <2>1, <2>2
  <2>6. Byte(getStmtVal(InitElements(n)[i]), k - InitOffset(n, i - 1)) \in 0 .. ByteBase - 1
    BY <2>4, <2>5, ByteType
  <2> QED BY <1>1, <1>3, <2>6
<1> QED BY <1>1, <1>2, <1>3

LEMMA DeclarationStep ==
  ASSUME TypesOK, HandleVardecl
  PROVE  Keeps
<1>1. /\ This \in NodeNo /\ vardecl(This) /\ N(This).kind = "vardecl" /\ ProgramOK
      /\ \A s \in Reads(This) : s \in NodeNo /\ getStmtVal(s) \in Int
  BY AtHandler DEF HandleVardecl, TypesOK, ControlOK
<1>2. N(This).decl \in Decl
  <2>1. IsProgram(prog)
    BY <1>1, ProgramsAssumption DEF ProgramOK
  <2> QED BY <1>1, <2>1 DEF IsProgram, Resolved, N, NodeNo
<1>3. CASE N(This).type \in ScalarTypes
  <2>1. N(This).type # "array"
    BY <1>3 DEF ScalarTypes, IntegerTypes, PointerTypes
  <2>2. Has(This, 1) => Val(This, 1) \in Int
    BY <1>1, <2>1 DEF Reads, Val
  <2>3. FrameOK(WithDecl(currentFrame, N(This).decl, IF Has(This, 1) THEN Val(This, 1) ELSE 0))
    BY <1>2, <2>2, Current, DeclBound
  <2>4. /\ ReplaceTop(WithDecl(currentFrame, N(This).decl, IF Has(This, 1) THEN Val(This, 1) ELSE 0))
        /\ UNCHANGED <<prog, mGlobal, fdecls, alloc, mem, taken, out>>
    BY <1>1, <1>3, <2>1 DEF vardecl
  <2> QED BY <2>3, <2>4, Untouched DEF FramesStep, Keeps
<1>4. CASE N(This).type = "array"
  <2>1. PICK a \in Arena : /\ HeapMalloc(ArraySize(This), a, InitialContent(This))
                           /\ ReplaceTop(WithDecl(currentFrame, N(This).decl, a))
                           /\ UNCHANGED <<prog, mGlobal, fdecls, taken, out>>
    BY <1>1, <1>4 DEF vardecl, ScalarTypes, IntegerTypes, PointerTypes
  <2>2. FrameOK(WithDecl(currentFrame, N(This).decl, a))
    BY <1>2, Current, DeclBound, MemoryAssumption
  <2>3. /\ InitElements(This) \in Seq(Nat)
        /\ \A s \in {InitElements(This)[i] : i \in DOMAIN InitElements(This)} : getStmtVal(s) \in Int
    <3>1. CASE Has(This, 1)
      <4>1. Kid(This, 1) \in NodeNo
        BY <1>1, <3>1, NodeShape DEF Has, Null
      <4>2. N(Kid(This, 1)).kids \in Seq(Nat) /\ <<>> \in Seq(Nat)
        BY <1>1, <4>1, NodeShape
      <4>3. Reads(This) = {InitElements(This)[i] : i \in DOMAIN InitElements(This)}
        BY <1>1, <1>4, <3>1 DEF Reads
      <4> QED BY <1>1, <3>1, <4>2, <4>3 DEF InitElements
    <3>2. CASE ~ Has(This, 1)
      <4>1. InitElements(This) = <<>>
        BY <3>2 DEF InitElements
      <4> QED BY <4>1
    <3> QED BY <3>1, <3>2
  <2>4. \A k \in 0 .. ArraySize(This) - 1 : InitialContent(This)[k] \in 0 .. ByteBase - 1
    BY <2>3, InitialBytes
  <2>5. MemoryOK'
    BY <2>1, <2>4, MallocStep
  <2> QED BY <2>1, <2>2, <2>5, Untouched DEF FramesStep, Keeps
<1>5. CASE N(This).type \notin ScalarTypes \cup {"array"}
  BY <1>1, <1>5, Untouched DEF vardecl
<1> QED BY <1>3, <1>4, <1>5

-----------------------------------------------------------------------------
(***************************************************************************)
(* Calls.                                                                  *)
(***************************************************************************)
\* The arguments of a call are numbers.
LEMMA Arguments ==
  ASSUME TypesOK, Due({"call"})
  PROVE  /\ This \in NodeNo /\ N(This).kind = "call" /\ ~ InMemory(This)
         /\ Args(This) \in Seq(Nat) /\ Len(Args(This)) = Len(N(This).kids) - 1
         /\ \A i \in 1 .. Len(Args(This)) : Arg(This, i) \in Int
<1>1. /\ This \in NodeNo /\ N(This).kind = "call" /\ ProgramOK
      /\ \A s \in Reads(This) : getStmtVal(s) \in Int
  BY AtHandler DEF TypesOK, ControlOK
<1>2. N(This).kids \in Seq(Nat) /\ N(This).kids # <<>>
  <2>1. N(This).kids \in Seq(Nat) /\ Len(N(This).kids) \in Nat \ {0}
    BY <1>1, NodeShape DEF KidCounts
  <2> QED BY <2>1, EmptySeq
<1>3. Args(This) \in Seq(Nat) /\ Len(Args(This)) = Len(N(This).kids) - 1
  BY <1>2, HeadTailProperties DEF Args
<1>4. DOMAIN Args(This) = 1 .. Len(Args(This))
  BY <1>3, LenProperties
<1>5. Reads(This) = {Args(This)[i] : i \in DOMAIN Args(This)}
  BY <1>1 DEF Reads
<1> QED BY <1>1, <1>3, <1>4, <1>5 DEF Arg, InMemory

LEMMA BuiltInStep ==
  ASSUME TypesOK, HandleBuiltIn
  PROVE  Keeps
<1>1. /\ This \in NodeNo /\ N(This).kind = "call" /\ ~ InMemory(This) /\ callbuildin(This)
      /\ \A i \in 1 .. Len(Args(This)) : Arg(This, i) \in Int
      /\ Len(Args(This)) = Len(N(This).kids) - 1
  BY Arguments DEF HandleBuiltIn
<1>2. IsProgram(prog)
  BY ProgramsAssumption DEF TypesOK, ControlOK, ProgramOK
<1>3. N(This).decl \in Builtins \ {"GET"} => Arg(This, 1) \in Int
  <2>1. N(This).decl \in Builtins \ {"GET"} => Len(N(This).kids) = 2
    BY <1>1, <1>2 DEF IsProgram, Resolved, N, NodeNo
  <2>2. Len(N(This).kids) = 2 => 1 \in 1 .. Len(Args(This))
    BY <1>1
  <2> QED BY <1>1, <2>1, <2>2
<1>4. ASSUME NEW v \in Int
      PROVE  FrameOK(WithStmt(currentFrame, This, v))
  BY <1>1, Current, StmtBound
<1>5. CASE N(This).decl = "GET"
  <2> DEFINE v == IF AtEnd THEN 0 ELSE prog.stdin[taken + 1]
  <2>1. /\ ReplaceTop(WithStmt(currentFrame, This, v))
        /\ taken' = IF AtEnd THEN taken ELSE taken + 1
        /\ UNCHANGED <<prog, mGlobal, mSpace, fdecls, alloc, mem, out>>
    BY <1>1, <1>5 DEF callbuildin
  <2>2. /\ prog.stdin \in Seq(Int) /\ Len(prog.stdin) \in Nat
        /\ \A i \in 1 .. Len(prog.stdin) : prog.stdin[i] \in Int
    BY <1>2, LenProperties, ElementOfSeq DEF IsProgram
  <2>3. v \in Int /\ taken' \in 0 .. Len(prog.stdin)
    BY <2>1, <2>2 DEF TypesOK, StreamsOK, AtEnd
  <2>4. StreamsOK'
    BY <2>1, <2>3 DEF TypesOK, StreamsOK
  <2> HIDE DEF v
  <2> QED BY <1>4, <2>1, <2>3, <2>4, Untouched DEF FramesStep, Keeps
<1>6. CASE N(This).decl = "PRINT"
  <2>1. /\ out' = Append(out, Arg(This, 1))
        /\ UNCHANGED <<prog, mStack, mGlobal, mSpace, fdecls, alloc, mem, taken>>
    BY <1>1, <1>6 DEF callbuildin
  <2>2. StreamsOK'
    BY <1>3, <1>6, <2>1, AppendProperties DEF TypesOK, StreamsOK, Builtins
  <2> QED BY <2>1, <2>2, Untouched DEF FramesStep, Keeps
<1>7. CASE N(This).decl = "MALLOC"
  <2> DEFINE size == Narrow(Arg(This, 1), "int")
  <2>1. PICK a \in Arena \cup {0}, b \in Junk :
          /\ HeapMalloc(size, a, [k \in 0 .. size - 1 |-> b])
          /\ ReplaceTop(WithStmt(currentFrame, This, a))
    BY <1>1, <1>7 DEF callbuildin
  <2>2. a \in Int /\ b \in 0 .. ByteBase - 1
    BY MemoryAssumption
  <2>3. UNCHANGED <<prog, mGlobal, fdecls, taken, out>>
    BY <1>1, <1>7 DEF callbuildin
  <2> HIDE DEF size
  <2>4. MemoryOK'
    <3> DEFINE content == [k \in 0 .. size - 1 |-> b]
    <3>1. \A k \in 0 .. size - 1 : content[k] \in 0 .. ByteBase - 1
      BY <2>2
    <3> HIDE DEF content
    <3>2. HeapMalloc(size, a, content) => MemoryOK'
      BY <3>1, MallocStep
    <3> QED BY <2>1, <3>2 DEF content
  <2>5. FrameOK(WithStmt(currentFrame, This, a))
    BY <1>4, <2>2
  <2> QED BY <2>1, <2>3, <2>4, <2>5, Untouched DEF FramesStep, Keeps
<1>8. CASE N(This).decl = "FREE"
  <2>1. HeapFree(Arg(This, 1)) /\ UNCHANGED <<prog, mStack, mGlobal, fdecls, taken, out>>
    BY <1>1, <1>8 DEF callbuildin
  <2> QED BY <2>1, FreeStep, Untouched DEF FramesStep, Keeps
<1> QED BY <1>1, <1>5, <1>6, <1>7, <1>8 DEF callbuildin

\* The parameters of the new frame are the arguments.
LEMMA CallStep ==
  ASSUME TypesOK, HandleCall
  PROVE  Keeps
<1> DEFINE ps == Fn(N(This).decl).params
           ParamNo(d) == CHOOSE i \in DOMAIN ps : ps[i] = d
           vars_ == [d \in {ps[i] : i \in DOMAIN ps} |-> Arg(This, ParamNo(d))]
<1>1. /\ This \in NodeNo /\ N(This).kind = "call" /\ call(This)
      /\ Args(This) \in Seq(Nat)
      /\ \A i \in 1 .. Len(Args(This)) : Arg(This, i) \in Int
      /\ ~ Refused(This)
  BY Arguments, AtHandler DEF HandleCall
<1>2. ps \in Seq(Decl) /\ DOMAIN ps = 1 .. Len(ps) /\ \A i \in DOMAIN ps : ps[i] \in Decl
  <2>1. IsProgram(prog)
    BY ProgramsAssumption DEF TypesOK, ControlOK, ProgramOK
  <2>2. N(This).decl \in DOMAIN prog.fn
    BY <1>1, <2>1 DEF IsProgram, Resolved, N, NodeNo
  <2>3. ps \in Seq(Decl)
    BY <2>1, <2>2 DEF IsProgram, Function, Fn
  <2> HIDE DEF ps
  <2> QED BY <2>3, LenProperties, ElementOfSeq
<1>3. Len(Args(This)) = Len(ps)
  BY <1>1 DEF HandleCall, Refused, WrongArguments
<1>4. mStack' = Append(mStack, [StackFrame EXCEPT !.vars = vars_])
      /\ UNCHANGED <<prog, mGlobal, mSpace, fdecls, alloc, mem, taken, out>>
  BY <1>1 DEF call
<1> HIDE DEF ps
<1>5. Binds(vars_, Decl)
  <2>1. ASSUME NEW d \in {ps[i] : i \in DOMAIN ps}
        PROVE  d \in Decl /\ Arg(This, ParamNo(d)) \in Int
    <3>1. ParamNo(d) \in DOMAIN ps
      OBVIOUS
    <3> HIDE DEF ParamNo
    <3> QED BY <1>1, <1>2, <1>3, <3>1
  <2> HIDE DEF ParamNo
  <2> QED BY <2>1 DEF Binds
<1> HIDE DEF vars_
<1>6. FrameOK([StackFrame EXCEPT !.vars = vars_])
  BY <1>5, NewFrame
<1> QED BY <1>4, <1>6, Untouched DEF FramesStep, Keeps

LEMMA ReturnStep ==
  ASSUME TypesOK, HandleReturn
  PROVE  Keeps
<1>1. /\ returnstmt(This) /\ N(This).kind = "return" /\ ~ Undefined(This)
      /\ \A s \in Reads(This) : getStmtVal(s) \in Int
  BY AtHandler DEF HandleReturn
<1>2. Has(This, 1)
  BY <1>1 DEF Undefined, NoOperand
<1>3. CASE TypeOf(This, 1) # "void"
  <2>1. Val(This, 1) \in Int
    BY <1>1, <1>2, <1>3 DEF Reads, Val
  <2>2. FrameOK([currentFrame EXCEPT !.ret = Val(This, 1)])
    BY <2>1, Current, RetBound
  <2>3. /\ ReplaceTop([currentFrame EXCEPT !.ret = Val(This, 1)])
        /\ UNCHANGED <<prog, mGlobal, mSpace, fdecls, alloc, mem, taken, out>>
    BY <1>1, <1>3 DEF returnstmt
  <2> QED BY <2>2, <2>3, Untouched DEF FramesStep, Keeps
<1>4. CASE TypeOf(This, 1) = "void"
  BY <1>1, <1>4, Untouched DEF returnstmt
<1> QED BY <1>3, <1>4

\* exit() binds the value returned to the call, which is in progress.
LEMMA LeaveStep ==
  ASSUME TypesOK, LeaveFunction
  PROVE  Keeps
<1> DEFINE n == ctl[Len(ctl)].call
           popped == Pop(mStack)
           caller == popped[Len(popped)]
<1>1. StacksOK /\ ActivationsOK /\ Len(ctl) \in Nat /\ DOMAIN ctl = 1 .. Len(ctl)
  BY SeqShape DEF TypesOK, ControlOK, StacksOK
<1>2. Len(ctl) > 1 /\ Len(mStack) > 1 /\ exit(n)
  BY <1>1 DEF LeaveFunction, StacksOK
<1>3. n \in NodeNo /\ ~ InMemory(n)
  BY <1>1, <1>2 DEF ActivationsOK, Nodes, InMemory
<1>4. FrameOK(caller)
  <2>1. Len(mStack) \in Nat /\ DOMAIN mStack = 1 .. Len(mStack)
    BY <1>1, SeqShape DEF StacksOK
  <2>2. /\ Len(popped) = Len(mStack) - 1
        /\ \A i \in 1 .. Len(mStack) - 1 : popped[i] = mStack[i]
    BY <1>1, <1>2, Popped DEF StacksOK
  <2>3. Len(popped) \in 1 .. Len(mStack) - 1 /\ Len(popped) \in DOMAIN mStack
    BY <1>2, <2>1, <2>2
  <2> HIDE DEF popped
  <2> QED BY <2>2, <2>3 DEF TypesOK, FramesOK
<1>5. currentFrame.ret \in Int
  BY Current DEF FrameOK
<1>6. FrameOK(WithStmt(caller, n, currentFrame.ret))
  <2> HIDE DEF caller, n
  <2> QED BY <1>3, <1>4, <1>5, StmtBound
<1>7. /\ \/ mStack' = popped
         \/ mStack' = [popped EXCEPT ![Len(popped)] = WithStmt(caller, n, currentFrame.ret)]
      /\ UNCHANGED <<prog, mGlobal, mSpace, fdecls, alloc, mem, taken, out>>
  BY <1>2 DEF exit
<1> QED BY <1>2, <1>6, <1>7, Untouched DEF FramesStep, Keeps

-----------------------------------------------------------------------------
(***************************************************************************)
(* Declarations at the top, main, and the end.                             *)
(***************************************************************************)
LEMMA MainSteps ==
  ASSUME TypesOK, VisitFunctionDecl \/ EnterMain \/ LeaveMain
  PROVE  Keeps
<1>1. CASE VisitFunctionDecl
  <2>1. /\ fdecls' = IF UnitDecl.fdecl \in Builtins \cup {"main"}
                     THEN fdecls \cup {UnitDecl.fdecl} ELSE fdecls
        /\ UNCHANGED <<prog, mStack, mGlobal, mSpace, alloc, mem, taken, out>>
    BY <1>1 DEF VisitFunctionDecl, fdecl
  <2>2. GlobalsOK'
    BY <2>1 DEF TypesOK, GlobalsOK, Binds
  <2> QED BY <2>1, <2>2, Untouched DEF FramesStep, Keeps
<1>2. CASE EnterMain
  <2>1. /\ GlobalDecls \subseteq DOMAIN currentFrame.vars
        /\ mGlobal' = [d \in GlobalDecls |-> getDeclVal(d)]
        /\ ReplaceTop(StackFrame)
        /\ UNCHANGED <<prog, fdecls, alloc, mem, taken, out>>
    BY <1>2 DEF EnterMain, initGlobalVars, ReplaceTop
  <2>2. Binds(currentFrame.vars, Decl)
    BY Current DEF FrameOK
  <2>3. GlobalsOK'
    BY <2>1, <2>2 DEF TypesOK, GlobalsOK, Binds, getDeclVal
  <2>4. FrameOK(StackFrame)
    <3>1. Binds(Empty, Decl)
      BY DEF Empty, Binds
    <3> QED BY <3>1, NewFrame
  <2> QED BY <2>1, <2>3, <2>4, Untouched DEF FramesStep, Keeps
<1>3. CASE LeaveMain
  <2>1. destroyHeap
    BY <1>3 DEF LeaveMain
  <2>2. MemoryOK'
    BY <2>1 DEF destroyHeap, TypesOK, MemoryOK
  <2> QED BY <2>1, <2>2, Untouched DEF destroyHeap, FramesStep, Keeps
<1> QED BY <1>1, <1>2, <1>3

LEMMA VisitsKeep ==
  ASSUME TypesOK,
         \/ VisitGlobalVarDecl \/ VisitChildren \/ VisitGroup \/ VisitCondition \/ TakeBranch
         \/ VisitLoop \/ ForHead \/ TestLoop \/ EndBody \/ Throw \/ Unwind \/ CatchInLoop
         \/ LogicError \/ AssertFails \/ UndefinedBehaviour
  PROVE  Keeps
<1>1. UNCHANGED envVars
  BY DEF VisitGlobalVarDecl, VisitChildren, VisitGroup, VisitCondition, TakeBranch, VisitLoop,
         ForHead, TestLoop, EndBody, Throw, Unwind, CatchInLoop, LogicError, AssertFails,
         UndefinedBehaviour, Fail
<1> QED BY <1>1, Untouched

LEMMA StepKeeps ==
  ASSUME TypesOK, Next
  PROVE  Keeps
BY LiteralSteps, ReferenceSteps, ConditionalStep, BinarySteps, UnarySteps, ElementStep,
   DeclarationStep, BuiltInStep, CallStep, ReturnStep, LeaveStep, MainSteps, VisitsKeep DEF Next

LEMMA StatusStep ==
  ASSUME TypesOK, Next
  PROVE  status' \in Statuses
<1> USE DEF Advance, Quiet, Statuses, TypesOK
<1>1. CASE VisitFunctionDecl \/ VisitGlobalVarDecl \/ EnterMain \/ VisitChildren \/ VisitGroup
             \/ HandleCall \/ VisitCondition \/ TakeBranch \/ BindConditional
             \/ VisitLoop \/ ForHead \/ TestLoop \/ EndBody
  BY <1>1 DEF VisitFunctionDecl, VisitGlobalVarDecl, EnterMain, VisitChildren, VisitGroup,
              HandleCall, VisitCondition, TakeBranch, BindConditional, VisitLoop, ForHead,
              TestLoop, EndBody
<1>2. CASE HandleLiteral \/ HandleParen \/ HandleBinop \/ HandleUnaryop \/ HandleDeclref
             \/ HandleCast \/ HandleArraysub \/ HandleSizeof \/ HandleVardecl \/ HandleReturn
             \/ HandleBuiltIn
  BY <1>2 DEF HandleLiteral, HandleParen, HandleBinop, HandleUnaryop, HandleDeclref, HandleCast,
              HandleArraysub, HandleSizeof, HandleVardecl, HandleReturn, HandleBuiltIn
<1>3. CASE LeaveFunction \/ LeaveMain \/ Throw \/ Unwind \/ CatchInLoop \/ LogicError
             \/ AssertFails \/ UndefinedBehaviour
  BY <1>3 DEF LeaveFunction, LeaveMain, Throw, Unwind, CatchInLoop, LogicError, AssertFails,
              UndefinedBehaviour, Fail
<1> QED BY <1>1, <1>2, <1>3 DEF Next

-----------------------------------------------------------------------------
(***************************************************************************)
(* The theorem.                                                            *)
(***************************************************************************)
LEMMA TypesKept ==
  ASSUME TypesOK, [Next]_vars
  PROVE  TypesOK'
<1>1. ControlOK' /\ HeapOK'
  BY ControlKept, HeapMaintained DEF TypesOK
<1>2. CASE Next
  <2>1. Keeps /\ status' \in Statuses /\ prog' = prog
    BY <1>2, StepKeeps, StatusStep, SameProgram
  <2>2. FramesOK'
    BY <2>1, FramesKept DEF Keeps, TypesOK, ControlOK
  <2> QED BY <1>1, <2>1, <2>2 DEF Keeps, TypesOK, Statuses
<1>3. CASE UNCHANGED vars
  <2>1. prog' = prog /\ mStack' = mStack /\ status' = status
    BY <1>3 DEF vars, envVars
  <2>2. FramesOK'
    BY <2>1, SameFrames DEF TypesOK, FramesOK
  <2>3. MemoryOK' /\ StreamsOK' /\ GlobalsOK'
    BY <1>3, Untouched DEF vars, envVars
  <2> QED BY <1>1, <2>1, <2>2, <2>3 DEF TypesOK, Statuses
<1> QED BY <1>2, <1>3

LEMMA InitTypes == Init => TypesOK
<1> SUFFICES ASSUME Init PROVE TypesOK
  OBVIOUS
<1>1. ControlOK /\ HeapOK
  BY InitControl, InitHeap
<1>2. Binds(Empty, Decl) /\ FrameOK(StackFrame)
  <2>1. Binds(Empty, Decl)
    BY DEF Empty, Binds
  <2> QED BY <2>1, NewFrame
<1>3. FramesOK
  <2>1. mStack = <<StackFrame>>
    BY DEF Init
  <2>2. \A i \in DOMAIN mStack : mStack[i] = StackFrame
    BY <2>1
  <2> QED BY <1>2, <2>2 DEF FramesOK
<1>4. MemoryOK /\ GlobalsOK /\ status \in Statuses
  BY <1>2 DEF Init, MemoryOK, GlobalsOK, Statuses, Empty
<1>5. StreamsOK
  <2>1. Len(prog.stdin) \in Nat
    BY <1>1, ProgramsAssumption, LenProperties DEF ControlOK, ProgramOK, IsProgram
  <2> QED BY <2>1 DEF Init, StreamsOK
<1> QED BY <1>1, <1>3, <1>4, <1>5 DEF TypesOK

LEMMA TypesHold == TypesOK => TypeOK
<1> SUFFICES ASSUME TypesOK PROVE TypeOK
  OBVIOUS
<1>1. ProgramOK /\ IsSeq(mStack) /\ IsSeq(ctl) /\ ActivationsOK
      /\ exc \in {None, "BREAK", "CONTINUE", "RETURN"}
  BY DEF TypesOK, ControlOK, StacksOK, ExcFits
<1>2. \A i \in DOMAIN mStack :
        /\ Binds(mStack[i].vars, Decl)
        /\ Binds(mStack[i].exprs, NodeNo)
        /\ Binds(mStack[i].ptrs, DOMAIN mStack[i].exprs)
        /\ \A n \in DOMAIN mStack[i].ptrs : InMemory(n)
        /\ mStack[i].ret \in Int
  BY DEF TypesOK, FramesOK, FrameOK, Binds
<1>3. /\ Binds(mSpace, Arena)
      /\ DOMAIN alloc \subseteq Arena /\ \A a \in DOMAIN alloc : alloc[a] \in Nat
  BY DEF TypesOK, HeapOK, MemoryOK, Binds
<1>4. Binds(mem, Nat)
  <2>1. DOMAIN mem \subseteq Nat
    BY DEF TypesOK, HeapOK, BytesOfChunks, Chunk
  <2>2. \A x \in DOMAIN mem : mem[x] \in Int
    BY SizesAssumption DEF TypesOK, MemoryOK
  <2> QED BY <2>1, <2>2 DEF Binds
<1>5. ASSUME NEW i \in DOMAIN ctl, NEW k \in DOMAIN ctl[i].tasks
      PROVE  ctl[i].tasks[k].do \in Doings /\ ctl[i].tasks[k].n \in Nat
  <2>1. ctl[i].tasks[k] \in ProperTasks
    <3>1. ctl[i].tasks \in Seq(ProperTasks)
      BY <1>1 DEF ActivationsOK, TasksOK
    <3> QED BY <3>1, LenProperties, ElementOfSeq
  <2>2. DOMAIN prog.unit \subseteq Nat /\ NodeNo \subseteq Nat
    <3>1. prog.unit \in Seq(Item) /\ prog.node \in Seq(Node)
      BY <1>1, ProgramsAssumption DEF ProgramOK, IsProgram
    <3> QED BY <3>1, LenProperties DEF NodeNo
  <2>3. ASSUME NEW t \in ProperTasks
        PROVE  t.do \in Doings /\ t.n \in Nat
    <3>1. \A kinds : Nodes(kinds) \subseteq Nat
      BY <2>2 DEF Nodes
    <3>2. Null \in Nat
      BY DEF Null
    <3> QED BY <2>2, <3>1, <3>2 DEF ProperTasks, Doings
  <2> QED BY <2>1, <2>3
<1> QED BY <1>1, <1>2, <1>3, <1>4, <1>5
        DEF TypeOK, TypesOK, GlobalsOK, StreamsOK, MemoryOK, Statuses

\* Whatever program runs and however it fails, the environment stays in order:
\* values are numbers, frames and globals bind what exists, an address is
\* bound to nodes in memory only, and every byte in memory is a byte.
THEOREM TypeCorrect == Spec => []TypeOK
BY InitTypes, TypesKept, TypesHold, PTL DEF Spec
=============================================================================
