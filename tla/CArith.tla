------------------------------- MODULE CArith -------------------------------
(***************************************************************************)
(* The C++ arithmetic the interpreter evaluates programs with, and the     *)
(* machine representation of what it stores.                               *)
(*                                                                         *)
(* Expression values are int64_t; here they are integers, kept by the      *)
(* instances within a range where int64_t does not overflow.  Stores to    *)
(* memory keep their width: a char, int or pointer is CharSize, IntSize or *)
(* PtrSize bytes, two's complement, low byte first.  A byte has ByteBase   *)
(* values: 256 in the build; a smaller one keeps TLC's numbers small.      *)
(***************************************************************************)
EXTENDS Integers

CONSTANTS
  ByteBase,          \* values of a byte
  CharSize, IntSize, PtrSize,  \* sizeof(char), sizeof(int), sizeof(int64_t)
  WordBits           \* width in bits of an expression value

ASSUME SizesAssumption ==
  /\ ByteBase \in Nat \ {0}
  /\ {CharSize, IntSize, PtrSize} \subseteq Nat \ {0}
  /\ WordBits \in Nat

-----------------------------------------------------------------------------
\* Types, and what QualType's predicates say of them.
PointerTypes  == {"char*", "int*", "char**", "int**", "void*"}
IntegerTypes  == {"char", "int"}
ScalarTypes   == IntegerTypes \cup PointerTypes
OtherTypes    == {"void", "array", "fn", "fn*", "none"}
Types         == ScalarTypes \cup OtherTypes

Pointee(ty) == CASE ty = "char*" -> "char"
                 [] ty = "int*"  -> "int"
                 [] ty = "char**" -> "char*"
                 [] ty = "int**" -> "int*"
                 [] OTHER        -> "void"

\* context.getTypeSizeInChars; an array's is its length times its element's.
SizeOf(ty) == CASE ty \in {"char", "void"} -> CharSize
                [] ty = "int"              -> IntSize
                [] OTHER                   -> PtrSize

-----------------------------------------------------------------------------
\* C++ division truncates toward zero and % takes the dividend's sign.
Abs(x) == IF x < 0 THEN -x ELSE x

Quotient(l, r) == LET q == Abs(l) \div Abs(r)
                  IN  IF (l < 0) = (r < 0) THEN q ELSE -q

Remainder(l, r) == l - r * Quotient(l, r)

Power[n \in Nat] == IF n = 0 THEN 1 ELSE 2 * Power[n - 1]

\* Bit k of x in two's complement.
Bit(x, k) == (x \div Power[k]) % 2

\* The word whose bit k is op[<<bit k of l, bit k of r>>]; the sign bit counts
\* negatively.
Bitwise2(op, l, r) ==
  LET at(k) == op[<<Bit(l, k), Bit(r, k)>>]
      low[k \in 0 .. WordBits] ==
        IF k = 0 THEN 0 ELSE low[k - 1] + at(k - 1) * Power[k - 1]
  IN  low[WordBits] - at(WordBits) * Power[WordBits]

BitPair == {0, 1} \X {0, 1}
AndBits == [b \in BitPair |-> IF b[1] = 1 /\ b[2] = 1 THEN 1 ELSE 0]
OrBits  == [b \in BitPair |-> IF b[1] = 1 \/ b[2] = 1 THEN 1 ELSE 0]
XorBits == [b \in BitPair |-> IF b[1] # b[2] THEN 1 ELSE 0]

Truth(p) == IF p THEN 1 ELSE 0

ArithmeticOps == {"+", "-", "*", "/", "%", "<<", ">>", "&", "^", "|"}
LogicalOps    == {"<", ">", "<=", ">=", "==", "!=", "&&", "||"}

\* The value binop() computes for an operator; the operators it does not know
\* (the comma) give 0.
Arithmetic(op, l, r) ==
  CASE op = "+"  -> l + r
    [] op = "-"  -> l - r
    [] op = "*"  -> l * r
    [] op = "/"  -> Quotient(l, r)
    [] op = "%"  -> Remainder(l, r)
    [] op = "<<" -> l * Power[r]
    [] op = ">>" -> l \div Power[r]
    [] op = "&"  -> Bitwise2(AndBits, l, r)
    [] op = "^"  -> Bitwise2(XorBits, l, r)
    [] op = "|"  -> Bitwise2(OrBits, l, r)
    [] op = "<"  -> Truth(l < r)
    [] op = ">"  -> Truth(l > r)
    [] op = "<=" -> Truth(l <= r)
    [] op = ">=" -> Truth(l >= r)
    [] op = "==" -> Truth(l = r)
    [] op = "!=" -> Truth(l # r)
    [] op = "&&" -> Truth(l # 0 /\ r # 0)
    [] op = "||" -> Truth(l # 0 \/ r # 0)
    [] OTHER     -> 0

\* Shifting by a negative amount or by the width or more is undefined.
DefinedShift(op, r) == op \in {"<<", ">>"} => r \in 0 .. WordBits - 1

-----------------------------------------------------------------------------
\* Bytes of a value stored at a width, and the value loaded back.
Base[n \in Nat] == IF n = 0 THEN 1 ELSE ByteBase * Base[n - 1]

\* Mutant: the value is not cut to its bytes.
Byte_NotCut(v, k) == v \div Base[k]

Byte(v, k) == (v \div Base[k]) % ByteBase

FromBytes(bytes, w) ==
  LET raw[k \in 0 .. w] ==
        IF k = 0 THEN 0 ELSE raw[k - 1] + bytes[k - 1] * Base[k - 1]
  IN  IF raw[w] < Base[w] \div 2 THEN raw[w] ELSE raw[w] - Base[w]

\* The conversion (T)v.
Narrow(v, ty) == FromBytes([k \in 0 .. SizeOf(ty) - 1 |-> Byte(v, k)], SizeOf(ty))
=============================================================================
