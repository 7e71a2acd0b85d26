---------------------------- MODULE Environment ----------------------------
(***************************************************************************)
(* The Environment of ast-interpreter (Environment.h, Environment.cpp):    *)
(* call stack, global variables, heap and what they are bound to.  Its     *)
(* methods are operators here, the handlers' effects on one frame, and     *)
(* actions that the visitor of module Interpreter performs.                *)
(*                                                                         *)
(* The C allocator and the process memory are external: alloc is what      *)
(* malloc has handed out and not had back, mem the bytes of those chunks.  *)
(***************************************************************************)
EXTENDS Ast

CONSTANTS
  Arena,     \* addresses malloc may return
  ArenaEnd,  \* no chunk reaches beyond it
  Junk,      \* bytes fresh memory may hold
  MayFail    \* BOOLEAN values: may malloc return nullptr?

ASSUME MemoryAssumption ==
  /\ Arena \subseteq Nat \ {0}
  /\ ArenaEnd \in Nat
  /\ Junk \subseteq 0 .. ByteBase - 1
  /\ MayFail \subseteq BOOLEAN

VARIABLES
  prog,     \* the program interpreted
  mStack,   \* the frames, main's or the globals' first
  mGlobal,  \* global variable -> value
  mSpace,   \* Heap: address -> size of every space not yet freed
  fdecls,   \* functions fdecl() has seen: mFree, mMalloc, mInput, mOutput, mEntry
  alloc,    \* the allocator's live chunks, address -> size
  mem,      \* address -> byte, for every byte of a live chunk
  taken,    \* how many of its numbers GET has read
  out       \* what PRINT wrote

envVars ==
  <<prog, mStack, mGlobal, mSpace, fdecls, alloc, mem, taken, out>>

N(n) == prog.node[n]
Kid(n, i) == N(n).kids[i]
Has(n, i) == i <= Len(N(n).kids) /\ Kid(n, i) # Null
Fn(f) == prog.fn[f]

-----------------------------------------------------------------------------
(***************************************************************************)
(* StackFrame: three maps and the return value.                            *)
(***************************************************************************)
Empty == [x \in {} |-> 0]

\* std::map's m[k] = v.
Bind(m, k, v) == [x \in DOMAIN m \cup {k} |-> IF x = k THEN v ELSE m[x]]

StackFrame == [vars |-> Empty, exprs |-> Empty, ptrs |-> Empty, ret |-> 0]

currentFrame == mStack[Len(mStack)]

findStmt(n) == n \in DOMAIN currentFrame.exprs

getStmtVal(n) == currentFrame.exprs[n]
getPtrVal(n)  == currentFrame.ptrs[n]

WithStmt(frame, n, v) == [frame EXCEPT !.exprs = Bind(frame.exprs, n, v)]
WithPtr(frame, n, v)  == [frame EXCEPT !.ptrs = Bind(frame.ptrs, n, v)]
WithDecl(frame, d, v) == [frame EXCEPT !.vars = Bind(frame.vars, d, v)]

\* A variable not in the current frame must be a global.
findDecl(d) == d \in DOMAIN currentFrame.vars \/ d \in DOMAIN mGlobal

getDeclVal(d) ==
  IF d \in DOMAIN currentFrame.vars THEN currentFrame.vars[d] ELSE mGlobal[d]

\* Mutant: front() for back().
ReplaceTop_Front(frame) == mStack' = [mStack EXCEPT ![1] = frame]

ReplaceTop(frame) == mStack' = [mStack EXCEPT ![Len(mStack)] = frame]

-----------------------------------------------------------------------------
(***************************************************************************)
(* Memory.  An access is defined when it stays inside one live chunk.      *)
(***************************************************************************)
InChunk(a, w) == \E c \in DOMAIN alloc : c <= a /\ a + w <= c + alloc[c]

Load(a, ty) ==
  FromBytes([k \in 0 .. SizeOf(ty) - 1 |-> mem[a + k]], SizeOf(ty))

Store(m, a, ty, v) ==
  [x \in DOMAIN m |->
     IF x \in a .. a + SizeOf(ty) - 1 THEN Byte(v, x - a) ELSE m[x]]

Chunk(a, size) == a .. a + size - 1

\* Two chunks are apart, and an empty one has an address of its own.
Fits(a, size) ==
  /\ a \in Arena /\ a + size <= ArenaEnd
  /\ \A c \in DOMAIN alloc : a + size < c \/ c + alloc[c] < a

\* malloc(size) returns a: a free address, where the chunk holds content, or 0
\* when it has none or just fails.
malloc(size, a, content) ==
  \/ /\ a = 0
     /\ TRUE \in MayFail \/ size \notin Nat \/ \A c \in Arena : ~ Fits(c, size)
     /\ UNCHANGED <<alloc, mem>>
  \/ /\ size \in Nat
     /\ Fits(a, size)
     /\ alloc' = Bind(alloc, a, size)
     /\ mem' = [x \in DOMAIN mem \cup Chunk(a, size) |->
                  IF x \in Chunk(a, size) THEN content[x - a] ELSE mem[x]]

Without(m, k) == [x \in DOMAIN m \ {k} |-> m[x]]

\* free(a) of a chunk in use.
free(a) ==
  /\ alloc' = Without(alloc, a)
  /\ mem' = [x \in DOMAIN mem \ Chunk(a, alloc[a]) |-> mem[x]]

\* Mutant: nullptr is recorded too.
HeapMalloc_RecordsNull(size, a, content) ==
  /\ malloc(size, a, content)
  /\ mSpace' = Bind(mSpace, a, size)

\* Heap::Malloc records the space only when there is one.
HeapMalloc(size, a, content) ==
  /\ malloc(size, a, content)
  /\ mSpace' = IF a = 0 THEN mSpace ELSE Bind(mSpace, a, size)

\* Mutant: the space is not forgotten.
HeapFree_Remembers(a) ==
  /\ UNCHANGED mSpace
  /\ free(a)

\* Heap::Free forgets the space, then frees it.
HeapFree(a) ==
  /\ mSpace' = Without(mSpace, a)
  /\ free(a)

-----------------------------------------------------------------------------
(***************************************************************************)
(* The statement handlers.  Each binds a value to its node in the current  *)
(* frame.  bindStmtVal is the whole effect of those that only compute.     *)
(***************************************************************************)
Val(n, i) == getStmtVal(Kid(n, i))
TypeOf(n, i) == N(Kid(n, i)).type

bindStmtVal(n, v) ==
  /\ ReplaceTop(WithStmt(currentFrame, n, v))
  /\ UNCHANGED <<prog, mGlobal, mSpace, fdecls, alloc, mem, taken, out>>

\* intliteral, charliteral, paren, cast and ueott.  A cast only copies the
\* value; a cast to a function pointer or to void binds nothing.  sizeof has no
\* use for the value of its operand, which the visitor has evaluated.
literal(n) == bindStmtVal(n, N(n).val)
paren(n)   == bindStmtVal(n, Val(n, 1))
ueott(n)   == bindStmtVal(n, N(n).val * SizeOf(N(n).op))

cast(n) ==
  \/ N(n).type \in ScalarTypes /\ bindStmtVal(n, Val(n, 1))
  \/ N(n).type \notin ScalarTypes /\ UNCHANGED envVars

\* A reference to a function binds nothing.
declref(n) ==
  \/ /\ N(n).type \in ScalarTypes \cup {"array"}
     /\ bindStmtVal(n, getDeclVal(N(n).decl))
  \/ N(n).type \notin ScalarTypes \cup {"array"} /\ UNCHANGED envVars

(***************************************************************************)
(* assgnLVal(lhs, v), with the value the assignment itself is bound to.  A *)
(* variable is bound in the current frame, whatever frame or global it     *)
(* belongs to; an element or a dereferenced pointer is stored at the       *)
(* address bound when lhs was visited; any other lhs is ignored.           *)
(***************************************************************************)
InMemory(lhs) ==
  \/ N(lhs).kind = "arraysub"
  \/ N(lhs).kind = "unop" /\ N(lhs).op = "*"

assgnLVal(lhs, v, n, val) ==
  /\ \/ /\ N(lhs).kind = "declref"
        /\ ReplaceTop(WithStmt(WithDecl(currentFrame, N(lhs).decl, v), n, val))
        /\ UNCHANGED mem
     \/ /\ InMemory(lhs)
        /\ mem' = Store(mem, getPtrVal(lhs), N(lhs).type, v)
        /\ ReplaceTop(WithStmt(currentFrame, n, val))
     \/ /\ N(lhs).kind # "declref" /\ ~ InMemory(lhs)
        /\ ReplaceTop(WithStmt(currentFrame, n, val))
        /\ UNCHANGED mem
  /\ UNCHANGED <<prog, mGlobal, mSpace, fdecls, alloc, taken, out>>

\* A number added to a pointer counts elements of what it points to.
Scaled(v, ty, other) ==
  IF ty \in IntegerTypes /\ other \in PointerTypes
  THEN v * SizeOf(Pointee(other)) ELSE v

leftVal(n)  == Scaled(Val(n, 1), TypeOf(n, 1), TypeOf(n, 2))
rightVal(n) == Scaled(Val(n, 2), TypeOf(n, 2), TypeOf(n, 1))

BinopVal(n) == IF N(n).op = "=" THEN rightVal(n)
               ELSE Arithmetic(N(n).op, leftVal(n), rightVal(n))

\* Both operands have been visited, also those of && and ||.
binop(n) ==
  \/ N(n).kind = "binop" /\ bindStmtVal(n, BinopVal(n))
  \/ N(n).kind = "assign" /\ assgnLVal(Kid(n, 1), BinopVal(n), n, BinopVal(n))

\* ++ and -- move a pointer by its element's size.
Unit(n) == IF TypeOf(n, 1) \in PointerTypes THEN SizeOf(Pointee(TypeOf(n, 1))) ELSE 1

Stepped(n) == Val(n, 1) + (IF N(n).op \in {"++x", "x++"} THEN Unit(n) ELSE - Unit(n))

\* Mutant: x++ has the new value.
incdec_AlwaysNew(n) == assgnLVal(Kid(n, 1), Stepped(n), n, Stepped(n))

incdec(n) ==
  assgnLVal(Kid(n, 1), Stepped(n), n,
            IF N(n).op \in {"x++", "x--"} THEN Val(n, 1) ELSE Stepped(n))

\* & is not supported: it gives 0.
UnaryVal(op, v) ==
  CASE op = "-" -> - v
    [] op = "+" -> v
    [] op = "~" -> - v - 1
    [] op = "!" -> Truth(v = 0)
    [] OTHER    -> 0

\* An access to memory binds the value read and the address read from.
bindAccess(n, addr) ==
  /\ ReplaceTop(WithPtr(WithStmt(currentFrame, n, Load(addr, N(n).type)), n, addr))
  /\ UNCHANGED <<prog, mGlobal, mSpace, fdecls, alloc, mem, taken, out>>

unaryop(n) ==
  \/ N(n).kind = "incdec" /\ incdec(n)
  \/ N(n).kind = "unop" /\ N(n).op = "*" /\ bindAccess(n, Val(n, 1))
  \/ N(n).kind = "unop" /\ N(n).op # "*" /\ bindStmtVal(n, UnaryVal(N(n).op, Val(n, 1)))

ElementAddress(n) == Val(n, 1) + Val(n, 2) * SizeOf(N(n).type)

arraysub(n) == bindAccess(n, ElementAddress(n))

-----------------------------------------------------------------------------
(***************************************************************************)
(* Declarations.  A scalar is bound to its initialiser or to 0.  An array  *)
(* is a zeroed heap space that is never given back before ~Heap().  Its    *)
(* initialiser stores element i at addr + i * unit where addr already is a *)
(* pointer to elements: the offset is multiplied by the size twice.        *)
(***************************************************************************)
ArraySize(n) == N(n).val * SizeOf(N(n).op)

\* Only an initialiser list is supported.
InitElements(n) ==
  IF Has(n, 1) THEN IF N(Kid(n, 1)).kind = "initlist" THEN N(Kid(n, 1)).kids ELSE <<>>
               ELSE <<>>

InitOffset(n, i) == i * SizeOf(N(n).op) * SizeOf(N(n).op)

InitStore(n, i) == InitOffset(n, i) .. InitOffset(n, i) + SizeOf(N(n).op) - 1

InitialContent(n) ==
  [k \in 0 .. ArraySize(n) - 1 |->
     IF \E i \in 1 .. Len(InitElements(n)) : k \in InitStore(n, i - 1)
     THEN LET i == CHOOSE i \in 1 .. Len(InitElements(n)) : k \in InitStore(n, i - 1)
          IN  Byte(getStmtVal(InitElements(n)[i]), k - InitOffset(n, i - 1))
     ELSE 0]

vardecl(n) ==
  \/ /\ N(n).type \in ScalarTypes
     /\ ReplaceTop(WithDecl(currentFrame, N(n).decl,
                            IF Has(n, 1) THEN Val(n, 1) ELSE 0))
     /\ UNCHANGED <<prog, mGlobal, mSpace, fdecls, alloc, mem, taken, out>>
  \/ /\ N(n).type = "array"
     /\ \E a \in Arena :
          /\ HeapMalloc(ArraySize(n), a, InitialContent(n))
          /\ ReplaceTop(WithDecl(currentFrame, N(n).decl, a))
     /\ UNCHANGED <<prog, mGlobal, fdecls, taken, out>>
  \/ N(n).type \notin ScalarTypes \cup {"array"} /\ UNCHANGED envVars

\* fdecl keeps the built-in functions and main, by name.
fdecl(f) ==
  /\ fdecls' = IF f \in Builtins \cup {"main"} THEN fdecls \cup {f} ELSE fdecls
  /\ UNCHANGED <<prog, mStack, mGlobal, mSpace, alloc, mem, taken, out>>

GlobalDecls ==
  LET vars == {i \in DOMAIN prog.unit : "vardecl" \in DOMAIN prog.unit[i]}
  IN  {N(prog.unit[i].vardecl).decl : i \in vars}

\* The first frame's variables become the globals; main gets a fresh frame.
initGlobalVars ==
  /\ mGlobal' = [d \in GlobalDecls |-> getDeclVal(d)]
  /\ mStack' = [mStack EXCEPT ![Len(mStack)] = StackFrame]
  /\ UNCHANGED <<prog, mSpace, fdecls, alloc, mem, taken, out>>

-----------------------------------------------------------------------------
(***************************************************************************)
(* Calls.                                                                  *)
(***************************************************************************)
isBuiltIn(n) == N(n).decl \in fdecls \cap Builtins

Args(n) == Tail(N(n).kids)
Arg(n, i) == getStmtVal(Args(n)[i])

AtEnd == taken = Len(prog.stdin)

callbuildin(n) ==
  \/ /\ N(n).decl = "GET"  \* scanf leaves 0 at the end of the input
     /\ ReplaceTop(WithStmt(currentFrame, n, IF AtEnd THEN 0 ELSE prog.stdin[taken + 1]))
     /\ taken' = IF AtEnd THEN taken ELSE taken + 1
     /\ UNCHANGED <<prog, mGlobal, mSpace, fdecls, alloc, mem, out>>
  \/ /\ N(n).decl = "PRINT"
     /\ out' = Append(out, Arg(n, 1))
     /\ UNCHANGED <<prog, mStack, mGlobal, mSpace, fdecls, alloc, mem, taken>>
  \/ /\ N(n).decl = "MALLOC"
     /\ \E a \in Arena \cup {0}, b \in Junk :
          LET size == Narrow(Arg(n, 1), "int")
          IN  /\ HeapMalloc(size, a, [k \in 0 .. size - 1 |-> b])
              /\ ReplaceTop(WithStmt(currentFrame, n, a))
     /\ UNCHANGED <<prog, mGlobal, fdecls, taken, out>>
  \/ /\ N(n).decl = "FREE"
     /\ HeapFree(Arg(n, 1))
     /\ UNCHANGED <<prog, mStack, mGlobal, fdecls, taken, out>>

\* call() pushes a frame that holds the arguments only.
call(n) ==
  LET ps == Fn(N(n).decl).params
      ParamNo(d) == CHOOSE i \in DOMAIN ps : ps[i] = d
      vars == [d \in {ps[i] : i \in DOMAIN ps} |-> Arg(n, ParamNo(d))]
  IN  /\ mStack' = Append(mStack, [StackFrame EXCEPT !.vars = vars])
      /\ UNCHANGED <<prog, mGlobal, mSpace, fdecls, alloc, mem, taken, out>>

Pop(stack) == SubSeq(stack, 1, Len(stack) - 1)

\* exit() pops it and hands its return value, unless void, to the caller.
exit(n) ==
  LET popped == Pop(mStack)
      caller == popped[Len(popped)]
  IN  /\ mStack' = IF Fn(N(n).decl).void THEN popped
                   ELSE [popped EXCEPT ![Len(popped)] =
                           WithStmt(caller, n, currentFrame.ret)]
      /\ UNCHANGED <<prog, mGlobal, mSpace, fdecls, alloc, mem, taken, out>>

returnstmt(n) ==
  \/ /\ TypeOf(n, 1) # "void"
     /\ ReplaceTop([currentFrame EXCEPT !.ret = Val(n, 1)])
     /\ UNCHANGED <<prog, mGlobal, mSpace, fdecls, alloc, mem, taken, out>>
  \/ TypeOf(n, 1) = "void" /\ UNCHANGED envVars

\* ~Heap() frees every space still recorded.
destroyHeap ==
  /\ alloc' = [a \in DOMAIN alloc \ DOMAIN mSpace |-> alloc[a]]
  /\ mem' = [x \in {y \in DOMAIN mem :
                      \A a \in DOMAIN mSpace : y \notin Chunk(a, alloc[a])} |-> mem[x]]
  /\ mSpace' = Empty
  /\ UNCHANGED <<prog, mStack, mGlobal, fdecls, taken, out>>

-----------------------------------------------------------------------------
(***************************************************************************)
(* When a handler does not get through: an assert() fails.                 *)
(***************************************************************************)
\* The statements whose values the handler of n reads.
Reads(n) ==
  CASE N(n).kind \in {"paren", "binop", "assign", "unop", "incdec", "arraysub"} ->
         {Kid(n, i) : i \in DOMAIN N(n).kids}
    [] N(n).kind = "cast" -> IF N(n).type \in ScalarTypes THEN {Kid(n, 1)} ELSE {}
    [] N(n).kind = "vardecl" ->
         IF ~ Has(n, 1) THEN {}
         ELSE IF N(n).type = "array"
              THEN {InitElements(n)[i] : i \in DOMAIN InitElements(n)}
              ELSE {Kid(n, 1)}
    [] N(n).kind = "return" ->
         IF Has(n, 1) /\ TypeOf(n, 1) # "void" THEN {Kid(n, 1)} ELSE {}
    [] N(n).kind = "call" -> {Args(n)[i] : i \in DOMAIN Args(n)}
    [] OTHER -> {}

Stores(n) == N(n).kind \in {"assign", "incdec"} /\ InMemory(Kid(n, 1))

\* assert() fails because of an unbound statement or variable.
Unbound(n) ==
  \/ \E s \in Reads(n) : ~ findStmt(s)
  \/ /\ N(n).kind = "declref" /\ N(n).type \in ScalarTypes \cup {"array"}
     /\ ~ findDecl(N(n).decl)

\* The other assertions, for a node whose operands are bound.
ZeroDivisor(n) ==
  N(n).kind \in {"binop", "assign"} /\ N(n).op \in {"/", "%"} /\ rightVal(n) = 0

\* assgnLVal takes a UnaryOperator for a dereference.
NotAnLValue(n) ==
  /\ N(n).kind \in {"assign", "incdec"}
  /\ N(Kid(n, 1)).kind \in {"unop", "incdec"} /\ ~ InMemory(Kid(n, 1))

TooManyInits(n) ==
  N(n).kind = "vardecl" /\ N(n).type = "array" /\ Len(InitElements(n)) > N(n).val

NotAllocated(n) ==
  /\ N(n).kind = "call" /\ isBuiltIn(n)
  /\ N(n).decl = "FREE" /\ Arg(n, 1) \notin DOMAIN mSpace

WrongArguments(n) ==
  /\ N(n).kind = "call" /\ ~ isBuiltIn(n)
  /\ Len(Args(n)) # Len(Fn(N(n).decl).params)

Refused(n) ==
  \/ ZeroDivisor(n) \/ NotAnLValue(n) \/ TooManyInits(n)
  \/ NotAllocated(n) \/ WrongArguments(n)

Asserts(n) == Unbound(n) \/ (~ Unbound(n) /\ Refused(n))

-----------------------------------------------------------------------------
(***************************************************************************)
(* What the C++ does has no defined outcome.                               *)
(***************************************************************************)
\* An access outside every live chunk.
WildRead(n) ==
  \/ N(n).kind = "unop" /\ N(n).op = "*" /\ ~ InChunk(Val(n, 1), SizeOf(N(n).type))
  \/ N(n).kind = "arraysub" /\ ~ InChunk(ElementAddress(n), SizeOf(N(n).type))

WildWrite(n) == Stores(n) /\ ~ InChunk(getPtrVal(Kid(n, 1)), SizeOf(TypeOf(n, 1)))

\* An initialiser past the array, memset on the nullptr of a malloc that must
\* fail.
WildInit(n) ==
  /\ N(n).kind = "vardecl" /\ N(n).type = "array"
  /\ \/ \E i \in DOMAIN InitElements(n) :
          InitOffset(n, i - 1) + SizeOf(N(n).op) > ArraySize(n)
     \/ \A a \in Arena : ~ Fits(a, ArraySize(n))

WildShift(n) == N(n).kind \in {"binop", "assign"} /\ ~ DefinedShift(N(n).op, rightVal(n))

\* The missing operand of "return;", the missing body of a declared function.
NoOperand(n) == N(n).kind = "return" /\ ~ Has(n, 1)

NoBody(n) == N(n).kind = "call" /\ ~ isBuiltIn(n) /\ Fn(N(n).decl).body = Null

Undefined(n) ==
  \/ WildRead(n) \/ WildWrite(n) \/ WildInit(n) \/ WildShift(n)
  \/ NoOperand(n) \/ NoBody(n)
=============================================================================
