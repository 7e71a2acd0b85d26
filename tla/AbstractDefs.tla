---------------------------- MODULE AbstractDefs ----------------------------
(***************************************************************************)
(* What a user of the use-def pass may rely on, whatever it traces in what *)
(* order: it prints for a call no function that does not flow there, and   *)
(* for a direct call the function itself; it deals with each call once, as *)
(* the module lists them.  That need not be by line: a for loop's third    *)
(* part comes after its body.                                              *)
(***************************************************************************)
EXTENDS PointerFlow

VARIABLES
  input,   \* the module's name
  todo,    \* the calls to come
  output   \* lines printed

avars == <<input, todo, output>>

Line(c) == Inst(Modules[input], c).n

Direct(c) == LET v == Callee(Modules[input], c) IN IF v[1] \in {"fn", "cast"} THEN {v[2]} ELSE {}

AInit ==
  /\ input \in DOMAIN Modules
  /\ todo = Calls(Modules[input])
  /\ output = <<>>

Visit(c) ==
  /\ \A d \in todo \ {c} : Precedes(Modules[input], c, d)
  /\ todo' = todo \ {c}
  /\ \E names \in SUBSET Callable(Modules[input], FlowOf[input], c) :
       /\ Direct(c) \subseteq names
       /\ output' = IF names = {} THEN output
                    ELSE Append(output, [line |-> Line(c), names |-> names])
  /\ UNCHANGED input

ANext == \E c \in todo : Visit(c)

ASpec == AInit /\ [][ANext]_avars
=============================================================================
