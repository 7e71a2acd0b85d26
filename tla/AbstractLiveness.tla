-------------------------- MODULE AbstractLiveness --------------------------
(***************************************************************************)
(* What a user of the liveness pass may rely on, whatever the order in     *)
(* which blocks are processed: answers only grow, never beyond any         *)
(* solution of the liveness equations, and the pass stops only with a      *)
(* solution, which is therefore the least one.                             *)
(***************************************************************************)
EXTENDS Liveness

VARIABLES
  fn,    \* the function analysed
  live,  \* block -> values known to be live at its start
  done   \* has the pass stopped?

avars == <<fn, live, done>>

BelowEverySolution(l) ==
  \A in \in [Block -> SUBSET Inst] :
    IsSolution(fn, in) => \A b \in Block : l[b] \subseteq in[b]

AInit ==
  /\ fn \in Functions
  /\ live = [b \in Block |-> {}]
  /\ done = FALSE

Grow ==
  /\ ~ done
  /\ live' \in [Block -> SUBSET Inst]
  /\ \A b \in Block : live[b] \subseteq live'[b]
  /\ BelowEverySolution(live')
  /\ UNCHANGED <<fn, done>>

Stop ==
  /\ ~ done
  /\ IsSolution(fn, live)
  /\ done' = TRUE
  /\ UNCHANGED <<fn, live>>

ANext == Grow \/ Stop

ASpec == AInit /\ [][ANext]_avars
=============================================================================
