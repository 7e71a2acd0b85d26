-------------------------- MODULE LivenessByPaths ---------------------------
(***************************************************************************)
(* Liveness by paths, the textbook definition, independent of any          *)
(* iteration: v is live at the start of b if some path of the control flow *)
(* graph leads from there to a block that uses v before defining it, and   *)
(* no block passed on the way defines v.                                   *)
(***************************************************************************)
EXTENDS BackwardDataflow

Exposed(f, b, v)   == ExposedAfter(f, b, 0, v)
DefinedIn(f, b, v) == DefinedAfter(f, b, 0, v)

\* p is a path of n blocks along which v is live at the start of b.
LivePath(f, b, v, n, p) ==
  /\ p[1] = b
  /\ \A k \in 1 .. (n - 1) : /\ p[k + 1] \in f.succ[p[k]]
                             /\ ~ DefinedIn(f, p[k], v)
  /\ Exposed(f, p[n], v)

LiveAlong(f, b, v, n) == \E p \in [1 .. n -> Block] : LivePath(f, b, v, n, p)

\* A path that visits no block twice is enough.
LiveByPaths(f, b) ==
  {v \in Inst : \E n \in 1 .. Cardinality(Block) : LiveAlong(f, b, v, n)}

(***************************************************************************)
(* The answer the pass prints is liveness by paths: for every block the    *)
(* values live at its start and at its end, none missing, none spurious.   *)
(***************************************************************************)
ExactByPaths ==
  pc = "done" =>
    \A b \in Block :
      /\ result[b].first = LiveByPaths(fn, b)
      /\ result[b].second = UNION {LiveByPaths(fn, s) : s \in fn.succ[b]}
=============================================================================
