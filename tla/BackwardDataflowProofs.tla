----------------------- MODULE BackwardDataflowProofs -----------------------
(***************************************************************************)
(* Proofs about BackwardDataflow, for every function, every set of blocks  *)
(* and instructions and every assignment of addresses.                     *)
(***************************************************************************)
EXTENDS LivenessByPaths, DataLemmas, FiniteSetTheorems, TLAPS

-----------------------------------------------------------------------------
(***************************************************************************)
(* What LiveBefore gives: it is a set of values, it grows with the exit    *)
(* value, it is the exit value before any instruction is visited, and one  *)
(* call of compDFVal takes it one instruction further back.                *)
(***************************************************************************)
LEMMA LiveBeforeType ==
  ASSUME NEW f, NEW b, NEW p, NEW S
  PROVE  LiveBefore(f, b, p, S) \subseteq Inst
BY DEF LiveBefore

LEMMA LiveBeforeGrows ==
  ASSUME NEW f, NEW b, NEW p, NEW S, NEW T, S \subseteq T
  PROVE  LiveBefore(f, b, p, S) \subseteq LiveBefore(f, b, p, T)
BY DEF LiveBefore

LEMMA LiveBeforeEnd ==
  ASSUME NEW f \in FunctionRec, NEW b \in Block, NEW S, S \subseteq Inst
  PROVE  LiveBefore(f, b, Len(f.code[b]), S) = S
<1>1. Len(f.code[b]) \in Nat
  BY DEF FunctionRec
<1>2. (Len(f.code[b]) + 1) .. Len(f.code[b]) = {}
  BY <1>1
<1> QED BY <1>2 DEF LiveBefore, ExposedAfter, DefinedAfter

LEMMA CompDFValStep ==
  ASSUME NEW f \in FunctionRec, NEW b \in Block, NEW S, S \subseteq Inst,
         NEW p \in Nat, p > 0, p <= Len(f.code[b])
  PROVE  CompDFVal(f, f.code[b][p], LiveBefore(f, b, p, S))
           = LiveBefore(f, b, p - 1, S)
<1> DEFINE n == Len(f.code[b])
           i == f.code[b][p]
<1>1. n \in Nat /\ i \in Inst
  BY DEF FunctionRec
<1>2. (p - 1) + 1 = p
  OBVIOUS
<1>3. p .. n = {p} \cup ((p + 1) .. n)
  BY <1>1
<1>4. \A q \in (p + 1) .. n : p .. (q - 1) = {p} \cup ((p + 1) .. (q - 1))
  BY <1>1
<1>5. p .. (p - 1) = {}
  OBVIOUS
<1>6. ASSUME NEW v
      PROVE  ExposedAfter(f, b, p - 1, v) <=>
               Uses(f, i, v) \/ (~ Defines(f, i, v) /\ ExposedAfter(f, b, p, v))
  <2>1. ASSUME ExposedAfter(f, b, p - 1, v)
        PROVE  Uses(f, i, v) \/ (~ Defines(f, i, v) /\ ExposedAfter(f, b, p, v))
    <3>1. PICK q \in p .. n : /\ Uses(f, f.code[b][q], v)
                              /\ \A r \in p .. (q - 1) : ~ Defines(f, f.code[b][r], v)
      BY <2>1, <1>2 DEF ExposedAfter
    <3>2. CASE q = p
      BY <3>1, <3>2
    <3>3. CASE q \in (p + 1) .. n
      BY <3>1, <3>3, <1>4 DEF ExposedAfter
    <3> QED BY <3>2, <3>3, <1>3
  <2>2. ASSUME Uses(f, i, v)
        PROVE  ExposedAfter(f, b, p - 1, v)
    <3>1. p \in p .. n
      BY <1>1
    <3> QED BY <3>1, <2>2, <1>2, <1>5 DEF ExposedAfter
  <2>3. ASSUME ~ Defines(f, i, v), ExposedAfter(f, b, p, v)
        PROVE  ExposedAfter(f, b, p - 1, v)
    <3>1. PICK q \in (p + 1) .. n :
             /\ Uses(f, f.code[b][q], v)
             /\ \A r \in (p + 1) .. (q - 1) : ~ Defines(f, f.code[b][r], v)
      BY <2>3 DEF ExposedAfter
    <3>2. q \in p .. n
      BY <3>1, <1>3
    <3>3. \A r \in p .. (q - 1) : ~ Defines(f, f.code[b][r], v)
      BY <3>1, <2>3, <1>4
    <3> QED BY <3>1, <3>2, <3>3, <1>2 DEF ExposedAfter
  <2> QED BY <2>1, <2>2, <2>3
<1>7. ASSUME NEW v
      PROVE  DefinedAfter(f, b, p - 1, v) <=>
               Defines(f, i, v) \/ DefinedAfter(f, b, p, v)
  BY <1>2, <1>3 DEF DefinedAfter
<1>8. CASE i \in f.dbg
  BY <1>6, <1>7, <1>8 DEF LiveBefore, CompDFVal, Defines, Uses
<1>9. CASE i \notin f.dbg
  <2> DEFINE L == LiveBefore(f, b, p, S)
  <2>1. CompDFVal(f, i, L) = (L \ {i}) \cup InstOperands(f, i)
    BY <1>9 DEF CompDFVal
  <2>2. \A v : Uses(f, i, v) <=> v \in InstOperands(f, i)
    BY <1>9 DEF Uses
  <2>3. \A v : Defines(f, i, v) <=> v = i
    BY <1>9 DEF Defines
  <2>4. InstOperands(f, i) \subseteq Inst
    BY DEF InstOperands
  <2>5. \A v \in Inst : v \in L <=> \/ ExposedAfter(f, b, p, v)
                                    \/ v \in S /\ ~ DefinedAfter(f, b, p, v)
    BY DEF LiveBefore
  <2>6. \A v \in Inst :
          v \in LiveBefore(f, b, p - 1, S) <=>
            \/ ExposedAfter(f, b, p - 1, v)
            \/ v \in S /\ ~ DefinedAfter(f, b, p - 1, v)
    BY DEF LiveBefore
  <2>7. L \subseteq Inst /\ LiveBefore(f, b, p - 1, S) \subseteq Inst
    BY LiveBeforeType
  <2>8. \A v \in Inst : v \in LiveBefore(f, b, p - 1, S)
                          <=> v \in InstOperands(f, i) \/ (v # i /\ v \in L)
    BY <1>6, <1>7, <2>2, <2>3, <2>5, <2>6
  <2> HIDE DEF L
  <2>9. LiveBefore(f, b, p - 1, S) = (L \ {i}) \cup InstOperands(f, i)
    BY <2>4, <2>7, <2>8
  <2> QED BY <2>1, <2>9 DEF L
<1> QED BY <1>8, <1>9

-----------------------------------------------------------------------------
(***************************************************************************)
(* The loop's invariant.                                                   *)
(***************************************************************************)
LEMMA FnType ==
  ASSUME TypeOK
  PROVE  /\ fn \in FunctionRec
         /\ \A b \in Block : fn.succ[b] \subseteq Block
         /\ \A b \in Block : fn.code[b] \in Seq(Inst)
BY FunctionsAssumption DEF TypeOK, FunctionRec

LEMMA InitIInv == Init => IInv
<1> SUFFICES ASSUME Init PROVE IInv
  OBVIOUS
<1>1. bb \in Block
  BY BlockAssumption DEF Init
<1>2. TypeOK
  BY <1>1 DEF Init, TypeOK, initval
<1>3. Justified
  BY DEF Init, Justified, initval
<1>4. Settled
  BY DEF Init, Settled, InProgress
<1>5. CarriedValue
  BY DEF Init, CarriedValue
<1> QED BY <1>2, <1>3, <1>4, <1>5 DEF IInv

LEMMA TypeStep == ASSUME TypeOK, [Next]_vars PROVE TypeOK'
<1> USE DEF TypeOK
<1>1. CASE TakeBlock
  BY <1>1, FnType DEF TakeBlock
<1>2. CASE MergeSucc
  BY <1>2 DEF MergeSucc, Merge
<1>3. CASE StoreExit
  <2>1. Len(fn.code[bb]) \in Nat
    BY FnType
  <2> QED BY <1>3, <2>1 DEF StoreExit
<1>4. CASE VisitInst
  <2>1. CompDFVal(fn, fn.code[bb][pos], bbexitval) \subseteq Inst
    BY DEF CompDFVal, InstOperands
  <2>2. pos - 1 \in Nat
    BY <1>4 DEF VisitInst
  <2> QED BY <1>4, <2>1, <2>2 DEF VisitInst
<1>5. CASE KeepEntry
  BY <1>5 DEF KeepEntry
<1>6. CASE UpdateEntry
  <2>1. Pred(fn, bb) \subseteq Block
    BY DEF Pred
  <2> QED BY <1>6, <2>1 DEF UpdateEntry
<1>7. CASE PrintResult
  BY <1>7 DEF PrintResult
<1>8. CASE UNCHANGED vars
  BY <1>8 DEF vars
<1> QED BY <1>1, <1>2, <1>3, <1>4, <1>5, <1>6, <1>7, <1>8 DEF Next

LEMMA JustifiedStep == ASSUME IInv, [Next]_vars PROVE Justified'
<1> USE DEF IInv
<1>0. TypeOK /\ TypeOK'
  BY TypeStep
<1>1. CASE StoreExit
  <2>1. /\ fn' = fn /\ pc = "merge" /\ succs = {}
        /\ result' = [result EXCEPT ![bb].second = bbexitval]
    BY <1>1 DEF StoreExit
  <2>2. bbexitval = result[bb].second \cup UNION {result[s].first : s \in fn.succ[bb]}
    BY <2>1 DEF CarriedValue
  <2>3. bb \in Block /\ fn.succ[bb] \subseteq Block
    BY <1>0, FnType DEF TypeOK
  <2>4. LiveOutOf(fn, EntryOf, bb) = UNION {result[s].first : s \in fn.succ[bb]}
    BY <2>3 DEF LiveOutOf, EntryOf
  <2>5. \A b \in Block : result'[b].first = result[b].first
    BY <2>1, <1>0 DEF TypeOK
  <2>6. EntryOf' = EntryOf
    BY <2>5 DEF EntryOf
  <2>7. \A b \in Block : b # bb => result'[b].second = result[b].second
    BY <2>1, <1>0 DEF TypeOK
  <2>8. result'[bb].second = bbexitval
    BY <2>1, <1>0 DEF TypeOK
  <2>9. bbexitval \subseteq LiveOutOf(fn, EntryOf, bb)
    BY <2>2, <2>3, <2>4 DEF Justified
  <2>10. LiveBefore(fn, bb, 0, result[bb].second) \subseteq LiveBefore(fn, bb, 0, bbexitval)
    BY <2>2, LiveBeforeGrows
  <2> QED BY <2>1, <2>3, <2>5, <2>6, <2>7, <2>8, <2>9, <2>10 DEF Justified
<1>2. CASE UpdateEntry
  <2>1. /\ fn' = fn /\ pc = "transfer" /\ pos = 0
        /\ result' = [result EXCEPT ![bb].first = bbexitval]
    BY <1>2 DEF UpdateEntry
  <2>2. bbexitval = LiveBefore(fn, bb, 0, result[bb].second)
    BY <2>1 DEF CarriedValue
  <2>3. bb \in Block
    BY <1>0 DEF TypeOK
  <2>4. \A b \in Block : result'[b].second = result[b].second
    BY <2>1, <1>0 DEF TypeOK
  <2>5. \A b \in Block : b # bb => result'[b].first = result[b].first
    BY <2>1, <1>0 DEF TypeOK
  <2>6. result'[bb].first = bbexitval
    BY <2>1, <1>0 DEF TypeOK
  <2>7. \A b \in Block : result[b].first \subseteq result'[b].first
    BY <2>2, <2>3, <2>5, <2>6 DEF Justified
  <2>8. \A b \in Block : LiveOutOf(fn, EntryOf, b) \subseteq LiveOutOf(fn, EntryOf', b)
    <3>1. \A b \in Block : fn.succ[b] \subseteq Block
      BY <1>0, FnType
    <3>2. \A s \in Block : EntryOf[s] \subseteq EntryOf'[s]
      BY <2>7 DEF EntryOf
    <3> QED BY <3>1, <3>2 DEF LiveOutOf
  <2> QED BY <2>1, <2>2, <2>3, <2>4, <2>5, <2>6, <2>8 DEF Justified
<1>3. CASE UNCHANGED <<fn, result>>
  BY <1>3 DEF Justified, EntryOf
<1>4. [Next]_vars => StoreExit \/ UpdateEntry \/ UNCHANGED <<fn, result>>
  BY DEF Next, vars, TakeBlock, MergeSucc, VisitInst, KeepEntry, PrintResult
<1> QED BY <1>1, <1>2, <1>3, <1>4

\* A recorded set only ever grows.
LEMMA Growth ==
  ASSUME IInv, [Next]_vars
  PROVE  \A b \in Block : /\ result[b].first \subseteq result'[b].first
                          /\ result[b].second \subseteq result'[b].second
<1> USE DEF IInv
<1>1. CASE StoreExit
  <2>1. result[bb].second \subseteq bbexitval
    BY <1>1 DEF StoreExit, CarriedValue
  <2> QED BY <1>1, <2>1 DEF StoreExit, TypeOK
<1>2. CASE UpdateEntry
  <2>1. bbexitval = LiveBefore(fn, bb, 0, result[bb].second)
    BY <1>2 DEF UpdateEntry, CarriedValue
  <2>2. result[bb].first \subseteq bbexitval
    BY <2>1 DEF Justified, TypeOK
  <2> QED BY <1>2, <2>2 DEF UpdateEntry, TypeOK
<1>3. [Next]_vars => StoreExit \/ UpdateEntry \/ UNCHANGED result
  BY DEF Next, vars, TakeBlock, MergeSucc, VisitInst, KeepEntry, PrintResult
<1> QED BY <1>1, <1>2, <1>3

LEMMA SettledStep == ASSUME IInv, [Next]_vars PROVE Settled'
<1> USE DEF IInv
<1>0. TypeOK /\ \A b \in Block : fn.succ[b] \subseteq Block
  BY FnType
<1>1. CASE TakeBlock
  BY <1>1 DEF TakeBlock, Settled, InProgress, EntryOf
<1>2. CASE MergeSucc
  BY <1>2 DEF MergeSucc, Settled, InProgress, EntryOf
<1>3. CASE StoreExit
  <2>1. /\ fn' = fn /\ worklist' = worklist /\ InProgress' = {bb} /\ InProgress = {bb}
    BY <1>3 DEF StoreExit, InProgress
  <2>2. \A b \in Block : /\ result'[b].first = result[b].first
                         /\ b # bb => result'[b].second = result[b].second
    BY <1>3, <1>0 DEF StoreExit, TypeOK
  <2>3. EntryOf' = EntryOf
    BY <2>2 DEF EntryOf
  <2> QED BY <2>1, <2>2, <2>3 DEF Settled
<1>4. CASE VisitInst
  BY <1>4 DEF VisitInst, Settled, InProgress, EntryOf
<1>5. CASE KeepEntry
  <2>1. /\ UNCHANGED <<fn, worklist, result>> /\ InProgress' = {} /\ InProgress = {bb}
    BY <1>5 DEF KeepEntry, InProgress
  <2>2. result[bb].first = LiveBefore(fn, bb, 0, result[bb].second)
    BY <1>5 DEF KeepEntry, CarriedValue
  <2>3. LiveOutOf(fn, EntryOf, bb) \subseteq result[bb].second
    BY <1>5 DEF KeepEntry, CarriedValue
  <2> QED BY <2>1, <2>2, <2>3 DEF Settled, EntryOf
<1>6. CASE UpdateEntry
  <2>1. /\ fn' = fn /\ InProgress' = {} /\ InProgress = {bb}
        /\ worklist' = worklist \cup Pred(fn, bb)
    BY <1>6 DEF UpdateEntry, InProgress
  <2>2. \A b \in Block : /\ result'[b].second = result[b].second
                         /\ b # bb => result'[b].first = result[b].first
    BY <1>6, <1>0 DEF UpdateEntry, TypeOK
  <2>3. result'[bb].first = LiveBefore(fn, bb, 0, result[bb].second)
    BY <1>6, <1>0 DEF UpdateEntry, CarriedValue, TypeOK
  <2>4. LiveOutOf(fn, EntryOf, bb) \subseteq result[bb].second
    BY <1>6 DEF UpdateEntry, CarriedValue
  <2>5. ASSUME NEW b \in Block, b \notin Pred(fn, bb)
        PROVE  LiveOutOf(fn, EntryOf', b) = LiveOutOf(fn, EntryOf, b)
    <3>1. bb \notin fn.succ[b]
      BY <2>5 DEF Pred
    <3>2. \A s \in fn.succ[b] : EntryOf'[s] = EntryOf[s]
      BY <3>1, <2>2, <1>0 DEF EntryOf
    <3> QED BY <3>2 DEF LiveOutOf
  <2>6. ASSUME NEW b \in Block \ (worklist' \cup InProgress')
        PROVE  /\ result'[b].first = LiveBefore(fn, b, 0, result'[b].second)
               /\ LiveOutOf(fn, EntryOf', b) \subseteq result'[b].second
    <3>1. b \notin worklist /\ b \notin Pred(fn, bb)
      BY <2>1, <2>6
    <3>2. LiveOutOf(fn, EntryOf', b) = LiveOutOf(fn, EntryOf, b)
      BY <3>1, <2>5
    <3>3. CASE b = bb
      BY <3>2, <3>3, <2>2, <2>3, <2>4
    <3>4. CASE b # bb
      <4>1. b \in Block \ (worklist \cup InProgress)
        BY <3>1, <3>4, <2>1
      <4> QED BY <4>1, <3>2, <3>4, <2>2 DEF Settled
    <3> QED BY <3>3, <3>4
  <2> QED BY <2>1, <2>6 DEF Settled
<1>7. CASE PrintResult
  BY <1>7 DEF PrintResult, Settled, InProgress, EntryOf
<1>8. CASE UNCHANGED vars
  BY <1>8 DEF vars, Settled, InProgress, EntryOf
<1> QED BY <1>1, <1>2, <1>3, <1>4, <1>5, <1>6, <1>7, <1>8 DEF Next

LEMMA CarriedValueStep == ASSUME IInv, [Next]_vars PROVE CarriedValue'
<1> USE DEF IInv
<1>0. /\ TypeOK /\ fn \in FunctionRec
      /\ \A b \in Block : fn.succ[b] \subseteq Block /\ fn.code[b] \in Seq(Inst)
  BY FnType
<1>1. CASE TakeBlock
  <2>1. /\ UNCHANGED <<fn, result, pos, printed>> /\ pc' = "merge"
        /\ bbexitval' = result[bb'].second /\ succs' = fn.succ[bb']
    BY <1>1 DEF TakeBlock
  <2> QED BY <2>1 DEF CarriedValue
<1>2. CASE MergeSucc
  <2>1. PICK s \in succs : /\ bbexitval' = bbexitval \cup result[s].first
                           /\ succs' = succs \ {s}
    BY <1>2 DEF MergeSucc, Merge
  <2>2. UNCHANGED <<fn, result, pc, bb>> /\ pc = "merge"
    BY <1>2 DEF MergeSucc
  <2>3. /\ succs \subseteq fn.succ[bb]
        /\ bbexitval = result[bb].second
                         \cup UNION {result[t].first : t \in fn.succ[bb] \ succs}
    BY <2>2 DEF CarriedValue
  <2>4. fn.succ[bb] \ succs' = (fn.succ[bb] \ succs) \cup {s}
    BY <2>1, <2>3
  <2>5. UNION {result[t].first : t \in fn.succ[bb] \ succs'}
          = result[s].first \cup UNION {result[t].first : t \in fn.succ[bb] \ succs}
    BY <2>4
  <2>6. /\ succs' \subseteq fn.succ[bb]
        /\ bbexitval' = result[bb].second
                          \cup UNION {result[t].first : t \in fn.succ[bb] \ succs'}
    BY <2>1, <2>3, <2>5
  <2> QED BY <2>2, <2>6 DEF CarriedValue
<1>3. CASE StoreExit
  <2>1. /\ UNCHANGED <<fn, bb, bbexitval>> /\ pc = "merge" /\ succs = {}
        /\ pc' = "transfer" /\ pos' = Len(fn.code[bb])
    BY <1>3 DEF StoreExit
  <2>2. bb \in Block /\ bbexitval \subseteq Inst
    BY <1>0 DEF TypeOK
  <2>3. \A b \in Block : result'[b].first = result[b].first
    BY <1>3, <1>0 DEF StoreExit, TypeOK
  <2>4. result'[bb].second = bbexitval
    BY <1>3, <1>0 DEF StoreExit, TypeOK
  <2>5. bbexitval = result[bb].second \cup UNION {result[s].first : s \in fn.succ[bb]}
    BY <2>1 DEF CarriedValue
  <2>6. LiveOutOf(fn, EntryOf', bb) \subseteq bbexitval
    <3>1. \A s \in fn.succ[bb] : EntryOf'[s] = result[s].first
      BY <2>2, <2>3, <1>0 DEF EntryOf
    <3> QED BY <3>1, <2>5 DEF LiveOutOf
  <2>7. LiveBefore(fn, bb, Len(fn.code[bb]), bbexitval) = bbexitval
    BY <2>2, <1>0, LiveBeforeEnd
  <2>8. Len(fn.code[bb]) \in Nat
    BY <2>2, <1>0
  <2> QED BY <2>1, <2>4, <2>6, <2>7, <2>8 DEF CarriedValue
<1>4. CASE VisitInst
  <2>1. /\ UNCHANGED <<fn, bb, result, pc>> /\ pc = "transfer" /\ pos > 0
        /\ pos' = pos - 1
        /\ bbexitval' = CompDFVal(fn, fn.code[bb][pos], bbexitval)
    BY <1>4 DEF VisitInst
  <2>2. /\ pos <= Len(fn.code[bb])
        /\ LiveOutOf(fn, EntryOf, bb) \subseteq result[bb].second
        /\ bbexitval = LiveBefore(fn, bb, pos, result[bb].second)
    BY <2>1 DEF CarriedValue
  <2>3. bb \in Block /\ pos \in Nat /\ result[bb].second \subseteq Inst
    BY <1>0 DEF TypeOK
  <2>4. bbexitval' = LiveBefore(fn, bb, pos - 1, result[bb].second)
    BY <2>1, <2>2, <2>3, <1>0, CompDFValStep
  <2>5. Len(fn.code[bb]) \in Nat
    BY <2>3, <1>0
  <2>6. pos - 1 <= Len(fn.code[bb])
    BY <2>2, <2>3, <2>5
  <2> QED BY <2>1, <2>2, <2>4, <2>6 DEF CarriedValue, EntryOf
<1>5. CASE KeepEntry \/ UpdateEntry
  BY <1>5 DEF KeepEntry, UpdateEntry, CarriedValue
<1>6. CASE PrintResult
  BY <1>6 DEF PrintResult, CarriedValue
<1>7. CASE UNCHANGED vars
  BY <1>7 DEF vars, CarriedValue, EntryOf
<1> QED BY <1>1, <1>2, <1>3, <1>4, <1>5, <1>6, <1>7 DEF Next

-----------------------------------------------------------------------------
(***************************************************************************)
(* compBackwardDataflow keeps its loop invariant, for every function.      *)
(***************************************************************************)
THEOREM Invariance == Spec => []IInv
<1>1. Init => IInv
  BY InitIInv
<1>2. IInv /\ [Next]_vars => IInv'
  <2> SUFFICES ASSUME IInv, [Next]_vars PROVE IInv'
    OBVIOUS
  <2>1. TypeOK'
    BY TypeStep DEF IInv
  <2> QED BY <2>1, JustifiedStep, SettledStep, CarriedValueStep DEF IInv
<1> QED BY <1>1, <1>2, PTL DEF Spec

(***************************************************************************)
(* When compBackwardDataflow returns, what printDataflowResult writes is   *)
(* an exact solution of the liveness equations.                            *)
(***************************************************************************)
THEOREM Solved == Spec => []SolvedWhenDone
<1>1. IInv => SolvedWhenDone
  <2> SUFFICES ASSUME IInv, pc = "done", NEW b \in Block
               PROVE  /\ result[b].second = LiveOutOf(fn, EntryOf, b)
                      /\ result[b].first = LiveBefore(fn, b, 0, result[b].second)
                      /\ <<b, result[b].first, result[b].second>> \in printed
    BY DEF SolvedWhenDone
  <2>1. /\ worklist = {} /\ InProgress = {}
        /\ printed = {<<c, result[c].first, result[c].second>> : c \in Block}
    BY DEF IInv, CarriedValue, InProgress
  <2>2. /\ result[b].first = LiveBefore(fn, b, 0, result[b].second)
        /\ LiveOutOf(fn, EntryOf, b) \subseteq result[b].second
    BY <2>1 DEF IInv, Settled
  <2>3. result[b].second \subseteq LiveOutOf(fn, EntryOf, b)
    BY DEF IInv, Justified
  <2> QED BY <2>1, <2>2, <2>3
<1> QED BY <1>1, Invariance, PTL

(***************************************************************************)
(* No step of compBackwardDataflow shrinks a recorded set.                 *)
(***************************************************************************)
THEOREM MonotoneResult == Spec => Monotone
<1>1. IInv /\ [Next]_vars =>
        [\A b \in Block : /\ result[b].first \subseteq result'[b].first
                          /\ result[b].second \subseteq result'[b].second]_vars
  BY Growth
<1> QED BY <1>1, Invariance, PTL DEF Spec, Monotone

LEMMA BelowStep ==
  ASSUME IInv, BelowAllSolutions, [Next]_vars
  PROVE  BelowAllSolutions'
<1> USE DEF IInv
<1>0. /\ TypeOK /\ bb \in Block
      /\ \A b \in Block : fn.succ[b] \subseteq Block
  BY FnType DEF TypeOK
<1>1. fn' = fn
  BY DEF Next, vars, TakeBlock, MergeSucc, StoreExit, VisitInst, KeepEntry,
         UpdateEntry, PrintResult
<1> SUFFICES ASSUME NEW in \in [Block -> SUBSET Inst], IsSolution(fn, in)
             PROVE  \A b \in Block : /\ result'[b].first \subseteq in[b]
                                     /\ result'[b].second \subseteq LiveOutOf(fn, in, b)
  BY <1>1 DEF BelowAllSolutions
<1>2. \A b \in Block : /\ result[b].first \subseteq in[b]
                       /\ result[b].second \subseteq LiveOutOf(fn, in, b)
  BY DEF BelowAllSolutions
<1>3. CASE StoreExit
  <2>1. bbexitval = result[bb].second \cup UNION {result[s].first : s \in fn.succ[bb]}
    BY <1>3 DEF StoreExit, CarriedValue
  <2>2. UNION {result[s].first : s \in fn.succ[bb]} \subseteq LiveOutOf(fn, in, bb)
    BY <1>0, <1>2 DEF LiveOutOf
  <2>3. bbexitval \subseteq LiveOutOf(fn, in, bb)
    BY <2>1, <2>2, <1>2, <1>0
  <2>4. \A b \in Block : /\ result'[b].first = result[b].first
                         /\ b # bb => result'[b].second = result[b].second
    BY <1>3, <1>0 DEF StoreExit, TypeOK
  <2>5. result'[bb].second = bbexitval
    BY <1>3, <1>0 DEF StoreExit, TypeOK
  <2> QED BY <1>2, <2>3, <2>4, <2>5
<1>4. CASE UpdateEntry
  <2>1. bbexitval = LiveBefore(fn, bb, 0, result[bb].second)
    BY <1>4 DEF UpdateEntry, CarriedValue
  <2>2. bbexitval \subseteq LiveBefore(fn, bb, 0, LiveOutOf(fn, in, bb))
    BY <2>1, <1>2, <1>0, LiveBeforeGrows
  <2>3. bbexitval \subseteq in[bb]
    BY <2>2, <1>0 DEF IsSolution
  <2>4. \A b \in Block : /\ result'[b].second = result[b].second
                         /\ b # bb => result'[b].first = result[b].first
    BY <1>4, <1>0 DEF UpdateEntry, TypeOK
  <2>5. result'[bb].first = bbexitval
    BY <1>4, <1>0 DEF UpdateEntry, TypeOK
  <2> QED BY <1>2, <2>3, <2>4, <2>5
<1>5. [Next]_vars => StoreExit \/ UpdateEntry \/ UNCHANGED result
  BY DEF Next, vars, TakeBlock, MergeSucc, VisitInst, KeepEntry, PrintResult
<1> QED BY <1>2, <1>3, <1>4, <1>5

(***************************************************************************)
(* At every moment every recorded set stays within every solution of the   *)
(* liveness equations: the answer is the least one.                        *)
(***************************************************************************)
THEOREM LeastSolution == Spec => []BelowAllSolutions
<1>1. Init => BelowAllSolutions
  <2> SUFFICES ASSUME Init PROVE BelowAllSolutions
    OBVIOUS
  <2>1. \A b \in Block : result[b].first = {}
    BY DEF Init, initval
  <2>2. \A b \in Block : result[b].second = {}
    BY DEF Init, initval
  <2> QED BY <2>1, <2>2 DEF BelowAllSolutions
<1>2. IInv /\ BelowAllSolutions /\ [Next]_vars => BelowAllSolutions'
  BY BelowStep
<1> QED BY <1>1, <1>2, Invariance, PTL DEF Spec

\* The abstract module speaks of the same equations.
LEMMA SameSolutions ==
  \A f, in : Abstract!IsSolution(f, in) <=> IsSolution(f, in)
<1>1. \A f, b, p, S : Abstract!LiveBefore(f, b, p, S) = LiveBefore(f, b, p, S)
  BY DEF Abstract!LiveBefore, LiveBefore, Abstract!ExposedAfter, ExposedAfter,
         Abstract!DefinedAfter, DefinedAfter, Abstract!Uses, Uses,
         Abstract!Defines, Defines, Abstract!InstOperands, InstOperands
<1>2. \A f, in, b : Abstract!LiveOutOf(f, in, b) = LiveOutOf(f, in, b)
  BY DEF Abstract!LiveOutOf, LiveOutOf
<1> QED BY <1>1, <1>2 DEF Abstract!IsSolution, IsSolution

(***************************************************************************)
(* The worklist loop implements the abstract pass: whatever the addresses, *)
(* it grows its answers within every solution and stops at one.            *)
(***************************************************************************)
THEOREM Refinement == Spec => ImplementsAbstract
<1> DEFINE J == IInv /\ SolvedWhenDone /\ BelowAllSolutions
<1>1. Init => Abstract!AInit
  <2> SUFFICES ASSUME Init PROVE Abstract!AInit
    OBVIOUS
  <2>1. \A b \in Block : result[b].first = {}
    BY DEF Init, initval
  <2>2. EntryOf = [b \in Block |-> {}]
    BY <2>1 DEF EntryOf
  <2>3. fn \in Functions /\ (pc = "done") = FALSE
    BY DEF Init
  <2> QED BY <2>2, <2>3 DEF Abstract!AInit
<1>2. J /\ J' /\ [Next]_vars => [Abstract!ANext]_(Abstract!avars)
  <2> SUFFICES ASSUME J, J', [Next]_vars
               PROVE  Abstract!ANext \/ UNCHANGED Abstract!avars
    BY DEF Abstract!avars
  <2>1. CASE UpdateEntry
    <3>1. fn' = fn /\ pc = "transfer" /\ pc' = "while"
      BY <2>1 DEF UpdateEntry
    <3>2. EntryOf' \in [Block -> SUBSET Inst]
      BY DEF IInv, TypeOK, EntryOf
    <3>3. \A b \in Block : EntryOf[b] \subseteq EntryOf'[b]
      BY Growth DEF EntryOf
    <3>4. Abstract!BelowEverySolution(EntryOf')
      <4> SUFFICES ASSUME NEW in \in [Block -> SUBSET Inst], IsSolution(fn, in)
                   PROVE  \A b \in Block : EntryOf'[b] \subseteq in[b]
        BY SameSolutions DEF Abstract!BelowEverySolution
      <4> QED BY <3>1 DEF BelowAllSolutions, EntryOf
    <3> QED BY <3>1, <3>2, <3>3, <3>4 DEF Abstract!ANext, Abstract!Grow
  <2>2. CASE PrintResult
    <3>1. /\ fn' = fn /\ EntryOf' = EntryOf /\ pc = "while" /\ pc' = "done"
          /\ result' = result
      BY <2>2 DEF PrintResult, EntryOf
    <3>2. \A b \in Block : /\ result[b].second = LiveOutOf(fn, EntryOf, b)
                           /\ result[b].first = LiveBefore(fn, b, 0, result[b].second)
      BY <3>1 DEF SolvedWhenDone, EntryOf
    <3>3. EntryOf \in [Block -> SUBSET Inst]
      BY DEF IInv, TypeOK, EntryOf
    <3>4. IsSolution(fn, EntryOf)
      BY <3>2, <3>3 DEF IsSolution, EntryOf
    <3> QED BY <3>1, <3>4, SameSolutions DEF Abstract!ANext, Abstract!Stop
  <2>3. CASE StoreExit
    <3>1. fn' = fn /\ (pc' = "done") = (pc = "done")
      BY <2>3 DEF StoreExit
    <3>2. \A b \in Block : result'[b].first = result[b].first
      BY <2>3 DEF StoreExit, IInv, TypeOK
    <3>3. EntryOf' = EntryOf
      BY <3>2 DEF EntryOf
    <3> QED BY <3>1, <3>3 DEF Abstract!avars
  <2>4. CASE TakeBlock \/ MergeSucc \/ VisitInst \/ KeepEntry \/ UNCHANGED vars
    <3>1. UNCHANGED <<fn, result>> /\ (pc' = "done") = (pc = "done")
      BY <2>4 DEF TakeBlock, MergeSucc, VisitInst, KeepEntry, vars
    <3> QED BY <3>1 DEF Abstract!avars, EntryOf
  <2> QED BY <2>1, <2>2, <2>3, <2>4 DEF Next
<1>3. Spec => []J
  BY Invariance, Solved, LeastSolution, PTL
<1> QED BY <1>1, <1>2, <1>3, PTL DEF Spec, ImplementsAbstract, Abstract!ASpec

-----------------------------------------------------------------------------
(***************************************************************************)
(* The answer is liveness by paths: the paths stay within every solution   *)
(* of the equations (by induction over their length), they are themselves  *)
(* a solution (a path can be extended by a block in front), and so they    *)
(* are the least one.                                                      *)
(***************************************************************************)

\* Dropping the first block of a path that has more leaves a path.
LEMMA PathTail ==
  ASSUME NEW f \in FunctionRec, NEW b, NEW v, NEW n \in Nat, n > 1,
         NEW p \in [1 .. n -> Block], LivePath(f, b, v, n, p)
  PROVE  /\ p[2] \in Block /\ p[2] \in f.succ[b] /\ ~ DefinedIn(f, b, v)
         /\ LiveAlong(f, p[2], v, n - 1)
<1> DEFINE q == [k \in 1 .. (n - 1) |-> p[k + 1]]
<1>1. q \in [1 .. (n - 1) -> Block]
  OBVIOUS
<1>2. 1 \in 1 .. (n - 1) /\ n - 1 \in 1 .. (n - 1) /\ 2 \in 1 .. n /\ (n - 1) + 1 = n
  OBVIOUS
<1>3. \A k \in 1 .. (n - 1) : /\ p[k + 1] \in f.succ[p[k]]
                              /\ ~ DefinedIn(f, p[k], v)
  BY DEF LivePath
<1>4. q[1] = p[2] /\ q[n - 1] = p[n]
  BY <1>2
<1>5. ASSUME NEW k \in 1 .. ((n - 1) - 1)
      PROVE  q[k + 1] \in f.succ[q[k]] /\ ~ DefinedIn(f, q[k], v)
  <2>1. k \in 1 .. (n - 1) /\ k + 1 \in 1 .. (n - 1)
    OBVIOUS
  <2>2. q[k] = p[k + 1] /\ q[k + 1] = p[(k + 1) + 1]
    BY <2>1
  <2> QED BY <2>1, <2>2, <1>3
<1>6. Exposed(f, q[n - 1], v)
  BY <1>4 DEF LivePath
<1>7. LivePath(f, p[2], v, n - 1, q)
  BY <1>4, <1>5, <1>6 DEF LivePath
<1>8. p[1] = b /\ p[1 + 1] \in f.succ[p[1]] /\ ~ DefinedIn(f, p[1], v)
  BY <1>2, <1>3 DEF LivePath
<1> QED BY <1>1, <1>2, <1>7, <1>8 DEF LiveAlong

\* Whatever is live along a path is in every solution.
LEMMA PathsBelowSolutions ==
  ASSUME NEW f \in FunctionRec, NEW in, IsSolution(f, in)
  PROVE  \A n \in Nat : \A b \in Block, v \in Inst :
           n > 0 /\ LiveAlong(f, b, v, n) => v \in in[b]
<1> DEFINE T == {n \in Nat : /\ n > 0
                             /\ \E b \in Block, v \in Inst :
                                  LiveAlong(f, b, v, n) /\ v \notin in[b]}
<1> SUFFICES ASSUME T # {} PROVE FALSE
  OBVIOUS
<1>1. PICK n \in T : \A m \in T : n <= m
  <2>1. T \subseteq Nat
    OBVIOUS
  <2> HIDE DEF T
  <2> QED BY <2>1, LeastNumber
<1>2. PICK b \in Block, v \in Inst : LiveAlong(f, b, v, n) /\ v \notin in[b]
  BY <1>1
<1>3. PICK p \in [1 .. n -> Block] : LivePath(f, b, v, n, p)
  BY <1>2 DEF LiveAlong
<1>4. n \in Nat /\ n > 0
  BY <1>1
<1>5. LiveBefore(f, b, 0, LiveOutOf(f, in, b)) \subseteq in[b]
  BY DEF IsSolution
<1>6. CASE n = 1
  <2>1. Exposed(f, b, v)
    BY <1>3, <1>6 DEF LivePath
  <2> QED BY <2>1, <1>2, <1>5 DEF Exposed, LiveBefore
<1>7. CASE n > 1
  <2>1. /\ p[2] \in Block /\ p[2] \in f.succ[b] /\ ~ DefinedIn(f, b, v)
        /\ LiveAlong(f, p[2], v, n - 1)
    BY <1>3, <1>4, <1>7, PathTail
  <2>2. n - 1 \in Nat /\ n - 1 > 0 /\ ~ (n <= n - 1)
    BY <1>4, <1>7
  <2>3. n - 1 \notin T
    BY <1>1, <2>2
  <2>4. v \in in[p[2]]
    BY <2>1, <2>2, <2>3
  <2>5. v \in LiveOutOf(f, in, b)
    BY <2>1, <2>4 DEF LiveOutOf
  <2> QED BY <2>1, <2>5, <1>2, <1>5 DEF DefinedIn, LiveBefore
<1> QED BY <1>4, <1>6, <1>7

\* The values live along paths of any length.
LiveByAnyPath(f, b) == {v \in Inst : \E n \in Nat : n > 0 /\ LiveAlong(f, b, v, n)}

\* They solve the equations.
LEMMA PathsAreSolution ==
  ASSUME NEW f \in FunctionRec
  PROVE  IsSolution(f, [b \in Block |-> LiveByAnyPath(f, b)])
<1> DEFINE in == [b \in Block |-> LiveByAnyPath(f, b)]
<1>1. in \in [Block -> SUBSET Inst]
  BY DEF LiveByAnyPath
<1>2. ASSUME NEW b \in Block, NEW v \in LiveBefore(f, b, 0, LiveOutOf(f, in, b))
      PROVE  v \in LiveByAnyPath(f, b)
  <2>1. v \in Inst
    BY DEF LiveBefore
  <2>2. CASE Exposed(f, b, v)
    <3> DEFINE q == [k \in 1 .. 1 |-> b]
    <3>1. q \in [1 .. 1 -> Block] /\ q[1] = b /\ 1 .. (1 - 1) = {}
      OBVIOUS
    <3>2. LivePath(f, b, v, 1, q)
      BY <3>1, <2>2 DEF LivePath
    <3>3. LiveAlong(f, b, v, 1)
      BY <3>1, <3>2 DEF LiveAlong
    <3> QED BY <2>1, <3>3 DEF LiveByAnyPath
  <2>3. CASE v \in LiveOutOf(f, in, b) /\ ~ DefinedIn(f, b, v)
    <3>1. PICK s \in f.succ[b] : v \in in[s]
      BY <2>3 DEF LiveOutOf
    <3>2. s \in Block
      BY DEF FunctionRec
    <3>3. PICK n \in Nat : n > 0 /\ LiveAlong(f, s, v, n)
      BY <3>1, <3>2 DEF LiveByAnyPath
    <3>4. PICK p \in [1 .. n -> Block] : LivePath(f, s, v, n, p)
      BY <3>3 DEF LiveAlong
    <3> DEFINE q == [k \in 1 .. (n + 1) |-> IF k = 1 THEN b ELSE p[k - 1]]
    <3>5. q \in [1 .. (n + 1) -> Block]
      BY <3>3
    <3>6. q[1] = b /\ \A k \in 2 .. (n + 1) : q[k] = p[k - 1]
      BY <3>3
    <3>7. q[n + 1] = p[n]
      BY <3>3, <3>6
    <3>8. ASSUME NEW k \in 1 .. ((n + 1) - 1)
          PROVE  q[k + 1] \in f.succ[q[k]] /\ ~ DefinedIn(f, q[k], v)
      <4>1. CASE k = 1
        <5>1. q[2] = p[1] /\ p[1] = s
          BY <3>3, <3>4, <3>6 DEF LivePath
        <5> QED BY <4>1, <5>1, <3>1, <3>6, <2>3
      <4>2. CASE k > 1
        <5>1. q[k] = p[k - 1] /\ q[k + 1] = p[(k - 1) + 1]
          BY <4>2, <3>3, <3>6
        <5>2. k - 1 \in 1 .. (n - 1)
          BY <4>2, <3>3
        <5> QED BY <5>1, <5>2, <3>4 DEF LivePath
      <4> QED BY <4>1, <4>2
    <3>9. LivePath(f, b, v, n + 1, q)
      BY <3>4, <3>6, <3>7, <3>8 DEF LivePath
    <3>10. LiveAlong(f, b, v, n + 1)
      BY <3>5, <3>9 DEF LiveAlong
    <3> QED BY <2>1, <3>3, <3>10 DEF LiveByAnyPath
  <2> QED BY <2>2, <2>3 DEF LiveBefore, Exposed, DefinedIn
<1> QED BY <1>1, <1>2 DEF IsSolution

-----------------------------------------------------------------------------
(***************************************************************************)
(* A shortest path visits no block twice.                                  *)
(***************************************************************************)

\* Cutting the blocks between two visits of the same one leaves a path.
LEMMA CutPath ==
  ASSUME NEW f, NEW b, NEW v, NEW n \in Nat,
         NEW p \in [1 .. n -> Block], LivePath(f, b, v, n, p),
         NEW i \in 1 .. n, NEW j \in 1 .. n, i < j, p[i] = p[j]
  PROVE  LiveAlong(f, b, v, n - (j - i))
<1> DEFINE m == n - (j - i)
           q == [k \in 1 .. m |-> IF k <= i THEN p[k] ELSE p[k + (j - i)]]
<1>1. m \in Nat /\ i <= m /\ m < n /\ 1 <= i
  OBVIOUS
<1>2. q \in [1 .. m -> Block]
  BY <1>1
<1>3. \A k \in 1 .. i : q[k] = p[k]
  BY <1>1
<1>4. \A k \in i .. m : q[k] = p[k + (j - i)]
  <2> SUFFICES ASSUME NEW k \in i .. m PROVE q[k] = p[k + (j - i)]
    OBVIOUS
  <2>1. k \in 1 .. m
    BY <1>1
  <2>2. CASE k = i
    <3>1. i + (j - i) = j
      OBVIOUS
    <3> QED BY <2>1, <2>2, <3>1
  <2>3. CASE k # i
    <3>1. ~ (k <= i)
      BY <2>3
    <3> QED BY <2>1, <3>1
  <2> QED BY <2>2, <2>3
<1> HIDE DEF q
<1>5. \A k \in 1 .. (n - 1) : /\ p[k + 1] \in f.succ[p[k]]
                              /\ ~ DefinedIn(f, p[k], v)
  BY DEF LivePath
<1>6. ASSUME NEW k \in 1 .. (m - 1)
      PROVE  q[k + 1] \in f.succ[q[k]] /\ ~ DefinedIn(f, q[k], v)
  <2>1. CASE k < i
    <3>1. q[k] = p[k] /\ q[k + 1] = p[k + 1] /\ k \in 1 .. (n - 1)
      BY <2>1, <1>1, <1>3
    <3> QED BY <3>1, <1>5
  <2>2. CASE k >= i
    <3> DEFINE l == k + (j - i)
    <3>1. k \in i .. m /\ k + 1 \in i .. m /\ (k + 1) + (j - i) = l + 1 /\ l \in 1 .. (n - 1)
      BY <2>2, <1>1
    <3>2. q[k] = p[l] /\ q[k + 1] = p[l + 1]
      BY <3>1, <1>4
    <3> QED BY <3>1, <3>2, <1>5
  <2> QED BY <2>1, <2>2, <1>1
<1>7. q[1] = b
  BY <1>1, <1>3 DEF LivePath
<1>8. q[m] = p[n]
  <2>1. m \in i .. m /\ m + (j - i) = n
    BY <1>1
  <2> QED BY <2>1, <1>4
<1>9. LivePath(f, b, v, m, q)
  BY <1>6, <1>7, <1>8 DEF LivePath
<1> QED BY <1>2, <1>9 DEF LiveAlong

\* So paths no longer than there are blocks are enough.
LEMMA ShortPaths ==
  ASSUME NEW f, NEW b
  PROVE  LiveByPaths(f, b) = LiveByAnyPath(f, b)
<1>1. Cardinality(Block) \in Nat
  BY FiniteBlocks, FS_CardinalityType
<1>2. LiveByPaths(f, b) \subseteq LiveByAnyPath(f, b)
  BY <1>1 DEF LiveByPaths, LiveByAnyPath
<1>3. ASSUME NEW v \in LiveByAnyPath(f, b)
      PROVE  v \in LiveByPaths(f, b)
  <2> DEFINE T == {n \in Nat : n > 0 /\ LiveAlong(f, b, v, n)}
  <2>1. v \in Inst /\ T \subseteq Nat /\ T # {}
    BY DEF LiveByAnyPath
  <2>2. PICK n \in T : \A m \in T : n <= m
    <3> HIDE DEF T
    <3> QED BY <2>1, LeastNumber
  <2>3. n \in Nat /\ n > 0
    BY <2>2
  <2>4. PICK p \in [1 .. n -> Block] : LivePath(f, b, v, n, p)
    BY <2>2 DEF LiveAlong
  <2>5. ASSUME NEW i \in 1 .. n, NEW j \in 1 .. n, i < j, p[i] = p[j]
        PROVE  FALSE
    <3>1. LiveAlong(f, b, v, n - (j - i))
      BY <2>3, <2>4, <2>5, CutPath
    <3>2. n - (j - i) \in Nat /\ n - (j - i) > 0 /\ ~ (n <= n - (j - i))
      BY <2>3, <2>5
    <3> QED BY <3>1, <3>2, <2>2
  <2>6. \A i, j \in 1 .. n : p[i] = p[j] => i = j
    BY <2>3, <2>5
  <2>7. p \in Injection(1 .. n, Block)
    BY <2>6 DEF Injection, IsInjective
  <2>8. Cardinality(1 .. n) <= Cardinality(Block)
    BY <2>7, FiniteBlocks, FS_Injection
  <2>9. Cardinality(1 .. n) = n
    BY <2>3, FS_Interval
  <2>10. n \in 1 .. Cardinality(Block)
    BY <1>1, <2>3, <2>8, <2>9
  <2> QED BY <2>1, <2>2, <2>10 DEF LiveByPaths
<1> QED BY <1>2, <1>3

-----------------------------------------------------------------------------
(***************************************************************************)
(* When compBackwardDataflow returns, the two sets of every block are the  *)
(* values live along paths from its start and from its end.                *)
(***************************************************************************)
THEOREM LivenessExact == Spec => []ExactByPaths
<1>1. IInv /\ SolvedWhenDone /\ BelowAllSolutions => ExactByPaths
  <2> SUFFICES ASSUME IInv, SolvedWhenDone, BelowAllSolutions, pc = "done"
               PROVE  \A b \in Block :
                        /\ result[b].first = LiveByPaths(fn, b)
                        /\ result[b].second = UNION {LiveByPaths(fn, s) : s \in fn.succ[b]}
    BY DEF ExactByPaths
  <2> DEFINE paths == [b \in Block |-> LiveByAnyPath(fn, b)]
  <2>1. TypeOK /\ fn \in FunctionRec /\ \A b \in Block : fn.succ[b] \subseteq Block
    BY FnType DEF IInv
  <2>2. IsSolution(fn, EntryOf)
    <3>1. EntryOf \in [Block -> SUBSET Inst]
      BY <2>1 DEF TypeOK, EntryOf
    <3>2. \A b \in Block : EntryOf[b] = LiveBefore(fn, b, 0, LiveOutOf(fn, EntryOf, b))
      <4>1. \A b \in Block : EntryOf[b] = result[b].first
        BY DEF EntryOf
      <4> QED BY <4>1 DEF SolvedWhenDone
    <3> QED BY <3>1, <3>2 DEF IsSolution
  <2>3. \A b \in Block : LiveByAnyPath(fn, b) \subseteq result[b].first
    <3> SUFFICES ASSUME NEW b \in Block, NEW v \in LiveByAnyPath(fn, b)
                 PROVE  v \in result[b].first
      OBVIOUS
    <3>1. PICK n \in Nat : v \in Inst /\ n > 0 /\ LiveAlong(fn, b, v, n)
      BY DEF LiveByAnyPath
    <3>2. v \in EntryOf[b]
      BY <3>1, <2>1, <2>2, PathsBelowSolutions
    <3> QED BY <3>2 DEF EntryOf
  <2>4. IsSolution(fn, paths)
    BY <2>1, PathsAreSolution
  <2>5. paths \in [Block -> SUBSET Inst]
    BY <2>4 DEF IsSolution
  <2>6. \A b \in Block : result[b].first \subseteq paths[b]
    <3> HIDE DEF paths
    <3> QED BY <2>4, <2>5 DEF BelowAllSolutions
  <2>7. \A b \in Block : result[b].first = LiveByPaths(fn, b)
    BY <2>3, <2>6, ShortPaths
  <2>8. \A b \in Block : result[b].second = LiveOutOf(fn, EntryOf, b)
    BY DEF SolvedWhenDone
  <2>9. \A s \in Block : EntryOf[s] = LiveByPaths(fn, s)
    BY <2>7 DEF EntryOf
  <2> QED BY <2>1, <2>7, <2>8, <2>9 DEF LiveOutOf
<1> QED BY <1>1, Invariance, Solved, LeastSolution, PTL

-----------------------------------------------------------------------------
(***************************************************************************)
(* The loop ends: every step goes down an order in which nothing can go    *)
(* down for ever.                                                          *)
(***************************************************************************)
LEMMA Smaller ==
  ASSUME NEW S, IsFiniteSet(S), NEW T, T \subseteq S, T # S
  PROVE  /\ Cardinality(T) \in Nat /\ Cardinality(S) \in Nat
         /\ Cardinality(T) < Cardinality(S)
BY FS_Subset, FS_CardinalityType

LEMMA MissingFinite == TypeOK => IsFiniteSet(Missing)
<1>1. IsFiniteSet(Block \X Inst)
  BY FiniteBlocks, FiniteInsts, FS_Product
<1> QED BY <1>1, FS_Subset DEF Missing

LEMMA RankType ==
  ASSUME IInv
  PROVE  /\ Cardinality(Missing) \in Nat /\ IsFiniteSet(Missing)
         /\ Cardinality(worklist) \in Nat /\ IsFiniteSet(worklist)
         /\ Cardinality(succs) \in Nat /\ IsFiniteSet(succs)
         /\ Len(fn.code[bb]) \in Nat /\ pos \in Nat
         /\ StepsLeft \in Nat
<1>1. TypeOK /\ bb \in Block /\ worklist \subseteq Block /\ succs \subseteq Block
  BY DEF IInv, TypeOK
<1>2. IsFiniteSet(Missing) /\ IsFiniteSet(worklist) /\ IsFiniteSet(succs)
  BY <1>1, MissingFinite, FiniteBlocks, FS_Subset
<1>3. /\ Cardinality(Missing) \in Nat /\ Cardinality(worklist) \in Nat
      /\ Cardinality(succs) \in Nat
  BY <1>2, FS_CardinalityType
<1>4. Len(fn.code[bb]) \in Nat /\ pos \in Nat
  BY <1>1, FnType DEF TypeOK
<1>5. pc \in {"while", "merge", "transfer", "done"}
  BY <1>1 DEF TypeOK
<1>6. StepsLeft \in Nat
  <2>1. CASE pc = "merge"
    <3>1. StepsLeft = Cardinality(succs) + Len(fn.code[bb]) + 3
      BY <2>1 DEF StepsLeft
    <3> QED BY <3>1, <1>3, <1>4
  <2>2. CASE pc = "transfer"
    BY <2>2, <1>4 DEF StepsLeft
  <2>3. CASE pc = "while"
    BY <2>3 DEF StepsLeft
  <2>4. CASE pc = "done"
    BY <2>4 DEF StepsLeft
  <2> QED BY <1>5, <2>1, <2>2, <2>3, <2>4
<1> QED BY <1>2, <1>3, <1>4, <1>6

RankIsNat == Cardinality(Missing) \in Nat /\ Cardinality(worklist) \in Nat /\ StepsLeft \in Nat

LEMMA RankNat == IInv => RankIsNat
BY RankType DEF RankIsNat

LEMMA RankNatNext == IInv' => RankIsNat'
BY RankNat, PTL

LEMMA RankStep == ASSUME IInv, IInv', Next PROVE Below(Rank', Rank)
<1> DEFINE M == Cardinality(Missing)
           W == Cardinality(worklist)
           S == StepsLeft
<1>1. Rank = <<M, W, S>> /\ Rank' = <<M', W', S'>>
  BY DEF Rank
<1>2. M \in Nat /\ M' \in Nat /\ W \in Nat /\ W' \in Nat /\ S \in Nat /\ S' \in Nat
  <2>1. M \in Nat /\ W \in Nat /\ S \in Nat
    BY RankType
  <2>2. M' \in Nat /\ W' \in Nat /\ S' \in Nat
    BY RankNatNext DEF RankIsNat
  <2> QED BY <2>1, <2>2
<1>3. /\ IsFiniteSet(Missing) /\ IsFiniteSet(worklist) /\ IsFiniteSet(succs)
      /\ Cardinality(succs) \in Nat /\ Len(fn.code[bb]) \in Nat /\ pos \in Nat
  BY RankType
<1>4. ASSUME \A b \in Block : result'[b].first = result[b].first
      PROVE  M' = M
  BY <1>4 DEF Missing
<1>5. TypeOK /\ bb \in Block
  BY DEF IInv, TypeOK
<1>6. CASE TakeBlock
  <2>1. PICK b \in worklist : worklist' = worklist \ {b}
    BY <1>6 DEF TakeBlock
  <2>2. W' < W
    BY <2>1, <1>3, Smaller
  <2>3. M' = M
    BY <1>6, <1>4 DEF TakeBlock
  <2> QED BY <1>1, <1>2, <2>2, <2>3 DEF Below
<1>7. CASE MergeSucc
  <2>1. PICK s \in succs : succs' = succs \ {s}
    BY <1>7 DEF MergeSucc
  <2>2. Cardinality(succs') \in Nat /\ Cardinality(succs') < Cardinality(succs)
    BY <2>1, <1>3, Smaller
  <2>3. M' = M /\ W' = W
    BY <1>7, <1>4 DEF MergeSucc
  <2>4. S = Cardinality(succs) + Len(fn.code[bb]) + 3
    BY <1>7 DEF MergeSucc, StepsLeft
  <2>5. S' = Cardinality(succs') + Len(fn.code[bb]) + 3
    BY <1>7 DEF MergeSucc, StepsLeft
  <2>6. S' < S
    BY <2>2, <2>4, <2>5, <1>3
  <2> QED BY <1>1, <1>2, <2>3, <2>6 DEF Below
<1>8. CASE StoreExit
  <2>1. \A b \in Block : result'[b].first = result[b].first
    BY <1>8, <1>5 DEF StoreExit, TypeOK
  <2>2. M' = M /\ W' = W
    BY <1>8, <2>1, <1>4 DEF StoreExit
  <2>3. S = Cardinality(succs) + Len(fn.code[bb]) + 3 /\ S' = Len(fn.code[bb]) + 2
    BY <1>8 DEF StoreExit, StepsLeft
  <2>4. S' < S
    BY <2>3, <1>3
  <2> QED BY <1>1, <1>2, <2>2, <2>4 DEF Below
<1>9. CASE VisitInst
  <2>1. M' = M /\ W' = W
    BY <1>9, <1>4 DEF VisitInst
  <2>2. S = pos + 2 /\ S' = (pos - 1) + 2
    BY <1>9 DEF VisitInst, StepsLeft
  <2>3. S' < S
    BY <2>2, <1>3
  <2> QED BY <1>1, <1>2, <2>1, <2>3 DEF Below
<1>10. CASE KeepEntry
  <2>1. M' = M /\ W' = W
    BY <1>10, <1>4 DEF KeepEntry
  <2>2. S = 2 /\ S' = 1
    BY <1>10 DEF KeepEntry, StepsLeft
  <2> QED BY <1>1, <1>2, <2>1, <2>2 DEF Below
<1>11. CASE UpdateEntry
  <2>1. /\ bbexitval # result[bb].first /\ bbexitval \subseteq Inst
        /\ result' = [result EXCEPT ![bb].first = bbexitval]
    BY <1>11, <1>5 DEF UpdateEntry, TypeOK
  <2>2. \A b \in Block : result[b].first \subseteq result'[b].first
    BY Growth, <1>11 DEF Next
  <2>3. result'[bb].first = bbexitval
    BY <2>1, <1>5 DEF TypeOK
  <2>4. PICK i \in Inst : i \in bbexitval /\ i \notin result[bb].first
    BY <2>1, <2>2, <2>3, <1>5
  <2>5. <<bb, i>> \in Missing /\ <<bb, i>> \notin Missing'
    BY <2>3, <2>4, <1>5 DEF Missing
  <2>6. Missing' \subseteq Missing
    BY <2>2 DEF Missing
  <2>7. M' < M
    BY <2>5, <2>6, <1>3, Smaller
  <2> QED BY <1>1, <1>2, <2>7 DEF Below
<1>12. CASE PrintResult
  <2>1. M' = M /\ W' = W
    BY <1>12, <1>4 DEF PrintResult
  <2>2. S = 1 /\ S' = 0
    BY <1>12 DEF PrintResult, StepsLeft
  <2> QED BY <1>1, <1>2, <2>1, <2>2 DEF Below
<1> QED BY <1>6, <1>7, <1>8, <1>9, <1>10, <1>11, <1>12 DEF Next

\* Of any ranks there is a lowest one: Below admits no infinite descent.
LEMMA LowestRank ==
  ASSUME NEW T, T \subseteq Nat \X Nat \X Nat, T # {}
  PROVE  \E r \in T : \A s \in T : ~ Below(s, r)
<1> DEFINE A == {r[1] : r \in T}
<1>1. A \subseteq Nat /\ A # {}
  OBVIOUS
<1>2. PICK a \in A : \A x \in A : a <= x
  BY <1>1, LeastNumber
<1> DEFINE B == {r[2] : r \in {q \in T : q[1] = a}}
<1>3. B \subseteq Nat /\ B # {}
  BY <1>2
<1>4. PICK b \in B : \A x \in B : b <= x
  BY <1>3, LeastNumber
<1> DEFINE C == {r[3] : r \in {q \in T : q[1] = a /\ q[2] = b}}
<1>5. C \subseteq Nat /\ C # {}
  BY <1>4
<1>6. PICK c \in C : \A x \in C : c <= x
  BY <1>5, LeastNumber
<1>7. PICK r \in T : r[1] = a /\ r[2] = b /\ r[3] = c
  BY <1>6
<1>8. ASSUME NEW s \in T, Below(s, r)
      PROVE  FALSE
  <2>1. s[1] \in Nat /\ s[2] \in Nat /\ s[3] \in Nat /\ a \in Nat /\ b \in Nat /\ c \in Nat
    BY <1>1, <1>3, <1>5
  <2>2. a <= s[1]
    BY <1>2
  <2>3. s[1] = a /\ (s[2] < b \/ (s[2] = b /\ s[3] < c))
    BY <1>7, <1>8, <2>1, <2>2 DEF Below
  <2>4. b <= s[2]
    BY <1>4, <2>3
  <2>5. s[2] = b /\ s[3] < c
    BY <2>1, <2>3, <2>4
  <2>6. c <= s[3]
    BY <1>6, <2>3, <2>5
  <2> QED BY <2>1, <2>5, <2>6
<1> QED BY <1>7, <1>8

(***************************************************************************)
(* Every step of compBackwardDataflow brings it nearer to its end, for     *)
(* every function and every order of the addresses: with LowestRank, it    *)
(* takes finitely many.                                                    *)
(***************************************************************************)
THEOREM NoStepInVain == Spec => Advances
<1>1. IInv /\ IInv' /\ [Next]_vars => [Below(Rank', Rank)]_vars
  BY RankStep
<1> QED BY <1>1, Invariance, PTL DEF Spec, Advances
=============================================================================
