--------------------------- MODULE VTTriageProofs ---------------------------
(***************************************************************************)
(* Theorems about VTTriage for every number of indicators, runners,        *)
(* enqueuers, rows and deaths.                                             *)
(*                                                                         *)
(* BaseInv holds of every run.  What the code promises about the budget    *)
(* and the rows needs that runs of enrich-vt do not overlap (OneRunner):   *)
(* remaining_budget and the listed rows are copies that nothing rechecks.  *)
(***************************************************************************)
EXTENDS VTTriage, SetLemmas, TLAPS

(* Runs of enrich-vt do not overlap, nor do the scans that fill the queue. *)
OneRunner == \A r, s \in Runners : r = s
OneEnqueuer == \A e, d \in Enqueuers : e = d

(* A runner works on an existing row, has budget for it, and has recorded  *)
(* the enrichment of a row it is about to complete.                        *)
BaseInv ==
  /\ TypeOK
  /\ \A q \in Rows : target[q] \in Indicators
  /\ \A r \in Runners : pc[r] \in Working <=> cur[r] # 0
  /\ \A r \in Runners : cur[r] # 0 => cur[r] \in Rows
  /\ \A r \in Runners : \A k \in 1 .. Len(todo[r]) : todo[r][k] \in Rows
  /\ \A r \in Runners : pc[r] \in {"lookup", "record", "complete"} => remaining[r] > 0
  /\ \A r \in Runners : pc[r] = "complete" => enriched[target[cur[r]]] # "none"
  /\ CompletedIsEnriched

-----------------------------------------------------------------------------
(* Rows and ids *)

(* The ids in use are 1 to the number of rows. *)
LEMMA RowIds ==
  ASSUME TypeOK
  PROVE  /\ IsFiniteSet(Rows)
         /\ Cardinality(Rows) \in Nat
         /\ Rows = 1 .. Cardinality(Rows)
<1>1. IsFiniteSet(Items)
  BY FS_Interval, BoundsAssumption DEF Items
<1>2. Rows \in SUBSET Items
  BY DEF Rows
<1>3. IsFiniteSet(Rows) /\ Cardinality(Rows) \in Nat /\ Cardinality(Rows) <= Cardinality(Items)
  BY <1>1, <1>2, FS_Subset, FS_CardinalityType
<1>4. Cardinality(Items) = MaxItems
  BY FS_Interval, BoundsAssumption DEF Items
<1>5. \A q \in Items : q \in Rows <=> q <= Cardinality(Rows)
  BY DEF TypeOK
<1>6. \A q \in Nat : q \in Rows <=> q \in 1 .. Cardinality(Rows)
  BY <1>2, <1>3, <1>4, <1>5, BoundsAssumption DEF Items
<1>7. Rows \subseteq Nat
  BY <1>2 DEF Items
<1>8. Rows \subseteq 1 .. Cardinality(Rows)
  BY <1>6, <1>7
<1>9. 1 .. Cardinality(Rows) \subseteq Rows
  BY <1>3, <1>6
<1>10. QED
  BY <1>3, <1>8, <1>9

LEMMA IntervalGrows ==
  ASSUME NEW a \in Nat, NEW b \in Nat
  PROVE  1 .. (a + b) = (1 .. a) \cup ((a + 1) .. (a + b))
OBVIOUS

(* The rows of a query, as run_once walks them. *)
LEMMA ListIsSeq ==
  ASSUME NEW S, NEW n \in Nat, NEW s \in [1 .. n -> S]
  PROVE  s \in Seq(S) /\ Len(s) = n
<1>1. s \in Seq(S)
  OBVIOUS
<1>2. QED
  BY <1>1

(* An enqueue appends its rows: it touches the status of no other row, and  *)
(* the ids stay without gaps.                                               *)
LEMMA EnqueueAppends ==
  ASSUME NEW e \in Enqueuers, TypeOK, CommitEnqueue(e)
  PROVE  /\ Rows \subseteq Rows'
         /\ \A q \in Rows : status'[q] = status[q] /\ target'[q] = target[q]
         /\ \A q \in Rows' \ Rows : /\ status'[q] = "queued"
                                    /\ target'[q] \in wanted[e]
                                    /\ found[e][target'[q]] = 0
         /\ \A q, x \in Rows' \ Rows : target'[q] = target'[x] => q = x
         /\ \A q \in Items : q \in Rows' <=> q <= Cardinality(Rows)'
<1> DEFINE new == {i \in wanted[e] : found[e][i] = 0}
           n == Cardinality(Rows)
           ids == NextIds(Cardinality(new))
<1>1. n \in Nat /\ Rows = 1 .. n
  BY RowIds
<1>2. ids \subseteq Items
  BY DEF CommitEnqueue
<1>3. PICK row \in [ids -> new] :
        /\ \A q, x \in ids : row[q] = row[x] => q = x
        /\ target' = [q \in Items |-> IF q \in ids THEN row[q] ELSE target[q]]
  BY DEF CommitEnqueue
<1>4. status' = [q \in Items |-> IF q \in ids THEN "queued" ELSE status[q]]
  BY DEF CommitEnqueue
<1>5. Rows' = Rows \cup ids
  BY <1>2, <1>4 DEF Rows
<1>6. Cardinality(new) \in Nat
  <2>1. new \subseteq Indicators
    BY DEF TypeOK
  <2>2. QED
    BY <2>1, FS_Subset, FS_CardinalityType, IndicatorsAssumption
<1>7. Rows' = 1 .. (n + Cardinality(new))
  <2>1. ids = (n + 1) .. (n + Cardinality(new))
    BY DEF NextIds
  <2>2. 1 .. (n + Cardinality(new)) = (1 .. n) \cup ids
    BY <1>1, <1>6, <2>1, IntervalGrows
  <2>3. QED
    BY <1>1, <1>5, <2>2
<1>8. Cardinality(Rows)' = n + Cardinality(new)
  BY <1>1, <1>6, <1>7, FS_Interval
<1>9. \A q \in Items : q \in Rows' <=> q <= Cardinality(Rows)'
  BY <1>1, <1>6, <1>7, <1>8, BoundsAssumption DEF Items
<1>10. ids \cap Rows = {}
  BY <1>1, <1>6 DEF NextIds
<1>11. QED
  BY <1>2, <1>3, <1>4, <1>5, <1>9, <1>10 DEF TypeOK, Rows

-----------------------------------------------------------------------------
(* BaseInv is inductive *)

LEMMA BaseInit == Init => BaseInv
<1> SUFFICES ASSUME Init PROVE BaseInv
  OBVIOUS
<1>1. Rows = {}
  BY DEF Init, Rows
<1>2. Cardinality(Rows) = 0
  BY <1>1, FS_EmptySet
<1>3. \A q \in Items : q \in Rows <=> q <= Cardinality(Rows)
  BY <1>1, <1>2, BoundsAssumption DEF Items
<1>4. QED
  BY <1>1, <1>3 DEF Init, BaseInv, TypeOK, CompletedIsEnriched, Working

LEMMA BaseEnqueue ==
  ASSUME NEW e \in Enqueuers, BaseInv, Enqueue(e)
  PROVE  BaseInv'
<1>1. ASSUME NEW W \in SUBSET Indicators, NEW p \in Priorities, FindActive(e, W, p)
      PROVE  BaseInv'
  BY <1>1 DEF BaseInv, TypeOK, FindActive, CompletedIsEnriched, Rows, queueVars, dayVars,
              runVars, Working
<1>2. CASE CommitEnqueue(e)
  <2>1. TypeOK'
    <3>1. /\ status' \in [Items -> {"none", "queued", "running", "completed", "failed"}]
          /\ target' \in [Items -> Indicators \cup {NoIndicator}]
          /\ priority' \in [Items -> Priorities \cup {0}]
      BY <1>2 DEF BaseInv, TypeOK, CommitEnqueue
    <3>2. \A q \in Items : q \in Rows' <=> q <= Cardinality(Rows)'
      BY <1>2, EnqueueAppends DEF BaseInv
    <3>3. QED
      BY <1>2, <3>1, <3>2 DEF BaseInv, TypeOK, CommitEnqueue, dayVars, runVars
  <2>2. \A q \in Rows' : target'[q] \in Indicators
    <3>1. wanted[e] \subseteq Indicators
      BY DEF BaseInv, TypeOK
    <3>2. QED
      BY <1>2, <3>1, EnqueueAppends DEF BaseInv
  <2>3. UNCHANGED <<dayVars, runVars>>
    BY <1>2 DEF CommitEnqueue
  <2>4. CompletedIsEnriched'
    BY <1>2, <2>3, EnqueueAppends DEF BaseInv, CompletedIsEnriched, dayVars
  <2>5. /\ \A r \in Runners : pc'[r] \in Working <=> cur'[r] # 0
        /\ \A r \in Runners : pc'[r] \in {"lookup", "record", "complete"} => remaining'[r] > 0
    BY <2>3 DEF BaseInv, runVars
  <2>6. /\ \A r \in Runners : cur'[r] # 0 => cur'[r] \in Rows'
        /\ \A r \in Runners : \A k \in 1 .. Len(todo'[r]) : todo'[r][k] \in Rows'
    BY <1>2, <2>3, EnqueueAppends DEF BaseInv, runVars
  <2>7. \A r \in Runners : pc'[r] = "complete" => enriched'[target'[cur'[r]]] # "none"
    BY <1>2, <2>3, EnqueueAppends DEF BaseInv, runVars, dayVars, Working
  <2>8. QED
    BY <2>1, <2>2, <2>4, <2>5, <2>6, <2>7 DEF BaseInv
<1>3. QED
  BY <1>1, <1>2 DEF Enqueue

(* A run inserts and deletes no rows. *)
LEMMA RunKeepsRows ==
  ASSUME NEW r \in Runners, BaseInv, Run(r)
  PROVE  Rows' = Rows
<1>1. status' = status \/ \E q \in Items, s \in {"running", "completed", "failed"} :
                            q \in Rows /\ status' = [status EXCEPT ![q] = s]
  BY DEF BaseInv, TypeOK, Working, Run, StartRun, ListQueue, TakeItem, MayTake, Lookup,
         LookupFails, Record, Complete, StepFails, MarkFailed, Failed, EndRun, Rows, queueVars
<1>2. QED
  BY <1>1 DEF BaseInv, TypeOK, Rows

LEMMA BaseRun ==
  ASSUME NEW r \in Runners, BaseInv, Run(r)
  PROVE  BaseInv'
<1>0. Rows' = Rows
  BY RunKeepsRows
<1> USE <1>0 DEF BaseInv, TypeOK, CompletedIsEnriched, Working, queueVars, dayVars, enqVars
<1>1. CASE StartRun(r)
  BY <1>1, BoundsAssumption DEF StartRun, UsedToday
<1>2. CASE ListQueue(r)
  <2> DEFINE Q == {q \in Rows : status[q] \in ListedStatus}
  <2> HIDE DEF Q
  <2>0. Q \subseteq Rows
    BY DEF Q
  <2>1. Cardinality(Q) \in Nat
    BY <2>0, RowIds, FS_Subset, FS_CardinalityType
  <2>2. PICK s \in [1 .. Cardinality(Q) -> Q] : todo' = [todo EXCEPT ![r] = s]
    BY <1>2 DEF ListQueue, Q
  <2>3. Rows \subseteq Items
    BY DEF Rows
  <2>4. s \in Seq(Items) /\ \A k \in 1 .. Len(s) : s[k] \in Rows
    <3>1. s \in [1 .. Cardinality(Q) -> Items] /\ \A k \in 1 .. Cardinality(Q) : s[k] \in Rows
      BY <2>0, <2>2, <2>3
    <3>2. s \in Seq(Items) /\ Len(s) = Cardinality(Q)
      BY <2>1, <3>1, ListIsSeq
    <3>3. QED
      BY <3>1, <3>2
  <2>5. QED
    BY <1>2, <2>2, <2>4, ZenonT(30) DEF ListQueue
<1>3. CASE TakeItem(r)
  <2>1. /\ Head(todo[r]) \in Rows
        /\ Tail(todo[r]) \in Seq(Items)
        /\ \A k \in 1 .. Len(Tail(todo[r])) : Tail(todo[r])[k] \in Rows
    BY <1>3 DEF TakeItem, MayTake
  <2>2. Rows \subseteq Items /\ 0 \notin Items
    BY DEF Rows, Items
  <2>3. QED
    BY <1>3, <2>1, <2>2 DEF TakeItem, MayTake
<1>4. CASE Lookup(r)
  BY <1>4 DEF Lookup, AfterLookup
<1>5. CASE LookupFails(r)
  BY <1>5 DEF LookupFails
<1>6. CASE Record(r)
  BY <1>6 DEF Record
<1>7. CASE Complete(r)
  BY <1>7 DEF Complete, Spent
<1>8. CASE StepFails(r)
  BY <1>8 DEF StepFails
<1>9. CASE MarkFailed(r)
  BY <1>9 DEF MarkFailed, Failed
<1>10. CASE EndRun(r)
  BY <1>10 DEF EndRun, Forget
<1>11. QED
  BY <1>1, <1>2, <1>3, <1>4, <1>5, <1>6, <1>7, <1>8, <1>9, <1>10 DEF Run

LEMMA BaseStep == BaseInv /\ [Next]_vars => BaseInv'
<1> SUFFICES ASSUME BaseInv, [Next]_vars PROVE BaseInv'
  OBVIOUS
<1>1. ASSUME NEW e \in Enqueuers, Enqueue(e) PROVE BaseInv'
  BY <1>1, BaseEnqueue
<1>2. ASSUME NEW r \in Runners, Run(r) PROVE BaseInv'
  BY <1>2, BaseRun
<1>3. ASSUME NEW r \in Runners, Die(r) PROVE BaseInv'
  BY <1>3 DEF Die, Forget, BaseInv, TypeOK, CompletedIsEnriched, Rows, Working, queueVars,
              dayVars, enqVars
<1>4. CASE NewDay
  BY <1>4 DEF NewDay, BaseInv, TypeOK, CompletedIsEnriched, Rows, Working, queueVars, enqVars
<1>5. CASE UNCHANGED vars
  BY <1>5 DEF BaseInv, TypeOK, CompletedIsEnriched, Rows, vars, queueVars, dayVars, runVars,
              enqVars
<1>6. QED
  BY <1>1, <1>2, <1>3, <1>4, <1>5 DEF Next

LEMMA BaseHolds == Spec => []BaseInv
  BY BaseInit, BaseStep, PTL DEF Spec

-----------------------------------------------------------------------------
(* For any number of runs *)

(* Every variable keeps its type and the ids stay without gaps, for every   *)
(* number of overlapping runs and scans (VTTriage.TypeOK).                  *)
THEOREM TypeCorrect == Spec => []TypeOK
  BY BaseHolds, PTL DEF BaseInv

(* A completed row has its enrichment, also when runs overlap, die and fail *)
(* at any step: run_once records before it completes.                       *)
THEOREM ResponsesAreKept == Spec => []CompletedIsEnriched
  BY BaseHolds, PTL DEF BaseInv

(* Until a runner dies, a running row is in some runner's hand: whatever    *)
(* raises inside the try block, the row gets an outcome or is worked on.    *)
THEOREM NothingIsStranded == Spec => []NoneStranded
<1>1. Init => NoneStranded
  BY DEF Init, NoneStranded, RunningIsInHand, Rows
<1>2. NoneStranded /\ BaseInv /\ BaseInv' /\ [Next]_vars => NoneStranded'
  <2> SUFFICES ASSUME NoneStranded, BaseInv, BaseInv', [Next]_vars, deaths' = 0
               PROVE  RunningIsInHand'
    BY DEF NoneStranded
  <2>b. deaths = 0 /\ ~\E r \in Runners : Die(r)
    <3>1. deaths \in Nat
      BY DEF BaseInv, TypeOK
    <3>2. deaths' = deaths \/ deaths' = deaths + 1
      BY DEF Next, Enqueue, FindActive, CommitEnqueue, Run, StartRun, ListQueue, TakeItem, Lookup,
             LookupFails, Record, Complete, StepFails, MarkFailed, EndRun, Die, NewDay, vars
    <3>3. deaths = 0
      BY <3>1, <3>2
    <3>4. QED
      BY <3>3 DEF Die
  <2>c. RunningIsInHand
    BY <2>b DEF NoneStranded
  <2>a. /\ status \in [Items -> {"none", "queued", "running", "completed", "failed"}]
        /\ cur \in [Runners -> Items \cup {0}]
        /\ \A r \in Runners : pc[r] \in Working <=> cur[r] # 0
        /\ \A r \in Runners : todo[r] # <<>> => Head(todo[r]) \in Items
    BY DEF BaseInv, TypeOK
  <2> USE <2>a, <2>c DEF RunningIsInHand, Rows, Working
  <2>1. ASSUME NEW e \in Enqueuers, Enqueue(e) PROVE RunningIsInHand'
    <3>1. CASE CommitEnqueue(e)
      <4>1. cur' = cur /\ \A q \in Items : status'[q] = "running" => status[q] = "running"
        BY <3>1 DEF CommitEnqueue, runVars
      <4>2. QED
        BY <4>1
    <3>2. CASE UNCHANGED <<queueVars, runVars>>
      BY <3>2 DEF queueVars, runVars
    <3>3. QED
      BY <2>1, <3>1, <3>2 DEF Enqueue, FindActive
  <2>2. ASSUME NEW r \in Runners, Run(r) PROVE RunningIsInHand'
    <3>1. CASE TakeItem(r)
      <4>1. cur[r] = 0
        BY <3>1 DEF TakeItem
      <4>2. PICK x \in Items :
              status' = [status EXCEPT ![x] = "running"] /\ cur' = [cur EXCEPT ![r] = x]
        BY <3>1 DEF TakeItem, MayTake
      <4>3. QED
        BY <4>1, <4>2 DEF Items
    <3>2. CASE Complete(r)
      BY <3>2 DEF Complete
    <3>3. CASE MarkFailed(r)
      BY <3>3 DEF MarkFailed, Failed
    <3>4. CASE EndRun(r)
      BY <3>4 DEF EndRun, Forget, queueVars
    <3>5. CASE UNCHANGED <<status, cur>>
      BY <3>5
    <3>6. QED
      BY <2>2, <3>1, <3>2, <3>3, <3>4, <3>5
      DEF Run, StartRun, ListQueue, Lookup, LookupFails, Record, StepFails, queueVars
  <2>3. CASE UNCHANGED <<status, cur>>
    BY <2>3
  <2>4. QED
    BY <2>b, <2>1, <2>2, <2>3 DEF Next, NewDay, vars, queueVars, runVars
<1>3. QED
  BY <1>1, <1>2, BaseHolds, PTL DEF Spec

-----------------------------------------------------------------------------
(* The daily budget *)

(* What a run of today may still spend fits into the day's budget; between  *)
(* Record and Complete the lookup is counted on both sides.                 *)
BudgetInv ==
  /\ RecordedWithinBudget
  /\ \A r \in Runners : fresh[r] =>
       recordedToday + remaining[r] <= Budget + (IF pc[r] = "complete" THEN 1 ELSE 0)

LEMMA BudgetStep ==
  ASSUME OneRunner, "complete" \notin MayFail, BaseInv, BudgetInv, [Next]_vars
  PROVE  BudgetInv'
<1> USE BoundsAssumption DEF OneRunner, BudgetInv, RecordedWithinBudget, BaseInv, TypeOK, Working
<1>1. ASSUME NEW r \in Runners, Run(r) PROVE BudgetInv'
  <2>1. CASE StartRun(r)
    BY <2>1 DEF StartRun, UsedToday, dayVars
  <2>2. CASE ListQueue(r)
    BY <2>2 DEF ListQueue, dayVars
  <2>3. CASE TakeItem(r)
    BY <2>3 DEF TakeItem, dayVars
  <2>4. CASE Lookup(r)
    BY <2>4 DEF Lookup, AfterLookup, dayVars
  <2>5. CASE LookupFails(r)
    BY <2>5 DEF LookupFails, dayVars
  <2>6. CASE Record(r)
    BY <2>6 DEF Record
  <2>7. CASE Complete(r)
    BY <2>7 DEF Complete, Spent, dayVars
  <2>8. CASE StepFails(r)
    BY <2>8 DEF StepFails, dayVars
  <2>9. CASE MarkFailed(r)
    BY <2>9 DEF MarkFailed, dayVars
  <2>10. CASE EndRun(r)
    BY <2>10 DEF EndRun, Forget, dayVars
  <2>11. QED
    BY <1>1, <2>1, <2>2, <2>3, <2>4, <2>5, <2>6, <2>7, <2>8, <2>9, <2>10 DEF Run
<1>2. ASSUME NEW r \in Runners, Die(r) PROVE BudgetInv'
  BY <1>2 DEF Die, Forget, dayVars
<1>3. CASE NewDay
  BY <1>3 DEF NewDay
<1>4. CASE UNCHANGED <<dayVars, runVars>>
  BY <1>4 DEF dayVars, runVars
<1>5. QED
  BY <1>1, <1>2, <1>3, <1>4 DEF Next, Enqueue, FindActive, CommitEnqueue, vars

LEMMA BudgetHolds ==
  ASSUME OneRunner, "complete" \notin MayFail
  PROVE  Spec => []BudgetInv
<1>1. Init => BudgetInv
  BY BoundsAssumption DEF Init, BudgetInv, RecordedWithinBudget
<1>2. BudgetInv /\ BaseInv /\ [Next]_vars => BudgetInv'
  BY BudgetStep
<1>3. QED
  BY <1>1, <1>2, BaseHolds, PTL DEF Spec

(* For one run at a time the enrichments of a day stay within the budget,   *)
(* if no row fails after its enrichment was recorded (VTTriageService:      *)
(* count_indicator_enrichments_today and remaining_budget).                 *)
THEOREM BudgetIsKept ==
  ASSUME OneRunner, "complete" \notin MayFail
  PROVE  Spec => []RecordedWithinBudget
<1>1. BudgetInv => RecordedWithinBudget
  BY DEF BudgetInv
<1>2. Spec => []BudgetInv
  BY BudgetHolds
<1>3. QED
  BY <1>1, <1>2, PTL

-----------------------------------------------------------------------------
(* The budget of a day, for runs that overlap *)

(* What a run of today may still spend: Complete takes off what Record has   *)
(* spent.                                                                    *)
Spendable ==
  [r \in Runners |-> IF fresh[r] THEN remaining[r] - (IF pc[r] = "complete" THEN 1 ELSE 0) ELSE 0]

Most == Cardinality(Runners) * Budget

RecordedWithinBudgets == recordedToday <= Cardinality(Runners) * Budget

(* Each run has at most one budget, and together with what is recorded they  *)
(* have no more than one for each runner.                                    *)
AllowanceInv ==
  /\ \A r \in Runners : remaining[r] <= Budget
  /\ \E n \in Nat : IsSum(n, Spendable, Runners) /\ recordedToday + n <= Most

LEMMA SpendableType ==
  ASSUME BaseInv
  PROVE  \A r \in Runners : Spendable[r] \in Nat /\ Spendable[r] <= remaining[r]
BY DEF BaseInv, TypeOK, Spendable

LEMMA SpendableTypeNext == ASSUME BaseInv' PROVE \A r \in Runners : Spendable'[r] \in Nat
BY DEF BaseInv, TypeOK, Spendable

(* A step that spends no more than it records.                               *)
LEMMA AllowanceKept ==
  ASSUME IsFiniteSet(Runners), BaseInv, BaseInv', AllowanceInv, NEW r \in Runners,
         \A s \in Runners \ {r} : Spendable'[s] = Spendable[s] /\ remaining'[s] = remaining[s],
         remaining'[r] <= Budget, recordedToday' + Spendable'[r] <= recordedToday + Spendable[r]
  PROVE  AllowanceInv'
<1> DEFINE f == Spendable
           h == Spendable'
<1>1. PICK n \in Nat : IsSum(n, f, Runners) /\ recordedToday + n <= Most
  BY DEF AllowanceInv
<1>2. \A s \in Runners : f[s] \in Nat /\ h[s] \in Nat
  BY SpendableType, SpendableTypeNext
<1>3. \A s \in Runners \ {r} : h[s] = f[s]
  OBVIOUS
<1>4. recordedToday' + h[r] <= recordedToday + f[r]
  OBVIOUS
<1>5. recordedToday \in Nat /\ recordedToday' \in Nat
  BY DEF BaseInv, TypeOK
<1> HIDE DEF f, h
<1>6. PICK m \in Nat : IsSum(m, h, Runners)
  BY <1>2, SumExists
<1>7. recordedToday' + m <= recordedToday + n
  <2>1. \A s \in Runners : f[s] \in Nat
    BY <1>2
  <2>2. \A s \in Runners : h[s] \in Nat
    BY <1>2
  <2>3. IsSum(n, f, Runners)
    BY <1>1
  <2>4. QED
    BY <1>3, <1>4, <1>5, <1>6, <2>1, <2>2, <2>3, SumShrinks
<1>8. Most \in Nat
  <2>1. Cardinality(Runners) \in Nat
    BY FS_CardinalityType
  <2>2. QED
    BY <2>1, BoundsAssumption DEF Most
<1>9. recordedToday' + m <= Most
  BY <1>1, <1>5, <1>6, <1>7, <1>8
<1>10. \A s \in Runners : remaining'[s] <= Budget
  BY DEF AllowanceInv
<1>11. Most' = Most
  BY DEF Most
<1>12. QED
  BY <1>6, <1>9, <1>10, <1>11 DEF AllowanceInv, h

(* A run that starts may spend what the day has left; the other runs have a  *)
(* budget each.                                                              *)
LEMMA AllowanceStart ==
  ASSUME IsFiniteSet(Runners), BaseInv, BaseInv', AllowanceInv, NEW r \in Runners, StartRun(r)
  PROVE  AllowanceInv'
<1> DEFINE f == Spendable
           h == Spendable'
<1>1. /\ recordedToday' = recordedToday /\ recordedToday \in Nat /\ Budget \in Nat
      /\ remaining' = [remaining EXCEPT ![r] = IF recordedToday < Budget THEN Budget - recordedToday ELSE 0]
      /\ fresh' = [fresh EXCEPT ![r] = TRUE] /\ pc' = [pc EXCEPT ![r] = "list"]
  BY BoundsAssumption DEF StartRun, UsedToday, dayVars, BaseInv, TypeOK
<1>2. \A s \in Runners \ {r} : remaining'[s] = remaining[s] /\ fresh'[s] = fresh[s] /\ pc'[s] = pc[s]
  BY <1>1 DEF BaseInv, TypeOK
<1>3. remaining'[r] = (IF recordedToday < Budget THEN Budget - recordedToday ELSE 0) /\ fresh'[r] /\ pc'[r] = "list"
  BY <1>1 DEF BaseInv, TypeOK
<1>4. \A s \in Runners \ {r} : h[s] = f[s]
  BY <1>2 DEF Spendable
<1>5. h[r] = IF recordedToday < Budget THEN Budget - recordedToday ELSE 0
  BY <1>1, <1>3 DEF Spendable
<1>6. CASE recordedToday >= Budget
  <2>1. h[r] = 0 /\ f[r] \in Nat /\ remaining'[r] = 0
    BY <1>1, <1>3, <1>5, <1>6, SpendableType
  <2>2. recordedToday' + h[r] <= recordedToday + f[r] /\ remaining'[r] <= Budget
    BY <1>1, <2>1
  <2>3. QED
    BY <1>2, <1>4, <2>2, AllowanceKept
<1>7. CASE recordedToday < Budget
  <2>1. PICK n \in Nat : IsSum(n, f, Runners)
    BY DEF AllowanceInv
  <2>2. \A s \in Runners : f[s] \in Nat /\ h[s] \in Nat
    BY SpendableType, SpendableTypeNext
  <2>3. \A s \in Runners \ {r} : f[s] <= Budget
    <3>1. \A s \in Runners : f[s] \in Nat /\ f[s] <= remaining[s] /\ remaining[s] \in Nat /\ remaining[s] <= Budget
      BY SpendableType DEF AllowanceInv, BaseInv, TypeOK
    <3> HIDE DEF f
    <3>2. QED
      BY <1>1, <3>1
  <2> HIDE DEF f, h
  <2>5. PICK m \in Nat : IsSum(m, h, Runners)
    BY <2>2, SumExists
  <2>4. PICK k \in Nat : IsSum(k, f, Runners \ {r}) /\ n = f[r] + k /\ m = h[r] + k
    <3>1. \A s \in Runners : f[s] \in Nat
      BY <2>2
    <3>2. \A s \in Runners : h[s] \in Nat
      BY <2>2
    <3>3. QED
      BY <1>4, <2>1, <2>5, <3>1, <3>2, SumMoves
  <2> DEFINE N == Cardinality(Runners)
  <2>7. IsFiniteSet(Runners \ {r}) /\ Cardinality(Runners \ {r}) = N - 1 /\ N \in Nat
    BY FS_RemoveElement, FS_CardinalityType
  <2>8. k <= (N - 1) * Budget
    <3>1. \A s \in Runners \ {r} : f[s] \in Nat /\ f[s] <= Budget
      BY <2>2, <2>3
    <3>2. k <= Cardinality(Runners \ {r}) * Budget
      BY <1>1, <2>4, <2>7, <3>1, SumAtMost
    <3>3. QED
      BY <2>7, <3>2
  <2>9. recordedToday + m = Budget + k
    BY <1>1, <1>5, <1>7, <2>4
  <2>10. Budget + (N - 1) * Budget = Most
    <3>1. N * Budget = Budget + (N - 1) * Budget
      <4> HIDE DEF N
      <4>1. QED
        BY <1>1, <2>7
    <3>2. QED
      BY <3>1 DEF Most
  <2>11. recordedToday + m <= Most
    <3> DEFINE z == (N - 1) * Budget
    <3>1. z \in Int
      BY <1>1, <2>7
    <3>2. k <= z /\ Budget + z = Most
      BY <2>8, <2>10
    <3> HIDE DEF z, N
    <3>3. QED
      BY <1>1, <2>4, <2>5, <2>9, <3>1, <3>2
  <2>12. \A s \in Runners : remaining'[s] <= Budget
    BY <1>1, <1>2, <1>3 DEF AllowanceInv
  <2>13. Most' = Most
    BY DEF Most
  <2>14. QED
    BY <1>1, <2>5, <2>11, <2>12, <2>13 DEF AllowanceInv, h
<1>8. QED
  BY <1>1, <1>6, <1>7

LEMMA AllowanceNewDay ==
  ASSUME IsFiniteSet(Runners), BaseInv, BaseInv', AllowanceInv, NewDay
  PROVE  AllowanceInv'
<1>1. recordedToday' = 0 /\ remaining' = remaining /\ \A r \in Runners : Spendable'[r] = 0
  BY DEF NewDay, Spendable
<1> DEFINE h == Spendable'
<1>2. \A r \in Runners : h[r] = 0 /\ h[r] <= 0 /\ h[r] \in Nat
  BY <1>1
<1> HIDE DEF h
<1>3. PICK n \in Nat : IsSum(n, h, Runners)
  BY <1>2, SumExists
<1>4. n <= Cardinality(Runners) * 0
  BY <1>2, <1>3, SumAtMost
<1>5. Most \in Nat /\ Cardinality(Runners) * 0 = 0
  <2>1. Cardinality(Runners) \in Nat
    BY FS_CardinalityType
  <2>2. QED
    BY <2>1, BoundsAssumption DEF Most
<1> DEFINE z == Cardinality(Runners) * 0
<1>6. z = 0 /\ n <= z
  BY <1>4, <1>5
<1> HIDE DEF z
<1>7. 0 + n <= Most
  BY <1>5, <1>6
<1>8. Most' = Most
  BY DEF Most
<1>9. recordedToday' + n <= Most' /\ IsSum(n, h, Runners)
  BY <1>1, <1>3, <1>7, <1>8
<1>10. QED
  BY <1>1, <1>9 DEF AllowanceInv, h

LEMMA AllowanceStep ==
  ASSUME IsFiniteSet(Runners), "complete" \notin MayFail, BaseInv, BaseInv', AllowanceInv, [Next]_vars
  PROVE  AllowanceInv'
<1>1. ASSUME UNCHANGED <<dayVars, runVars>> PROVE AllowanceInv'
  <2>1. UNCHANGED <<recordedToday, remaining, Spendable>>
    BY <1>1 DEF dayVars, runVars, Spendable
  <2>2. QED
    BY <2>1 DEF AllowanceInv, Most
<1>2. ASSUME NEW r \in Runners, Run(r) \/ Die(r), ~StartRun(r) PROVE AllowanceInv'
  <2>1. /\ \A s \in Runners \ {r} : remaining'[s] = remaining[s] /\ fresh'[s] = fresh[s] /\ pc'[s] = pc[s]
        /\ remaining'[r] <= Budget
        /\ recordedToday' + Spendable'[r] <= recordedToday + Spendable[r]
    <3> USE BoundsAssumption DEF BaseInv, TypeOK, Working, Spendable, AllowanceInv
    <3>1. CASE ListQueue(r)
      BY <3>1 DEF ListQueue, dayVars
    <3>2. CASE TakeItem(r)
      BY <3>2 DEF TakeItem, dayVars
    <3>3. CASE Lookup(r)
      BY <3>3 DEF Lookup, AfterLookup, dayVars
    <3>4. CASE LookupFails(r)
      BY <3>4 DEF LookupFails, dayVars
    <3>5. CASE Record(r)
      BY <3>5 DEF Record
    <3>6. CASE Complete(r)
      BY <3>6 DEF Complete, Spent, dayVars
    <3>7. CASE StepFails(r)
      BY <3>7 DEF StepFails, dayVars
    <3>8. CASE MarkFailed(r)
      BY <3>8 DEF MarkFailed, dayVars
    <3>9. CASE EndRun(r)
      BY <3>9 DEF EndRun, Forget, dayVars
    <3>10. CASE Die(r)
      BY <3>10 DEF Die, Forget, dayVars
    <3>11. QED
      BY <1>2, <3>1, <3>2, <3>3, <3>4, <3>5, <3>6, <3>7, <3>8, <3>9, <3>10 DEF Run
  <2>2. \A s \in Runners \ {r} : Spendable'[s] = Spendable[s]
    BY <2>1 DEF Spendable
  <2>3. QED
    BY <2>1, <2>2, AllowanceKept
<1>3. QED
  BY <1>1, <1>2, AllowanceStart, AllowanceNewDay DEF Next, Enqueue, FindActive, CommitEnqueue, Run, vars

(* If runs of enrich-vt overlap, each may spend the budget that the day had  *)
(* left when it started, but n runners never spend more than n budgets on a  *)
(* day, however often they are started again, die and run past midnight.     *)
THEOREM BudgetsAreKept ==
  ASSUME IsFiniteSet(Runners), "complete" \notin MayFail
  PROVE  Spec => []RecordedWithinBudgets
<1>1. Init => AllowanceInv
  <2> SUFFICES ASSUME Init PROVE AllowanceInv
    OBVIOUS
  <2>1. recordedToday = 0 /\ \A r \in Runners : remaining[r] = 0 /\ Spendable[r] \in Nat /\ Spendable[r] <= 0
    BY DEF Init, Spendable
  <2> DEFINE z == Cardinality(Runners) * 0
  <2>3. PICK n \in Nat : IsSum(n, Spendable, Runners)
    BY <2>1, SumExists
  <2>4. n <= z
    BY <2>1, <2>3, SumAtMost
  <2>5. z = 0 /\ Most \in Nat
    <3>1. Cardinality(Runners) \in Nat
      BY FS_CardinalityType
    <3>2. QED
      BY <3>1, BoundsAssumption DEF Most
  <2> HIDE DEF z
  <2>6. recordedToday + n <= Most
    BY <2>1, <2>3, <2>4, <2>5
  <2>7. QED
    BY <2>1, <2>3, <2>6, BoundsAssumption DEF AllowanceInv
<1>2. AllowanceInv /\ BaseInv /\ BaseInv' /\ [Next]_vars => AllowanceInv'
  BY AllowanceStep
<1>3. AllowanceInv /\ BaseInv => RecordedWithinBudgets
  <2> SUFFICES ASSUME AllowanceInv, BaseInv PROVE recordedToday <= Most
    BY DEF RecordedWithinBudgets, Most
  <2>1. PICK n \in Nat : recordedToday + n <= Most
    BY DEF AllowanceInv
  <2>2. Most \in Nat /\ recordedToday \in Nat
    <3>1. Cardinality(Runners) \in Nat
      BY FS_CardinalityType
    <3>2. QED
      BY <3>1, BoundsAssumption DEF Most, BaseInv, TypeOK
  <2>3. QED
    BY <2>1, <2>2
<1>4. QED
  BY <1>1, <1>2, <1>3, BaseHolds, PTL DEF Spec

-----------------------------------------------------------------------------
(* The rows, for one run at a time *)

(* The rows a run has listed are still queued, and its row is running.      *)
QueueInv ==
  /\ \A r \in Runners : \A k \in 1 .. Len(todo[r]) : status[todo[r][k]] = "queued"
  /\ \A r \in Runners : \A j, k \in 1 .. Len(todo[r]) : todo[r][j] = todo[r][k] => j = k
  /\ \A r \in Runners : cur[r] # 0 => status[cur[r]] = "running"

(* One step of a run moves at most one row, and forward. *)
Forward ==
  \A q \in Items : status'[q] # status[q] =>
    \/ status[q] = "none" /\ status'[q] = "queued"
    \/ status[q] = "queued" /\ status'[q] = "running"
    \/ status[q] = "running" /\ status'[q] \in {"completed", "failed"}

LEMMA QueueStep ==
  ASSUME OneRunner, BaseInv, QueueInv, [Next]_vars
  PROVE  QueueInv' /\ Forward
<1>0. priority \in [Items -> Nat]
  <2>1. Priorities \cup {0} \subseteq Nat
    BY PrioritiesAssumption
  <2>2. priority \in [Items -> Priorities \cup {0}]
    BY DEF BaseInv, TypeOK
  <2>3. QED
    BY <2>1, <2>2
<1>a. /\ status \in [Items -> {"none", "queued", "running", "completed", "failed"}]
      /\ priority \in [Items -> Nat]
      /\ cur \in [Runners -> Items \cup {0}] /\ 0 \notin Items
      /\ todo \in [Runners -> Seq(Items)]
      /\ \A r \in Runners : pc[r] \in Working <=> cur[r] # 0
  BY <1>0 DEF BaseInv, TypeOK, Items
<1> USE <1>a DEF QueueInv, Forward
<1>1. ASSUME NEW e \in Enqueuers, Enqueue(e) PROVE QueueInv' /\ Forward
  <2>1. CASE CommitEnqueue(e)
    <3>1. UNCHANGED <<todo, cur>>
      BY <2>1 DEF CommitEnqueue, runVars
    <3>2. \A q \in Rows : status'[q] = status[q]
      BY <2>1, EnqueueAppends DEF BaseInv
    <3>3. \A q \in Items : q \notin Rows /\ status'[q] # status[q] =>
             status[q] = "none" /\ status'[q] = "queued"
      BY <2>1 DEF CommitEnqueue, Rows
    <3>4. QED
      BY <3>1, <3>2, <3>3 DEF BaseInv
  <2>2. CASE UNCHANGED <<status, todo, cur>>
    BY <2>2
  <2>3. QED
    BY <1>1, <2>1, <2>2 DEF Enqueue, FindActive, queueVars, runVars
<1>2. ASSUME NEW r \in Runners, Run(r) PROVE QueueInv' /\ Forward
  <2>0. \A s \in Runners : s = r
    BY DEF OneRunner
  <2>1. CASE ListQueue(r)
    <3> DEFINE Q == {q \in Rows : status[q] \in ListedStatus}
    <3> HIDE DEF Q
    <3>1. PICK s \in [1 .. Cardinality(Q) -> Q] :
            Sorted(s) /\ todo' = [todo EXCEPT ![r] = s]
      BY <2>1 DEF ListQueue, Q
    <3>2. Q \subseteq Rows /\ Q \subseteq Items /\ \A q \in Q : status[q] = "queued"
      BY DEF Rows, ListedStatus, Q
    <3>3. Cardinality(Q) \in Nat
      BY <3>2, RowIds, FS_Subset, FS_CardinalityType DEF BaseInv
    <3>4. s \in Seq(Items) /\ Len(s) = Cardinality(Q) /\ DOMAIN s = 1 .. Cardinality(Q)
      <4>1. s \in [1 .. Cardinality(Q) -> Items]
        BY <3>1, <3>2
      <4>2. QED
        BY <3>3, <4>1, ListIsSeq
    <3>5. \A j, k \in 1 .. Cardinality(Q) : j < k => s[j] # s[k]
      <4>1. \A q \in Items : q \in Nat /\ priority[q] \in Nat
        BY BoundsAssumption DEF Items
      <4>2. SUFFICES ASSUME NEW j \in DOMAIN s, NEW k \in DOMAIN s, j < k, s[j] = s[k]
                     PROVE  FALSE
        BY <3>4
      <4>3. s[j] \in Items
        BY <3>1, <3>2, <3>4
      <4>4. s[j] \in Nat /\ priority[s[j]] \in Nat
        BY <4>1, <4>3
      <4>5. priority[s[j]] > priority[s[j]] \/ s[j] < s[j]
        BY <3>1, <4>2 DEF Sorted
      <4>6. QED
        BY <4>4, <4>5
    <3>6. \A j, k \in 1 .. Cardinality(Q) : s[j] = s[k] => j = k
      BY <3>3, <3>5
    <3>7. \A k \in 1 .. Cardinality(Q) : status[s[k]] = "queued"
      BY <3>1, <3>2
    <3>8. status' = status /\ cur' = cur
      BY <2>1 DEF ListQueue, queueVars
    <3>9. todo'[r] = s
      BY <3>1
    <3>10. Forward
      BY <3>8
    <3>11. QueueInv'
      BY <2>0, <3>4, <3>6, <3>7, <3>8, <3>9
    <3>12. QED
      BY <3>10, <3>11
  <2>2. CASE TakeItem(r)
    <3> DEFINE t == todo[r]
    <3>1. t \in Seq(Items) /\ t # <<>>
      BY <2>2 DEF TakeItem, MayTake
    <3>2. /\ Len(Tail(t)) = Len(t) - 1
          /\ \A k \in 1 .. Len(Tail(t)) : Tail(t)[k] = t[k + 1] /\ k + 1 \in 1 .. Len(t)
          /\ Head(t) = t[1] /\ 1 \in 1 .. Len(t) /\ Head(t) \in Items
      BY <3>1
    <3>3. status[Head(t)] = "queued"
      BY <3>2
    <3>4. \A k \in 1 .. Len(Tail(t)) : Tail(t)[k] # Head(t) /\ status[Tail(t)[k]] = "queued"
      BY <3>2
    <3>5. \A j, k \in 1 .. Len(Tail(t)) : Tail(t)[j] = Tail(t)[k] => j = k
      BY <3>2
    <3>6. /\ status' = [status EXCEPT ![Head(t)] = "running"]
          /\ cur' = [cur EXCEPT ![r] = Head(t)]
          /\ todo' = [todo EXCEPT ![r] = Tail(t)]
      BY <2>2 DEF TakeItem
    <3>7. QED
      BY <2>0, <3>2, <3>3, <3>4, <3>5, <3>6
  <2>3. ASSUME Complete(r) \/ MarkFailed(r) PROVE QueueInv' /\ Forward
    <3>1. cur[r] \in Items /\ status[cur[r]] = "running"
      BY <2>3 DEF Complete, MarkFailed, Working
    <3>2. PICK s \in {"completed", "failed"} : status' = [status EXCEPT ![cur[r]] = s]
      BY <2>3 DEF Complete, MarkFailed, Failed
    <3>3. todo' = todo /\ cur' = [cur EXCEPT ![r] = 0]
      BY <2>3 DEF Complete, MarkFailed
    <3>4. \A s1 \in Runners : \A k \in 1 .. Len(todo[s1]) : todo[s1][k] \in Items /\ todo[s1][k] # cur[r]
      BY <3>1
    <3>5. QED
      BY <2>0, <3>1, <3>2, <3>3, <3>4
  <2>4. CASE EndRun(r)
    BY <2>4 DEF EndRun, Forget, queueVars
  <2>5. CASE UNCHANGED <<status, todo, cur>>
    BY <2>5
  <2>6. QED
    BY <1>2, <2>1, <2>2, <2>3, <2>4, <2>5
    DEF Run, StartRun, Lookup, LookupFails, Record, StepFails, queueVars
<1>3. ASSUME NEW r \in Runners, Die(r) PROVE QueueInv' /\ Forward
  BY <1>3 DEF Die, Forget, queueVars
<1>4. CASE UNCHANGED <<status, todo, cur>>
  BY <1>4
<1>5. QED
  BY <1>1, <1>2, <1>3, <1>4 DEF Next, NewDay, vars, queueVars, runVars

LEMMA QueueInit == Init => QueueInv
  BY DEF Init, QueueInv

LEMMA QueueHolds == OneRunner => (Spec => []QueueInv)
<1> SUFFICES ASSUME OneRunner PROVE Spec => []QueueInv
  OBVIOUS
<1>1. QueueInv /\ BaseInv /\ [Next]_vars => QueueInv'
  BY QueueStep
<1>2. QED
  BY <1>1, QueueInit, BaseHolds, PTL DEF Spec

Rank == [s \in {"none", "queued", "running", "completed", "failed"} |->
           CASE s = "none" -> 0 [] s = "queued" -> 1 [] s = "running" -> 2 [] OTHER -> 3]

(* A row only goes from queued to running to completed or failed, and the   *)
(* outcome of a lookup is final.                                            *)
StatusMovesForward ==
  [][\A q \in Items : status'[q] # status[q] => Rank[status[q]] < Rank[status'[q]]]_status

LEMMA ForwardRanks ==
  Forward => \A q \in Items : status'[q] # status[q] => Rank[status[q]] < Rank[status'[q]]
  BY DEF Forward, Rank

(* For one run at a time the outcome of a lookup is final and no row is     *)
(* taken twice (run_once: list_vt_queue_items, update_vt_queue_item).       *)
THEOREM OutcomeIsFinal ==
  ASSUME OneRunner
  PROVE  Spec => StatusMovesForward
<1>1. QueueInv /\ BaseInv /\ [Next]_vars =>
        [\A q \in Items : status'[q] # status[q] => Rank[status[q]] < Rank[status'[q]]]_status
  BY QueueStep, ForwardRanks
<1>2. Spec => []QueueInv
  BY QueueHolds
<1>3. QED
  BY <1>1, <1>2, BaseHolds, PTL DEF Spec, StatusMovesForward

(* What an enqueuer read about an indicator without an active row is still  *)
(* true when it inserts one.                                                *)
ActiveInv ==
  /\ OneActiveRow
  /\ \A e \in Enqueuers : \A i \in wanted[e] : found[e][i] = 0 => Active(i) = {}

LEMMA ActiveStep ==
  ASSUME OneRunner, OneEnqueuer, BaseInv, QueueInv, ActiveInv, [Next]_vars
  PROVE  ActiveInv'
<1>a. /\ status \in [Items -> {"none", "queued", "running", "completed", "failed"}]
      /\ wanted \in [Enqueuers -> SUBSET Indicators]
      /\ found \in [Enqueuers -> [Indicators -> Items \cup {0}]] /\ 0 \notin Items
  BY DEF BaseInv, TypeOK, Items
<1>b. Forward
  BY QueueStep
<1>1. ASSUME NEW e \in Enqueuers, Enqueue(e) PROVE ActiveInv'
  <2>0. \A d \in Enqueuers : d = e
    BY DEF OneEnqueuer
  <2>1. ASSUME NEW W \in SUBSET Indicators, NEW p \in Priorities, FindActive(e, W, p)
        PROVE  ActiveInv'
    <3>1. UNCHANGED <<status, target>> /\ wanted' = [wanted EXCEPT ![e] = W]
      BY <2>1 DEF FindActive, queueVars
    <3>2. \A i \in W : found'[e][i] = 0 => Active(i) = {}
      <4>1. PICK f \in [Indicators -> Items \cup {0}] :
              /\ \A i \in Indicators :
                   IF i \in W /\ ActiveRows(i) # {} THEN f[i] \in ActiveRows(i) ELSE f[i] = 0
              /\ found' = [found EXCEPT ![e] = f]
        BY <2>1 DEF FindActive
      <4>2. \A i \in Indicators : Active(i) \subseteq Items
        BY DEF Active, Rows
      <4>3. QED
        BY <1>a, <4>1, <4>2 DEF ActiveRows
    <3>3. OneActiveRow'
      BY <3>1 DEF ActiveInv, OneActiveRow, Active, Rows
    <3>4. \A i \in Indicators : Active(i)' = Active(i)
      BY <3>1 DEF Active, Rows
    <3>5. QED
      BY <1>a, <2>0, <3>1, <3>2, <3>3, <3>4 DEF ActiveInv
  <2>2. CASE CommitEnqueue(e)
    <3>1. /\ Rows \subseteq Rows'
          /\ \A q \in Rows : status'[q] = status[q] /\ target'[q] = target[q]
          /\ \A q \in Rows' \ Rows : /\ target'[q] \in wanted[e]
                                     /\ found[e][target'[q]] = 0
          /\ \A q, x \in Rows' \ Rows : target'[q] = target'[x] => q = x
      BY <2>2, EnqueueAppends DEF BaseInv
    <3>2. \A q \in Rows' \ Rows : Active(target'[q]) = {}
      BY <3>1 DEF ActiveInv
    <3>3. \A q \in Rows : status'[q] \in {"queued", "running"} => q \in Active(target'[q])
      BY <3>1 DEF Active
    <3>4. OneActiveRow'
      <4>1. SUFFICES ASSUME NEW q \in Rows', NEW x \in Rows', q # x, target'[q] = target'[x],
                            status'[q] \in {"queued", "running"},
                            status'[x] \in {"queued", "running"}
                     PROVE  FALSE
        BY DEF OneActiveRow, Active
      <4>2. CASE q \in Rows /\ x \in Rows
        BY <3>1, <4>1, <4>2 DEF ActiveInv, OneActiveRow, Active
      <4>3. CASE q \notin Rows /\ x \notin Rows
        BY <3>1, <4>1, <4>3
      <4>4. CASE q \in Rows /\ x \notin Rows
        BY <3>2, <3>3, <4>1, <4>4
      <4>5. CASE q \notin Rows /\ x \in Rows
        BY <3>2, <3>3, <4>1, <4>5
      <4>6. QED
        BY <4>2, <4>3, <4>4, <4>5
    <3>5. wanted'[e] = {}
      BY <1>a, <2>2 DEF CommitEnqueue
    <3>6. QED
      BY <2>0, <3>4, <3>5 DEF ActiveInv
  <2>3. QED
    BY <1>1, <2>1, <2>2 DEF Enqueue
<1>2. ASSUME UNCHANGED <<target, wanted, found>>,
             \A q \in Items : status'[q] # status[q] => status[q] # "none" /\ status'[q] # "none",
             status' \in [Items -> {"none", "queued", "running", "completed", "failed"}]
      PROVE  ActiveInv'
  <2>1. Rows' = Rows
    BY <1>2 DEF Rows
  <2>2. \A q \in Rows : status'[q] \in {"queued", "running"} => status[q] \in {"queued", "running"}
    BY <1>a, <1>b DEF Forward, Rows
  <2>3. \A i : Active(i)' \subseteq Active(i)
    BY <1>2, <2>1, <2>2 DEF Active
  <2>4. OneActiveRow'
    BY <1>2, <2>1, <2>3 DEF ActiveInv, OneActiveRow
  <2>5. QED
    BY <1>2, <1>a, <2>3, <2>4 DEF ActiveInv
<1>3. ASSUME NEW r \in Runners, Run(r) PROVE ActiveInv'
  <2>1. UNCHANGED <<target, wanted, found>>
    BY <1>3 DEF Run, StartRun, ListQueue, TakeItem, Lookup, LookupFails, Record, Complete,
                StepFails, MarkFailed, EndRun, queueVars, enqVars
  <2>2. status' = status \/ \E q \in Items, s \in {"running", "completed", "failed"} :
                              q \in Rows /\ status' = [status EXCEPT ![q] = s]
    BY <1>3 DEF BaseInv, TypeOK, Working, Run, StartRun, ListQueue, TakeItem, MayTake, Lookup,
           LookupFails, Record, Complete, StepFails, MarkFailed, Failed, EndRun, Rows, queueVars
  <2>3. QED
    BY <1>2, <1>a, <2>1, <2>2 DEF Rows
<1>4. CASE UNCHANGED <<queueVars, enqVars>>
  BY <1>2, <1>4, <1>a DEF queueVars, enqVars
<1>5. QED
  BY <1>1, <1>3, <1>4 DEF Next, NewDay, Die, vars

LEMMA ActiveHolds ==
  ASSUME OneRunner, OneEnqueuer
  PROVE  Spec => []ActiveInv
<1>1. Init => ActiveInv
  BY DEF Init, ActiveInv, OneActiveRow, Rows
<1>2. ActiveInv /\ QueueInv /\ BaseInv /\ [Next]_vars => ActiveInv'
  BY ActiveStep
<1>3. Spec => []QueueInv
  BY QueueHolds
<1>4. QED
  BY <1>1, <1>2, <1>3, BaseHolds, PTL DEF Spec

(* When neither runs nor scans overlap, an indicator never has two queued   *)
(* or running rows, so that the scalar_one_or_none of enqueue_vt_lookup     *)
(* does not raise.                                                          *)
THEOREM RowsAreNotDuplicated ==
  ASSUME OneRunner, OneEnqueuer
  PROVE  Spec => []OneActiveRow
<1>1. ActiveInv => OneActiveRow
  BY DEF ActiveInv
<1>2. Spec => []ActiveInv
  BY ActiveHolds
<1>3. QED
  BY <1>1, <1>2, PTL

-----------------------------------------------------------------------------
(* The queue of indicators *)

(* A step that leaves the rows and the answers of today alone is none of the *)
(* queue.                                                                    *)
LEMMA QueueStutters ==
  ASSUME UNCHANGED <<status, target, dayVars>>
  PROVE  UNCHANGED Queue!vars
<1>1. \A s : WithStatus(s)' = WithStatus(s)
  BY DEF WithStatus, Rows
<1>2. QED
  BY <1>1 DEF Queue!vars, Answered, dayVars

(* When a row that is the only active one of its indicator moves, so does    *)
(* the indicator.                                                            *)
LEMMA IndicatorMoves ==
  ASSUME TypeOK, OneActiveRow, NEW q \in Rows, NEW t \in {"queued", "running"}, status[q] = t,
         NEW s \in {"running", "completed", "failed"}, s # t,
         UNCHANGED target, status' = [status EXCEPT ![q] = s]
  PROVE  /\ WithStatus(t)' = WithStatus(t) \ {target[q]}
         /\ WithStatus(s)' = WithStatus(s) \cup {target[q]}
         /\ \A u \in {"queued", "running", "completed"} \ {s, t} : WithStatus(u)' = WithStatus(u)
         /\ target[q] \in WithStatus(t)
<1>1. Rows' = Rows /\ q \in Items
  BY DEF Rows, TypeOK
<1>2. \A x \in Rows : status'[x] = IF x = q THEN s ELSE status[x]
  BY DEF Rows, TypeOK
<1>3. \A x \in Rows : status[x] = t /\ x # q => target[x] # target[q]
  BY DEF OneActiveRow, Active
<1>4. QED
  BY <1>1, <1>2, <1>3 DEF WithStatus

(* An enqueue asks for the indicators it has found without an active row.    *)
LEMMA EnqueueRequests ==
  ASSUME NEW e \in Enqueuers, BaseInv, ActiveInv, CommitEnqueue(e)
  PROVE  \E I \in SUBSET Indicators : Queue!Request(I)
<1> DEFINE I == {target'[q] : q \in Rows' \ Rows}
<1>1. /\ Rows \subseteq Rows'
      /\ \A q \in Rows : status'[q] = status[q] /\ target'[q] = target[q]
      /\ \A q \in Rows' \ Rows : /\ status'[q] = "queued"
                                 /\ target'[q] \in wanted[e]
                                 /\ found[e][target'[q]] = 0
  BY EnqueueAppends DEF BaseInv
<1>2. I \in SUBSET Indicators
  BY <1>1 DEF BaseInv, TypeOK
<1>3. \A q \in Rows' \ Rows : Active(target'[q]) = {}
  BY <1>1 DEF ActiveInv
<1>4. I \cap (WithStatus("queued") \cup WithStatus("running")) = {}
  BY <1>3 DEF WithStatus, Active
<1>5. /\ WithStatus("queued")' = WithStatus("queued") \cup I
      /\ WithStatus("running")' = WithStatus("running")
      /\ WithStatus("completed")' = WithStatus("completed")
  BY <1>1 DEF WithStatus
<1>6. UNCHANGED <<enriched, recordedToday>>
  BY DEF CommitEnqueue, dayVars
<1>7. Queue!Request(I)
  BY <1>4, <1>5, <1>6 DEF Queue!Request, Answered
<1>8. QED
  BY <1>2, <1>7

LEMMA AnswerIsOfQueue == ASSUME NEW i \in Indicators, Queue!Answer(i) PROVE Queue!Next
BY DEF Queue!Next

LEMMA RunIsOfQueue ==
  ASSUME "complete" \notin MayFail, NEW r \in Runners,
         BaseInv, QueueInv, ActiveInv, BudgetInv, Run(r)
  PROVE  [Queue!Next]_(Queue!vars)
<1>0. TypeOK /\ OneActiveRow
  BY DEF BaseInv, ActiveInv
<1>1. CASE TakeItem(r)
  <2> DEFINE q == Head(todo[r])
  <2>1. q \in Rows /\ status[q] = "queued" /\ target[q] \in Indicators
    <3>1. todo[r] \in Seq(Items) /\ todo[r] # <<>>
      BY <1>0, <1>1 DEF TypeOK, TakeItem, MayTake
    <3>2. 1 \in 1 .. Len(todo[r]) /\ q = todo[r][1]
      BY <3>1
    <3>3. QED
      BY <3>2 DEF BaseInv, QueueInv
  <2>2. UNCHANGED <<target, enriched, recordedToday>> /\ status' = [status EXCEPT ![q] = "running"]
    BY <1>1 DEF TakeItem, dayVars
  <2> HIDE DEF q
  <2>3. Queue!Take(target[q])
    BY <1>0, <2>1, <2>2, IndicatorMoves DEF Queue!Take, Answered
  <2>4. QED
    BY <2>1, <2>3 DEF Queue!Next
<1>2. ASSUME pc[r] \in Working
      PROVE  /\ cur[r] \in Rows /\ status[cur[r]] = "running" /\ target[cur[r]] \in Indicators
             /\ target[cur[r]] \in WithStatus("running")
  BY <1>2 DEF BaseInv, QueueInv, WithStatus
<1>3. CASE Record(r)
  <2> DEFINE q == cur[r]
  <2>1. target[q] \in Indicators /\ target[q] \in WithStatus("running")
    BY <1>2, <1>3 DEF Record, Working
  <2>2. Answered' = Answered \cup {target[q]}
    BY <1>0, <1>3, <2>1 DEF Record, Answered, TypeOK
  <2>3. \/ recordedToday' = recordedToday
        \/ recordedToday < Budget /\ recordedToday' = recordedToday + 1
    <3>1. CASE ~fresh[r]
      BY <1>3, <3>1 DEF Record
    <3>2. CASE fresh[r]
      <4>1. recordedToday \in Nat /\ remaining[r] \in Nat /\ Budget \in Nat
        BY <1>0, BoundsAssumption DEF TypeOK
      <4>2. recordedToday + remaining[r] <= Budget /\ remaining[r] > 0
        BY <1>3, <3>2, <4>1 DEF BaseInv, BudgetInv, Record
      <4>3. recordedToday < Budget
        BY <4>1, <4>2
      <4>4. QED
        BY <1>3, <3>2, <4>3 DEF Record
    <3>3. QED
      BY <1>0, <3>1, <3>2 DEF TypeOK
  <2>4. \A s : WithStatus(s)' = WithStatus(s)
    BY <1>3 DEF Record, queueVars, WithStatus, Rows
  <2> HIDE DEF q
  <2>5. Queue!Answer(target[q])
    BY <2>1, <2>2, <2>3, <2>4 DEF Queue!Answer, Answered
  <2>6. QED
    BY <2>1, <2>5, AnswerIsOfQueue
<1>4. CASE Complete(r)
  <2> DEFINE q == cur[r]
  <2>1. q \in Rows /\ status[q] = "running" /\ target[q] \in Indicators
    BY <1>2, <1>4 DEF Complete, Working
  <2>2. enriched[target[q]] # "none"
    BY <1>4 DEF Complete, BaseInv
  <2>3. UNCHANGED <<target, enriched, recordedToday>> /\ status' = [status EXCEPT ![q] = "completed"]
    BY <1>4 DEF Complete, dayVars
  <2> HIDE DEF q
  <2>4. Queue!Finish(target[q])
    BY <1>0, <2>1, <2>2, <2>3, IndicatorMoves DEF Queue!Finish, Answered
  <2>5. QED
    BY <2>1, <2>4 DEF Queue!Next
<1>5. CASE MarkFailed(r)
  <2> DEFINE q == cur[r]
  <2>1. q \in Rows /\ status[q] = "running" /\ target[q] \in Indicators
    BY <1>2, <1>5 DEF MarkFailed, Working
  <2>2. UNCHANGED <<target, enriched, recordedToday>> /\ status' = [status EXCEPT ![q] = "failed"]
    BY <1>5 DEF MarkFailed, Failed, dayVars
  <2> HIDE DEF q
  <2>3. Queue!GiveUp(target[q])
    BY <1>0, <2>1, <2>2, IndicatorMoves DEF Queue!GiveUp, Answered
  <2>4. QED
    BY <2>1, <2>3 DEF Queue!Next
<1>6. CASE UNCHANGED <<queueVars, dayVars>>
  BY <1>6, QueueStutters DEF queueVars
<1>7. QED
  BY <1>1, <1>3, <1>4, <1>5, <1>6
  DEF Run, StartRun, ListQueue, Lookup, LookupFails, StepFails, EndRun

(* For runs and scans that do not overlap, and a completion that does not    *)
(* fail, every behaviour of the triage is one of LookupQueue: a death leaves  *)
(* an indicator in hand, and all else is as if the rows were a set and the    *)
(* budget were checked at each answer.                                        *)
THEOREM TriageImplementsQueue ==
  ASSUME OneRunner, OneEnqueuer, "complete" \notin MayFail
  PROVE  Spec => ImplementsQueue
<1>1. Init => Queue!Init
  BY DEF Init, Queue!Init, WithStatus, Answered, Rows
<1>2. BaseInv /\ QueueInv /\ ActiveInv /\ BudgetInv /\ [Next]_vars => [Queue!Next]_(Queue!vars)
  <2> SUFFICES ASSUME BaseInv, QueueInv, ActiveInv, BudgetInv, [Next]_vars
               PROVE  [Queue!Next]_(Queue!vars)
    OBVIOUS
  <2>1. ASSUME NEW e \in Enqueuers, Enqueue(e) PROVE [Queue!Next]_(Queue!vars)
    <3>1. CASE CommitEnqueue(e)
      BY <3>1, EnqueueRequests DEF Queue!Next
    <3>2. CASE UNCHANGED <<queueVars, dayVars>>
      BY <3>2, QueueStutters DEF queueVars
    <3>3. QED
      BY <2>1, <3>1, <3>2 DEF Enqueue, FindActive
  <2>2. ASSUME NEW r \in Runners, Run(r) PROVE [Queue!Next]_(Queue!vars)
    BY <2>2, RunIsOfQueue
  <2>3. CASE NewDay
    <3>1. Answered' = Answered
      BY <2>3 DEF NewDay, Answered, BaseInv, TypeOK
    <3>2. \A s : WithStatus(s)' = WithStatus(s)
      BY <2>3 DEF NewDay, queueVars, WithStatus, Rows
    <3>3. Queue!Midnight
      BY <2>3, <3>1, <3>2 DEF Queue!Midnight, NewDay, Answered
    <3>4. QED
      BY <3>3 DEF Queue!Next
  <2>4. CASE UNCHANGED <<queueVars, dayVars>>
    BY <2>4, QueueStutters DEF queueVars
  <2>5. QED
    BY <2>1, <2>2, <2>3, <2>4 DEF Next, Die, vars
<1>3. Spec => []QueueInv
  BY QueueHolds
<1>4. Spec => []ActiveInv
  BY ActiveHolds
<1>5. Spec => []BudgetInv
  BY BudgetHolds
<1>6. QED
  BY <1>1, <1>2, <1>3, <1>4, <1>5, BaseHolds, PTL DEF Spec, ImplementsQueue, Queue!Spec

-----------------------------------------------------------------------------
(* Priorities *)

(* An analysis is of a high or of a critical skill. *)
TwoPriorities == \A a, b, c \in Priorities : a = b \/ b = c \/ a = c

(* With two priorities, who raises a row raises it to the higher one. *)
RaiseInv ==
  /\ \A q \in Items : priority[q] \in (IF q \in Rows THEN Priorities ELSE {0})
  /\ \A e \in Enqueuers : epc[e] = "commit" => asked[e] \in Priorities
  /\ \A e \in Enqueuers : \A i \in bumps[e] :
       found[e][i] \in Rows /\ \A p \in Priorities : p <= asked[e]

LEMMA RaiseStep ==
  ASSUME TwoPriorities, BaseInv, RaiseInv, [Next]_vars
  PROVE  RaiseInv' /\ \A q \in Items : priority[q] <= priority'[q]
<1> USE DEF BaseInv, TypeOK
<1>0. \A q \in Items : priority[q] \in Nat /\ priority[q] <= priority[q]
  <2>1. Priorities \cup {0} \subseteq Nat
    BY PrioritiesAssumption
  <2>2. \A q \in Items : priority[q] \in Priorities \cup {0}
    BY DEF RaiseInv
  <2> HIDE DEF BaseInv, TypeOK
  <2> QED BY <2>1, <2>2
<1>1. ASSUME NEW e \in Enqueuers, NEW W \in SUBSET Indicators, NEW p \in Priorities, FindActive(e, W, p)
      PROVE  RaiseInv' /\ UNCHANGED priority
  <2>1. PICK f \in [Indicators -> Items \cup {0}] :
          /\ \A i \in Indicators : IF i \in W /\ ActiveRows(i) # {} THEN f[i] \in ActiveRows(i) ELSE f[i] = 0
          /\ found' = [found EXCEPT ![e] = f]
          /\ bumps' = [bumps EXCEPT ![e] = {i \in W : f[i] # 0 /\ Bumps(f[i], p)}]
    BY <1>1 DEF FindActive
  <2>2. /\ UNCHANGED queueVars /\ epc' = [epc EXCEPT ![e] = "commit"]
        /\ asked' = [asked EXCEPT ![e] = p]
    BY <1>1 DEF FindActive
  <2>3. ASSUME NEW i \in bumps'[e]
        PROVE  f[i] \in Rows /\ \A c \in Priorities : c <= p
    <3>1. i \in W /\ f[i] \in Rows /\ p > priority[f[i]]
      BY <2>1, <2>3 DEF ActiveRows, Active, Bumps
    <3>2. priority[f[i]] \in Priorities
      BY <3>1 DEF RaiseInv, Rows
    <3>3. \A c \in Priorities : c = p \/ c = priority[f[i]] \/ p = priority[f[i]]
      BY <3>2 DEF TwoPriorities
    <3>4. \A c \in Priorities : c \in Nat
      BY PrioritiesAssumption
    <3> HIDE DEF BaseInv, TypeOK
    <3> QED BY <3>1, <3>2, <3>3, <3>4
  <2>4. Rows' = Rows
    BY <2>2 DEF Rows, queueVars
  <2> QED BY <2>1, <2>2, <2>3, <2>4 DEF RaiseInv, queueVars
<1>2. ASSUME NEW e \in Enqueuers, CommitEnqueue(e)
      PROVE  RaiseInv' /\ \A q \in Items : priority[q] <= priority'[q]
  <2> DEFINE ids == NextIds(Cardinality({i \in wanted[e] : found[e][i] = 0}))
             raised == {found[e][i] : i \in bumps[e]}
  <2>1. /\ epc[e] = "commit" /\ epc' = [epc EXCEPT ![e] = "idle"] /\ asked' = [asked EXCEPT ![e] = 0]
        /\ bumps' = [bumps EXCEPT ![e] = {}] /\ found' = [found EXCEPT ![e] = [i \in Indicators |-> 0]]
        /\ status' = [q \in Items |-> IF q \in ids THEN "queued" ELSE status[q]]
        /\ priority' = [q \in Items |-> IF q \in ids \cup raised THEN asked[e] ELSE priority[q]]
    BY <1>2 DEF CommitEnqueue
  <2>2. asked[e] \in Priorities /\ asked[e] \in Nat
    BY <2>1, PrioritiesAssumption DEF RaiseInv
  <2>3. Rows \subseteq Rows' /\ Rows' \ Rows \subseteq ids /\ ids \cap Rows = {}
    <3>1. Rows' \ Rows \subseteq ids
      BY <2>1 DEF Rows
    <3>2. Cardinality(Rows) \in Nat /\ Rows = 1 .. Cardinality(Rows)
      BY RowIds
    <3>3. ids \cap Rows = {}
      <4> DEFINE n == Cardinality({i \in wanted[e] : found[e][i] = 0})
      <4> HIDE DEF n
      <4>1. NextIds(n) \cap Rows = {}
        BY <3>2 DEF NextIds
      <4> QED BY <4>1 DEF n
    <3> QED BY <1>2, <3>1, <3>3, EnqueueAppends
  <2> HIDE DEF ids
  <2>4. \A i \in bumps[e] : \A q \in Items : priority[q] <= asked[e]
    <3>1. \A q \in Items : priority[q] \in Priorities \cup {0}
      OBVIOUS
    <3> QED BY <2>2, <3>1 DEF RaiseInv
  <2>5. \A q \in Items : q \in ids => priority[q] = 0
    BY <2>3 DEF RaiseInv
  <2>6. \A q \in Items : priority[q] <= priority'[q]
    BY <1>0, <2>1, <2>2, <2>4, <2>5
  <2>7. raised \subseteq Rows /\ ids \cap Items \subseteq Rows'
    BY <2>1 DEF RaiseInv, Rows
  <2> QED BY <2>1, <2>2, <2>3, <2>6, <2>7 DEF RaiseInv
<1>3. ASSUME NEW r \in Runners, Run(r) \/ Die(r)
      PROVE  RaiseInv' /\ UNCHANGED priority
  <2>1. UNCHANGED <<priority, enqVars>>
    BY <1>3 DEF Run, Die, StartRun, ListQueue, TakeItem, Lookup, LookupFails, Record, Complete, StepFails,
       MarkFailed, EndRun, queueVars
  <2>2. Rows' = Rows
    BY <1>3, RunKeepsRows DEF Die, queueVars, Rows
  <2> QED BY <2>1, <2>2 DEF RaiseInv, enqVars
<1>4. NewDay \/ UNCHANGED vars => RaiseInv' /\ UNCHANGED priority
  BY DEF NewDay, vars, queueVars, enqVars, RaiseInv, Rows
<1> HIDE DEF BaseInv, TypeOK
<1>5. CASE UNCHANGED priority /\ RaiseInv'
  BY <1>0, <1>5
<1> QED BY <1>1, <1>2, <1>3, <1>4, <1>5 DEF Next, Enqueue

(* A priority that is left alone does not drop. *)
LEMMA PriorityStays ==
  ASSUME TypeOK, UNCHANGED priority, NEW q \in Items
  PROVE  priority[q] <= priority'[q]
<1>1. priority[q] \in Priorities \cup {0}
  <2>1. priority \in [Items -> Priorities \cup {0}]
    BY Zenon DEF TypeOK
  <2> QED BY <2>1
<1>2. Priorities \cup {0} \subseteq Nat
  BY PrioritiesAssumption
<1>3. \A n \in Nat : n <= n
  OBVIOUS
<1>4. priority[q] <= priority[q]
  BY <1>1, <1>2, <1>3
<1> QED BY <1>4

(* No analysis lowers the priority of a row, also when it read the row       *)
(* before another one raised it: there is no third priority in between       *)
(* (VTTriage.PriorityNeverDrops).                                            *)
THEOREM PrioritiesOnlyRise ==
  ASSUME TwoPriorities
  PROVE  Spec => PriorityNeverDrops
<1> DEFINE Kept == \A q \in Items : priority[q] <= priority'[q]
           Commits == \A e \in Enqueuers : CommitEnqueue(e) => Kept
<1>1. Init => RaiseInv
  BY DEF Init, RaiseInv, Rows
<1>2. RaiseInv /\ BaseInv /\ [Next]_vars => RaiseInv' /\ [Kept]_priority
  BY RaiseStep
<1>3. TypeOK /\ UNCHANGED priority => Kept
  BY PriorityStays
<1>4. TypeOK /\ [Kept]_priority => [Commits]_vars
  <2> HIDE DEF Kept
  <2> QED BY <1>3
<1>5. Spec => [][Commits]_vars
  <2> HIDE DEF Commits, Kept
  <2> QED BY <1>1, <1>2, <1>4, BaseHolds, TypeCorrect, PTL DEF Spec
<1> QED BY <1>5 DEF PriorityNeverDrops
=============================================================================
