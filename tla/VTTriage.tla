------------------------------ MODULE VTTriage ------------------------------
(***************************************************************************)
(* The queue of selective VirusTotal lookups (services/vt_triage.py) and   *)
(* the two paths that fill it (storage/repository.py): enqueue_vt_lookup,  *)
(* one transaction for each indicator, and _upsert_vt_queue_items, one     *)
(* for all the indicators of an analysed repository.                       *)
(*                                                                         *)
(* Every run of enrich-vt and every scan is a process of its own.  One     *)
(* step is one transaction or one call to VirusTotal; a read and the       *)
(* commit of the writes that follow from it are two steps, as under READ   *)
(* COMMITTED.  Days are relative: midnight turns today's rows into past    *)
(* ones.  attempt_count is left out: a row is only ever taken once by a    *)
(* run, so it says no more than the status does.                           *)
(***************************************************************************)
EXTENDS Naturals, Sequences, FiniteSets

CONSTANTS
  Indicators,  \* canonical url, domain and sha256 indicators
  Runners,     \* enrich-vt processes
  Enqueuers,   \* processes that persist analyses of risky skills
  Priorities,  \* 80 for a high, 100 for a critical skill
  Budget,      \* vt_daily_budget
  Limit,       \* --limit
  MayFail,     \* the steps of a lookup that may raise
  MayDie,      \* runners that may die between two steps
  MaxItems,    \* bound on the rows of vt_lookup_queue
  MaxDeaths,   \* bound on the number of deaths
  NoIndicator  \* the target of a row that is not there yet

Items == 1 .. MaxItems

FailPoints == {"lookup", "record", "complete"}

ASSUME IndicatorsAssumption == IsFiniteSet(Indicators)
ASSUME PrioritiesAssumption == Priorities \subseteq Nat
ASSUME BoundsAssumption == Budget \in Nat /\ Limit \in Nat \ {0} /\ MaxItems \in Nat /\ MaxDeaths \in Nat
ASSUME NoIndicatorAssumption == NoIndicator \notin Indicators
ASSUME FailAssumption == MayFail \subseteq FailPoints /\ MayDie \subseteq Runners

VARIABLES
  status,        \* status of each row; "none" where there is no row yet
  target,        \* the indicator of each row
  priority,      \* the priority of each row
  enriched,      \* for each indicator the age of its latest VT enrichment
  recordedToday, \* VT enrichments whose requested_at is today
  pc,            \* where each runner is
  fresh,         \* is the runner's `now` still of this day?
  remaining,     \* remaining_budget
  handled,       \* completed + failed
  todo,          \* rows listed by the runner and not yet looked at
  cur,           \* the row a runner is handling, 0 for none
  epc,           \* where each enqueuer is
  wanted,        \* the indicators an enqueuer is about to queue
  asked,         \* the priority it queues them with
  found,         \* for each of them the active row it has read, 0 for none
  bumps,         \* those whose row it read with a lower priority
  deaths         \* number of deaths so far

queueVars  == <<status, target, priority>>
dayVars    == <<enriched, recordedToday>>
runVars    == <<pc, fresh, remaining, handled, todo, cur>>
enqVars    == <<epc, wanted, asked, found, bumps>>
vars == <<queueVars, dayVars, runVars, enqVars, deaths>>

Rows == {q \in Items : status[q] # "none"}

Active(i) == {q \in Rows : target[q] = i /\ status[q] \in {"queued", "running"}}

Working == {"lookup", "record", "complete", "fail"}

-----------------------------------------------------------------------------
(* Filling the queue *)

ActiveRows_QueuedOnly(i) == {q \in Active(i) : status[q] = "queued"}

(* The query of both paths: rows of the indicator that are queued or running. *)
ActiveRows(i) == Active(i)

Bumps_Always(q, p) == TRUE

(* max(row.priority, priority) differs from what was read, so it is written. *)
Bumps(q, p) == p > priority[q]

(* The select.  enqueue_vt_lookup (one indicator) raises when there are two *)
(* active rows, which changes nothing; the batch takes any of them.         *)
FindActive(e, W, p) ==
  /\ epc[e] = "idle"
  /\ W # {}
  /\ epc' = [epc EXCEPT ![e] = "commit"]
  /\ wanted' = [wanted EXCEPT ![e] = W]
  /\ asked' = [asked EXCEPT ![e] = p]
  /\ \E f \in [Indicators -> Items \cup {0}] :
       /\ \A i \in Indicators :
            IF i \in W /\ ActiveRows(i) # {} THEN f[i] \in ActiveRows(i) ELSE f[i] = 0
       /\ found' = [found EXCEPT ![e] = f]
       /\ bumps' = [bumps EXCEPT ![e] = {i \in W : f[i] # 0 /\ Bumps(f[i], p)}]
  /\ UNCHANGED <<queueVars, dayVars, runVars, deaths>>

(* The rows that n inserts get, in any order: the next autoincrement ids. *)
NextIds(n) == (Cardinality(Rows) + 1) .. (Cardinality(Rows) + n)

(* The commit: rows that were not found are inserted, the others raised. *)
CommitEnqueue(e) ==
  LET new == {i \in wanted[e] : found[e][i] = 0}
      ids == NextIds(Cardinality(new))
      raised == {found[e][i] : i \in bumps[e]}
  IN /\ epc[e] = "commit"
     /\ ids \subseteq Items
     /\ \E row \in [ids -> new] :
          /\ \A q, x \in ids : row[q] = row[x] => q = x
          /\ target' = [q \in Items |-> IF q \in ids THEN row[q] ELSE target[q]]
     /\ status' = [q \in Items |-> IF q \in ids THEN "queued" ELSE status[q]]
     /\ priority' = [q \in Items |-> IF q \in ids \cup raised THEN asked[e] ELSE priority[q]]
     /\ epc' = [epc EXCEPT ![e] = "idle"]
     /\ wanted' = [wanted EXCEPT ![e] = {}]
     /\ asked' = [asked EXCEPT ![e] = 0]
     /\ found' = [found EXCEPT ![e] = [i \in Indicators |-> 0]]
     /\ bumps' = [bumps EXCEPT ![e] = {}]
     /\ UNCHANGED <<dayVars, runVars, deaths>>

Enqueue(e) ==
  \/ \E W \in SUBSET Indicators, p \in Priorities : FindActive(e, W, p)
  \/ CommitEnqueue(e)

-----------------------------------------------------------------------------
(* VTTriageService.run_once *)

UsedToday_Nothing == 0

UsedToday_Ever == IF \E i \in Indicators : enriched[i] # "none" THEN Budget ELSE 0

(* count_indicator_enrichments_today *)
UsedToday == recordedToday

StartRun(r) ==
  /\ pc[r] = "idle"
  /\ pc' = [pc EXCEPT ![r] = "list"]
  /\ fresh' = [fresh EXCEPT ![r] = TRUE]
  /\ remaining' = [remaining EXCEPT ![r] = IF UsedToday < Budget THEN Budget - UsedToday ELSE 0]
  /\ UNCHANGED <<queueVars, dayVars, handled, todo, cur, enqVars, deaths>>

ListedStatus_All == {"queued", "running", "failed"}

ListedStatus == {"queued"}

(* priority DESC, id ASC *)
Sorted(s) ==
  \A a, b \in DOMAIN s :
    a < b => \/ priority[s[a]] > priority[s[b]]
             \/ priority[s[a]] = priority[s[b]] /\ s[a] < s[b]

ListQueue(r) ==
  LET Q == {q \in Rows : status[q] \in ListedStatus}
  IN /\ pc[r] = "list"
     /\ \E s \in [1 .. Cardinality(Q) -> Q] :
          /\ Sorted(s)
          /\ todo' = [todo EXCEPT ![r] = s]
     /\ pc' = [pc EXCEPT ![r] = "next"]
     /\ UNCHANGED <<queueVars, dayVars, fresh, remaining, handled, cur, enqVars, deaths>>

(* The limit is checked before the budget; without budget the rest is skipped. *)
MayTake(r) == todo[r] # <<>> /\ handled[r] < Limit /\ remaining[r] > 0

(* The row becomes running whatever its status is by now. *)
TakeItem(r) ==
  /\ pc[r] = "next"
  /\ MayTake(r)
  /\ status' = [status EXCEPT ![Head(todo[r])] = "running"]
  /\ cur' = [cur EXCEPT ![r] = Head(todo[r])]
  /\ todo' = [todo EXCEPT ![r] = Tail(@)]
  /\ pc' = [pc EXCEPT ![r] = "lookup"]
  /\ UNCHANGED <<target, priority, dayVars, fresh, remaining, handled, enqVars, deaths>>

AfterLookup_Straight == "complete"

(* The response is archived and recorded before the row is completed. *)
AfterLookup == "record"

Lookup(r) ==
  /\ pc[r] = "lookup"
  /\ pc' = [pc EXCEPT ![r] = AfterLookup]
  /\ UNCHANGED <<queueVars, dayVars, fresh, remaining, handled, todo, cur, enqVars, deaths>>

(* The call is made and raises: a timeout, or an HTTP error status. *)
LookupFails(r) ==
  /\ pc[r] = "lookup"
  /\ "lookup" \in MayFail
  /\ pc' = [pc EXCEPT ![r] = "fail"]
  /\ UNCHANGED <<queueVars, dayVars, fresh, remaining, handled, todo, cur, enqVars, deaths>>

(* record_indicator_enrichment, with requested_at = the `now` of the run. *)
Record(r) ==
  /\ pc[r] = "record"
  /\ enriched' = [enriched EXCEPT ![target[cur[r]]] =
                    IF fresh[r] THEN "today" ELSE IF @ = "today" THEN "today" ELSE "past"]
  /\ recordedToday' = IF fresh[r] THEN recordedToday + 1 ELSE recordedToday
  /\ pc' = [pc EXCEPT ![r] = "complete"]
  /\ UNCHANGED <<queueVars, fresh, remaining, handled, todo, cur, enqVars, deaths>>

Spent_Twice == 2

(* What a completed lookup takes off remaining_budget. *)
Spent == 1

Complete(r) ==
  /\ pc[r] = "complete"
  /\ status' = [status EXCEPT ![cur[r]] = "completed"]
  /\ remaining' = [remaining EXCEPT ![r] = @ - Spent]
  /\ handled' = [handled EXCEPT ![r] = @ + 1]
  /\ cur' = [cur EXCEPT ![r] = 0]
  /\ pc' = [pc EXCEPT ![r] = "next"]
  /\ UNCHANGED <<target, priority, dayVars, fresh, todo, enqVars, deaths>>

(* The archive or the enrichment cannot be written, or the row not completed. *)
StepFails(r) ==
  /\ pc[r] \in {"record", "complete"} \cap MayFail
  /\ pc' = [pc EXCEPT ![r] = "fail"]
  /\ UNCHANGED <<queueVars, dayVars, fresh, remaining, handled, todo, cur, enqVars, deaths>>

Failed_StaysRunning == "running"

Failed == "failed"

(* `except Exception`: the budget is not charged for the call. *)
MarkFailed(r) ==
  /\ pc[r] = "fail"
  /\ status' = [status EXCEPT ![cur[r]] = Failed]
  /\ handled' = [handled EXCEPT ![r] = @ + 1]
  /\ cur' = [cur EXCEPT ![r] = 0]
  /\ pc' = [pc EXCEPT ![r] = "next"]
  /\ UNCHANGED <<target, priority, dayVars, fresh, remaining, todo, enqVars, deaths>>

Forget(r) ==
  /\ pc' = [pc EXCEPT ![r] = "idle"]
  /\ remaining' = [remaining EXCEPT ![r] = 0]
  /\ handled' = [handled EXCEPT ![r] = 0]
  /\ todo' = [todo EXCEPT ![r] = <<>>]
  /\ cur' = [cur EXCEPT ![r] = 0]
  /\ fresh' = [fresh EXCEPT ![r] = FALSE]

EndRun(r) ==
  /\ pc[r] = "next"
  /\ ~MayTake(r)
  /\ Forget(r)
  /\ UNCHANGED <<queueVars, dayVars, enqVars, deaths>>

Run(r) ==
  \/ StartRun(r)
  \/ ListQueue(r)
  \/ TakeItem(r)
  \/ Lookup(r)
  \/ LookupFails(r)
  \/ Record(r)
  \/ Complete(r)
  \/ StepFails(r)
  \/ MarkFailed(r)
  \/ EndRun(r)

(* A runner is killed, or the update to "running" or "failed" raises. *)
Die(r) ==
  /\ r \in MayDie
  /\ pc[r] # "idle"
  /\ deaths < MaxDeaths
  /\ deaths' = deaths + 1
  /\ Forget(r)
  /\ UNCHANGED <<queueVars, dayVars, enqVars>>

(* Midnight, UTC. *)
NewDay ==
  /\ recordedToday' = 0
  /\ enriched' = [i \in Indicators |-> IF enriched[i] = "today" THEN "past" ELSE enriched[i]]
  /\ fresh' = [r \in Runners |-> FALSE]
  /\ UNCHANGED <<queueVars, pc, remaining, handled, todo, cur, enqVars, deaths>>

-----------------------------------------------------------------------------

Init ==
  /\ status = [q \in Items |-> "none"]
  /\ target = [q \in Items |-> NoIndicator]
  /\ priority = [q \in Items |-> 0]
  /\ enriched = [i \in Indicators |-> "none"]
  /\ recordedToday = 0
  /\ pc = [r \in Runners |-> "idle"]
  /\ fresh = [r \in Runners |-> FALSE]
  /\ remaining = [r \in Runners |-> 0]
  /\ handled = [r \in Runners |-> 0]
  /\ todo = [r \in Runners |-> <<>>]
  /\ cur = [r \in Runners |-> 0]
  /\ epc = [e \in Enqueuers |-> "idle"]
  /\ wanted = [e \in Enqueuers |-> {}]
  /\ asked = [e \in Enqueuers |-> 0]
  /\ found = [e \in Enqueuers |-> [i \in Indicators |-> 0]]
  /\ bumps = [e \in Enqueuers |-> {}]
  /\ deaths = 0

Next ==
  \/ \E e \in Enqueuers : Enqueue(e)
  \/ \E r \in Runners : Run(r) \/ Die(r)
  \/ NewDay

Spec == Init /\ [][Next]_vars

(* enrich-vt is started again and again, its calls time out after 30       *)
(* seconds, and the days pass.  Nothing obliges a scan to find an          *)
(* indicator.                                                              *)
Fairness == WF_vars(NewDay) /\ \A r \in Runners : WF_vars(Run(r))

-----------------------------------------------------------------------------
(* Properties *)

(* Every variable has its type, and the ids of the rows have no gaps. *)
TypeOK ==
  /\ status \in [Items -> {"none", "queued", "running", "completed", "failed"}]
  /\ target \in [Items -> Indicators \cup {NoIndicator}]
  /\ priority \in [Items -> Priorities \cup {0}]
  /\ enriched \in [Indicators -> {"none", "past", "today"}]
  /\ recordedToday \in Nat
  /\ pc \in [Runners -> Working \cup {"idle", "list", "next"}]
  /\ fresh \in [Runners -> BOOLEAN]
  /\ remaining \in [Runners -> Nat] /\ handled \in [Runners -> Nat]
  /\ todo \in [Runners -> Seq(Items)] /\ cur \in [Runners -> Items \cup {0}]
  /\ epc \in [Enqueuers -> {"idle", "commit"}]
  /\ wanted \in [Enqueuers -> SUBSET Indicators]
  /\ asked \in [Enqueuers -> Priorities \cup {0}]
  /\ found \in [Enqueuers -> [Indicators -> Items \cup {0}]]
  /\ bumps \in [Enqueuers -> SUBSET Indicators]
  /\ deaths \in Nat
  /\ \A q \in Items : q \in Rows <=> q <= Cardinality(Rows)

(* No more VT enrichments are requested on a day than vt_daily_budget, for  *)
(* one runner, also when lookups fail, the runner dies or a run goes on     *)
(* past midnight: remaining_budget is a copy made at the start of the run.  *)
RecordedWithinBudget == recordedToday <= Budget

(* An indicator has at most one queued or running row, as the               *)
(* scalar_one_or_none of enqueue_vt_lookup takes for granted.               *)
OneActiveRow == \A q, x \in Rows :
  (q # x /\ target[q] = target[x]) => (q \notin Active(target[q]) \/ x \notin Active(target[x]))

(* A completed row has its enrichment: the queue never forgets an indicator *)
(* whose response was not kept.                                             *)
CompletedIsEnriched == \A q \in Rows : status[q] = "completed" => enriched[target[q]] # "none"

RunningIsInHand == \A q \in Rows : status[q] = "running" => \E r \in Runners : cur[r] = q

(* Until a runner dies, a running row is the one some runner has in hand:   *)
(* no failure of a step leaves a row that no later run lists.               *)
NoneStranded == deaths = 0 => RunningIsInHand

(* A later, less severe analysis never lowers the priority of a row, also   *)
(* when it read the row before another one raised it.                       *)
PriorityNeverDrops ==
  [][\A e \in Enqueuers : CommitEnqueue(e) => \A q \in Items : priority[q] <= priority'[q]]_vars

(* The indicators that have a row of this status. *)
WithStatus(s) == {target[q] : q \in {x \in Rows : status[x] = s}}

Answered == {i \in Indicators : enriched[i] # "none"}

Queue == INSTANCE LookupQueue WITH
  waiting <- WithStatus("queued"),
  inHand <- WithStatus("running"),
  answered <- Answered,
  done <- WithStatus("completed"),
  spent <- recordedToday

(* When neither runs nor scans overlap, the rows and the copies each run    *)
(* makes of them are a queue of indicators: none is asked for while it waits *)
(* or is looked up, none is taken that does not wait, a lookup is completed  *)
(* only with its answer, and a day's answers stay within the budget.         *)
ImplementsQueue == Queue!Spec

(* An indicator has a row of this status. *)
Has(i, s) == \E q \in Items : status[q] = s /\ target[q] = i

(* A commit puts another row before the one that i waits with. *)
Overtakes(e, i) ==
  /\ CommitEnqueue(e)
  /\ \E q, x \in Items :
       /\ status[q] = "queued" /\ target[q] = i
       /\ status'[x] = "queued" /\ priority'[x] > priority'[q]
       /\ ~(status[x] = "queued" /\ priority[x] > priority[q])

(* An indicator waits for ever only if analyses put rows of a higher         *)
(* priority before its own again and again, for ever: the budget comes back  *)
(* each day, and a row that was skipped for budget, for the limit or because *)
(* a run died comes to the front as those before it are taken.               *)
QueuedIsTaken ==
  \A i \in Indicators :
    <>[]Has(i, "queued") => []<><<\E e \in Enqueuers : Overtakes(e, i)>>_vars

(* Until a runner dies, a look-up that was begun comes to its end: its row   *)
(* does not stay running, whichever step fails.                              *)
LookupFinishes ==
  \A i \in Indicators : (deaths = 0 /\ Has(i, "running")) ~> (deaths > 0 \/ ~Has(i, "running"))
=============================================================================
