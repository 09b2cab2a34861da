-------------------------- MODULE RegistryInstalls --------------------------
(***************************************************************************)
(* Install counts of skills that are listed in several registries          *)
(* (services/sync.py, storage/repository.py).  seed-registry and           *)
(* sync-registry fetch the listing of one registry; scan-due takes the     *)
(* listings from the database instead.  All three write, row by row, the   *)
(* source entry of the skill and the total over its entries                *)
(* (upsert_skill_source_entry); the first two also the current weekly      *)
(* installs of the skill (record_skill_registry_observation); and after    *)
(* the scan of a skill its snapshot is attributed to a registry run.       *)
(*                                                                         *)
(* Commands are processes of their own.  A transaction is split where it   *)
(* reads and where it commits, as under READ COMMITTED, and an UPDATE only *)
(* writes the columns that differ from what the transaction has read.      *)
(* A skill has one entry for each registry, and a run is named by its      *)
(* observed_at.                                                            *)
(***************************************************************************)
EXTENDS Naturals, FiniteSets, FiniteSetsExt

CONSTANTS
  Skills,
  Sources,      \* registries, in the order of _registry_source_priority
  Counts,       \* for each registry, the install counts it may report
  Unknown,      \* weekly_installs is None
  DeepSources,  \* registries synced with sync-registry and not only seeded
  Workers,      \* processes that run one command after the other
  MayDie,       \* workers that may die between two steps
  MaxClock,     \* bound on the number of commands that write
  NoEntry       \* there is no source entry yet

Times == 1 .. MaxClock

Count == Nat \cup {Unknown}

(* A row of a listing or of the database, on its way into an entry. *)
Row == [skill : Skills, source : Sources, count : Count, run : Times \cup {0}]

(* run is current_registry_sync_run_id and 0 for none; last is last_seen_at. *)
Entry == [count : Count, run : Times \cup {0}, last : Times]

ASSUME SourcesAssumption == Sources \subseteq Nat /\ IsFiniteSet(Sources) /\ DeepSources \subseteq Sources
ASSUME UnknownAssumption == Unknown \notin Nat
ASSUME CountsAssumption == Counts \in [Sources -> SUBSET Count]
ASSUME ClockAssumption == MaxClock \in Nat
ASSUME DeathAssumption == MayDie \subseteq Workers
ASSUME NoEntryAssumption == NoEntry \notin Entry

VARIABLES
  clock,       \* observed_at of the latest command
  entry,       \* skill_source_entries
  total,       \* current_total_installs and its observed_at, 0 for none
  weekly,      \* current_weekly_installs and its observed_at, 0 for none
  fetches,     \* observations of kind directory_fetch
  attributed,  \* observations of kind scan_attribution
  pc,          \* where each worker is
  job,         \* its command, the observed_at of the command and its rows
  rest,        \* the rows of this pass that it has not begun
  row,         \* the row it is at
  seen,        \* the source entry its transaction has read
  mine,        \* that entry as the transaction leaves it
  was,         \* the total or weekly columns its transaction has read
  new,         \* those columns as the transaction leaves them
  listed,      \* history: what the listing of each run said
  alone,       \* history: workers in a transaction that no like one on the skill has met
  raced,       \* history: skills whose latest upserts met each other
  racedWeekly, \* history: skills on which directory_fetch observations met
  overlapped   \* history: two commands were under way together

skillVars  == <<total, weekly>>
obsVars    == <<fetches, attributed>>
copyVars   == <<seen, mine, was, new>>
raceVars   == <<alone, raced, racedWeekly>>
vars == <<clock, entry, skillVars, obsVars, pc, job, rest, row, copyVars, listed, raceVars, overlapped>>

Upserting == {"flush1", "commit1", "flush2", "commit2"}

NoCount == [value |-> Unknown, at |-> 0]

Idle == [kind |-> "none", at |-> 0, rows |-> {}]

NoRow == [skill |-> Unknown, source |-> 0, count |-> Unknown, run |-> 0]

Goto(w, p) == pc' = [pc EXCEPT ![w] = p]

(* The ORM leaves a column alone that the transaction has not changed. *)
Written(old, read, now) == IF now # read THEN now ELSE old

-----------------------------------------------------------------------------
(* The entries of a skill *)

Known(es) == {src \in Sources : es[src] # NoEntry}

Counted(es) == {src \in Known(es) : es[src].count # Unknown}

Total(es) ==
  [value |-> IF Counted(es) = {} THEN Unknown
             ELSE MapThenSumSet(LAMBDA src : es[src].count, Counted(es)),
   at    |-> Max({es[src].last : src \in Known(es)} \cup {0})]

(* _primary_source_entry: the registry that comes first. *)
Primary(es) == {src \in Known(es) : \A x \in Known(es) : src <= x}

(* A row of list_registry_entries_for_repo_ids.  The registry of a skill    *)
(* without entries is told from its registry_url.                           *)
RowsOf(s) ==
  IF Known(entry[s]) = {}
    THEN {[skill |-> s, source |-> src, count |-> weekly[s].value, run |-> 0] : src \in Sources}
    ELSE {[skill |-> s, source |-> src, count |-> entry[s][src].count, run |-> entry[s][src].run] :
            src \in Primary(entry[s])}

-----------------------------------------------------------------------------
(* Commands *)

Overlap(w) == overlapped' = (overlapped \/ \E x \in Workers \ {w} : pc[x] # "idle")

(* The skills S of one registry with the counts it reports. *)
Listing(S, src, c, now) ==
  {[skill |-> s, source |-> src, count |-> c[s], run |-> now] : s \in S}

(* seed-registry or sync-registry: the listing is fetched, `now` is taken    *)
(* and the run recorded.                                                     *)
StartSync(w, k, src) ==
  LET now == clock + 1
  IN /\ pc[w] = "idle"
     /\ k = "sync" => src \in DeepSources
     /\ clock < MaxClock
     /\ clock' = now
     /\ \E S \in (SUBSET Skills) \ {{}} : \E c \in [S -> Counts[src]] :
          LET rows == Listing(S, src, c, now)
          IN /\ job' = [job EXCEPT ![w] = [kind |-> k, at |-> now, rows |-> rows]]
             /\ rest' = [rest EXCEPT ![w] = rows]
             /\ listed' = listed \cup rows
     /\ Goto(w, "seed")
     /\ Overlap(w)
     /\ UNCHANGED <<entry, skillVars, obsVars, row, copyVars, raceVars>>

(* scan-due: the tracked rows are read once ... *)
ListTracked(w) ==
  /\ pc[w] = "idle"
  /\ \E S \in (SUBSET Skills) \ {{}} :
       \E rows \in SUBSET UNION {RowsOf(s) : s \in S} :
         /\ \A s \in S : \E r \in rows : r.skill = s
         /\ \A r, x \in rows : r.skill = x.skill => r = x
         /\ job' = [job EXCEPT ![w] = [kind |-> "scan", at |-> 0, rows |-> rows]]
         /\ rest' = [rest EXCEPT ![w] = rows]
  /\ Goto(w, "begin")
  /\ Overlap(w)
  /\ UNCHANGED <<clock, entry, skillVars, obsVars, row, copyVars, listed, raceVars>>

(* ... and ingest_registry_snapshot takes `now` for all of them. *)
StartScan(w) ==
  /\ pc[w] = "begin"
  /\ clock < MaxClock
  /\ clock' = clock + 1
  /\ job' = [job EXCEPT ![w].at = clock + 1]
  /\ Goto(w, "seed")
  /\ UNCHANGED <<entry, skillVars, obsVars, rest, row, copyVars, listed, raceVars, overlapped>>

(* The loop over the rows, first of _seed_registry_metadata and then of the  *)
(* scan itself, comes to its next row.                                       *)
NextRow(w, r, loop) ==
  /\ pc[w] = loop
  /\ r \in rest[w]
  /\ rest' = [rest EXCEPT ![w] = @ \ {r}]
  /\ row' = [row EXCEPT ![w] = r]

CloseSession(w) ==
  /\ seen' = [seen EXCEPT ![w] = NoEntry]
  /\ mine' = [mine EXCEPT ![w] = NoEntry]
  /\ was' = [was EXCEPT ![w] = NoCount]
  /\ new' = [new EXCEPT ![w] = NoCount]
  /\ alone' = alone \ {w}

Forget(w) ==
  /\ Goto(w, "idle")
  /\ job' = [job EXCEPT ![w] = Idle]
  /\ rest' = [rest EXCEPT ![w] = {}]
  /\ row' = [row EXCEPT ![w] = NoRow]
  /\ CloseSession(w)

(* The seed pass is over; seed-registry ends, the others scan. *)
EndSeed(w) ==
  /\ pc[w] = "seed"
  /\ rest[w] = {}
  /\ job[w].kind # "seed"
  /\ rest' = [rest EXCEPT ![w] = job[w].rows]
  /\ Goto(w, "scan")
  /\ UNCHANGED <<clock, entry, skillVars, obsVars, job, row, copyVars, listed, raceVars, overlapped>>

EndCommand(w) ==
  /\ pc[w] = (IF job[w].kind = "seed" THEN "seed" ELSE "scan")
  /\ rest[w] = {}
  /\ Forget(w)
  /\ UNCHANGED <<clock, entry, skillVars, obsVars, listed, raced, racedWeekly, overlapped>>

(* The files of a skill cannot be loaded: the row is skipped. *)
SkipRow(w, r) ==
  /\ NextRow(w, r, "scan")
  /\ UNCHANGED <<clock, entry, skillVars, obsVars, pc, job, copyVars, listed, raceVars, overlapped>>

-----------------------------------------------------------------------------
(* upsert_skill_source_entry *)

(* A transaction of w on skill s begins: those of the same kind that are     *)
(* under way meet it.                                                        *)
Meet(w, s, pcs) ==
  LET others == {x \in Workers \ {w} : pc[x] \in pcs /\ row[x].skill = s}
  IN alone' = IF others = {} THEN alone \cup {w} ELSE alone \ (others \cup {w})

(* The select of the entry; both passes write it. *)
SelectEntry(w, r) ==
  /\ \/ NextRow(w, r, "seed") /\ Goto(w, "flush1")
     \/ NextRow(w, r, "scan") /\ Goto(w, "flush2")
  /\ seen' = [seen EXCEPT ![w] = entry[r.skill][r.source]]
  /\ Meet(w, r.skill, Upserting)
  /\ UNCHANGED <<clock, entry, skillVars, obsVars, job, mine, was, new, listed, raced, racedWeekly, overlapped>>

RunOf_Ahead(w) == job[w].at + 1

(* record_directory_fetch is off for scan-due, so its entries get no run. *)
RunOf(w) == IF job[w].kind = "scan" THEN 0 ELSE job[w].at

Later(a, b) == IF a < b THEN b ELSE a

Merged_KeepsOld(w) ==
  IF seen[w] = NoEntry
    THEN [count |-> row[w].count, run |-> RunOf(w), last |-> job[w].at]
    ELSE [count |-> row[w].count, run |-> seen[w].run, last |-> Later(seen[w].last, job[w].at)]

(* The entry as the transaction leaves it: the count is taken as it comes.  *)
Merged(w) ==
  IF seen[w] = NoEntry
    THEN [count |-> row[w].count, run |-> RunOf(w), last |-> job[w].at]
    ELSE [count |-> row[w].count,
          run   |-> IF job[w].at >= seen[w].last /\ RunOf(w) # 0 THEN RunOf(w) ELSE seen[w].run,
          last  |-> Later(seen[w].last, job[w].at)]

(* x has flushed a change of the entry and holds its row lock. *)
Locks(x, s, src) ==
  /\ pc[x] \in {"commit1", "commit2"}
  /\ row[x].skill = s
  /\ row[x].source = src
  /\ mine[x] # seen[x]

Recompute_BeforeFlush(w, s) == Total(entry[s])

(* _recompute_skill_total_installs: its own entry as it left it in this      *)
(* session, the others as they are committed.                                *)
Recompute(w, s) == Total([entry[s] EXCEPT ![row[w].source] = Merged(w)])

Flushing(w) ==
  /\ pc[w] \in {"flush1", "flush2"}
  /\ Merged(w) # seen[w] => \A x \in Workers \ {w} : ~Locks(x, row[w].skill, row[w].source)

FlushEntry(w) ==
  LET s == row[w].skill
  IN /\ Flushing(w)
     /\ ~(seen[w] = NoEntry /\ entry[s][row[w].source] # NoEntry)
     /\ mine' = [mine EXCEPT ![w] = Merged(w)]
     /\ was' = [was EXCEPT ![w] = total[s]]
     /\ new' = [new EXCEPT ![w] = Recompute(w, s)]
     /\ Goto(w, IF pc[w] = "flush1" THEN "commit1" ELSE "commit2")
     /\ UNCHANGED <<clock, entry, skillVars, obsVars, job, rest, row, seen, listed, raceVars, overlapped>>

(* The insert meets a row that was not there: IntegrityError ends the command. *)
InsertRefused(w) ==
  /\ Flushing(w)
  /\ seen[w] = NoEntry
  /\ entry[row[w].skill][row[w].source] # NoEntry
  /\ Forget(w)
  /\ UNCHANGED <<clock, entry, skillVars, obsVars, listed, raced, racedWeekly, overlapped>>

WrittenEntry(old, read, now) ==
  IF read = NoEntry
    THEN now
    ELSE [count |-> Written(old.count, read.count, now.count),
          run   |-> Written(old.run, read.run, now.run),
          last  |-> Written(old.last, read.last, now.last)]

WrittenPair(old, read, now) ==
  [value |-> Written(old.value, read.value, now.value), at |-> Written(old.at, read.at, now.at)]

(* What follows in the first pass and in the second. *)
AfterEntry(w) ==
  IF pc[w] = "commit1"
    THEN IF job[w].kind = "scan" THEN "seed" ELSE "observe"
    ELSE "attribute"

CommitEntry(w) ==
  LET s == row[w].skill
      src == row[w].source
  IN /\ pc[w] \in {"commit1", "commit2"}
     /\ entry' = [entry EXCEPT ![s][src] = WrittenEntry(@, seen[w], mine[w])]
     /\ total' = [total EXCEPT ![s] = WrittenPair(@, was[w], new[w])]
     /\ Goto(w, AfterEntry(w))
     /\ raced' = IF w \in alone THEN raced \ {s} ELSE raced \cup {s}
     /\ CloseSession(w)
     /\ UNCHANGED <<clock, weekly, obsVars, job, rest, row, listed, racedWeekly, overlapped>>

-----------------------------------------------------------------------------
(* record_skill_registry_observation *)

Newer_Always(w) == TRUE

(* An older directory fetch is recorded but does not become the current one. *)
Newer(w) == job[w].at >= was[w].at

(* kind directory_fetch: the select of the skill ... *)
ReadSkill(w) ==
  /\ pc[w] = "observe"
  /\ was' = [was EXCEPT ![w] = weekly[row[w].skill]]
  /\ Meet(w, row[w].skill, {"record"})
  /\ Goto(w, "record")
  /\ UNCHANGED <<clock, entry, skillVars, obsVars, job, rest, row, seen, mine, new>>
  /\ UNCHANGED <<listed, raced, racedWeekly, overlapped>>

(* ... and the commit of the observation and of the current metrics. *)
RecordFetch(w) ==
  LET s == row[w].skill
      now == [value |-> row[w].count, at |-> job[w].at]
  IN /\ pc[w] = "record"
     /\ fetches' = fetches \cup {[skill |-> s, at |-> job[w].at, count |-> row[w].count]}
     /\ weekly' = IF Newer(w) THEN [weekly EXCEPT ![s] = WrittenPair(@, was[w], now)] ELSE weekly
     /\ racedWeekly' = IF w \in alone THEN racedWeekly ELSE racedWeekly \cup {s}
     /\ Goto(w, "seed")
     /\ CloseSession(w)
     /\ UNCHANGED <<clock, entry, total, attributed, job, rest, row, listed, raced, overlapped>>

ContextRun_OfSkill(w) == weekly[row[w].skill].at

(* The run an attribution names: scan-due hands down the one it has listed,  *)
(* sync-registry asks for that of the primary entry.                         *)
ContextRun(w) ==
  IF job[w].kind = "scan"
    THEN row[w].run
    ELSE LET es == entry[row[w].skill] IN (CHOOSE e \in {es[src] : src \in Primary(es)} : TRUE).run

(* kind scan_attribution: recorded once the snapshot is there; its payload   *)
(* tells the registry of the row.                                            *)
Attribute(w) ==
  /\ pc[w] = "attribute"
  /\ attributed' = attributed \cup {[row[w] EXCEPT !.run = ContextRun(w)]}
  /\ Goto(w, "scan")
  /\ UNCHANGED <<clock, entry, skillVars, fetches, job, rest, row, copyVars, listed, raceVars, overlapped>>

(* The command is killed: an open transaction is rolled back. *)
Die(w) ==
  /\ w \in MayDie
  /\ pc[w] # "idle"
  /\ Forget(w)
  /\ UNCHANGED <<clock, entry, skillVars, obsVars, listed, raced, racedWeekly, overlapped>>

-----------------------------------------------------------------------------

Init ==
  /\ clock = 0
  /\ entry = [s \in Skills |-> [src \in Sources |-> NoEntry]]
  /\ total = [s \in Skills |-> NoCount]
  /\ weekly = [s \in Skills |-> NoCount]
  /\ fetches = {}
  /\ attributed = {}
  /\ pc = [w \in Workers |-> "idle"]
  /\ job = [w \in Workers |-> Idle]
  /\ rest = [w \in Workers |-> {}]
  /\ row = [w \in Workers |-> NoRow]
  /\ seen = [w \in Workers |-> NoEntry]
  /\ mine = [w \in Workers |-> NoEntry]
  /\ was = [w \in Workers |-> NoCount]
  /\ new = [w \in Workers |-> NoCount]
  /\ listed = {}
  /\ alone = {}
  /\ raced = {}
  /\ racedWeekly = {}
  /\ overlapped = FALSE

Start(w) ==
  \/ \E k \in {"seed", "sync"}, src \in Sources : StartSync(w, k, src)
  \/ ListTracked(w)
  \/ StartScan(w)

Transact(w) ==
  \/ \E r \in rest[w] : SelectEntry(w, r)
  \/ FlushEntry(w)
  \/ InsertRefused(w)
  \/ CommitEntry(w)
  \/ ReadSkill(w)
  \/ RecordFetch(w)
  \/ Attribute(w)

Proceed(w) ==
  \/ \E r \in rest[w] : SkipRow(w, r)
  \/ EndSeed(w)
  \/ EndCommand(w)

Next == \E w \in Workers : Start(w) \/ Transact(w) \/ Proceed(w) \/ Die(w)

Spec == Init /\ [][Next]_vars

-----------------------------------------------------------------------------
(* Properties *)

PC == {"idle", "begin", "seed", "scan", "observe", "record", "attribute"} \cup Upserting

Pair == [value : Count, at : Times \cup {0}]

Job == [kind : {"none", "seed", "sync", "scan"}, at : Times \cup {0}, rows : SUBSET Row]

(* Every variable keeps its type, totals are numbers or unknown, and a worker *)
(* has a time and a row when it needs them.                                  *)
TypeOK ==
  /\ clock \in Times \cup {0}
  /\ entry \in [Skills -> [Sources -> Entry \cup {NoEntry}]]
  /\ total \in [Skills -> Pair] /\ weekly \in [Skills -> Pair]
  /\ \A f \in fetches : f.skill \in Skills /\ f.at \in Times /\ f.count \in Count
  /\ pc \in [Workers -> PC]
  /\ job \in [Workers -> Job]
  /\ \A w \in Workers : pc[w] \notin {"idle", "begin"} => job[w].at \in Times
  /\ rest \in [Workers -> SUBSET Row]
  /\ row \in [Workers -> Row \cup {NoRow}]
  /\ \A w \in Workers : pc[w] \in Upserting \cup {"observe", "record", "attribute"} => row[w] \in Row
  /\ seen \in [Workers -> Entry \cup {NoEntry}]
  /\ mine \in [Workers -> Entry \cup {NoEntry}]
  /\ was \in [Workers -> Pair] /\ new \in [Workers -> Pair]
  /\ \A w \in Workers : pc[w] \in {"commit1", "commit2"} => mine[w] # NoEntry
  /\ \A w \in Workers : pc[w] \in Upserting /\ seen[w] # NoEntry => entry[row[w].skill][row[w].source] # NoEntry
  /\ listed \subseteq Row
  /\ alone \subseteq Workers
  /\ raced \subseteq Skills
  /\ racedWeekly \subseteq Skills

(* current_total_installs is the sum over the entries of the skill, and its  *)
(* time the latest of theirs, whatever commands overlap, unless the latest   *)
(* upserts of this very skill met each other; the next one that meets none   *)
(* repairs the total.                                                        *)
TotalIsSum == \A s \in Skills \ raced : total[s] = Total(entry[s])

(* The current weekly installs are those of the newest directory_fetch       *)
(* observation of the skill, also when an older fetch is written later.      *)
CurrentIsNewest ==
  \A s \in Skills \ racedWeekly :
    /\ \A f \in fetches : f.skill = s => f.at <= weekly[s].at
    /\ weekly[s] # NoCount => [skill |-> s, at |-> weekly[s].at, count |-> weekly[s].value] \in fetches

(* The count of an entry is the one its run has observed: the total is the   *)
(* sum of the latest observed installs.                                      *)
CountIsOfItsRun ==
  \A s \in Skills : \A src \in Known(entry[s]) :
    LET e == entry[s][src]
    IN e.run # 0 => [skill |-> s, source |-> src, count |-> e.count, run |-> e.run] \in listed

(* The same as long as one command ends before the next begins: what         *)
(* scan-due writes back is what it has read.                                 *)
CountIsOfItsRunInTurn == ~overlapped => CountIsOfItsRun

(* The run that a scan attribution names has listed the skill, in the        *)
(* registry that the attribution tells or in one that comes before it.  If   *)
(* in its own, the run has listed it with the count that is attributed; if   *)
(* in one before it, which is what sync-registry of a later registry does,   *)
(* the count is still one that its registry has listed.                      *)
AttributionIsOfItsRun ==
  ~overlapped => \A a \in attributed :
    a.run # 0 => \E r, q \in listed :
      /\ r.skill = a.skill /\ q.skill = a.skill
      /\ r.run = a.run
      /\ q.source = a.source /\ q.count = a.count
      /\ r.source <= q.source
      /\ r.source = q.source => r = q
=============================================================================
