------------------------------ MODULE Snapshots ------------------------------
(***************************************************************************)
(* How the analyses of one repository become snapshots                     *)
(* (storage/repository.py, services/sync.py, services/repo_analysis.py,    *)
(* services/ingestion.py).  There are two ways:                            *)
(*                                                                         *)
(*  - persist_repo_analysis writes a whole checkout in one transaction;    *)
(*    ingest-analysis-spool and analyze-mirrored-repos call it (Bulk);     *)
(*  - the scan pass of sync-registry and scan-due writes each skill in     *)
(*    several transactions: its indicators, its snapshot with the latest_* *)
(*    columns of the skill, and one link after the other (Stepwise).       *)
(*                                                                         *)
(* Writers are processes that take no common lock; what the spool promises *)
(* about claims does not hold between different commands.  A transaction   *)
(* is split where it reads and where it commits, an id is taken when the   *)
(* row is inserted, and the session writes only the columns that differ    *)
(* from what it has read.  Waiting for row locks is left out: it only      *)
(* takes interleavings away.                                               *)
(***************************************************************************)
EXTENDS Naturals, FiniteSets

CONSTANTS
  Skills,      \* of the repository
  Indicators,
  Reports,     \* what an analysis may say of a skill
  Bulk,        \* writers that record a checkout in one transaction
  Stepwise,    \* writers that record one skill after the other
  MaxScans     \* bound on the number of scans

Severities == {"none", "medium", "high", "critical"}

Report == [found : SUBSET Indicators, severity : Severities]

Writers == Bulk \cup Stepwise

ASSUME ReportsAssumption == Reports \subseteq Report
ASSUME WritersAssumption == Bulk \cap Stepwise = {}
ASSUME ScansAssumption == MaxScans \in Nat

VARIABLES
  known,    \* indicators that have a row
  snaps,    \* skill_snapshots
  links,    \* skill_indicator_links
  latest,   \* latest_snapshot_id and latest_severity of each skill
  ids,      \* the last id the sequence has given
  scans,    \* the number of scans begun
  marked,   \* scans at whose end the repository was put off
  pc,       \* where each writer is
  scan,     \* the number of its scan
  plan,     \* the report on each skill of its scan
  todo,     \* skills it has not come to
  visited,  \* skills it is recording
  prev,     \* the indicators of their previous snapshots, as it has read them
  seen,     \* their latest_* columns, as it has read them
  missing,  \* indicators it is to insert
  draft,    \* snapshots it has inserted
  alone,    \* history: writer and skill that no other has met
  exact,    \* history: snapshots committed by a writer alone on the skill
  raced     \* history: skills whose last snapshot was committed by one that was not

dbVars == <<known, snaps, links, latest, ids>>
jobVars == <<scan, plan, todo>>
sessionVars == <<visited, prev, seen, missing, draft>>
historyVars == <<alone, exact, raced>>
vars == <<dbVars, scans, marked, pc, jobVars, sessionVars, historyVars>>

Scan == 1 .. MaxScans

Snapshot == [id : Nat \ {0}, skill : Skills, scan : Scan, report : Report]

Link == [snap : Nat \ {0}, ind : Indicators, new : BOOLEAN]

Blank == [id |-> 0, severity |-> "none"]

Nothing == [s \in {} |-> {}]

Goto(w, p) == pc' = [pc EXCEPT ![w] = p]

(* The ORM leaves a column alone that the session has not changed. *)
Written(old, read, now) == IF now # read THEN now ELSE old

-----------------------------------------------------------------------------
(* What is recorded *)

Of(s) == {x \in snaps : x.skill = s}

LinkedBy(id) == {l.ind : l \in {k \in links : k.snap = id}}

IsNewest(x) == \A y \in Of(x.skill) : y.id <= x.id

Previous_All(s) == UNION {LinkedBy(x.id) : x \in Of(s)}

(* get_latest_indicator_ids_for_skill, _latest_indicator_ids_for_skills: the *)
(* links of the snapshot with the highest id.                                *)
Previous(s) == UNION {LinkedBy(x.id) : x \in {y \in Of(s) : IsNewest(y)}}

LinkOf_First(w, x, i) == [snap |-> x.id, ind |-> i, new |-> i \notin known]

(* The link of a snapshot to an indicator of its report. *)
LinkOf(w, x, i) == [snap |-> x.id, ind |-> i, new |-> i \notin prev[w][x.skill]]

LinksOf(w, x) == {LinkOf(w, x, i) : i \in x.report.found}

LatestAfter_Once(w, x) ==
  IF latest[x.skill].id = 0 THEN [id |-> x.id, severity |-> x.report.severity] ELSE latest[x.skill]

(* latest_snapshot_id and latest_severity as the commit leaves them.  The   *)
(* other latest_* columns are written like the severity.                    *)
LatestAfter(w, x) ==
  [id       |-> Written(latest[x.skill].id, seen[w][x.skill].id, x.id),
   severity |-> Written(latest[x.skill].severity, seen[w][x.skill].severity, x.report.severity)]

(* w begins to record the skills S: it meets those that are recording one of *)
(* them, and they meet it unless their snapshot is committed already.        *)
Meet(w, S) ==
  LET others(s) == {x \in Writers \ {w} : s \in visited[x]}
      spoilt == UNION {{<<x, s>> : x \in {y \in others(s) : pc[y] # "links"}} : s \in S}
  IN alone' = (alone \ spoilt) \cup {<<w, s>> : s \in {t \in S : others(t) = {}}}

Commit(w) ==
  /\ snaps' = snaps \cup draft[w]
  /\ latest' = [s \in Skills |->
                  IF \E x \in draft[w] : x.skill = s
                    THEN LatestAfter(w, CHOOSE x \in draft[w] : x.skill = s)
                    ELSE latest[s]]
  /\ exact' = exact \cup {x.id : x \in {y \in draft[w] : <<w, y.skill>> \in alone}}
  /\ raced' = {s \in Skills : IF \E x \in draft[w] : x.skill = s THEN <<w, s>> \notin alone ELSE s \in raced}
  /\ alone' = alone \ ({w} \X Skills)

CloseSession(w) ==
  /\ visited' = [visited EXCEPT ![w] = {}]
  /\ prev' = [prev EXCEPT ![w] = Nothing]
  /\ seen' = [seen EXCEPT ![w] = Nothing]
  /\ missing' = [missing EXCEPT ![w] = {}]
  /\ draft' = [draft EXCEPT ![w] = {}]

Leave(w) ==
  /\ Goto(w, "idle")
  /\ scan' = [scan EXCEPT ![w] = 0]
  /\ plan' = [plan EXCEPT ![w] = Nothing]
  /\ todo' = [todo EXCEPT ![w] = {}]

-----------------------------------------------------------------------------
(* Both ways *)

(* A scan begins with the skills of a checkout or of a listing, each once    *)
(* (_dedupe_discovered_skills, _dedupe_repo_entries).                        *)
Begin(w, S, r) ==
  /\ pc[w] = "idle"
  /\ scans < MaxScans
  /\ scans' = scans + 1
  /\ scan' = [scan EXCEPT ![w] = scans + 1]
  /\ plan' = [plan EXCEPT ![w] = r]
  /\ todo' = [todo EXCEPT ![w] = S]

ReadPrevious(w) ==
  /\ pc[w] = "previous"
  /\ prev' = [prev EXCEPT ![w] = [s \in visited[w] |-> Previous(s)]]
  /\ Goto(w, IF w \in Bulk THEN "indicators" ELSE "insert")
  /\ UNCHANGED <<dbVars, scans, marked, jobVars, visited, seen, missing, draft, historyVars>>

NextId_Reused == ids

NextId == ids + 1

(* session.add(snapshot) and flush: the id is taken, nobody else sees it yet. *)
InsertSnapshot(w, s) ==
  /\ pc[w] = "insert"
  /\ s \in visited[w]
  /\ \A x \in draft[w] : x.skill # s
  /\ ids' = NextId
  /\ draft' = [draft EXCEPT ![w] =
       @ \cup {[id |-> NextId, skill |-> s, scan |-> scan[w], report |-> plan[w][s]]}]
  /\ Goto(w, IF w \in Bulk THEN "insert" ELSE "load")
  /\ UNCHANGED <<known, snaps, links, latest, scans, marked, jobVars, visited, prev, seen, missing, historyVars>>

(* The writer is killed, or a statement fails: the unique constraint of an   *)
(* indicator that another has inserted, statement_timeout, a deadlock.  The  *)
(* open transaction is rolled back and the command or the ingest ends.       *)
Abort(w) ==
  /\ pc[w] # "idle"
  /\ Leave(w)
  /\ CloseSession(w)
  /\ alone' = alone \ ({w} \X Skills)
  /\ UNCHANGED <<dbVars, scans, marked, exact, raced>>

-----------------------------------------------------------------------------
(* persist_repo_analysis *)

(* The checkout is analysed; then the transaction loads the skills. *)
BeginBulk(w, S, r) ==
  /\ Begin(w, S, r)
  /\ visited' = [visited EXCEPT ![w] = S]
  /\ seen' = [seen EXCEPT ![w] = [s \in S |-> latest[s]]]
  /\ Meet(w, S)
  /\ Goto(w, "previous")
  /\ UNCHANGED <<dbVars, marked, prev, missing, draft, exact, raced>>

(* _upsert_indicator_rows: the select ... *)
ReadIndicators(w) ==
  /\ pc[w] = "indicators"
  /\ missing' = [missing EXCEPT ![w] = (UNION {plan[w][s].found : s \in visited[w]}) \ known]
  /\ Goto(w, "flush")
  /\ UNCHANGED <<dbVars, scans, marked, jobVars, visited, prev, seen, draft, historyVars>>

(* ... and the flush, which fails if one that was missing is there by now.   *)
FlushIndicators(w) ==
  /\ pc[w] = "flush"
  /\ missing[w] \cap known = {}
  /\ Goto(w, "insert")
  /\ UNCHANGED <<dbVars, scans, marked, jobVars, sessionVars, historyVars>>

CommitBulk(w) ==
  /\ pc[w] = "insert"
  /\ w \in Bulk
  /\ \A s \in visited[w] : \E x \in draft[w] : x.skill = s
  /\ known' = known \cup missing[w]
  /\ links' = links \cup UNION {LinksOf(w, x) : x \in draft[w]}
  /\ Commit(w)
  /\ marked' = marked \cup {scan[w]}
  /\ Leave(w)
  /\ CloseSession(w)
  /\ UNCHANGED <<ids, scans>>

-----------------------------------------------------------------------------
(* The scan pass of ingest_registry_snapshot *)

BeginScan(w, S, r) ==
  /\ Begin(w, S, r)
  /\ Goto(w, "next")
  /\ UNCHANGED <<dbVars, marked, sessionVars, historyVars>>

(* The files of a skill cannot be loaded. *)
SkipSkill(w, s) ==
  /\ pc[w] = "next"
  /\ s \in todo[w]
  /\ todo' = [todo EXCEPT ![w] = @ \ {s}]
  /\ UNCHANGED <<dbVars, scans, marked, pc, scan, plan, sessionVars, historyVars>>

(* The skill is analysed and upsert_indicator called for what is found.     *)
TakeSkill(w, s) ==
  /\ pc[w] = "next"
  /\ s \in todo[w]
  /\ todo' = [todo EXCEPT ![w] = @ \ {s}]
  /\ visited' = [visited EXCEPT ![w] = {s}]
  /\ known' = known \cup plan[w][s].found
  /\ Meet(w, {s})
  /\ Goto(w, "previous")
  /\ UNCHANGED <<snaps, links, latest, ids, scans, marked, scan, plan, prev, seen, missing, draft, exact, raced>>

(* record_skill_snapshot: session.get of the skill ... *)
LoadSkill(w) ==
  /\ pc[w] = "load"
  /\ seen' = [seen EXCEPT ![w] = [s \in visited[w] |-> latest[s]]]
  /\ Goto(w, "commit")
  /\ UNCHANGED <<dbVars, scans, marked, jobVars, visited, prev, missing, draft, historyVars>>

(* ... and the commit. *)
CommitSnapshot(w) ==
  /\ pc[w] = "commit"
  /\ Commit(w)
  /\ Goto(w, "links")
  /\ UNCHANGED <<known, links, ids, scans, marked, jobVars, sessionVars>>

(* record_skill_indicator_link, for each indicator of the report in turn.    *)
RecordLink(w, x, i) ==
  /\ pc[w] = "links"
  /\ x \in draft[w]
  /\ i \in x.report.found \ LinkedBy(x.id)
  /\ links' = links \cup {LinkOf(w, x, i)}
  /\ UNCHANGED <<known, snaps, latest, ids, scans, marked, pc, jobVars, sessionVars, historyVars>>

LinksDone_Early(w) == TRUE

LinksDone(w) == \A x \in draft[w] : x.report.found = LinkedBy(x.id)

EndSkill(w) ==
  /\ pc[w] = "links"
  /\ LinksDone(w)
  /\ CloseSession(w)
  /\ Goto(w, "next")
  /\ UNCHANGED <<dbVars, scans, marked, jobVars, historyVars>>

(* mark_repo_scanned, also when every skill was skipped. *)
MarkScanned(w) ==
  /\ pc[w] = "next"
  /\ todo[w] = {}
  /\ marked' = marked \cup {scan[w]}
  /\ Leave(w)
  /\ UNCHANGED <<dbVars, scans, sessionVars, historyVars>>

-----------------------------------------------------------------------------

Init ==
  /\ known = {}
  /\ snaps = {}
  /\ links = {}
  /\ latest = [s \in Skills |-> Blank]
  /\ ids = 0
  /\ scans = 0
  /\ marked = {}
  /\ pc = [w \in Writers |-> "idle"]
  /\ scan = [w \in Writers |-> 0]
  /\ plan = [w \in Writers |-> Nothing]
  /\ todo = [w \in Writers |-> {}]
  /\ visited = [w \in Writers |-> {}]
  /\ prev = [w \in Writers |-> Nothing]
  /\ seen = [w \in Writers |-> Nothing]
  /\ missing = [w \in Writers |-> {}]
  /\ draft = [w \in Writers |-> {}]
  /\ alone = {}
  /\ exact = {}
  /\ raced = {}

Either(w) ==
  \/ ReadPrevious(w)
  \/ \E s \in visited[w] : InsertSnapshot(w, s)
  \/ Abort(w)

Persist(w) ==
  \/ \E S \in (SUBSET Skills) \ {{}} : \E r \in [S -> Reports] : BeginBulk(w, S, r)
  \/ ReadIndicators(w)
  \/ FlushIndicators(w)
  \/ CommitBulk(w)

Step(w) ==
  \/ \E S \in (SUBSET Skills) \ {{}} : \E r \in [S -> Reports] : BeginScan(w, S, r)
  \/ \E s \in todo[w] : SkipSkill(w, s) \/ TakeSkill(w, s)
  \/ LoadSkill(w)
  \/ CommitSnapshot(w)
  \/ \E x \in draft[w], i \in Indicators : RecordLink(w, x, i)
  \/ EndSkill(w)
  \/ MarkScanned(w)

Next ==
  \/ \E w \in Writers : Either(w)
  \/ \E w \in Bulk : Persist(w)
  \/ \E w \in Stepwise : Step(w)

Spec == Init /\ [][Next]_vars

-----------------------------------------------------------------------------
(* Properties *)

PC == {"idle", "previous", "indicators", "flush", "insert", "next", "load", "commit", "links"}

(* Every variable keeps its type, snapshots are told apart by their ids, and *)
(* nobody holds an id that is in use.                                        *)
TypeOK ==
  /\ known \subseteq Indicators
  /\ snaps \subseteq Snapshot
  /\ links \subseteq Link
  /\ latest \in [Skills -> [id : Nat, severity : Severities]]
  /\ ids \in Nat
  /\ scans \in 0 .. MaxScans
  /\ marked \subseteq Scan
  /\ pc \in [Writers -> PC]
  /\ scan \in [Writers -> 0 .. MaxScans]
  /\ \A w \in Writers : pc[w] # "idle" => scan[w] \in Scan
  /\ todo \in [Writers -> SUBSET Skills]
  /\ visited \in [Writers -> SUBSET Skills]
  /\ missing \in [Writers -> SUBSET Indicators]
  /\ draft \in [Writers -> SUBSET Snapshot]
  /\ \A x, y \in snaps \cup UNION {draft[w] : w \in Writers} : x.id = y.id => x = y
  /\ \A x \in snaps \cup UNION {draft[w] : w \in Writers} : x.id <= ids

(* The latest_* columns of a skill, which the listing, the search and the    *)
(* graph take for its current state, are those of the snapshot with the      *)
(* highest id, which is the one the next scan compares with, unless the      *)
(* writer of its last snapshot met another one on the skill.                 *)
LatestIsNewest ==
  \A s \in Skills \ raced :
    /\ Of(s) = {} <=> latest[s] = Blank
    /\ \A x \in Of(s) : IsNewest(x) => latest[s] = [id |-> x.id, severity |-> x.report.severity]

(* The first snapshot of a skill that links an indicator flags it as new,    *)
(* however scans overlap and wherever they are cut short: no find is taken   *)
(* for an old one (is_new_in_snapshot).                                      *)
FirstFindIsFlagged ==
  \A x \in snaps, l \in links :
    l.snap = x.id /\ ~l.new => \E y \in Of(x.skill) : y.id < x.id /\ l.ind \in LinkedBy(y.id)

Predecessor(x, y) == y \in Of(x.skill) /\ y.id < x.id /\ \A z \in Of(x.skill) : z.id < x.id => z.id <= y.id

(* What a snapshot flags as new is what its report has and the report of the *)
(* snapshot before has not, if it met no other writer and the one before was *)
(* not cut short among its links.                                            *)
NewIsExact ==
  \A x \in snaps, y \in snaps, l \in links :
    x.id \in exact /\ l.snap = x.id /\ Predecessor(x, y) /\ y.scan \in marked
      => (l.new <=> l.ind \notin y.report.found)

(* A scan after which the repository is put off for the interval has all its *)
(* links: what it leaves behind is not repaired before the next one is due.  *)
MarkedIsWhole ==
  \A x \in snaps : x.scan \in marked => LinkedBy(x.id) = x.report.found
=============================================================================
