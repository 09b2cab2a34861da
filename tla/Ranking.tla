------------------------------- MODULE Ranking -------------------------------
(***************************************************************************)
(* The listing of skills (list_skills_page of storage/repository.py): its  *)
(* filter and its order are computed in the database, from the current     *)
(* installs, the second newest directory fetch and the latest_* columns;   *)
(* what it shows of a skill is computed in Python from the skill, all its  *)
(* observations and its latest snapshot.  A reader goes through the pages, *)
(* each three statements that see the database of their own moment, while  *)
(* registries are fetched and skills scanned.                              *)
(*                                                                         *)
(* A fetch and a scan are one step each: RegistryInstalls and Snapshots    *)
(* model their transactions.  A scan may find a skill that no registry has *)
(* listed.  Scan attributions are left out: they only count for a skill    *)
(* without a directory fetch (_aggregate_metric_observations), and the     *)
(* scan of one gives them no count, as no registry has told any.           *)
(***************************************************************************)
EXTENDS Scoring, SequencesExt, FiniteSetsExt

Sorts == {"priority", "risk", "installs", "growth"}

CONSTANTS
  Skills,    \* their ids
  Sources,   \* the registries
  NotListed, \* a skill is not in a registry
  Listings,  \* what fetches may find of a skill: counts by registry
  Evidence,  \* what scans may find in a skill
  Views,     \* what readers ask for: a sort, a severity, bounds of the installs
  PageSize,
  MaxWrites  \* bound on the fetches and scans

ASSUME SkillsAssumption == Skills \subseteq Nat \ {0} /\ IsFiniteSet(Skills)
ASSUME SourcesAssumption == IsFiniteSet(Sources)
ASSUME ListingsAssumption == \A found \in Listings : found \in [Sources -> Nat \cup {Unknown, NotListed}]
ASSUME EvidenceAssumption == \A e \in Evidence : IsEvidence(e)
ASSUME ViewsAssumption == \A v \in Views : v.sort \in Sorts
ASSUME NotListedAssumption == NotListed # Unknown /\ NotListed \notin Int
ASSUME BoundsAssumption == PageSize \in Nat \ {0} /\ MaxWrites \in Nat

VARIABLES
  entry,    \* source entries: the count of each skill in each registry
  weekly,   \* current_weekly_installs
  fetches,  \* what the directory fetches of each skill have counted, the
            \* oldest first
  latest,   \* the latest snapshot of each skill: its id and its report
  ids,      \* the snapshots so far
  writes,   \* history: the number of fetches and scans
  rpc,      \* where the reader is
  view,     \* what it asks for
  page,     \* the page it is at, from 0
  total,    \* the count of matching skills
  rows,     \* the rows of the page
  items,    \* what it has been shown
  steady,   \* history: nothing has been written since it began
  order,    \* history: the matching skills in order, as they were then
  settled   \* history: its statements have seen them in that order

database == <<entry, weekly, fetches, latest, ids, writes>>
reader == <<rpc, view, page, total, rows, items>>
vars == <<database, reader, steady, order, settled>>

NoView == [sort |-> "priority", severity |-> Unknown, min |-> Unknown, max |-> Unknown]

None == [id |-> 0, report |-> [score |-> 0, severity |-> "none", confidence |-> Unknown]]

-----------------------------------------------------------------------------
(* Installs *)

(* The sum of what is known, of a fetch over several registries or of the   *)
(* entries of a skill.                                                      *)
SumOfKnown(f) ==
  LET K == {x \in DOMAIN f : f[x] \notin {Unknown, NotListed}}
  IN IF K = {} THEN Unknown ELSE SumFunctionOnSet(f, K)

(* coalesce(current_total_installs, current_weekly_installs)                *)
Current(s) == IF SumOfKnown(entry[s]) # Unknown THEN SumOfKnown(entry[s]) ELSE weekly[s]

PreviousSql_Newest(s) == IF fetches[s] = <<>> THEN Unknown ELSE Last(fetches[s])

(* The row with row_number 2. *)
PreviousSql(s) == IF Len(fetches[s]) < 2 THEN Unknown ELSE fetches[s][Len(fetches[s]) - 1]

(* _previous_weekly_installs: the newest known count before the last fetch. *)
Previous(s) ==
  LET known == {n \in 1 .. Len(fetches[s]) - 1 : fetches[s][n] # Unknown}
  IN IF known = {} THEN Unknown ELSE fetches[s][Max(known)]

(* -1 and -10^9 stand for what is unknown. *)
Installs(n) == IF n = Unknown THEN -1 ELSE n
Growth(d) == IF d = Unknown THEN -1000000000 ELSE d

-----------------------------------------------------------------------------
(* The order of the database *)

BucketSql(n) ==
  IF n = Unknown \/ n <= 0 THEN 0
  ELSE IF n < 10 THEN 5 ELSE IF n < 100 THEN 15 ELSE IF n < 1000 THEN 30
  ELSE IF n < 10000 THEN 50 ELSE IF n < 50000 THEN 70 ELSE 90

(* _impact_score_sql, whose CASE takes the first branch that holds.         *)
ImpactSql(current, previous) ==
  IF current = Unknown \/ previous = Unknown THEN BucketSql(current)
  ELSE IF previous <= 0 THEN Least(100, BucketSql(current) + (IF current > 0 THEN 20 ELSE 0))
  ELSE IF current >= 2 * previous THEN Least(100, BucketSql(current) + 20)
  ELSE IF 10 * current >= 11 * previous THEN Least(100, BucketSql(current) + 10)
  ELSE IF 2 * current <= previous THEN Greatest(0, BucketSql(current) - 10)
  ELSE BucketSql(current)

(* _priority_score_sql clamps before it rounds.                             *)
PrioritySql(report, impact) ==
  Round(Least(100 * 20000, Greatest(0, Weighted(report, impact))), 20000)

KeySql(s, sort) ==
  LET current  == Installs(Current(s))
      priority == PrioritySql(latest[s].report, ImpactSql(Current(s), PreviousSql(s)))
      risk     == latest[s].report.score
      growth   == Growth(InstallDelta(Current(s), PreviousSql(s)))
  IN CASE sort = "priority" -> <<priority, current, risk, latest[s].id, s>>
       [] sort = "risk"     -> <<risk, priority, latest[s].id, s>>
       [] sort = "installs" -> <<current, priority, latest[s].id, s>>
       [] sort = "growth"   -> <<growth, current, latest[s].id, s>>

(* Later in the order of the keys, which comes first in the listing.        *)
Above(k, l) == \E n \in DOMAIN k : k[n] > l[n] /\ \A m \in 1 .. n - 1 : k[m] = l[m]

Admits(v, severity, n) ==
  /\ v.severity \in {severity, Unknown}
  /\ v.min # Unknown => n # Unknown /\ n >= v.min
  /\ v.max # Unknown => n # Unknown /\ n <= v.max

Matching(v) == {s \in Skills : Admits(v, latest[s].report.severity, Current(s))}

(* The matching skills, each once, the highest key first.                   *)
Ordered(v) ==
  CHOOSE o \in SetToSeqs(Matching(v)) :
    \A m, n \in DOMAIN o : m < n => Above(KeySql(o[m], v.sort), KeySql(o[n], v.sort))

-----------------------------------------------------------------------------
(* What is shown *)

Columns(s) == [skill |-> s, current |-> Current(s), snapshot |-> latest[s]]

(* _build_install_telemetry, with the observations of a later statement.    *)
Shown(row) ==
  LET previous == Previous(row.skill)
      impact   == ImpactScore(row.current, previous)
  IN [skill    |-> row.skill,
      current  |-> row.current,
      delta    |-> InstallDelta(row.current, previous),
      impact   |-> impact,
      priority |-> PriorityScore(row.snapshot.report, impact),
      snapshot |-> row.snapshot]

(* _sort_skill_listing, the order that a listing shows.                     *)
KeyShown(item, sort) ==
  LET current == Installs(item.current)
      risk    == item.snapshot.report.score
  IN CASE sort = "priority" -> <<item.priority, current, risk, item.snapshot.id>>
       [] sort = "risk"     -> <<risk, item.priority, item.snapshot.id>>
       [] sort = "installs" -> <<current, item.priority, item.snapshot.id>>
       [] sort = "growth"   -> <<Growth(item.delta), current, item.snapshot.id>>

-----------------------------------------------------------------------------
(* Writers *)

Write ==
  /\ writes < MaxWrites
  /\ writes' = writes + 1
  /\ steady' = FALSE
  /\ UNCHANGED <<reader, order, settled>>

(* A sync lists the skill in some registries.  It has begun after k fetches *)
(* of the skill, and may be recorded after one that began later.            *)
Fetch(s, found, k) ==
  /\ Write
  /\ entry' = [entry EXCEPT ![s] = [r \in Sources |-> IF found[r] = NotListed THEN entry[s][r] ELSE found[r]]]
  /\ fetches' = [fetches EXCEPT ![s] = InsertAt(fetches[s], k + 1, SumOfKnown(found))]
  /\ \E r \in Sources :
       /\ found[r] # NotListed
       /\ weekly' = IF k = Len(fetches[s]) THEN [weekly EXCEPT ![s] = found[r]] ELSE weekly
  /\ UNCHANGED <<latest, ids>>

Scan(s, evidence) ==
  /\ Write
  /\ ids' = ids + 1
  /\ latest' = [latest EXCEPT ![s] = [id |-> ids', report |-> RiskReport(evidence)]]
  /\ UNCHANGED <<entry, weekly, fetches>>

-----------------------------------------------------------------------------
(* The reader *)

Begin(v) ==
  /\ rpc = "idle"
  /\ rpc' = "count"
  /\ view' = v
  /\ steady' = TRUE
  /\ order' = Ordered(v)
  /\ settled' = TRUE
  /\ UNCHANGED <<database, page, total, rows, items>>

Look ==
  /\ settled' = (settled /\ Ordered(view) = order)
  /\ UNCHANGED <<steady, order>>

CountRows ==
  /\ rpc = "count"
  /\ total' = Cardinality(Matching(view))
  /\ rpc' = "rows"
  /\ Look
  /\ UNCHANGED <<database, view, page, rows, items>>

Offset == page * PageSize

FetchRows ==
  /\ rpc = "rows"
  /\ rows' = LET o == Ordered(view)
             IN [n \in 1 .. Least(PageSize, Greatest(0, Len(o) - Offset)) |-> Columns(o[Offset + n])]
  /\ rpc' = "observations"
  /\ Look
  /\ UNCHANGED <<database, view, page, total, items>>

HasNext_WithoutItems == Offset + PageSize + 1 < total

HasNext == Offset + Len(rows) < total

(* A page, after which the reader asks for the next one if there is one.    *)
ShowPage ==
  /\ rpc = "observations"
  /\ items' = items \o [n \in DOMAIN rows |-> Shown(rows[n])]
  /\ rpc' = IF HasNext /\ rows # <<>> THEN "count" ELSE "done"
  /\ page' = IF HasNext /\ rows # <<>> THEN page + 1 ELSE page
  /\ rows' = <<>>
  /\ total' = 0
  /\ UNCHANGED <<database, view, steady, order, settled>>

Leave ==
  /\ rpc = "done"
  /\ rpc' = "idle"
  /\ view' = NoView
  /\ page' = 0
  /\ items' = <<>>
  /\ steady' = FALSE
  /\ order' = <<>>
  /\ settled' = FALSE
  /\ UNCHANGED <<database, total, rows>>

Init ==
  /\ entry = [s \in Skills |-> [r \in Sources |-> NotListed]]
  /\ weekly = [s \in Skills |-> Unknown]
  /\ fetches = [s \in Skills |-> <<>>]
  /\ latest = [s \in Skills |-> None]
  /\ ids = 0
  /\ writes = 0
  /\ rpc = "idle"
  /\ view = NoView
  /\ page = 0
  /\ total = 0
  /\ rows = <<>>
  /\ items = <<>>
  /\ steady = FALSE
  /\ order = <<>>
  /\ settled = FALSE

Next ==
  \/ \E s \in Skills, found \in Listings : \E k \in 0 .. Len(fetches[s]) : Fetch(s, found, k)
  \/ \E s \in Skills, evidence \in Evidence : Scan(s, evidence)
  \/ \E v \in Views : Begin(v)
  \/ CountRows
  \/ FetchRows
  \/ ShowPage
  \/ Leave

Spec == Init /\ [][Next]_vars

-----------------------------------------------------------------------------
(* Properties *)

Report == [score : 0 .. 100, severity : Severities, confidence : Confidences \cup {Unknown}]
Snapshot == [id : Nat, report : Report]
Count == Nat \cup {Unknown}
Row == [skill : Skills, current : Count, snapshot : Snapshot]
Item == [skill : Skills, current : Count, delta : Int \cup {Unknown}, impact : 0 .. 100, priority : 0 .. 100,
         snapshot : Snapshot]

(* Every variable keeps its type; impacts and priorities that are shown are *)
(* between 0 and 100, and a page has no more rows than it should.           *)
TypeOK ==
  /\ entry \in [Skills -> [Sources -> Count \cup {NotListed}]]
  /\ weekly \in [Skills -> Count]
  /\ fetches \in [Skills -> Seq(Count)]
  /\ latest \in [Skills -> Snapshot]
  /\ ids \in Nat /\ writes \in 0 .. MaxWrites /\ page \in Nat /\ total \in Nat
  /\ rpc \in {"idle", "count", "rows", "observations", "done"}
  /\ view \in Views \cup {NoView}
  /\ rows \in Seq(Row) /\ Len(rows) <= PageSize
  /\ items \in Seq(Item)
  /\ steady \in BOOLEAN /\ settled \in BOOLEAN
  /\ order \in Seq(Skills)
  /\ steady => settled

(* A reader who has gone through all pages has been shown every skill that  *)
(* matched when it began, once and in order, if each of its statements has  *)
(* found them in that order; and if nothing was written meanwhile, those    *)
(* are the ones that its filters admit by what is shown of them.            *)
WalkIsComplete ==
  rpc = "done" /\ settled =>
    /\ [n \in DOMAIN items |-> items[n].skill] = order
    /\ steady => \A s \in Skills :
         LET item == Shown(Columns(s))
         IN item \in ToSet(items) <=> Admits(view, item.snapshot.report.severity, item.current)

(* The count of the fetch before the last one is known, or none before it.  *)
Telling(s) == PreviousSql(s) # Unknown \/ \A k \in 1 .. Len(fetches[s]) - 1 : fetches[s][k] = Unknown

(* What is shown on the way is in the order that was asked for, judged by   *)
(* what is shown, unless the count of some skill was unknown in its fetch   *)
(* before the last: the order then takes its growth as unknown, and the     *)
(* skill is shown with the growth since an earlier fetch.                   *)
ShownInOrder ==
  steady /\ (\A s \in Skills : Telling(s)) =>
    \A m, n \in DOMAIN items :
      m < n => ~Above(KeyShown(items[n], view.sort), KeyShown(items[m], view.sort))
=============================================================================
