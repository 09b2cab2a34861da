# SK Risk in TLA+

SK Risk (`src/src/skrisk`) watches public registries of agent skills, mirrors
the repositories behind them, analyses every skill, matches the indicators it
finds against threat intelligence, and shows the result through a JSON API and
a console. This directory models the parts of it in which order, failure and
concurrency decide whether the data is right.

## 1. The system

Every part is started from `cli.py` as an operating-system process of its own.
Nothing but shared state connects the processes: the database (Postgres, READ
COMMITTED, one transaction per repository method), the spool and mirror
directories, OpenSearch and Neo4j. No command takes a lock, so any two commands
(or two copies of one) may interleave at every await and every file operation.

| Part | State it keeps | Operations | Other parts it meets | Hard behaviour |
|---|---|---|---|---|
| Analysis spool (`services/analysis_spool.py`) | `analysis-spool/{claims,pending,ingesting}`, `skill_repos.next_scan_at` | claim, write, take, requeue, persist, complete, release, defer | mirrors, due set, snapshot persistence | several processes on the same files, deaths, staleness timeout, torn writes |
| In-process analysis (`services/repo_analysis.py`) | as above without claims | list due, analyse in a pool, persist, defer | due set | stale due list, timeouts |
| Registry sync (`services/sync.py`) | skills, sources, source entries, observations, snapshots | seed, scan-due, record observation, recompute totals | due set, VT queue | out-of-order observations, lost updates, partial failure over many transactions |
| Snapshot persistence (`storage/repository.py`) | repo and skill snapshots, indicator links, denormalised `latest_*` fields | persist_repo_analysis, record_skill_snapshot | every analyser, API | which snapshot is the latest, what is new in it |
| VT triage (`services/vt_triage.py`) | `vt_lookup_queue`, enrichments | enqueue, run, retry | scan, persistence | daily budget, crash while running, duplicate queue rows |
| Infrastructure enrichment (`services/infrastructure_enrichment.py`) | enrichments, completion cache | list candidates, resolve DNS, look up IPs | indicators | starvation behind a window, partial failure |
| Intel sync (`services/intel_sync.py`) | feed runs, observations | primary feed, fallback, record | indicators | failure of one feed of several |
| SkillsMP and skills.sh collectors | none | paginated crawl, search expansion | registry sync | a directory that changes during the crawl, retries |
| Search and graph projections (`search_index.py`, `graph_project.py`, `graph_bulk.py`) | OpenSearch index, Neo4j graph | bulk index, project, stop / import / start | database | failure between stop and start |
| SQLite to Postgres migration (`services/db_migrate.py`) | target tables | copy in order, remap, reset sequences | database | partial copy, dangling references |
| Scoring (`analysis/`, `impact.py`, `policy.py`) | none | pure functions | snapshots, API | thresholds, ordering |
| Scheduler (`scheduler.py`) | none | next scan time | due set | boundary of the interval |
| Database set-up (`storage/database.py`, `models.py`) | schema | create, add columns, backfill | all | repeated start |
| API (`api/`) and console (`frontend/`) | none | read-only queries, rendering | database | none |

What makes each part correct:

* **Spool**: a repository is analysed by one worker at a time; its claim names
  that worker's token as long as the work lasts and not longer; a result is
  recorded once and never after a newer one; a due repository is eventually
  scanned or put off; torn files do not block whole ones.
* **Registry sync**: the total of a skill is the sum of the latest observation
  of each source; an observation never replaces a later one; a failed or
  interrupted sync leaves records that the next one completes.
* **VT triage**: no more look-ups a day than the budget; one active entry per
  indicator; an entry that is taken is completed, failed or taken again.
* **Infrastructure**: every unresolved indicator is eventually tried; one
  provider's failure leaves the others' results and is retried.
* **Projections and migration**: the service is started again whatever fails;
  references in the copy point to copied rows.

The hazards found while reading are listed, each at its line, under `hazards`
in `PROJECT.json`; the properties are aimed at them.

## 2. Modules

| Module | Models | Uses |
|---|---|---|
| `RepoLease` | what the claims promise: exclusive leases, results recorded under one's own lease | |
| `AnalysisSpool` | producers, ingesters, spool directories and due set | implements `RepoLease` |
| `LookupQueue` | what the VirusTotal queue promises: indicators that wait, are looked up once at a time and are done with their answer, a budget for each day | |
| `VTTriage` | the VirusTotal queue, its two fillers, its runs, the days | implements `LookupQueue` |
| `RegistryInstalls` | the transactions of seed-registry, sync-registry and scan-due that write install counts | |
| `Snapshots` | `persist_repo_analysis` and the stepwise scan: snapshots, links, `latest_*` columns | |
| `InfraEnrichment` | enrich-infra: the candidate listing, DNS, WHOIS and IP steps, meip down and up | |
| `GraphProjection` | project-graph and rebuild-graph-bulk on one graph, with a database that changes | |
| `Scoring` | risk report, impact and priority, as operators | |
| `Ranking` | the listing of skills: order and filter of the query, what is shown, a reader of its pages | `Scoring` |
| `SetLemmas` | sums over finite sets, least and greatest elements, induction over sets of naturals | TLAPS |
| `...Proofs` | theorems about the module they are named after | `SetLemmas`, TLAPS |
| `MC...` | instances for TLC; one `.cfg` for each run. `MCVTEndless` is the instance of `VTTriage` whose requests never end | the module they instantiate |

The parts meet in the database and write disjoint columns of it, so each module
stands for the others by their effect: `AnalysisSpool` lets other commands
change the due set and the mirrors at any moment (`BecomeDue`,
`ScannedElsewhere`, `MirrorAppears`), `VTTriage` lets any number of analyses
queue any indicators, `InfraEnrichment` has indicators linked and sighted, and
`GraphProjection` and `Ranking` take a whole scan or sync as one step, whose
transactions are those of `Snapshots` and `RegistryInstalls`.

## 3. The models

In all of them a process is a *program counter* with local variables, and one
step is one file-system call, one transaction or one call to a service. Where the
code reads in a transaction and writes what it has read, the read and the commit
are two steps: this is what READ COMMITTED allows. Variables called history in
their comment are written and never read by a guard.

### AnalysisSpool

| Code (`analysis_spool.py`) | Model |
|---|---|
| `claims/<repo>.json`, with its token | `claims` |
| `pending/`, `ingesting/` | `pending`, `ingesting` |
| an artifact whose `write_text` has not returned | `partial` |
| `st_mtime` at least `stale_after_seconds` ago | `old` (`Age`) |
| `next_scan_at`, mirrors | `due`, `mirror` |
| `run_once` of the producer | `ListDue`, `NoteMissing`, `SkipClaimed`, `ClaimRepo`, `StartBatch`, `DeferMissing`, `AnalysisFails`, `DeferFailedAnalysis`, `BeginWrite`, `FinishWrite`, `EndProducerBatch` |
| `run_once` of the ingester | `ListIngesting`, `RequeueStale`, `ListPending`, `TakePending`, `EndTaking`, `LoadArtifact`, `PutBack`, `Persist`, and a release, unlink or defer step for each outcome |
| a process that is killed | `CrashProducer`, `CrashIngester` |

`write_text` creates the file under its final name, so it is two steps.
`release_claim` goes by repository and not by token (`ClaimsWithout`). A name is
`<repo>-<token>`; a token may be used again once nothing names it, which is
coarser than `uuid4` and allows more behaviours than the program. The analysis
itself is one step that may fail at any time: what it computes is data.

Every claim is a lease of `RepoLease`. `ImplementsLease` states that each step of
the spool is a step of the lease or leaves it alone.

### VTTriage

| Code (`vt_triage.py`, `repository.py`) | Model |
|---|---|
| `vt_lookup_queue` | `status`, `target`, `priority` over row ids |
| `indicator_enrichments` of VT | `enriched`, `recordedToday` |
| `remaining_budget`, `now`, the listed items | `remaining`, `fresh`, `todo` |
| `enqueue_vt_lookup`, `_upsert_vt_queue_items` | `FindActive`, `CommitEnqueue`, for one indicator or for several |
| `run_once` | `StartRun`, `ListQueue`, `TakeItem`, `Lookup` or `LookupFails`, `Record`, `Complete` or `StepFails`, `MarkFailed`, `EndRun` |

Days are relative. `NewDay` may happen between any two steps, and a run that is
under way keeps the `now` and the budget it began with.

`Queue` maps the rows to sets of indicators: those with a queued row wait, those
with a running row are in hand. `ImplementsQueue` states that each step then is a
step of `LookupQueue` or leaves it alone. This needs more than the invariants do:
a row that is taken twice, or an indicator with two rows, would show as an
indicator in hand that did not wait.

Rows are never deleted, so `MaxItems` ends the requests after a few rows, and
whatever waits would be taken for want of competitors. `MCVTEndless` is
therefore the instance for liveness: it drops a row that has its outcome and
that nobody has in hand, which no query of the program would return, and so
`MaxItems` bounds only the rows at one time.

### RegistryInstalls

| Code (`sync.py`, `repository.py`) | Model |
|---|---|
| `skill_source_entries` | `entry`: count, run and last seen for each skill and registry |
| `current_total_installs`, `current_weekly_installs` and their times | `total`, `weekly` |
| observations | `fetches`, `attributed` |
| `upsert_skill_source_entry` | `SelectEntry`, `FlushEntry` (or `InsertRefused`), `CommitEntry` |
| `record_skill_registry_observation` | `ReadSkill`, `RecordFetch`; `Attribute` |
| seed-registry, sync-registry, scan-due | `StartSync`, `ListTracked` and `StartScan`, `EndSeed`, `EndCommand` |

A command walks its rows twice: the seed pass writes entries and observations,
the scan pass writes the entry again and then attributes the snapshot. The
session writes only columns that differ from what it has read (`Written`), so
two transactions can mix their columns. `FlushEntry` waits for the row lock of a
transaction that has flushed the same entry. The order of rows is left open, and
so is what a listing says. A sync-registry names the run and the registry from the
source entry that comes first, whichever registry it was started for
(`ContextRun`), while the count it attributes is that of its own row; the
attribution keeps all three. `alone`, `raced`, `racedWeekly`, `listed` and
`overlapped` are history: they are written and never read by a guard.

### Snapshots

| Code (`repository.py`, `sync.py`) | Model |
|---|---|
| `skill_snapshots`, `skill_indicator_links`, indicators | `snaps`, `links`, `known`; `ids` is the sequence |
| `latest_snapshot_id`, `latest_severity` and the other `latest_*` | `latest` |
| `persist_repo_analysis` | `BeginBulk`, `ReadPrevious`, `ReadIndicators`, `FlushIndicators`, `InsertSnapshot` for each skill, `CommitBulk` |
| the scan pass of `ingest_registry_snapshot` | `BeginScan`, `SkipSkill`, `TakeSkill`, `ReadPrevious`, `InsertSnapshot`, `LoadSkill`, `CommitSnapshot`, `RecordLink`, `EndSkill`, `MarkScanned` |
| a kill, a failed statement, a refused unique key | `Abort` |

`Bulk` writers are ingesters and in-process analyses, `Stepwise` writers
sync-registry and scan-due. No lock keeps them apart. Ids are given when a row
is inserted and become visible with the commit, so the order of ids and that of
commits may differ. Row locks are left out; they take interleavings away.
`alone`, `exact` and `raced` say which snapshots were recorded by a writer that
met no other on the skill.

### InfraEnrichment

| Code (`infrastructure_enrichment.py`, `repository.py`) | Model |
|---|---|
| completed enrichments | `dns` (with its payload), `whois`, `meip` |
| links to skills, feed observations | `linked`, `sightings` |
| the candidates of a run, `completed_providers` | `todo`, `cand` |
| `ip_provider_available`, `ip_completion_cache`, `resolved_ips`, `ip_profiles` | `alive`, `cache`, `resolved` and `left`, `profiles` |
| `list_infrastructure_candidates` | `Listing`: ordered, cut to the window, filtered, cut to the limit |
| `run_once` | `ListCandidates`, `CheckHealth`, `TakeDomain`, `TakeAddress`, `SkipAddress`, `Resolve`, `CheckAddress`, `PassAddress`, `LookupAddress`, `RecordDns`, `EndAddress`, `LookupWhois`, `EndRun`, and a failure of each step |

The health of meip is asked once a run and may be stale at each look-up. The
window is five limits in the code; the run uses a smaller one, so that an
indicator falls behind it.

### GraphProjection

| Code | Model |
|---|---|
| `project_graph_command`, `project_skill_coordinates` | `StartProjection`, `ListPage`, `StartPage`, `TakeSkill`, `PostNodes`, `PostEdges`, `NextPage`, `EndProjection`, `LeaveProjection` |
| a request that fails, or is answered 200 and rolled back | `FailSkill`, `BreakProjection`, `LoseChunk` |
| `rebuild_graph_bulk_command` | `BeginExport`, `ReadMewhois`, `ReadMeip`, `WriteFile`, `StopService`, `Import`, `StartService`, and `StopFails`, `ImportFails`, `StartFails` |
| syncs, scans, enrichments | `Scan`, `Seed`, `Enrich`, `Reorder` |

A node is an id with a label. The two commands take different graphs from one
database, and each is modelled by its own reading of it:

| | `project-graph` (`Payload`, `Projected`) | `rebuild-graph-bulk` (`Content`, `Loaded`, `Imported`) |
|---|---|---|
| autonomous systems | label `Asn` | label `ASN` |
| registrars | of the normalised payload only (`facts \ raw`) | also those that only the raw response has (`facts`) |
| registries | those that list a skill | all |

Both look for the ends of an edge by id alone (`Between`), so a worker that
merges an `Asn` node beside an imported `ASN` node of one id draws
`ANNOUNCED_BY` to both. mewhois on registrars and meip on autonomous systems
stand for all enrichments: what is said of organisations, name servers and
countries goes the way of one of them. The temporary tables of an export are
read one statement after the other and each file when it is written. A skill's
detail is read in one step, and the links of a captured snapshot are taken as
fixed. A MERGE by two workers at once that makes a node twice is not modelled.

### Scoring and Ranking

`Scoring` has the operators of `impact.py` and of the risk report in
`analyzer.py`; findings are given as counts for each category and context, and
the observations of an indicator by what the scores tell apart. Fractions are
exact: ratios are compared by products, and priorities are 20000ths before
`Round`. In `Ranking`, `KeySql`, `ImpactSql` and `PrioritySql` are what the
query of `list_skills_page` computes, `Shown` and `KeyShown` what Python
computes of the rows it returns. `CountRows`, `FetchRows` and `ShowPage` are the
three statements of a page. A reader goes on while `has_next` says so, and
fetches, recorded in any order, and scans come in between. A scan may come
before any fetch, as an analysis finds skills that no registry has listed. Scan
attributions are not there: the code looks at them only for a skill without a
directory fetch, and such a skill gets one with a count only if a sync was
killed between its source entry and its observation, which are one step here.
The denormalised severity is taken to be that of the report: `Snapshots` says
when it is not.

## 4. The runs

| Run | Instance | Shows |
|---|---|---|
| SpoolSafety | 2 repositories, 2 producers, 1 ingester, artifacts of one repository may grow stale | claims cover the work, one analysis a repository, no orphan claim, no result recorded twice, the lease is implemented |
| SpoolTimely | 1 repository, 2 producers, 2 ingesters, a death, nothing grows stale | parallel ingesters are safe while artifacts are handled in time |
| SpoolLive | 2 repositories, 1 producer, 1 ingester, a death, fairness | due is handled, claims come back, whole artifacts drain past torn ones |
| SpoolParallelIngest | 1 repository, 2 ingesters | a disagreement, section 6 |
| VTSafety | 2 indicators, 1 runner that may die, 1 enqueuer, budget below the rows | budget, one active row, responses kept, nothing stranded, the queue of indicators is implemented |
| VTLive | 2 indicators, 2 enqueuers that never stop, 1 runner, budget and limit of 1 a day, a death, every step may fail, fairness | priorities never drop, who waits for ever is overtaken for ever, taken is finished |
| RegistrySafety | 1 skill in 2 registries, each synced deeply or only seeded, 2 workers that may die, 3 commands | totals, current metrics, counts and attributions |
| Snapshots | 1 skill, 2 indicators, 2 bulk and 2 stepwise writers, 3 scans | the latest columns, the new flags, and whole links of what is marked as scanned |
| Infra | 1 domain, 2 addresses of which one is private, limit and window 2, every call may fail, a death, fairness | records are unique and backed, nothing starves that the limit leaves room for, WHOIS is tried whatever DNS does |
| InfraBackfill | the same without failures but of meip | a disagreement, section 6 |
| Graph | 2 skills on 2 pages, an indicator, a registrar, an autonomous system, 1 worker, 1 change, 1 mishap, fairness | an undisturbed fill gives, label for label, what its command takes from the database, a projection beside an import adds only second nodes for autonomous systems, the service comes back |
| Ranking | 2 skills in 2 registries, 4 writes, pages of 1 row, 5 listings | pages are complete and in the order that is shown |

**Bounds.** Two repositories are needed for the sorted order and for a batch
with one of several failing; two processes of a kind for every race, and a third
token so that a claim can be taken again while an old result is still on its
way. Repositories do not share files or rows, so more of them add no
interference. `MaxCrashes`, `MaxDeaths` and `MaxMishaps` bound deaths and
failures to one where a second one only repeats the first. Three rows of
`vt_lookup_queue` are more than the daily budget and the limit. In VTLive two rows
at a time compete for a budget of one, and requests never end: one analysis
queues either indicator again and again, or two queue the same one. Three commands
let one that overlaps follow a lone one and be followed by one; two registries
are the ones there are. Skills of a snapshot do not share rows but for the
indicators, so one is enough, and three scans give a predecessor, a snapshot and
one that overlaps. In Infra one runner is enough for the order of the listing;
what more runners do to its records is proved (section 5). `MaxChanges` lets the
graph be filled before and after one change of the database; that several
workers do it no harm is proved. Four writes are
three fetches of a skill, one of them without a count, against another skill
(the case that `Telling` exempts). Symmetric processes are declared so in the
runs that check no liveness.

**Fairness.** `AnalysisSpool`, `VTTriage` and `InfraEnrichment` assume that a
process that can take a step takes one in the end (weak fairness of all the
steps of a process together): the commands have a `--continuous` mode or are
started by the operator again and again, and their calls have timeouts. Files
grow old and days pass; in `VTTriage` that is all (`Fairness`), nobody has to
queue anything. `GraphProjection` assumes that a rebuild goes on once it
is started: docker compose returns. Nothing is assumed of other commands, of
success, or of deaths. There is no strong fairness.

**Deadlock.** RegistrySafety and Snapshots switch the check off: `MaxClock` and
`MaxScans` bound the commands, after which the system may stop. All others
check it.

## 5. The proofs

TLAPS proves each theorem for every value of the constants that the named
assumptions of its module admit.

* **AnalysisSpool.** `BaseInv` relates the program counters to the local
  variables and to the directories (a live token is in use, a claim in a batch
  is not spooled). `NoOrphanClaim` follows with `OrphanInv`: while nobody dies,
  whoever made a claim still holds the work. `ClaimCoversWork`, `ExclusiveWork`
  and `ExclusiveIngest` follow with `CoverInv`: what an ingester has taken is in
  `ingesting/` and in nobody else's hand (`HandInv`), a repository has one
  claim, and everything live has its claim. They need `NoSteal`, one
  ingester or no stale artifact; without it they are false, as
  SpoolParallelIngest shows. They hold for any deaths. `ArtifactsAreRecordedOnce`
  also needs that no ingester dies, since an artifact that is recorded and not yet
  unlinked is recorded again: `RecordInv` says that what is recorded is on its
  way out of the spool. `SpoolImplementsLease`
  maps each action to a step of `RepoLease` or a stutter.
* **VTTriage.** `ResponsesAreKept`, `NothingIsStranded` and `TypeCorrect` hold
  for any number of runs, scans, failures and deaths. `BudgetIsKept` needs one
  runner at a time, and completing a recorded row not to fail: `BudgetInv`
  bounds what is recorded plus what the run may still take. `OutcomeIsFinal`
  needs one runner (`QueueInv`: what it has listed is still queued),
  `RowsAreNotDuplicated` also one enqueuer at a time (`ActiveInv`: what it has
  read is still so). `PrioritiesOnlyRise` needs that there are two priorities:
  who raises a row then raises it to the higher one (`RaiseInv`). With a third,
  a smaller raise committed after a larger one would lower the row.
  `TriageImplementsQueue` puts these together: `CommitEnqueue` is `Request`,
  `TakeItem` is `Take`, `Record` is `Answer` (by `BudgetInv`), `Complete` is
  `Finish`, `MarkFailed` is `GiveUp`, and all else but midnight is a stutter
  (`IndicatorMoves`, `QueueStutters`). `BudgetsAreKept` is about runs that
  overlap, again if completing a recorded row does not fail. Each copies what
  the day has left, so a day may see more than its budget, but n runners never
  spend more than n budgets: `AllowanceInv` says that what is recorded and what
  all runs may still spend, summed, stay below that. A run that starts adds at
  most what the day has left, and what the others may spend is at most a budget
  each.
* **RegistryInstalls.** `AloneInv`: nobody else is in a like transaction on the
  skill of a worker in `alone`. Hence `SessionInv`: what it has read is what the
  database holds, and what it is about to write is the sum with its own entry.
  `TotalsAreSums` and `CurrentInstallsAreNewest` follow for any overlap and any
  deaths. `TurnInv` is about commands that do not overlap: a row of scan-due
  carries the run of the entry it would write (`Backed`), which no one else
  writes meanwhile (`OneCommand`). Hence `CountsAreOfTheirRuns`, and
  `AttributionsAreOfTheirRuns`, for a sync-registry of any registry: the run
  that an attribution names has listed the skill, in the registry of the
  attribution and with its count, or else in one that comes before it, and then
  the count is one that its own registry has listed (`Supports`). The second
  case is the mismatch of section 6; the theorem says that it is the only one. A
  total is a fold over the set of the registries with a known count. `SetLemmas`
  says what such a fold is, so `TypeCorrect` includes that every total is a
  number or unknown, `TotalsLoseNoCount` that it is at least the count of each
  registry, and `UpsertsMoveTotals` that a commit that meets none moves it by
  the difference in its own entry, though it writes a sum over all.
* **Snapshots.** Under everything lies `TypeInv`: a writer inserts one snapshot of
  each skill it visits, under a scan number and an id of its own. `WholeInv`: of
  what a running scan has recorded only the snapshot in hand may lack links; hence
  `MarkedScansAreWhole`. `FlagInv`: what a writer takes for known is linked by a
  snapshot older than its own; hence `FirstFindsAreFlagged`, for any overlap and
  any deaths. `AloneInv`: what a writer in `alone` has read of its skill is still
  so; hence `LatestIsOfTheNewest`, also after a skill that was raced, since the one
  that is alone writes what differs from what it has read. `ExactInv`: the
  predecessor of a snapshot recorded alone stays its predecessor and has no writer
  any more; with `WholeInv` it gives `FlagsAreExact`.
* **InfraEnrichment.** `TypeCorrect` also bounds a run's list by the limit;
  under it lies `ListingIsSound`: the order of the candidates is strict and
  total (`Ordering`), so every place of the listing is taken once (`Places`).
  For `PayloadsAreBacked` the invariant says what a run may trust (`Known`): the
  addresses in its cache and its profiles have been answered and, while meip is
  available to it, so have all it has come to. For `NoMoreThanOneEach`, `Counts`
  adds to the answers given the runners that still mean to give one: an answer
  spends its runner's claim, and a claim is made only where there is no answer
  (`Queue` keeps names distinct). Both hold for any number of runs, failures and
  deaths.
* **GraphProjection.** `TypeCorrect` includes that a page has a next one only
  within the listing and that payloads bring the ends of their edges, so
  none is dropped. `FilledGraphIsCurrent` has one invariant for each way of filling.
  `BundleInv`: while nothing changes, what an export has read and written is what
  the database has, table by table and file by file, so a whole bundle loads in full
  and the graph is `Imported` (`ImportIsRight`).
  `CleanInv`: every skill of an undisturbed projection is shown, in a worker's hand,
  queued or on a page to come, and the graph has nothing that is not of `Projected`;
  none of these is left at the end, so the graph is `Projected` (`EndIsRight`).
  `Hand` says that a worker merges what the database has. Into a projected graph
  it then adds nothing, into an imported one second nodes for autonomous systems
  and edges to them (`MergeIsRight`): `Mixed` is what the property claims of a
  graph both have written. That
  a listing names every skill needs `SkillsAssumption` (they are finitely many).
* **Ranking.** About its operators, for any counts and any evidence:
  `ImpactsAgree`, `PrioritiesAgree` and `KeysAgree` say that the arithmetic of the
  query gives what Python shows, with the exemption of `Telling`.
  `ReportIsWellFormed`, `SupportingEvidenceIsNotCritical` and
  `CriticalNeedsFindings` say what the weights of the risk report amount to.
  `MoreEvidenceNeverRanksLower` and `ImpactRisesWithInstalls` are its monotony:
  caps, multipliers, thresholds and rounding never turn more into less. About the
  reader, with the invariant `WalkInv`: `Idle` says what holds between its walks,
  `Placed` that what it has seen is the order up to its page, row by row, and
  `Fresh` that, while nothing is written, the order is that of the database and
  what was shown is still so. A listing is chosen among the sequences without
  repetition of what matches; `OrderedIsRight` shows that one of them is sorted
  (the sort keys have a greatest element in every finite set) and so that the
  choice is. `WalksAreComplete`, `ShownAsAsked` and `TypeCorrect` follow for any
  number of skills, pages of any size and any writes in between.
* **SetLemmas.** The sum of a function over a finite set does not depend on the
  order of the fold, splits at any member, moves with it and is at most the
  greatest summand times the members. Induction is over subsets of the naturals
  (`NatSetInduction`, from the well-foundedness of <), since an induction theorem
  with an operator parameter cannot be used.

Only model-checked: what needs fairness (`DueIsHandledUnlessDeath`,
`ClaimIsReleased`, `WholeArtifactsDrain`, `QueuedIsTaken`, `LookupFinishes`,
`NotStarved`, `WhoisIsTried`, `ServiceReturns`), which the prover cannot reach. All
invariants and safety properties of the runs are proved as well, under the
conditions given above. Those are conditions on the operation of the program (who
overlaps with whom, what may fail or die), not on the size of anything; where a
property fails without them, section 6 says so.

## 6. What the models say about the code

Where a document says otherwise and a run shows it, the run has the expectation
"violation", and `findings` in `PROJECT.json` quotes the line:

* SpoolParallelIngest: staleness is told from the time of the write, so an
  artifact that has waited is taken from the ingester that has just claimed it.
* InfraBackfill: addresses that a domain resolved to while meip was down are not
  looked up when it is back, unless a skill links to them.

Also seen while modelling. The models do what the code does here, and the
properties exempt it:

* **Spool.** A failed ingest deletes the artifact (`analysis_spool.py:212`);
  `docs/plans/2026-03-09-postgres-runtime-scaling-design.md:47` says "failed
  ingest requeues the artifact back to `pending/`". The claim of a producer that
  died is never given back, and its repository stays due and is skipped; line 9
  there says that such repositories "must not remain permanently due". So does
  the claim of an ingester that dies between unlink and release. As many torn
  artifacts as `--limit-artifacts` at the head of the sorted listing block the
  ones behind them for good. `list_due_repos` has no order.
* **VirusTotal.** The budget counts recorded answers (`vt_triage.py:82`), so
  failed calls do not count, where `README.md:150` speaks of a "daily VT call
  budget". The queue is taken in the order of priority within the day's budget
  (`repository.py:731`), so a row of low priority is never taken while as many
  of a higher one as the budget keep arriving each day: `QueuedIsTaken` says
  that this is the only way to wait for ever. Failed rows are never tried again.
  The death of a runner leaves its row `running`; nothing lists it again, and it
  absorbs every later request for its indicator. If the update to `completed`
  fails after the response is recorded, the row becomes `failed` and the day may
  go over its budget by one. A run past midnight spends the old day's budget.
  Each of several overlapping runs spends the budget it has found, and they look
  up the same rows. An indicator that is done may be looked up again the same
  day. Two overlapping analyses may both insert a row, after which
  `scalar_one_or_none` raises.
* **Registry.** Commands that overlap may write an older count over a newer one
  (`repository.py:167`), while `README.md:184` has totals be "the sum of the
  latest observed installs across registries". Upserts of a skill that meet may
  lose each other's count in the total until the next one that meets none. A
  sync-registry of a registry that is not the primary one attributes its count to
  the run of the primary one. A directory fetch of unknown count replaces the
  current weekly installs.
* **Snapshots.** After two writers have met on a skill, its `latest_*` columns may
  be those of an older snapshot than the one with the highest id, or a mixture,
  until the next scan that meets none. A stepwise scan that dies leaves a
  snapshot without some of its links, and the next one flags these again as new.
  A repository is marked scanned although no skill of it could be loaded.
* **Infrastructure.** What is behind the window, or behind as many failing or
  skipped names as the limit, is never tried. One address that fails is the end
  of the DNS step of its domain, in each run again. The profile of an address that
  was answered before is read from a dictionary without `normalized_payload`
  (`get_indicator_detail`), so the payload of a later domain has none.
* **Graph.** The two commands do not give the same graph, while
  `docs/plans/2026-03-11-neo4j-bulk-import-design.md:47` has the import
  "preserve the existing graph model". The projection labels autonomous systems
  `Asn` (`graph_project.py`), the import `ASN`; a projection over an import
  makes a second node of the same id and draws each `ANNOUNCED_BY` twice. The
  import takes registrars from the raw response when the payload has none
  (`graph_bulk.py:414`), the projection does not (`graph_project.py:119`). A
  registry without skills is only in the import. A listing whose order moves
  between two pages lets the projection miss a skill. A batch that Neo4j answers
  with 200 and errors is lost without notice. A rebuild from an existing bundle
  takes whatever files there are, also of an export that died half-way. A
  rebuild that is killed leaves the service stopped.
* **Listing.** The query takes the growth of a skill as unknown when the count of
  its second newest fetch is; the page shows its growth since an older one. The
  sync of one registry after that of two compares the sum of both with the last
  fetch of one. Pages by offset miss and repeat skills while the order moves.

## 7. Not modelled

`components` in `PROJECT.json` lists every part with its status and reason. Left
out for good are the text analysis of one file (strings and syntax trees, no
state), the collectors and the git mirror (their result is any listing, any load
may fail), SkillsMP discovery (a browser session on a foreign site), the
scheduler (a wrapper of a library around one callback), the country table, the
search index (each document is replaced whole), the migration (one pass into an
empty database), schema set-up, configuration, the API and the console. The
intel sync only appends: a death leaves a run with part of its observations, and
`InfraEnrichment` and `Ranking` take observations as they come.

Modelled coarsely: an analysis and a response are one step with an open result;
ranks, titles, urls and raw payloads follow the same pattern as the counts and
are not there; `attempt_count` says no more than the status of its row; one
projection and one rebuild run at a time; in `GraphProjection` and `Ranking` a
scan and its links are one step.

## 8. Running

In this directory, `tlc -config MC<Run>.cfg MC<Module>` checks a run and
`tlapm <Module>Proofs.tla` the proofs. The instance of VTLive is
`MCVTEndless`. All runs finish within about three minutes.
