---------------------------- MODULE SnapshotsProofs ----------------------------
(* Theorems about Snapshots, for any number of writers, skills and scans.    *)
EXTENDS Snapshots, TLAPS

-----------------------------------------------------------------------------
(* Types, and what a writer has in hand *)

Recorded == [id : Nat, severity : Severities]

(* Snapshots that are committed or about to be. *)
All == snaps \cup UNION {draft[w] : w \in Writers}

Types ==
  /\ known \subseteq Indicators
  /\ snaps \subseteq Snapshot
  /\ links \subseteq Link
  /\ latest \in [Skills -> Recorded]
  /\ ids \in Nat
  /\ scans \in 0 .. MaxScans
  /\ marked \subseteq 1 .. scans
  /\ pc \in [Writers -> PC]
  /\ scan \in [Writers -> 0 .. scans]
  /\ todo \in [Writers -> SUBSET Skills]
  /\ visited \in [Writers -> SUBSET Skills]
  /\ missing \in [Writers -> SUBSET Indicators]
  /\ draft \in [Writers -> SUBSET Snapshot]
  /\ DOMAIN plan = Writers /\ DOMAIN prev = Writers /\ DOMAIN seen = Writers

BulkPC == {"idle", "previous", "indicators", "flush", "insert"}
StepwisePC == {"idle", "next", "previous", "insert", "load", "commit", "links"}

(* A writer inserts snapshots of the skills it visits, one of each, under    *)
(* its scan, which is not marked yet, and leaves them alone once they are    *)
(* committed.                                                                *)
Job(w) ==
  /\ w \in Bulk => pc[w] \in BulkPC
  /\ w \in Stepwise => pc[w] \in StepwisePC
  /\ pc[w] \in {"idle", "next"} => visited[w] = {}
  /\ pc[w] # "idle" => scan[w] \in 1 .. scans /\ scan[w] \notin marked
  /\ pc[w] # "idle" => \A s \in visited[w] \cup todo[w] : plan[w][s] \in Report
  /\ \A x \in draft[w] : x.skill \in visited[w] /\ x.scan = scan[w]
  /\ \A x, y \in draft[w] : x.skill = y.skill => x = y
  /\ pc[w] \in {"previous", "indicators", "flush"} => draft[w] = {}
  /\ pc[w] = "links" => draft[w] \subseteq snaps
  /\ pc[w] # "links" => draft[w] \cap snaps = {}

ScansDiffer ==
  \A v, w \in Writers : v # w /\ pc[v] # "idle" /\ pc[w] # "idle" => scan[v] # scan[w]

Ids ==
  /\ \A x, y \in All : x.id = y.id => x = y
  /\ \A x \in All : x.id <= ids /\ x.scan <= scans
  /\ \A l \in links : \E x \in snaps : x.id = l.snap

TypeInv == Types /\ (\A w \in Writers : Job(w)) /\ ScansDiffer /\ Ids

(* It holds initially. *)
LEMMA TypeInit == Init => TypeInv
<1> SUFFICES ASSUME Init PROVE TypeInv
  OBVIOUS
<1>1. Types
  BY ScansAssumption DEF Init, Types, Recorded, Blank, Severities, PC
<1>2. \A w \in Writers : Job(w)
  BY DEF Init, Job, BulkPC, StepwisePC
<1>3. ScansDiffer
  BY DEF Init, ScansDiffer
<1>4. All = {}
  BY DEF Init, All
<1>5. Ids
  BY <1>4 DEF Ids, Init
<1> QED BY <1>1, <1>2, <1>3, <1>5 DEF TypeInv

(* What one writer does. *)
Does(w) == Either(w) \/ (w \in Bulk /\ Persist(w)) \/ (w \in Stepwise /\ Step(w))

(* Every step is one writer's. *)
LEMMA OneWriter == Next => \E w \in Writers : Does(w)
BY DEF Next, Does, Writers

(* A step changes nothing that another writer has in hand. *)
LEMMA OthersKeep ==
  ASSUME Types, NEW w \in Writers, NEW v \in Writers, v # w, Does(w)
  PROVE  /\ pc'[v] = pc[v] /\ scan'[v] = scan[v] /\ plan'[v] = plan[v] /\ todo'[v] = todo[v]
         /\ visited'[v] = visited[v] /\ prev'[v] = prev[v] /\ seen'[v] = seen[v]
         /\ missing'[v] = missing[v] /\ draft'[v] = draft[v]
<1> USE DEF jobVars, sessionVars
<1>1. CASE ReadPrevious(w)
  BY <1>1 DEF ReadPrevious, Goto, Types
<1>2. CASE \E s \in visited[w] : InsertSnapshot(w, s)
  BY <1>2 DEF InsertSnapshot, Goto, Types
<1>3. CASE Abort(w)
  BY <1>3 DEF Abort, Leave, CloseSession, Goto, Types
<1>4. CASE \E S \in (SUBSET Skills) \ {{}} : \E r \in [S -> Reports] : BeginBulk(w, S, r)
  BY <1>4 DEF BeginBulk, Begin, Goto, Types
<1>5. CASE ReadIndicators(w) \/ FlushIndicators(w)
  BY <1>5 DEF ReadIndicators, FlushIndicators, Goto, Types
<1>6. CASE CommitBulk(w)
  BY <1>6 DEF CommitBulk, Leave, CloseSession, Goto, Types
<1>7. CASE \E S \in (SUBSET Skills) \ {{}} : \E r \in [S -> Reports] : BeginScan(w, S, r)
  BY <1>7 DEF BeginScan, Begin, Goto, Types
<1>8. CASE \E s \in todo[w] : SkipSkill(w, s) \/ TakeSkill(w, s)
  BY <1>8 DEF SkipSkill, TakeSkill, Goto, Types
<1>9. CASE LoadSkill(w) \/ CommitSnapshot(w)
  BY <1>9 DEF LoadSkill, CommitSnapshot, Goto, Types
<1>10. CASE \E x \in draft[w], i \in Indicators : RecordLink(w, x, i)
  BY <1>10 DEF RecordLink
<1>11. CASE EndSkill(w) \/ MarkScanned(w)
  BY <1>11 DEF EndSkill, MarkScanned, Leave, CloseSession, Goto, Types
<1> QED BY <1>1, <1>2, <1>3, <1>4, <1>5, <1>6, <1>7, <1>8, <1>9, <1>10, <1>11 DEF Does, Either, Persist, Step

(* What a step of one writer changes for all.                                *)
Effects(w) ==
  /\ scans' \in Nat /\ scans <= scans' /\ ids' \in Nat /\ ids <= ids'
  /\ snaps \subseteq snaps' /\ snaps' \subseteq snaps \cup draft[w]
  /\ marked' \subseteq marked \cup (IF pc[w] = "idle" THEN {} ELSE {scan[w]})
  /\ pc'[w] = "idle" \/ (scan'[w] = scan[w] /\ pc[w] # "idle") \/ scan'[w] = scans + 1

LEMMA Effect ==
  ASSUME TypeInv, NEW w \in Writers, Does(w)
  PROVE  Effects(w)
<1>0. Types
  BY DEF TypeInv
<1> USE DEF dbVars, jobVars, sessionVars
<1>1. CASE ReadPrevious(w)
  BY <1>0, <1>1 DEF Effects, ReadPrevious, Goto, Types
<1>2. CASE \E s \in visited[w] : InsertSnapshot(w, s)
  BY <1>0, <1>2 DEF Effects, InsertSnapshot, NextId, Goto, Types
<1>3. CASE Abort(w)
  BY <1>0, <1>3 DEF Effects, Abort, Leave, CloseSession, Goto, Types
<1>4. CASE \E S \in (SUBSET Skills) \ {{}} : \E r \in [S -> Reports] : BeginBulk(w, S, r)
  BY <1>0, <1>4 DEF Effects, BeginBulk, Begin, Goto, Types
<1>5. CASE ReadIndicators(w) \/ FlushIndicators(w)
  BY <1>0, <1>5 DEF Effects, ReadIndicators, FlushIndicators, Goto, Types
<1>6. CASE CommitBulk(w)
  BY <1>0, <1>6 DEF Effects, CommitBulk, Commit, Leave, CloseSession, Goto, Types
<1>7. CASE w \in Stepwise /\ \E S \in (SUBSET Skills) \ {{}} : \E r \in [S -> Reports] : BeginScan(w, S, r)
  BY <1>0, <1>7 DEF Effects, BeginScan, Begin, Goto, Types
<1>8. CASE \E s \in todo[w] : SkipSkill(w, s) \/ TakeSkill(w, s)
  BY <1>0, <1>8 DEF Effects, SkipSkill, TakeSkill, Goto, Types
<1>9. CASE LoadSkill(w)
  BY <1>0, <1>9 DEF Effects, LoadSkill, Goto, Types
<1>10. CASE CommitSnapshot(w)
  BY <1>0, <1>10 DEF Effects, CommitSnapshot, Commit, Goto, Types
<1>11. CASE \E x \in draft[w], i \in Indicators : RecordLink(w, x, i)
  BY <1>0, <1>11 DEF Effects, RecordLink, Types
<1>12. CASE EndSkill(w) \/ MarkScanned(w)
  BY <1>0, <1>12 DEF Effects, EndSkill, MarkScanned, Leave, CloseSession, Goto, Types
<1> QED BY <1>1, <1>2, <1>3, <1>4, <1>5, <1>6, <1>7, <1>8, <1>9, <1>10, <1>11, <1>12 DEF Does, Either,
       Persist, Step

(* A step leaves the job of the other writers as it should be. *)
LEMMA JobIsKept ==
  ASSUME TypeInv, NEW w \in Writers, NEW v \in Writers, v # w, Does(w)
  PROVE  Job(v)'
<1>0. Types /\ Job(v) /\ Job(w) /\ ScansDiffer /\ Effects(w)
  BY Effect DEF TypeInv
<1>1. /\ pc'[v] = pc[v] /\ scan'[v] = scan[v] /\ plan'[v] = plan[v] /\ todo'[v] = todo[v]
      /\ visited'[v] = visited[v] /\ draft'[v] = draft[v]
  BY <1>0, OthersKeep
<1>2. pc[v] # "idle" => scan[v] \in 1 .. scans' /\ scan[v] \notin marked'
  <2>1. pc[v] # "idle" => scan[v] \in 1 .. scans /\ scan[v] \notin marked
    BY <1>0 DEF Job
  <2>2. pc[v] # "idle" /\ pc[w] # "idle" => scan[v] # scan[w]
    BY <1>0 DEF ScansDiffer
  <2>3. scans \in Nat
    BY <1>0, ScansAssumption DEF Types
  <2> QED BY <1>0, <2>1, <2>2, <2>3 DEF Effects
<1>3. draft[v] \cap draft[w] = {}
  <2>1. \A x \in draft[v] : pc[v] # "idle" /\ x.scan = scan[v]
    BY <1>0 DEF Job
  <2>2. \A x \in draft[w] : pc[w] # "idle" /\ x.scan = scan[w]
    BY <1>0 DEF Job
  <2> QED BY <1>0, <2>1, <2>2 DEF ScansDiffer
<1>4. /\ pc[v] = "links" => draft[v] \subseteq snaps'
      /\ pc[v] # "links" => draft[v] \cap snaps' = {}
  BY <1>0, <1>3 DEF Job, Effects
<1> QED BY <1>0, <1>1, <1>2, <1>4 DEF Job

(* Two scans that run have different numbers. *)
LEMMA ScansStayApart ==
  ASSUME TypeInv, NEW w \in Writers, Does(w)
  PROVE  ScansDiffer'
<1>0. Types /\ ScansDiffer /\ Effects(w)
  BY Effect DEF TypeInv
<1>1. \A v \in Writers \ {w} : pc'[v] = pc[v] /\ scan'[v] = scan[v] /\ scan[v] \in Nat /\ scan[v] <= scans
  <2> SUFFICES ASSUME NEW v \in Writers \ {w}
               PROVE  pc'[v] = pc[v] /\ scan'[v] = scan[v] /\ scan[v] \in Nat /\ scan[v] <= scans
    OBVIOUS
  <2>1. scan[v] \in 0 .. scans /\ scans \in Nat
    BY <1>0, ScansAssumption DEF Types
  <2> QED BY <1>0, <2>1, OthersKeep
<1>2. \A v \in Writers \ {w} : pc'[v] # "idle" /\ pc'[w] # "idle" => scan'[v] # scan'[w]
  <2>1. scans \in Nat
    BY <1>0, ScansAssumption DEF Types
  <2> QED BY <1>0, <1>1, <2>1 DEF Effects, ScansDiffer
<1> QED BY <1>1, <1>2, <1>0 DEF ScansDiffer

(* A report names indicators, and a new snapshot has a number of its own. *)
LEMMA ReportType ==
  ASSUME Types, NEW w \in Writers, Job(w), pc[w] # "idle", NEW s \in visited[w] \cup todo[w]
  PROVE  /\ plan[w][s] \in Report /\ plan[w][s].found \subseteq Indicators
         /\ scan[w] \in Scan /\ s \in Skills
         /\ [id |-> ids + 1, skill |-> s, scan |-> scan[w], report |-> plan[w][s]] \in Snapshot
<1>1. plan[w][s] \in Report
  BY DEF Job
<1>2. scan[w] \in Scan
  BY ScansAssumption DEF Types, Job, Scan
<1>3. s \in Skills /\ ids + 1 \in Nat \ {0}
  BY DEF Types
<1> QED BY <1>1, <1>2, <1>3 DEF Report, Snapshot

(* The link of a snapshot names it and the indicator. *)
LEMMA LinkType ==
  ASSUME Types, NEW w \in Writers, NEW x \in draft[w], NEW i \in x.report.found
  PROVE  LinkOf(w, x, i) \in Link /\ LinkOf(w, x, i).snap = x.id /\ LinkOf(w, x, i).ind = i
<1>1. x \in Snapshot
  BY DEF Types
<1>2. x.id \in Nat \ {0} /\ i \in Indicators
  BY <1>1 DEF Snapshot, Report
<1>3. (i \notin prev[w][x.skill]) \in BOOLEAN
  BY Zenon
<1> QED BY <1>2, <1>3 DEF LinkOf, Link

(* A commit keeps the types of what it writes. *)
LEMMA LatestType ==
  ASSUME Types, NEW w \in Writers, Commit(w)
  PROVE  /\ snaps' \subseteq Snapshot
         /\ latest' \in [Skills -> Recorded]
<1>1. draft[w] \subseteq Snapshot
  BY DEF Types
<1>2. ASSUME NEW x \in draft[w] PROVE LatestAfter(w, x) \in Recorded
  <2>1. x.id \in Nat /\ x.report.severity \in Severities /\ x.skill \in Skills
    BY <1>1 DEF Snapshot, Report
  <2>2. latest[x.skill].id \in Nat /\ latest[x.skill].severity \in Severities
    BY <2>1 DEF Types, Recorded
  <2> QED BY <2>1, <2>2 DEF LatestAfter, Written, Recorded
<1>3. \A s \in Skills : latest'[s] \in Recorded
  <2> SUFFICES ASSUME NEW s \in Skills PROVE latest'[s] \in Recorded
    OBVIOUS
  <2>1. CASE \E x \in draft[w] : x.skill = s
    <3> DEFINE x == CHOOSE x \in draft[w] : x.skill = s
    <3>1. x \in draft[w]
      BY <2>1
    <3>2. latest'[s] = LatestAfter(w, x)
      BY <2>1 DEF Commit
    <3> QED BY <1>2, <3>1, <3>2
  <2>2. CASE ~\E x \in draft[w] : x.skill = s
    BY <2>2 DEF Commit, Types
  <2> QED BY <2>1, <2>2
<1> QED BY <1>1, <1>3 DEF Commit, Types

(* A step keeps the types. *)
LEMMA TypesStep ==
  ASSUME TypeInv, NEW w \in Writers, Does(w)
  PROVE  Types'
<1>0. Types /\ Job(w) /\ Effects(w) /\ scans \in Nat /\ MaxScans \in Nat
  BY Effect, ScansAssumption DEF TypeInv, Types
<1> USE DEF dbVars, jobVars, sessionVars
<1>1. CASE ReadPrevious(w)
  BY <1>0, <1>1, ReportsAssumption DEF Effects, ReadPrevious, Goto, Types, Job, PC
<1>2. CASE \E s \in visited[w] : InsertSnapshot(w, s)
  <2>1. PICK s \in visited[w] : InsertSnapshot(w, s)
    BY <1>2
  <2> DEFINE x == [id |-> ids + 1, skill |-> s, scan |-> scan[w], report |-> plan[w][s]]
  <2>2. x \in Snapshot
    BY <1>0, <2>1, ReportType DEF InsertSnapshot
  <2>3. draft' = [draft EXCEPT ![w] = @ \cup {x}] /\ ids' = ids + 1
    BY <2>1 DEF InsertSnapshot, NextId
  <2> HIDE DEF x
  <2> QED BY <1>0, <2>1, <2>2, <2>3 DEF InsertSnapshot, Goto, Types, PC
<1>3. CASE Abort(w)
  BY <1>0, <1>3, ReportsAssumption DEF Effects, Abort, Leave, CloseSession, Goto, Types, Job, PC
<1>4. CASE \E S \in (SUBSET Skills) \ {{}} : \E r \in [S -> Reports] : BeginBulk(w, S, r)
  BY <1>0, <1>4, ReportsAssumption DEF Effects, BeginBulk, Begin, Goto, Types, Job, PC
<1>5. CASE ReadIndicators(w) \/ FlushIndicators(w)
  <2>1. CASE ReadIndicators(w)
    <3>1. UNION {plan[w][s].found : s \in visited[w]} \subseteq Indicators
      BY <1>0, <2>1, ReportType DEF ReadIndicators
    <3> QED BY <1>0, <2>1, <3>1 DEF ReadIndicators, Goto, Types, PC
  <2>2. CASE FlushIndicators(w)
    BY <1>0, <2>2 DEF FlushIndicators, Goto, Types, PC
  <2> QED BY <1>5, <2>1, <2>2
<1>6. CASE CommitBulk(w)
  <2>1. snaps' \subseteq Snapshot /\ latest' \in [Skills -> Recorded]
    BY <1>0, <1>6, LatestType DEF CommitBulk
  <2>2. links' \subseteq Link
    BY <1>0, <1>6, LinkType DEF CommitBulk, LinksOf, Types
  <2>3. pc[w] # "idle" /\ marked' = marked \cup {scan[w]}
    BY <1>6 DEF CommitBulk
  <2>4. marked' \subseteq 1 .. scans'
    BY <1>0, <1>6, <2>3 DEF CommitBulk, Types, Job
  <2> QED BY <1>0, <1>6, <2>1, <2>2, <2>4 DEF CommitBulk, Leave, CloseSession, Goto, Types, PC
<1>7. CASE w \in Stepwise /\ \E S \in (SUBSET Skills) \ {{}} : \E r \in [S -> Reports] : BeginScan(w, S, r)
  BY <1>0, <1>7, ReportsAssumption DEF Effects, BeginScan, Begin, Goto, Types, Job, PC
<1>8. CASE \E s \in todo[w] : SkipSkill(w, s) \/ TakeSkill(w, s)
  <2>1. PICK s \in todo[w] : SkipSkill(w, s) \/ TakeSkill(w, s)
    BY <1>8
  <2>2. plan[w][s].found \subseteq Indicators /\ s \in Skills
    BY <1>0, <2>1, ReportType DEF SkipSkill, TakeSkill
  <2>3. CASE SkipSkill(w, s)
    BY <1>0, <2>3 DEF SkipSkill, Goto, Types, PC
  <2>4. CASE TakeSkill(w, s)
    BY <1>0, <2>2, <2>4 DEF TakeSkill, Goto, Types, PC
  <2> QED BY <2>1, <2>3, <2>4
<1>9. CASE LoadSkill(w)
  BY <1>0, <1>9, ReportsAssumption DEF Effects, LoadSkill, Goto, Types, Job, PC
<1>10. CASE CommitSnapshot(w)
  <2>1. snaps' \subseteq Snapshot /\ latest' \in [Skills -> Recorded]
    BY <1>0, <1>10, LatestType DEF CommitSnapshot
  <2> QED BY <1>0, <1>10, <2>1 DEF CommitSnapshot, Goto, Types, PC
<1>11. CASE \E x \in draft[w], i \in Indicators : RecordLink(w, x, i)
  <2>1. PICK x \in draft[w], i \in Indicators : RecordLink(w, x, i)
    BY <1>11
  <2>2. links' = links \cup {LinkOf(w, x, i)} /\ i \in x.report.found
    BY <2>1 DEF RecordLink
  <2>3. links' \subseteq Link
    BY <1>0, <2>2, LinkType DEF Types
  <2> QED BY <1>0, <2>1, <2>3 DEF RecordLink, Types
<1>12. CASE EndSkill(w) \/ MarkScanned(w)
  BY <1>0, <1>12, ReportsAssumption DEF Effects, EndSkill, MarkScanned, Leave, CloseSession, Goto, Types,
         Job, PC
<1> QED BY <1>1, <1>2, <1>3, <1>4, <1>5, <1>6, <1>7, <1>8, <1>9, <1>10, <1>11, <1>12 DEF Does, Either,
       Persist, Step

(* A step leaves its writer's job as it should be. *)
LEMMA JobStep ==
  ASSUME TypeInv, NEW w \in Writers, Does(w)
  PROVE  Job(w)'
<1>0. Types /\ Job(w) /\ Effects(w) /\ Ids /\ scans \in Nat
  BY Effect, ScansAssumption DEF TypeInv, Types
<1> USE DEF dbVars, jobVars, sessionVars
<1>1. CASE ReadPrevious(w)
  BY <1>0, <1>1, ReportsAssumption, WritersAssumption DEF ReadPrevious, Goto, Types, Job, BulkPC, StepwisePC
<1>2. CASE \E s \in visited[w] : InsertSnapshot(w, s)
  <2>1. PICK s \in visited[w] : InsertSnapshot(w, s)
    BY <1>2
  <2> DEFINE x == [id |-> ids + 1, skill |-> s, scan |-> scan[w], report |-> plan[w][s]]
  <2>2. /\ draft'[w] = draft[w] \cup {x}
        /\ pc[w] = "insert" /\ pc'[w] = (IF w \in Bulk THEN "insert" ELSE "load")
        /\ \A y \in draft[w] : y.skill # s
        /\ UNCHANGED <<snaps, scans, scan, plan, todo, visited, marked>>
    BY <1>0, <2>1 DEF InsertSnapshot, NextId, Goto, Types
  <2>3. x.skill = s /\ x.scan = scan[w] /\ x.id = ids + 1
    OBVIOUS
  <2>4. x \notin snaps
    BY <1>0, <2>3 DEF Ids, All, Types
  <2> HIDE DEF x
  <2> QED BY <1>0, <2>2, <2>3, <2>4 DEF Job, BulkPC, StepwisePC
<1>3. CASE Abort(w)
  BY <1>0, <1>3, ReportsAssumption, WritersAssumption DEF Abort, Leave, CloseSession, Goto, Types, Job,
         BulkPC, StepwisePC
<1>4. CASE \E S \in (SUBSET Skills) \ {{}} : \E r \in [S -> Reports] : BeginBulk(w, S, r)
  BY <1>0, <1>4, ReportsAssumption, WritersAssumption DEF BeginBulk, Begin, Goto, Types, Job, BulkPC,
         StepwisePC
<1>5. CASE ReadIndicators(w) \/ FlushIndicators(w)
  BY <1>0, <1>5, ReportsAssumption, WritersAssumption DEF ReadIndicators, FlushIndicators, Goto, Types,
         Job, BulkPC, StepwisePC
<1>6. CASE CommitBulk(w)
  BY <1>0, <1>6, ReportsAssumption, WritersAssumption DEF CommitBulk, Commit, Leave, CloseSession, Goto,
         Types, Job, BulkPC, StepwisePC
<1>7. CASE w \in Stepwise /\ \E S \in (SUBSET Skills) \ {{}} : \E r \in [S -> Reports] : BeginScan(w, S, r)
  <2>1. PICK S \in (SUBSET Skills) \ {{}} : \E r \in [S -> Reports] : BeginScan(w, S, r)
    BY <1>7
  <2>2. PICK r \in [S -> Reports] : BeginScan(w, S, r)
    BY <2>1
  <2>3. /\ pc[w] = "idle" /\ pc'[w] = "next" /\ scans' = scans + 1 /\ scan'[w] = scans + 1
        /\ plan'[w] = r /\ todo'[w] = S
        /\ UNCHANGED <<snaps, marked, visited, draft>>
    BY <1>0, <2>2 DEF BeginScan, Begin, Goto, Types
  <2>4. \A s \in S : r[s] \in Report
    BY ReportsAssumption
  <2>5. scans + 1 \notin marked /\ scans + 1 \in 1 .. scans'
    BY <1>0, <2>3 DEF Types
  <2> QED BY <1>0, <1>7, <2>3, <2>4, <2>5, WritersAssumption DEF Job, BulkPC, StepwisePC
<1>8. CASE \E s \in todo[w] : SkipSkill(w, s) \/ TakeSkill(w, s)
  BY <1>0, <1>8, ReportsAssumption, WritersAssumption DEF SkipSkill, TakeSkill, Goto, Types, Job, BulkPC,
         StepwisePC
<1>9. CASE LoadSkill(w)
  BY <1>0, <1>9, ReportsAssumption, WritersAssumption DEF LoadSkill, Goto, Types, Job, BulkPC, StepwisePC
<1>10. CASE CommitSnapshot(w)
  BY <1>0, <1>10, ReportsAssumption, WritersAssumption DEF CommitSnapshot, Commit, Goto, Types, Job,
         BulkPC, StepwisePC
<1>11. CASE \E x \in draft[w], i \in Indicators : RecordLink(w, x, i)
  BY <1>0, <1>11, ReportsAssumption, WritersAssumption DEF RecordLink, Types, Job, BulkPC, StepwisePC
<1>12. CASE EndSkill(w) \/ MarkScanned(w)
  BY <1>0, <1>12, ReportsAssumption, WritersAssumption DEF EndSkill, MarkScanned, Leave, CloseSession,
         Goto, Types, Job, BulkPC, StepwisePC
<1> QED BY <1>1, <1>2, <1>3, <1>4, <1>5, <1>6, <1>7, <1>8, <1>9, <1>10, <1>11, <1>12 DEF Does, Either,
       Persist, Step

(* A step keeps ids apart. *)
LEMMA IdsStep ==
  ASSUME TypeInv, NEW w \in Writers, Does(w)
  PROVE  Ids'
<1>0. Types /\ Job(w) /\ Effects(w) /\ Ids /\ scans \in Nat /\ Types'
  BY Effect, TypesStep, ScansAssumption DEF TypeInv, Types
<1>1. \A v \in Writers \ {w} : draft'[v] = draft[v]
  BY <1>0, OthersKeep
<1>2. ASSUME draft'[w] \subseteq draft[w] PROVE All' \subseteq All
  BY <1>0, <1>1, <1>2 DEF All, Effects
<1>3. \A x \in All : x.id \in Nat /\ x.scan \in Nat
  BY <1>0 DEF All, Types, Snapshot, Scan
<1>4. ASSUME All' \subseteq All, \A l \in links' : \E x \in snaps' : x.id = l.snap
      PROVE  Ids'
  <2>1. ids \in Nat /\ ids' \in Nat /\ ids <= ids' /\ scans' \in Nat /\ scans <= scans'
    BY <1>0 DEF Types, Effects
  <2>2. \A x \in All' : x.id <= ids' /\ x.scan <= scans'
    BY <1>0, <1>3, <1>4, <2>1 DEF Ids
  <2> QED BY <1>0, <1>4, <2>2 DEF Ids
<1>5. ASSUME links' = links PROVE \A l \in links' : \E x \in snaps' : x.id = l.snap
  BY <1>0, <1>5 DEF Ids, Effects
<1> USE DEF dbVars, jobVars, sessionVars
<1>6. CASE \E s \in visited[w] : InsertSnapshot(w, s)
  <2>1. PICK s \in visited[w] : InsertSnapshot(w, s)
    BY <1>6
  <2> DEFINE x == [id |-> ids + 1, skill |-> s, scan |-> scan[w], report |-> plan[w][s]]
  <2>2. draft'[w] = draft[w] \cup {x} /\ ids' = ids + 1 /\ UNCHANGED <<snaps, links, scans>>
    BY <1>0, <2>1 DEF InsertSnapshot, NextId, Types
  <2>3. All' = All \cup {x}
    BY <1>1, <2>2 DEF All
  <2>4. x.id = ids + 1 /\ x.scan <= scans
    BY <1>0, <2>1 DEF InsertSnapshot, Job, Types
  <2> HIDE DEF x
  <2>5. \A y \in All : y.id # x.id
    BY <1>0, <1>3, <2>4 DEF Ids, Types
  <2>6. \A y \in All' : y.id <= ids' /\ y.scan <= scans'
    BY <1>0, <1>3, <2>2, <2>3, <2>4 DEF Ids, Types
  <2>7. \A y, z \in All' : y.id = z.id => y = z
    BY <1>0, <2>3, <2>5 DEF Ids
  <2>8. \A l \in links' : \E y \in snaps' : y.id = l.snap
    BY <1>5, <2>2
  <2> QED BY <2>6, <2>7, <2>8 DEF Ids
<1>7. CASE CommitBulk(w)
  <2>1. draft'[w] = {} /\ snaps' = snaps \cup draft[w]
        /\ links' = links \cup UNION {LinksOf(w, x) : x \in draft[w]}
    BY <1>0, <1>7 DEF CommitBulk, Commit, CloseSession, Types
  <2>2. \A l \in links' : \E x \in snaps' : x.id = l.snap
    BY <1>0, <2>1, LinkType DEF LinksOf, Ids
  <2> QED BY <1>2, <1>4, <2>1, <2>2
<1>8. CASE \E x \in draft[w], i \in Indicators : RecordLink(w, x, i)
  <2>1. PICK x \in draft[w], i \in Indicators : RecordLink(w, x, i)
    BY <1>8
  <2>2. x \in snaps /\ i \in x.report.found /\ links' = links \cup {LinkOf(w, x, i)} /\ snaps' = snaps /\ draft' = draft
    BY <1>0, <2>1 DEF RecordLink, Job
  <2>3. \A l \in links' : \E y \in snaps' : y.id = l.snap
    BY <1>0, <2>2, LinkType DEF Ids
  <2> QED BY <1>2, <1>4, <2>2, <2>3
<1>9. ASSUME links' = links, draft'[w] \subseteq draft[w] PROVE Ids'
  BY <1>2, <1>4, <1>5, <1>9
<1>10. CASE ReadPrevious(w)
  BY <1>0, <1>9, <1>10 DEF ReadPrevious, Goto, Types
<1>11. CASE Abort(w)
  BY <1>0, <1>9, <1>11 DEF Abort, Leave, CloseSession, Goto, Types
<1>12. CASE \E S \in (SUBSET Skills) \ {{}} : \E r \in [S -> Reports] : BeginBulk(w, S, r)
  BY <1>0, <1>9, <1>12 DEF BeginBulk, Begin, Goto, Types
<1>13. CASE ReadIndicators(w) \/ FlushIndicators(w)
  BY <1>0, <1>9, <1>13 DEF ReadIndicators, FlushIndicators, Goto, Types
<1>14. CASE w \in Stepwise /\ \E S \in (SUBSET Skills) \ {{}} : \E r \in [S -> Reports] : BeginScan(w, S, r)
  BY <1>0, <1>9, <1>14 DEF BeginScan, Begin, Goto, Types
<1>15. CASE \E s \in todo[w] : SkipSkill(w, s) \/ TakeSkill(w, s)
  BY <1>0, <1>9, <1>15 DEF SkipSkill, TakeSkill, Goto, Types
<1>16. CASE LoadSkill(w)
  BY <1>0, <1>9, <1>16 DEF LoadSkill, Goto, Types
<1>17. CASE CommitSnapshot(w)
  BY <1>0, <1>9, <1>17 DEF CommitSnapshot, Commit, Goto, Types
<1>18. CASE EndSkill(w) \/ MarkScanned(w)
  BY <1>0, <1>9, <1>18 DEF EndSkill, MarkScanned, Leave, CloseSession, Goto, Types
<1> QED BY <1>6, <1>7, <1>8, <1>10, <1>11, <1>12, <1>13, <1>14, <1>15, <1>16, <1>17, <1>18 DEF Does,
       Either, Persist, Step

(* The invariant is inductive. *)
LEMMA TypeStep == TypeInv /\ [Next]_vars => TypeInv'
<1> SUFFICES ASSUME TypeInv, [Next]_vars PROVE TypeInv'
  OBVIOUS
<1>1. CASE UNCHANGED vars
  BY <1>1 DEF vars, dbVars, jobVars, sessionVars, TypeInv, Types, Job, ScansDiffer, Ids, All
<1>2. ASSUME NEW w \in Writers, Does(w) PROVE TypeInv'
  BY <1>2, TypesStep, JobStep, JobIsKept, ScansStayApart, IdsStep DEF TypeInv
<1> QED BY <1>1, <1>2, OneWriter

(* Every variable keeps its type, and snapshots are told apart by their ids, *)
(* also those that are not committed yet.                                    *)
THEOREM TypeCorrect == Spec => []TypeOK
<1>1. TypeInv => TypeOK
  BY ScansAssumption DEF TypeInv, Types, Job, Ids, All, TypeOK, Scan, Recorded
<1> QED BY TypeInit, TypeStep, <1>1, PTL DEF Spec

-----------------------------------------------------------------------------
(* What a step does to snapshots and links *)

PrevRead(w) == pc[w] \in {"indicators", "flush", "insert", "load", "commit", "links"}

Commits(w) == CommitBulk(w) \/ CommitSnapshot(w)

(* What is recorded changes at a commit or when a link is recorded. *)
LEMMA DbStep ==
  ASSUME NEW w \in Writers, Does(w)
  PROVE  \/ Commits(w)
         \/ \E x \in draft[w], i \in Indicators : RecordLink(w, x, i)
         \/ UNCHANGED <<snaps, links, latest, exact, raced>>
BY DEF Does, Either, Persist, Step, Commits, ReadPrevious, InsertSnapshot, Abort, BeginBulk, ReadIndicators,
       FlushIndicators, BeginScan, SkipSkill, TakeSkill, LoadSkill, EndSkill, MarkScanned, Begin, Meet,
       dbVars, historyVars

(* A commit adds the snapshots in hand, and in bulk their links. *)
LEMMA CommitStep ==
  ASSUME TypeInv, NEW w \in Writers, Commits(w)
  PROVE  /\ Commit(w)
         /\ pc[w] \in {"insert", "commit"}
         /\ draft[w] \cap snaps = {}
         /\ pc[w] = "insert" => w \in Bulk
         /\ links \subseteq links'
         /\ \A l \in links' \ links : \E x \in draft[w] : \E i \in x.report.found : l = LinkOf(w, x, i)
         /\ CommitBulk(w) => \A x \in draft[w] : \A i \in x.report.found : LinkOf(w, x, i) \in links'
<1>1. pc[w] \in {"insert", "commit"}
  BY DEF Commits, CommitBulk, CommitSnapshot
<1>2. Job(w)
  BY DEF TypeInv
<1> QED BY <1>1, <1>2 DEF Commits, CommitBulk, CommitSnapshot, LinksOf, Job

(* Every link that appears is one of a snapshot of the writer.               *)
LEMMA NewLinks ==
  ASSUME TypeInv, NEW w \in Writers, Does(w)
  PROVE  /\ links \subseteq links'
         /\ \A l \in links' \ links :
              \E x \in draft[w] : \E i \in x.report.found :
                /\ l = LinkOf(w, x, i) /\ l.snap = x.id /\ l.ind = i
                /\ PrevRead(w) /\ x \in snaps'
<1>0. Types /\ Job(w)
  BY DEF TypeInv
<1>1. CASE Commits(w)
  BY <1>0, <1>1, CommitStep, LinkType DEF PrevRead, Commit
<1>2. CASE \E x \in draft[w], i \in Indicators : RecordLink(w, x, i)
  <2>1. PICK x \in draft[w], i \in Indicators : RecordLink(w, x, i)
    BY <1>2
  <2>2. /\ x \in snaps /\ snaps' = snaps /\ i \in x.report.found /\ links' = links \cup {LinkOf(w, x, i)}
        /\ PrevRead(w)
    BY <1>0, <2>1 DEF RecordLink, Job, PrevRead
  <2> QED BY <1>0, <2>2, LinkType
<1> QED BY <1>1, <1>2, DbStep

(* What is linked by a snapshot, before and after a step. *)
LEMMA Linked ==
  /\ \A id, i : i \in LinkedBy(id) <=> \E l \in links : l.snap = id /\ l.ind = i
  /\ \A id, i : i \in LinkedBy(id)' <=> \E l \in links' : l.snap = id /\ l.ind = i
BY DEF LinkedBy

(* The links of a snapshot are its writer's business.                        *)
LEMMA LinksStep ==
  ASSUME TypeInv, NEW w \in Writers, Does(w), NEW x \in snaps'
  PROVE  /\ x \in snaps \/ (x \in draft[w] /\ Commits(w))
         /\ x \notin draft[w] => LinkedBy(x.id)' = LinkedBy(x.id)
         /\ LinkedBy(x.id) \subseteq LinkedBy(x.id)'
         /\ LinkedBy(x.id) \subseteq x.report.found => LinkedBy(x.id)' \subseteq x.report.found
         /\ x \notin snaps => LinkedBy(x.id) = {}
         /\ CommitBulk(w) /\ x \in draft[w] => x.report.found \subseteq LinkedBy(x.id)'
<1>0. Types /\ Job(w) /\ Ids
  BY DEF TypeInv
<1>1. x \in snaps \/ (x \in draft[w] /\ Commits(w))
  <2>1. CASE Commits(w)
    BY <2>1, CommitStep DEF Commit
  <2>2. CASE ~Commits(w)
    BY <2>2, DbStep DEF RecordLink
  <2> QED BY <2>1, <2>2
<1>2. x \in All /\ \A y \in draft[w] : y.id = x.id => y = x
  BY <1>0, <1>1 DEF All, Ids
<1>3. \A i : i \in LinkedBy(x.id)' => i \in LinkedBy(x.id) \/ (x \in draft[w] /\ i \in x.report.found)
  <2> SUFFICES ASSUME NEW l \in links', l.snap = x.id, l \notin links
               PROVE  x \in draft[w] /\ l.ind \in x.report.found
    BY Linked
  <2>1. PICK z \in draft[w] : \E i \in z.report.found : l = LinkOf(w, z, i) /\ l.snap = z.id /\ l.ind = i
    BY NewLinks
  <2> QED BY <1>2, <2>1
<1>4. \A i : i \in LinkedBy(x.id) => i \in LinkedBy(x.id)'
  BY Linked, NewLinks
<1>5. x \notin snaps => LinkedBy(x.id) = {}
  <2> SUFFICES ASSUME x \notin snaps, NEW l \in links, l.snap = x.id PROVE FALSE
    BY Linked
  <2>1. PICK y \in snaps : y.id = x.id
    BY <1>0 DEF Ids
  <2> QED BY <1>0, <1>2, <2>1 DEF Ids, All
<1>6. ASSUME CommitBulk(w), x \in draft[w] PROVE x.report.found \subseteq LinkedBy(x.id)'
  BY <1>0, <1>6, CommitStep, LinkType, Linked DEF Commits
<1> QED BY <1>1, <1>3, <1>4, <1>5, <1>6

(* Drafts are added by their writer under a new id.                          *)
LEMMA DraftStep ==
  ASSUME TypeInv, NEW w \in Writers, Does(w), NEW v \in Writers, NEW x \in draft'[v]
  PROVE  x \in draft[v] \/ (v = w /\ x.id = ids + 1 /\ snaps' = snaps)
<1>0. Types
  BY DEF TypeInv
<1>1. CASE v # w
  BY <1>0, <1>1, OthersKeep
<1>2. CASE \E s \in visited[w] : InsertSnapshot(w, s)
  BY <1>0, <1>1, <1>2 DEF InsertSnapshot, NextId, Types
<1>3. CASE v = w /\ ~\E s \in visited[w] : InsertSnapshot(w, s)
  <2>1. draft'[w] = draft[w] \/ draft'[w] = {}
    BY <1>0, <1>3 DEF Does, Either, Persist, Step, ReadPrevious, Abort, BeginBulk, ReadIndicators,
       FlushIndicators, CommitBulk, BeginScan, SkipSkill, TakeSkill, LoadSkill, CommitSnapshot, RecordLink,
       EndSkill, MarkScanned, CloseSession, sessionVars, Types
  <2> QED BY <1>3, <2>1
<1> QED BY <1>1, <1>2, <1>3

-----------------------------------------------------------------------------
(* What is marked is whole *)

(* Of what a running scan has recorded only the snapshot in hand may lack    *)
(* links; so a scan that gets as far as being marked lacks none.             *)
WholeInv ==
  /\ \A x \in snaps : LinkedBy(x.id) \subseteq x.report.found
  /\ \A w \in Writers, x \in snaps :
       pc[w] # "idle" /\ x.scan = scan[w] /\ x \notin draft[w] => LinkedBy(x.id) = x.report.found
  /\ MarkedIsWhole

(* A scan goes on, begins, or ends; a snapshot is let go when it is whole.   *)
LEMMA ScanStep ==
  ASSUME TypeInv, NEW w \in Writers, Does(w)
  PROVE  /\ \/ pc'[w] = "idle"
            \/ scan'[w] = scans + 1
            \/ scan'[w] = scan[w] /\ pc[w] # "idle" /\ draft[w] \subseteq draft'[w]
            \/ /\ scan'[w] = scan[w] /\ pc[w] # "idle" /\ snaps' = snaps /\ links' = links
               /\ \A x \in draft[w] : x.report.found = LinkedBy(x.id)
         /\ \/ marked' = marked
            \/ /\ marked' = marked \cup {scan[w]} /\ pc[w] # "idle"
               /\ CommitBulk(w) \/ (draft[w] = {} /\ snaps' = snaps /\ links' = links)
<1>0. Types /\ Job(w)
  BY DEF TypeInv
<1> USE DEF dbVars, jobVars, sessionVars
<1>1. CASE CommitBulk(w) \/ Abort(w)
  BY <1>0, <1>1 DEF CommitBulk, Abort, Leave, Goto, Types
<1>2. CASE MarkScanned(w)
  <2>1. draft[w] = {}
    BY <1>0, <1>2 DEF MarkScanned, Job
  <2> QED BY <1>0, <1>2, <2>1 DEF MarkScanned, Leave, Goto, Types
<1>3. CASE EndSkill(w)
  BY <1>0, <1>3 DEF EndSkill, LinksDone
<1>4. CASE (\E S \in (SUBSET Skills) \ {{}} : \E r \in [S -> Reports] : BeginBulk(w, S, r) \/ BeginScan(w, S, r))
  BY <1>0, <1>4 DEF BeginBulk, BeginScan, Begin, Types
<1>5. CASE \E s \in visited[w] : InsertSnapshot(w, s)
  BY <1>0, <1>5 DEF InsertSnapshot, Types
<1>6. CASE ReadPrevious(w) \/ ReadIndicators(w) \/ FlushIndicators(w) \/ LoadSkill(w) \/ CommitSnapshot(w)
  BY <1>6 DEF ReadPrevious, ReadIndicators, FlushIndicators, LoadSkill, CommitSnapshot
<1>7. CASE \E s \in todo[w] : SkipSkill(w, s) \/ TakeSkill(w, s)
  BY <1>7 DEF SkipSkill, TakeSkill
<1>8. CASE \E x \in draft[w], i \in Indicators : RecordLink(w, x, i)
  BY <1>8 DEF RecordLink
<1> QED BY <1>1, <1>2, <1>3, <1>4, <1>5, <1>6, <1>7, <1>8 DEF Does, Either, Persist, Step

(* The invariant is inductive. *)
LEMMA WholeStep == TypeInv /\ WholeInv /\ [Next]_vars => WholeInv'
<1> SUFFICES ASSUME TypeInv, WholeInv, [Next]_vars PROVE WholeInv'
  OBVIOUS
<1>1. CASE UNCHANGED vars
  BY <1>1 DEF vars, dbVars, jobVars, sessionVars, WholeInv, MarkedIsWhole, LinkedBy
<1>2. ASSUME NEW w \in Writers, Does(w) PROVE WholeInv'
  <2>0. Types /\ (\A v \in Writers : Job(v)) /\ ScansDiffer /\ Ids /\ Effects(w)
    BY <1>2, Effect DEF TypeInv
  <2>1. \A x \in snaps' : LinkedBy(x.id)' \subseteq x.report.found
    BY <1>2, LinksStep DEF WholeInv
  <2>2. ASSUME NEW x \in snaps, x \notin draft[w] PROVE LinkedBy(x.id)' = LinkedBy(x.id)
    BY <1>2, <2>0, <2>2, LinksStep DEF Effects
  <2>3. \A x \in draft[w] : pc[w] # "idle" /\ x.scan = scan[w]
    BY <2>0 DEF Job
  <2>4. \A x \in snaps' : x \in snaps \/ x \in draft[w]
    BY <1>2, LinksStep
  <2>5. \A x \in snaps' : x.scan <= scans /\ x.scan \in Nat /\ scans \in Nat
    <3>1. \A x \in snaps' : x \in All /\ x \in Snapshot
      BY <2>0, <2>4 DEF All, Types
    <3> QED BY <2>0, <3>1, ScansAssumption DEF Ids, Types, Snapshot, Scan
  (* What was whole and is not in hand stays whole.                          *)
  <2>6. ASSUME NEW v \in Writers, NEW x \in snaps', pc[v] # "idle", x.scan = scan[v], x \notin draft[v],
               v = w => x \notin draft[w]
        PROVE  LinkedBy(x.id)' = x.report.found
    <3>1. x \notin draft[w]
      BY <2>0, <2>3, <2>6 DEF ScansDiffer
    <3>2. x \in snaps
      BY <2>4, <3>1
    <3> QED BY <2>2, <2>6, <3>1, <3>2 DEF WholeInv
  <2>7. ASSUME NEW v \in Writers, NEW x \in snaps', pc'[v] # "idle", x.scan = scan'[v], x \notin draft'[v]
        PROVE  LinkedBy(x.id)' = x.report.found
    <3>1. CASE v # w
      <4>1. pc'[v] = pc[v] /\ scan'[v] = scan[v] /\ draft'[v] = draft[v]
        BY <1>2, <2>0, <3>1, OthersKeep
      <4> QED BY <2>6, <2>7, <3>1, <4>1
    <3>2. CASE v = w /\ scan'[w] = scan[w] /\ pc[w] # "idle" /\ draft[w] \subseteq draft'[w]
      BY <2>6, <2>7, <3>2
    <3>3. CASE /\ v = w /\ scan'[w] = scan[w] /\ pc[w] # "idle" /\ snaps' = snaps /\ links' = links
               /\ \A y \in draft[w] : y.report.found = LinkedBy(y.id)
      <4>1. CASE x \in draft[w]
        <5>1. LinkedBy(x.id)' = LinkedBy(x.id)
          BY <3>3 DEF LinkedBy
        <5> QED BY <3>3, <4>1, <5>1
      <4>2. CASE x \notin draft[w]
        BY <2>6, <2>7, <3>3, <4>2
      <4> QED BY <4>1, <4>2
    <3>4. scan'[w] # scans + 1 \/ v # w
      BY <2>5, <2>7
    <3> QED BY <1>2, <2>7, <3>1, <3>2, <3>3, <3>4, ScanStep
  <2>8. ASSUME NEW x \in snaps', x.scan \in marked' PROVE LinkedBy(x.id)' = x.report.found
    <3>1. CASE x.scan \in marked
      <4>1. x \notin draft[w]
        BY <2>0, <2>3, <3>1 DEF Job
      <4>2. x \in snaps /\ LinkedBy(x.id)' = LinkedBy(x.id)
        BY <2>2, <2>4, <4>1
      <4> QED BY <3>1, <4>2 DEF WholeInv, MarkedIsWhole
    <3>2. CASE x.scan = scan[w] /\ pc[w] # "idle" /\ x \notin draft[w]
      BY <2>6, <3>2
    <3>3. CASE x \in draft[w] /\ CommitBulk(w)
      BY <1>2, <2>1, <3>3, LinksStep
    <3> QED BY <1>2, <2>8, <3>1, <3>2, <3>3, ScanStep
  <2> QED BY <2>1, <2>7, <2>8 DEF WholeInv, MarkedIsWhole
<1> QED BY <1>1, <1>2, OneWriter

(* A scan after which the repository is put off has all its links, however   *)
(* many writers run and die (mark_repo_scanned, record_skill_indicator_link, *)
(* persist_repo_analysis).                                                   *)
THEOREM MarkedScansAreWhole == Spec => []MarkedIsWhole
<1>1. Init => WholeInv
  BY DEF Init, WholeInv, MarkedIsWhole
<1>2. WholeInv => MarkedIsWhole
  BY DEF WholeInv
<1> QED BY TypeInit, TypeStep, WholeStep, <1>1, <1>2, PTL DEF Spec

-----------------------------------------------------------------------------
(* The first find is flagged *)

(* What a writer has read as the previous indicators of a skill is linked by *)
(* snapshots before its own.                                                 *)
Read(w) ==
  PrevRead(w) => \A s \in visited[w] : \A i \in prev[w][s] :
    \E y \in Of(s) : i \in LinkedBy(y.id) /\ \A x \in draft[w] : x.skill = s => y.id < x.id

FlagInv == FirstFindIsFlagged /\ \A w \in Writers : Read(w)

(* Snapshots and links are never taken away. *)
LEMMA Growth ==
  ASSUME TypeInv, NEW w \in Writers, Does(w), NEW s, NEW y \in Of(s)
  PROVE  y \in Of(s)' /\ LinkedBy(y.id) \subseteq LinkedBy(y.id)' /\ y.id <= ids /\ y.id \in Nat /\ ids \in Nat
<1>1. y \in snaps /\ y \in snaps' /\ y.skill = s
  BY Effect DEF Of, Effects
<1>2. y.id <= ids /\ y.id \in Nat /\ ids \in Nat
  BY <1>1 DEF TypeInv, Ids, All, Types, Snapshot
<1> QED BY <1>1, <1>2, LinksStep DEF Of

(* What a writer has read stays linked before its own snapshots. *)
LEMMA ReadStep ==
  ASSUME TypeInv, \A v \in Writers : Read(v), NEW w \in Writers, Does(w), NEW v \in Writers
  PROVE  Read(v)'
<1>0. Types /\ Job(v)
  BY DEF TypeInv
<1>1. ASSUME PrevRead(v), visited'[v] \subseteq visited[v], prev'[v] = prev[v]
      PROVE  Read(v)'
  <2> SUFFICES ASSUME NEW s \in visited[v], NEW i \in prev[v][s]
               PROVE  \E y \in Of(s)' : i \in LinkedBy(y.id)' /\ \A x \in draft'[v] : x.skill = s => y.id < x.id
    BY <1>1 DEF Read
  <2>1. PICK y \in Of(s) : i \in LinkedBy(y.id) /\ \A x \in draft[v] : x.skill = s => y.id < x.id
    BY <1>1 DEF Read
  <2>2. y \in Of(s)' /\ i \in LinkedBy(y.id)' /\ y.id < ids + 1
    BY <2>1, Growth
  <2>3. \A x \in draft'[v] : x.skill = s => y.id < x.id
    BY <2>1, <2>2, DraftStep
  <2> QED BY <2>2, <2>3
<1>2. CASE v # w
  <2>1. pc'[v] = pc[v] /\ visited'[v] = visited[v] /\ prev'[v] = prev[v]
    BY <1>0, <1>2, OthersKeep
  <2>2. CASE PrevRead(v)
    BY <1>1, <2>1, <2>2
  <2>3. CASE ~PrevRead(v)
    BY <2>1, <2>3 DEF PrevRead, Read
  <2> QED BY <2>2, <2>3
<1>3. CASE v = w /\ ReadPrevious(w)
  <2>1. prev'[w] = [s \in visited[w] |-> Previous(s)] /\ visited' = visited /\ draft'[w] = {}
    BY <1>0, <1>3 DEF ReadPrevious, Types, Job
  <2> SUFFICES ASSUME NEW s \in visited[w], NEW i \in Previous(s)
               PROVE  \E y \in Of(s)' : i \in LinkedBy(y.id)'
    BY <1>3, <2>1 DEF Read
  <2>2. PICK y \in Of(s) : i \in LinkedBy(y.id)
    BY DEF Previous
  <2> QED BY <2>2, Growth
<1>4. CASE v = w /\ PrevRead(w) /\ ~ReadPrevious(w)
  <2>1. visited'[w] = {} \/ (visited'[w] = visited[w] /\ prev'[w] = prev[w])
    <3> USE DEF sessionVars
    <3> QED BY <1>0, <1>4 DEF Does, Either, Persist, Step, InsertSnapshot, Abort, BeginBulk, Begin,
           ReadIndicators,
       FlushIndicators, CommitBulk, BeginScan, SkipSkill, TakeSkill, LoadSkill, CommitSnapshot, RecordLink,
       EndSkill, MarkScanned, CloseSession, Types, PrevRead
  <2> QED BY <1>1, <1>4, <2>1 DEF Read
<1>5. CASE v = w /\ ~PrevRead(w) /\ ~ReadPrevious(w)
  <2>1. ~PrevRead(w)'
    BY <1>0, <1>5, ZenonT(30) DEF Does, Either, Persist, Step, InsertSnapshot, Abort, BeginBulk, Begin, ReadIndicators,
       FlushIndicators, CommitBulk, BeginScan, SkipSkill, TakeSkill, LoadSkill, CommitSnapshot, RecordLink,
       EndSkill, MarkScanned, Leave, Goto, Types, PrevRead
  <2> QED BY <1>5, <2>1 DEF Read
<1> QED BY <1>2, <1>3, <1>4, <1>5

(* The invariant is inductive. *)
LEMMA FlagStep == TypeInv /\ FlagInv /\ [Next]_vars => FlagInv'
<1> SUFFICES ASSUME TypeInv, FlagInv, [Next]_vars PROVE FlagInv'
  OBVIOUS
<1>1. CASE UNCHANGED vars
  BY <1>1 DEF vars, dbVars, jobVars, sessionVars, FlagInv, FirstFindIsFlagged, Read, PrevRead, Of, LinkedBy
<1>2. ASSUME NEW w \in Writers, Does(w) PROVE FlagInv'
  <2>1. \A v \in Writers : Read(v)'
    BY <1>2, ReadStep DEF FlagInv
  <2>2. Job(w) /\ Ids
    BY DEF TypeInv
  <2> SUFFICES ASSUME NEW x \in snaps', NEW l \in links', l.snap = x.id, ~l.new
               PROVE  \E y \in Of(x.skill)' : y.id < x.id /\ l.ind \in LinkedBy(y.id)'
    BY <2>1 DEF FlagInv, FirstFindIsFlagged
  <2>3. x \in All /\ \A y \in All : y.id = x.id => y = x
    BY <1>2, <2>2, LinksStep DEF All, Ids
  <2>4. PICK y \in Of(x.skill) : y.id < x.id /\ l.ind \in LinkedBy(y.id)
    <3>1. CASE l \in links
      <4>1. x \in snaps
        BY <2>2, <2>3, <3>1 DEF Ids, All
      <4> QED BY <3>1, <4>1 DEF FlagInv, FirstFindIsFlagged
    <3>2. CASE l \notin links
      <4>0. PICK z \in draft[w] :
              \E i \in z.report.found : l = LinkOf(w, z, i) /\ l.snap = z.id /\ l.ind = i /\ PrevRead(w)
        BY <1>2, <3>2, NewLinks
      <4>1. PICK i \in z.report.found : l = LinkOf(w, z, i) /\ l.snap = z.id /\ l.ind = i /\ PrevRead(w)
        BY <4>0
      <4>2. z = x
        BY <2>3, <4>1 DEF All
      <4>3. x.skill \in visited[w]
        BY <2>2, <4>1, <4>2 DEF Job
      <4>4. LinkOf(w, z, i).new = (i \notin prev[w][z.skill])
        BY Zenon DEF LinkOf
      <4>5. l.ind \in prev[w][x.skill]
        BY <4>1, <4>2, <4>4
      <4> QED BY <4>1, <4>2, <4>3, <4>5 DEF FlagInv, Read
    <3> QED BY <3>1, <3>2
  <2> QED BY <1>2, <2>4, Growth
<1> QED BY <1>1, <1>2, OneWriter

(* Whoever meets whom and whatever is cut short, the first snapshot that     *)
(* links an indicator to a skill flags it as new (is_new_in_snapshot).       *)
THEOREM FirstFindsAreFlagged == Spec => []FirstFindIsFlagged
<1>1. Init => FlagInv
  BY DEF Init, FlagInv, FirstFindIsFlagged, Read, PrevRead
<1>2. FlagInv => FirstFindIsFlagged
  BY DEF FlagInv
<1> QED BY TypeInit, TypeStep, FlagStep, <1>1, <1>2, PTL DEF Spec

-----------------------------------------------------------------------------
(* A writer alone on a skill *)

SeenRead(w) == w \in Bulk \/ pc[w] = "commit"

(* As long as no other writer visits the skill, what its writer has read of  *)
(* it is still so.                                                           *)
Alone(w, s) ==
  /\ s \in visited[w]
  /\ pc[w] \in {"previous", "indicators", "flush", "insert", "load", "commit"}
  /\ \A v \in Writers \ {w} : s \notin visited[v]
  /\ PrevRead(w) => prev[w][s] = Previous(s)
  /\ SeenRead(w) => seen[w][s] = latest[s]
  /\ \A x \in draft[w] : x.skill = s => \A y \in Of(s) : y.id < x.id

AloneInv ==
  /\ alone \subseteq Writers \X Skills
  /\ \A w \in Writers, s \in Skills : <<w, s>> \in alone => Alone(w, s)

(* Who is alone after w has begun with the skills S. *)
LEMMA Met ==
  ASSUME NEW w \in Writers, NEW S \in SUBSET Skills, Meet(w, S), alone \subseteq Writers \X Skills,
         NEW v, NEW s, <<v, s>> \in alone'
  PROVE  /\ v \in Writers /\ s \in Skills
         /\ \/ v = w /\ s \in S /\ \A u \in Writers \ {w} : s \notin visited[u]
            \/ <<v, s>> \in alone /\ (s \in S /\ v # w => s \notin visited[v] \/ pc[v] = "links")
<1> DEFINE others(t) == {x \in Writers \ {w} : t \in visited[x]}
           spoilt == UNION {{<<x, t>> : x \in {y \in others(t) : pc[y] # "links"}} : t \in S}
           own == {<<w, t>> : t \in {u \in S : others(u) = {}}}
<1>1. alone' = (alone \ spoilt) \cup own
  BY DEF Meet
<1>2. CASE <<v, s>> \in own
  BY <1>2
<1>3. CASE <<v, s>> \in alone /\ <<v, s>> \notin spoilt
  <2>1. v \in Writers /\ s \in Skills
    BY <1>3
  <2>2. ASSUME s \in S, v # w, s \in visited[v], pc[v] # "links" PROVE FALSE
    <3>1. v \in {y \in others(s) : pc[y] # "links"}
      BY <2>1, <2>2
    <3>2. <<v, s>> \in {<<x, s>> : x \in {y \in others(s) : pc[y] # "links"}}
      BY <3>1
    <3> QED BY <1>3, <2>2, <3>2
  <2> QED BY <1>3, <2>1, <2>2
<1> QED BY <1>1, <1>2, <1>3

(* A step begins with new skills, or no pair comes to be alone. *)
LEMMA AloneChange ==
  ASSUME TypeInv, NEW w \in Writers, Does(w)
  PROVE  \/ \E S \in SUBSET Skills :
              /\ Meet(w, S) /\ visited'[w] = S /\ pc[w] \in {"idle", "next"} /\ pc'[w] = "previous"
              /\ w \in Bulk => seen'[w] = [s \in S |-> latest[s]]
              /\ UNCHANGED <<snaps, links, latest, draft>>
         \/ visited'[w] \subseteq visited[w] /\ alone' \subseteq alone
<1>0. Types /\ Job(w)
  BY DEF TypeInv
<1>1. CASE \E S \in (SUBSET Skills) \ {{}} : \E r \in [S -> Reports] : BeginBulk(w, S, r)
  BY <1>0, <1>1 DEF BeginBulk, Begin, Goto, Types, dbVars
<1>2. CASE w \in Stepwise /\ \E s \in todo[w] : SkipSkill(w, s) \/ TakeSkill(w, s)
  <2>1. PICK s \in todo[w] : SkipSkill(w, s) \/ TakeSkill(w, s)
    BY <1>2
  <2>2. CASE SkipSkill(w, s)
    BY <2>2 DEF SkipSkill, sessionVars, historyVars
  <2>3. CASE TakeSkill(w, s)
    <3>1. {s} \in SUBSET Skills
      BY <1>0 DEF Types
    <3>2. w \notin Bulk
      BY <1>2, WritersAssumption
    <3> QED BY <1>0, <2>3, <3>1, <3>2 DEF TakeSkill, Goto, Types
  <2> QED BY <2>1, <2>2, <2>3
<1>3. CASE /\ ~\E S \in (SUBSET Skills) \ {{}} : \E r \in [S -> Reports] : BeginBulk(w, S, r)
           /\ ~(w \in Stepwise /\ \E s \in todo[w] : SkipSkill(w, s) \/ TakeSkill(w, s))
  BY <1>0, <1>3 DEF Does, Either, Persist, Step, ReadPrevious, InsertSnapshot, Abort, ReadIndicators,
       FlushIndicators, CommitBulk, BeginScan, LoadSkill, CommitSnapshot, RecordLink, EndSkill, MarkScanned,
       Commit, CloseSession, sessionVars, historyVars, Types
<1> QED BY <1>1, <1>2, <1>3

(* What is recorded of a skill is changed only by a writer that visits it.   *)
LEMMA Untouched ==
  ASSUME TypeInv, NEW w \in Writers, Does(w), NEW s \in Skills,
         s \notin visited[w] \/ UNCHANGED <<snaps, links, latest>>
  PROVE  Of(s)' = Of(s) /\ latest'[s] = latest[s] /\ Previous(s)' = Previous(s)
<1>0. Types /\ Job(w)
  BY DEF TypeInv
<1>1. CASE UNCHANGED <<snaps, links, latest>>
  BY <1>1 DEF Of, Previous, IsNewest, LinkedBy
<1>2. CASE s \notin visited[w]
  <2>1. \A x \in draft[w] : x.skill # s
    BY <1>0, <1>2 DEF Job
  <2>2. Of(s)' = Of(s)
    BY <2>1, Effect DEF Effects, Of
  <2>3. latest'[s] = latest[s]
    <3>1. CASE Commits(w)
      BY <2>1, <3>1, CommitStep DEF Commit
    <3>2. CASE ~Commits(w)
      BY <3>2, DbStep DEF RecordLink
    <3> QED BY <3>1, <3>2
  <2>4. \A x \in Of(s) : LinkedBy(x.id)' = LinkedBy(x.id)
    BY <2>1, <2>2, LinksStep DEF Of
  <2>5. {y \in Of(s) : IsNewest(y)}' = {y \in Of(s) : IsNewest(y)}
    BY <2>2 DEF IsNewest, Of
  <2>6. \A x \in {y \in Of(s) : IsNewest(y)} : LinkedBy(x.id)' = LinkedBy(x.id)
    BY <2>4
  <2> QED BY <2>2, <2>3, <2>5, <2>6 DEF Previous
<1> QED BY <1>1, <1>2

-----------------------------------------------------------------------------
(* The latest columns are those of the newest snapshot *)

(* A writer that begins on a skill nobody visits is alone on it. *)
LEMMA AloneBegins ==
  ASSUME TypeInv, AloneInv, NEW w \in Writers, Does(w), NEW v \in Writers, NEW s \in Skills,
         <<v, s>> \in alone', <<v, s>> \notin alone
  PROVE  Alone(v, s)'
<1>0. Types /\ Job(w) /\ alone \subseteq Writers \X Skills
  BY DEF TypeInv, AloneInv
<1>1. PICK S \in SUBSET Skills :
              /\ Meet(w, S) /\ visited'[w] = S /\ pc[w] \in {"idle", "next"} /\ pc'[w] = "previous"
              /\ w \in Bulk => seen'[w] = [t \in S |-> latest[t]]
              /\ UNCHANGED <<snaps, links, latest, draft>>
  BY AloneChange
<1>2. v = w /\ s \in S /\ \A u \in Writers \ {w} : s \notin visited[u]
  BY <1>0, <1>1, Met
<1>3. draft[w] = {}
  BY <1>0, <1>1 DEF Job
<1>4. \A u \in Writers \ {w} : visited'[u] = visited[u]
  BY <1>0, OthersKeep
<1>5. seen'[w][s] = latest'[s] \/ w \notin Bulk
  BY <1>1, <1>2
<1> QED BY <1>1, <1>2, <1>3, <1>4, <1>5 DEF Alone, PrevRead, SeenRead

(* Its own steps leave it alone. *)
LEMMA AloneGoesOn ==
  ASSUME TypeInv, NEW w \in Writers, Does(w), NEW s \in Skills, Alone(w, s), <<w, s>> \in alone'
  PROVE  Alone(w, s)'
<1>0. Types /\ Job(w) /\ Ids
  BY DEF TypeInv
<1>1. \A u \in Writers \ {w} : visited'[u] = visited[u]
  BY <1>0, OthersKeep
<1>2. pc[w] \in {"previous", "indicators", "flush", "insert", "load", "commit"} /\ s \in visited[w]
  BY DEF Alone
<1>3. UNCHANGED <<snaps, links, latest>>
  <2>1. ~Commits(w)
    BY DEF Commits, CommitBulk, CommitSnapshot, Commit
  <2> QED BY <1>2, <2>1, DbStep DEF RecordLink
<1>4. Of(s)' = Of(s) /\ latest'[s] = latest[s] /\ Previous(s)' = Previous(s)
  BY <1>3, Untouched
<1>5. \A x \in draft'[w] : x.skill = s => \A y \in Of(s)' : y.id < x.id
  <2> SUFFICES ASSUME NEW x \in draft'[w], x.skill = s, NEW y \in Of(s) PROVE y.id < x.id
    BY <1>4
  <2>1. y.id < ids + 1
    BY <1>0 DEF Of, Ids, All, Types, Snapshot
  <2> QED BY <2>1, DraftStep DEF Alone
<1> USE <1>0, <1>1, <1>2, <1>4, <1>5
<1>6. CASE ReadPrevious(w)
  BY <1>6 DEF ReadPrevious, Goto, Types, Alone, PrevRead, SeenRead
<1>7. CASE \E t \in visited[w] : InsertSnapshot(w, t)
  BY <1>7 DEF InsertSnapshot, Goto, Types, Alone, PrevRead, SeenRead
<1>8. CASE Abort(w)
  BY <1>8 DEF Abort
<1>9. CASE ReadIndicators(w) \/ FlushIndicators(w)
  BY <1>9 DEF ReadIndicators, FlushIndicators, sessionVars, Goto, Types, Alone, PrevRead, SeenRead
<1>10. CASE LoadSkill(w)
  BY <1>10 DEF LoadSkill, Goto, Types, Alone, PrevRead, SeenRead
<1>11. CASE CommitBulk(w) \/ CommitSnapshot(w)
  BY <1>11 DEF CommitBulk, CommitSnapshot, Commit
<1> QED BY <1>6, <1>7, <1>8, <1>9, <1>10, <1>11 DEF Does, Either, Persist, Step, BeginBulk, BeginScan, Begin,
       SkipSkill, TakeSkill, RecordLink, EndSkill, MarkScanned

(* The invariant is inductive. *)
LEMMA AloneStep ==
  ASSUME TypeInv, AloneInv, NEW w \in Writers, Does(w)
  PROVE  AloneInv'
<1>0. Types /\ alone \subseteq Writers \X Skills
  BY DEF TypeInv, AloneInv
<1>1. alone' \subseteq Writers \X Skills
  <2>1. CASE alone' \subseteq alone
    BY <1>0, <2>1
  <2>2. ASSUME NEW S \in SUBSET Skills, Meet(w, S) PROVE alone' \subseteq Writers \X Skills
    BY <1>0, <2>2 DEF Meet
  <2> QED BY <2>1, <2>2, AloneChange
<1>2. ASSUME NEW v \in Writers \ {w}, NEW s \in Skills, <<v, s>> \in alone', <<v, s>> \in alone
      PROVE  Alone(v, s)'
  <2>1. Alone(v, s)
    BY <1>2 DEF AloneInv
  <2>2. s \notin visited[w] /\ s \in visited[v] /\ pc[v] # "links"
    BY <2>1 DEF Alone
  <2>3. s \notin visited'[w]
    <3>1. CASE visited'[w] \subseteq visited[w]
      BY <2>2, <3>1
    <3>2. ASSUME NEW S \in SUBSET Skills, Meet(w, S) PROVE s \notin S
      BY <1>0, <1>2, <2>2, <3>2, Met
    <3> QED BY <3>1, <3>2, AloneChange
  <2>4. \A u \in Writers \ {w} : visited'[u] = visited[u]
    BY <1>0, OthersKeep
  <2>5. Of(s)' = Of(s) /\ latest'[s] = latest[s] /\ Previous(s)' = Previous(s)
    BY <2>2, Untouched
  <2>6. pc'[v] = pc[v] /\ prev'[v] = prev[v] /\ seen'[v] = seen[v] /\ draft'[v] = draft[v]
    BY <1>0, OthersKeep
  <2> QED BY <2>1, <2>3, <2>4, <2>5, <2>6 DEF Alone, PrevRead, SeenRead
<1>3. ASSUME NEW v \in Writers, NEW s \in Skills, <<v, s>> \in alone' PROVE Alone(v, s)'
  <2>1. CASE <<v, s>> \notin alone
    BY <1>3, <2>1, AloneBegins
  <2>2. CASE <<v, s>> \in alone /\ v = w
    BY <1>3, <2>2, AloneGoesOn DEF AloneInv
  <2> QED BY <1>2, <1>3, <2>1, <2>2
<1> QED BY <1>1, <1>3 DEF AloneInv

(* A writer alone on a skill leaves its own snapshot as the newest, with its *)
(* columns.                                                                  *)
LEMMA AloneCommits ==
  ASSUME TypeInv, AloneInv, NEW w \in Writers, Commits(w), NEW x \in draft[w], <<w, x.skill>> \in alone
  PROVE  /\ Of(x.skill)' = Of(x.skill) \cup {x}
         /\ \A y \in Of(x.skill) : y.id < x.id
         /\ latest'[x.skill] = [id |-> x.id, severity |-> x.report.severity]
         /\ prev[w][x.skill] = Previous(x.skill)
<1> DEFINE s == x.skill
<1>0. Types /\ Job(w) /\ Commit(w) /\ pc[w] \in {"insert", "commit"} /\ (pc[w] = "insert" => w \in Bulk)
  BY CommitStep DEF TypeInv
<1>1. s \in Skills /\ x \in Snapshot
  BY <1>0 DEF Types, Snapshot
<1>2. Alone(w, s)
  BY <1>1 DEF AloneInv
<1>3. \A y \in draft[w] : y.skill = s => y = x
  BY <1>0 DEF Job
<1>4. Of(s)' = Of(s) \cup {x}
  BY <1>0, <1>3 DEF Commit, Of
<1>5. \A y \in Of(s) : y.id < x.id
  BY <1>2 DEF Alone
<1>6. prev[w][s] = Previous(s) /\ seen[w][s] = latest[s]
  BY <1>0, <1>2 DEF Alone, PrevRead, SeenRead
<1>7. (CHOOSE y \in draft[w] : y.skill = s) = x
  BY <1>3
<1>8. latest'[s] = LatestAfter(w, x)
  BY <1>0, <1>1, <1>7 DEF Commit
<1>9. LatestAfter(w, x) = [id |-> x.id, severity |-> x.report.severity]
  <2>1. Written(latest[s].id, seen[w][s].id, x.id) = x.id
    BY <1>6 DEF Written
  <2>2. Written(latest[s].severity, seen[w][s].severity, x.report.severity) = x.report.severity
    BY <1>6 DEF Written
  <2> QED BY <2>1, <2>2 DEF LatestAfter
<1> QED BY <1>4, <1>5, <1>6, <1>8, <1>9

LatestOf(s) ==
  /\ Of(s) = {} <=> latest[s] = Blank
  /\ \A x \in Of(s) : IsNewest(x) => latest[s] = [id |-> x.id, severity |-> x.report.severity]

(* Together with what is claimed it is inductive. *)
LEMMA LatestStep == TypeInv /\ AloneInv /\ LatestIsNewest /\ [Next]_vars => AloneInv' /\ LatestIsNewest'
<1> SUFFICES ASSUME TypeInv, AloneInv, LatestIsNewest, [Next]_vars PROVE AloneInv' /\ LatestIsNewest'
  OBVIOUS
<1>1. CASE UNCHANGED vars
  BY <1>1 DEF vars, dbVars, sessionVars, historyVars, AloneInv, Alone, PrevRead, SeenRead, LatestIsNewest,
       Of, Previous, IsNewest, LinkedBy
<1>2. ASSUME NEW w \in Writers, Does(w) PROVE AloneInv' /\ LatestIsNewest'
  <2>0. Types
    BY DEF TypeInv
  <2>1. ASSUME NEW s \in Skills, s \notin raced' PROVE LatestOf(s)'
    <3>1. CASE Commits(w) /\ \E x \in draft[w] : x.skill = s
      <4>1. PICK x \in draft[w] : x.skill = s
        BY <3>1
      <4>2. <<w, s>> \in alone
        BY <2>1, <3>1, CommitStep DEF Commit
      <4>3. /\ Of(s)' = Of(s) \cup {x}
            /\ \A y \in Of(s) : y.id < x.id
            /\ latest'[s] = [id |-> x.id, severity |-> x.report.severity]
        BY <3>1, <4>1, <4>2, AloneCommits
      <4>4. x.id \in Nat \ {0} /\ \A y \in Of(s) : y.id \in Nat
        BY <2>0 DEF Types, Snapshot, Of
      <4>5. latest'[s] # Blank
        BY <4>3, <4>4 DEF Blank
      <4>6. \A y \in Of(s)' : IsNewest(y)' => y = x
        BY <4>3, <4>4, <4>1 DEF IsNewest, Of
      <4> QED BY <4>3, <4>5, <4>6 DEF LatestOf
    <3>2. CASE Commits(w) /\ ~\E x \in draft[w] : x.skill = s
      <4>1. snaps' = snaps \cup draft[w] /\ latest'[s] = latest[s] /\ s \notin raced
        BY <2>1, <3>2, CommitStep DEF Commit
      <4>2. Of(s)' = Of(s)
        BY <3>2, <4>1 DEF Of
      <4>3. \A x \in Of(s) : IsNewest(x)' <=> IsNewest(x)
        BY <4>2 DEF IsNewest, Of
      <4> QED BY <4>1, <4>2, <4>3 DEF LatestOf, LatestIsNewest
    <3>3. CASE ~Commits(w)
      <4>1. UNCHANGED <<snaps, latest, raced>>
        BY <1>2, <3>3, DbStep DEF RecordLink, historyVars
      <4> QED BY <2>1, <4>1 DEF LatestOf, LatestIsNewest, IsNewest, Of
    <3> QED BY <3>1, <3>2, <3>3
  <2> QED BY <1>2, <2>1, AloneStep DEF LatestOf, LatestIsNewest
<1> QED BY <1>1, <1>2, OneWriter

(* Unless the last commit on a skill was by a writer that met another one on *)
(* it, its latest columns are those of the snapshot with the highest id,     *)
(* although the session writes only what differs from what it has read.      *)
THEOREM LatestIsOfTheNewest == Spec => []LatestIsNewest
<1>1. Init => AloneInv /\ LatestIsNewest
  BY DEF Init, AloneInv, LatestIsNewest, Of, Blank
<1> QED BY TypeInit, TypeStep, LatestStep, <1>1, PTL DEF Spec

-----------------------------------------------------------------------------
(* What is flagged as new is exact *)

(* The predecessor of a snapshot that its writer was alone to record stays   *)
(* its predecessor and has no writer any more, so that its links are what    *)
(* the writer has read.                                                      *)
ExactTo(x, y) ==
  /\ \A w \in Writers : y \notin draft[w]
  /\ \A w \in Writers : x \in draft[w] => prev[w][x.skill] = LinkedBy(y.id)
  /\ \A l \in links : l.snap = x.id => (l.new <=> l.ind \notin LinkedBy(y.id))

ExactInv ==
  /\ \A e \in exact : \E x \in snaps : x.id = e
  /\ \A x, y \in snaps : x.id \in exact /\ Predecessor(x, y) => ExactTo(x, y)
  /\ \A x \in snaps, w \in Writers : \A z \in draft[w] :
       x.id \in exact /\ z \notin snaps /\ z.skill = x.skill => x.id < z.id

(* A snapshot is exact before, or is committed by a writer alone. *)
LEMMA ExactChange ==
  ASSUME TypeInv, ExactInv, NEW w \in Writers, Does(w)
  PROVE  /\ \A e \in exact' : \E x \in snaps' : x.id = e
         /\ \A x \in snaps' : x.id \in exact' =>
              \/ x \in snaps /\ x.id \in exact
              \/ x \in draft[w] /\ x \notin snaps /\ Commits(w) /\ <<w, x.skill>> \in alone
<1>0. Types /\ Ids
  BY DEF TypeInv
<1>1. CASE Commits(w)
  <2>1. /\ snaps' = snaps \cup draft[w] /\ draft[w] \cap snaps = {}
        /\ exact' = exact \cup {x.id : x \in {y \in draft[w] : <<w, y.skill>> \in alone}}
    BY <1>1, CommitStep DEF Commit
  <2>2. \A x, y \in snaps' : x.id = y.id => x = y
    BY <1>0, <2>1 DEF Ids, All
  <2>3. \A e \in exact' : \E x \in snaps' : x.id = e
    BY <2>1 DEF ExactInv
  <2>4. ASSUME NEW x \in snaps', x.id \in exact, x \notin snaps PROVE FALSE
    <3>1. PICK z \in snaps : z.id = x.id
      BY <2>4 DEF ExactInv
    <3> QED BY <2>1, <2>2, <2>4, <3>1
  <2>5. ASSUME NEW x \in snaps', x.id \in exact', x.id \notin exact
        PROVE  x \in draft[w] /\ x \notin snaps /\ <<w, x.skill>> \in alone
    <3>1. PICK z \in draft[w] : z.id = x.id /\ <<w, z.skill>> \in alone
      BY <2>1, <2>5
    <3>2. z = x
      BY <2>1, <2>2, <3>1
    <3> QED BY <2>1, <3>1, <3>2
  <2> QED BY <1>1, <2>3, <2>4, <2>5
<1>2. CASE ~Commits(w)
  <2>1. snaps' = snaps /\ exact' = exact
    BY <1>2, DbStep DEF RecordLink, historyVars
  <2> QED BY <2>1 DEF ExactInv
<1> QED BY <1>1, <1>2

(* What is exact stays so. *)
LEMMA ExactGoesOn ==
  ASSUME TypeInv, ExactInv, NEW w \in Writers, Does(w), NEW x \in snaps, x.id \in exact,
         NEW y \in snaps', Predecessor(x, y)'
  PROVE  ExactTo(x, y)'
<1>0. Types /\ Ids /\ \A v \in Writers : Job(v)
  BY DEF TypeInv
<1>1. snaps \subseteq snaps'
  BY Effect DEF Effects
<1>2. y \in snaps
  <2>1. \A z \in draft[w] : z \notin snaps /\ z.skill = x.skill => x.id < z.id
    BY DEF ExactInv
  <2>2. y.skill = x.skill /\ y.id < x.id
    BY DEF Predecessor, Of
  <2>3. x.id \in Nat /\ y.id \in Nat
    BY <1>0, <1>1, LinksStep DEF Types, Snapshot
  <2> QED BY <2>1, <2>2, <2>3, LinksStep
<1>3. Predecessor(x, y)
  BY <1>1, <1>2 DEF Predecessor, Of
<1>4. ExactTo(x, y)
  BY <1>2, <1>3 DEF ExactInv
<1>5. x.id < ids + 1 /\ y.id < ids + 1 /\ x.id \in Nat /\ y.id \in Nat
  BY <1>0, <1>2 DEF Ids, All, Types, Snapshot
<1>6. \A v \in Writers : y \notin draft'[v] /\ (x \in draft'[v] => x \in draft[v])
  BY <1>4, <1>5, DraftStep DEF ExactTo
<1>7. LinkedBy(y.id)' = LinkedBy(y.id)
  BY <1>1, <1>2, <1>4, LinksStep DEF ExactTo
<1>8. ASSUME NEW v \in Writers, x \in draft'[v] PROVE prev'[v][x.skill] = LinkedBy(y.id)
  <2>1. x \in draft[v] /\ pc[v] = "links"
    BY <1>0, <1>6, <1>8 DEF Job
  <2>2. prev'[v] = prev[v]
    <3>1. CASE v # w
      BY <1>0, <3>1, OthersKeep
    <3>2. CASE v = w
      BY <1>0, <1>8, <2>1, <3>2 DEF Does, Either, Persist, Step, ReadPrevious, InsertSnapshot, Abort,
             BeginBulk,
       Begin, ReadIndicators, FlushIndicators, CommitBulk, BeginScan, SkipSkill, TakeSkill, LoadSkill,
       CommitSnapshot, RecordLink, EndSkill, MarkScanned, CloseSession, sessionVars, Types
    <3> QED BY <3>1, <3>2
  <2> QED BY <1>4, <2>1, <2>2 DEF ExactTo
<1>9. ASSUME NEW l \in links', l.snap = x.id PROVE l.new <=> l.ind \notin LinkedBy(y.id)
  <2>1. CASE l \in links
    BY <1>4, <1>9, <2>1 DEF ExactTo
  <2>2. CASE l \notin links
    <3>1. PICK z \in draft[w] : \E i \in z.report.found : l = LinkOf(w, z, i) /\ l.snap = z.id /\ l.ind = i
      BY <2>2, NewLinks
    <3>2. PICK i \in z.report.found : l = LinkOf(w, z, i) /\ l.ind = i
      BY <3>1
    <3>3. z = x
      BY <1>0, <1>9, <3>1 DEF Ids, All
    <3>4. LinkOf(w, z, i).new = (i \notin prev[w][z.skill])
      BY Zenon DEF LinkOf
    <3>5. prev[w][x.skill] = LinkedBy(y.id)
      BY <1>4, <3>3 DEF ExactTo
    <3> QED BY <3>2, <3>3, <3>4, <3>5
  <2> QED BY <2>1, <2>2
<1> QED BY <1>6, <1>7, <1>8, <1>9 DEF ExactTo

(* What a writer alone commits is exact. *)
LEMMA ExactBegins ==
  ASSUME TypeInv, AloneInv, NEW w \in Writers, Does(w), Commits(w), NEW x \in draft[w], x \notin snaps,
         <<w, x.skill>> \in alone, NEW y \in snaps', Predecessor(x, y)'
  PROVE  ExactTo(x, y)'
<1>0. Types /\ Ids /\ (\A v \in Writers : Job(v)) /\ Ids' /\ Types'
  BY IdsStep, TypesStep DEF TypeInv
<1>1. /\ Of(x.skill)' = Of(x.skill) \cup {x}
      /\ \A z \in Of(x.skill) : z.id < x.id
      /\ prev[w][x.skill] = Previous(x.skill)
  BY AloneCommits
<1>2. x \in Snapshot /\ x.skill \in Skills
  BY <1>0 DEF Types, Snapshot
<1>3. Alone(w, x.skill)
  BY <1>2 DEF AloneInv
<1>4. /\ y \in Of(x.skill)' /\ y.id < x.id
      /\ \A z \in Of(x.skill)' : z.id < x.id => z.id <= y.id
  BY DEF Predecessor
<1>5. y \in Of(x.skill) /\ \A z \in Of(x.skill) : z.id <= y.id
  <2>1. x.id \in Nat
    BY <1>2 DEF Snapshot
  <2> QED BY <1>1, <1>4, <2>1
<1>6. y \in snaps /\ y.skill = x.skill /\ y # x
  BY <1>5 DEF Of
<1>7. Previous(x.skill) = LinkedBy(y.id)
  <2>1. \A z \in Of(x.skill) : IsNewest(z) <=> z = y
    <3>1. \A z \in Of(x.skill) : z.skill = x.skill /\ z.id \in Nat /\ (z.id = y.id => z = y)
      BY <1>0, <1>6 DEF Of, Types, Snapshot, Ids, All
    <3> QED BY <1>5, <1>6, <3>1 DEF IsNewest
  <2>2. {z \in Of(x.skill) : IsNewest(z)} = {y}
    BY <1>5, <2>1
  <2> QED BY <2>2 DEF Previous
<1>8. \A v \in Writers : x \in draft[v] \/ y \in draft[v] => v = w
  BY <1>0, <1>3, <1>6 DEF Alone, Job
<1>9. y \notin draft[w]
  BY <1>0, <1>6 DEF Job
<1>10. LinkedBy(y.id)' = LinkedBy(y.id)
  BY <1>9, LinksStep
<1>11. ids + 1 # x.id /\ ids + 1 # y.id
  BY <1>0, <1>6 DEF Ids, All, Types, Snapshot
<1>12. \A v \in Writers : y \notin draft'[v] /\ (x \in draft'[v] => v = w)
  BY <1>8, <1>9, <1>11, DraftStep
<1>13. draft'[w] # {} => prev' = prev
  BY <1>0 DEF Commits, CommitBulk, CommitSnapshot, CloseSession, sessionVars, Types
<1>14. ASSUME NEW l \in links', l.snap = x.id PROVE l.new <=> l.ind \notin LinkedBy(y.id)
  <2>1. l \notin links
    BY <1>0, <1>14 DEF Ids, All
  <2>2. PICK z \in draft[w] : \E i \in z.report.found : l = LinkOf(w, z, i) /\ l.snap = z.id /\ l.ind = i
    BY <2>1, NewLinks
  <2>3. PICK i \in z.report.found : l = LinkOf(w, z, i) /\ l.ind = i
    BY <2>2
  <2>4. z = x
    BY <1>0, <1>14, <2>2 DEF Ids, All
  <2>5. LinkOf(w, z, i).new = (i \notin prev[w][z.skill])
    BY Zenon DEF LinkOf
  <2> QED BY <1>1, <1>7, <2>3, <2>4, <2>5
<1> QED BY <1>1, <1>7, <1>10, <1>12, <1>13, <1>14 DEF ExactTo

(* The invariant is inductive. *)
LEMMA ExactStep == TypeInv /\ AloneInv /\ ExactInv /\ [Next]_vars => ExactInv'
<1> SUFFICES ASSUME TypeInv, AloneInv, ExactInv, [Next]_vars PROVE ExactInv'
  OBVIOUS
<1>1. CASE UNCHANGED vars
  <2>1. \A x, y : ExactTo(x, y)' = ExactTo(x, y) /\ Predecessor(x, y)' = Predecessor(x, y)
    BY <1>1 DEF vars, dbVars, sessionVars, ExactTo, Predecessor, Of, LinkedBy
  <2> QED BY <1>1, <2>1 DEF vars, dbVars, sessionVars, historyVars, ExactInv
<1>2. ASSUME NEW w \in Writers, Does(w) PROVE ExactInv'
  <2>0. Types /\ Ids /\ \A v \in Writers : Job(v)
    BY DEF TypeInv
  <2>1. ASSUME NEW x \in snaps', NEW y \in snaps', x.id \in exact', Predecessor(x, y)'
        PROVE  ExactTo(x, y)'
    BY <1>2, <2>1, ExactChange, ExactGoesOn, ExactBegins
  <2>2. ASSUME NEW x \in snaps', NEW v \in Writers, NEW z \in draft'[v],
               x.id \in exact', z \notin snaps', z.skill = x.skill
        PROVE  x.id < z.id
    <3>1. snaps \subseteq snaps'
      BY <1>2, Effect DEF Effects
    <3>2. x \in All /\ x.id <= ids /\ x.id \in Nat /\ ids \in Nat
      BY <1>2, <2>0, LinksStep DEF Ids, All, Types, Snapshot
    <3>3. CASE z \notin draft[v]
      BY <1>2, <3>2, <3>3, DraftStep
    <3>4. CASE z \in draft[v] /\ x \in snaps /\ x.id \in exact
      BY <2>2, <3>1, <3>4 DEF ExactInv
    <3>5. CASE z \in draft[v] /\ x \in draft[w] /\ Commits(w) /\ <<w, x.skill>> \in alone
      <4>1. x.skill \in Skills
        BY <2>0, <3>5 DEF Types, Snapshot
      <4>2. Alone(w, x.skill) /\ z.skill \in visited[v]
        BY <2>0, <3>5, <4>1 DEF AloneInv, Job
      <4>3. v = w
        BY <2>2, <4>2 DEF Alone
      <4>4. z \in snaps'
        BY <3>5, <4>3, CommitStep DEF Commit
      <4> QED BY <2>2, <4>4
    <3> QED BY <1>2, <2>2, <3>3, <3>4, <3>5, ExactChange
  <2> QED BY <1>2, <2>1, <2>2, ExactChange DEF ExactInv
<1> QED BY <1>1, <1>2, OneWriter

(* A snapshot that its writer was alone to record flags as new what its      *)
(* report has and the report before has not, if that one was not cut short.  *)
THEOREM FlagsAreExact == Spec => []NewIsExact
<1>1. Init => AloneInv /\ LatestIsNewest /\ ExactInv /\ WholeInv
  BY DEF Init, AloneInv, LatestIsNewest, Of, Blank, ExactInv, WholeInv, MarkedIsWhole
<1>2. ExactInv /\ WholeInv => NewIsExact
  BY DEF ExactInv, ExactTo, WholeInv, MarkedIsWhole, NewIsExact
<1> QED BY TypeInit, TypeStep, LatestStep, ExactStep, WholeStep, <1>1, <1>2, PTL DEF Spec
=============================================================================
