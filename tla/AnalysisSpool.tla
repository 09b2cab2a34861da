--------------------------- MODULE AnalysisSpool ---------------------------
(***************************************************************************)
(* The file-backed spool between the analysis producers and the ingesters  *)
(* (services/analysis_spool.py).  A producer claims a due repository with  *)
(* claims/<repo>.json, analyses its mirror and writes the result to        *)
(* pending/<repo>-<token>.json.  An ingester renames pending files to      *)
(* ingesting/, persists each in one database transaction, unlinks it and   *)
(* releases the claim.  Every producer and every ingester is a process of  *)
(* its own; they share only the directories and the database.              *)
(*                                                                         *)
(* One step of the model is one file-system call, one transaction, or the  *)
(* code between two of them.                                               *)
(***************************************************************************)
EXTENDS Naturals, FiniteSets

CONSTANTS
  Repos,          \* repository ids
  Tokens,         \* what uuid4 may return while a name is in use
  Producers,      \* produce-analysis-spool processes
  Ingesters,      \* ingest-analysis-spool processes
  LimitRepos,     \* --limit-repos
  LimitArtifacts, \* --limit-artifacts
  Slow,           \* repositories whose artifacts may be handled after stale_after_seconds
  MayCrash,       \* the processes that may die between two steps
  MaxCrashes,     \* bound on the number of deaths
  NoName          \* no claim in hand

(* A claim, and the artifact written under it: <repo_id>-<claim_token>. *)
Names == [repo : Repos, token : Tokens]

ASSUME ReposAssumption == Repos \subseteq Nat
ASSUME SlowAssumption == Slow \subseteq Repos
ASSUME LimitAssumption == LimitRepos \in Nat \ {0} /\ LimitArtifacts \in Nat \ {0}
ASSUME CrashAssumption == MayCrash \subseteq Producers \cup Ingesters /\ MaxCrashes \in Nat
ASSUME NoNameAssumption == NoName \notin Names

VARIABLES
  due,        \* repositories whose next_scan_at is null or past
  mirror,     \* repositories with a .git directory under mirror_root
  claims,     \* the claim files
  pending,    \* artifacts in pending/
  ingesting,  \* artifacts in ingesting/
  partial,    \* artifacts whose write_text has not finished
  old,        \* artifacts with an mtime at least stale_after_seconds ago
  ppc,        \* where each producer is
  rows,       \* due rows a producer has listed and not yet considered
  missing,    \* rows without a mirror, to be deferred
  batch,      \* claims whose analysis is running
  pcur,       \* the claim whose result a producer is handling
  ipc,        \* where each ingester is
  todo,       \* directory listing an ingester is walking
  taken,      \* artifacts an ingester renamed and has not handled
  icur,       \* the artifact an ingester is handling
  ingested,   \* history: artifacts whose transaction committed
  crashes     \* number of deaths so far

dbVars    == <<due, mirror>>
fileVars  == <<pending, ingesting, partial, old>>
prodVars  == <<ppc, rows, missing, batch, pcur>>
ingVars   == <<ipc, todo, taken, icur>>
vars == <<dbVars, claims, fileVars, prodVars, ingVars, ingested, crashes>>

Spooled == pending \cup ingesting

ProducerPC == {"idle", "select", "run", "defer", "write"}
IngesterPC == {"idle", "requeue", "take", "ingest", "putback", "persist", "unlink",
               "release", "unlinkFailed", "releaseFailed", "deferFailed"}

(* A loaded artifact is in hand from load_artifact to release_claim. *)
InHand == {"persist", "unlink", "release", "unlinkFailed", "releaseFailed"}

-----------------------------------------------------------------------------
(* Claim files and names *)

Claimable_NotExclusive(r) == TRUE

(* os.open with O_CREAT | O_EXCL succeeds: claims/<repo>.json is not there. *)
Claimable(r) == \A c \in claims : c.repo # r

ClaimsWithout_Kept(r) == claims

(* release_claim unlinks claims/<repo>.json, whatever token is inside. *)
ClaimsWithout(r) == {c \in claims : c.repo # r}

(* uuid4 never returns a token that some file or process still names. *)
Unused(c) ==
  /\ c \notin claims \cup Spooled
  /\ \A p \in Producers : c \notin batch[p] /\ c # pcur[p]
  /\ \A i \in Ingesters : c \notin todo[i] \cup taken[i] /\ c # icur[i]

(* sorted(glob("*.json")): names sort by the repository id they start with. *)
FirstOf(S) == {c \in S : \A d \in S : c.repo <= d.repo}

-----------------------------------------------------------------------------
(* Producer *)

(* list_due_repos: one query; its rows are used until the batch is chosen. *)
ListDue(p) ==
  /\ ppc[p] = "idle"
  /\ rows' = [rows EXCEPT ![p] = due]
  /\ ppc' = [ppc EXCEPT ![p] = "select"]
  /\ UNCHANGED <<dbVars, claims, fileVars, missing, batch, pcur, ingVars, ingested, crashes>>

(* The loop of _candidate_repos goes on until limit_repos are chosen. *)
Considers(p, r) ==
  /\ ppc[p] = "select"
  /\ r \in rows[p]
  /\ Cardinality(batch[p]) < LimitRepos
  /\ rows' = [rows EXCEPT ![p] = @ \ {r}]

NoteMissing(p, r) ==
  /\ Considers(p, r)
  /\ r \notin mirror
  /\ missing' = [missing EXCEPT ![p] = @ \cup {r}]
  /\ UNCHANGED <<dbVars, claims, fileVars, ppc, batch, pcur, ingVars, ingested, crashes>>

SkipClaimed(p, r) ==
  /\ Considers(p, r)
  /\ r \in mirror
  /\ ~Claimable(r)
  /\ UNCHANGED <<dbVars, claims, fileVars, ppc, missing, batch, pcur, ingVars, ingested, crashes>>

ClaimRepo(p, c) ==
  /\ Considers(p, c.repo)
  /\ c.repo \in mirror
  /\ Claimable(c.repo)
  /\ Unused(c)
  /\ claims' = claims \cup {c}
  /\ batch' = [batch EXCEPT ![p] = @ \cup {c}]
  /\ ingested' = ingested \ {c}
  /\ UNCHANGED <<dbVars, fileVars, ppc, missing, pcur, ingVars, crashes>>

StartBatch(p) ==
  /\ ppc[p] = "select"
  /\ rows[p] = {} \/ Cardinality(batch[p]) >= LimitRepos
  /\ rows' = [rows EXCEPT ![p] = {}]
  /\ ppc' = [ppc EXCEPT ![p] = "run"]
  /\ UNCHANGED <<dbVars, claims, fileVars, missing, batch, pcur, ingVars, ingested, crashes>>

(* _defer_repos: one transaction per missing row, before any result is awaited. *)
DeferMissing(p, r) ==
  /\ ppc[p] = "run"
  /\ r \in missing[p]
  /\ missing' = [missing EXCEPT ![p] = @ \ {r}]
  /\ due' = due \ {r}
  /\ UNCHANGED <<mirror, claims, fileVars, ppc, rows, batch, pcur, ingVars, ingested, crashes>>

(* The next of asyncio.as_completed(tasks). *)
Completes(p, c) ==
  /\ ppc[p] = "run"
  /\ missing[p] = {}
  /\ c \in batch[p]
  /\ batch' = [batch EXCEPT ![p] = @ \ {c}]
  /\ pcur' = [pcur EXCEPT ![p] = c]

(* An exception or a timeout: the claim is released first ... *)
AnalysisFails(p, c) ==
  /\ Completes(p, c)
  /\ claims' = ClaimsWithout(c.repo)
  /\ ppc' = [ppc EXCEPT ![p] = "defer"]
  /\ UNCHANGED <<dbVars, fileVars, rows, missing, ingVars, ingested, crashes>>

(* ... and the repository is deferred in the transaction after it. *)
DeferFailedAnalysis(p) ==
  /\ ppc[p] = "defer"
  /\ due' = due \ {pcur[p].repo}
  /\ pcur' = [pcur EXCEPT ![p] = NoName]
  /\ ppc' = [ppc EXCEPT ![p] = "run"]
  /\ UNCHANGED <<mirror, claims, fileVars, rows, missing, batch, ingVars, ingested, crashes>>

(* write_text opens the artifact under its final name in pending/ ... *)
BeginWrite(p, c) ==
  /\ Completes(p, c)
  /\ pending' = pending \cup {c}
  /\ partial' = partial \cup {c}
  /\ ppc' = [ppc EXCEPT ![p] = "write"]
  /\ UNCHANGED <<dbVars, claims, ingesting, old, rows, missing, ingVars, ingested, crashes>>

(* ... and finishes it through the open file, wherever it was renamed to. *)
FinishWrite(p) ==
  /\ ppc[p] = "write"
  /\ partial' = partial \ {pcur[p]}
  /\ old' = old \ {pcur[p]}
  /\ pcur' = [pcur EXCEPT ![p] = NoName]
  /\ ppc' = [ppc EXCEPT ![p] = "run"]
  /\ UNCHANGED <<dbVars, claims, pending, ingesting, rows, missing, batch, ingVars, ingested, crashes>>

(* The batch is over: the next iteration, or the next run of the command. *)
EndProducerBatch(p) ==
  /\ ppc[p] = "run"
  /\ missing[p] = {}
  /\ batch[p] = {}
  /\ ppc' = [ppc EXCEPT ![p] = "idle"]
  /\ UNCHANGED <<dbVars, claims, fileVars, rows, missing, batch, pcur, ingVars, ingested, crashes>>

Produce(p) ==
  \/ ListDue(p)
  \/ \E r \in Repos : NoteMissing(p, r) \/ SkipClaimed(p, r) \/ DeferMissing(p, r)
  \/ \E c \in Names : ClaimRepo(p, c) \/ AnalysisFails(p, c) \/ BeginWrite(p, c)
  \/ StartBatch(p)
  \/ DeferFailedAnalysis(p)
  \/ FinishWrite(p)
  \/ EndProducerBatch(p)

-----------------------------------------------------------------------------
(* Ingester *)

Goto(i, pc) == ipc' = [ipc EXCEPT ![i] = pc]

(* requeue_stale_ingesting lists ingesting/ ... *)
ListIngesting(i) ==
  /\ ipc[i] = "idle"
  /\ todo' = [todo EXCEPT ![i] = ingesting]
  /\ Goto(i, "requeue")
  /\ UNCHANGED <<dbVars, claims, fileVars, prodVars, taken, icur, ingested, crashes>>

LooksStale_AnyAge(c) == c \in ingesting

LooksStale_Never(c) == FALSE

(* Whether a listed file's mtime is past the cutoff.  rename keeps the     *)
(* mtime, so it is the age of the write and not of the rename.             *)
LooksStale(c) == c \in ingesting /\ c \in old

RequeueArtifact_Copies(c) ==
  IF c \in ingesting
    THEN pending' = pending \cup {c} /\ UNCHANGED ingesting
    ELSE UNCHANGED <<ingesting, pending>>

RequeueArtifact_Stays(c) == UNCHANGED <<ingesting, pending>>

(* requeue_artifact renames back to pending/ and ignores a missing file. *)
RequeueArtifact(c) ==
  IF c \in ingesting
    THEN ingesting' = ingesting \ {c} /\ pending' = pending \cup {c}
    ELSE UNCHANGED <<ingesting, pending>>

(* ... and moves the stale ones back, one stat and one rename at a time. *)
RequeueStale(i, c) ==
  /\ ipc[i] = "requeue"
  /\ c \in todo[i]
  /\ todo' = [todo EXCEPT ![i] = @ \ {c}]
  /\ IF LooksStale(c) THEN RequeueArtifact(c) ELSE UNCHANGED <<ingesting, pending>>
  /\ UNCHANGED <<dbVars, claims, partial, old, prodVars, ipc, taken, icur, ingested, crashes>>

ListPending(i) ==
  /\ ipc[i] = "requeue"
  /\ todo[i] = {}
  /\ todo' = [todo EXCEPT ![i] = pending]
  /\ Goto(i, "take")
  /\ UNCHANGED <<dbVars, claims, fileVars, prodVars, taken, icur, ingested, crashes>>

(* artifact_path.replace(ingesting_path), unless another ingester was first. *)
TakePending(i, c) ==
  /\ ipc[i] = "take"
  /\ Cardinality(taken[i]) < LimitArtifacts
  /\ c \in FirstOf(todo[i])
  /\ todo' = [todo EXCEPT ![i] = @ \ {c}]
  /\ IF c \in pending
       THEN /\ pending' = pending \ {c}
            /\ ingesting' = ingesting \cup {c}
            /\ taken' = [taken EXCEPT ![i] = @ \cup {c}]
       ELSE UNCHANGED <<pending, ingesting, taken>>
  /\ UNCHANGED <<dbVars, claims, partial, old, prodVars, ipc, icur, ingested, crashes>>

EndTaking(i) ==
  /\ ipc[i] = "take"
  /\ todo[i] = {} \/ Cardinality(taken[i]) >= LimitArtifacts
  /\ todo' = [todo EXCEPT ![i] = {}]
  /\ Goto(i, IF taken[i] = {} THEN "idle" ELSE "ingest")
  /\ UNCHANGED <<dbVars, claims, fileVars, prodVars, taken, icur, ingested, crashes>>

(* load_artifact parses the file only if it is there and complete. *)
Loads(c) == c \in ingesting /\ c \notin partial

LoadArtifact(i, c) ==
  /\ ipc[i] = "ingest"
  /\ c \in FirstOf(taken[i])
  /\ taken' = [taken EXCEPT ![i] = @ \ {c}]
  /\ icur' = [icur EXCEPT ![i] = c]
  /\ Goto(i, IF Loads(c) THEN "persist" ELSE "putback")
  /\ UNCHANGED <<dbVars, claims, fileVars, prodVars, todo, ingested, crashes>>

(* The handler of a load that raised. *)
PutBack(i) ==
  /\ ipc[i] = "putback"
  /\ RequeueArtifact(icur[i])
  /\ icur' = [icur EXCEPT ![i] = NoName]
  /\ Goto(i, "ingest")
  /\ UNCHANGED <<dbVars, claims, partial, old, prodVars, todo, taken, ingested, crashes>>

(* persist_repo_analysis commits: the next scan is 72 hours away. *)
Persist(i) ==
  /\ ipc[i] = "persist"
  /\ due' = due \ {icur[i].repo}
  /\ ingested' = ingested \cup {icur[i]}
  /\ Goto(i, "unlink")
  /\ UNCHANGED <<mirror, claims, fileVars, prodVars, todo, taken, icur, crashes>>

(* It raises and rolls back: the artifact is given up all the same. *)
PersistFails(i) ==
  /\ ipc[i] = "persist"
  /\ Goto(i, "unlinkFailed")
  /\ UNCHANGED <<dbVars, claims, fileVars, prodVars, todo, taken, icur, ingested, crashes>>

Unlink_Kept(c) == UNCHANGED <<ingesting, partial, old>>

(* unlink(missing_ok=True) of the path in ingesting/. *)
Unlink(c) ==
  IF c \in ingesting
    THEN ingesting' = ingesting \ {c} /\ partial' = partial \ {c} /\ old' = old \ {c}
    ELSE UNCHANGED <<ingesting, partial, old>>

(* complete_artifact unlinks first ... *)
UnlinkArtifact(i) ==
  /\ ipc[i] \in {"unlink", "unlinkFailed"}
  /\ Unlink(icur[i])
  /\ Goto(i, IF ipc[i] = "unlink" THEN "release" ELSE "releaseFailed")
  /\ UNCHANGED <<dbVars, claims, pending, prodVars, todo, taken, icur, ingested, crashes>>

(* ... then calls release_claim. *)
ReleaseClaim(i) ==
  /\ ipc[i] = "release"
  /\ claims' = ClaimsWithout(icur[i].repo)
  /\ icur' = [icur EXCEPT ![i] = NoName]
  /\ Goto(i, "ingest")
  /\ UNCHANGED <<dbVars, fileVars, prodVars, todo, taken, ingested, crashes>>

ReleaseFailedClaim(i) ==
  /\ ipc[i] = "releaseFailed"
  /\ claims' = ClaimsWithout(icur[i].repo)
  /\ Goto(i, "deferFailed")
  /\ UNCHANGED <<dbVars, fileVars, prodVars, todo, taken, icur, ingested, crashes>>

DeferFailedIngest(i) ==
  /\ ipc[i] = "deferFailed"
  /\ due' = due \ {icur[i].repo}
  /\ icur' = [icur EXCEPT ![i] = NoName]
  /\ Goto(i, "ingest")
  /\ UNCHANGED <<mirror, claims, fileVars, prodVars, todo, taken, ingested, crashes>>

EndIngesterBatch(i) ==
  /\ ipc[i] = "ingest"
  /\ taken[i] = {}
  /\ Goto(i, "idle")
  /\ UNCHANGED <<dbVars, claims, fileVars, prodVars, todo, taken, icur, ingested, crashes>>

Ingest(i) ==
  \/ ListIngesting(i)
  \/ \E c \in Names : RequeueStale(i, c) \/ TakePending(i, c) \/ LoadArtifact(i, c)
  \/ ListPending(i)
  \/ EndTaking(i)
  \/ PutBack(i)
  \/ Persist(i)
  \/ PersistFails(i)
  \/ UnlinkArtifact(i)
  \/ ReleaseClaim(i)
  \/ ReleaseFailedClaim(i)
  \/ DeferFailedIngest(i)
  \/ EndIngesterBatch(i)

-----------------------------------------------------------------------------
(* Time, the other commands, and deaths *)

(* next_scan_at passes. *)
BecomeDue(r) ==
  /\ r \notin due
  /\ due' = due \cup {r}
  /\ UNCHANGED <<mirror, claims, fileVars, prodVars, ingVars, ingested, crashes>>

(* analyze-mirrors or scan-due marks the repository scanned: they take no claim. *)
ScannedElsewhere(r) ==
  /\ r \in due
  /\ due' = due \ {r}
  /\ UNCHANGED <<mirror, claims, fileVars, prodVars, ingVars, ingested, crashes>>

(* scan-due clones a repository that had no mirror. *)
MirrorAppears(r) ==
  /\ r \notin mirror
  /\ mirror' = mirror \cup {r}
  /\ UNCHANGED <<due, claims, fileVars, prodVars, ingVars, ingested, crashes>>

(* stale_after_seconds (900) pass since the artifact was last written. *)
Age(c) ==
  /\ c \in Spooled \ old
  /\ c.repo \in Slow
  /\ old' = old \cup {c}
  /\ UNCHANGED <<dbVars, claims, pending, ingesting, partial, prodVars, ingVars, ingested, crashes>>

(* The process dies: its memory goes, the files stay as they are. *)
Dies(x) == x \in MayCrash /\ crashes < MaxCrashes /\ crashes' = crashes + 1

CrashProducer(p) ==
  /\ Dies(p)
  /\ ppc[p] # "idle"
  /\ ppc' = [ppc EXCEPT ![p] = "idle"]
  /\ rows' = [rows EXCEPT ![p] = {}]
  /\ missing' = [missing EXCEPT ![p] = {}]
  /\ batch' = [batch EXCEPT ![p] = {}]
  /\ pcur' = [pcur EXCEPT ![p] = NoName]
  /\ UNCHANGED <<dbVars, claims, fileVars, ingVars, ingested>>

CrashIngester(i) ==
  /\ Dies(i)
  /\ ipc[i] # "idle"
  /\ Goto(i, "idle")
  /\ todo' = [todo EXCEPT ![i] = {}]
  /\ taken' = [taken EXCEPT ![i] = {}]
  /\ icur' = [icur EXCEPT ![i] = NoName]
  /\ UNCHANGED <<dbVars, claims, fileVars, prodVars, ingested>>

-----------------------------------------------------------------------------

Init ==
  /\ due \in SUBSET Repos
  /\ mirror \in SUBSET Repos
  /\ claims = {}
  /\ pending = {}
  /\ ingesting = {}
  /\ partial = {}
  /\ old = {}
  /\ ppc = [p \in Producers |-> "idle"]
  /\ rows = [p \in Producers |-> {}]
  /\ missing = [p \in Producers |-> {}]
  /\ batch = [p \in Producers |-> {}]
  /\ pcur = [p \in Producers |-> NoName]
  /\ ipc = [i \in Ingesters |-> "idle"]
  /\ todo = [i \in Ingesters |-> {}]
  /\ taken = [i \in Ingesters |-> {}]
  /\ icur = [i \in Ingesters |-> NoName]
  /\ ingested = {}
  /\ crashes = 0

Next ==
  \/ \E p \in Producers : Produce(p) \/ CrashProducer(p)
  \/ \E i \in Ingesters : Ingest(i) \/ CrashIngester(i)
  \/ \E r \in Repos : BecomeDue(r) \/ ScannedElsewhere(r) \/ MirrorAppears(r)
  \/ \E c \in Names : Age(c)

Spec == Init /\ [][Next]_vars

(***************************************************************************)
(* Fairness: a process that runs keeps running.  Both commands have a      *)
(* --continuous mode and are otherwise started again by the operator, so   *)
(* every process that can take a step takes one in the end; files grow old *)
(* because time passes.  Nothing is assumed of next_scan_at, of the other  *)
(* commands, of analyses or transactions succeeding, or of deaths.         *)
(***************************************************************************)
Fairness ==
  /\ \A p \in Producers : WF_vars(Produce(p))
  /\ \A i \in Ingesters : WF_vars(Ingest(i))
  /\ \A c \in Names : WF_vars(Age(c))

FairSpec == Spec /\ Fairness

-----------------------------------------------------------------------------
(* Who still works under a claim *)

ProducerHolds(p, c) == c \in batch[p] \/ (ppc[p] = "write" /\ pcur[p] = c)

IngesterHolds(i, c) == ipc[i] \in InHand /\ icur[i] = c

Live(c) ==
  \/ c \in Spooled
  \/ \E p \in Producers : ProducerHolds(p, c)
  \/ \E i \in Ingesters : IngesterHolds(i, c)

(* Every variable keeps its type; an artifact is in one directory only.    *)
TypeOK ==
  /\ due \subseteq Repos
  /\ mirror \subseteq Repos
  /\ claims \subseteq Names
  /\ pending \subseteq Names
  /\ ingesting \subseteq Names
  /\ pending \cap ingesting = {}
  /\ partial \subseteq Spooled
  /\ old \subseteq Spooled
  /\ ppc \in [Producers -> ProducerPC]
  /\ rows \in [Producers -> SUBSET Repos]
  /\ missing \in [Producers -> SUBSET Repos]
  /\ batch \in [Producers -> SUBSET Names]
  /\ pcur \in [Producers -> Names \cup {NoName}]
  /\ ipc \in [Ingesters -> IngesterPC]
  /\ todo \in [Ingesters -> SUBSET Names]
  /\ taken \in [Ingesters -> SUBSET Names]
  /\ icur \in [Ingesters -> Names \cup {NoName}]
  /\ ingested \subseteq Names
  /\ crashes \in Nat

(* The claim file of a repository covers all the work done under it, from  *)
(* the analysis (claim_repo) to release_claim: whoever works under a token *)
(* finds that very token in claims/<repo>.json.  release_claim goes by     *)
(* repository id, so one release too many takes another worker's claim.    *)
ClaimCoversWork == \A c \in Names : Live(c) => c \in claims

(* Two results of one repository are never under way together: nothing an  *)
(* ingester persists can be overtaken by an older analysis.                *)
ExclusiveWork ==
  \A c, d \in Names : Live(c) /\ Live(d) /\ c.repo = d.repo => c = d

(* Two ingesters never work on one artifact: the rename to ingesting/ in   *)
(* claim_pending_artifacts gives it to the ingester that made it.          *)
ExclusiveIngest ==
  \A i, j \in Ingesters : \A c \in Names :
    (c \in taken[i] \/ IngesterHolds(i, c)) /\ (c \in taken[j] \/ IngesterHolds(j, c)) => i = j

(* No claim file outlives its work: without deaths, each names a token     *)
(* somebody still works under, so no repository is locked out for good.    *)
NoOrphanClaim == \A c \in claims : Live(c)

(* An artifact is never recorded twice: the second persist_repo_analysis   *)
(* would write a second set of snapshots and reset the new-indicator flags.*)
RecordedOnce ==
  [][\A i \in Ingesters : Persist(i) => icur[i] \notin ingested]_vars

Lease == INSTANCE RepoLease WITH leases <- claims, recorded <- ingested

(* The spool implements the lease: claims are exclusive, and a result is   *)
(* persisted only under its own claim.                                     *)
ImplementsLease == Lease!Spec

(* A due repository does not stay due: it is scanned, or deferred.         *)
DueIsHandled == \A r \in Repos : (r \in due) ~> (r \notin due)

NobodyDies == [](crashes = 0)

(* The same, when no process dies between claim_repo and release_claim.    *)
DueIsHandledUnlessDeath == NobodyDies => DueIsHandled

(* A claim is given back, unless its holder died.                          *)
ClaimIsReleased ==
  NobodyDies => \A r \in Repos : (~Claimable(r)) ~> Claimable(r)

(* An artifact that was completely written is taken out of the spool, also *)
(* when a torn one, left by a producer that died, sits in pending/ before it. *)
WholeArtifactsDrain ==
  \A c \in Names : (c \in Spooled \ partial) ~> (c \notin Spooled)

=============================================================================
