------------------------ MODULE AnalysisSpoolProofs ------------------------
(***************************************************************************)
(* Theorems about AnalysisSpool for every number of repositories, tokens,  *)
(* producers, ingesters and deaths.                                        *)
(*                                                                         *)
(* BaseInv holds of every run.  From it follow type correctness and, when  *)
(* nothing dies, NoOrphanClaim.  CoverInv strengthens it to the agreement  *)
(* of claims and work; it needs the assumption that no artifact is taken   *)
(* from an ingester that still works on it (NoSteal).                      *)
(***************************************************************************)
EXTENDS AnalysisSpool, TLAPS

(* An ingester has an artifact from its rename until it lets go of it. *)
Has(i, c) == c \in taken[i] \/ (ipc[i] \in InHand \cup {"putback"} /\ icur[i] = c)

(* What producers have in hand.  A claim whose analysis runs has no file   *)
(* yet, one being written has a torn one, and no two producers share one.  *)
ProducerInv ==
  /\ \A p \in Producers : ppc[p] \in {"write", "defer"} => pcur[p] \in Names
  /\ \A p \in Producers : ppc[p] = "write" => pcur[p] \in partial
  /\ \A p \in Producers : \A c \in batch[p] : c \notin Spooled
  /\ \A p, q \in Producers : \A c \in Names :
       ProducerHolds(p, c) /\ ProducerHolds(q, c) => p = q

(* What ingesters have in hand is not under analysis, and was complete     *)
(* when it was loaded.                                                     *)
IngesterInv ==
  /\ \A i \in Ingesters : ipc[i] \in InHand \cup {"putback"} => icur[i] \in Names
  /\ \A i \in Ingesters : ipc[i] \in InHand => icur[i] \notin partial
  /\ \A p \in Producers : \A i \in Ingesters : \A c \in batch[p] : ~Has(i, c)

BaseInv == TypeOK /\ ProducerInv /\ IngesterInv

-----------------------------------------------------------------------------
(* BaseInv is inductive *)

LEMMA BaseInit == Init => BaseInv
  BY NoNameAssumption
  DEF Init, BaseInv, TypeOK, ProducerInv, IngesterInv, ProducerHolds, Has, Spooled,
      ProducerPC, IngesterPC, InHand

LEMMA BaseProduce ==
  ASSUME NEW p \in Producers, BaseInv, Produce(p)
  PROVE  BaseInv'
<1> USE DEF BaseInv, TypeOK, ProducerInv, IngesterInv, ProducerHolds, Has, Spooled,
            ProducerPC, InHand, dbVars, fileVars, ingVars
<1>1. CASE ListDue(p)
  BY <1>1 DEF ListDue
<1>2. ASSUME NEW r \in Repos, NoteMissing(p, r) PROVE BaseInv'
  BY <1>2 DEF NoteMissing, Considers
<1>3. ASSUME NEW r \in Repos, SkipClaimed(p, r) PROVE BaseInv'
  BY <1>3 DEF SkipClaimed, Considers
<1>4. ASSUME NEW r \in Repos, DeferMissing(p, r) PROVE BaseInv'
  BY <1>4 DEF DeferMissing
<1>5. ASSUME NEW c \in Names, ClaimRepo(p, c) PROVE BaseInv'
  BY <1>5 DEF ClaimRepo, Considers, Unused
<1>6. ASSUME NEW c \in Names, AnalysisFails(p, c) PROVE BaseInv'
  BY <1>6 DEF AnalysisFails, Completes, ClaimsWithout
<1>7. ASSUME NEW c \in Names, BeginWrite(p, c) PROVE BaseInv'
  BY <1>7 DEF BeginWrite, Completes
<1>8. CASE StartBatch(p)
  BY <1>8 DEF StartBatch
<1>9. CASE DeferFailedAnalysis(p)
  BY <1>9 DEF DeferFailedAnalysis
<1>10. CASE FinishWrite(p)
  BY <1>10 DEF FinishWrite
<1>11. CASE EndProducerBatch(p)
  BY <1>11 DEF EndProducerBatch
<1>12. QED
  BY <1>1, <1>2, <1>3, <1>4, <1>5, <1>6, <1>7, <1>8, <1>9, <1>10, <1>11 DEF Produce

LEMMA BaseIngest ==
  ASSUME NEW i \in Ingesters, BaseInv, Ingest(i)
  PROVE  BaseInv'
<1> USE DEF BaseInv, TypeOK, ProducerInv, IngesterInv, ProducerHolds, Has, Spooled,
            IngesterPC, InHand, Goto, dbVars, fileVars, prodVars
<1>1. CASE ListIngesting(i)
  BY <1>1 DEF ListIngesting
<1>2. ASSUME NEW c \in Names, RequeueStale(i, c) PROVE BaseInv'
  BY <1>2 DEF RequeueStale, RequeueArtifact
<1>3. ASSUME NEW c \in Names, TakePending(i, c) PROVE BaseInv'
  BY <1>3 DEF TakePending, FirstOf
<1>4. ASSUME NEW c \in Names, LoadArtifact(i, c) PROVE BaseInv'
  BY <1>4 DEF LoadArtifact, FirstOf, Loads
<1>5. CASE ListPending(i)
  BY <1>5 DEF ListPending
<1>6. CASE EndTaking(i)
  BY <1>6 DEF EndTaking
<1>7. CASE PutBack(i)
  BY <1>7 DEF PutBack, RequeueArtifact
<1>8. CASE Persist(i)
  BY <1>8 DEF Persist
<1>9. CASE PersistFails(i)
  BY <1>9 DEF PersistFails
<1>10. CASE UnlinkArtifact(i)
  BY <1>10 DEF UnlinkArtifact, Unlink
<1>11. CASE ReleaseClaim(i)
  BY <1>11 DEF ReleaseClaim, ClaimsWithout
<1>12. CASE ReleaseFailedClaim(i)
  BY <1>12 DEF ReleaseFailedClaim, ClaimsWithout
<1>13. CASE DeferFailedIngest(i)
  BY <1>13 DEF DeferFailedIngest
<1>14. CASE EndIngesterBatch(i)
  BY <1>14 DEF EndIngesterBatch
<1>15. QED
  BY <1>1, <1>2, <1>3, <1>4, <1>5, <1>6, <1>7, <1>8, <1>9, <1>10, <1>11, <1>12, <1>13,
     <1>14 DEF Ingest

(* The steps of time and of the other commands, and the deaths. *)
LEMMA BaseEnvironment ==
  ASSUME BaseInv,
         \/ \E p \in Producers : CrashProducer(p)
         \/ \E i \in Ingesters : CrashIngester(i)
         \/ \E r \in Repos : BecomeDue(r) \/ ScannedElsewhere(r) \/ MirrorAppears(r)
         \/ \E c \in Names : Age(c)
         \/ UNCHANGED vars
  PROVE  BaseInv'
<1> USE DEF BaseInv, TypeOK, ProducerInv, IngesterInv, ProducerHolds, Has, Spooled,
            ProducerPC, IngesterPC, InHand, dbVars, fileVars, prodVars, ingVars
<1>1. ASSUME NEW p \in Producers, CrashProducer(p) PROVE BaseInv'
  BY <1>1 DEF CrashProducer, Dies
<1>2. ASSUME NEW i \in Ingesters, CrashIngester(i) PROVE BaseInv'
  BY <1>2 DEF CrashIngester, Dies, Goto
<1>3. ASSUME NEW r \in Repos, BecomeDue(r) PROVE BaseInv'
  BY <1>3 DEF BecomeDue
<1>4. ASSUME NEW r \in Repos, ScannedElsewhere(r) PROVE BaseInv'
  BY <1>4 DEF ScannedElsewhere
<1>5. ASSUME NEW r \in Repos, MirrorAppears(r) PROVE BaseInv'
  BY <1>5 DEF MirrorAppears
<1>6. ASSUME NEW c \in Names, Age(c) PROVE BaseInv'
  BY <1>6 DEF Age
<1>7. CASE UNCHANGED vars
  BY <1>7 DEF vars
<1>8. QED
  BY <1>1, <1>2, <1>3, <1>4, <1>5, <1>6, <1>7

LEMMA BaseStep == BaseInv /\ [Next]_vars => BaseInv'
  BY BaseProduce, BaseIngest, BaseEnvironment DEF Next

LEMMA BaseHolds == Spec => []BaseInv
  BY BaseInit, BaseStep, PTL DEF Spec

(* Every variable keeps its type, and no artifact is ever in pending/ and  *)
(* ingesting/ at once.                                                     *)
THEOREM TypeCorrect == Spec => []TypeOK
<1>1. BaseInv => TypeOK
  BY DEF BaseInv
<1>2. QED
  BY <1>1, BaseHolds, PTL

-----------------------------------------------------------------------------
(* No claim outlives its work *)

OrphanInv == BaseInv /\ NoOrphanClaim

LEMMA OrphanProduce ==
  ASSUME NEW p \in Producers, OrphanInv, Produce(p)
  PROVE  NoOrphanClaim'
<1> USE DEF OrphanInv, BaseInv, TypeOK, ProducerInv, NoOrphanClaim, Live, ProducerHolds,
            IngesterHolds, Spooled, ProducerPC, dbVars, fileVars, ingVars
<1>1. CASE ListDue(p)
  BY <1>1 DEF ListDue
<1>2. ASSUME NEW r \in Repos, NoteMissing(p, r) PROVE NoOrphanClaim'
  BY <1>2 DEF NoteMissing, Considers
<1>3. ASSUME NEW r \in Repos, SkipClaimed(p, r) PROVE NoOrphanClaim'
  BY <1>3 DEF SkipClaimed, Considers
<1>4. ASSUME NEW r \in Repos, DeferMissing(p, r) PROVE NoOrphanClaim'
  BY <1>4 DEF DeferMissing
<1>5. ASSUME NEW c \in Names, ClaimRepo(p, c) PROVE NoOrphanClaim'
  BY <1>5 DEF ClaimRepo, Considers
<1>6. ASSUME NEW c \in Names, AnalysisFails(p, c) PROVE NoOrphanClaim'
  BY <1>6 DEF AnalysisFails, Completes, ClaimsWithout
<1>7. ASSUME NEW c \in Names, BeginWrite(p, c) PROVE NoOrphanClaim'
  BY <1>7 DEF BeginWrite, Completes
<1>8. CASE StartBatch(p)
  BY <1>8 DEF StartBatch
<1>9. CASE DeferFailedAnalysis(p)
  BY <1>9 DEF DeferFailedAnalysis
<1>10. CASE FinishWrite(p)
  BY <1>10 DEF FinishWrite
<1>11. CASE EndProducerBatch(p)
  BY <1>11 DEF EndProducerBatch
<1>12. QED
  BY <1>1, <1>2, <1>3, <1>4, <1>5, <1>6, <1>7, <1>8, <1>9, <1>10, <1>11 DEF Produce

LEMMA OrphanIngest ==
  ASSUME NEW i \in Ingesters, OrphanInv, Ingest(i)
  PROVE  NoOrphanClaim'
<1> USE DEF OrphanInv, BaseInv, TypeOK, IngesterInv, NoOrphanClaim, Live, ProducerHolds,
            IngesterHolds, Spooled, IngesterPC, InHand, Goto, dbVars, fileVars, prodVars
<1>1. CASE ListIngesting(i)
  BY <1>1 DEF ListIngesting
<1>2. ASSUME NEW c \in Names, RequeueStale(i, c) PROVE NoOrphanClaim'
  BY <1>2 DEF RequeueStale, RequeueArtifact
<1>3. ASSUME NEW c \in Names, TakePending(i, c) PROVE NoOrphanClaim'
  BY <1>3 DEF TakePending, FirstOf
<1>4. ASSUME NEW c \in Names, LoadArtifact(i, c) PROVE NoOrphanClaim'
  BY <1>4 DEF LoadArtifact, FirstOf, Loads
<1>5. CASE ListPending(i)
  BY <1>5 DEF ListPending
<1>6. CASE EndTaking(i)
  BY <1>6 DEF EndTaking
<1>7. CASE PutBack(i)
  BY <1>7 DEF PutBack, RequeueArtifact
<1>8. CASE Persist(i)
  BY <1>8 DEF Persist
<1>9. CASE PersistFails(i)
  BY <1>9 DEF PersistFails
<1>10. CASE UnlinkArtifact(i)
  BY <1>10 DEF UnlinkArtifact, Unlink
<1>11. CASE ReleaseClaim(i)
  BY <1>11 DEF ReleaseClaim, ClaimsWithout
<1>12. CASE ReleaseFailedClaim(i)
  BY <1>12 DEF ReleaseFailedClaim, ClaimsWithout
<1>13. CASE DeferFailedIngest(i)
  BY <1>13 DEF DeferFailedIngest
<1>14. CASE EndIngesterBatch(i)
  BY <1>14 DEF EndIngesterBatch
<1>15. QED
  BY <1>1, <1>2, <1>3, <1>4, <1>5, <1>6, <1>7, <1>8, <1>9, <1>10, <1>11, <1>12, <1>13,
     <1>14 DEF Ingest

LEMMA OrphanStep ==
  ASSUME MayCrash = {}, OrphanInv, [Next]_vars
  PROVE  OrphanInv'
<1>1. BaseInv'
  BY BaseStep DEF OrphanInv
<1>2. ASSUME NEW p \in Producers, Produce(p) PROVE NoOrphanClaim'
  BY <1>2, OrphanProduce
<1>3. ASSUME NEW i \in Ingesters, Ingest(i) PROVE NoOrphanClaim'
  BY <1>3, OrphanIngest
<1>4. ASSUME NEW x \in Producers \cup Ingesters PROVE ~Dies(x)
  BY DEF Dies
<1>5. ASSUME UNCHANGED <<claims, pending, ingesting, prodVars, ingVars>> PROVE NoOrphanClaim'
  BY <1>5 DEF OrphanInv, NoOrphanClaim, Live, ProducerHolds, IngesterHolds, Spooled,
              prodVars, ingVars
<1>6. ASSUME NEW r \in Repos, BecomeDue(r) \/ ScannedElsewhere(r) \/ MirrorAppears(r)
      PROVE  NoOrphanClaim'
  BY <1>5, <1>6 DEF BecomeDue, ScannedElsewhere, MirrorAppears, fileVars
<1>7. ASSUME NEW c \in Names, Age(c) PROVE NoOrphanClaim'
  BY <1>5, <1>7 DEF Age
<1>8. ASSUME UNCHANGED vars PROVE NoOrphanClaim'
  BY <1>5, <1>8 DEF vars, fileVars
<1>9. QED
  BY <1>1, <1>2, <1>3, <1>4, <1>6, <1>7, <1>8
  DEF Next, OrphanInv, CrashProducer, CrashIngester

(* While no process dies, every claim file names a token that a producer,  *)
(* the spool or an ingester still works under, for any number of ingesters.*)
THEOREM ClaimsAreNotOrphaned ==
  ASSUME MayCrash = {}
  PROVE  Spec => []NoOrphanClaim
<1>1. Init => OrphanInv
  BY BaseInit DEF OrphanInv, NoOrphanClaim, Init
<1>2. OrphanInv /\ [Next]_vars => OrphanInv'
  BY OrphanStep
<1>3. OrphanInv => NoOrphanClaim
  BY DEF OrphanInv
<1>4. QED
  BY <1>1, <1>2, <1>3, PTL DEF Spec

-----------------------------------------------------------------------------
(* The claim covers the work *)

(* One ingester, or no artifact that grows stale before it is handled:     *)
(* then requeue_stale_ingesting moves nothing an ingester works on.        *)
NoSteal == (\A i, j \in Ingesters : i = j) \/ Slow = {}

OneClaimPerRepo == \A c, d \in claims : c.repo = d.repo => c = d

(* Where the artifacts that ingesters have in hand are, and that no two    *)
(* ingesters have the same one.                                            *)
HandInv ==
  /\ \A i \in Ingesters : taken[i] \subseteq ingesting
  /\ \A i \in Ingesters :
       ipc[i] \in {"persist", "unlink", "unlinkFailed", "putback"} =>
         icur[i] \in ingesting \ taken[i]
  /\ \A i \in Ingesters :
       ipc[i] \in {"release", "releaseFailed"} => icur[i] \notin Spooled
  /\ \A i, j \in Ingesters : \A c \in Names : Has(i, c) /\ Has(j, c) => i = j
  /\ \A i \in Ingesters : ipc[i] \in {"idle", "requeue"} => taken[i] = {}
  /\ \A c \in old : c.repo \in Slow

CoverInv == BaseInv /\ HandInv /\ OneClaimPerRepo /\ ClaimCoversWork

LEMMA CoverInit == Init => CoverInv
  BY BaseInit
  DEF Init, CoverInv, HandInv, OneClaimPerRepo, ClaimCoversWork, Live, ProducerHolds,
      IngesterHolds, Has, Spooled, InHand

LEMMA CoverProduce ==
  ASSUME NEW p \in Producers, CoverInv, Produce(p)
  PROVE  (HandInv /\ OneClaimPerRepo /\ ClaimCoversWork)'
<1> DEFINE Goal == (HandInv /\ OneClaimPerRepo /\ ClaimCoversWork)'
<1> USE DEF CoverInv, BaseInv, TypeOK, ProducerInv, IngesterInv, HandInv, OneClaimPerRepo,
            ClaimCoversWork, Live, ProducerHolds, IngesterHolds, Has, Spooled, InHand,
            dbVars, fileVars, ingVars
<1>1. CASE ListDue(p)
  BY <1>1 DEF ListDue
<1>2. ASSUME NEW r \in Repos, NoteMissing(p, r) PROVE Goal
  BY <1>2 DEF NoteMissing, Considers
<1>3. ASSUME NEW r \in Repos, SkipClaimed(p, r) PROVE Goal
  BY <1>3 DEF SkipClaimed, Considers
<1>4. ASSUME NEW r \in Repos, DeferMissing(p, r) PROVE Goal
  BY <1>4 DEF DeferMissing
<1>5. ASSUME NEW c \in Names, ClaimRepo(p, c) PROVE Goal
  BY <1>5 DEF ClaimRepo, Considers, Claimable
<1>6. ASSUME NEW c \in Names, AnalysisFails(p, c) PROVE Goal
  BY <1>6 DEF AnalysisFails, Completes, ClaimsWithout
<1>7. ASSUME NEW c \in Names, BeginWrite(p, c) PROVE Goal
  BY <1>7 DEF BeginWrite, Completes
<1>8. CASE StartBatch(p)
  BY <1>8 DEF StartBatch
<1>9. CASE DeferFailedAnalysis(p)
  BY <1>9 DEF DeferFailedAnalysis
<1>10. CASE FinishWrite(p)
  BY <1>10 DEF FinishWrite
<1>11. CASE EndProducerBatch(p)
  BY <1>11 DEF EndProducerBatch
<1>12. QED
  BY <1>1, <1>2, <1>3, <1>4, <1>5, <1>6, <1>7, <1>8, <1>9, <1>10, <1>11 DEF Produce

LEMMA CoverIngest ==
  ASSUME NoSteal, NEW i \in Ingesters, CoverInv, Ingest(i)
  PROVE  (HandInv /\ OneClaimPerRepo /\ ClaimCoversWork)'
<1> DEFINE Goal == (HandInv /\ OneClaimPerRepo /\ ClaimCoversWork)'
<1> USE DEF CoverInv, BaseInv, TypeOK, ProducerInv, IngesterInv, HandInv, OneClaimPerRepo,
            ClaimCoversWork, Live, ProducerHolds, IngesterHolds, Has, Spooled, InHand,
            Goto, IngesterPC, dbVars, fileVars, prodVars
<1>1. CASE ListIngesting(i)
  BY <1>1 DEF ListIngesting
<1>2. ASSUME NEW c \in Names, RequeueStale(i, c) PROVE Goal
  BY <1>2 DEF RequeueStale, RequeueArtifact, LooksStale, NoSteal
<1>3. ASSUME NEW c \in Names, TakePending(i, c) PROVE Goal
  <2>1. CASE c \in pending
    <3>1. \A j \in Ingesters : ~Has(j, c)
      BY <2>1
    <3>2. \A j \in Ingesters : \A d \in Names : Has(j, d)' => Has(j, d) \/ (j = i /\ d = c)
      BY <1>3, <2>1 DEF TakePending, FirstOf
    <3>3. \A j, k \in Ingesters : \A d \in Names : Has(j, d)' /\ Has(k, d)' => j = k
      BY <3>1, <3>2
    <3>4. Spooled' = Spooled
      BY <1>3, <2>1 DEF TakePending
    <3>5. HandInv'
      BY <1>3, <2>1, <3>3, SMTT(30) DEF TakePending
    <3>6. (OneClaimPerRepo /\ ClaimCoversWork)'
      BY <1>3, <3>4 DEF TakePending
    <3>7. QED
      BY <3>5, <3>6
  <2>2. CASE c \notin pending
    BY <1>3, <2>2 DEF TakePending
  <2>3. QED
    BY <2>1, <2>2
<1>4. ASSUME NEW c \in Names, LoadArtifact(i, c) PROVE Goal
  BY <1>4 DEF LoadArtifact, FirstOf, Loads
<1>5. CASE ListPending(i)
  BY <1>5 DEF ListPending
<1>6. CASE EndTaking(i)
  BY <1>6 DEF EndTaking
<1>7. CASE PutBack(i)
  BY <1>7 DEF PutBack, RequeueArtifact
<1>8. CASE Persist(i)
  BY <1>8 DEF Persist
<1>9. CASE PersistFails(i)
  BY <1>9 DEF PersistFails
<1>10. CASE UnlinkArtifact(i)
  BY <1>10 DEF UnlinkArtifact, Unlink
<1>11. CASE ReleaseClaim(i)
  BY <1>11 DEF ReleaseClaim, ClaimsWithout
<1>12. CASE ReleaseFailedClaim(i)
  BY <1>12 DEF ReleaseFailedClaim, ClaimsWithout
<1>13. CASE DeferFailedIngest(i)
  BY <1>13 DEF DeferFailedIngest
<1>14. CASE EndIngesterBatch(i)
  BY <1>14 DEF EndIngesterBatch
<1>15. QED
  BY <1>1, <1>2, <1>3, <1>4, <1>5, <1>6, <1>7, <1>8, <1>9, <1>10, <1>11, <1>12, <1>13,
     <1>14 DEF Ingest

LEMMA CoverEnvironment ==
  ASSUME CoverInv,
         \/ \E p \in Producers : CrashProducer(p)
         \/ \E i \in Ingesters : CrashIngester(i)
         \/ \E r \in Repos : BecomeDue(r) \/ ScannedElsewhere(r) \/ MirrorAppears(r)
         \/ \E c \in Names : Age(c)
         \/ UNCHANGED vars
  PROVE  (HandInv /\ OneClaimPerRepo /\ ClaimCoversWork)'
<1> DEFINE Goal == (HandInv /\ OneClaimPerRepo /\ ClaimCoversWork)'
<1> USE DEF CoverInv, BaseInv, TypeOK, HandInv, OneClaimPerRepo, ClaimCoversWork, Live,
            ProducerHolds, IngesterHolds, Has, Spooled, InHand,
            dbVars, fileVars, prodVars, ingVars
<1>1. ASSUME NEW p \in Producers, CrashProducer(p) PROVE Goal
  BY <1>1 DEF CrashProducer
<1>2. ASSUME NEW i \in Ingesters, CrashIngester(i) PROVE Goal
  BY <1>2 DEF CrashIngester, Goto
<1>3. ASSUME NEW r \in Repos, BecomeDue(r) PROVE Goal
  BY <1>3 DEF BecomeDue
<1>4. ASSUME NEW r \in Repos, ScannedElsewhere(r) PROVE Goal
  BY <1>4 DEF ScannedElsewhere
<1>5. ASSUME NEW r \in Repos, MirrorAppears(r) PROVE Goal
  BY <1>5 DEF MirrorAppears
<1>6. ASSUME NEW c \in Names, Age(c) PROVE Goal
  BY <1>6 DEF Age
<1>7. CASE UNCHANGED vars
  BY <1>7 DEF vars
<1>8. QED
  BY <1>1, <1>2, <1>3, <1>4, <1>5, <1>6, <1>7

LEMMA CoverStep ==
  ASSUME NoSteal
  PROVE  CoverInv /\ [Next]_vars => CoverInv'
  BY BaseStep, CoverProduce, CoverIngest, CoverEnvironment DEF Next, CoverInv

LEMMA CoverHolds ==
  ASSUME NoSteal
  PROVE  Spec => []CoverInv
<1>1. CoverInv /\ [Next]_vars => CoverInv'
  BY CoverStep
<1>2. QED
  BY CoverInit, <1>1, PTL DEF Spec

(* The claim file carries the token of everybody who works on the          *)
(* repository, whoever dies and whenever.                                  *)
THEOREM ClaimsCoverWork ==
  ASSUME NoSteal
  PROVE  Spec => []ClaimCoversWork
<1>1. CoverInv => ClaimCoversWork
  BY DEF CoverInv
<1>2. QED
  BY <1>1, CoverHolds, PTL

(* No two analyses of one repository are ever under way together.          *)
THEOREM WorkIsExclusive ==
  ASSUME NoSteal
  PROVE  Spec => []ExclusiveWork
<1>1. CoverInv => ExclusiveWork
  BY DEF CoverInv, OneClaimPerRepo, ClaimCoversWork, ExclusiveWork
<1>2. QED
  BY <1>1, CoverHolds, PTL

(* No two ingesters ever have one artifact in hand.                        *)
THEOREM IngestIsExclusive ==
  ASSUME NoSteal
  PROVE  Spec => []ExclusiveIngest
<1>1. CoverInv => ExclusiveIngest
  BY DEF CoverInv, HandInv, ExclusiveIngest, Has, IngesterHolds
<1>2. QED
  BY <1>1, CoverHolds, PTL

-----------------------------------------------------------------------------
(* The spool implements the lease *)

LEMMA LeaseProduce ==
  ASSUME NEW p \in Producers, CoverInv, Produce(p)
  PROVE  [Lease!Next]_<<due, claims, ingested>>
<1> USE DEF dbVars, Lease!Next, Lease!Leases, Names
<1>1. ASSUME UNCHANGED <<due, claims, ingested>> PROVE [Lease!Next]_<<due, claims, ingested>>
  BY <1>1
<1>2. ASSUME NEW r \in Repos, DeferMissing(p, r) PROVE Lease!Next
  BY <1>2 DEF DeferMissing, Lease!Reschedule
<1>3. ASSUME NEW c \in Names, ClaimRepo(p, c) PROVE Lease!Next
  <2>1. Lease!Acquire(c)
    BY <1>3 DEF ClaimRepo, Claimable, Lease!Acquire
  <2>2. QED
    BY <2>1
<1>4. ASSUME NEW c \in Names, AnalysisFails(p, c) PROVE Lease!Next
  <2>1. c \in claims
    BY <1>4 DEF AnalysisFails, Completes, CoverInv, ClaimCoversWork, Live, ProducerHolds
  <2>2. ClaimsWithout(c.repo) = claims \ {c}
    BY <2>1 DEF ClaimsWithout, CoverInv, OneClaimPerRepo
  <2>3. Lease!Release(c)
    BY <1>4, <2>1, <2>2 DEF AnalysisFails, Lease!Release
  <2>4. QED
    BY <2>3
<1>5. CASE DeferFailedAnalysis(p)
  <2>1. pcur[p].repo \in Repos
    BY <1>5 DEF DeferFailedAnalysis, CoverInv, BaseInv, ProducerInv
  <2>2. Lease!Reschedule(pcur[p].repo)
    BY <1>5 DEF DeferFailedAnalysis, Lease!Reschedule
  <2>3. QED
    BY <2>1, <2>2
<1>6. QED
  BY <1>1, <1>2, <1>3, <1>4, <1>5
  DEF Produce, ListDue, NoteMissing, SkipClaimed, BeginWrite, StartBatch, FinishWrite,
      EndProducerBatch

LEMMA LeaseIngest ==
  ASSUME NEW i \in Ingesters, CoverInv, Ingest(i)
  PROVE  [Lease!Next]_<<due, claims, ingested>>
<1> USE DEF dbVars, Lease!Next, Lease!Leases, Names
<1>1. ASSUME UNCHANGED <<due, claims, ingested>> PROVE [Lease!Next]_<<due, claims, ingested>>
  BY <1>1
<1>2. ASSUME ipc[i] \in InHand PROVE icur[i] \in Names /\ icur[i] \in claims
  BY <1>2 DEF CoverInv, BaseInv, IngesterInv, ClaimCoversWork, Live, IngesterHolds
<1>3. CASE Persist(i)
  <2>1. Lease!Record(icur[i])
    BY <1>2, <1>3 DEF Persist, InHand, Lease!Record
  <2>2. QED
    BY <1>2, <1>3, <2>1 DEF Persist, InHand
<1>4. CASE ReleaseClaim(i) \/ ReleaseFailedClaim(i)
  <2>1. icur[i] \in Names /\ icur[i] \in claims
    BY <1>2, <1>4 DEF ReleaseClaim, ReleaseFailedClaim, InHand
  <2>2. ClaimsWithout(icur[i].repo) = claims \ {icur[i]}
    BY <2>1 DEF ClaimsWithout, CoverInv, OneClaimPerRepo
  <2>3. Lease!Release(icur[i])
    BY <1>4, <2>1, <2>2 DEF ReleaseClaim, ReleaseFailedClaim, Lease!Release
  <2>4. QED
    BY <2>1, <2>3
<1>5. CASE DeferFailedIngest(i)
  <2>1. CASE icur[i].repo \in due
    BY <1>5, <2>1 DEF DeferFailedIngest, Lease!Reschedule, CoverInv, BaseInv, TypeOK
  <2>2. CASE icur[i].repo \notin due
    BY <1>1, <1>5, <2>2 DEF DeferFailedIngest
  <2>3. QED
    BY <2>1, <2>2
<1>6. QED
  BY <1>1, <1>3, <1>4, <1>5
  DEF Ingest, ListIngesting, RequeueStale, TakePending, LoadArtifact, ListPending, EndTaking,
      PutBack, PersistFails, UnlinkArtifact, EndIngesterBatch

(* Every behaviour of the spool is a behaviour of RepoLease: claims are    *)
(* exclusive, and persist_repo_analysis commits only under its own claim.  *)
THEOREM SpoolImplementsLease ==
  ASSUME NoSteal
  PROVE  Spec => ImplementsLease
<1>1. Init => Lease!Init
  BY DEF Init, Lease!Init
<1>2. CoverInv /\ [Next]_vars => [Lease!Next]_<<due, claims, ingested>>
  <2> SUFFICES ASSUME CoverInv, [Next]_vars
               PROVE  [Lease!Next]_<<due, claims, ingested>>
    OBVIOUS
  <2>1. ASSUME NEW r \in Repos, BecomeDue(r) \/ ScannedElsewhere(r) \/ MirrorAppears(r)
        PROVE  [Lease!Next]_<<due, claims, ingested>>
    BY <2>1 DEF BecomeDue, ScannedElsewhere, MirrorAppears, Lease!Next, Lease!Reschedule
  <2>2. ASSUME \/ \E p \in Producers : CrashProducer(p)
               \/ \E i \in Ingesters : CrashIngester(i)
               \/ \E c \in Names : Age(c)
               \/ UNCHANGED vars
        PROVE  UNCHANGED <<due, claims, ingested>>
    BY <2>2 DEF CrashProducer, CrashIngester, Age, vars, dbVars
  <2>3. QED
    BY <2>1, <2>2, LeaseProduce, LeaseIngest DEF Next
<1>3. QED
  BY <1>1, <1>2, CoverHolds, PTL DEF Spec, ImplementsLease, Lease!Spec

-----------------------------------------------------------------------------
(* Nothing is recorded twice *)

(* A death between the commit and the unlink would leave the artifact to be  *)
(* recorded again.                                                           *)
IngestersLive == MayCrash \cap Ingesters = {}

(* What has been recorded is nobody's work any more, and its file is gone or *)
(* about to be unlinked.                                                     *)
RecordInv ==
  \A c \in ingested :
    /\ \A p \in Producers : ~ProducerHolds(p, c)
    /\ c \notin pending
    /\ c \in ingesting => \E i \in Ingesters : ipc[i] = "unlink" /\ icur[i] = c
    /\ \A i \in Ingesters : c \notin taken[i] /\ (ipc[i] \in {"persist", "putback"} => icur[i] # c)

LEMMA RecordProduce ==
  ASSUME NEW p \in Producers, CoverInv, RecordInv, Produce(p)
  PROVE  RecordInv'
<1> USE DEF CoverInv, BaseInv, TypeOK, RecordInv, ProducerHolds, dbVars, fileVars, ingVars
<1>1. CASE ListDue(p) \/ StartBatch(p) \/ EndProducerBatch(p)
  BY <1>1 DEF ListDue, StartBatch, EndProducerBatch
<1>2. ASSUME NEW r \in Repos, NoteMissing(p, r) \/ SkipClaimed(p, r) \/ DeferMissing(p, r) PROVE RecordInv'
  BY <1>2 DEF NoteMissing, SkipClaimed, DeferMissing, Considers
<1>3. ASSUME NEW c \in Names, ClaimRepo(p, c) PROVE RecordInv'
  BY <1>3 DEF ClaimRepo, Considers
<1>4. ASSUME NEW c \in Names, AnalysisFails(p, c) PROVE RecordInv'
  BY <1>4 DEF AnalysisFails, Completes
<1>5. ASSUME NEW c \in Names, BeginWrite(p, c) PROVE RecordInv'
  BY <1>5 DEF BeginWrite, Completes
<1>6. CASE DeferFailedAnalysis(p)
  BY <1>6 DEF DeferFailedAnalysis
<1>7. CASE FinishWrite(p)
  BY <1>7 DEF FinishWrite
<1>8. QED
  BY <1>1, <1>2, <1>3, <1>4, <1>5, <1>6, <1>7 DEF Produce

LEMMA RecordIngest ==
  ASSUME NoSteal, NEW i \in Ingesters, CoverInv, RecordInv, Ingest(i)
  PROVE  RecordInv'
<1> USE DEF CoverInv, BaseInv, TypeOK, HandInv, RecordInv, ProducerHolds, Has, InHand, Goto,
            IngesterPC, dbVars, fileVars, prodVars
<1>1. CASE ListIngesting(i) \/ ListPending(i) \/ EndTaking(i) \/ EndIngesterBatch(i)
  BY <1>1 DEF ListIngesting, ListPending, EndTaking, EndIngesterBatch
<1>2. ASSUME NEW c \in Names, RequeueStale(i, c) PROVE RecordInv'
  BY <1>2 DEF RequeueStale, RequeueArtifact, LooksStale, NoSteal
<1>3. ASSUME NEW c \in Names, TakePending(i, c) PROVE RecordInv'
  BY <1>3 DEF TakePending
<1>4. ASSUME NEW c \in Names, LoadArtifact(i, c) PROVE RecordInv'
  BY <1>4 DEF LoadArtifact, FirstOf
<1>5. CASE PutBack(i)
  BY <1>5 DEF PutBack, RequeueArtifact
<1>6. CASE Persist(i)
  <2> DEFINE c == icur[i]
  <2>1. c \in Names /\ c \in ingesting /\ c \notin pending /\ c \notin partial
    BY <1>6 DEF Persist, IngesterInv
  <2>2. \A p \in Producers : ~ProducerHolds(p, c)
    BY <1>6, <2>1 DEF Persist, ProducerInv, IngesterInv
  <2>3. \A j \in Ingesters \ {i} : ~Has(j, c)
    BY <1>6, <2>1 DEF Persist
  <2>4. c \notin taken[i]
    BY <1>6 DEF Persist
  <2>5. QED
    BY <1>6, <2>1, <2>2, <2>3, <2>4 DEF Persist
<1>7. CASE PersistFails(i)
  BY <1>7 DEF PersistFails
<1>8. CASE UnlinkArtifact(i)
  BY <1>8 DEF UnlinkArtifact, Unlink
<1>9. CASE ReleaseClaim(i) \/ ReleaseFailedClaim(i) \/ DeferFailedIngest(i)
  BY <1>9 DEF ReleaseClaim, ReleaseFailedClaim, DeferFailedIngest
<1>10. QED
  BY <1>1, <1>2, <1>3, <1>4, <1>5, <1>6, <1>7, <1>8, <1>9 DEF Ingest

LEMMA RecordStep ==
  ASSUME NoSteal, IngestersLive
  PROVE  CoverInv /\ RecordInv /\ [Next]_vars => RecordInv'
<1> SUFFICES ASSUME CoverInv, RecordInv, [Next]_vars PROVE RecordInv'
  OBVIOUS
<1>1. ASSUME NEW p \in Producers, CrashProducer(p) PROVE RecordInv'
  BY <1>1 DEF CrashProducer, RecordInv, ProducerHolds, CoverInv, BaseInv, TypeOK, dbVars, fileVars, ingVars
<1>2. ASSUME NEW i \in Ingesters PROVE ~CrashIngester(i)
  BY DEF CrashIngester, Dies, IngestersLive
<1>3. ASSUME NEW r \in Repos, BecomeDue(r) \/ ScannedElsewhere(r) \/ MirrorAppears(r) PROVE RecordInv'
  BY <1>3 DEF BecomeDue, ScannedElsewhere, MirrorAppears, RecordInv, ProducerHolds, fileVars, prodVars, ingVars
<1>4. ASSUME NEW c \in Names, Age(c) PROVE RecordInv'
  BY <1>4 DEF Age, RecordInv, ProducerHolds, dbVars, prodVars, ingVars
<1>5. CASE UNCHANGED vars
  BY <1>5 DEF vars, RecordInv, ProducerHolds, fileVars, prodVars, ingVars
<1>6. QED
  BY <1>1, <1>2, <1>3, <1>4, <1>5, RecordProduce, RecordIngest DEF Next

(* No artifact is recorded twice as long as no ingester dies, whatever       *)
(* producers do and wherever they die (AnalysisSpool.RecordedOnce).          *)
THEOREM ArtifactsAreRecordedOnce ==
  ASSUME NoSteal, IngestersLive
  PROVE  Spec => RecordedOnce
<1>1. Init => RecordInv
  BY DEF Init, RecordInv
<1>2. CoverInv /\ RecordInv /\ [Next]_vars => RecordInv'
  BY RecordStep
<1>3. RecordInv => [\A i \in Ingesters : Persist(i) => icur[i] \notin ingested]_vars
  BY DEF RecordInv, Persist
<1>4. QED
  BY <1>1, <1>2, <1>3, CoverHolds, PTL DEF Spec, RecordedOnce
=============================================================================
