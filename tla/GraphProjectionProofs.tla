------------------------ MODULE GraphProjectionProofs ------------------------
(* Theorems about GraphProjection, for any number of skills, workers, pages, *)
(* changes and mishaps.                                                      *)
EXTENDS GraphProjection, FiniteSetTheorems, TLAPS

-----------------------------------------------------------------------------
(* Lists, files and edges *)

(* The nine files, in the order they are written in. *)
LEMMA FilesAre ==
  /\ Len(Files) = 9
  /\ ToSet(Files) = NodeFiles \cup EdgeFiles
  /\ Files[1] = "skills" /\ Files[2] = "registries" /\ Files[3] = "indicators"
  /\ Files[4] = "asns" /\ Files[5] = "registrars" /\ Files[6] = "seen_in"
  /\ Files[7] = "emits" /\ Files[8] = "announced_by" /\ Files[9] = "registered_with"
BY DEF Files, NodeFiles, EdgeFiles, ToSet

(* A listing names every skill once. *)
LEMMA Listing ==
  ASSUME NEW o \in SetToSeqs(Skills)
  PROVE  /\ Len(o) = Cardinality(Skills) /\ Cardinality(Skills) \in Nat
         /\ \A k \in 1 .. Len(o) : o[k] \in Skills
         /\ \A s \in Skills : \E k \in 1 .. Len(o) : o[k] = s
<1> DEFINE n == Cardinality(Skills)
<1>1. n \in Nat
  BY SkillsAssumption, FS_CardinalityType
<1>2. o \in [1 .. n -> Skills] /\ \A i, j \in 1 .. n : i # j => o[i] # o[j]
  BY DEF SetToSeqs
<1>3. Len(o) = n
  BY <1>1, <1>2
<1>4. o \in Injection(1 .. n, Skills)
  BY <1>2 DEF Injection, IsInjective
<1>5. IsFiniteSet(1 .. n) /\ Cardinality(1 .. n) = n
  BY <1>1, FS_Interval
<1>6. o \in Surjection(1 .. n, Skills)
  BY <1>4, <1>5, SkillsAssumption, FS_Injection
<1>7. \A s \in Skills : \E k \in 1 .. n : o[k] = s
  BY <1>6 DEF Surjection
<1> QED BY <1>1, <1>2, <1>3, <1>7

LEMMA FirstListing == SetToSeq(Skills) \in SetToSeqs(Skills)
<1> DEFINE n == Cardinality(Skills)
<1>1. ExistsBijection(1 .. n, Skills)
  BY SkillsAssumption, FS_CardinalityType
<1>2. PICK f : f \in Bijection(1 .. n, Skills)
  BY <1>1 DEF ExistsBijection
<1>3. f \in [1 .. n -> Skills] /\ IsInjective(f)
  BY <1>2 DEF Bijection, Injection
<1>4. SetToSeq(Skills) \in [1 .. n -> Skills] /\ IsInjective(SetToSeq(Skills))
  BY <1>3 DEF SetToSeq
<1> QED BY <1>4 DEF SetToSeqs, IsInjective

Data ==
  /\ emits \in [Skills -> SUBSET Indicators]
  /\ entries \subseteq Skills \X Registries
  /\ facts \subseteq Indicators \X Targets /\ raw \subseteq facts

(* The ends of all that the database has on skills have ids. *)
LEMMA EdgesAre ==
  ASSUME Data, NEW K \in SUBSET facts, NEW s \in Skills
  PROVE  EdgesOf(s, emits, entries, K) \subseteq Ids \X Ids
<1>1. emits[s] \subseteq Indicators
  BY DEF Data
<1>2. \A r \in Registries : <<s, r>> \in Ids \X Ids
  BY DEF Ids
<1>3. \A i \in Indicators : <<s, i>> \in Ids \X Ids
  BY DEF Ids
<1>4. K \subseteq Ids \X Ids
  BY DEF Ids, Data
<1> QED BY <1>1, <1>2, <1>3, <1>4 DEF EdgesOf

LEMMA TruthIs ==
  ASSUME Data
  PROVE  /\ \A K \in SUBSET facts : Truth(K) \subseteq Ids \X Ids
         /\ Truth(facts \ raw) \subseteq Truth(facts)
<1>1. ASSUME NEW K \in SUBSET facts PROVE Truth(K) \subseteq Ids \X Ids
  BY EdgesAre DEF Truth
<1>2. \A s \in Skills : EdgesOf(s, emits, entries, facts \ raw) \subseteq EdgesOf(s, emits, entries, facts)
  BY DEF EdgesOf
<1> QED BY <1>1, <1>2 DEF Truth

(* A label leaves the id alone. *)
LEMMA LabelIs ==
  ASSUME NEW x \in Ids, NEW l \in {"Asn", "ASN"}
  PROVE  Label(x, l) \in Node /\ Label(x, l).id = x
<1>1. Label(x, l).id = x
  BY DEF Label
<1>2. (CASE x \in Skills -> "Skill"
         [] x \in Registries -> "Registry"
         [] x \in Indicators -> "Indicator"
         [] x \in Registrars -> "Registrar"
         [] x \in Asns -> l) \in {"Skill", "Registry", "Indicator", "Registrar", "Asn", "ASN"}
  BY DEF Ids, Targets
<1> QED BY <1>1, <1>2 DEF Label, Node

(* Only autonomous systems are labelled in two ways. *)
LEMMA LabelsAre ==
  ASSUME NEW x \in Ids
  PROVE  Label(x, "Asn") = Label(x, "ASN") \/ x \in Asns
BY DEF Ids, Targets, Label

(* Edges are added between all nodes of their ids: those that are there     *)
(* under this label get theirs, and no others if there is no other label.   *)
LEMMA Adding ==
  ASSUME NEW l \in {"Asn", "ASN"}, NEW N, NEW E \in SUBSET (Ids \X Ids)
  PROVE  /\ (\A e \in E : Label(e[1], l) \in N /\ Label(e[2], l) \in N) => Linked(E, l) \subseteq Between(N, E)
         /\ \A X \in SUBSET Ids : N \subseteq Labelled(X, l) => Between(N, E) \subseteq Linked(E, l)
<1>1. ASSUME NEW e \in E, Label(e[1], l) \in N, Label(e[2], l) \in N
      PROVE  <<Label(e[1], l), Label(e[2], l)>> \in Between(N, E)
  <2>1. Label(e[1], l).id = e[1] /\ Label(e[2], l).id = e[2] /\ e = <<e[1], e[2]>>
    BY LabelIs
  <2> QED BY <1>1, <2>1 DEF Between
<1>2. ASSUME NEW X \in SUBSET Ids, N \subseteq Labelled(X, l), NEW b \in Between(N, E)
      PROVE  b \in Linked(E, l)
  <2>1. b = <<b[1], b[2]>> /\ b[1] \in N /\ b[2] \in N /\ <<b[1].id, b[2].id>> \in E
    BY DEF Between
  <2>2. \A n \in N : n = Label(n.id, l)
    BY <1>2, LabelIs DEF Labelled
  <2>3. b = <<Label(b[1].id, l), Label(b[2].id, l)>>
    BY <2>1, <2>2
  <2> QED BY <2>1, <2>3 DEF Linked
<1> QED BY <1>1, <1>2 DEF Linked

(* What a worker reads of a skill: edges of the truth, with their ends. *)
LEMMA PayloadIs ==
  ASSUME Data, NEW s \in Skills
  PROVE  /\ Payload(s).nodes \subseteq Node /\ Payload(s).edges \subseteq Ids \X Ids
         /\ Payload(s).nodes \subseteq Projected.nodes
         /\ Payload(s).edges \subseteq Truth(facts \ raw)
         /\ \A e \in Payload(s).edges : /\ Label(e[1], "Asn") \in Payload(s).nodes
                                       /\ Label(e[2], "Asn") \in Payload(s).nodes
<1> DEFINE E == EdgesOf(s, emits, entries, facts \ raw)
<1>1. E \subseteq Ids \X Ids
  BY EdgesAre
<1>2. E \subseteq Truth(facts \ raw)
  BY DEF Truth
<1>3. Payload(s).edges = E /\ Payload(s).nodes = Labelled({s} \cup EndsOf(E), "Asn")
  BY DEF Payload
<1> HIDE DEF E
<1>4. EndsOf(E) \subseteq Ids /\ s \in Ids /\ \A e \in E : e[1] \in EndsOf(E) /\ e[2] \in EndsOf(E)
  BY <1>1 DEF EndsOf, Ids
<1>5. Labelled({s} \cup EndsOf(E), "Asn") \subseteq Node
  BY <1>4, LabelIs DEF Labelled
<1>6. EndsOf(E) \subseteq EndsOf(Truth(facts \ raw))
  BY <1>2 DEF EndsOf
<1>7. Labelled({s} \cup EndsOf(E), "Asn") \subseteq Projected.nodes
  BY <1>6 DEF Projected, Labelled
<1>8. \A e \in E : /\ Label(e[1], "Asn") \in Labelled({s} \cup EndsOf(E), "Asn")
                   /\ Label(e[2], "Asn") \in Labelled({s} \cup EndsOf(E), "Asn")
  BY <1>4 DEF Labelled
<1> QED BY <1>1, <1>2, <1>3, <1>5, <1>7, <1>8

-----------------------------------------------------------------------------
(* Types *)

Flags ==
  /\ up \in BOOLEAN /\ all \in BOOLEAN /\ next \in BOOLEAN /\ broken \in BOOLEAN
  /\ aged \in BOOLEAN /\ whole \in BOOLEAN /\ clean \in BOOLEAN
  /\ filled \in {"no", "projected", "imported", "mixed"}

Counts == changes \in 0 .. MaxChanges /\ mishaps \in 0 .. MaxMishaps

GraphType == nodes \subseteq Node /\ edges \subseteq nodes \X nodes

(* has_next is that of the page in hand. *)
Paging ==
  /\ ppc \in {"idle", "list", "ready", "page", "done"}
  /\ page \in 0 .. Cardinality(Skills)
  /\ queue \subseteq Skills
  /\ ppc \in {"ready", "page"} => (next <=> all /\ (page + 1) * PageSize < Cardinality(Skills))

(* Workers work at a page only. *)
Hands ==
  /\ wpc \in [Workers -> {"free", "nodes", "edges"}]
  /\ DOMAIN payload = Workers
  /\ \A w \in Workers : payload[w].nodes \subseteq Node /\ payload[w].edges \subseteq Ids \X Ids
  /\ old \subseteq Busy
  /\ ppc # "page" => Busy = {}

(* What is imported is complete, and its nodes have ids. *)
Bundles ==
  /\ bpc \in BPC
  /\ tmp \in [emits : [Skills -> SUBSET Indicators], mewhois : SUBSET (Indicators \X Registrars),
             meip : SUBSET (Indicators \X Asns)]
  /\ DOMAIN bundle \subseteq ToSet(Files)
  /\ \A f \in DOMAIN bundle : f \in NodeFiles => bundle[f] \subseteq Ids
  /\ bpc = "import" => ~up /\ Complete

TypeInv == Data /\ order \in SetToSeqs(Skills) /\ Flags /\ Counts /\ GraphType /\ Paging /\ Hands /\ Bundles

(* The strengthened type invariant holds at first. *)
LEMMA TypeInit == Init => TypeInv
<1> SUFFICES ASSUME Init PROVE TypeInv
  OBVIOUS
<1>1. Data /\ order \in SetToSeqs(Skills)
  BY FirstListing DEF Init, Data
<1>2. Flags
  BY Zenon DEF Init, Flags
<1>6. Counts /\ GraphType
  BY BoundsAssumption DEF Init, Counts, GraphType
<1>3. Paging
  BY SkillsAssumption, FS_CardinalityType DEF Init, Paging
<1>4. Hands
  BY DEF Init, Hands, Busy, Empty
<1>5. Bundles
  BY DEF Init, Bundles, NoTables, BPC
<1> QED BY <1>1, <1>2, <1>3, <1>4, <1>5, <1>6 DEF TypeInv

Changes ==
  \/ \E s \in Skills, found \in SUBSET Indicators : Scan(s, found)
  \/ \E s \in Skills, r \in Registries : Seed(s, r)
  \/ \E i \in Indicators, x \in Targets : Enrich(i, x)
  \/ \E o \in SetToSeqs(Skills) : Reorder(o)

(* A change leaves the commands alone and outdates all that was read. *)
LEMMA ChangesAre ==
  ASSUME Changes
  PROVE  /\ UNCHANGED <<up, broken, graph, projection, rebuild, whole>>
         /\ old' = Busy /\ aged' = TRUE /\ clean' = FALSE /\ filled' = "no"
BY Zenon DEF Changes, Scan, Seed, Enrich, Reorder, Change

(* Of the data the two commands change nothing. *)
LEMMA DataKept ==
  ASSUME Next
  PROVE  Changes \/ UNCHANGED data
<1>1. CASE Project
  BY Zenon, <1>1 DEF Project, ListPage, StartPage, TakeSkill, PostNodes, PostEdges, LoseChunk, FailSkill,
         NextPage,
       EndProjection, BreakProjection
<1>2. CASE Rebuild
  BY Zenon, <1>2 DEF Rebuild, ReadMewhois, ReadMeip, WriteFile, Import, ImportFails, StartService, StartFails
<1>3. CASE Commands
  BY Zenon, <1>3 DEF Commands, StartProjection, BeginExport, StopService, StopFails
<1>4. CASE Environment
  BY Zenon, <1>4 DEF Environment, Changes, ProjectionDies, RebuildDies, OperatorStarts
<1> QED BY <1>1, <1>2, <1>3, <1>4 DEF Next

(* A change keeps the types of the data. *)
LEMMA DataStep ==
  ASSUME TypeInv, Next
  PROVE  Data' /\ order' \in SetToSeqs(Skills)
<1> USE DEF TypeInv, Data
<1>1. CASE UNCHANGED data
  BY <1>1 DEF data
<1>2. CASE \E s \in Skills, found \in SUBSET Indicators : Scan(s, found)
  BY <1>2 DEF Scan
<1>3. CASE \E s \in Skills, r \in Registries : Seed(s, r)
  BY <1>3 DEF Seed
<1>4. CASE \E i \in Indicators, x \in Targets : Enrich(i, x)
  BY <1>4 DEF Enrich
<1>5. CASE \E o \in SetToSeqs(Skills) : Reorder(o)
  BY <1>5 DEF Reorder
<1> QED BY <1>1, <1>2, <1>3, <1>4, <1>5, DataKept DEF Changes

(* The bounds hold, however many changes and mishaps they allow. *)
LEMMA CountsStep ==
  ASSUME TypeInv, Next
  PROVE  Counts'
<1>1. UNCHANGED changes \/ (changes < MaxChanges /\ changes' = changes + 1)
  <2>1. CASE Project
    BY Zenon, <2>1 DEF Project, ListPage, StartPage, TakeSkill, PostNodes, PostEdges, LoseChunk, FailSkill,
           NextPage,
       EndProjection, BreakProjection, past
  <2>2. CASE Rebuild
    BY Zenon, <2>2 DEF Rebuild, ReadMewhois, ReadMeip, WriteFile, Import, ImportFails, StartService, StartFails, past
  <2>3. CASE Commands
    BY Zenon, <2>3 DEF Commands, StartProjection, BeginExport, StopService, StopFails, past
  <2>4. CASE Environment
    BY Zenon, <2>4 DEF Environment, Scan, Seed, Enrich, Reorder, Change, ProjectionDies, RebuildDies,
       OperatorStarts, past
  <2> QED BY <2>1, <2>2, <2>3, <2>4 DEF Next
<1>2. UNCHANGED mishaps \/ (mishaps < MaxMishaps /\ mishaps' = mishaps + 1)
  <2>1. CASE Project
    BY Zenon, <2>1 DEF Project, ListPage, StartPage, TakeSkill, PostNodes, PostEdges, LoseChunk, FailSkill,
           NextPage,
       EndProjection, BreakProjection, RequestFails, Mishap, past
  <2>2. CASE Rebuild
    BY Zenon, <2>2 DEF Rebuild, ReadMewhois, ReadMeip, WriteFile, Import, ImportFails, StartService, StartFails,
           Mishap, past
  <2>3. CASE Commands
    BY Zenon, <2>3 DEF Commands, StartProjection, BeginExport, StopService, StopFails, Mishap, past
  <2>4. CASE Environment
    BY Zenon, <2>4 DEF Environment, Scan, Seed, Enrich, Reorder, Change, ProjectionDies, RebuildDies,
       OperatorStarts, Mishap, past
  <2> QED BY <2>1, <2>2, <2>3, <2>4 DEF Next
<1> QED BY <1>1, <1>2, BoundsAssumption DEF TypeInv, Counts

(* Flags stay flags. *)
LEMMA FlagsStep ==
  ASSUME TypeInv, Next
  PROVE  Flags'
<1>0. Flags
  BY DEF TypeInv
<1> USE DEF Flags, data, graph, projection, rebuild, past
<1>1. CASE ListPage \/ StartPage \/ NextPage \/ EndProjection \/ BreakProjection
  <2>1. CASE ListPage \/ StartPage \/ NextPage
    BY Zenon, <1>0, <2>1 DEF ListPage, StartPage, NextPage
  <2>2. CASE EndProjection
    BY Zenon, <1>0, <2>2 DEF EndProjection, LeaveProjection
  <2>3. CASE BreakProjection
    BY Zenon, <1>0, <2>3 DEF BreakProjection, LeaveProjection
  <2> QED BY <1>1, <2>1, <2>2, <2>3
<1>5. ASSUME NEW w \in Workers, NEW s \in queue, TakeSkill(w, s) PROVE Flags'
  BY Zenon, <1>0, <1>5 DEF TakeSkill
<1>6. ASSUME NEW w \in Workers, PostNodes(w) \/ PostEdges(w) \/ LoseChunk(w) \/ FailSkill(w) PROVE Flags'
  <2>1. Merged(w) \in {"no", "projected", "imported", "mixed"}
    BY <1>0 DEF Merged
  <2>2. filled' = Merged(w) \/ filled' = filled
    BY <1>6 DEF PostNodes, PostEdges, LoseChunk, FailSkill
  <2>3. filled' \in {"no", "projected", "imported", "mixed"}
    BY <1>0, <2>1, <2>2
  <2> QED BY Zenon, <1>0, <1>6, <2>3 DEF PostNodes, PostEdges, LoseChunk, FailSkill
<1>2. CASE Rebuild
  <2>1. CASE ReadMewhois \/ ReadMeip \/ StartService \/ StartFails
    BY Zenon, <1>0, <2>1 DEF ReadMewhois, ReadMeip, StartService, StartFails
  <2>2. ASSUME NEW n \in 1 .. Len(Files), WriteFile(n) PROVE Flags'
    BY Zenon, <1>0, <2>2 DEF WriteFile
  <2>3. CASE Import
    BY Zenon, <1>0, <2>3 DEF Import
  <2>4. CASE ImportFails
    BY Zenon, <1>0, <2>4 DEF ImportFails
  <2> QED BY Zenon, <1>2, <2>1, <2>2, <2>3, <2>4 DEF Rebuild
<1>3. CASE Commands
  <2>1. ASSUME NEW reset \in BOOLEAN, NEW a \in BOOLEAN, StartProjection(reset, a) PROVE Flags'
    BY Zenon, <1>0, <2>1 DEF StartProjection
  <2>2. ASSUME NEW reuse \in BOOLEAN, BeginExport(reuse) PROVE Flags'
    BY Zenon, <1>0, <2>2 DEF BeginExport
  <2>3. CASE StopService
    BY Zenon, <1>0, <2>3 DEF StopService
  <2>4. CASE StopFails
    BY <1>0, <2>4 DEF StopFails
  <2> QED BY Zenon, <1>3, <2>1, <2>2, <2>3, <2>4 DEF Commands
<1>4. CASE Environment
  <2>1. CASE Changes
    <3>1. UNCHANGED <<up, broken, graph, projection, rebuild, whole>>
      BY <2>1, ChangesAre
    <3> QED BY <1>0, <2>1, <3>1, ChangesAre
  <2>2. CASE ProjectionDies
    BY Zenon, <1>0, <2>2 DEF ProjectionDies, LeaveProjection
  <2>3. CASE RebuildDies
    BY Zenon, <1>0, <2>3 DEF RebuildDies, LeaveRebuild
  <2>4. CASE OperatorStarts
    BY Zenon, <1>0, <2>4 DEF OperatorStarts
  <2> QED BY Zenon, <1>4, <2>1, <2>2, <2>3, <2>4 DEF Environment, Changes
<1> QED BY <1>1, <1>2, <1>3, <1>4, <1>5, <1>6 DEF Next, Project

-----------------------------------------------------------------------------
(* The types of the graph, of project-graph and of rebuild-graph-bulk *)

(* The graph is emptied, or one of three actions fills it. *)
LEMMA GraphMoves ==
  ASSUME Next
  PROVE  \/ UNCHANGED graph
         \/ nodes' = {} /\ edges' = {}
         \/ \E w \in Workers : PostNodes(w) \/ PostEdges(w)
         \/ Import
<1>1. CASE Project
  BY Zenon, <1>1 DEF Project, ListPage, StartPage, TakeSkill, LoseChunk, FailSkill, NextPage, EndProjection,
       BreakProjection
<1>2. CASE ReadMewhois \/ ReadMeip \/ (\E n \in 1 .. Len(Files) : WriteFile(n)) \/ Import \/ StartService \/ StartFails
  BY Zenon, <1>2 DEF ReadMewhois, ReadMeip, WriteFile, StartService, StartFails
<1>3. CASE ImportFails
  <2>1. PICK g \in {[nodes |-> nodes, edges |-> edges], Empty} : nodes' = g.nodes /\ edges' = g.edges
    BY <1>3 DEF ImportFails
  <2> QED BY <2>1 DEF Empty, graph
<1>4. ASSUME NEW reset, NEW a, StartProjection(reset, a)
      PROVE  UNCHANGED graph \/ (nodes' = {} /\ edges' = {})
  BY <1>4 DEF StartProjection, graph
<1>5. CASE (\E reuse \in BOOLEAN : BeginExport(reuse)) \/ StopService \/ StopFails
  BY Zenon, <1>5 DEF BeginExport, StopService, StopFails
<1>6. CASE Changes \/ ProjectionDies \/ OperatorStarts
  BY Zenon, <1>6 DEF Changes, Scan, Seed, Enrich, Reorder, Change, ProjectionDies, OperatorStarts
<1>7. CASE RebuildDies
  BY <1>7 DEF RebuildDies, graph
<1> QED BY Zenon, <1>1, <1>2, <1>3, <1>4, <1>5, <1>6, <1>7 DEF Next, Rebuild, Commands, Environment, Changes

(* No edge gets into the graph without both ends. *)
LEMMA GraphTypeStep ==
  ASSUME TypeInv, Next
  PROVE  GraphType'
<1>0. GraphType /\ Hands /\ Bundles
  BY DEF TypeInv
<1>1. CASE UNCHANGED graph
  BY <1>0, <1>1 DEF GraphType, graph
<1>2. CASE nodes' = {} /\ edges' = {}
  BY <1>2 DEF GraphType
<1>3. ASSUME NEW w \in Workers, PostNodes(w) PROVE GraphType'
  BY <1>0, <1>3 DEF PostNodes, GraphType, Hands
<1>4. ASSUME NEW w \in Workers, PostEdges(w) PROVE GraphType'
  BY <1>0, <1>4 DEF PostEdges, GraphType, Between
<1>5. CASE Import
  <2> DEFINE N == Labelled(FromFiles(NodeFiles), "ASN")
  <2>1. NodeFiles \subseteq DOMAIN bundle
    <3>1. \A m \in 1 .. 9 : Files[m] \in DOMAIN bundle
      BY <1>0, <1>5, FilesAre DEF Import, Bundles, Complete
    <3> QED BY <3>1, FilesAre DEF NodeFiles
  <2>2. FromFiles(NodeFiles) \subseteq Ids
    BY <1>0, <2>1 DEF Bundles, FromFiles
  <2>4. N \subseteq Node
    BY <2>2, LabelIs DEF Labelled
  <2>3. nodes' = N /\ edges' \subseteq N \X N
    BY <1>5 DEF Import, Loaded, Between
  <2> QED BY <2>3, <2>4 DEF GraphType
<1> QED BY <1>1, <1>2, <1>3, <1>4, <1>5, GraphMoves

(* The page and the queue are project-graph's. *)
LEMMA PagingMoves ==
  ASSUME Next
  PROVE  \/ UNCHANGED <<ppc, all, page, next, queue>>
         \/ LeaveProjection
         \/ ListPage \/ StartPage \/ NextPage
         \/ \E reset, a \in BOOLEAN : StartProjection(reset, a)
         \/ \E w \in Workers, s \in queue : TakeSkill(w, s)
<1> USE DEF projection
<1>1. CASE Project
  BY Zenon, <1>1 DEF Project, PostNodes, PostEdges, LoseChunk, FailSkill, EndProjection, BreakProjection
<1>2. CASE Rebuild
  BY Zenon, <1>2 DEF Rebuild, ReadMewhois, ReadMeip, WriteFile, Import, ImportFails, StartService, StartFails
<1>3. CASE Commands
  BY Zenon, <1>3 DEF Commands, BeginExport, StopService, StopFails
<1>4. CASE Environment
  BY Zenon, <1>4 DEF Environment, Scan, Seed, Enrich, Reorder, Change, ProjectionDies, RebuildDies,
         OperatorStarts
<1> QED BY <1>1, <1>2, <1>3, <1>4 DEF Next

(* The page stays within the listing, since has_next is kept true to it. *)
LEMMA PagingStep ==
  ASSUME TypeInv, Next
  PROVE  Paging'
<1>0. Paging /\ order \in SetToSeqs(Skills)
  BY DEF TypeInv
<1>1. Len(order) = Cardinality(Skills) /\ Cardinality(Skills) \in Nat
  BY <1>0, Listing
<1>2. CASE UNCHANGED <<ppc, all, page, next, queue>>
  BY <1>0, <1>2 DEF Paging
<1>3. CASE LeaveProjection \/ \E reset, a \in BOOLEAN : StartProjection(reset, a)
  BY <1>0, <1>1, <1>3 DEF LeaveProjection, StartProjection, Paging
<1>4. CASE ListPage
  <2>1. queue' \subseteq Skills
    BY <1>0, <1>4, Listing DEF ListPage, PageOf
  <2> QED BY <1>0, <1>1, <1>4, <2>1 DEF ListPage, Paging
<1>5. CASE StartPage
  BY <1>0, <1>5 DEF StartPage, Paging
<1>6. CASE NextPage
  <2>1. CASE next
    <3>1. (page + 1) * PageSize < Cardinality(Skills) /\ page \in Nat
      BY <1>0, <1>1, <1>6, <2>1 DEF NextPage, Paging
    <3>2. page + 1 <= (page + 1) * PageSize
      BY <3>1, BoundsAssumption
    <3>3. (page + 1) * PageSize \in Nat
      BY <3>1, BoundsAssumption
    <3>4. page + 1 \in 0 .. Cardinality(Skills)
      BY <1>1, <3>1, <3>2, <3>3
    <3> QED BY <1>0, <1>6, <2>1, <3>4 DEF NextPage, Paging
  <2>2. CASE ~next
    BY <1>0, <1>6, <2>2 DEF NextPage, Paging
  <2> QED BY <2>1, <2>2
<1>7. CASE \E w \in Workers, s \in queue : TakeSkill(w, s)
  BY <1>0, <1>7 DEF TakeSkill, Paging
<1> QED BY <1>2, <1>3, <1>4, <1>5, <1>6, <1>7, PagingMoves

-----------------------------------------------------------------------------
(* Workers and bundles *)

(* What happens to workers: nothing, the end of all, a new skill, or one goes on. *)
LEMMA HandsMoves ==
  ASSUME Next
  PROVE  \/ /\ UNCHANGED <<wpc, payload>> /\ old' \in {old, Busy}
            /\ ppc' = ppc \/ ppc' = "page" \/ ppc # "page" \/ Busy = {}
         \/ LeaveProjection
         \/ \E w \in Workers, s \in queue : TakeSkill(w, s)
         \/ \E w \in Workers :
              /\ ppc' = ppc /\ wpc[w] # "free"
              /\ \/ Finish(w)
                 \/ wpc' = [wpc EXCEPT ![w] = "edges"] /\ UNCHANGED <<payload, old>>
<1> USE DEF projection, past
<1>1. CASE ListPage \/ StartPage \/ NextPage \/ EndProjection \/ BreakProjection
  <2>1. CASE ListPage
    BY <2>1 DEF ListPage
  <2>2. CASE StartPage
    BY <2>2 DEF StartPage
  <2>3. CASE NextPage
    BY <2>3 DEF NextPage
  <2> QED BY <1>1, <2>1, <2>2, <2>3 DEF EndProjection, BreakProjection
<1>2. ASSUME NEW w \in Workers, PostNodes(w) \/ PostEdges(w) \/ LoseChunk(w) \/ FailSkill(w)
      PROVE  \E v \in Workers :
              /\ ppc' = ppc /\ wpc[v] # "free"
              /\ \/ Finish(v)
                 \/ wpc' = [wpc EXCEPT ![v] = "edges"] /\ UNCHANGED <<payload, old>>
  BY <1>2 DEF PostNodes, PostEdges, LoseChunk, FailSkill
<1>3. CASE Rebuild
  BY <1>3 DEF Rebuild, ReadMewhois, ReadMeip, WriteFile, Import, ImportFails, StartService, StartFails
<1>4. CASE Commands
  <2>1. ASSUME NEW reset, NEW a, StartProjection(reset, a) PROVE UNCHANGED <<wpc, payload, old>> /\ ppc # "page"
    BY <2>1 DEF StartProjection
  <2>2. CASE (\E reuse \in BOOLEAN : BeginExport(reuse)) \/ StopService \/ StopFails
    BY <2>2 DEF BeginExport, StopService, StopFails
  <2> QED BY <1>4, <2>1, <2>2 DEF Commands
<1>5. CASE Changes
  <2>1. Change /\ UNCHANGED <<ppc, wpc, payload>>
    BY Zenon, <1>5 DEF Changes, Scan, Seed, Enrich, Reorder, Change
  <2> QED BY <2>1 DEF Change
<1>6. CASE ProjectionDies \/ RebuildDies \/ OperatorStarts
  BY <1>6 DEF ProjectionDies, RebuildDies, OperatorStarts
<1> QED BY <1>1, <1>2, <1>3, <1>4, <1>5, <1>6 DEF Next, Project, Environment, Changes

(* The nodes and edges of every payload have ids. *)
LEMMA HandsStep ==
  ASSUME TypeInv, Next
  PROVE  Hands'
<1>0. Hands /\ Data /\ queue \subseteq Skills
  BY DEF TypeInv, Paging
<1> USE <1>0
<1>1. CASE /\ UNCHANGED <<wpc, payload>> /\ old' \in {old, Busy}
           /\ ppc' = ppc \/ ppc' = "page" \/ ppc # "page" \/ Busy = {}
  BY <1>1 DEF Hands, Busy
<1>2. CASE LeaveProjection
  BY <1>2 DEF LeaveProjection, Hands, Busy, Empty
<1>3. ASSUME NEW w \in Workers, NEW s \in queue, TakeSkill(w, s) PROVE Hands'
  <2>1. s \in Skills
    OBVIOUS
  <2>2. Payload(s).nodes \subseteq Node /\ Payload(s).edges \subseteq Ids \X Ids
    BY <2>1, PayloadIs
  <2>5. payload' = [payload EXCEPT ![w] = Payload(s)]
    BY <1>3 DEF TakeSkill
  <2>6. wpc' = [wpc EXCEPT ![w] = "nodes"] /\ old' = old /\ ppc' = "page" /\ wpc[w] = "free"
    BY <1>3 DEF TakeSkill, past
  <2>7. \A v \in Workers : payload'[v].nodes \subseteq Node /\ payload'[v].edges \subseteq Ids \X Ids
    BY <2>2, <2>5 DEF Hands
  <2> QED BY <2>5, <2>6, <2>7 DEF Hands, Busy
<1>4. ASSUME NEW w \in Workers, ppc' = ppc, wpc[w] # "free", Finish(w) PROVE Hands'
  <2>1. \A v \in Workers : payload'[v].nodes \subseteq Node /\ payload'[v].edges \subseteq Ids \X Ids
    BY <1>4 DEF Finish, Hands, Empty
  <2> QED BY <1>4, <2>1 DEF Finish, Hands, Busy
<1>5. ASSUME NEW w \in Workers, ppc' = ppc, wpc[w] # "free", wpc' = [wpc EXCEPT ![w] = "edges"],
             UNCHANGED <<payload, old>>
      PROVE  Hands'
  BY <1>5 DEF Hands, Busy
<1>6. CASE \E w \in Workers : /\ ppc' = ppc /\ wpc[w] # "free"
                             /\ \/ Finish(w)
                                \/ wpc' = [wpc EXCEPT ![w] = "edges"] /\ UNCHANGED <<payload, old>>
  BY <1>4, <1>5, <1>6
<1>7. CASE \E w \in Workers, s \in queue : TakeSkill(w, s)
  BY <1>3, <1>7
<1> QED BY Zenon, <1>1, <1>2, <1>6, <1>7, HandsMoves

(* The bundle and the tables are rebuild-graph-bulk's. *)
LEMMA RebuildMoves ==
  ASSUME Next
  PROVE  \/ UNCHANGED rebuild /\ (up' = up \/ bpc = "idle")
         \/ LeaveRebuild /\ UNCHANGED bundle
         \/ \E reuse \in BOOLEAN : BeginExport(reuse)
         \/ ReadMewhois \/ ReadMeip \/ StopService \/ Import \/ ImportFails
         \/ \E n \in 1 .. Len(Files) : WriteFile(n)
         \/ LeaveRebuild /\ bpc \in ToSet(Files) /\ Put(bpc, {})
<1>1. CASE Project
  BY Zenon, <1>1 DEF Project, ListPage, StartPage, TakeSkill, PostNodes, PostEdges, LoseChunk, FailSkill,
         NextPage,
       EndProjection, BreakProjection
<1>2. CASE Rebuild
  BY Zenon, <1>2 DEF Rebuild, StartService, StartFails
<1>3. CASE Commands
  BY Zenon, <1>3 DEF Commands, StartProjection, StopFails
<1>4. CASE Environment
  <2>1. CASE RebuildDies
    BY Zenon, <2>1 DEF RebuildDies
  <2> QED BY Zenon, <1>4, <2>1 DEF Environment, Scan, Seed, Enrich, Reorder, Change, ProjectionDies,
         OperatorStarts
<1> QED BY <1>1, <1>2, <1>3, <1>4 DEF Next

(* What is imported stays complete until it is loaded. *)
LEMMA BundlesStep ==
  ASSUME TypeInv, Next
  PROVE  Bundles'
<1>0. Bundles /\ Data
  BY DEF TypeInv
<1> USE <1>0, FilesAre
<1>1. CASE UNCHANGED rebuild /\ (up' = up \/ bpc = "idle")
  BY <1>1 DEF rebuild, Bundles, Complete
<1>2. CASE LeaveRebuild /\ UNCHANGED bundle
  BY <1>2 DEF LeaveRebuild, Bundles, NoTables, BPC
<1>3. CASE \E reuse \in BOOLEAN : BeginExport(reuse)
  BY <1>3 DEF BeginExport, Bundles, NoTables, BPC, Data
<1>4. CASE ReadMewhois \/ ReadMeip
  <2>1. /\ Told(Registrars) \in SUBSET (Indicators \X Registrars)
        /\ Told(Asns) \in SUBSET (Indicators \X Asns)
    BY DEF Told, Data, Targets
  <2>2. CASE ReadMewhois
    BY <2>1, <2>2 DEF ReadMewhois, Bundles, BPC
  <2>3. CASE ReadMeip
    BY <2>1, <2>3 DEF ReadMeip, Bundles, BPC, NodeFiles
  <2> QED BY <1>4, <2>2, <2>3
<1>5. CASE StopService
  BY <1>5 DEF StopService, Bundles, BPC, Complete
<1>6. CASE Import \/ ImportFails
  BY <1>6 DEF Import, ImportFails, Bundles, BPC
<1>7. ASSUME NEW n \in 1 .. Len(Files), WriteFile(n) PROVE Bundles'
  <2>1. Files[n] \in NodeFiles => Content(Files[n]) \subseteq Ids
    <3>1. /\ tmp.emits \in [Skills -> SUBSET Indicators] /\ tmp.mewhois \subseteq Indicators \X Registrars
          /\ tmp.meip \subseteq Indicators \X Asns
      BY DEF Bundles
    <3>2. Content("skills") \subseteq Ids /\ Content("registries") \subseteq Ids
      BY DEF Content, Ids
    <3>3. Content("indicators") \subseteq Ids
      BY <3>1 DEF Content, Ids
    <3>4. Content("asns") \subseteq Ids /\ Content("registrars") \subseteq Ids
      BY <3>1 DEF Content, Ids, Targets
    <3> QED BY <3>2, <3>3, <3>4 DEF NodeFiles
  <2>2. bundle' = [g \in (DOMAIN bundle) \cup {Files[n]} |-> IF g = Files[n] THEN Content(Files[n]) ELSE bundle[g]]
    BY <1>7 DEF WriteFile, Put
  <2>3. /\ DOMAIN bundle' \subseteq ToSet(Files)
        /\ \A f \in DOMAIN bundle' : f \in NodeFiles => bundle'[f] \subseteq Ids
    <3>1. Files[n] \in ToSet(Files)
      BY DEF NodeFiles, EdgeFiles
    <3> QED BY <2>1, <2>2, <3>1 DEF Bundles
  <2>4. bpc' \in BPC \ {"import"} /\ tmp' \in {tmp, NoTables}
    <3>1. \A m \in 1 .. Len(Files) : Files[m] \in NodeFiles \cup EdgeFiles
      BY DEF NodeFiles, EdgeFiles
    <3>2. n < Len(Files) => n + 1 \in 1 .. Len(Files)
      OBVIOUS
    <3>3. "import" \notin NodeFiles \cup EdgeFiles
      BY DEF NodeFiles, EdgeFiles
    <3>4. bpc' = "idle" \/ bpc' \in NodeFiles \cup EdgeFiles
      BY <1>7, <3>1, <3>2 DEF WriteFile, LeaveRebuild
    <3>5. tmp' \in {tmp, NoTables}
      BY <1>7 DEF WriteFile, LeaveRebuild
    <3> QED BY <3>3, <3>4, <3>5 DEF BPC
  <2> QED BY <2>3, <2>4 DEF Bundles, NoTables
<1>8. CASE LeaveRebuild /\ bpc \in ToSet(Files) /\ Put(bpc, {})
  <2>1. /\ DOMAIN bundle' \subseteq ToSet(Files)
        /\ \A f \in DOMAIN bundle' : f \in NodeFiles => bundle'[f] \subseteq Ids
    BY <1>8 DEF Put, Bundles
  <2> QED BY <1>8, <2>1 DEF LeaveRebuild, Bundles, NoTables, BPC
<1> QED BY <1>1, <1>2, <1>3, <1>4, <1>5, <1>6, <1>7, <1>8, RebuildMoves

(* Every step keeps the strengthened type invariant. *)
LEMMA TypeStep == TypeInv /\ [Next]_vars => TypeInv'
<1> SUFFICES ASSUME TypeInv, [Next]_vars PROVE TypeInv'
  OBVIOUS
<1>1. CASE UNCHANGED vars
  BY <1>1 DEF vars, data, graph, projection, rebuild, past, TypeInv, Data, Flags, Counts, GraphType,
         Paging, Hands,
       Busy, Bundles, Complete
<1>2. CASE Next
  BY <1>2, DataStep, FlagsStep, CountsStep, GraphTypeStep, PagingStep, HandsStep, BundlesStep DEF TypeInv
<1> QED BY <1>1, <1>2

(* Every variable keeps its type, no edge lacks an end, and the service does *)
(* not run during an import.                                                 *)
THEOREM TypeCorrect == Spec => []TypeOK
<1>1. TypeInv => TypeOK
  BY DEF TypeInv, Data, Flags, Counts, GraphType, Paging, Hands, Bundles, TypeOK
<1> QED BY TypeInit, TypeStep, <1>1, PTL DEF Spec

-----------------------------------------------------------------------------
(* What fills the graph is what the database has *)

(* A payload that is not older than the last change is what a skill has.     *)
Hand(w) == wpc[w] # "free" /\ w \notin old => \E s \in Skills : payload[w] = Payload(s)

(* The graph that the database calls for changes with the database only. *)
LEMMA CallsKept ==
  ASSUME UNCHANGED data
  PROVE  /\ \A s : Payload(s)' = Payload(s)
         /\ Projected' = Projected /\ Imported' = Imported
         /\ Truth(facts)' = Truth(facts)
BY DEF data, Payload, Projected, Imported, Truth

(* Payloads grow old by changes only. *)
LEMMA HandStep ==
  ASSUME TypeInv, Next, NEW v \in Workers, Hand(v)
  PROVE  Hand(v)'
<1>0. Hands
  BY DEF TypeInv
<1>1. CASE Changes
  BY <1>0, <1>1, ChangesAre DEF Hand, projection, Hands, Busy
<1>2. CASE UNCHANGED data
  <2>1. \A s : Payload(s)' = Payload(s)
    BY <1>2, CallsKept
  <2>2. CASE UNCHANGED <<wpc, payload>> /\ old' \in {old, Busy}
    BY <1>0, <2>1, <2>2 DEF Hand, Busy
  <2>3. CASE LeaveProjection
    BY <2>3 DEF LeaveProjection, Hand
  <2>4. ASSUME NEW w \in Workers, NEW s \in queue, TakeSkill(w, s) PROVE Hand(v)'
    <3>1. s \in Skills
      BY DEF TypeInv, Paging
    <3>2. payload'[w] = Payload(s) /\ \A u \in Workers \ {w} : payload'[u] = payload[u] /\ wpc'[u] = wpc[u]
      BY <1>0, <2>4 DEF TakeSkill, Hands
    <3>3. old' = old
      BY <2>4 DEF TakeSkill, past
    <3> QED BY <2>1, <3>1, <3>2, <3>3 DEF Hand
  <2>5. CASE \E w \in Workers :
              /\ ppc' = ppc /\ wpc[w] # "free"
              /\ \/ Finish(w)
                 \/ wpc' = [wpc EXCEPT ![w] = "edges"] /\ UNCHANGED <<payload, old>>
    BY <1>0, <2>1, <2>5 DEF Hand, Finish, Hands
  <2> QED BY <2>2, <2>3, <2>4, <2>5, HandsMoves
<1> QED BY <1>1, <1>2, DataKept

(* What a worker merges is of the truth. *)
LEMMA Posted ==
  ASSUME TypeInv, NEW w \in Workers, wpc[w] # "free", Hand(w), w \notin old
  PROVE  /\ payload[w].nodes \subseteq Projected.nodes
         /\ payload[w].edges \subseteq Truth(facts \ raw)
         /\ payload[w].edges \subseteq Ids \X Ids
         /\ \A e \in payload[w].edges : /\ Label(e[1], "Asn") \in payload[w].nodes
                                       /\ Label(e[2], "Asn") \in payload[w].nodes
<1>1. PICK s \in Skills : payload[w] = Payload(s)
  BY DEF Hand
<1>2. Data
  BY DEF TypeInv
<1> QED BY <1>1, <1>2, PayloadIs

LEMMA ProjectedIs ==
  ASSUME Data
  PROVE  \E X \in SUBSET Ids : Projected.nodes = Labelled(X, "Asn")
<1>1. Truth(facts \ raw) \subseteq Ids \X Ids
  BY TruthIs
<1>2. EndsOf(Truth(facts \ raw)) \subseteq Ids
  BY <1>1 DEF EndsOf
<1>3. Skills \cup EndsOf(Truth(facts \ raw)) \in SUBSET Ids
  BY <1>2 DEF Ids
<1> QED BY <1>3 DEF Projected

(* Edges are drawn only between nodes of one label, and to both ends that   *)
(* the worker has merged.                                                   *)
LEMMA Posting ==
  ASSUME TypeInv, NEW w \in Workers, PostEdges(w), Hand(w), w \notin old
  PROVE  /\ edges' = edges \cup Between(nodes, payload[w].edges)
         /\ nodes \subseteq Projected.nodes => edges' \subseteq edges \cup Projected.edges
         /\ payload[w].nodes \subseteq nodes => Linked(payload[w].edges, "Asn") \subseteq edges'
<1> DEFINE E == payload[w].edges
<1>1. edges' = edges \cup Between(nodes, E) /\ wpc[w] # "free"
  BY DEF PostEdges
<1>2. /\ E \subseteq Truth(facts \ raw) /\ E \in SUBSET (Ids \X Ids)
      /\ \A e \in E : Label(e[1], "Asn") \in payload[w].nodes /\ Label(e[2], "Asn") \in payload[w].nodes
  BY <1>1, Posted
<1>3. Linked(E, "Asn") \subseteq Projected.edges
  BY <1>2 DEF Linked, Projected
<1>4. PICK X \in SUBSET Ids : Projected.nodes = Labelled(X, "Asn")
  BY ProjectedIs DEF TypeInv
<1> HIDE DEF E
<1>5. nodes \subseteq Projected.nodes => Between(nodes, E) \subseteq Linked(E, "Asn")
  BY <1>2, <1>4, Adding
<1>6. payload[w].nodes \subseteq nodes => Linked(E, "Asn") \subseteq Between(nodes, E)
  BY <1>2, Adding
<1> QED BY <1>1, <1>3, <1>5, <1>6 DEF E

-----------------------------------------------------------------------------
(* A whole bundle of the present data *)

Rel(target) == {f \in facts : f[2] \in target /\ \E s \in Skills : f[1] \in emits[s]}

(* What a file has to contain. *)
Right(f) ==
  CASE f = "skills"          -> Skills
    [] f = "registries"      -> Registries
    [] f = "indicators"      -> UNION {emits[s] : s \in Skills}
    [] f = "asns"            -> {e[2] : e \in Rel(Asns)}
    [] f = "registrars"      -> {e[2] : e \in Rel(Registrars)}
    [] f = "seen_in"         -> entries
    [] f = "emits"           -> UNION {{<<s, i>> : i \in emits[s]} : s \in Skills}
    [] f = "announced_by"    -> Rel(Asns)
    [] f = "registered_with" -> Rel(Registrars)

WrittenUpTo(n) ==
  \A m \in 1 .. n : Files[m] \in DOMAIN bundle /\ bundle[Files[m]] = Right(Files[m])

(* As long as nothing changes, the export has what the database has.         *)
BundleInv ==
  /\ whole => bpc \in {"idle", "import", "start"}
  /\ ~aged =>
       /\ bpc \in {"mewhois", "meip"} => tmp.emits = emits
       /\ bpc = "meip" => tmp.mewhois = Rel(Registrars)
       /\ bpc \in ToSet(Files) => tmp.emits = emits /\ tmp.mewhois = Rel(Registrars) /\ tmp.meip = Rel(Asns)
       /\ \A n \in 1 .. 9 : bpc = Files[n] => WrittenUpTo(n - 1)
       /\ whole => WrittenUpTo(9)

(* Unless it is a change, a step of the others leaves the export alone.      *)
LEMMA ExportMoves ==
  ASSUME Next
  PROVE  \/ Changes
         \/ UNCHANGED data /\ UNCHANGED <<aged, whole>>
            /\ \/ UNCHANGED rebuild
               \/ bpc' \in {"idle", "import", "start"} /\ bpc \in {"idle", "import", "start"} /\ UNCHANGED bundle
               \/ bpc' = "idle" /\ ~(bpc \in {"idle", "import", "start"})
         \/ \E reuse \in BOOLEAN : BeginExport(reuse)
         \/ ReadMewhois \/ ReadMeip
         \/ \E n \in 1 .. Len(Files) : WriteFile(n)
<1> USE DEF past
<1>1. CASE Project
  BY Zenon, <1>1 DEF Project, ListPage, StartPage, TakeSkill, PostNodes, PostEdges, LoseChunk, FailSkill,
         NextPage,
       EndProjection, BreakProjection
<1>2. CASE Import \/ ImportFails \/ StartService \/ StartFails
  BY <1>2 DEF Import, ImportFails, StartService, StartFails, LeaveRebuild, rebuild
<1>3. CASE (\E reset, a \in BOOLEAN : StartProjection(reset, a)) \/ StopService \/ StopFails
  BY <1>3 DEF StartProjection, StopService, StopFails, rebuild
<1>4. CASE ProjectionDies \/ OperatorStarts
  BY Zenon, <1>4 DEF ProjectionDies, OperatorStarts
<1>5. CASE RebuildDies
  BY <1>5, FilesAre DEF RebuildDies, LeaveRebuild, NodeFiles, EdgeFiles
<1>6. Rebuild => \/ Import \/ ImportFails \/ StartService \/ StartFails
                 \/ ReadMewhois \/ ReadMeip \/ \E n \in 1 .. Len(Files) : WriteFile(n)
  BY Zenon DEF Rebuild
<1>7. Commands => \/ (\E reset, a \in BOOLEAN : StartProjection(reset, a)) \/ StopService \/ StopFails
                  \/ \E reuse \in BOOLEAN : BeginExport(reuse)
  BY Zenon DEF Commands
<1>8. Environment => Changes \/ ProjectionDies \/ OperatorStarts \/ RebuildDies
  BY Zenon DEF Environment, Changes
<1> QED BY <1>1, <1>2, <1>3, <1>4, <1>5, <1>6, <1>7, <1>8 DEF Next

(* An export that no change disturbs stays right, file by file. *)
LEMMA BundleStep ==
  ASSUME TypeInv, BundleInv, Next
  PROVE  BundleInv'
<1> USE FilesAre
<1>0. /\ bpc \in BPC /\ Bundles
      /\ \A f : UNCHANGED data => Right(f)' = Right(f)
  BY DEF TypeInv, Bundles, Right, Rel, data
<1>10. /\ \A n \in 1 .. 9 : Files[n] \in ToSet(Files)
       /\ \A b \in {"idle", "import", "start", "mewhois", "meip"} : b \notin ToSet(Files)
  BY DEF NodeFiles, EdgeFiles
<1>1. CASE Changes
  BY <1>1, ChangesAre DEF BundleInv, rebuild
<1>2. CASE UNCHANGED data /\ UNCHANGED <<aged, whole>> /\ UNCHANGED rebuild
  BY <1>0, <1>2 DEF BundleInv, WrittenUpTo, Rel, data, rebuild
<1>3. CASE /\ UNCHANGED data /\ UNCHANGED <<aged, whole>>
           /\ bpc' \in {"idle", "import", "start"} /\ bpc \in {"idle", "import", "start"} /\ UNCHANGED bundle
  BY <1>0, <1>3, <1>10 DEF BundleInv, WrittenUpTo
<1>4. CASE /\ UNCHANGED data /\ UNCHANGED <<aged, whole>>
           /\ bpc' = "idle" /\ ~(bpc \in {"idle", "import", "start"})
  BY <1>0, <1>4, <1>10 DEF BundleInv
<1>5. CASE \E reuse \in BOOLEAN : BeginExport(reuse)
  <2>1. /\ bpc' = "mewhois" /\ tmp' = [NoTables EXCEPT !.emits = emits] /\ whole' = FALSE
        /\ UNCHANGED data
    BY <1>5 DEF BeginExport
  <2>2. tmp'.emits = emits'
    BY <2>1 DEF NoTables, data
  <2> QED BY <1>10, <2>1, <2>2 DEF BundleInv
<1>6. CASE ReadMewhois
  <2>1. tmp'.emits = tmp.emits /\ tmp'.mewhois = Told(Registrars)
    BY <1>0, <1>6 DEF ReadMewhois, Bundles
  <2>2. bpc = "mewhois" /\ bpc' = "meip" /\ UNCHANGED <<data, aged, whole, bundle>>
    BY <1>6 DEF ReadMewhois, past
  <2>3. ~aged => tmp'.emits = emits' /\ tmp'.mewhois = Rel(Registrars)'
    BY <2>1, <2>2 DEF BundleInv, Told, Rel, data
  <2> QED BY <2>2, <2>3 DEF BundleInv, NodeFiles, EdgeFiles
<1>9. CASE ReadMeip
  <2>1. tmp'.emits = tmp.emits /\ tmp'.mewhois = tmp.mewhois /\ tmp'.meip = Told(Asns)
    BY <1>0, <1>9 DEF ReadMeip, Bundles
  <2>2. bpc = "meip" /\ bpc' = "skills" /\ UNCHANGED <<data, aged, whole, bundle>>
    BY <1>9 DEF ReadMeip, past
  <2>3. ~aged => tmp'.emits = emits' /\ tmp'.mewhois = Rel(Registrars)' /\ tmp'.meip = Rel(Asns)'
    BY <2>1, <2>2 DEF BundleInv, Told, Rel, data
  <2> QED BY <2>2, <2>3 DEF BundleInv, WrittenUpTo
<1>7. ASSUME NEW n \in 1 .. Len(Files), WriteFile(n) PROVE BundleInv'
  <2>1. /\ bpc = Files[n] /\ UNCHANGED <<data, aged>>
        /\ bundle' = [g \in (DOMAIN bundle) \cup {Files[n]} |-> IF g = Files[n] THEN Content(Files[n]) ELSE bundle[g]]
        /\ \/ n < 9 /\ bpc' = Files[n + 1] /\ UNCHANGED <<tmp, whole>>
           \/ n = 9 /\ bpc' = "idle" /\ whole' = TRUE
    BY <1>7 DEF WriteFile, Put, LeaveRebuild
  <2>2. ~aged => tmp.emits = emits /\ tmp.mewhois = Rel(Registrars) /\ tmp.meip = Rel(Asns) /\ WrittenUpTo(n - 1)
    BY <1>10, <2>1 DEF BundleInv
  <2>3. ~aged => Content(Files[n]) = Right(Files[n])
    BY <2>2 DEF Content, Right
  <2>4. ~aged => WrittenUpTo(n)'
    <3> SUFFICES ASSUME ~aged, NEW m \in 1 .. n
                 PROVE  Files[m] \in DOMAIN bundle' /\ bundle'[Files[m]] = Right(Files[m])'
      BY DEF WrittenUpTo
    <3>1. CASE m = n
      BY <1>0, <2>1, <2>3, <3>1
    <3>2. CASE m \in 1 .. (n - 1)
      BY <1>0, <2>1, <2>2, <3>2 DEF WrittenUpTo
    <3> QED BY <3>1, <3>2
  <2>5. ~whole
    BY <2>1 DEF BundleInv
  <2>6. CASE n = 9
    BY <1>10, <2>1, <2>4, <2>6 DEF BundleInv
  <2>7. CASE n < 9
    <3>1. bpc' = Files[n + 1] /\ \A k \in 1 .. 9 : bpc' = Files[k] => k = n + 1
      BY <2>1, <2>7
    <3>2. ~aged => tmp' = tmp /\ tmp.emits = emits' /\ tmp.mewhois = Rel(Registrars)' /\ tmp.meip = Rel(Asns)'
      BY <2>1, <2>2, <2>7 DEF Rel, data
    <3> QED BY <2>1, <2>4, <2>5, <2>7, <3>1, <3>2 DEF BundleInv
  <2> QED BY <2>6, <2>7
<1> QED BY <1>1, <1>2, <1>3, <1>4, <1>5, <1>6, <1>7, <1>9, ExportMoves
-----------------------------------------------------------------------------
(* A projection of everything that nothing disturbs *)

(* Skills that project-graph has not come to. *)
Ahead(k) ==
  \/ ppc = "list" /\ page * PageSize < k
  \/ ppc \in {"ready", "page"} /\ (page + 1) * PageSize < k

(* The graph has all of a skill. *)
Shows(s) == Payload(s).nodes \subseteq nodes /\ Linked(Payload(s).edges, "Asn") \subseteq edges

(* Where the k-th skill of the listing is. *)
Dealt(k) ==
  \/ Shows(order[k])
  \/ \E w \in Workers : wpc[w] # "free" /\ payload[w] = Payload(order[k])
  \/ ppc \in {"ready", "page"} /\ order[k] \in queue
  \/ Ahead(k)

CleanInv ==
  clean =>
    /\ ppc # "idle" /\ all /\ old = {}
    /\ nodes \subseteq Projected.nodes /\ edges \subseteq Projected.edges
    /\ \A w \in Workers : wpc[w] = "edges" => payload[w].nodes \subseteq nodes
    /\ \A k \in 1 .. Len(order) : Dealt(k)

(* No other step leaves the projection undisturbed. *)
LEMMA CleanMoves ==
  ASSUME Next, clean'
  PROVE  \/ UNCHANGED <<data, graph, projection, clean, old>>
         \/ StartProjection(TRUE, TRUE)
         \/ ListPage \/ StartPage \/ NextPage
         \/ \E w \in Workers, s \in queue : TakeSkill(w, s)
         \/ \E w \in Workers : PostNodes(w) \/ PostEdges(w)
<1> USE DEF past
<1>1. ~LeaveProjection /\ ~Changes
  BY ChangesAre DEF LeaveProjection
<1>2. Project => \/ ListPage \/ StartPage \/ NextPage
                 \/ \E w \in Workers, s \in queue : TakeSkill(w, s)
                 \/ \E w \in Workers : PostNodes(w) \/ PostEdges(w)
  BY Zenon, <1>1 DEF Project, LoseChunk, FailSkill, EndProjection, BreakProjection
<1>3. Rebuild => UNCHANGED <<data, graph, projection, clean, old>>
  BY Zenon DEF Rebuild, ReadMewhois, ReadMeip, WriteFile, Import, ImportFails, StartService, StartFails
<1>4. ASSUME NEW reset \in BOOLEAN, NEW a \in BOOLEAN, StartProjection(reset, a)
      PROVE  StartProjection(TRUE, TRUE)
  <2>1. reset /\ a
    BY <1>4 DEF StartProjection
  <2>2. reset = TRUE /\ a = TRUE
    BY <2>1
  <2> QED BY <1>4, <2>2
<1>5. CASE (\E reuse \in BOOLEAN : BeginExport(reuse)) \/ StopService \/ StopFails
  BY Zenon, <1>5 DEF BeginExport, StopService, StopFails
<1>6. ProjectionDies \/ OperatorStarts => UNCHANGED <<data, graph, projection, clean, old>>
  BY Zenon, <1>1 DEF ProjectionDies, OperatorStarts
<1>7. RebuildDies => UNCHANGED <<data, graph, projection, clean, old>>
  BY Zenon DEF RebuildDies
<1>8. Commands => \/ (\E reset, a \in BOOLEAN : StartProjection(reset, a)) \/ StopService \/ StopFails
                  \/ \E reuse \in BOOLEAN : BeginExport(reuse)
  BY Zenon DEF Commands
<1>9. Environment => Changes \/ ProjectionDies \/ OperatorStarts \/ RebuildDies
  BY Zenon DEF Environment, Changes
<1> QED BY <1>1, <1>2, <1>3, <1>4, <1>5, <1>6, <1>7, <1>8, <1>9 DEF Next

(* Pages divide the listing. *)
LEMMA PagesAre ==
  ASSUME TypeInv
  PROVE  /\ page \in Nat /\ PageSize \in Nat \ {0} /\ page * PageSize \in Nat
         /\ (page + 1) * PageSize = page * PageSize + PageSize
         /\ Len(order) = Cardinality(Skills) /\ Len(order) \in Nat
         /\ \A k \in 1 .. Len(order) : order[k] \in Skills
<1>1. Len(order) = Cardinality(Skills) /\ Cardinality(Skills) \in Nat /\ \A k \in 1 .. Len(order) : order[k] \in Skills
  BY Listing DEF TypeInv
<1>2. page \in Nat /\ PageSize \in Nat \ {0}
  BY <1>1, BoundsAssumption DEF TypeInv, Paging
<1>3. page * PageSize \in Nat /\ (page + 1) * PageSize = page * PageSize + PageSize
  BY <1>2
<1> QED BY <1>1, <1>2, <1>3

(* Every skill of an undisturbed projection is shown, at work, queued or ahead. *)
LEMMA CleanStep ==
  ASSUME TypeInv, CleanInv, Next, \A w \in Workers : Hand(w)
  PROVE  CleanInv'
<1> SUFFICES ASSUME clean'
             PROVE  CleanInv'
  BY DEF CleanInv
<1>0. /\ Hands /\ Paging
      /\ UNCHANGED data => Projected' = Projected /\ order' = order /\ \A s : Payload(s)' = Payload(s)
      /\ UNCHANGED <<data, graph>> => \A s : Shows(s)' = Shows(s)
  BY CallsKept DEF TypeInv, Shows, data, graph
<1>1. CASE UNCHANGED <<data, graph, projection, clean, old>>
  BY <1>0, <1>1 DEF CleanInv, Dealt, Ahead, data, graph, projection
<1>2. CASE StartProjection(TRUE, TRUE)
  <2>1. /\ ppc' = "list" /\ page' = 0 /\ all' = TRUE /\ nodes' = {} /\ edges' = {} /\ UNCHANGED <<data, wpc, payload, old>>
        /\ Busy = {}
    BY <1>0, <1>2 DEF StartProjection, Hands
  <2>3. old = {} /\ \A w \in Workers : wpc[w] = "free"
    BY <1>0, <2>1 DEF Hands, Busy
  <2>4. \A k \in 1 .. Len(order') : Ahead(k)'
    BY <1>0, <2>1, PagesAre DEF Ahead
  <2> QED BY <2>1, <2>3, <2>4 DEF CleanInv, Dealt
<1>3. CASE ListPage
  <2>1. /\ ppc = "list" /\ UNCHANGED <<data, graph, all, page, wpc, payload, old, clean>> /\ Busy = {}
        /\ queue' = PageOf(page)
        /\ ppc' = IF PageOf(page) = {} THEN "done" ELSE "ready"
    BY <1>0, <1>3 DEF ListPage, Hands, past
  <2>2. ASSUME NEW k \in 1 .. Len(order), Ahead(k)
        PROVE  Dealt(k)'
    <3>1. page * PageSize < k
      BY <2>1, <2>2 DEF Ahead
    <3>2. page * PageSize + 1 \in {j \in 1 .. Len(order) : page * PageSize < j /\ j <= (page + 1) * PageSize}
      BY <3>1, PagesAre
    <3>3. PageOf(page) # {}
      BY <3>2 DEF PageOf
    <3>4. k <= (page + 1) * PageSize => order[k] \in PageOf(page)
      BY <3>1 DEF PageOf
    <3>5. ~(k <= (page + 1) * PageSize) => (page + 1) * PageSize < k
      BY PagesAre
    <3> QED BY <1>0, <2>1, <3>3, <3>4, <3>5 DEF Dealt, Ahead
  <2>3. ASSUME NEW k \in 1 .. Len(order), ~Ahead(k)
        PROVE  Dealt(k)'
    <3>1. Shows(order[k])
      BY <1>0, <2>1, <2>3 DEF CleanInv, Dealt, Busy
    <3> QED BY <1>0, <2>1, <3>1 DEF Dealt
  <2> QED BY <1>0, <2>1, <2>2, <2>3 DEF CleanInv, graph
<1>4. CASE StartPage
  <2>1. /\ ppc = "ready" /\ ppc' = "page"
        /\ UNCHANGED <<data, graph, all, page, queue, wpc, payload, old, clean>>
    BY <1>4 DEF StartPage, past
  <2> QED BY <1>0, <2>1 DEF CleanInv, Dealt, Ahead, graph
<1>5. CASE NextPage
  <2>1. /\ ppc = "page" /\ queue = {} /\ Busy = {} /\ UNCHANGED <<data, graph, all, wpc, payload, old, clean>>
        /\ next => page' = page + 1 /\ ppc' = "list"
        /\ ~next => ppc' = "done"
    BY <1>5 DEF NextPage, past
  <2>2. ASSUME NEW k \in 1 .. Len(order)
        PROVE  Dealt(k)'
    <3>1. Shows(order[k]) \/ (page + 1) * PageSize < k
      BY <2>1 DEF CleanInv, Dealt, Ahead, Busy
    <3>2. CASE Shows(order[k])
      BY <1>0, <2>1, <3>2 DEF Dealt
    <3>3. CASE (page + 1) * PageSize < k
      <4>1. (page + 1) * PageSize < Cardinality(Skills)
        BY <3>3, PagesAre
      <4>2. next
        BY <1>0, <2>1, <4>1 DEF Paging, CleanInv
      <4> QED BY <2>1, <3>3, <4>2 DEF Dealt, Ahead
    <3> QED BY <3>1, <3>2, <3>3
  <2> QED BY <1>0, <2>1, <2>2 DEF CleanInv, graph
<1>6. ASSUME NEW w \in Workers, NEW s \in queue, TakeSkill(w, s) PROVE CleanInv'
  <2>1. /\ ppc = "page" /\ wpc[w] = "free" /\ queue' = queue \ {s} /\ s \in Skills
        /\ UNCHANGED <<data, graph, ppc, all, page, old, clean>>
        /\ wpc' = [wpc EXCEPT ![w] = "nodes"]
    BY <1>0, <1>6 DEF TakeSkill, past, Paging
  <2>2. payload'[w] = Payload(s) /\ \A u \in Workers \ {w} : payload'[u] = payload[u] /\ wpc'[u] = wpc[u]
    BY <1>0, <1>6 DEF TakeSkill, Hands
  <2>3. wpc'[w] = "nodes"
    BY <1>0, <2>1 DEF Hands
  <2>4. ASSUME NEW k \in 1 .. Len(order)
        PROVE  Dealt(k)'
    <3>1. CASE order[k] = s
      BY <1>0, <2>1, <2>2, <2>3, <3>1 DEF Dealt
    <3>2. CASE order[k] # s
      BY <1>0, <2>1, <2>2, <3>2 DEF CleanInv, Dealt, Ahead
    <3> QED BY <3>1, <3>2
  <2> QED BY <1>0, <2>1, <2>2, <2>3, <2>4 DEF CleanInv, graph
<1>7. ASSUME NEW w \in Workers, PostNodes(w) PROVE CleanInv'
  <2>1. /\ wpc[w] = "nodes" /\ wpc' = [wpc EXCEPT ![w] = "edges"] /\ nodes' = nodes \cup payload[w].nodes
        /\ UNCHANGED <<data, edges, ppc, all, page, queue, payload, old, clean>>
    BY <1>7 DEF PostNodes
  <2>2. \A s : Shows(s) => Shows(s)'
    BY <1>0, <2>1 DEF Shows
  <2>3. \A u \in Workers : (wpc'[u] # "free" <=> wpc[u] # "free") /\ (u # w => wpc'[u] = wpc[u])
    BY <1>0, <2>1 DEF Hands
  <2>4. payload[w].nodes \subseteq Projected.nodes
    BY <2>1, Posted DEF CleanInv
  <2>5. \A k \in 1 .. Len(order) : Dealt(k)'
    BY <1>0, <2>1, <2>2, <2>3 DEF CleanInv, Dealt, Ahead
  <2>6. nodes' \subseteq Projected'.nodes /\ edges' \subseteq Projected'.edges
    BY <1>0, <2>1, <2>4 DEF CleanInv
  <2> QED BY <1>0, <2>1, <2>3, <2>5, <2>6 DEF CleanInv
<1>8. ASSUME NEW w \in Workers, PostEdges(w) PROVE CleanInv'
  <2>1. /\ wpc[w] = "edges" /\ UNCHANGED <<data, nodes, ppc, all, page, queue, clean>>
        /\ Finish(w)
    BY <1>8 DEF PostEdges
  <2>2. /\ wpc'[w] = "free" /\ old' = old \ {w}
        /\ \A u \in Workers \ {w} : payload'[u] = payload[u] /\ wpc'[u] = wpc[u]
    BY <1>0, <2>1 DEF Finish, Hands
  <2>3. clean /\ w \notin old /\ payload[w].nodes \subseteq nodes
    BY <2>1 DEF CleanInv
  <2>4. /\ edges \subseteq edges' /\ edges' \subseteq Projected.edges
        /\ Linked(payload[w].edges, "Asn") \subseteq edges'
    BY <1>8, <2>3, Posting DEF CleanInv
  <2>5. ASSUME NEW k \in 1 .. Len(order)
        PROVE  Dealt(k)'
    <3>1. Shows(order[k]) => Shows(order[k])'
      BY <1>0, <2>1, <2>4 DEF Shows
    <3>2. payload[w] = Payload(order[k]) => Shows(order[k])'
      BY <1>0, <2>1, <2>3, <2>4 DEF Shows
    <3> QED BY <1>0, <2>1, <2>2, <2>3, <3>1, <3>2 DEF CleanInv, Dealt, Ahead
  <2>6. nodes' \subseteq Projected'.nodes /\ edges' \subseteq Projected'.edges
    BY <1>0, <2>1, <2>3, <2>4 DEF CleanInv
  <2> QED BY <1>0, <2>1, <2>2, <2>3, <2>5, <2>6 DEF CleanInv
<1> QED BY <1>1, <1>2, <1>3, <1>4, <1>5, <1>6, <1>7, <1>8, CleanMoves
-----------------------------------------------------------------------------
(* The graph shows what the database has *)

(* The relationships of a whole bundle of the present data. *)
Links == entries \cup (UNION {{<<s, i>> : i \in emits[s]} : s \in Skills}) \cup Rel(Asns) \cup Rel(Registrars)

Named ==
  Skills \cup Registries \cup (UNION {emits[s] : s \in Skills})
    \cup {e[2] : e \in Rel(Asns)} \cup {e[2] : e \in Rel(Registrars)}

(* The files together say the truth, and name both ends of every link. *)
LEMMA LinksAre ==
  ASSUME Data
  PROVE  Links = Truth(facts) /\ Named = Skills \cup Registries \cup EndsOf(Truth(facts))
<1>0. \A f \in facts : f = <<f[1], f[2]>> /\ f[2] \in Asns \cup Registrars
  BY DEF Data, Targets
<1>1. \A e \in Links : \E s \in Skills : e \in EdgesOf(s, emits, entries, facts)
  BY DEF Links, Rel, EdgesOf, Data
<1>2. ASSUME NEW s \in Skills
      PROVE  EdgesOf(s, emits, entries, facts) \subseteq Links
  <2>1. {<<s, r>> : r \in {x \in Registries : <<s, x>> \in entries}} \subseteq Links
    BY DEF Links
  <2>2. {<<s, i>> : i \in emits[s]} \subseteq Links
    BY DEF Links
  <2>3. {f \in facts : f[1] \in emits[s]} \subseteq Links
    BY <1>0 DEF Links, Rel
  <2> QED BY <2>1, <2>2, <2>3 DEF EdgesOf
<1>3. Links = Truth(facts)
  BY <1>1, <1>2 DEF Truth
<1>4. ASSUME NEW e \in Links
      PROVE  e[1] \in Named /\ e[2] \in Named
  <2>1. CASE e \in entries
    BY <2>1 DEF Named, Data
  <2>2. ASSUME NEW s \in Skills, NEW i \in emits[s], e = <<s, i>>
        PROVE  e[1] \in Named /\ e[2] \in Named
    BY <2>2 DEF Named
  <2>3. CASE e \in Rel(Asns) \cup Rel(Registrars)
    <3>1. e[1] \in UNION {emits[s] : s \in Skills}
      BY <2>3 DEF Rel
    <3> QED BY <2>3, <3>1 DEF Named
  <2> QED BY <2>1, <2>2, <2>3 DEF Links
<1>5. EndsOf(Links) \subseteq Named
  BY <1>4 DEF EndsOf
<1>6. \A s \in Skills : \A i \in emits[s] : i \in EndsOf(Links)
  <2> SUFFICES ASSUME NEW s \in Skills, NEW i \in emits[s] PROVE i \in EndsOf(Links)
    OBVIOUS
  <2>1. <<s, i>> \in Links
    BY DEF Links
  <2> QED BY <2>1 DEF EndsOf
<1>7. \A e \in Rel(Asns) \cup Rel(Registrars) : e[2] \in EndsOf(Links)
  BY DEF Links, EndsOf
<1>8. Named = Skills \cup Registries \cup EndsOf(Links)
  BY <1>5, <1>6, <1>7 DEF Named
<1> QED BY <1>3, <1>8

ImportedIsThere == nodes = Imported.nodes /\ edges = Imported.edges

(* A whole bundle of the present data is imported in full. *)
LEMMA ImportIsRight ==
  ASSUME TypeInv, BundleInv, Import, filled' = "imported"
  PROVE  ImportedIsThere'
<1> DEFINE X == FromFiles(NodeFiles)
           N == Labelled(X, "ASN")
           E == FromFiles(EdgeFiles)
<1>1. whole /\ ~aged /\ UNCHANGED data /\ nodes' = N /\ edges' = Between(N, E)
  BY DEF Import, Loaded
<1>2. WrittenUpTo(9)
  BY <1>1 DEF BundleInv
<1>3. \A m \in 1 .. 9 : bundle[Files[m]] = Right(Files[m])
  BY <1>2 DEF WrittenUpTo
<1>4. /\ bundle["skills"] = Skills /\ bundle["registries"] = Registries
      /\ bundle["indicators"] = UNION {emits[s] : s \in Skills}
      /\ bundle["asns"] = {e[2] : e \in Rel(Asns)}
      /\ bundle["registrars"] = {e[2] : e \in Rel(Registrars)}
  BY <1>3, FilesAre DEF Right
<1>5. /\ bundle["seen_in"] = entries
      /\ bundle["emits"] = UNION {{<<s, i>> : i \in emits[s]} : s \in Skills}
      /\ bundle["announced_by"] = Rel(Asns) /\ bundle["registered_with"] = Rel(Registrars)
  BY <1>3, FilesAre DEF Right
<1>6. X = Named
  <2>1. X = bundle["skills"] \cup bundle["registries"] \cup bundle["indicators"]
              \cup bundle["asns"] \cup bundle["registrars"]
    BY DEF FromFiles, NodeFiles
  <2> QED BY <1>4, <2>1 DEF Named
<1>7. E = Links
  <2>1. E = bundle["seen_in"] \cup bundle["emits"] \cup bundle["announced_by"] \cup bundle["registered_with"]
    BY DEF FromFiles, EdgeFiles
  <2> QED BY <1>5, <2>1 DEF Links
<1>8. Data
  BY DEF TypeInv
<1>9. X = Skills \cup Registries \cup EndsOf(E) /\ E = Truth(facts) /\ E \in SUBSET (Ids \X Ids)
  BY <1>6, <1>7, <1>8, LinksAre, TruthIs
<1> HIDE DEF X, E
<1>10. N = Imported.nodes /\ Linked(E, "ASN") = Imported.edges
  BY <1>9 DEF Imported
<1>11. \A e \in E : Label(e[1], "ASN") \in N /\ Label(e[2], "ASN") \in N
  BY <1>9 DEF EndsOf, Labelled
<1>12. X \in SUBSET Ids
  <2>1. EndsOf(E) \subseteq Ids
    BY <1>9 DEF EndsOf
  <2> QED BY <1>9, <2>1 DEF Ids
<1>13. Between(N, E) = Linked(E, "ASN")
  <2>1. Linked(E, "ASN") \subseteq Between(N, E)
    BY <1>9, <1>11, Adding
  <2>2. N \subseteq Labelled(X, "ASN")
    OBVIOUS
  <2> HIDE DEF N
  <2>3. Between(N, E) \subseteq Linked(E, "ASN")
    BY <1>9, <1>12, <2>2, Adding
  <2> QED BY <2>1, <2>3
<1>14. Imported' = Imported
  BY <1>1, CallsKept
<1> QED BY <1>1, <1>10, <1>13, <1>14 DEF ImportedIsThere

ProjectedIsThere == nodes = Projected.nodes /\ edges = Projected.edges

(* At its end a projection that nothing disturbed has shown every skill. *)
LEMMA EndIsRight ==
  ASSUME TypeInv, CleanInv, ppc = "done", clean
  PROVE  ProjectedIsThere
<1>1. \A w \in Workers : wpc[w] = "free"
  BY DEF TypeInv, Hands, Busy
<1>2. \A k \in 1 .. Len(order) : Shows(order[k])
  BY <1>1 DEF CleanInv, Dealt, Ahead
<1>3. \A s \in Skills : Shows(s)
  BY <1>2, Listing DEF TypeInv
<1> DEFINE E == Truth(facts \ raw)
<1>4. \A e \in E : \E s \in Skills : e \in Payload(s).edges
  BY DEF Truth, Payload
<1>5. Linked(E, "Asn") \subseteq edges
  BY <1>3, <1>4 DEF Linked, Shows
<1>6. \A s \in Skills : Label(s, "Asn") \in Payload(s).nodes
  BY DEF Payload, Labelled
<1>7. \A e \in E : Label(e[1], "Asn") \in nodes /\ Label(e[2], "Asn") \in nodes
  BY <1>3, <1>4, PayloadIs DEF Shows, TypeInv
<1>8. Labelled(Skills \cup EndsOf(E), "Asn") \subseteq nodes
  BY <1>3, <1>6, <1>7 DEF Labelled, EndsOf, Shows
<1> QED BY <1>5, <1>8 DEF CleanInv, Projected, ProjectedIsThere

(* A worker adds nothing to an imported graph but second nodes of autonomous *)
(* systems, and edges of the truth between the nodes that are there.         *)
LEMMA MixedIs ==
  ASSUME Data
  PROVE  /\ ImportedIsThere => Mixed
         /\ Projected.nodes \subseteq Imported.nodes \cup Labelled(Asns, "Asn")
<1> DEFINE E == Truth(facts)
<1>1. E \in SUBSET (Ids \X Ids) /\ Truth(facts \ raw) \subseteq E
  BY TruthIs
<1>2. \A e \in E : Label(e[1], "ASN") \in Imported.nodes /\ Label(e[2], "ASN") \in Imported.nodes
  BY DEF Imported, Labelled, EndsOf
<1>3. Linked(E, "ASN") \subseteq Between(Imported.nodes, E)
  BY <1>1, <1>2, Adding
<1>4. ImportedIsThere => Mixed
  BY <1>3 DEF ImportedIsThere, Mixed, Imported
<1>5. EndsOf(Truth(facts \ raw)) \subseteq EndsOf(E) /\ EndsOf(E) \subseteq Ids
  BY <1>1 DEF EndsOf
<1>6. ASSUME NEW x \in Skills \cup EndsOf(E)
      PROVE  Label(x, "Asn") \in Imported.nodes \cup Labelled(Asns, "Asn")
  <2>1. x \in Ids /\ Label(x, "ASN") \in Imported.nodes
    BY <1>5 DEF Imported, Labelled, Ids
  <2> QED BY <2>1, LabelsAre DEF Labelled
<1> QED BY <1>4, <1>5, <1>6 DEF Projected, Labelled

(* What a step of a worker does to a graph that is known. *)
LEMMA MergeIsRight ==
  ASSUME TypeInv, GraphIsCurrent, NEW w \in Workers, PostNodes(w) \/ PostEdges(w), Hand(w)
  PROVE  GraphIsCurrent'
<1>1. Data /\ UNCHANGED data /\ filled' = Merged(w) /\ wpc[w] # "free"
  BY DEF TypeInv, PostNodes, PostEdges
<1>2. CASE w \in old \/ filled = "no"
  BY <1>1, <1>2 DEF Merged, GraphIsCurrent
<1>3. CASE w \notin old /\ filled # "no"
  <2>1. /\ payload[w].nodes \subseteq Projected.nodes
        /\ payload[w].edges \subseteq Truth(facts \ raw) /\ payload[w].edges \subseteq Truth(facts)
    BY <1>1, <1>3, Posted, TruthIs
  <2>2. Projected' = Projected /\ Imported' = Imported /\ Truth(facts)' = Truth(facts)
    BY <1>1, CallsKept
  <2>3. filled \in {"projected", "imported", "mixed"}
    BY <1>3 DEF TypeInv, Flags
  <2>4. nodes \subseteq nodes' /\ nodes' \subseteq nodes \cup payload[w].nodes /\ edges \subseteq edges'
    BY DEF PostNodes, PostEdges
  <2>5. edges' \subseteq edges \cup Between(nodes, payload[w].edges)
    BY DEF PostNodes, PostEdges
  <2>6. CASE filled = "projected"
    <3>1. nodes = Projected.nodes /\ edges = Projected.edges
      BY <2>6 DEF GraphIsCurrent
    <3>2. nodes' = Projected.nodes
      BY <2>1, <2>4, <3>1
    <3>3. edges' \subseteq edges \cup Projected.edges
      BY <1>3, <3>1, Posting DEF PostNodes
    <3>4. filled' = "projected" /\ edges' = Projected.edges
      BY <1>1, <1>3, <2>4, <2>6, <3>1, <3>3 DEF Merged
    <3> QED BY <2>2, <3>2, <3>4 DEF GraphIsCurrent
  <2>7. CASE filled \in {"imported", "mixed"}
    <3>1. Mixed
      BY <1>1, <2>7, MixedIs DEF GraphIsCurrent, ImportedIsThere
    <3>2. nodes' \subseteq Imported.nodes \cup Labelled(Asns, "Asn")
      BY <1>1, <2>1, <2>4, <3>1, MixedIs DEF Mixed
    <3>3. Between(nodes, payload[w].edges) \subseteq Between(nodes', Truth(facts))
      BY <2>1, <2>4 DEF Between
    <3>4. Between(nodes, Truth(facts)) \subseteq Between(nodes', Truth(facts))
      BY <2>4 DEF Between
    <3>5. edges' \subseteq Between(nodes', Truth(facts))
      BY <2>5, <3>1, <3>3, <3>4 DEF Mixed
    <3>6. Imported.nodes \subseteq nodes' /\ Imported.edges \subseteq edges'
      BY <2>4, <3>1 DEF Mixed
    <3>7. filled' = "mixed"
      BY <1>1, <1>3, <2>7 DEF Merged
    <3>8. Between(nodes, Truth(facts))' = Between(nodes', Truth(facts))
      BY <2>2 DEF Between
    <3>9. Mixed'
      BY <2>2, <3>2, <3>5, <3>6, <3>8 DEF Mixed
    <3> QED BY <3>7, <3>9 DEF GraphIsCurrent
  <2> QED BY <2>3, <2>6, <2>7
<1> QED BY <1>2, <1>3

(* No other step leaves the graph current. *)
LEMMA FilledMoves ==
  ASSUME Next, filled' # "no"
  PROVE  \/ UNCHANGED <<data, graph, filled>>
         \/ \E w \in Workers : PostNodes(w) \/ PostEdges(w)
         \/ EndProjection \/ Import
<1> USE DEF graph, past
<1>1. ~Changes
  BY ChangesAre
<1>3. ListPage \/ StartPage \/ NextPage \/ BreakProjection => UNCHANGED <<data, graph, filled>>
  BY Zenon DEF ListPage, StartPage, NextPage, BreakProjection
<1>4. ASSUME NEW w \in Workers, (\E s \in queue : TakeSkill(w, s)) \/ LoseChunk(w) \/ FailSkill(w)
      PROVE  UNCHANGED <<data, graph, filled>>
  BY Zenon, <1>4 DEF TakeSkill, LoseChunk, FailSkill
<1>5. CASE Project
  BY Zenon, <1>3, <1>4, <1>5 DEF Project
<1>6. CASE Rebuild
  BY Zenon, <1>6 DEF Rebuild, ReadMewhois, ReadMeip, WriteFile, ImportFails, StartService, StartFails
<1>7. ASSUME NEW reset, NEW a, StartProjection(reset, a)
      PROVE  UNCHANGED <<data, graph, filled>>
  BY <1>7 DEF StartProjection
<1>8. CASE Commands
  BY Zenon, <1>7, <1>8 DEF Commands, BeginExport, StopService, StopFails
<1>9. CASE ProjectionDies \/ RebuildDies \/ OperatorStarts
  BY Zenon, <1>9 DEF ProjectionDies, RebuildDies, OperatorStarts
<1>10. Environment => Changes \/ ProjectionDies \/ OperatorStarts \/ RebuildDies
  BY Zenon DEF Environment, Changes
<1> QED BY <1>1, <1>5, <1>6, <1>8, <1>9, <1>10 DEF Next

(* A current graph stays current as long as nothing changes. *)
LEMMA FilledStep ==
  ASSUME TypeInv, BundleInv, CleanInv, GraphIsCurrent, Next, \A w \in Workers : Hand(w)
  PROVE  GraphIsCurrent'
<1> SUFFICES ASSUME filled' # "no"
             PROVE  GraphIsCurrent'
  BY DEF GraphIsCurrent
<1>0. /\ UNCHANGED data => Projected' = Projected /\ Imported' = Imported /\ Truth(facts)' = Truth(facts)
      /\ UNCHANGED <<data, graph>> => Mixed' = Mixed
  BY CallsKept DEF Mixed, Between, data, graph
<1>1. CASE UNCHANGED <<data, graph, filled>>
  BY <1>0, <1>1 DEF GraphIsCurrent, graph
<1>2. ASSUME NEW w \in Workers, PostNodes(w) \/ PostEdges(w) PROVE GraphIsCurrent'
  BY <1>2, MergeIsRight
<1>3. CASE EndProjection
  <2>1. ppc = "done" /\ filled' = (IF clean THEN "projected" ELSE filled) /\ UNCHANGED <<data, graph>>
    BY <1>3 DEF EndProjection
  <2>2. CASE clean
    <3>1. ProjectedIsThere /\ filled' = "projected"
      BY <2>1, <2>2, EndIsRight
    <3> QED BY <1>0, <2>1, <3>1 DEF GraphIsCurrent, ProjectedIsThere, graph
  <2>3. CASE ~clean
    BY <1>1, <2>1, <2>3
  <2> QED BY <2>2, <2>3
<1>4. CASE Import
  <2>1. filled' = "imported"
    BY <1>4 DEF Import
  <2> QED BY <1>4, <2>1, ImportIsRight DEF GraphIsCurrent, ImportedIsThere
<1> QED BY <1>1, <1>2, <1>3, <1>4, FilledMoves

GraphInv == TypeInv /\ BundleInv /\ CleanInv /\ GraphIsCurrent /\ \A w \in Workers : Hand(w)

(* The inductive invariant holds at first. *)
LEMMA GraphInit == Init => GraphInv
<1> SUFFICES ASSUME Init PROVE GraphInv
  OBVIOUS
<1>1. BundleInv
  BY FilesAre DEF Init, BundleInv, NodeFiles, EdgeFiles
<1>2. CleanInv /\ GraphIsCurrent /\ \A w \in Workers : Hand(w)
  BY DEF Init, CleanInv, GraphIsCurrent, Hand
<1> QED BY <1>1, <1>2, TypeInit DEF GraphInv

(* Every step keeps the inductive invariant. *)
LEMMA GraphStep == GraphInv /\ [Next]_vars => GraphInv'
<1> SUFFICES ASSUME GraphInv, [Next]_vars PROVE GraphInv'
  OBVIOUS
<1>1. CASE UNCHANGED vars
  <2>1. TypeInv'
    BY <1>1, TypeStep DEF GraphInv
  <2>2. BundleInv'
    <3>1. (\A f : Right(f)' = Right(f)) /\ Rel(Asns)' = Rel(Asns) /\ Rel(Registrars)' = Rel(Registrars)
      BY <1>1 DEF vars, data, Right, Rel
    <3> QED BY <1>1, <3>1 DEF vars, data, rebuild, past, GraphInv, BundleInv, WrittenUpTo
  <2>3. UNCHANGED <<data, graph, projection, past>>
    BY <1>1 DEF vars
  <2>4. /\ Projected' = Projected /\ Imported' = Imported /\ Truth(facts)' = Truth(facts)
        /\ \A s : Payload(s)' = Payload(s)
    BY <2>3, CallsKept
  <2>5. (\A s : Shows(s)' = Shows(s)) /\ Mixed' = Mixed
    BY <2>3, <2>4 DEF Shows, Mixed, Between, graph
  <2>6. CleanInv'
    BY <2>3, <2>4, <2>5 DEF data, graph, projection, past, GraphInv, CleanInv, Dealt, Ahead
  <2>7. GraphIsCurrent'
    BY <2>3, <2>4, <2>5 DEF graph, past, GraphInv, GraphIsCurrent
  <2>8. \A w \in Workers : Hand(w)'
    BY <2>3, <2>4 DEF projection, past, GraphInv, Hand
  <2> QED BY <2>1, <2>2, <2>6, <2>7, <2>8 DEF GraphInv
<1>2. CASE Next
  BY <1>2, TypeStep, BundleStep, CleanStep, FilledStep, HandStep DEF GraphInv
<1> QED BY <1>1, <1>2

(* However pages, workers, commands and deaths interleave, a graph that was  *)
(* filled after the last change of the database has, label for label, what   *)
(* the command that filled it takes from the database, no more and no less;  *)
(* and a projection over an import adds second nodes of autonomous systems   *)
(* and the edges to them, and nothing else.                                  *)
THEOREM FilledGraphIsCurrent == Spec => []GraphIsCurrent
<1>1. GraphInv => GraphIsCurrent
  BY DEF GraphInv
<1> QED BY GraphInit, GraphStep, <1>1, PTL DEF Spec

=============================================================================
