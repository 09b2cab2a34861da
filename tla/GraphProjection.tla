--------------------------- MODULE GraphProjection ---------------------------
(***************************************************************************)
(* The graph in Neo4j, and the two commands that fill it:                  *)
(*                                                                         *)
(*  - project-graph (cli.py, services/graph_project.py) pages through the  *)
(*    listing of skills by priority, and for each skill of a page some     *)
(*    worker reads its detail and merges its nodes and then its edges;     *)
(*  - rebuild-graph-bulk (services/graph_bulk.py) exports CSV files, stops *)
(*    the service, imports them in place of the graph, and starts it again.*)
(*                                                                         *)
(* Both may run together, fail at any call and be killed at any step,      *)
(* while scans and syncs change the database and the order of the listing. *)
(*                                                                         *)
(* Of what enrichments say, mewhois on registrars and meip on autonomous    *)
(* systems stand for the rest: the two commands read the former differently *)
(* and label the latter differently.  The links of a snapshot are taken as  *)
(* written together with it.  What the HTTP endpoint and docker compose do  *)
(* is external.                                                            *)
(***************************************************************************)
EXTENDS Naturals, Sequences, FiniteSets, SequencesExt

CONSTANTS
  Skills,
  Registries,
  Indicators,
  Registrars,
  Asns,
  PageSize,
  Workers,     \* of project-graph
  MaxChanges,  \* bound on the changes of the database
  MaxMishaps   \* bound on the deaths of commands, failures of calls while the
               \* service is up, and lost chunks

Targets == Registrars \cup Asns

Ids == Skills \cup Registries \cup Indicators \cup Targets

ASSUME KindsAssumption ==
  /\ Skills \cap (Registries \cup Indicators \cup Targets) = {}
  /\ Registries \cap (Indicators \cup Targets) = {}
  /\ Indicators \cap Targets = {} /\ Registrars \cap Asns = {}
ASSUME SkillsAssumption == IsFiniteSet(Skills)
ASSUME BoundsAssumption ==
  PageSize \in Nat \ {0} /\ MaxChanges \in Nat /\ MaxMishaps \in Nat

VARIABLES
  emits,    \* the indicators of the latest snapshot of each skill
  entries,  \* source entries: skills in registries
  facts,    \* what completed enrichments say of indicators
  raw,      \* those facts that only the raw response of mewhois has
  order,    \* the skills by priority
  up,       \* whether the graph service runs
  nodes,    \* of the graph, each with its label
  edges,
  ppc,      \* where project-graph is
  all,      \* whether it goes through all pages
  page,     \* the page it is at, from 0
  next,     \* has_next of that page
  queue,    \* skills of the page that no worker has taken
  wpc,      \* where each worker is
  payload,  \* of the skill it is at
  bpc,      \* where rebuild-graph-bulk is
  tmp,      \* its temporary tables
  bundle,   \* the files of the bundle directory
  broken,   \* history: a docker compose command has failed, or a rebuild died
  changes,  \* history: the number of changes of the database
  mishaps,  \* history: the number of deaths, failures and losses
  old,      \* history: workers whose payload is older than the last change
  aged,     \* history: the database has changed since the last export began
  whole,    \* history: the bundle is that of one export
  clean,    \* history: nothing has disturbed project-graph --reset --all
  filled    \* history: by whom, if nothing has changed since

data == <<emits, entries, facts, raw, order>>
graph == <<nodes, edges>>
projection == <<ppc, all, page, next, queue, wpc, payload>>
rebuild == <<bpc, tmp, bundle>>
past == <<broken, changes, mishaps, old, aged, whole, clean, filled>>
vars == <<data, up, graph, projection, rebuild, past>>

Node == [id : Ids, label : {"Skill", "Registry", "Indicator", "Registrar", "Asn", "ASN"}]

NodeFiles == {"skills", "registries", "indicators", "asns", "registrars"}

EdgeFiles == {"seen_in", "emits", "announced_by", "registered_with"}

Files == <<"skills", "registries", "indicators", "asns", "registrars",
           "seen_in", "emits", "announced_by", "registered_with">>

Empty == [nodes |-> {}, edges |-> {}]

NoTables == [emits |-> [s \in Skills |-> {}], mewhois |-> {}, meip |-> {}]

-----------------------------------------------------------------------------
(* What is in the database *)

EdgesOf(s, found, seen, known) ==
  {<<s, r>> : r \in {x \in Registries : <<s, x>> \in seen}}
    \cup {<<s, i>> : i \in found[s]}
    \cup {f \in known : f[1] \in found[s]}

EndsOf(E) == UNION {{e[1], e[2]} : e \in E}

Label(x, asn) ==
  [id |-> x, label |-> CASE x \in Skills -> "Skill"
                         [] x \in Registries -> "Registry"
                         [] x \in Indicators -> "Indicator"
                         [] x \in Registrars -> "Registrar"
                         [] x \in Asns -> asn]

Labelled(X, asn) == {Label(x, asn) : x \in X}

Linked(E, asn) == {<<Label(e[1], asn), Label(e[2], asn)>> : e \in E}

(* Nodes are looked up by their id, whatever their label. *)
Between(N, E) == {e \in N \X N : <<e[1].id, e[2].id>> \in E}

-----------------------------------------------------------------------------
(* project-graph *)

Busy == {w \in Workers : wpc[w] # "free"}

Mishap == mishaps < MaxMishaps /\ mishaps' = mishaps + 1

(* A request to the service fails while it is down, and may fail otherwise. *)
RequestFails == (~up /\ UNCHANGED mishaps) \/ (up /\ Mishap)

(* --reset clears the graph, which takes the service. *)
StartProjection(reset, a) ==
  /\ ppc = "idle"
  /\ reset => up
  /\ ppc' = "list"
  /\ all' = a
  /\ page' = 0
  /\ nodes' = IF reset THEN {} ELSE nodes
  /\ edges' = IF reset THEN {} ELSE edges
  /\ clean' = (reset /\ a)
  /\ filled' = IF reset THEN "no" ELSE filled
  /\ UNCHANGED <<data, up, next, queue, wpc, payload, rebuild, broken, changes, mishaps, old, aged, whole>>

PageOf_OffByOne(n) ==
  {order[k] : k \in {j \in 1 .. Len(order) : n * PageSize + 1 < j /\ j <= (n + 1) * PageSize + 1}}

(* The rows of a page, and has_next. *)
PageOf(n) == {order[k] : k \in {j \in 1 .. Len(order) : n * PageSize < j /\ j <= (n + 1) * PageSize}}

ListPage ==
  /\ ppc = "list"
  /\ queue' = PageOf(page)
  /\ next' = (all /\ (page + 1) * PageSize < Len(order))
  /\ ppc' = IF PageOf(page) = {} THEN "done" ELSE "ready"
  /\ UNCHANGED <<data, up, graph, all, page, wpc, payload, rebuild, past>>

(* ensure_runtime of project_skill_coordinates. *)
StartPage ==
  /\ ppc = "ready"
  /\ up
  /\ ppc' = "page"
  /\ UNCHANGED <<data, up, graph, all, page, next, queue, wpc, payload, rebuild, past>>

(* get_skill_detail and build_skill_graph_payload, which does not look into  *)
(* raw responses.                                                           *)
Payload(s) ==
  LET E == EdgesOf(s, emits, entries, facts \ raw)
  IN [nodes |-> Labelled({s} \cup EndsOf(E), "Asn"), edges |-> E]

TakeSkill(w, s) ==
  /\ ppc = "page"
  /\ wpc[w] = "free"
  /\ s \in queue
  /\ queue' = queue \ {s}
  /\ payload' = [payload EXCEPT ![w] = Payload(s)]
  /\ wpc' = [wpc EXCEPT ![w] = "nodes"]
  /\ UNCHANGED <<data, up, graph, ppc, all, page, next, rebuild, past>>

Finish(w) ==
  /\ wpc' = [wpc EXCEPT ![w] = "free"]
  /\ payload' = [payload EXCEPT ![w] = Empty]
  /\ old' = old \ {w}

(* What is known of the graph once a worker has merged into it. *)
Merged(w) ==
  IF w \in old \/ filled = "no" THEN "no" ELSE IF filled = "imported" THEN "mixed" ELSE filled

(* Requests of 500 statements each, the nodes before the edges.             *)
PostNodes(w) ==
  /\ wpc[w] = "nodes"
  /\ up
  /\ nodes' = nodes \cup payload[w].nodes
  /\ wpc' = [wpc EXCEPT ![w] = "edges"]
  /\ filled' = Merged(w)
  /\ UNCHANGED <<data, up, edges, ppc, all, page, next, queue, payload, rebuild>>
  /\ UNCHANGED <<broken, changes, mishaps, old, aged, whole, clean>>

PostEdges(w) ==
  /\ wpc[w] = "edges"
  /\ up
  /\ edges' = edges \cup Between(nodes, payload[w].edges)
  /\ filled' = Merged(w)
  /\ Finish(w)
  /\ UNCHANGED <<data, up, nodes, ppc, all, page, next, queue, rebuild>>
  /\ UNCHANGED <<broken, changes, mishaps, aged, whole, clean>>

(* A request that is rolled back is answered with status 200 and the errors *)
(* in its body, which is not looked at: the skill counts as projected.      *)
LoseChunk(w) ==
  /\ wpc[w] \in {"nodes", "edges"}
  /\ up
  /\ Mishap
  /\ clean' = FALSE
  /\ IF wpc[w] = "nodes"
       THEN wpc' = [wpc EXCEPT ![w] = "edges"] /\ UNCHANGED <<payload, old>>
       ELSE Finish(w)
  /\ UNCHANGED <<data, up, graph, ppc, all, page, next, queue, rebuild, broken, changes, aged, whole, filled>>

(* The skill counts as failed; the worker goes on. *)
FailSkill(w) ==
  /\ wpc[w] \in {"nodes", "edges"}
  /\ RequestFails
  /\ clean' = FALSE
  /\ Finish(w)
  /\ UNCHANGED <<data, up, graph, ppc, all, page, next, queue, rebuild, broken, changes, aged, whole, filled>>

NextPage ==
  /\ ppc = "page"
  /\ queue = {}
  /\ Busy = {}
  /\ page' = IF next THEN page + 1 ELSE page
  /\ ppc' = IF next THEN "list" ELSE "done"
  /\ UNCHANGED <<data, up, graph, all, next, queue, wpc, payload, rebuild, past>>

LeaveProjection ==
  /\ ppc' = "idle"
  /\ all' = FALSE
  /\ page' = 0
  /\ next' = FALSE
  /\ queue' = {}
  /\ wpc' = [w \in Workers |-> "free"]
  /\ payload' = [w \in Workers |-> Empty]
  /\ old' = {}
  /\ clean' = FALSE

EndProjection ==
  /\ ppc = "done"
  /\ LeaveProjection
  /\ filled' = IF clean THEN "projected" ELSE filled
  /\ UNCHANGED <<data, up, graph, rebuild, broken, changes, mishaps, aged, whole>>

(* ensure_runtime raises: the command ends. *)
BreakProjection ==
  /\ ppc = "ready"
  /\ RequestFails
  /\ LeaveProjection
  /\ UNCHANGED <<data, up, graph, rebuild, broken, changes, aged, whole, filled>>

-----------------------------------------------------------------------------
(* rebuild-graph-bulk *)

(* The first temporary table.  The directory is a new one, or one that      *)
(* another export has used.                                                 *)
BeginExport(reuse) ==
  /\ bpc = "idle"
  /\ bpc' = "mewhois"
  /\ tmp' = [NoTables EXCEPT !.emits = emits]
  /\ bundle' = IF reuse THEN bundle ELSE <<>>
  /\ aged' = FALSE
  /\ whole' = FALSE
  /\ UNCHANGED <<data, up, graph, projection, broken, changes, mishaps, old, clean, filled>>

Told(target) == {f \in facts : f[2] \in target /\ \E s \in Skills : f[1] \in tmp.emits[s]}

(* The registrar, or the one of the raw response. *)
ReadMewhois ==
  /\ bpc = "mewhois"
  /\ tmp' = [tmp EXCEPT !.mewhois = Told(Registrars)]
  /\ bpc' = "meip"
  /\ UNCHANGED <<data, up, graph, projection, bundle, past>>

ReadMeip ==
  /\ bpc = "meip"
  /\ tmp' = [tmp EXCEPT !.meip = Told(Asns)]
  /\ bpc' = Files[1]
  /\ UNCHANGED <<data, up, graph, projection, bundle, past>>

(* The registries and the source entries are read as they are by then.  So  *)
(* are the links, but those of a snapshot do not change.                    *)
Content(f) ==
  CASE f = "skills"          -> Skills
    [] f = "registries"      -> Registries
    [] f = "indicators"      -> UNION {tmp.emits[s] : s \in Skills}
    [] f = "asns"            -> {e[2] : e \in tmp.meip}
    [] f = "registrars"      -> {e[2] : e \in tmp.mewhois}
    [] f = "seen_in"         -> entries
    [] f = "emits"           -> UNION {{<<s, i>> : i \in tmp.emits[s]} : s \in Skills}
    [] f = "announced_by"    -> tmp.meip
    [] f = "registered_with" -> tmp.mewhois

Put(f, c) == bundle' = [g \in (DOMAIN bundle) \cup {f} |-> IF g = f THEN c ELSE bundle[g]]

LeaveRebuild ==
  /\ bpc' = "idle"
  /\ tmp' = NoTables

WriteFile(n) ==
  /\ bpc = Files[n]
  /\ Put(Files[n], Content(Files[n]))
  /\ IF n < Len(Files) THEN bpc' = Files[n + 1] /\ UNCHANGED <<tmp, whole>>
                       ELSE LeaveRebuild /\ whole' = TRUE
  /\ UNCHANGED <<data, up, graph, projection, broken, changes, mishaps, old, aged, clean, filled>>

Complete == \A n \in 1 .. Len(Files) : Files[n] \in DOMAIN bundle

(* docker compose stop, after a look whether every file is there; without   *)
(* --import-only the export has just ended.                                 *)
StopService ==
  /\ bpc = "idle"
  /\ Complete
  /\ up' = FALSE
  /\ bpc' = "import"
  /\ UNCHANGED <<data, graph, projection, tmp, bundle, past>>

(* A command that fails may have had its effect. *)
StopFails ==
  /\ bpc = "idle"
  /\ Complete
  /\ Mishap
  /\ up' \in {up, FALSE}
  /\ broken' = TRUE
  /\ UNCHANGED <<data, graph, projection, rebuild, changes, old, aged, whole, clean, filled>>

FromFiles(F) == UNION {bundle[f] : f \in F}

Loaded_KeepsBad ==
  [nodes |-> Labelled(FromFiles(NodeFiles), "ASN"), edges |-> Linked(FromFiles(EdgeFiles), "ASN")]

(* neo4j-admin skips the relationships that lack a node. *)
Loaded ==
  LET N == Labelled(FromFiles(NodeFiles), "ASN")
  IN [nodes |-> N, edges |-> Between(N, FromFiles(EdgeFiles))]

Import ==
  /\ bpc = "import"
  /\ nodes' = Loaded.nodes
  /\ edges' = Loaded.edges
  /\ bpc' = "start"
  /\ filled' = IF whole /\ ~aged THEN "imported" ELSE "no"
  /\ clean' = FALSE
  /\ UNCHANGED <<data, up, projection, tmp, bundle, broken, changes, mishaps, old, aged, whole>>

ImportFails_Raises ==
  /\ bpc = "import"
  /\ Mishap
  /\ \E g \in {[nodes |-> nodes, edges |-> edges], Empty} : nodes' = g.nodes /\ edges' = g.edges
  /\ LeaveRebuild
  /\ filled' = "no"
  /\ clean' = FALSE
  /\ UNCHANGED <<data, up, projection, bundle, broken, changes, old, aged, whole>>

(* The old graph may be gone by then; the finally clause comes next. *)
ImportFails ==
  /\ bpc = "import"
  /\ Mishap
  /\ \E g \in {[nodes |-> nodes, edges |-> edges], Empty} : nodes' = g.nodes /\ edges' = g.edges
  /\ bpc' = "start"
  /\ filled' = "no"
  /\ clean' = FALSE
  /\ UNCHANGED <<data, up, projection, tmp, bundle, broken, changes, old, aged, whole>>

(* docker compose up; waiting for the service changes nothing.              *)
StartService ==
  /\ bpc = "start"
  /\ up' = TRUE
  /\ LeaveRebuild
  /\ UNCHANGED <<data, graph, projection, bundle, past>>

StartFails ==
  /\ bpc = "start"
  /\ Mishap
  /\ broken' = TRUE
  /\ LeaveRebuild
  /\ UNCHANGED <<data, up, graph, projection, bundle, changes, old, aged, whole, clean, filled>>

-----------------------------------------------------------------------------
(* What others do *)

Change ==
  /\ changes < MaxChanges
  /\ changes' = changes + 1
  /\ old' = Busy
  /\ aged' = TRUE
  /\ clean' = FALSE
  /\ filled' = "no"
  /\ UNCHANGED <<up, graph, projection, rebuild, broken, mishaps, whole>>

(* A snapshot with other indicators is recorded. *)
Scan(s, found) ==
  /\ found # emits[s]
  /\ Change
  /\ emits' = [emits EXCEPT ![s] = found]
  /\ UNCHANGED <<entries, facts, raw, order>>

(* A registry lists the skill for the first time. *)
Seed(s, r) ==
  /\ <<s, r>> \notin entries
  /\ Change
  /\ entries' = entries \cup {<<s, r>>}
  /\ UNCHANGED <<emits, facts, raw, order>>

(* An indicator that some skill has had is enriched.  What mewhois has to   *)
(* say may be in its raw response only.                                     *)
Enrich(i, x) ==
  /\ <<i, x>> \notin facts
  /\ Change
  /\ facts' = facts \cup {<<i, x>>}
  /\ raw' \in {raw} \cup {raw \cup {<<i, r>>} : r \in Registrars \cap {x}}
  /\ UNCHANGED <<emits, entries, order>>

(* Installs or scores move a skill in the listing. *)
Reorder(o) ==
  /\ o # order
  /\ Change
  /\ order' = o
  /\ UNCHANGED <<emits, entries, facts, raw>>

ProjectionDies ==
  /\ ppc # "idle"
  /\ Mishap
  /\ LeaveProjection
  /\ UNCHANGED <<data, up, graph, rebuild, broken, changes, aged, whole, filled>>

(* Killed while it copies a file, the command leaves it behind half written;*)
(* killed while it imports, it leaves the old graph or none.                *)
RebuildDies ==
  /\ bpc # "idle"
  /\ Mishap
  /\ broken' = TRUE
  /\ LeaveRebuild
  /\ \/ UNCHANGED <<graph, bundle, clean, filled>>
     \/ /\ bpc \in ToSet(Files)
        /\ Put(bpc, {})
        /\ UNCHANGED <<graph, clean, filled>>
     \/ /\ bpc = "import"
        /\ nodes' = {} /\ edges' = {}
        /\ filled' = "no"
        /\ clean' = FALSE
        /\ UNCHANGED bundle
  /\ UNCHANGED <<data, up, projection, changes, old, aged, whole>>

(* Somebody starts the service by hand. *)
OperatorStarts ==
  /\ bpc = "idle"
  /\ ~up
  /\ up' = TRUE
  /\ UNCHANGED <<data, graph, projection, rebuild, past>>

-----------------------------------------------------------------------------

Init ==
  /\ emits = [s \in Skills |-> Indicators]
  /\ entries = {}
  /\ facts = {}
  /\ raw = {}
  /\ order = SetToSeq(Skills)
  /\ up = TRUE
  /\ nodes = {}
  /\ edges = {}
  /\ ppc = "idle"
  /\ all = FALSE
  /\ page = 0
  /\ next = FALSE
  /\ queue = {}
  /\ wpc = [w \in Workers |-> "free"]
  /\ payload = [w \in Workers |-> Empty]
  /\ bpc = "idle"
  /\ tmp = NoTables
  /\ bundle = <<>>
  /\ broken = FALSE
  /\ changes = 0
  /\ mishaps = 0
  /\ old = {}
  /\ aged = FALSE
  /\ whole = FALSE
  /\ clean = FALSE
  /\ filled = "no"

Project ==
  \/ ListPage
  \/ StartPage
  \/ \E w \in Workers, s \in queue : TakeSkill(w, s)
  \/ \E w \in Workers : PostNodes(w) \/ PostEdges(w) \/ LoseChunk(w) \/ FailSkill(w)
  \/ NextPage
  \/ EndProjection
  \/ BreakProjection

Rebuild ==
  \/ ReadMewhois
  \/ ReadMeip
  \/ \E n \in 1 .. Len(Files) : WriteFile(n)
  \/ Import
  \/ ImportFails
  \/ StartService
  \/ StartFails

Commands ==
  \/ \E reset, a \in BOOLEAN : StartProjection(reset, a)
  \/ \E reuse \in BOOLEAN : BeginExport(reuse)
  \/ StopService
  \/ StopFails

Environment ==
  \/ \E s \in Skills, found \in SUBSET Indicators : Scan(s, found)
  \/ \E s \in Skills, r \in Registries : Seed(s, r)
  \/ \E i \in Indicators, x \in Targets : Enrich(i, x)
  \/ \E o \in SetToSeqs(Skills) : Reorder(o)
  \/ ProjectionDies
  \/ RebuildDies
  \/ OperatorStarts

Next == Project \/ Rebuild \/ Commands \/ Environment

Spec == Init /\ [][Next]_vars

(* A rebuild that was started goes on: docker compose returns.              *)
FairSpec == Spec /\ WF_vars(Rebuild)

-----------------------------------------------------------------------------
(* Properties *)

BPC == {"idle", "mewhois", "meip", "import", "start"} \cup ToSet(Files)

(* Every variable keeps its type, no edge of the graph lacks one of its     *)
(* ends, and nobody imports while the service runs.                         *)
TypeOK ==
  /\ emits \in [Skills -> SUBSET Indicators]
  /\ entries \subseteq Skills \X Registries
  /\ facts \subseteq Indicators \X Targets /\ raw \subseteq facts
  /\ order \in SetToSeqs(Skills)
  /\ {up, all, next, broken, aged, whole, clean} \subseteq BOOLEAN
  /\ filled \in {"no", "projected", "imported", "mixed"}
  /\ nodes \subseteq Node
  /\ edges \subseteq nodes \X nodes
  /\ ppc \in {"idle", "list", "ready", "page", "done"}
  /\ page \in 0 .. Cardinality(Skills)
  /\ queue \subseteq Skills
  /\ wpc \in [Workers -> {"free", "nodes", "edges"}]
  /\ \A w \in Workers : payload[w].nodes \subseteq Node /\ payload[w].edges \subseteq Ids \X Ids
  /\ bpc \in BPC
  /\ tmp \in [emits : [Skills -> SUBSET Indicators], mewhois : SUBSET (Indicators \X Registrars),
             meip : SUBSET (Indicators \X Asns)]
  /\ DOMAIN bundle \subseteq ToSet(Files)
  /\ changes \in 0 .. MaxChanges
  /\ mishaps \in 0 .. MaxMishaps
  /\ old \subseteq Busy
  /\ bpc = "import" => ~up

(* What the database calls for, on all skills. *)
Truth(known) == UNION {EdgesOf(s, emits, entries, known) : s \in Skills}

(* project-graph gives no node to a registry without skills and does not look *)
(* into raw responses; the labels of autonomous systems differ.              *)
Projected ==
  LET E == Truth(facts \ raw)
  IN [nodes |-> Labelled(Skills \cup EndsOf(E), "Asn"), edges |-> Linked(E, "Asn")]

Imported ==
  LET E == Truth(facts)
  IN [nodes |-> Labelled(Skills \cup Registries \cup EndsOf(E), "ASN"), edges |-> Linked(E, "ASN")]

(* A projection after an import adds nothing but second nodes of autonomous *)
(* systems, and the edges that are drawn to both.                           *)
Mixed ==
  /\ Imported.nodes \subseteq nodes /\ nodes \subseteq Imported.nodes \cup Labelled(Asns, "Asn")
  /\ Imported.edges \subseteq edges /\ edges \subseteq Between(nodes, Truth(facts))

(* Either way of filling the graph gives, label for label, what it takes    *)
(* from the database, no more and no less: a rebuild from a whole bundle of *)
(* the present data, and project-graph --reset --all of which nothing failed *)
(* or was lost.  A projection beside it or after it does no other harm than *)
(* the second nodes, if it has read its skill since the last change.        *)
GraphIsCurrent ==
  /\ filled = "projected" => nodes = Projected.nodes /\ edges = Projected.edges
  /\ filled = "imported" => nodes = Imported.nodes /\ edges = Imported.edges
  /\ filled = "mixed" => Mixed

(* A graph service that a rebuild has stopped runs again, whether the import*)
(* succeeds or not, unless the command dies or docker compose fails.        *)
ServiceReturns == ~up ~> up \/ broken

=============================================================================
