--------------------------- MODULE InfraEnrichment ---------------------------
(***************************************************************************)
(* enrich-infra (services/infrastructure_enrichment.py): a run takes       *)
(* domains and addresses that skills are linked to, resolves each domain,  *)
(* asks meip about addresses and mewhois about domains, and records each   *)
(* answer.  Any number of runs may overlap and be killed at any step; meip *)
(* goes down and comes back, analyses link new indicators, and feed syncs  *)
(* move indicators ahead in the listing.                                   *)
(*                                                                         *)
(* Every row this service writes has status "completed".  The row of an    *)
(* address in the indicators table, archive files and payloads are left    *)
(* out, but for the addresses and profiles of a local_dns payload.         *)
(***************************************************************************)
EXTENDS Naturals, Sequences, FiniteSets, SequencesExt

CONSTANTS
  Domains,
  Ips,
  Answers,       \* sets of addresses the resolver may find for a domain
  LowSignal,     \* the indicators that _is_low_signal_infrastructure_indicator names
  Standing,      \* all indicators as risk score, links and id order them
  Runners,
  Limit,         \* candidates of a run
  Window,        \* rows the listing query returns; the code has 5 * Limit
  MayFail,       \* whether answers of a service that is up, and the database, may fail
  MaxSightings,  \* bound on the observations
  MaxDeaths      \* bound on the deaths of runs

Indicators == Domains \cup Ips

Providers == {"local_dns", "mewhois", "meip"}

ASSUME KindsAssumption == Domains \cap Ips = {}
ASSUME AnswersAssumption == Answers \subseteq SUBSET Ips
ASSUME NoOneAssumption == "none" \notin Indicators
ASSUME RunnersAssumption == IsFiniteSet(Runners)
ASSUME StandingAssumption ==
  /\ Standing \in Seq(Indicators)
  /\ \A i \in Indicators : \E n \in 1 .. Len(Standing) : Standing[n] = i
  /\ \A m, n \in 1 .. Len(Standing) : Standing[m] = Standing[n] => m = n
ASSUME LimitAssumption == Limit \in Nat \ {0} /\ Window \in Nat /\ Limit <= Window
ASSUME BoundsAssumption == MaxSightings \in Nat /\ MaxDeaths \in Nat /\ MayFail \in BOOLEAN

VARIABLES
  linked,     \* indicators linked to a skill snapshot
  sightings,  \* the number of feed observations of each indicator
  up,         \* whether meip answers
  dns,        \* local_dns enrichments of each domain, in the order of their ids
  whois,      \* the number of mewhois enrichments of each domain
  meip,       \* the number of meip enrichments of each address
  pc,         \* where each runner is
  todo,       \* candidates it has not come to
  cand,       \* the candidate it is at
  alive,      \* ip_provider_available
  cache,      \* ip_completion_cache
  resolved,   \* resolved_ips of the domain it is at
  left,       \* those of them it has not come to
  profiles,   \* ip_profiles
  asked,      \* the address it is about to look up
  deaths,     \* history: the number of runners that have died
  tried,      \* history: indicators that have been taken up
  stuck       \* history: those that something failed for, or that were skipped

rows == <<dns, whois, meip>>
world == <<linked, sightings, up>>
hand == <<resolved, left, profiles, asked>>
vars == <<world, rows, pc, todo, cand, alive, cache, hand, deaths, tried, stuck>>

Payload == [ips : SUBSET Ips, profiles : SUBSET Ips, alive : BOOLEAN]

Candidate == [ind : Indicators, done : SUBSET Providers]

NoOne == "none"

NoCandidate == [ind |-> NoOne, done |-> {}]

Goto(r, p) == pc' = [pc EXCEPT ![r] = p]

-----------------------------------------------------------------------------
(* list_infrastructure_candidates *)

Before(i, j) ==
  \/ sightings[i] > sightings[j]
  \/ /\ sightings[i] = sightings[j]
     /\ \E m, n \in 1 .. Len(Standing) : m < n /\ Standing[m] = i /\ Standing[n] = j

Ahead(i) == {j \in linked : Before(j, i)}

Completed(i) ==
  {q \in Providers : \/ q = "local_dns" /\ i \in Domains /\ dns[i] # <<>>
                     \/ q = "mewhois" /\ i \in Domains /\ whois[i] > 0
                     \/ q = "meip" /\ i \in Ips /\ meip[i] > 0}

Wanted(i) == IF i \in Domains THEN {"local_dns", "mewhois"} ELSE {"meip"}

Open(i) == i \in linked \ LowSignal /\ ~ Wanted(i) \subseteq Completed(i)

(* The query orders and cuts before anything is filtered. *)
InWindow(i) == Cardinality(Ahead(i)) < Window

Listed ==
  LET offered == {i \in Indicators : Open(i) /\ InWindow(i)}
  IN {i \in offered : Cardinality(Ahead(i) \cap offered) < Limit}

Listing == [n \in 1 .. Cardinality(Listed) |->
  LET i == CHOOSE i \in Listed : Cardinality(Ahead(i) \cap Listed) = n - 1
  IN [ind |-> i, done |-> Completed(i)]]

-----------------------------------------------------------------------------
(* One run *)

ListCandidates(r) ==
  /\ pc[r] = "idle"
  /\ todo' = [todo EXCEPT ![r] = Listing]
  /\ Goto(r, "health")
  /\ UNCHANGED <<world, rows, cand, alive, cache, hand, deaths, tried, stuck>>

CheckHealth(r) ==
  /\ pc[r] = "health"
  /\ \E a \in {up} \cup (IF MayFail THEN {FALSE} ELSE {}) : alive' = [alive EXCEPT ![r] = a]
  /\ Goto(r, "next")
  /\ UNCHANGED <<world, rows, todo, cand, cache, hand, deaths, tried, stuck>>

Take(r) ==
  /\ pc[r] = "next"
  /\ todo[r] # <<>>
  /\ todo' = [todo EXCEPT ![r] = Tail(@)]
  /\ tried' = tried \cup {Head(todo[r]).ind}

TakeDomain(r) ==
  /\ Take(r)
  /\ Head(todo[r]).ind \in Domains
  /\ cand' = [cand EXCEPT ![r] = Head(todo[r])]
  /\ Goto(r, IF "local_dns" \in Head(todo[r]).done THEN "whois" ELSE "resolve")
  /\ UNCHANGED <<world, rows, alive, cache, hand, deaths, stuck>>

TakeAddress(r) ==
  /\ Take(r)
  /\ Head(todo[r]).ind \in Ips
  /\ alive[r]
  /\ cand' = [cand EXCEPT ![r] = Head(todo[r])]
  /\ left' = [left EXCEPT ![r] = {Head(todo[r]).ind}]
  /\ Goto(r, "addresses")
  /\ UNCHANGED <<world, rows, alive, cache, resolved, profiles, asked, deaths, stuck>>

SkipAddress_Ends(r) ==
  /\ pc[r] = "next"
  /\ todo[r] # <<>>
  /\ Head(todo[r]).ind \in Ips
  /\ ~alive[r]
  /\ todo' = [todo EXCEPT ![r] = <<>>]
  /\ tried' = tried \cup {Head(todo[r]).ind}
  /\ stuck' = stuck \cup {Head(todo[r]).ind}
  /\ UNCHANGED <<world, rows, pc, cand, alive, cache, hand, deaths>>

(* Counted as ip_provider_unavailable; the address keeps its place.         *)
SkipAddress(r) ==
  /\ Take(r)
  /\ Head(todo[r]).ind \in Ips
  /\ ~alive[r]
  /\ stuck' = stuck \cup {Head(todo[r]).ind}
  /\ UNCHANGED <<world, rows, pc, cand, alive, cache, hand, deaths>>

DropHand_KeepsProfiles(r) ==
  /\ resolved' = [resolved EXCEPT ![r] = {}]
  /\ left' = [left EXCEPT ![r] = {}]
  /\ asked' = [asked EXCEPT ![r] = NoOne]
  /\ UNCHANGED profiles

DropHand(r) ==
  /\ resolved' = [resolved EXCEPT ![r] = {}]
  /\ left' = [left EXCEPT ![r] = {}]
  /\ profiles' = [profiles EXCEPT ![r] = {}]
  /\ asked' = [asked EXCEPT ![r] = NoOne]

Forget(r) ==
  /\ DropHand(r)
  /\ cand' = [cand EXCEPT ![r] = NoCandidate]

AfterDns_Stops(r, failed) ==
  Goto(r, IF failed \/ "mewhois" \in cand[r].done THEN "next" ELSE "whois")
    /\ DropHand(r)
    /\ IF failed \/ "mewhois" \in cand[r].done THEN cand' = [cand EXCEPT ![r] = NoCandidate] ELSE UNCHANGED cand

(* The DNS step is over, whether it has failed or not.                      *)
AfterDns(r, failed) ==
  Goto(r, IF "mewhois" \in cand[r].done THEN "next" ELSE "whois")
    /\ DropHand(r)
    /\ IF "mewhois" \in cand[r].done THEN cand' = [cand EXCEPT ![r] = NoCandidate] ELSE UNCHANGED cand

(* No address is found for a name that does not exist.                      *)
Resolve(r, A) ==
  /\ pc[r] = "resolve"
  /\ resolved' = [resolved EXCEPT ![r] = A]
  /\ left' = [left EXCEPT ![r] = A]
  /\ Goto(r, "addresses")
  /\ UNCHANGED <<world, rows, todo, cand, alive, cache, profiles, asked, deaths, tried, stuck>>

Answered_CacheOnly(r, p) == p \in cache[r]

(* _enrich_ip_indicator, the cache and then the table.                      *)
Answered(r, p) == p \in cache[r] \/ meip[p] > 0

(* The profile of an address that has been answered before is taken from    *)
(* get_indicator_detail, which has no normalized_payload: there is none.    *)
CheckAddress(r, p) ==
  /\ pc[r] = "addresses"
  /\ p \in left[r]
  /\ alive[r]
  /\ IF Answered(r, p)
       THEN /\ left' = [left EXCEPT ![r] = @ \ {p}]
            /\ cache' = [cache EXCEPT ![r] = @ \cup {p}]
            /\ UNCHANGED <<pc, asked>>
       ELSE /\ asked' = [asked EXCEPT ![r] = p]
            /\ Goto(r, "lookup")
            /\ UNCHANGED <<left, cache>>
  /\ UNCHANGED <<world, rows, todo, cand, alive, resolved, profiles, deaths, tried, stuck>>

(* With the provider unavailable only the row of the address is written.    *)
PassAddress(r, p) ==
  /\ pc[r] = "addresses"
  /\ p \in left[r]
  /\ ~alive[r]
  /\ left' = [left EXCEPT ![r] = @ \ {p}]
  /\ UNCHANGED <<world, rows, pc, todo, cand, alive, cache, resolved, profiles, asked, deaths, tried, stuck>>

(* lookup_ip and record_indicator_enrichment. *)
LookupAddress(r) ==
  /\ pc[r] = "lookup"
  /\ up
  /\ meip' = [meip EXCEPT ![asked[r]] = @ + 1]
  /\ cache' = [cache EXCEPT ![r] = @ \cup {asked[r]}]
  /\ profiles' = [profiles EXCEPT ![r] = @ \cup {asked[r]}]
  /\ left' = [left EXCEPT ![r] = @ \ {asked[r]}]
  /\ asked' = [asked EXCEPT ![r] = NoOne]
  /\ Goto(r, "addresses")
  /\ UNCHANGED <<world, dns, whois, todo, cand, alive, resolved, deaths, tried, stuck>>

RecordDns(r) ==
  /\ pc[r] = "addresses"
  /\ left[r] = {}
  /\ cand[r].ind \in Domains
  /\ dns' = [dns EXCEPT ![cand[r].ind] = Append(@,
       [ips |-> resolved[r], profiles |-> profiles[r], alive |-> alive[r]])]
  /\ AfterDns(r, FALSE)
  /\ UNCHANGED <<world, whois, meip, todo, alive, cache, deaths, tried, stuck>>

EndAddress(r) ==
  /\ pc[r] = "addresses"
  /\ left[r] = {}
  /\ cand[r].ind \in Ips
  /\ Forget(r)
  /\ Goto(r, "next")
  /\ UNCHANGED <<world, rows, todo, alive, cache, deaths, tried, stuck>>

(* An answer or a transaction may fail, and does while meip is down.        *)
Fails(r) == MayFail \/ (pc[r] = "lookup" /\ ~up)

DnsFails_KeepsRest(r) ==
  /\ pc[r] = "lookup"
  /\ Fails(r)
  /\ cand[r].ind \in Domains
  /\ left' = [left EXCEPT ![r] = @ \ {asked[r]}]
  /\ Goto(r, "addresses")
  /\ UNCHANGED <<world, rows, todo, cand, alive, cache, resolved, profiles, asked, deaths, tried, stuck>>

(* One address that fails is the end of the step for its domain.            *)
DnsFails(r) ==
  /\ pc[r] \in {"resolve", "addresses", "lookup"}
  /\ Fails(r)
  /\ cand[r].ind \in Domains
  /\ stuck' = stuck \cup {cand[r].ind}
  /\ AfterDns(r, TRUE)
  /\ UNCHANGED <<world, rows, todo, alive, cache, deaths, tried>>

AddressFails(r) ==
  /\ pc[r] \in {"addresses", "lookup"}
  /\ Fails(r)
  /\ cand[r].ind \in Ips
  /\ stuck' = stuck \cup {cand[r].ind}
  /\ Forget(r)
  /\ Goto(r, "next")
  /\ UNCHANGED <<world, rows, todo, alive, cache, deaths, tried>>

LookupWhois(r) ==
  /\ pc[r] = "whois"
  /\ whois' = [whois EXCEPT ![cand[r].ind] = @ + 1]
  /\ Forget(r)
  /\ Goto(r, "next")
  /\ UNCHANGED <<world, dns, meip, todo, alive, cache, deaths, tried, stuck>>

WhoisFails(r) ==
  /\ pc[r] = "whois"
  /\ Fails(r)
  /\ stuck' = stuck \cup {cand[r].ind}
  /\ Forget(r)
  /\ Goto(r, "next")
  /\ UNCHANGED <<world, rows, todo, alive, cache, deaths, tried>>

Leave(r) ==
  /\ Goto(r, "idle")
  /\ todo' = [todo EXCEPT ![r] = <<>>]
  /\ alive' = [alive EXCEPT ![r] = FALSE]
  /\ cache' = [cache EXCEPT ![r] = {}]
  /\ Forget(r)

EndRun(r) ==
  /\ pc[r] = "next"
  /\ todo[r] = <<>>
  /\ Leave(r)
  /\ UNCHANGED <<world, rows, deaths, tried, stuck>>

Die(r) ==
  /\ pc[r] # "idle"
  /\ deaths < MaxDeaths
  /\ deaths' = deaths + 1
  /\ Leave(r)
  /\ UNCHANGED <<world, rows, tried, stuck>>

-----------------------------------------------------------------------------
(* What the others do *)

(* A snapshot with a link to i is recorded. *)
LinkIndicator(i) ==
  /\ i \notin linked
  /\ linked' = linked \cup {i}
  /\ UNCHANGED <<sightings, up, rows, pc, todo, cand, alive, cache, hand, deaths, tried, stuck>>

(* A feed sync records an observation of i. *)
SightIndicator(i) ==
  /\ FoldFunction(+, 0, sightings) < MaxSightings
  /\ sightings' = [sightings EXCEPT ![i] = @ + 1]
  /\ UNCHANGED <<linked, up, rows, pc, todo, cand, alive, cache, hand, deaths, tried, stuck>>

MeipTurns ==
  /\ up' = ~up
  /\ UNCHANGED <<linked, sightings, rows, pc, todo, cand, alive, cache, hand, deaths, tried, stuck>>

-----------------------------------------------------------------------------

Init ==
  /\ linked = {}
  /\ sightings = [i \in Indicators |-> 0]
  /\ up \in BOOLEAN
  /\ dns = [d \in Domains |-> <<>>]
  /\ whois = [d \in Domains |-> 0]
  /\ meip = [p \in Ips |-> 0]
  /\ pc = [r \in Runners |-> "idle"]
  /\ todo = [r \in Runners |-> <<>>]
  /\ cand = [r \in Runners |-> NoCandidate]
  /\ alive = [r \in Runners |-> FALSE]
  /\ cache = [r \in Runners |-> {}]
  /\ resolved = [r \in Runners |-> {}]
  /\ left = [r \in Runners |-> {}]
  /\ profiles = [r \in Runners |-> {}]
  /\ asked = [r \in Runners |-> NoOne]
  /\ deaths = 0
  /\ tried = {}
  /\ stuck = {}

Run(r) ==
  \/ ListCandidates(r)
  \/ CheckHealth(r)
  \/ TakeDomain(r)
  \/ TakeAddress(r)
  \/ SkipAddress(r)
  \/ \E A \in Answers : Resolve(r, A)
  \/ \E p \in left[r] : CheckAddress(r, p) \/ PassAddress(r, p)
  \/ LookupAddress(r)
  \/ RecordDns(r)
  \/ EndAddress(r)
  \/ DnsFails(r)
  \/ AddressFails(r)
  \/ LookupWhois(r)
  \/ WhoisFails(r)
  \/ EndRun(r)

Environment ==
  \/ \E i \in Indicators : LinkIndicator(i) \/ SightIndicator(i)
  \/ MeipTurns

Next ==
  \/ \E r \in Runners : Run(r) \/ Die(r)
  \/ Environment

Spec == Init /\ [][Next]_vars

(* The operator starts the command again and again, and its calls end.       *)
FairSpec == Spec /\ \A r \in Runners : WF_vars(Run(r))

-----------------------------------------------------------------------------
(* Properties *)

PC == {"idle", "health", "next", "resolve", "addresses", "lookup", "whois"}

(* Every variable keeps its type, a run takes no more than its limit, and    *)
(* nothing of one candidate is left in hand for the next.                    *)
TypeOK ==
  /\ linked \subseteq Indicators
  /\ sightings \in [Indicators -> Nat]
  /\ up \in BOOLEAN
  /\ dns \in [Domains -> Seq(Payload)]
  /\ whois \in [Domains -> Nat]
  /\ meip \in [Ips -> Nat]
  /\ pc \in [Runners -> PC]
  /\ todo \in [Runners -> Seq(Candidate)]
  /\ cand \in [Runners -> Candidate \cup {NoCandidate}]
  /\ alive \in [Runners -> BOOLEAN]
  /\ cache \in [Runners -> SUBSET Ips]
  /\ resolved \in [Runners -> SUBSET Ips]
  /\ left \in [Runners -> SUBSET Ips]
  /\ profiles \in [Runners -> SUBSET Ips]
  /\ asked \in [Runners -> Ips \cup {NoOne}]
  /\ deaths \in 0 .. MaxDeaths
  /\ stuck \subseteq tried
  /\ tried \subseteq Indicators
  /\ \A r \in Runners : Len(todo[r]) <= Limit
  /\ \A r \in Runners : pc[r] = "lookup" <=> asked[r] # NoOne
  /\ \A r \in Runners : pc[r] \in {"idle", "health", "next"} <=> cand[r] = NoCandidate
  /\ \A r \in Runners : pc[r] = "next" => resolved[r] \cup left[r] \cup profiles[r] = {}

(* An indicator is never answered more often by one provider than runs can   *)
(* overlap: with one run at a time exactly once, although an address is      *)
(* reached as a candidate, through several domains, and again after deaths   *)
(* and failures (the check of the table behind ip_completion_cache, and the  *)
(* completed_providers of the listing).                                      *)
OncePerRunner ==
  /\ \A d \in Domains : Len(dns[d]) <= Cardinality(Runners) /\ whois[d] <= Cardinality(Runners)
  /\ \A p \in Ips : meip[p] <= Cardinality(Runners)

(* What a local_dns payload says is backed by the table: of the addresses in *)
(* one that was recorded with the provider available every one has its meip  *)
(* enrichment, and so has every address that has a profile.  No half-done    *)
(* step leaves a record.                                                     *)
DnsIsBacked ==
  \A d \in Domains : \A n \in 1 .. Len(dns[d]) :
    LET payload == dns[d][n]
    IN /\ payload.profiles \subseteq payload.ips
       /\ \A p \in payload.ips : payload.alive \/ p \in payload.profiles => meip[p] > 0

(* An indicator whose answers are not complete is taken up, or answered      *)
(* through a domain, in the end, however the listing moves, unless it is     *)
(* behind the window, or as many as a run takes of those before it have      *)
(* failed or were skipped: the limit is spent on them again and again.       *)
NotStarved ==
  \A i \in Indicators :
    Open(i) ~> \/ i \in tried
               \/ ~Open(i)
               \/ ~InWindow(i)
               \/ Cardinality(stuck \cap Ahead(i)) >= Limit

(* A failure of resolution or of meip does not keep mewhois from being       *)
(* asked about the domain in the same run.                                   *)
WhoisIsTried ==
  \A r \in Runners, d \in Domains :
    (cand[r].ind = d /\ "mewhois" \notin cand[r].done /\ deaths = 0)
      ~> (deaths > 0 \/ (pc[r] = "whois" /\ cand[r].ind = d))

(* Addresses that domains resolved to while meip was down are looked up by   *)
(* later runs once it is back.                                               *)
AddressesAreBackfilled ==
  <>[]up => \A p \in Ips :
    (\E d \in Domains : \E n \in 1 .. Len(dns[d]) : p \in dns[d][n].ips) ~> meip[p] > 0
=============================================================================
