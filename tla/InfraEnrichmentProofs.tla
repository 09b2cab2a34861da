------------------------ MODULE InfraEnrichmentProofs ------------------------
(* Theorems about InfraEnrichment, for any number of runs that overlap.      *)
EXTENDS InfraEnrichment, FiniteSetTheorems, SequenceTheorems, TLAPS

-----------------------------------------------------------------------------
(* The listing *)

World == linked \subseteq Indicators /\ sightings \in [Indicators -> Nat]

(* The order of the listing is strict and total.                             *)
LEMMA Ordering ==
  ASSUME World
  PROVE  /\ \A i \in Indicators : ~Before(i, i)
         /\ \A i, j, k \in Indicators : Before(i, j) /\ Before(j, k) => Before(i, k)
         /\ \A i, j \in Indicators : i # j => Before(i, j) \/ Before(j, i)
<1> DEFINE Stands(i, n) == n \in 1 .. Len(Standing) /\ Standing[n] = i
           Above(i, j) == \E m, n \in 1 .. Len(Standing) : m < n /\ Standing[m] = i /\ Standing[n] = j
<1>1. Len(Standing) \in Nat
  BY StandingAssumption
<1>2. \A i \in Indicators : \E n : Stands(i, n)
  BY StandingAssumption
<1>3. \A i, m, n : Stands(i, m) /\ Stands(i, n) => m = n
  BY StandingAssumption
<1>4. \A i \in Indicators : sightings[i] \in Nat
  BY DEF World
<1>5. \A i, j \in Indicators : Before(i, j) <=>
        sightings[i] > sightings[j] \/ (sightings[i] = sightings[j] /\ Above(i, j))
  BY DEF Before
<1>6. \A i, j : Above(i, j) <=> \E m, n : Stands(i, m) /\ Stands(j, n) /\ m < n
  BY <1>1
<1> HIDE DEF Above
<1>7. \A i \in Indicators : ~Above(i, i)
  BY <1>1, <1>3, <1>6
<1>8. \A i, j, k \in Indicators : Above(i, j) /\ Above(j, k) => Above(i, k)
  <2> SUFFICES ASSUME NEW i \in Indicators, NEW j \in Indicators, NEW k \in Indicators,
                      Above(i, j), Above(j, k)
               PROVE  Above(i, k)
    OBVIOUS
  <2>1. PICK m, n : Stands(i, m) /\ Stands(j, n) /\ m < n
    BY <1>6
  <2>2. PICK p, q : Stands(j, p) /\ Stands(k, q) /\ p < q
    BY <1>6
  <2>3. n = p
    BY <1>3, <2>1, <2>2
  <2>4. m < q
    BY <1>1, <2>1, <2>2, <2>3
  <2> QED BY <1>6, <2>1, <2>2, <2>4
<1>9. \A i, j \in Indicators : i # j => Above(i, j) \/ Above(j, i)
  <2> SUFFICES ASSUME NEW i \in Indicators, NEW j \in Indicators, i # j
               PROVE  Above(i, j) \/ Above(j, i)
    OBVIOUS
  <2>1. PICK m : Stands(i, m)
    BY <1>2
  <2>2. PICK n : Stands(j, n)
    BY <1>2
  <2>3. m \in Nat /\ n \in Nat /\ m # n
    BY <1>1, <2>1, <2>2
  <2>4. m < n \/ n < m
    BY <2>3
  <2> QED BY <1>6, <2>1, <2>2, <2>4
<1> HIDE DEF Stands
<1>10. \A i, j, k \in Indicators : Before(i, j) /\ Before(j, k) => Before(i, k)
  BY <1>4, <1>5, <1>8
<1>11. \A i, j \in Indicators : i # j => Before(i, j) \/ Before(j, i)
  BY <1>4, <1>5, <1>9
<1> QED BY <1>4, <1>5, <1>7, <1>10, <1>11

LEMMA IndicatorsAreFinite == IsFiniteSet(Indicators)
<1> DEFINE f == [n \in 1 .. Len(Standing) |-> Standing[n]]
<1>1. Len(Standing) \in Nat
  BY StandingAssumption
<1>2. IsFiniteSet(1 .. Len(Standing))
  BY <1>1, FS_Interval
<1>3. f \in [1 .. Len(Standing) -> Indicators]
  BY StandingAssumption
<1>4. f \in Surjection(1 .. Len(Standing), Indicators)
  BY <1>3, StandingAssumption DEF Surjection
<1> QED BY <1>2, <1>4, FS_Surjection

(* The place of i in a set of linked indicators, from 0.                     *)
Place(i, S) == Cardinality(Ahead(i) \cap S)

(* In any set of linked indicators there is exactly one at each place.       *)
LEMMA Places ==
  ASSUME World, NEW S \in SUBSET linked
  PROVE  /\ IsFiniteSet(S)
         /\ \A i \in S : Place(i, S) \in 0 .. Cardinality(S) - 1
         /\ \A i, j \in S : Place(i, S) = Place(j, S) => i = j
         /\ \A n \in 1 .. Cardinality(S) : \E i \in S : Place(i, S) = n - 1
<1> DEFINE N == Cardinality(S)
           f == [i \in S |-> Place(i, S)]
<1>1. S \subseteq Indicators /\ IsFiniteSet(S)
  BY IndicatorsAreFinite, FS_Subset DEF World
<1>2. N \in Nat
  BY <1>1, FS_CardinalityType
<1>0. \A i \in S : IsFiniteSet(Ahead(i) \cap S)
  BY <1>1, FS_Subset
<1>3. \A i \in S : Place(i, S) \in Nat
  BY <1>0, FS_CardinalityType DEF Place
<1>4. \A i \in S : Place(i, S) < N
  <2> SUFFICES ASSUME NEW i \in S PROVE Place(i, S) < N
    OBVIOUS
  <2>1. i \notin Ahead(i)
    BY <1>1, Ordering DEF Ahead
  <2>2. Place(i, S) <= N /\ Place(i, S) # N
    BY <1>1, <2>1, FS_Subset DEF Place
  <2>3. Place(i, S) \in Nat
    BY <1>3
  <2> HIDE DEF N
  <2> QED BY <1>2, <2>2, <2>3
<1>5. \A i, j \in S : Before(i, j) => Place(i, S) < Place(j, S)
  <2> SUFFICES ASSUME NEW i \in S, NEW j \in S, Before(i, j)
               PROVE  Place(i, S) < Place(j, S)
    OBVIOUS
  <2>1. Ahead(i) \cap S \subseteq Ahead(j) \cap S
    BY <1>1, Ordering DEF Ahead, World
  <2>2. i \in Ahead(j) \cap S /\ i \notin Ahead(i)
    BY <1>1, Ordering DEF Ahead
  <2>3. Place(i, S) <= Place(j, S) /\ Place(i, S) # Place(j, S)
    BY <1>0, <2>1, <2>2, FS_Subset DEF Place
  <2>4. Place(i, S) \in Nat /\ Place(j, S) \in Nat
    BY <1>3
  <2> QED BY <2>3, <2>4
<1>6. \A i, j \in S : Place(i, S) = Place(j, S) => i = j
  <2> SUFFICES ASSUME NEW i \in S, NEW j \in S, Place(i, S) = Place(j, S), i # j
               PROVE  FALSE
    OBVIOUS
  <2>1. Before(i, j) \/ Before(j, i)
    BY <1>1, Ordering
  <2>2. Place(i, S) < Place(j, S) \/ Place(j, S) < Place(i, S)
    BY <1>5, <2>1
  <2>3. Place(i, S) \in Nat /\ Place(j, S) \in Nat
    BY <1>3
  <2> QED BY <2>2, <2>3
<1>8. \A i \in S : Place(i, S) \in 0 .. N - 1
  <2> SUFFICES ASSUME NEW i \in S PROVE Place(i, S) \in 0 .. N - 1
    OBVIOUS
  <2>1. Place(i, S) \in Nat /\ Place(i, S) < N
    BY <1>3, <1>4
  <2> HIDE DEF N
  <2> QED BY <1>2, <2>1
<1>7. \A n \in 1 .. N : \E i \in S : Place(i, S) = n - 1
  <2> DEFINE T == 0 .. N - 1
  <2>1. IsFiniteSet(T) /\ Cardinality(T) = N
    BY <1>2, FS_Interval
  <2>2. f \in [S -> T]
    BY <1>8
  <2>3. f \in Injection(S, T)
    BY <1>6, <2>2 DEF Injection, IsInjective
  <2>4. f \in Surjection(S, T)
    BY <2>1, <2>3, FS_Injection
  <2>5. \A t \in T : \E i \in S : f[i] = t
    BY <2>4 DEF Surjection
  <2> SUFFICES ASSUME NEW n \in 1 .. N PROVE \E i \in S : Place(i, S) = n - 1
    OBVIOUS
  <2>6. n - 1 \in T
    BY <1>2
  <2>7. PICK i \in S : f[i] = n - 1
    BY <2>5, <2>6
  <2> QED BY <2>7
<1> QED BY <1>1, <1>6, <1>7, <1>8

(* A listing has no more candidates than the limit, each once, and each with *)
(* something left to do.                                                     *)
LEMMA ListingIsSound ==
  ASSUME World
  PROVE  /\ Listing \in Seq(Candidate)
         /\ Len(Listing) <= Limit
         /\ \A n \in 1 .. Len(Listing) :
              /\ Listing[n].done = Completed(Listing[n].ind)
              /\ Open(Listing[n].ind)
         /\ \A m, n \in 1 .. Len(Listing) : Listing[m].ind = Listing[n].ind => m = n
<1> DEFINE offered == {i \in Indicators : Open(i) /\ InWindow(i)}
           N == Cardinality(Listed)
           At(n) == CHOOSE i \in Listed : Place(i, Listed) = n - 1
<1>1. /\ offered \subseteq linked
      /\ Listed = {i \in offered : Place(i, offered) < Limit}
  BY DEF Listed, Open, Place
<1>2. /\ Listed \in SUBSET linked
      /\ Listed \subseteq Indicators
      /\ \A i \in Listed : Open(i)
  BY <1>1
<1>3. /\ IsFiniteSet(Listed)
      /\ \A n \in 1 .. N : \E i \in Listed : Place(i, Listed) = n - 1
  BY <1>2, Places
<1>4. N \in Nat
  BY <1>3, FS_CardinalityType
<1>5. \A n \in 1 .. N : At(n) \in Listed /\ Place(At(n), Listed) = n - 1
  BY <1>3
<1>6. Listing = [n \in 1 .. N |-> [ind |-> At(n), done |-> Completed(At(n))]]
  BY DEF Listing, Place
<1> HIDE DEF At
<1>7. \A i : Completed(i) \in SUBSET Providers
  BY DEF Completed
<1>12. \A n \in 1 .. N : [ind |-> At(n), done |-> Completed(At(n))] \in Candidate
  BY <1>2, <1>5, <1>7 DEF Candidate
<1>8. Listing \in Seq(Candidate) /\ Len(Listing) = N
  <2> HIDE DEF N
  <2>1. Listing \in [1 .. N -> Candidate]
    BY <1>6, <1>12
  <2> QED BY <1>4, <2>1
<1>9. N <= Limit
  <2> SUFFICES ASSUME N > 0 PROVE N <= Limit
    BY <1>4, LimitAssumption
  <2>1. N \in 1 .. N
    BY <1>4
  <2>2. PICK i \in Listed : Place(i, Listed) = N - 1
    BY <1>3, <2>1
  <2>3. Place(i, offered) < Limit /\ Place(i, offered) \in Nat
    <3>1. IsFiniteSet(offered)
      BY <1>1, Places
    <3>2. Place(i, offered) \in Nat
      BY <3>1, FS_Subset, FS_CardinalityType DEF Place
    <3> QED BY <1>1, <3>2
  <2>4. Place(i, Listed) <= Place(i, offered)
    <3>1. IsFiniteSet(Ahead(i) \cap offered)
      BY <1>1, Places, FS_Subset
    <3>2. Ahead(i) \cap Listed \in SUBSET (Ahead(i) \cap offered)
      BY <1>1
    <3> QED BY <3>1, <3>2, FS_Subset DEF Place
  <2> HIDE DEF offered
  <2> QED BY <1>4, <2>2, <2>3, <2>4, LimitAssumption
<1>10. \A n \in 1 .. Len(Listing) :
         Listing[n].done = Completed(Listing[n].ind) /\ Open(Listing[n].ind)
  BY <1>2, <1>5, <1>6, <1>8
<1>11. \A m, n \in 1 .. Len(Listing) : Listing[m].ind = Listing[n].ind => m = n
  <2> SUFFICES ASSUME NEW m \in 1 .. N, NEW n \in 1 .. N, At(m) = At(n)
               PROVE  m = n
    BY <1>6, <1>8
  <2>1. m - 1 = n - 1
    BY <1>5
  <2> QED BY <1>4, <2>1
<1> QED BY <1>8, <1>9, <1>10, <1>11

-----------------------------------------------------------------------------
(* Types, and what a runner has in hand *)

Types ==
  /\ World
  /\ up \in BOOLEAN
  /\ dns \in [Domains -> Seq(Payload)]
  /\ whois \in [Domains -> Nat]
  /\ meip \in [Ips -> Nat]
  /\ pc \in [Runners -> PC]
  /\ todo \in [Runners -> Seq(Candidate)]
  /\ cand \in [Runners -> Candidate \cup {NoCandidate}]
  /\ alive \in [Runners -> BOOLEAN]
  /\ cache \in [Runners -> SUBSET Ips]
  /\ resolved \in [Runners -> SUBSET Ips]
  /\ left \in [Runners -> SUBSET Ips]
  /\ profiles \in [Runners -> SUBSET Ips]
  /\ asked \in [Runners -> Ips \cup {NoOne}]
  /\ deaths \in 0 .. MaxDeaths
  /\ stuck \subseteq tried
  /\ tried \subseteq Indicators

(* The hand is empty between candidates; an address that is asked about is   *)
(* left to do, and all addresses are resolved ones.                          *)
Hand(r) ==
  /\ pc[r] = "lookup" <=> asked[r] # NoOne
  /\ pc[r] \in {"idle", "health", "next"} <=> cand[r] = NoCandidate
  /\ pc[r] \notin {"addresses", "lookup"} => resolved[r] = {} /\ left[r] = {} /\ profiles[r] = {}
  /\ pc[r] = "lookup" => asked[r] \in left[r]
  /\ pc[r] \in {"resolve", "whois"} => cand[r].ind \in Domains
  /\ cand[r] # NoCandidate => cand[r].ind \in tried
  /\ pc[r] \in {"addresses", "lookup"} /\ cand[r].ind \in Domains => left[r] \cup profiles[r] \subseteq resolved[r]
  /\ Len(todo[r]) <= Limit

TypeInv == Types /\ \A r \in Runners : Hand(r)

(* The head of a list and its tail. *)
LEMMA ListIsTaken ==
  ASSUME NEW t \in Seq(Candidate), t # <<>>
  PROVE  /\ Head(t) \in Candidate /\ Head(t) = t[1] /\ Head(t) # NoCandidate
         /\ Head(t).ind \in Indicators /\ Head(t).done \subseteq Providers
         /\ Tail(t) \in Seq(Candidate)
         /\ Len(t) \in Nat /\ 1 \in 1 .. Len(t)
         /\ Len(Tail(t)) = Len(t) - 1
         /\ \A n \in 1 .. Len(Tail(t)) : Tail(t)[n] = t[n + 1] /\ n + 1 \in 1 .. Len(t)
<1>1. Head(t) \in Candidate /\ Head(t) = t[1]
  OBVIOUS
<1>2. Len(t) \in Nat /\ Len(t) # 0
  OBVIOUS
<1>3. /\ Tail(t) \in Seq(Candidate)
      /\ Len(Tail(t)) = Len(t) - 1
      /\ \A n \in 1 .. Len(Tail(t)) : Tail(t)[n] = t[n + 1]
  BY HeadTailProperties
<1>4. Head(t).ind \in Indicators /\ Head(t).done \subseteq Providers
  BY <1>1 DEF Candidate
<1>5. Head(t) # NoCandidate
  BY <1>4, NoOneAssumption DEF NoCandidate, NoOne
<1> QED BY <1>1, <1>2, <1>3, <1>4, <1>5

LEMMA TypeInit == Init => TypeInv
BY NoOneAssumption, LimitAssumption, BoundsAssumption
   DEF Init, TypeInv, Types, Hand, World, PC, NoCandidate, NoOne

(* A hand is as it was when its runner does nothing.                         *)
LEMMA HandIsKept ==
  ASSUME NEW x \in Runners, Hand(x),
         pc'[x] = pc[x], todo'[x] = todo[x], cand'[x] = cand[x], resolved'[x] = resolved[x],
         left'[x] = left[x], profiles'[x] = profiles[x], asked'[x] = asked[x],
         tried \subseteq tried'
  PROVE  Hand(x)'
<1>1. cand'[x] # NoCandidate => cand'[x].ind \in tried'
  BY DEF Hand
<1>2. Len(todo'[x]) <= Limit
  BY DEF Hand
<1> QED BY <1>1, <1>2 DEF Hand, NoCandidate

(* The end of a DNS step leaves the hand empty, for mewhois or the next name. *)
LEMMA AfterDnsIsRight ==
  ASSUME NEW r \in Runners, Types, Hand(r), pc[r] \in {"resolve", "addresses", "lookup"},
         cand[r].ind \in Domains, NEW f, AfterDns(r, f), todo' = todo, tried' = tried
  PROVE  /\ Hand(r)'
         /\ pc' \in [Runners -> PC]
         /\ cand' \in [Runners -> Candidate \cup {NoCandidate}]
         /\ resolved' \in [Runners -> SUBSET Ips] /\ left' \in [Runners -> SUBSET Ips]
         /\ profiles' \in [Runners -> SUBSET Ips] /\ asked' \in [Runners -> Ips \cup {NoOne}]
<1>1. /\ resolved'[r] = {} /\ left'[r] = {} /\ profiles'[r] = {} /\ asked'[r] = NoOne
      /\ resolved' \in [Runners -> SUBSET Ips] /\ left' \in [Runners -> SUBSET Ips]
      /\ profiles' \in [Runners -> SUBSET Ips] /\ asked' \in [Runners -> Ips \cup {NoOne}]
  BY DEF AfterDns, DropHand, Types
<1>2. CASE "mewhois" \in cand[r].done
  <2>1. pc' = [pc EXCEPT ![r] = "next"] /\ cand' = [cand EXCEPT ![r] = NoCandidate]
    BY <1>2 DEF AfterDns, Goto
  <2> QED BY <1>1, <2>1 DEF Types, Hand, PC, NoCandidate, NoOne
<1>3. CASE "mewhois" \notin cand[r].done
  <2>1. pc' = [pc EXCEPT ![r] = "whois"] /\ cand' = cand
    BY <1>3 DEF AfterDns, Goto
  <2> QED BY <1>1, <2>1 DEF Types, Hand, PC, NoCandidate, NoOne
<1> QED BY <1>2, <1>3

LEMMA TypeStep == TypeInv /\ [Next]_vars => TypeInv'
<1> SUFFICES ASSUME TypeInv, [Next]_vars PROVE TypeInv'
  OBVIOUS
<1>0. Types /\ \A x \in Runners : Hand(x)
  BY DEF TypeInv
<1> USE DEF world, rows, hand
<1>1. ASSUME NEW r \in Runners, ListCandidates(r) PROVE TypeInv'
  <2>1. Types'
    BY <1>0, <1>1, ListingIsSound DEF ListCandidates, Goto, Types, World, Hand, PC
  <2>2. ASSUME NEW x \in Runners, x # r PROVE Hand(x)'
    BY <1>0, <1>1, <2>2, HandIsKept DEF ListCandidates, Goto, Types
  <2>3. Hand(r)'
    BY <1>0, <1>1, ListingIsSound, NoOneAssumption, LimitAssumption, KindsAssumption
       DEF ListCandidates, Goto, Types, World, Hand, PC, NoCandidate, NoOne
  <2> QED BY <2>1, <2>2, <2>3 DEF TypeInv
<1>2. ASSUME NEW r \in Runners, CheckHealth(r) PROVE TypeInv'
  <2>0. PICK a \in {up} \cup (IF MayFail THEN {FALSE} ELSE {}) : alive' = [alive EXCEPT ![r] = a]
    BY <1>2 DEF CheckHealth
  <2>5. a \in BOOLEAN
    BY <1>0, Zenon DEF Types
  <2>6. alive' \in [Runners -> BOOLEAN]
    BY <1>0, <2>0, <2>5, Zenon DEF Types
  <2>1. Types'
    BY <1>0, <1>2, <2>6 DEF CheckHealth, Goto, Types, World, Hand, PC
  <2>2. ASSUME NEW x \in Runners, x # r PROVE Hand(x)'
    BY <1>0, <1>2, <2>2, HandIsKept DEF CheckHealth, Goto, Types
  <2>3. Hand(r)'
    BY <1>0, <1>2, <2>6, NoOneAssumption, LimitAssumption, KindsAssumption
       DEF CheckHealth, Goto, Types, World, Hand, PC, NoCandidate, NoOne
  <2> QED BY <2>1, <2>2, <2>3 DEF TypeInv
<1>3. ASSUME NEW r \in Runners, TakeDomain(r) PROVE TypeInv'
  <2>0. todo[r] \in Seq(Candidate) /\ todo[r] # <<>>
    BY <1>0, <1>3 DEF TakeDomain, Take, Goto, Types
  <2>1. Types'
    BY <1>0, <1>3, <2>0, ListIsTaken DEF TakeDomain, Take, Goto, Types, World, Hand, PC
  <2>2. ASSUME NEW x \in Runners, x # r PROVE Hand(x)'
    BY <1>0, <1>3, <2>2, HandIsKept DEF TakeDomain, Take, Goto, Types
  <2>3. Hand(r)'
    BY <1>0, <1>3, <2>0, ListIsTaken, NoOneAssumption, LimitAssumption, KindsAssumption
       DEF TakeDomain, Take, Goto, Types, World, Hand, PC, NoCandidate, NoOne
  <2> QED BY <2>1, <2>2, <2>3 DEF TypeInv
<1>4. ASSUME NEW r \in Runners, TakeAddress(r) PROVE TypeInv'
  <2>0. todo[r] \in Seq(Candidate) /\ todo[r] # <<>>
    BY <1>0, <1>4 DEF TakeAddress, Take, Goto, Types
  <2>1. Types'
    BY <1>0, <1>4, <2>0, ListIsTaken DEF TakeAddress, Take, Goto, Types, World, Hand, PC
  <2>2. ASSUME NEW x \in Runners, x # r PROVE Hand(x)'
    BY <1>0, <1>4, <2>2, HandIsKept DEF TakeAddress, Take, Goto, Types
  <2>3. Hand(r)'
    BY <1>0, <1>4, <2>0, ListIsTaken, NoOneAssumption, LimitAssumption, KindsAssumption
       DEF TakeAddress, Take, Goto, Types, World, Hand, PC, NoCandidate, NoOne
  <2> QED BY <2>1, <2>2, <2>3 DEF TypeInv
<1>5. ASSUME NEW r \in Runners, SkipAddress(r) PROVE TypeInv'
  <2>0. todo[r] \in Seq(Candidate) /\ todo[r] # <<>>
    BY <1>0, <1>5 DEF SkipAddress, Take, Types
  <2>1. Types'
    BY <1>0, <1>5, <2>0, ListIsTaken DEF SkipAddress, Take, Types, World, Hand, PC
  <2>2. ASSUME NEW x \in Runners, x # r PROVE Hand(x)'
    BY <1>0, <1>5, <2>2, HandIsKept DEF SkipAddress, Take, Types
  <2>3. Hand(r)'
    BY <1>0, <1>5, <2>0, ListIsTaken, NoOneAssumption, LimitAssumption, KindsAssumption
       DEF SkipAddress, Take, Types, World, Hand, PC, NoCandidate, NoOne
  <2> QED BY <2>1, <2>2, <2>3 DEF TypeInv
<1>6. ASSUME NEW r \in Runners, \E A \in Answers : Resolve(r, A) PROVE TypeInv'
  <2>4. PICK A \in Answers : Resolve(r, A)
    BY <1>6
  <2>1. Types'
    BY <1>0, <2>4, AnswersAssumption DEF Resolve, Goto, Types, World, Hand, PC
  <2>2. ASSUME NEW x \in Runners, x # r PROVE Hand(x)'
    BY <1>0, <2>4, <2>2, HandIsKept DEF Resolve, Goto, Types
  <2>3. Hand(r)'
    BY <1>0, <2>4, NoOneAssumption, LimitAssumption, KindsAssumption, AnswersAssumption, ZenonT(30)
       DEF Resolve, Goto, Types, World, Hand, PC, NoCandidate, NoOne
  <2> QED BY <2>1, <2>2, <2>3 DEF TypeInv
<1>7. ASSUME NEW r \in Runners, \E p \in left[r] : CheckAddress(r, p) PROVE TypeInv'
  <2>4. PICK p \in left[r] : CheckAddress(r, p)
    BY <1>7
  <2>2. ASSUME NEW x \in Runners, x # r PROVE Hand(x)'
    BY <1>0, <2>4, <2>2, HandIsKept DEF CheckAddress, Goto, Types
  <2>5. CASE Answered(r, p)
    <3>1. /\ left' = [left EXCEPT ![r] = @ \ {p}] /\ cache' = [cache EXCEPT ![r] = @ \cup {p}]
          /\ UNCHANGED <<pc, asked>>
      BY <2>4, <2>5 DEF CheckAddress
    <3>2. p \in Ips
      BY <1>0, <2>4 DEF CheckAddress, Types
    <3> HIDE DEF Answered
    <3>3. Types'
      BY <1>0, <2>4, <3>1, <3>2 DEF CheckAddress, Types, World
    <3>4. Hand(r)'
      BY <1>0, <2>4, <3>1, <3>2 DEF CheckAddress, Types, Hand, NoCandidate, NoOne
    <3> QED BY <2>2, <3>3, <3>4 DEF TypeInv
  <2>6. CASE ~Answered(r, p)
    <3>1. asked' = [asked EXCEPT ![r] = p] /\ pc' = [pc EXCEPT ![r] = "lookup"] /\ UNCHANGED <<left, cache>>
      BY <2>4, <2>6 DEF CheckAddress, Goto
    <3>2. p \in Ips /\ p # NoOne
      BY <1>0, <2>4, NoOneAssumption DEF CheckAddress, Types, NoOne, Indicators
    <3>3. Types'
      BY <1>0, <2>4, <3>1, <3>2 DEF CheckAddress, Types, World, PC
    <3>4. Hand(r)'
      BY <1>0, <2>4, <3>1, <3>2 DEF CheckAddress, Types, Hand, NoCandidate, NoOne
    <3> QED BY <2>2, <3>3, <3>4 DEF TypeInv
  <2> QED BY <2>5, <2>6
<1>8. ASSUME NEW r \in Runners, \E p \in left[r] : PassAddress(r, p) PROVE TypeInv'
  <2>4. PICK p \in left[r] : PassAddress(r, p)
    BY <1>8
  <2>1. Types'
    BY <1>0, <2>4 DEF PassAddress, Types, World, Hand, PC
  <2>2. ASSUME NEW x \in Runners, x # r PROVE Hand(x)'
    BY <1>0, <2>4, <2>2, HandIsKept DEF PassAddress, Types
  <2>3. Hand(r)'
    <3>1. UNCHANGED <<pc, todo, cand, resolved, profiles, asked, tried>> /\ pc[r] = "addresses" /\ left'[r] = left[r] \ {p}
      BY <1>0, <2>4 DEF PassAddress, Types
    <3> QED BY <1>0, <3>1 DEF Hand, NoCandidate, NoOne
  <2> QED BY <2>1, <2>2, <2>3 DEF TypeInv
<1>9. ASSUME NEW r \in Runners, LookupAddress(r) PROVE TypeInv'
  <2>1. Types'
    BY <1>0, <1>9 DEF LookupAddress, Goto, Types, World, Hand, PC
  <2>2. ASSUME NEW x \in Runners, x # r PROVE Hand(x)'
    BY <1>0, <1>9, <2>2, HandIsKept DEF LookupAddress, Goto, Types
  <2>3. Hand(r)'
    <3>1. /\ UNCHANGED <<todo, cand, resolved, tried>>
         /\ pc[r] = "lookup" /\ pc'[r] = "addresses" /\ asked'[r] = NoOne
         /\ left'[r] = left[r] \ {asked[r]} /\ profiles'[r] = profiles[r] \cup {asked[r]}
      BY <1>0, <1>9 DEF LookupAddress, Goto, Types
    <3> QED BY <1>0, <3>1 DEF Hand, NoCandidate, NoOne
  <2> QED BY <2>1, <2>2, <2>3 DEF TypeInv
<1>10. ASSUME NEW r \in Runners, RecordDns(r) PROVE TypeInv'
  <2>0. cand[r].ind \in Domains /\ dns[cand[r].ind] \in Seq(Payload)
    BY <1>0, <1>10 DEF RecordDns, Types
  <2>5. [ips |-> resolved[r], profiles |-> profiles[r], alive |-> alive[r]] \in Payload
    BY <1>0 DEF Types, Payload
  <2>6. AfterDns(r, FALSE) /\ todo' = todo /\ tried' = tried
    BY <1>10 DEF RecordDns
  <2>7. pc[r] \in {"resolve", "addresses", "lookup"} /\ cand[r].ind \in Domains
    BY <1>10 DEF RecordDns
  <2>8. Append(dns[cand[r].ind], [ips |-> resolved[r], profiles |-> profiles[r], alive |-> alive[r]])
          \in Seq(Payload)
    BY <2>0, <2>5
  <2>9. dns' \in [Domains -> Seq(Payload)]
    BY <1>0, <1>10, <2>0, <2>8 DEF RecordDns, Types
  <2>1. Types'
    BY <1>0, <1>10, <2>6, <2>7, AfterDnsIsRight, <2>9 DEF RecordDns, Types, World, Hand, PC
  <2>2. ASSUME NEW x \in Runners, x # r PROVE Hand(x)'
    BY <1>0, <1>10, <2>2, HandIsKept DEF RecordDns, AfterDns, DropHand, Goto, Types
  <2>3. Hand(r)'
    BY <1>0, <2>6, <2>7, AfterDnsIsRight
  <2> QED BY <2>1, <2>2, <2>3 DEF TypeInv
<1>11. ASSUME NEW r \in Runners, EndAddress(r) PROVE TypeInv'
  <2>1. Types'
    BY <1>0, <1>11 DEF EndAddress, Forget, DropHand, Goto, Types, World, Hand, PC
  <2>2. ASSUME NEW x \in Runners, x # r PROVE Hand(x)'
    BY <1>0, <1>11, <2>2, HandIsKept DEF EndAddress, Forget, DropHand, Goto, Types
  <2>3. Hand(r)'
    BY <1>0, <1>11, NoOneAssumption, LimitAssumption, KindsAssumption
       DEF EndAddress, Forget, DropHand, Goto, Types, World, Hand, PC, NoCandidate, NoOne
  <2> QED BY <2>1, <2>2, <2>3 DEF TypeInv
<1>12. ASSUME NEW r \in Runners, DnsFails(r) PROVE TypeInv'
  <2>6. AfterDns(r, TRUE) /\ todo' = todo /\ tried' = tried
    BY <1>12 DEF DnsFails
  <2>7. pc[r] \in {"resolve", "addresses", "lookup"} /\ cand[r].ind \in Domains
    BY <1>12 DEF DnsFails
  <2>1. Types'
    BY <1>0, <1>12, <2>6, <2>7, AfterDnsIsRight DEF DnsFails, Types, World, Hand, PC
  <2>2. ASSUME NEW x \in Runners, x # r PROVE Hand(x)'
    BY <1>0, <1>12, <2>2, HandIsKept DEF DnsFails, AfterDns, DropHand, Goto, Types
  <2>3. Hand(r)'
    BY <1>0, <2>6, <2>7, AfterDnsIsRight
  <2> QED BY <2>1, <2>2, <2>3 DEF TypeInv
<1>13. ASSUME NEW r \in Runners, AddressFails(r) PROVE TypeInv'
  <2>1. Types'
    BY <1>0, <1>13 DEF AddressFails, Forget, DropHand, Goto, Types, World, Hand, PC
  <2>2. ASSUME NEW x \in Runners, x # r PROVE Hand(x)'
    BY <1>0, <1>13, <2>2, HandIsKept DEF AddressFails, Forget, DropHand, Goto, Types
  <2>3. Hand(r)'
    BY <1>0, <1>13, NoOneAssumption, LimitAssumption, KindsAssumption
       DEF AddressFails, Forget, DropHand, Goto, Types, World, Hand, PC, NoCandidate, NoOne
  <2> QED BY <2>1, <2>2, <2>3 DEF TypeInv
<1>14. ASSUME NEW r \in Runners, LookupWhois(r) PROVE TypeInv'
  <2>1. Types'
    BY <1>0, <1>14 DEF LookupWhois, Forget, DropHand, Goto, Types, World, Hand, PC
  <2>2. ASSUME NEW x \in Runners, x # r PROVE Hand(x)'
    BY <1>0, <1>14, <2>2, HandIsKept DEF LookupWhois, Forget, DropHand, Goto, Types
  <2>3. Hand(r)'
    BY <1>0, <1>14, NoOneAssumption, LimitAssumption, KindsAssumption
       DEF LookupWhois, Forget, DropHand, Goto, Types, World, Hand, PC, NoCandidate, NoOne
  <2> QED BY <2>1, <2>2, <2>3 DEF TypeInv
<1>15. ASSUME NEW r \in Runners, WhoisFails(r) PROVE TypeInv'
  <2>1. Types'
    BY <1>0, <1>15 DEF WhoisFails, Forget, DropHand, Goto, Types, World, Hand, PC
  <2>2. ASSUME NEW x \in Runners, x # r PROVE Hand(x)'
    BY <1>0, <1>15, <2>2, HandIsKept DEF WhoisFails, Forget, DropHand, Goto, Types
  <2>3. Hand(r)'
    BY <1>0, <1>15, NoOneAssumption, LimitAssumption, KindsAssumption
       DEF WhoisFails, Forget, DropHand, Goto, Types, World, Hand, PC, NoCandidate, NoOne
  <2> QED BY <2>1, <2>2, <2>3 DEF TypeInv
<1>16. ASSUME NEW r \in Runners, EndRun(r) PROVE TypeInv'
  <2>1. Types'
    BY <1>0, <1>16 DEF EndRun, Leave, Forget, DropHand, Goto, Types, World, Hand, PC
  <2>2. ASSUME NEW x \in Runners, x # r PROVE Hand(x)'
    BY <1>0, <1>16, <2>2, HandIsKept DEF EndRun, Leave, Forget, DropHand, Goto, Types
  <2>3. Hand(r)'
    BY <1>0, <1>16, NoOneAssumption, LimitAssumption, KindsAssumption
       DEF EndRun, Leave, Forget, DropHand, Goto, Types, World, Hand, PC, NoCandidate, NoOne
  <2> QED BY <2>1, <2>2, <2>3 DEF TypeInv
<1>17. ASSUME NEW r \in Runners, Die(r) PROVE TypeInv'
  <2>1. Types'
    BY <1>0, <1>17, BoundsAssumption DEF Die, Leave, Forget, DropHand, Goto, Types, World, Hand, PC
  <2>2. ASSUME NEW x \in Runners, x # r PROVE Hand(x)'
    BY <1>0, <1>17, <2>2, HandIsKept DEF Die, Leave, Forget, DropHand, Goto, Types
  <2>3. Hand(r)'
    BY <1>0, <1>17, NoOneAssumption, LimitAssumption, KindsAssumption
       DEF Die, Leave, Forget, DropHand, Goto, Types, World, Hand, PC, NoCandidate, NoOne
  <2> QED BY <2>1, <2>2, <2>3 DEF TypeInv
<1>18. CASE Environment
  <2>1. Types'
    <3>1. ASSUME NEW i \in Indicators, LinkIndicator(i) PROVE Types'
      BY <1>0, <3>1 DEF LinkIndicator, Types, World
    <3>3. ASSUME NEW i \in Indicators, SightIndicator(i) PROVE Types'
      <4>1. sightings' = [sightings EXCEPT ![i] = @ + 1]
        BY <3>3 DEF SightIndicator
      <4>2. sightings' \in [Indicators -> Nat]
        BY <1>0, <4>1 DEF Types, World
      <4> QED BY <1>0, <3>3, <4>2 DEF SightIndicator, Types, World
    <3>2. CASE MeipTurns
      <4>1. up' \in BOOLEAN
        BY <3>2, Zenon DEF MeipTurns
      <4> QED BY <1>0, <3>2, <4>1 DEF MeipTurns, Types, World
    <3> QED BY <1>18, <3>1, <3>2, <3>3 DEF Environment
  <2>2. ASSUME NEW x \in Runners PROVE Hand(x)'
    BY <1>0, <1>18, <2>2, HandIsKept DEF Environment, LinkIndicator, SightIndicator, MeipTurns
  <2> QED BY <2>1, <2>2 DEF TypeInv
<1>19. CASE UNCHANGED vars
  BY <1>0, <1>19 DEF vars, TypeInv, Types, World, Hand
<1> QED BY <1>1, <1>2, <1>3, <1>4, <1>5, <1>6, <1>7, <1>8, <1>9, <1>10, <1>11, <1>12, <1>13, <1>14, <1>15,
       <1>16, <1>17, <1>18, <1>19 DEF Next, Run

(* Every variable keeps its type, whatever runs overlap, fail and die.       *)
THEOREM TypeCorrect == Spec => []TypeOK
<1>1. TypeInv => TypeOK
  BY DEF TypeInv, Types, Hand, TypeOK, World
<1> QED BY TypeInit, TypeStep, <1>1, PTL DEF Spec

-----------------------------------------------------------------------------
(* The payloads are backed *)

(* The cache and the profiles of a run are of addresses that have been       *)
(* answered, and while the provider is available so are the resolved         *)
(* addresses it has come to.                                                 *)
Known(r) ==
  /\ \A p \in cache[r] \cup profiles[r] : meip[p] > 0
  /\ alive[r] => \A p \in resolved[r] \ left[r] : meip[p] > 0

Backed == TypeInv /\ (\A r \in Runners : Known(r)) /\ DnsIsBacked

LEMMA MeipGrows ==
  ASSUME TypeInv, [Next]_vars
  PROVE  \A p \in Ips : meip[p] > 0 => meip'[p] > 0
<1>1. meip \in [Ips -> Nat]
  BY DEF TypeInv, Types
<1>2. ASSUME NEW r \in Runners, LookupAddress(r) PROVE \A p \in Ips : meip[p] > 0 => meip'[p] > 0
  <2>1. asked[r] \in Ips
    BY <1>2 DEF TypeInv, Types, Hand, LookupAddress
  <2> QED BY <1>1, <1>2, <2>1 DEF LookupAddress
<1>3. ASSUME meip' = meip PROVE \A p \in Ips : meip[p] > 0 => meip'[p] > 0
  BY <1>3
<1>4. (\E r \in Runners : LookupAddress(r)) \/ meip' = meip
  BY ZenonT(30) DEF Next, Run, Environment, vars, world, rows, hand, ListCandidates, CheckHealth, TakeDomain,
         TakeAddress,
         SkipAddress, Resolve, CheckAddress, PassAddress, RecordDns, EndAddress, DnsFails, AddressFails,
         LookupWhois, WhoisFails, EndRun, Die, LinkIndicator, SightIndicator, MeipTurns
<1> QED BY <1>2, <1>3, <1>4

(* What a runner knows stays known as long as it does nothing.               *)
LEMMA KnownIsKept ==
  ASSUME TypeInv, [Next]_vars, NEW x \in Runners, Known(x),
         cache'[x] = cache[x], profiles'[x] = profiles[x], alive'[x] = alive[x],
         resolved'[x] = resolved[x], left'[x] = left[x]
  PROVE  Known(x)'
<1>1. cache[x] \cup profiles[x] \cup resolved[x] \subseteq Ips
  BY DEF TypeInv, Types
<1> QED BY <1>1, MeipGrows DEF Known

(* A runner with nothing in hand knows what its cache holds.                 *)
LEMMA KnownWithEmptyHand ==
  ASSUME TypeInv, [Next]_vars, NEW x \in Runners, Known(x), cache'[x] \subseteq cache[x],
         profiles'[x] = {}, resolved'[x] \subseteq left'[x]
  PROVE  Known(x)'
<1>1. cache[x] \subseteq Ips
  BY DEF TypeInv, Types
<1> QED BY <1>1, MeipGrows DEF Known

LEMMA KnownStep == Backed /\ [Next]_vars => \A x \in Runners : Known(x)'
<1> SUFFICES ASSUME Backed, [Next]_vars, NEW x \in Runners PROVE Known(x)'
  OBVIOUS
<1>0. TypeInv /\ Known(x) /\ Types /\ Hand(x)
  BY DEF Backed, TypeInv
<1> USE DEF world, rows, hand
<1>1. ASSUME NEW r \in Runners, r # x, Run(r) \/ Die(r) PROVE Known(x)'
  <2>1. /\ cache'[x] = cache[x] /\ profiles'[x] = profiles[x] /\ alive'[x] = alive[x]
        /\ resolved'[x] = resolved[x] /\ left'[x] = left[x]
    <3>1. CASE ListCandidates(r) \/ TakeDomain(r) \/ SkipAddress(r)
      BY <3>1 DEF ListCandidates, TakeDomain, SkipAddress
    <3>2. CASE CheckHealth(r) \/ TakeAddress(r) \/ (\E A \in Answers : Resolve(r, A))
      BY <1>0, <1>1, <3>2 DEF CheckHealth, TakeAddress, Resolve, Types
    <3>3. CASE \E p \in left[r] : CheckAddress(r, p) \/ PassAddress(r, p)
      BY <1>0, <1>1, <3>3 DEF CheckAddress, PassAddress, Types
    <3>4. CASE LookupAddress(r)
      BY <1>0, <1>1, <3>4 DEF LookupAddress, Types
    <3>5. CASE RecordDns(r) \/ DnsFails(r)
      BY <1>0, <1>1, <3>5 DEF RecordDns, DnsFails, AfterDns, DropHand, Types
    <3>6. CASE EndAddress(r) \/ AddressFails(r) \/ LookupWhois(r) \/ WhoisFails(r)
      BY <1>0, <1>1, <3>6 DEF EndAddress, AddressFails, LookupWhois, WhoisFails, Forget, DropHand, Types
    <3>7. CASE EndRun(r) \/ Die(r)
      BY <1>0, <1>1, <3>7 DEF EndRun, Die, Leave, Forget, DropHand, Types
    <3> QED BY <1>1, <3>1, <3>2, <3>3, <3>4, <3>5, <3>6, <3>7 DEF Run
  <2> QED BY <1>0, <2>1, KnownIsKept
<1>2. CASE Environment \/ UNCHANGED vars
  BY <1>0, <1>2, KnownIsKept DEF Environment, LinkIndicator, SightIndicator, MeipTurns, vars
<1>3. CASE ListCandidates(x) \/ TakeDomain(x) \/ SkipAddress(x)
  BY <1>0, <1>3, KnownIsKept DEF ListCandidates, TakeDomain, SkipAddress
<1>4. CASE CheckHealth(x)
  BY <1>0, <1>4, KnownWithEmptyHand DEF CheckHealth, Hand
<1>5. CASE TakeAddress(x)
  BY <1>0, <1>5, KnownWithEmptyHand DEF TakeAddress, Take, Hand, Types
<1>6. CASE \E A \in Answers : Resolve(x, A)
  <2>1. PICK A \in Answers : Resolve(x, A)
    BY <1>6
  <2>2. resolved'[x] = left'[x] /\ profiles'[x] = {} /\ cache' = cache
    BY <1>0, <2>1 DEF Resolve, Types, Hand
  <2> QED BY <1>0, <2>2, KnownWithEmptyHand
<1>7. ASSUME NEW p \in left[x], CheckAddress(x, p) PROVE Known(x)'
  <2>1. CASE Answered(x, p)
    <3>1. /\ left'[x] = left[x] \ {p} /\ cache'[x] = cache[x] \cup {p}
          /\ UNCHANGED <<resolved, profiles, alive, meip>>
      BY <1>0, <1>7, <2>1 DEF CheckAddress, Types
    <3>2. meip[p] > 0
      BY <1>0, <2>1 DEF Answered, Known
    <3> QED BY <1>0, <3>1, <3>2 DEF Known
  <2>2. CASE ~Answered(x, p)
    BY <1>0, <1>7, <2>2, KnownIsKept DEF CheckAddress
  <2> QED BY <2>1, <2>2
<1>8. ASSUME NEW p \in left[x], PassAddress(x, p) PROVE Known(x)'
  BY <1>0, <1>8 DEF PassAddress, Known
<1>9. CASE LookupAddress(x)
  <2>1. asked[x] \in Ips
    BY <1>0, <1>9 DEF Types, Hand, LookupAddress
  <2>2. /\ left'[x] = left[x] \ {asked[x]} /\ cache'[x] = cache[x] \cup {asked[x]}
        /\ profiles'[x] = profiles[x] \cup {asked[x]} /\ UNCHANGED <<resolved, alive>>
    BY <1>0, <1>9 DEF LookupAddress, Types
  <2>3. meip'[asked[x]] > 0
    BY <1>0, <1>9, <2>1 DEF LookupAddress, Types
  <2>4. cache[x] \cup profiles[x] \cup resolved[x] \subseteq Ips
    BY <1>0 DEF Types
  <2> QED BY <1>0, <2>2, <2>3, <2>4, MeipGrows DEF Known
<1>10. CASE RecordDns(x) \/ DnsFails(x)
  BY <1>0, <1>10, KnownWithEmptyHand DEF RecordDns, DnsFails, AfterDns, DropHand, Types
<1>11. CASE EndAddress(x) \/ AddressFails(x) \/ LookupWhois(x) \/ WhoisFails(x)
  BY <1>0, <1>11, KnownWithEmptyHand
     DEF EndAddress, AddressFails, LookupWhois, WhoisFails, Forget, DropHand, Types
<1>12. CASE EndRun(x) \/ Die(x)
  BY <1>0, <1>12, KnownWithEmptyHand DEF EndRun, Die, Leave, Forget, DropHand, Types
<1> QED BY <1>1, <1>2, <1>3, <1>4, <1>5, <1>6, <1>7, <1>8, <1>9, <1>10, <1>11, <1>12 DEF Next, Run

LEMMA BackedStep == Backed /\ [Next]_vars => Backed'
<1> SUFFICES ASSUME Backed, [Next]_vars PROVE Backed'
  OBVIOUS
<1>0. TypeInv /\ Types /\ (\A x \in Runners : Hand(x) /\ Known(x)) /\ DnsIsBacked
  BY DEF Backed, TypeInv
<1>1. TypeInv'
  BY <1>0, TypeStep
<1>2. \A d \in Domains : dns[d] \in Seq(Payload)
  BY <1>0 DEF Types
<1>3. DnsIsBacked'
  <2>1. CASE dns' = dns
    <3> SUFFICES ASSUME NEW d \in Domains, NEW n \in 1 .. Len(dns[d]), NEW p \in dns[d][n].ips,
                        dns[d][n].alive \/ p \in dns[d][n].profiles
                 PROVE  meip'[p] > 0
      BY <1>0, <2>1 DEF DnsIsBacked
    <3>1. meip[p] > 0
      BY <1>0 DEF DnsIsBacked
    <3>2. dns[d][n] \in Payload
      BY <1>2
    <3>3. p \in Ips
      BY <3>2 DEF Payload
    <3> QED BY <1>0, <3>1, <3>3, MeipGrows
  <2>2. ASSUME NEW r \in Runners, RecordDns(r) PROVE DnsIsBacked'
    <3> DEFINE c == cand[r].ind
               payload == [ips |-> resolved[r], profiles |-> profiles[r], alive |-> alive[r]]
    <3>1. c \in Domains /\ left[r] = {} /\ pc[r] = "addresses" /\ meip' = meip
      BY <2>2 DEF RecordDns
    <3>2. dns' = [dns EXCEPT ![c] = Append(dns[c], payload)]
      BY <2>2 DEF RecordDns
    <3>3. /\ payload.profiles \subseteq payload.ips
          /\ \A p \in payload.ips : payload.alive \/ p \in payload.profiles => meip[p] > 0
      BY <1>0, <3>1 DEF Hand, Known
    <3>4. dns[c] \in Seq(Payload)
      BY <1>2, <3>1
    <3> HIDE DEF payload, c
    <3>5. \A d \in Domains : \A n \in 1 .. Len(dns'[d]) :
            (n \in 1 .. Len(dns[d]) /\ dns'[d][n] = dns[d][n]) \/ dns'[d][n] = payload
      <4> SUFFICES ASSUME NEW d \in Domains, NEW n \in 1 .. Len(dns'[d])
                   PROVE  (n \in 1 .. Len(dns[d]) /\ dns'[d][n] = dns[d][n]) \/ dns'[d][n] = payload
        OBVIOUS
      <4>1. CASE d = c
        <5>1. dns'[d] = Append(dns[c], payload)
          BY <1>0, <3>2, <4>1 DEF Types
        <5> QED BY <3>4, <4>1, <5>1
      <4>2. CASE d # c
        BY <1>0, <3>2, <4>2 DEF Types
      <4> QED BY <4>1, <4>2
    <3> QED BY <1>0, <3>1, <3>3, <3>5 DEF DnsIsBacked
  <2>3. (\E r \in Runners : RecordDns(r)) \/ dns' = dns
    BY ZenonT(30) DEF Next, Run, Environment, vars, world, rows, hand, ListCandidates, CheckHealth, TakeDomain,
           TakeAddress,
           SkipAddress, Resolve, CheckAddress, PassAddress, LookupAddress, EndAddress, DnsFails, AddressFails,
           LookupWhois, WhoisFails, EndRun, Die, LinkIndicator, SightIndicator, MeipTurns
  <2> QED BY <2>1, <2>2, <2>3
<1>4. \A x \in Runners : Known(x)'
  BY KnownStep
<1> QED BY <1>1, <1>3, <1>4 DEF Backed

(* Of the addresses in a local_dns payload every one that has a profile, and *)
(* every one if the provider was available, has its meip enrichment          *)
(* (_enrich_domain_dns, _enrich_ip_indicator).                               *)
THEOREM PayloadsAreBacked == Spec => []DnsIsBacked
<1>1. Init => Backed
  <2> SUFFICES ASSUME Init PROVE Backed
    OBVIOUS
  <2>1. TypeInv
    BY TypeInit
  <2>2. \A r \in Runners : Known(r)
    BY DEF Init, Known
  <2>3. DnsIsBacked
    BY DEF Init, DnsIsBacked
  <2> QED BY <2>1, <2>2, <2>3 DEF Backed
<1>2. Backed => DnsIsBacked
  BY DEF Backed
<1> QED BY BackedStep, <1>1, <1>2, PTL DEF Spec

-----------------------------------------------------------------------------
(* Answers and runs that are still to give one *)

(* Every name a runner has on its list or in hand is there once, with        *)
(* something left to do, and it does only what was left to do when the list  *)
(* was made.                                                                 *)
Queue(r) ==
  /\ pc[r] = "idle" => todo[r] = <<>>
  /\ \A m, n \in 1 .. Len(todo[r]) : todo[r][m].ind = todo[r][n].ind => m = n
  /\ \A n \in 1 .. Len(todo[r]) :
       todo[r][n].ind # cand[r].ind /\ ~Wanted(todo[r][n].ind) \subseteq todo[r][n].done
  /\ pc[r] = "whois" => "mewhois" \notin cand[r].done
  /\ pc[r] \in {"resolve", "addresses", "lookup"} /\ cand[r].ind \in Domains =>
       "local_dns" \notin cand[r].done

Waiting(r) == {todo[r][n] : n \in 1 .. Len(todo[r])}

InDns(r) == pc[r] \in {"resolve", "addresses", "lookup"}

(* Runs that will ask, or answer, as far as they know.                       *)
AskWhois(d) ==
  {r \in Runners : \E c \in Waiting(r) \cup {cand[r]} : c.ind = d /\ "mewhois" \notin c.done}

AskDns(d) ==
  {r \in Runners : \/ \E c \in Waiting(r) : c.ind = d /\ "local_dns" \notin c.done
                   \/ InDns(r) /\ cand[r].ind = d /\ "local_dns" \notin cand[r].done}

AskMeip(p) == {r \in Runners : asked[r] = p}

(* Each answer that was given and each that is to come has a runner.         *)
Counts ==
  /\ \A d \in Domains : /\ whois[d] + Cardinality(AskWhois(d)) <= Cardinality(Runners)
                        /\ Len(dns[d]) + Cardinality(AskDns(d)) <= Cardinality(Runners)
  /\ \A p \in Ips : meip[p] + Cardinality(AskMeip(p)) <= Cardinality(Runners)

Counted == TypeInv /\ (\A r \in Runners : Queue(r)) /\ Counts

(* An answer costs its runner the claim to give it, and a claim is staked    *)
(* only while there is no answer.                                            *)
LEMMA ClaimsAreSpent ==
  ASSUME NEW c \in Nat, NEW c2 \in Nat, NEW H \in SUBSET Runners, NEW H2 \in SUBSET Runners,
         c + Cardinality(H) <= Cardinality(Runners),
         \/ c2 = 0
         \/ c2 = c /\ H2 \subseteq H
         \/ c2 = c + 1 /\ \E r \in H : H2 \subseteq H \ {r}
  PROVE  c2 + Cardinality(H2) <= Cardinality(Runners)
<1>1. /\ Cardinality(H) \in Nat /\ Cardinality(H2) \in Nat /\ Cardinality(Runners) \in Nat
      /\ Cardinality(H2) <= Cardinality(Runners)
  BY RunnersAssumption, FS_Subset, FS_CardinalityType
<1>2. IsFiniteSet(H)
  BY RunnersAssumption, FS_Subset
<1>3. H2 \subseteq H => Cardinality(H2) <= Cardinality(H)
  BY <1>2, FS_Subset
<1>4. ASSUME NEW r \in H, H2 \subseteq H \ {r} PROVE Cardinality(H2) <= Cardinality(H) - 1
  <2>1. Cardinality(H \ {r}) = Cardinality(H) - 1 /\ IsFiniteSet(H \ {r})
    BY <1>2, FS_RemoveElement
  <2> QED BY <1>4, <2>1, FS_Subset
<1> QED BY <1>1, <1>3, <1>4

LEMMA OthersKeep ==
  ASSUME TypeInv, NEW r \in Runners, NEW x \in Runners, r # x, Run(r) \/ Die(r)
  PROVE  pc'[x] = pc[x] /\ todo'[x] = todo[x] /\ cand'[x] = cand[x] /\ asked'[x] = asked[x]
<1>0. Types
  BY DEF TypeInv
<1> USE DEF world, rows, hand
<1>1. CASE ListCandidates(r) \/ CheckHealth(r)
  BY <1>0, <1>1 DEF ListCandidates, CheckHealth, Goto, Types
<1>2. CASE TakeDomain(r) \/ TakeAddress(r) \/ SkipAddress(r)
  BY <1>0, <1>2 DEF TakeDomain, TakeAddress, SkipAddress, Take, Goto, Types
<1>3. CASE \E A \in Answers : Resolve(r, A)
  BY <1>0, <1>3 DEF Resolve, Goto, Types
<1>4. CASE \E p \in left[r] : CheckAddress(r, p) \/ PassAddress(r, p)
  BY <1>0, <1>4 DEF CheckAddress, PassAddress, Goto, Types
<1>5. CASE LookupAddress(r)
  BY <1>0, <1>5 DEF LookupAddress, Goto, Types
<1>6. CASE RecordDns(r) \/ DnsFails(r)
  BY <1>0, <1>6 DEF RecordDns, DnsFails, AfterDns, DropHand, Goto, Types
<1>7. CASE EndAddress(r) \/ AddressFails(r) \/ LookupWhois(r) \/ WhoisFails(r)
  BY <1>0, <1>7 DEF EndAddress, AddressFails, LookupWhois, WhoisFails, Forget, DropHand, Goto, Types
<1>8. CASE EndRun(r) \/ Die(r)
  BY <1>0, <1>8 DEF EndRun, Die, Leave, Forget, DropHand, Goto, Types
<1> QED BY <1>1, <1>2, <1>3, <1>4, <1>5, <1>6, <1>7, <1>8 DEF Run

(* A run that is under way takes from its list and never adds to it.         *)
LEMMA Moves ==
  ASSUME TypeInv, NEW r \in Runners, Run(r) \/ Die(r), ~ListCandidates(r)
  PROVE  /\ Waiting(r)' \subseteq Waiting(r)
         /\ \/ cand'[r] = NoCandidate
            \/ cand'[r] \in Waiting(r)
            \/ cand'[r] = cand[r] /\ (InDns(r)' => InDns(r))
<1>0. Types /\ Hand(r)
  BY DEF TypeInv
<1> USE DEF world, rows, hand
<1>1. CASE TakeDomain(r) \/ TakeAddress(r) \/ SkipAddress(r)
  <2>1. todo[r] \in Seq(Candidate) /\ todo[r] # <<>> /\ todo'[r] = Tail(todo[r])
    BY <1>0, <1>1 DEF TakeDomain, TakeAddress, SkipAddress, Take, Types
  <2>2. Waiting(r)' \subseteq Waiting(r)
    BY <2>1, ListIsTaken DEF Waiting
  <2>3. Head(todo[r]) \in Waiting(r)
    BY <2>1, ListIsTaken DEF Waiting
  <2>4. cand'[r] = Head(todo[r]) \/ (cand' = cand /\ pc' = pc)
    BY <1>0, <1>1 DEF TakeDomain, TakeAddress, SkipAddress, Types
  <2> QED BY <2>2, <2>3, <2>4 DEF InDns
<1>2. CASE CheckHealth(r)
  BY <1>0, <1>2 DEF CheckHealth, Goto, Types, Waiting, InDns
<1>8. CASE \E A \in Answers : Resolve(r, A)
  BY <1>0, <1>8 DEF Resolve, Goto, Types, Waiting, InDns
<1>3. CASE \E p \in left[r] : CheckAddress(r, p) \/ PassAddress(r, p)
  BY <1>0, <1>3 DEF CheckAddress, PassAddress, Goto, Types, Waiting, InDns
<1>4. CASE LookupAddress(r)
  BY <1>0, <1>4 DEF LookupAddress, Goto, Types, Waiting, InDns
<1>5. CASE RecordDns(r) \/ DnsFails(r)
  BY <1>0, <1>5 DEF RecordDns, DnsFails, AfterDns, DropHand, Goto, Types, Waiting, InDns
<1>6. CASE EndAddress(r) \/ AddressFails(r) \/ LookupWhois(r) \/ WhoisFails(r)
  BY <1>0, <1>6 DEF EndAddress, AddressFails, LookupWhois, WhoisFails, Forget, DropHand, Goto, Types, Waiting
<1>7. CASE EndRun(r) \/ Die(r)
  <2>1. todo'[r] = <<>> /\ cand'[r] = NoCandidate
    BY <1>0, <1>7 DEF EndRun, Die, Leave, Forget, DropHand, Types
  <2> QED BY <2>1 DEF Waiting
<1> QED BY <1>1, <1>2, <1>3, <1>4, <1>5, <1>6, <1>7, <1>8 DEF Run

LEMMA QueueStep ==
  ASSUME TypeInv, \A r \in Runners : Queue(r), [Next]_vars, NEW x \in Runners
  PROVE  Queue(x)'
<1>0. Types /\ Hand(x) /\ Queue(x) /\ World
  BY DEF TypeInv, Types
<1>a. NoOne \notin Indicators /\ NoCandidate.ind = NoOne /\ NoCandidate.done = {}
  BY NoOneAssumption DEF NoOne, NoCandidate
<1>b. \A n \in 1 .. Len(todo[x]) : todo[x][n].ind \in Indicators
  <2>1. todo[x] \in Seq(Candidate)
    BY <1>0 DEF Types
  <2> SUFFICES ASSUME NEW n \in 1 .. Len(todo[x]) PROVE todo[x][n].ind \in Indicators
    OBVIOUS
  <2>2. todo[x][n] \in Candidate
    BY <2>1
  <2> QED BY <2>2 DEF Candidate
<1> USE DEF world, rows, hand
<1>1. ASSUME NEW r \in Runners, r # x, Run(r) \/ Die(r) PROVE Queue(x)'
  BY <1>0, <1>1, OthersKeep DEF Queue, Wanted
<1>2. CASE Environment \/ UNCHANGED vars
  <2>1. UNCHANGED <<pc, todo, cand>>
    BY <1>2 DEF Environment, LinkIndicator, SightIndicator, MeipTurns, vars
  <2> QED BY <1>0, <2>1 DEF Queue, Wanted
<1>3. CASE ListCandidates(x)
  <2>1. todo'[x] = Listing /\ cand'[x] = NoCandidate /\ pc'[x] = "health"
    BY <1>0, <1>3 DEF ListCandidates, Goto, Types, Hand
  <2>2. \A n \in 1 .. Len(Listing) :
          Listing[n].ind # NoOne /\ ~Wanted(Listing[n].ind) \subseteq Listing[n].done
    <3> SUFFICES ASSUME NEW n \in 1 .. Len(Listing)
                 PROVE  Listing[n].ind # NoOne /\ ~Wanted(Listing[n].ind) \subseteq Listing[n].done
      OBVIOUS
    <3>1. Listing[n] \in Candidate
      BY <1>0, ListingIsSound
    <3>2. Open(Listing[n].ind) /\ Listing[n].done = Completed(Listing[n].ind)
      BY <1>0, ListingIsSound
    <3> QED BY <1>a, <3>1, <3>2 DEF Open, Candidate
  <2>3. \A m, n \in 1 .. Len(Listing) : Listing[m].ind = Listing[n].ind => m = n
    BY <1>0, ListingIsSound
  <2> QED BY <1>a, <2>1, <2>2, <2>3 DEF Queue, Wanted
<1>4. CASE TakeDomain(x) \/ TakeAddress(x) \/ SkipAddress(x)
  <2> DEFINE t == todo[x]
  <2>1. t \in Seq(Candidate) /\ t # <<>> /\ todo'[x] = Tail(t) /\ pc[x] = "next"
    BY <1>0, <1>4 DEF TakeDomain, TakeAddress, SkipAddress, Take, Types
  <2>2. /\ Head(t) = t[1] /\ 1 \in 1 .. Len(t) /\ Head(t).ind \in Indicators
        /\ \A n \in 1 .. Len(Tail(t)) : Tail(t)[n] = t[n + 1] /\ n + 1 \in 1 .. Len(t) /\ n + 1 # 1
    BY <2>1, ListIsTaken
  <2>3. /\ \A m, n \in 1 .. Len(Tail(t)) : Tail(t)[m].ind = Tail(t)[n].ind => m = n
        /\ \A n \in 1 .. Len(Tail(t)) :
             /\ Tail(t)[n].ind # Head(t).ind
             /\ Tail(t)[n].ind \in Indicators
             /\ ~Wanted(Tail(t)[n].ind) \subseteq Tail(t)[n].done
    BY <1>0, <1>b, <2>1, <2>2 DEF Queue
  <2>4. ~Wanted(Head(t).ind) \subseteq Head(t).done
    BY <1>0, <2>2 DEF Queue
  <2>5. CASE SkipAddress(x)
    <3>1. cand'[x] = NoCandidate /\ pc'[x] = "next"
      BY <1>0, <2>1, <2>5 DEF SkipAddress, Hand
    <3> QED BY <1>a, <2>1, <2>3, <3>1 DEF Queue, Wanted
  <2>6. CASE TakeDomain(x)
    <3>1. /\ cand'[x] = Head(t) /\ Head(t).ind \in Domains
          /\ pc'[x] = IF "local_dns" \in Head(t).done THEN "whois" ELSE "resolve"
      BY <1>0, <2>6 DEF TakeDomain, Take, Goto, Types
    <3>2. "local_dns" \in Head(t).done => "mewhois" \notin Head(t).done
      BY <2>4, <3>1 DEF Wanted
    <3> QED BY <2>1, <2>3, <3>1, <3>2 DEF Queue, Wanted
  <2>7. CASE TakeAddress(x)
    <3>1. cand'[x] = Head(t) /\ Head(t).ind \notin Domains /\ pc'[x] = "addresses"
      BY <1>0, <2>7, KindsAssumption DEF TakeAddress, Take, Goto, Types
    <3> QED BY <2>1, <2>3, <3>1 DEF Queue, Wanted
  <2> QED BY <1>4, <2>5, <2>6, <2>7
(* The others leave the list alone.                                          *)
<1>5. ASSUME todo'[x] = todo[x], pc'[x] \in {"health", "next"}, cand'[x] = NoCandidate PROVE Queue(x)'
  BY <1>0, <1>a, <1>b, <1>5 DEF Queue, Wanted
<1>6. ASSUME todo'[x] = todo[x], cand'[x] = cand[x], pc[x] # "idle" => pc'[x] # "idle",
             pc'[x] = "whois" => "mewhois" \notin cand[x].done, InDns(x)' => InDns(x)
      PROVE  Queue(x)'
  BY <1>0, <1>6 DEF Queue, Wanted, InDns
<1>7. CASE CheckHealth(x)
  <2>1. todo'[x] = todo[x] /\ pc'[x] = "next" /\ cand'[x] = NoCandidate
    BY <1>0, <1>7 DEF CheckHealth, Goto, Types, Hand
  <2> QED BY <1>5, <2>1
<1>8. CASE \E A \in Answers : Resolve(x, A)
  <2>1. /\ todo' = todo /\ cand' = cand /\ pc[x] = "resolve" /\ pc'[x] = "addresses"
    BY <1>0, <1>8 DEF Resolve, Goto, Types
  <2> QED BY <1>6, <2>1 DEF InDns
<1>9. CASE (\E p \in left[x] : CheckAddress(x, p) \/ PassAddress(x, p)) \/ LookupAddress(x)
  <2>1. todo' = todo /\ cand' = cand /\ pc[x] \in {"addresses", "lookup"} /\ pc'[x] \in {"addresses", "lookup"}
    <3>1. CASE \E p \in left[x] : CheckAddress(x, p) \/ PassAddress(x, p)
      BY <1>0, <3>1 DEF CheckAddress, PassAddress, Goto, Types
    <3>2. CASE LookupAddress(x)
      BY <1>0, <3>2 DEF LookupAddress, Goto, Types
    <3> QED BY <1>9, <3>1, <3>2
  <2> QED BY <1>6, <2>1 DEF InDns
<1>10. CASE RecordDns(x) \/ DnsFails(x)
  <2>1. todo' = todo /\ InDns(x) /\ (AfterDns(x, TRUE) \/ AfterDns(x, FALSE))
    BY <1>10 DEF RecordDns, DnsFails, InDns
  <2>2. CASE "mewhois" \in cand[x].done
    <3>1. pc'[x] = "next" /\ cand'[x] = NoCandidate
      BY <1>0, <2>1, <2>2 DEF AfterDns, Goto, Types
    <3> QED BY <1>5, <2>1, <3>1
  <2>3. CASE "mewhois" \notin cand[x].done
    <3>1. pc'[x] = "whois" /\ cand' = cand
      BY <1>0, <2>1, <2>3 DEF AfterDns, Goto, Types
    <3> QED BY <1>6, <2>1, <2>3, <3>1 DEF InDns
  <2> QED BY <2>2, <2>3
<1>11. CASE EndAddress(x) \/ AddressFails(x) \/ LookupWhois(x) \/ WhoisFails(x)
  <2>1. todo' = todo /\ pc'[x] = "next" /\ cand'[x] = NoCandidate
    BY <1>0, <1>11 DEF EndAddress, AddressFails, LookupWhois, WhoisFails, Forget, DropHand, Goto, Types
  <2> QED BY <1>5, <2>1
<1>12. CASE EndRun(x) \/ Die(x)
  <2>1. todo'[x] = <<>> /\ pc'[x] = "idle" /\ cand'[x] = NoCandidate
    BY <1>0, <1>12 DEF EndRun, Die, Leave, Forget, DropHand, Goto, Types
  <2> QED BY <1>a, <2>1 DEF Queue, Wanted
<1> QED BY <1>1, <1>2, <1>3, <1>4, <1>7, <1>8, <1>9, <1>10, <1>11, <1>12 DEF Next, Run

LEMMA CountsStep == Counted /\ [Next]_vars => Counts'
<1> SUFFICES ASSUME Counted, [Next]_vars PROVE Counts'
  OBVIOUS
<1>0. TypeInv /\ Types /\ (\A r \in Runners : Hand(r) /\ Queue(r)) /\ Counts
  BY DEF Counted, TypeInv
<1>a. NoOne \notin Indicators /\ NoCandidate.ind = NoOne
  BY NoOneAssumption DEF NoOne, NoCandidate
<1>b. /\ \A d \in Domains : whois[d] \in Nat /\ Len(dns[d]) \in Nat
      /\ \A p \in Ips : meip[p] \in Nat
  BY <1>0 DEF Types
<1>t. Types'
  BY <1>0, TypeStep DEF TypeInv
<1>c. /\ \A d \in Domains : whois'[d] \in Nat /\ Len(dns'[d]) \in Nat
      /\ \A p \in Ips : meip'[p] \in Nat
  BY <1>t DEF Types
<1> USE DEF world, rows, hand
<1>1. ASSUME UNCHANGED <<pc, todo, cand, asked>>
      PROVE  /\ \A d \in Domains : AskWhois(d)' = AskWhois(d) /\ AskDns(d)' = AskDns(d)
             /\ \A p \in Ips : AskMeip(p)' = AskMeip(p)
  BY <1>1 DEF AskWhois, AskDns, AskMeip, Waiting, InDns
<1>2. ASSUME NEW r \in Runners, Run(r) \/ Die(r), ~ListCandidates(r)
      PROVE  \A d \in Domains : AskWhois(d)' \subseteq AskWhois(d) /\ AskDns(d)' \subseteq AskDns(d)
  <2> SUFFICES ASSUME NEW d \in Domains, NEW x \in Runners
               PROVE  /\ x \in AskWhois(d)' => x \in AskWhois(d)
                      /\ x \in AskDns(d)' => x \in AskDns(d)
    BY DEF AskWhois, AskDns
  <2>1. CASE x # r
    <3>1. pc'[x] = pc[x] /\ todo'[x] = todo[x] /\ cand'[x] = cand[x]
      BY <1>0, <1>2, <2>1, OthersKeep
    <3> QED BY <3>1 DEF AskWhois, AskDns, Waiting, InDns
  <2>2. CASE x = r
    <3>1. /\ Waiting(x)' \subseteq Waiting(x)
          /\ \/ cand'[x] = NoCandidate
             \/ cand'[x] \in Waiting(x)
             \/ cand'[x] = cand[x] /\ (InDns(x)' => InDns(x))
      BY <1>0, <1>2, <2>2, Moves
    <3>2. NoCandidate.ind # d
      BY <1>a DEF Indicators
    <3> QED BY <3>1, <3>2 DEF AskWhois, AskDns
  <2> QED BY <2>1, <2>2
(* A list claims what has no answer when it is made.                         *)
<1>3. ASSUME NEW r \in Runners, ListCandidates(r), NEW d \in Domains
      PROVE  /\ whois[d] = 0 \/ AskWhois(d)' \subseteq AskWhois(d)
             /\ Len(dns[d]) = 0 \/ AskDns(d)' \subseteq AskDns(d)
  <2>1. todo'[r] = Listing /\ pc'[r] = "health" /\ cand'[r] = NoCandidate
    BY <1>0, <1>3 DEF ListCandidates, Goto, Types, Hand
  <2>2. \A c \in Waiting(r)' : c.done = Completed(c.ind)
    BY <1>0, <2>1, ListingIsSound DEF Waiting, Types
  <2>3. /\ whois[d] > 0 => "mewhois" \in Completed(d)
        /\ Len(dns[d]) # 0 => "local_dns" \in Completed(d)
    BY <1>0 DEF Completed, Providers, Types
  <2>4. ASSUME NEW x \in Runners, x # r
        PROVE  (x \in AskWhois(d)' => x \in AskWhois(d)) /\ (x \in AskDns(d)' => x \in AskDns(d))
    <3>1. pc'[x] = pc[x] /\ todo'[x] = todo[x] /\ cand'[x] = cand[x]
      BY <1>0, <1>3, <2>4, OthersKeep DEF Run
    <3> QED BY <3>1 DEF AskWhois, AskDns, Waiting, InDns
  <2>5. NoCandidate.ind # d
    BY <1>a DEF Indicators
  <2>6. whois[d] > 0 => r \notin AskWhois(d)'
    BY <2>1, <2>2, <2>3, <2>5 DEF AskWhois
  <2>7. Len(dns[d]) # 0 => r \notin AskDns(d)'
    BY <2>1, <2>2, <2>3, <2>5 DEF AskDns, InDns
  <2>8. /\ r \notin AskWhois(d)' => AskWhois(d)' \subseteq AskWhois(d)
        /\ r \notin AskDns(d)' => AskDns(d)' \subseteq AskDns(d)
    BY <2>4 DEF AskWhois, AskDns
  <2> QED BY <1>b, <2>6, <2>7, <2>8
<1>4. ASSUME NEW d \in Domains
      PROVE  /\ whois[d] = 0 \/ AskWhois(d)' \subseteq AskWhois(d)
             /\ Len(dns[d]) = 0 \/ AskDns(d)' \subseteq AskDns(d)
  <2>1. CASE Environment \/ UNCHANGED vars
    <3>1. UNCHANGED <<pc, todo, cand, asked>>
      BY <2>1 DEF Environment, LinkIndicator, SightIndicator, MeipTurns, vars
    <3> QED BY <1>1, <3>1
  <2> QED BY <1>2, <1>3, <2>1 DEF Next
(* An answer is given by a runner that claimed it and claims it no longer.   *)
<1>5. ASSUME NEW d \in Domains PROVE (whois[d] + Cardinality(AskWhois(d)) <= Cardinality(Runners))'
  <2>0. AskWhois(d) \in SUBSET Runners /\ AskWhois(d)' \in SUBSET Runners
    BY DEF AskWhois
  <2>1. CASE whois'[d] = whois[d]
    BY <1>0, <1>b, <1>4, <2>0, <2>1, ClaimsAreSpent DEF Counts
  <2>2. ASSUME NEW r \in Runners, LookupWhois(r), cand[r].ind = d
        PROVE  whois'[d] = whois[d] + 1 /\ \E x \in AskWhois(d) : AskWhois(d)' \subseteq AskWhois(d) \ {x}
    <3>1. whois'[d] = whois[d] + 1 /\ todo' = todo /\ cand'[r] = NoCandidate /\ pc[r] = "whois"
      BY <1>0, <2>2 DEF LookupWhois, Forget, Types
    <3>2. r \in AskWhois(d)
      BY <1>0, <2>2, <3>1 DEF AskWhois, Queue
    <3>3. r \notin AskWhois(d)'
      BY <1>0, <1>a, <2>2, <3>1 DEF AskWhois, Waiting, Queue, Indicators
    <3>4. ~ListCandidates(r) /\ Run(r)
      BY <2>2, <3>1 DEF ListCandidates, Run
    <3>5. AskWhois(d)' \subseteq AskWhois(d)
      BY <1>2, <3>4
    <3> QED BY <3>1, <3>2, <3>3, <3>5
  <2>3. whois'[d] = whois[d] \/ \E r \in Runners : LookupWhois(r) /\ cand[r].ind = d
    <3>1. ASSUME NEW r \in Runners, LookupWhois(r), cand[r].ind # d PROVE whois'[d] = whois[d]
      BY <1>0, <3>1 DEF LookupWhois, Types
    <3>2. (\E r \in Runners : LookupWhois(r)) \/ whois' = whois
      BY ZenonT(30) DEF Next, Run, Environment, vars, ListCandidates, CheckHealth, TakeDomain, TakeAddress, SkipAddress,
             Resolve, CheckAddress, PassAddress, LookupAddress, RecordDns, EndAddress, DnsFails, AddressFails,
             WhoisFails, EndRun, Die, LinkIndicator, SightIndicator, MeipTurns
    <3> QED BY <3>1, <3>2
  <2> QED BY <1>0, <1>b, <1>c, <2>0, <2>1, <2>2, <2>3, ClaimsAreSpent DEF Counts
<1>6. ASSUME NEW d \in Domains PROVE (Len(dns[d]) + Cardinality(AskDns(d)) <= Cardinality(Runners))'
  <2>0. AskDns(d) \in SUBSET Runners /\ AskDns(d)' \in SUBSET Runners
    BY DEF AskDns
  <2>1. CASE dns'[d] = dns[d]
    BY <1>0, <1>b, <1>4, <2>0, <2>1, ClaimsAreSpent DEF Counts
  <2>2. ASSUME NEW r \in Runners, RecordDns(r), cand[r].ind = d
        PROVE  Len(dns'[d]) = Len(dns[d]) + 1 /\ \E x \in AskDns(d) : AskDns(d)' \subseteq AskDns(d) \ {x}
    <3> DEFINE payload == [ips |-> resolved[r], profiles |-> profiles[r], alive |-> alive[r]]
    <3>1. dns'[d] = Append(dns[d], payload) /\ todo' = todo /\ InDns(r) /\ AfterDns(r, FALSE)
      BY <1>0, <2>2 DEF RecordDns, InDns, Types
    <3>2. payload \in Payload /\ dns[d] \in Seq(Payload)
      BY <1>0 DEF Payload, Types
    <3> HIDE DEF payload
    <3>3. Len(dns'[d]) = Len(dns[d]) + 1
      BY <3>1, <3>2
    <3>4. r \in AskDns(d)
      BY <1>0, <2>2, <3>1 DEF AskDns, Queue, InDns
    <3>5. ~InDns(r)'
      BY <1>0, <3>1 DEF AfterDns, Goto, InDns, Types
    <3>6. r \notin AskDns(d)'
      BY <1>0, <2>2, <3>1, <3>5 DEF AskDns, Waiting, Queue
    <3>7. ~ListCandidates(r) /\ Run(r)
      BY <2>2 DEF ListCandidates, RecordDns, Run
    <3>8. AskDns(d)' \subseteq AskDns(d)
      BY <1>2, <3>7
    <3> QED BY <3>3, <3>4, <3>6, <3>8
  <2>3. dns'[d] = dns[d] \/ \E r \in Runners : RecordDns(r) /\ cand[r].ind = d
    <3>1. ASSUME NEW r \in Runners, RecordDns(r), cand[r].ind # d PROVE dns'[d] = dns[d]
      BY <1>0, <3>1 DEF RecordDns, Types
    <3>2. (\E r \in Runners : RecordDns(r)) \/ dns' = dns
      BY ZenonT(30) DEF Next, Run, Environment, vars, ListCandidates, CheckHealth, TakeDomain, TakeAddress, SkipAddress,
             Resolve, CheckAddress, PassAddress, LookupAddress, EndAddress, DnsFails, AddressFails,
             LookupWhois, WhoisFails, EndRun, Die, LinkIndicator, SightIndicator, MeipTurns
    <3> QED BY <3>1, <3>2
  <2> QED BY <1>0, <1>b, <1>c, <2>0, <2>1, <2>2, <2>3, ClaimsAreSpent DEF Counts
<1>7. ASSUME NEW p \in Ips PROVE (meip[p] + Cardinality(AskMeip(p)) <= Cardinality(Runners))'
  <2>0. AskMeip(p) \in SUBSET Runners /\ AskMeip(p)' \in SUBSET Runners /\ p # NoOne
    BY <1>a DEF AskMeip, Indicators
  <2>1. ASSUME NEW r \in Runners, LookupAddress(r), asked[r] = p
        PROVE  meip'[p] = meip[p] + 1 /\ \E x \in AskMeip(p) : AskMeip(p)' \subseteq AskMeip(p) \ {x}
    <3>1. meip'[p] = meip[p] + 1 /\ asked' = [asked EXCEPT ![r] = NoOne] /\ r \in AskMeip(p)
      BY <1>0, <2>1 DEF LookupAddress, AskMeip, Types
    <3>2. AskMeip(p)' \subseteq AskMeip(p) \ {r}
      BY <1>0, <2>0, <3>1 DEF AskMeip, Types
    <3> QED BY <3>1, <3>2
  <2>2. ASSUME NEW r \in Runners, LookupAddress(r), asked[r] # p
        PROVE  meip'[p] = meip[p] /\ AskMeip(p)' \subseteq AskMeip(p)
    BY <1>0, <2>0, <2>2 DEF LookupAddress, AskMeip, Types
  <2>3. ASSUME NEW r \in Runners, NEW q \in left[r], CheckAddress(r, q)
        PROVE  meip'[p] = 0 \/ (meip'[p] = meip[p] /\ AskMeip(p)' \subseteq AskMeip(p))
    <3>1. meip' = meip
      BY <2>3 DEF CheckAddress
    <3>2. CASE asked' = asked
      BY <3>1, <3>2 DEF AskMeip
    <3>3. CASE asked' = [asked EXCEPT ![r] = q] /\ ~Answered(r, q)
      <4>1. q = p => meip[p] = 0
        BY <1>b, <3>3 DEF Answered
      <4>2. q # p => AskMeip(p)' \subseteq AskMeip(p)
        BY <1>0, <3>3 DEF AskMeip, Types
      <4> QED BY <3>1, <4>1, <4>2
    <3> QED BY <2>3, <3>2, <3>3 DEF CheckAddress
  <2>4. ASSUME NEW r \in Runners, \/ RecordDns(r) \/ DnsFails(r) \/ EndAddress(r) \/ AddressFails(r)
                                  \/ LookupWhois(r) \/ WhoisFails(r) \/ EndRun(r) \/ Die(r)
        PROVE  meip'[p] = meip[p] /\ AskMeip(p)' \subseteq AskMeip(p)
    <3>1. meip' = meip /\ asked' = [asked EXCEPT ![r] = NoOne]
      BY <2>4 DEF RecordDns, DnsFails, AfterDns, EndAddress, AddressFails, LookupWhois, WhoisFails, EndRun,
             Die,
                  Leave, Forget, DropHand
    <3> QED BY <1>0, <2>0, <3>1 DEF AskMeip, Types
  <2>5. ASSUME meip' = meip, asked' = asked PROVE meip'[p] = meip[p] /\ AskMeip(p)' \subseteq AskMeip(p)
    BY <2>5 DEF AskMeip
  <2>6. \/ \E r \in Runners :
             \/ LookupAddress(r)
             \/ \E q \in left[r] : CheckAddress(r, q)
             \/ RecordDns(r) \/ DnsFails(r) \/ EndAddress(r) \/ AddressFails(r)
             \/ LookupWhois(r) \/ WhoisFails(r) \/ EndRun(r) \/ Die(r)
        \/ meip' = meip /\ asked' = asked
    BY DEF Next, Run, Environment, vars, ListCandidates, CheckHealth, TakeDomain, TakeAddress, SkipAddress,
           Resolve, PassAddress, LinkIndicator, SightIndicator, MeipTurns
  <2>7. \/ meip'[p] = 0
        \/ meip'[p] = meip[p] /\ AskMeip(p)' \subseteq AskMeip(p)
        \/ meip'[p] = meip[p] + 1 /\ \E x \in AskMeip(p) : AskMeip(p)' \subseteq AskMeip(p) \ {x}
    BY <2>1, <2>2, <2>3, <2>4, <2>5, <2>6
  <2> QED BY <1>0, <1>b, <1>c, <2>0, <2>7, ClaimsAreSpent DEF Counts
<1> QED BY <1>5, <1>6, <1>7 DEF Counts

(* However many runs overlap, die and start again, no name has more answers  *)
(* of a provider than there are runners (the check of the table behind       *)
(* ip_completion_cache, completed_providers of the listing).                 *)
THEOREM NoMoreThanOneEach == Spec => []OncePerRunner
<1>1. Init => Counted
  <2> SUFFICES ASSUME Init PROVE Counted
    OBVIOUS
  <2>1. NoCandidate.ind \notin Indicators
    BY NoOneAssumption DEF NoCandidate, NoOne
  <2>2. \A r \in Runners : Queue(r)
    BY DEF Init, Queue, Wanted
  <2>3. (\A d \in Domains : AskWhois(d) = {} /\ AskDns(d) = {}) /\ (\A p \in Ips : AskMeip(p) = {})
    BY <2>1, NoOneAssumption DEF Init, AskWhois, AskDns, AskMeip, Waiting, InDns, Indicators, NoOne
  <2>4. Cardinality({}) = 0 /\ Cardinality(Runners) \in Nat
    BY RunnersAssumption, FS_EmptySet, FS_CardinalityType
  <2>5. /\ \A d \in Domains : whois[d] = 0 /\ Len(dns[d]) = 0
        /\ \A p \in Ips : meip[p] = 0
    BY DEF Init
  <2>6. /\ \A d \in Domains : Cardinality(AskWhois(d)) = 0 /\ Cardinality(AskDns(d)) = 0
        /\ \A p \in Ips : Cardinality(AskMeip(p)) = 0
    BY <2>3, <2>4
  <2>7. Counts
    BY <2>4, <2>5, <2>6 DEF Counts
  <2> QED BY TypeInit, <2>2, <2>7 DEF Counted
<1>2. Counted /\ [Next]_vars => Counted'
  BY TypeStep, QueueStep, CountsStep DEF Counted
<1>3. Counted => OncePerRunner
  <2> SUFFICES ASSUME Counted PROVE OncePerRunner
    OBVIOUS
  <2>1. /\ \A d \in Domains : Cardinality(AskWhois(d)) \in Nat /\ Cardinality(AskDns(d)) \in Nat
        /\ \A p \in Ips : Cardinality(AskMeip(p)) \in Nat
        /\ Cardinality(Runners) \in Nat
    BY RunnersAssumption, FS_Subset, FS_CardinalityType DEF AskWhois, AskDns, AskMeip
  <2>2. /\ \A d \in Domains : whois[d] \in Nat /\ Len(dns[d]) \in Nat
        /\ \A p \in Ips : meip[p] \in Nat
    BY DEF Counted, TypeInv, Types
  <2> QED BY <2>1, <2>2 DEF Counted, Counts, OncePerRunner
<1> QED BY <1>1, <1>2, <1>3, PTL DEF Spec
=============================================================================
