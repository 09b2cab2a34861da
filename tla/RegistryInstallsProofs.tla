----------------------- MODULE RegistryInstallsProofs -----------------------
(***************************************************************************)
(* Theorems about RegistryInstalls, for any number of skills, registries,  *)
(* workers, commands and deaths.                                           *)
(***************************************************************************)
EXTENDS RegistryInstalls, SetLemmas, TLAPS

(* What an upsert makes of an entry is an entry. *)
LEMMA MergedType ==
  ASSUME TypeOK, NEW w \in Workers, row[w] \in Row, job[w].at \in Times
  PROVE  Merged(w) \in Entry
<1>1. seen[w] \in Entry \cup {NoEntry} /\ row[w].count \in Count /\ RunOf(w) \in Times \cup {0}
  BY DEF TypeOK, Row, RunOf
<1>2. CASE seen[w] = NoEntry
  BY <1>1, <1>2 DEF Merged, Entry
<1>3. CASE seen[w] # NoEntry
  <2>1. seen[w].run \in Times \cup {0} /\ seen[w].last \in Times
    BY <1>1, <1>3 DEF Entry
  <2>2. Later(seen[w].last, job[w].at) \in Times
    BY <2>1 DEF Later
  <2>3. QED
    BY <1>1, <1>3, <2>1, <2>2 DEF Merged, Entry
<1>4. QED
  BY <1>2, <1>3

LEMMA WrittenEntryType ==
  ASSUME NEW old \in Entry \cup {NoEntry}, NEW read \in Entry \cup {NoEntry}, NEW now \in Entry,
         read # NoEntry => old # NoEntry
  PROVE  WrittenEntry(old, read, now) \in Entry
<1>1. CASE read = NoEntry
  BY <1>1 DEF WrittenEntry
<1>2. CASE read # NoEntry
  BY <1>2 DEF WrittenEntry, Written, Entry
<1>3. QED
  BY <1>1, <1>2

LEMMA WrittenPairType ==
  ASSUME NEW old \in Pair, NEW read \in Pair, NEW now \in Pair
  PROVE  WrittenPair(old, read, now) \in Pair
  BY DEF WrittenPair, Written, Pair

LEMMA RowsOfType ==
  ASSUME TypeOK, NEW s \in Skills
  PROVE  RowsOf(s) \subseteq Row
<1>1. \A src \in Primary(entry[s]) : src \in Sources /\ entry[s][src] \in Entry
  BY DEF Primary, Known, TypeOK
<1>2. weekly[s].value \in Count
  BY DEF TypeOK, Pair
<1>3. QED
  BY <1>1, <1>2 DEF RowsOf, Row, Entry

-----------------------------------------------------------------------------
(* Totals *)

(* The entries of a skill. *)
Entries == [Sources -> Entry \cup {NoEntry}]

CountsOf(es) == [src \in Counted(es) |-> es[src].count]

LEMMA CountedAreNumbers ==
  ASSUME NEW es \in Entries
  PROVE  /\ IsFiniteSet(Counted(es)) /\ IsFiniteSet(Known(es))
         /\ \A src \in Counted(es) : CountsOf(es)[src] = es[src].count /\ CountsOf(es)[src] \in Nat
         /\ \A src \in Known(es) : es[src].last \in Times
<1>1. Counted(es) \subseteq Sources /\ Known(es) \subseteq Sources
  BY DEF Counted, Known
<1>2. IsFiniteSet(Counted(es)) /\ IsFiniteSet(Known(es))
  BY <1>1, SourcesAssumption, FS_Subset
<1>3. \A src \in Known(es) : es[src] \in Entry
  BY DEF Known, Entries
<1>4. QED
  BY <1>2, <1>3 DEF Counted, CountsOf, Entry, Count

(* The value of a total is the sum of the known counts. *)
LEMMA TotalIsOfCounts ==
  ASSUME NEW es \in Entries, Counted(es) # {}
  PROVE  IsSum(Total(es).value, CountsOf(es), Counted(es))
<1> DEFINE K == Counted(es)
           f == CountsOf(es)
           Body(g) == [T \in SUBSET K |->
                         IF T = {} THEN 0
                         ELSE es[CHOOSE x \in T : TRUE].count + g[T \ {CHOOSE x \in T : TRUE}]]
           sum == CHOOSE g : g = Body(g)
<1>1. Total(es).value = sum[K]
  BY DEF Total, MapThenSumSet, MapThenFoldSet
<1>2. IsFiniteSet(K) /\ \A x \in K : f[x] = es[x].count /\ f[x] \in Nat
  BY CountedAreNumbers
<1> HIDE DEF K, f
<1>3. \A T \in SUBSET K : T # {} => es[Member(T)].count = f[Member(T)]
  BY <1>2 DEF Member
<1>4. sum = Body(sum)
  <2>1. PICK g \in [SUBSET K -> Nat] : Sums(g, f, SUBSET K)
    BY <1>2, SumsExist
  <2>2. g = Body(g)
    BY <1>3, <2>1 DEF Sums, Member
  <2> HIDE DEF Body
  <2>3. QED
    BY <2>2
<1>5. Sums(sum, f, SUBSET K)
  <2> HIDE DEF sum
  <2>1. QED
    BY <1>3, <1>4 DEF Sums, Member
<1> HIDE DEF sum
<1>6. QED
  BY <1>1, <1>5 DEF IsSum, K, f

(* What an entry adds to the total, and the total as a number. *)
Share(es, src) == IF src \in Counted(es) THEN es[src].count ELSE 0

Amount(pair) == IF pair.value = Unknown THEN 0 ELSE pair.value

(* The total is the share of any entry and the sum of the others.            *)
LEMMA TotalSplits ==
  ASSUME NEW es \in Entries, NEW src \in Sources
  PROVE  \E m \in Nat : /\ IsSum(m, CountsOf(es), Counted(es) \ {src})
                       /\ Share(es, src) \in Nat
                       /\ Amount(Total(es)) = Share(es, src) + m
<1> DEFINE K == Counted(es)
           f == CountsOf(es)
           m == SumFunctionOnSet(f, K \ {src})
<1>1. IsFiniteSet(K) /\ IsFiniteSet(K \ {src}) /\ \A x \in K : f[x] = es[x].count /\ f[x] \in Nat
  BY CountedAreNumbers, FS_Subset
<1>2. IsSum(m, f, K \ {src}) /\ m \in Nat
  <2> HIDE DEF K, f, m
  <2>1. \A x \in K \ {src} : f[x] \in Nat
    BY <1>1
  <2>2. IsSum(m, f, K \ {src})
    BY <1>1, <2>1, FunctionSum DEF m
  <2>3. QED
    BY <1>1, <2>1, <2>2, SumType
<1>3. Share(es, src) \in Nat
  BY <1>1 DEF Share
<1>4. Amount(Total(es)) = Share(es, src) + m
  <2>1. CASE K = {}
    <3>1. Total(es).value = Unknown /\ Share(es, src) = 0
      BY <2>1 DEF Total, Share
    <3>2. m = 0
      <4>1. K \ {src} = {}
        BY <2>1
      <4> HIDE DEF K, f, m
      <4>2. QED
        BY <1>2, <4>1, SumOfNone
    <3>3. QED
      BY <3>1, <3>2 DEF Amount
  <2>2. CASE K # {}
    <3> DEFINE n == Total(es).value
    <3>1. IsSum(n, f, K)
      BY <2>2, TotalIsOfCounts
    <3> HIDE DEF K, f, m, n
    <3>2. n \in Nat
      BY <1>1, <3>1, SumType
    <3>3. Amount(Total(es)) = n
      BY <3>2, UnknownAssumption DEF Amount, n
    <3>4. CASE src \in K
      <4>1. n = f[src] + m
        BY <1>1, <1>2, <3>1, <3>4, SumWithout
      <4>2. Share(es, src) = f[src]
        BY <1>1, <3>4 DEF Share, K
      <4>3. QED
        BY <3>3, <4>1, <4>2
    <3>5. CASE src \notin K
      <4>1. K \ {src} = K
        BY <3>5
      <4>2. n = m
        <5>1. IsSum(m, f, K)
          BY <1>2, <4>1
        <5>2. \A x \in K : f[x] = f[x] /\ f[x] \in Nat
          BY <1>1
        <5>3. QED
          BY <1>1, <3>1, <5>1, <5>2, SumsAgree
      <4>3. Share(es, src) = 0
        BY <3>5 DEF Share, K
      <4>4. QED
        BY <1>2, <3>3, <4>2, <4>3
    <3>6. QED
      BY <3>4, <3>5
  <2>3. QED
    BY <2>1, <2>2
<1> HIDE DEF m
<1>5. QED
  BY <1>2, <1>3, <1>4

(* Totals of entries that differ in one registry differ by what it adds.     *)
LEMMA TotalsDiffer ==
  ASSUME NEW es \in Entries, NEW fs \in Entries, NEW src \in Sources, \A x \in Sources \ {src} : es[x] = fs[x]
  PROVE  Amount(Total(es)) + Share(fs, src) = Amount(Total(fs)) + Share(es, src)
<1>1. PICK m \in Nat : /\ IsSum(m, CountsOf(es), Counted(es) \ {src})
                      /\ Share(es, src) \in Nat /\ Amount(Total(es)) = Share(es, src) + m
  BY TotalSplits
<1>2. PICK n \in Nat : /\ IsSum(n, CountsOf(fs), Counted(fs) \ {src})
                      /\ Share(fs, src) \in Nat /\ Amount(Total(fs)) = Share(fs, src) + n
  BY TotalSplits
<1>3. m = n
  <2> DEFINE K == Counted(es) \ {src}
             f == CountsOf(es)
             g == CountsOf(fs)
  <2>1. K = Counted(fs) \ {src}
    BY DEF Counted, Known
  <2>2. IsFiniteSet(K) /\ \A x \in K : f[x] = es[x].count /\ f[x] \in Nat
    BY CountedAreNumbers, FS_Subset
  <2>3. \A x \in K : g[x] = fs[x].count
    BY <2>1, CountedAreNumbers
  <2>4. \A x \in K : es[x] = fs[x]
    BY DEF Counted, Known
  <2>5. IsSum(m, f, K) /\ IsSum(n, g, K)
    BY <1>1, <1>2, <2>1
  <2> HIDE DEF K, f, g
  <2>6. \A x \in K : f[x] = g[x] /\ f[x] \in Nat
    BY <2>2, <2>3, <2>4
  <2>7. QED
    BY <2>2, <2>5, <2>6, SumsAgree
<1>4. QED
  BY <1>1, <1>2, <1>3

LEMMA TotalType ==
  ASSUME NEW es \in Entries
  PROVE  Total(es) \in Pair
<1>1. Total(es).value \in Count
  <2>1. CASE Counted(es) = {}
    BY <2>1 DEF Total, Count
  <2>2. CASE Counted(es) # {}
    <3>1. Total(es).value \in Nat
      BY <2>2, CountedAreNumbers, TotalIsOfCounts, SumType
    <3>2. QED
      BY <3>1 DEF Count
  <2>3. QED
    BY <2>1, <2>2
<1>2. Total(es).at \in Times \cup {0}
  <2> DEFINE L == {es[src].last : src \in Known(es)} \cup {0}
  <2>1. L \subseteq Times \cup {0} /\ 0 \in L
    BY CountedAreNumbers
  <2>2. IsFiniteSet(L)
    <3>1. IsFiniteSet(Times \cup {0})
      <4>1. Times \cup {0} = 0 .. MaxClock
        BY ClockAssumption DEF Times
      <4>2. IsFiniteSet(0 .. MaxClock)
        BY ClockAssumption, FS_Interval
      <4>3. QED
        BY <4>1, <4>2
    <3>2. QED
      BY <2>1, <3>1, FS_Subset
  <2>3. Total(es).at = Max(L)
    BY DEF Total
  <2> HIDE DEF L
  <2>4. \E x \in L : \A y \in L : x >= y
    <3>1. L \subseteq Int
      BY <2>1 DEF Times
    <3>2. QED
      BY <2>1, <2>2, <3>1, GreatestExists
  <2>5. Max(L) \in L
    BY <2>4 DEF Max
  <2>6. QED
    BY <2>1, <2>3, <2>5
<1>3. Total(es) = [value |-> Total(es).value, at |-> Total(es).at]
  BY DEF Total
<1>4. QED
  BY <1>1, <1>2, <1>3 DEF Pair

LEMMA RecomputeType ==
  ASSUME TypeOK, NEW w \in Workers, row[w] \in Row, job[w].at \in Times
  PROVE  Recompute(w, row[w].skill) \in Pair
<1>1. Merged(w) \in Entry
  BY MergedType
<1>2. row[w].skill \in Skills /\ row[w].source \in Sources
  BY DEF Row
<1>3. entry[row[w].skill] \in Entries
  BY <1>2 DEF TypeOK, Entries
<1>4. [entry[row[w].skill] EXCEPT ![row[w].source] = Merged(w)] \in Entries
  BY <1>1, <1>2, <1>3 DEF Entries
<1>5. QED
  BY <1>4, TotalType DEF Recompute

-----------------------------------------------------------------------------
(* Types *)

LEMMA NoCountType == NoCount \in Pair
  BY DEF NoCount, Pair, Count

LEMMA TypeInit == Init => TypeOK
  BY ClockAssumption, NoCountType DEF Init, TypeOK, Idle, Job, PC, Upserting, Count, Times

LEMMA ForgetType ==
  ASSUME TypeOK, NEW w \in Workers, Forget(w),
         UNCHANGED <<clock, entry, skillVars, obsVars, listed, raced, racedWeekly>>
  PROVE  TypeOK'
  BY NoCountType DEF TypeOK, Forget, CloseSession, Goto, Idle, NoRow, Job, PC, skillVars, obsVars, Upserting

LEMMA StartType ==
  ASSUME TypeOK, NEW w \in Workers, Start(w)
  PROVE  TypeOK'
<1>1. ASSUME NEW k \in {"seed", "sync"}, NEW src \in Sources, StartSync(w, k, src) PROVE TypeOK'
  <2> DEFINE now == clock + 1
  <2>1. now \in Times /\ clock' = now
    BY <1>1, ClockAssumption DEF StartSync, TypeOK, Times
  <2>2. PICK rows :
          /\ rows \subseteq Row
          /\ job' = [job EXCEPT ![w] = [kind |-> k, at |-> now, rows |-> rows]]
          /\ rest' = [rest EXCEPT ![w] = rows]
          /\ listed' = listed \cup rows
    <3>1. \A S \in SUBSET Skills : \A c \in [S -> Counts[src]] : Listing(S, src, c, now) \subseteq Row
      BY <2>1, CountsAssumption DEF Listing, Row
    <3>2. QED
      BY <1>1, <3>1 DEF StartSync
  <2>4. job'[w] \in Job
    BY <2>1, <2>2 DEF Job, TypeOK
  <2> HIDE DEF now
  <2>5. job' \in [Workers -> Job] /\ rest' \in [Workers -> SUBSET Row] /\ listed' \subseteq Row
    BY <2>2, <2>4 DEF TypeOK
  <2>6. pc' = [pc EXCEPT ![w] = "seed"] /\ job'[w].at \in Times /\ \A x \in Workers \ {w} : job'[x] = job[x]
    BY <1>1, <2>1, <2>2 DEF StartSync, Goto, TypeOK
  <2>7. UNCHANGED <<entry, skillVars, obsVars, row, copyVars, raceVars>>
    BY <1>1 DEF StartSync
  <2>8. QED
    BY <2>1, <2>5, <2>6, <2>7 DEF TypeOK, skillVars, obsVars, copyVars, raceVars, PC, Upserting
<1>2. CASE ListTracked(w)
  <2>1. PICK rows :
          /\ rows \subseteq Row
          /\ job' = [job EXCEPT ![w] = [kind |-> "scan", at |-> 0, rows |-> rows]]
          /\ rest' = [rest EXCEPT ![w] = rows]
    <3>1. \A S \in SUBSET Skills : UNION {RowsOf(s) : s \in S} \subseteq Row
      BY RowsOfType
    <3>2. QED
      BY <1>2, <3>1 DEF ListTracked
  <2>3. job' \in [Workers -> Job] /\ rest' \in [Workers -> SUBSET Row]
    BY <2>1 DEF TypeOK, Job
  <2>4. pc' = [pc EXCEPT ![w] = "begin"] /\ \A x \in Workers \ {w} : job'[x] = job[x]
    BY <1>2, <2>1 DEF ListTracked, Goto, TypeOK
  <2>5. UNCHANGED <<clock, entry, skillVars, obsVars, row, copyVars, listed, raceVars>>
    BY <1>2 DEF ListTracked
  <2>6. QED
    BY <2>3, <2>4, <2>5 DEF TypeOK, skillVars, obsVars, copyVars, raceVars, PC, Upserting
<1>3. CASE StartScan(w)
  <2>1. clock' \in Times /\ clock' = clock + 1
    BY <1>3, ClockAssumption DEF StartScan, TypeOK, Times
  <2>2. job' \in [Workers -> Job] /\ job'[w].at \in Times /\ \A x \in Workers \ {w} : job'[x] = job[x]
    <3>1. [job[w] EXCEPT !.at = clock + 1] \in Job /\ [job[w] EXCEPT !.at = clock + 1].at = clock + 1
      <4>1. job[w] \in Job /\ clock + 1 \in Times
        BY <1>3, <2>1 DEF StartScan, TypeOK
      <4>2. QED
        BY <4>1 DEF Job
    <3>2. job' = [job EXCEPT ![w] = [job[w] EXCEPT !.at = clock + 1]]
      BY <1>3 DEF StartScan
    <3>3. QED
      BY <2>1, <1>3, <3>1, <3>2 DEF StartScan, TypeOK
  <2>3. QED
    BY <1>3, <2>1, <2>2 DEF StartScan, Goto, TypeOK, skillVars, obsVars, copyVars, raceVars, PC, Upserting
<1>4. QED
  BY <1>1, <1>2, <1>3 DEF Start

LEMMA TransactType ==
  ASSUME TypeOK, NEW w \in Workers, Transact(w)
  PROVE  TypeOK'
<1>1. ASSUME NEW r \in rest[w], SelectEntry(w, r) PROVE TypeOK'
  <2>1. r \in Row
    BY DEF TypeOK
  <2>2. /\ rest' \in [Workers -> SUBSET Row]
        /\ row' = [row EXCEPT ![w] = r]
        /\ pc' = [pc EXCEPT ![w] = "flush1"] \/ pc' = [pc EXCEPT ![w] = "flush2"]
        /\ pc[w] \notin {"idle", "begin"}
    BY <1>1 DEF SelectEntry, NextRow, Goto, TypeOK
  <2>3. seen' = [seen EXCEPT ![w] = entry[r.skill][r.source]] /\ entry[r.skill][r.source] \in Entry \cup {NoEntry}
    BY <1>1, <2>1 DEF SelectEntry, TypeOK, Row
  <2>4. alone' \subseteq Workers
    BY <1>1 DEF SelectEntry, Meet, TypeOK
  <2>5. UNCHANGED <<clock, entry, skillVars, obsVars, job, mine, was, new, listed, raced, racedWeekly>>
    BY <1>1 DEF SelectEntry
  <2>6. QED
    BY <2>1, <2>2, <2>3, <2>4, <2>5, SMTT(30) DEF TypeOK, skillVars, obsVars, PC, Upserting
<1>2. CASE FlushEntry(w)
  <2>1. pc[w] \in {"flush1", "flush2"} /\ row[w] \in Row /\ job[w].at \in Times
    BY <1>2 DEF FlushEntry, Flushing, TypeOK, Upserting
  <2>2. Merged(w) \in Entry /\ mine' = [mine EXCEPT ![w] = Merged(w)]
    BY <1>2, <2>1, MergedType DEF FlushEntry
  <2>3. pc' = [pc EXCEPT ![w] = "commit1"] \/ pc' = [pc EXCEPT ![w] = "commit2"]
    BY <1>2 DEF FlushEntry, Goto
  <2>4. /\ was' = [was EXCEPT ![w] = total[row[w].skill]] /\ total[row[w].skill] \in Pair
        /\ new' = [new EXCEPT ![w] = Recompute(w, row[w].skill)] /\ Recompute(w, row[w].skill) \in Pair
    BY <1>2, <2>1, RecomputeType DEF FlushEntry, TypeOK, Row
  <2>5. UNCHANGED <<clock, entry, skillVars, obsVars, job, rest, row, seen, listed, raceVars>>
    BY <1>2 DEF FlushEntry
  <2>6. pc' \in [Workers -> PC] /\ pc'[w] \in {"commit1", "commit2"} /\ \A x \in Workers \ {w} : pc'[x] = pc[x]
    BY <2>3 DEF TypeOK, PC, Upserting
  <2>7. /\ mine' \in [Workers -> Entry \cup {NoEntry}]
        /\ mine'[w] # NoEntry /\ \A x \in Workers \ {w} : mine'[x] = mine[x]
        /\ was' \in [Workers -> Pair] /\ new' \in [Workers -> Pair]
    BY <2>2, <2>4, NoEntryAssumption DEF TypeOK
  <2>8. QED
    BY <2>1, <2>4, <2>5, <2>6, <2>7 DEF TypeOK, skillVars, obsVars, raceVars, Upserting
<1>3. CASE InsertRefused(w)
  BY <1>3, ForgetType DEF InsertRefused
<1>4. CASE CommitEntry(w)
  <2> DEFINE s == row[w].skill
             src == row[w].source
             e == WrittenEntry(entry[s][src], seen[w], mine[w])
  <2>1. pc[w] \in {"commit1", "commit2"} /\ s \in Skills /\ src \in Sources
    BY <1>4 DEF CommitEntry, TypeOK, Row, Upserting
  <2>2. e \in Entry
    <3>1. entry[s][src] \in Entry \cup {NoEntry} /\ seen[w] \in Entry \cup {NoEntry} /\ mine[w] \in Entry
      BY <2>1 DEF TypeOK
    <3>2. seen[w] # NoEntry => entry[s][src] # NoEntry
      BY <2>1 DEF TypeOK, Upserting
    <3>3. QED
      BY <3>1, <3>2, WrittenEntryType
  <2>3. /\ entry' \in [Skills -> [Sources -> Entry \cup {NoEntry}]]
        /\ \A t \in Skills, x \in Sources : entry[t][x] # NoEntry => entry'[t][x] # NoEntry
    <3> HIDE DEF e
    <3>1. entry' = [entry EXCEPT ![s] = [entry[s] EXCEPT ![src] = e]]
      BY <1>4 DEF CommitEntry, e
    <3>2. QED
      BY <2>1, <2>2, <3>1, NoEntryAssumption DEF TypeOK
  <2>4. total' \in [Skills -> Pair]
    <3>1. total' = [total EXCEPT ![s] = WrittenPair(total[s], was[w], new[w])]
      BY <1>4 DEF CommitEntry
    <3>2. WrittenPair(total[s], was[w], new[w]) \in Pair
      BY <2>1, WrittenPairType DEF TypeOK
    <3> HIDE DEF s
    <3>3. QED
      BY <3>1, <3>2 DEF TypeOK
  <2>5. pc' \in [Workers -> PC] /\ pc'[w] \in {"seed", "observe", "attribute"} /\ \A x \in Workers \ {w} : pc'[x] = pc[x]
    BY <1>4 DEF CommitEntry, AfterEntry, Goto, TypeOK, PC
  <2>6. /\ seen' = [seen EXCEPT ![w] = NoEntry] /\ mine' = [mine EXCEPT ![w] = NoEntry]
        /\ was' = [was EXCEPT ![w] = NoCount] /\ alone' \subseteq Workers
        /\ was' \in [Workers -> Pair] /\ new' \in [Workers -> Pair]
    BY <1>4, NoCountType DEF CommitEntry, CloseSession, TypeOK
  <2>7. raced' \subseteq Skills
    BY <1>4, <2>1 DEF CommitEntry, TypeOK
  <2>8. UNCHANGED <<clock, weekly, obsVars, job, rest, row, listed, racedWeekly>>
    BY <1>4 DEF CommitEntry
  <2> HIDE DEF s, src, e
  <2>9. \A x \in Workers : pc'[x] \in Upserting /\ seen'[x] # NoEntry => entry'[row'[x].skill][row'[x].source] # NoEntry
    BY <2>3, <2>5, <2>6, <2>8 DEF TypeOK, Row, Upserting
  <2>10. \A x \in Workers : row'[x] = row[x] /\ job'[x] = job[x]
    BY <2>8
  <2>11. QED
    BY <2>1, <2>3, <2>4, <2>5, <2>6, <2>7, <2>8, <2>9, <2>10 DEF TypeOK, obsVars, Upserting
<1>5. CASE ReadSkill(w)
  <2>1. row[w].skill \in Skills /\ pc[w] = "observe"
    BY <1>5 DEF ReadSkill, TypeOK, Row
  <2>2. weekly[row[w].skill] \in Pair
    BY <2>1 DEF TypeOK
  <2>3. alone' \subseteq Workers
    BY <1>5 DEF ReadSkill, Meet, TypeOK
  <2>4. was' = [was EXCEPT ![w] = weekly[row[w].skill]] /\ pc' = [pc EXCEPT ![w] = "record"]
    BY <1>5 DEF ReadSkill, Goto
  <2>5. UNCHANGED <<clock, entry, skillVars, obsVars, job, rest, row, seen, mine, new, listed, raced, racedWeekly>>
    BY <1>5 DEF ReadSkill
  <2>6. pc' \in [Workers -> PC] /\ pc'[w] = "record" /\ \A x \in Workers \ {w} : pc'[x] = pc[x]
    BY <2>4 DEF TypeOK, PC
  <2>7. was' \in [Workers -> Pair]
    BY <2>2, <2>4 DEF TypeOK
  <2>8. QED
    BY <2>1, <2>3, <2>5, <2>6, <2>7 DEF TypeOK, skillVars, obsVars, Upserting
<1>6. CASE RecordFetch(w)
  <2> DEFINE s == row[w].skill
             now == [value |-> row[w].count, at |-> job[w].at]
  <2>1. pc[w] = "record" /\ s \in Skills /\ now \in Pair /\ job[w].at \in Times /\ row[w].count \in Count
    BY <1>6 DEF RecordFetch, TypeOK, Row, Pair
  <2>2. WrittenPair(weekly[s], was[w], now) \in Pair
    BY <2>1, WrittenPairType DEF TypeOK
  <2>3. weekly' \in [Skills -> Pair]
    <3>1. weekly' = [weekly EXCEPT ![s] = WrittenPair(weekly[s], was[w], now)] \/ weekly' = weekly
      BY <1>6 DEF RecordFetch
    <3> HIDE DEF s, now
    <3>2. QED
      BY <2>2, <3>1 DEF TypeOK
  <2>4. fetches' = fetches \cup {[skill |-> s, at |-> job[w].at, count |-> row[w].count]}
    BY <1>6 DEF RecordFetch
  <2>5. /\ seen' = [seen EXCEPT ![w] = NoEntry] /\ mine' = [mine EXCEPT ![w] = NoEntry]
        /\ was' = [was EXCEPT ![w] = NoCount] /\ alone' \subseteq Workers /\ racedWeekly' \subseteq Skills
        /\ was' \in [Workers -> Pair] /\ new' \in [Workers -> Pair]
    BY <1>6, <2>1, NoCountType DEF RecordFetch, CloseSession, TypeOK
  <2>6. pc' = [pc EXCEPT ![w] = "seed"] /\ UNCHANGED <<clock, entry, total, attributed, job, rest, row, listed, raced>>
    BY <1>6 DEF RecordFetch, Goto
  <2>7. QED
    BY <2>1, <2>3, <2>4, <2>5, <2>6 DEF TypeOK, PC, Upserting
<1>7. CASE Attribute(w)
  BY <1>7 DEF Attribute, Goto, TypeOK, skillVars, copyVars, raceVars, PC, Upserting
<1>8. QED
  BY <1>1, <1>2, <1>3, <1>4, <1>5, <1>6, <1>7 DEF Transact

LEMMA ProceedType ==
  ASSUME TypeOK, NEW w \in Workers, Proceed(w)
  PROVE  TypeOK'
<1>1. ASSUME NEW r \in rest[w], SkipRow(w, r) PROVE TypeOK'
  <2>1. r \in Row
    BY DEF TypeOK
  <2>2. QED
    BY <1>1, <2>1 DEF SkipRow, NextRow, TypeOK, skillVars, obsVars, copyVars, raceVars, Upserting
<1>2. CASE EndSeed(w)
  <2>1. job[w].rows \subseteq Row
    BY DEF TypeOK, Job
  <2>2. QED
    BY <1>2, <2>1 DEF EndSeed, Goto, TypeOK, skillVars, obsVars, copyVars, raceVars, PC, Upserting
<1>3. CASE EndCommand(w)
  BY <1>3, ForgetType DEF EndCommand
<1>4. QED
  BY <1>1, <1>2, <1>3 DEF Proceed

LEMMA TypeStep == TypeOK /\ [Next]_vars => TypeOK'
<1> SUFFICES ASSUME TypeOK, [Next]_vars PROVE TypeOK'
  OBVIOUS
<1>1. ASSUME NEW w \in Workers, Die(w) PROVE TypeOK'
  BY <1>1, ForgetType DEF Die
<1>2. CASE UNCHANGED vars
  BY <1>2 DEF vars, TypeOK, skillVars, obsVars, copyVars, raceVars
<1>3. QED
  BY <1>1, <1>2, StartType, TransactType, ProceedType DEF Next

LEMMA TypeHolds == Spec => []TypeOK
  BY TypeInit, TypeStep, PTL DEF Spec

(* Every variable keeps its type, for any number of overlapping commands and *)
(* deaths, and an entry that an upsert has read is still there when it       *)
(* writes it (RegistryInstalls.TypeOK).                                      *)
THEOREM TypeCorrect == Spec => []TypeOK
  BY TypeHolds
-----------------------------------------------------------------------------
(* Transactions that meet no like one *)

(* A worker in alone is in a transaction, and no other worker is in one of   *)
(* the same kind on the same skill.                                          *)
AloneInv ==
  \A w \in alone :
    /\ pc[w] \in Upserting \cup {"record"}
    /\ \A x \in Workers \ {w} : row[x].skill = row[w].skill =>
         /\ ~(pc[w] \in Upserting /\ pc[x] \in Upserting)
         /\ ~(pc[w] = "record" /\ pc[x] = "record")

(* So what its session has read is still what the database holds.            *)
Current(w) ==
  LET s == row[w].skill
      src == row[w].source
  IN /\ pc[w] \in Upserting => seen[w] = entry[s][src]
     /\ pc[w] \in {"commit1", "commit2"} =>
          was[w] = total[s] /\ new[w] = Total([entry[s] EXCEPT ![src] = mine[w]])
     /\ pc[w] = "record" => was[w] = weekly[s]

SessionInv == \A w \in alone : Current(w)

InstallsInv == TypeOK /\ AloneInv /\ SessionInv /\ TotalIsSum /\ CurrentIsNewest

LEMMA TotalIsRecord ==
  ASSUME NEW es
  PROVE  Total(es) = [value |-> Total(es).value, at |-> Total(es).at]
  BY DEF Total

(* An UPDATE that has read what it overwrites leaves exactly what it says.   *)
LEMMA WrittenOverItsRead ==
  ASSUME NEW old \in Entry \cup {NoEntry}, NEW now \in Entry
  PROVE  WrittenEntry(old, old, now) = now
<1>1. now = [count |-> now.count, run |-> now.run, last |-> now.last]
  BY DEF Entry
<1>2. QED
  BY <1>1 DEF WrittenEntry, Written

LEMMA PairOverItsRead ==
  ASSUME NEW old, NEW now, now = [value |-> now.value, at |-> now.at]
  PROVE  WrittenPair(old, old, now) = now
  BY DEF WrittenPair, Written

LEMMA InstallsInit == Init => InstallsInv
<1> SUFFICES ASSUME Init PROVE InstallsInv
  OBVIOUS
<1>1. AloneInv /\ SessionInv /\ CurrentIsNewest
  BY DEF Init, AloneInv, SessionInv, CurrentIsNewest
<1>2. TotalIsSum
  <2> SUFFICES ASSUME NEW s \in Skills PROVE total[s] = Total(entry[s])
    BY DEF TotalIsSum
  <2>1. Known(entry[s]) = {} /\ Counted(entry[s]) = {}
    BY DEF Init, Known, Counted
  <2>2. Max({0}) = 0
    BY DEF Max
  <2>3. {entry[s][src].last : src \in Known(entry[s])} \cup {0} = {0}
    BY <2>1
  <2>4. QED
    BY <2>1, <2>2, <2>3 DEF Init, NoCount, Total
<1>3. QED
  BY <1>1, <1>2, TypeInit DEF InstallsInv

(* A worker that is in no transaction after its step disturbs nobody.        *)
LEMMA AloneKept ==
  ASSUME AloneInv, NEW w \in Workers, alone' = alone \ {w}, pc'[w] \notin Upserting \cup {"record"},
         \A x \in Workers \ {w} : pc'[x] = pc[x] /\ row'[x] = row[x], alone \subseteq Workers
  PROVE  AloneInv'
  BY DEF AloneInv

LEMMA SessionKept ==
  ASSUME SessionInv, NEW x \in alone,
         pc'[x] = pc[x], row'[x] = row[x], seen'[x] = seen[x], mine'[x] = mine[x], was'[x] = was[x], new'[x] = new[x],
         pc[x] \in Upserting => entry'[row[x].skill] = entry[row[x].skill] /\ total'[row[x].skill] = total[row[x].skill],
         pc[x] = "record" => weekly'[row[x].skill] = weekly[row[x].skill]
  PROVE  Current(x)'
<1>1. Current(x)
  BY DEF SessionInv
<1>2. QED
  BY <1>1 DEF Current, Upserting

Elsewhere(w) ==
  \A x \in Workers \ {w} :
    /\ pc'[x] = pc[x] /\ row'[x] = row[x] /\ seen'[x] = seen[x]
    /\ mine'[x] = mine[x] /\ was'[x] = was[x] /\ new'[x] = new[x]

LEMMA Quiet ==
  ASSUME InstallsInv, NEW w \in Workers, alone' = alone \ {w}, pc'[w] \notin Upserting \cup {"record"}, Elsewhere(w),
         UNCHANGED <<entry, skillVars, fetches, raced, racedWeekly>>
  PROVE  AloneInv' /\ SessionInv' /\ TotalIsSum' /\ CurrentIsNewest'
<1>1. AloneInv'
  BY AloneKept DEF InstallsInv, TypeOK, Elsewhere
<1>2. SessionInv'
  <2> SUFFICES ASSUME NEW x \in alone' PROVE Current(x)'
    BY DEF SessionInv
  <2>1. x \in alone /\ x \in Workers \ {w}
    BY DEF InstallsInv, TypeOK
  <2>2. QED
    BY <2>1, SessionKept DEF InstallsInv, Elsewhere, skillVars
<1>3. QED
  BY <1>1, <1>2 DEF InstallsInv, TotalIsSum, CurrentIsNewest, skillVars

LEMMA ForgetKeeps ==
  ASSUME InstallsInv, NEW w \in Workers, Forget(w), UNCHANGED <<entry, skillVars, fetches, raced, racedWeekly>>
  PROVE  AloneInv' /\ SessionInv' /\ TotalIsSum' /\ CurrentIsNewest'
<1>1. alone' = alone \ {w} /\ pc'[w] \notin Upserting \cup {"record"} /\ Elsewhere(w)
  BY DEF Forget, CloseSession, Goto, Elsewhere, Upserting, InstallsInv, TypeOK
<1>2. QED
  BY <1>1, Quiet

LEMMA StartKeeps ==
  ASSUME InstallsInv, NEW w \in Workers, Start(w) \/ Proceed(w) \/ Attribute(w)
  PROVE  AloneInv' /\ SessionInv' /\ TotalIsSum' /\ CurrentIsNewest'
<1>1. CASE EndCommand(w)
  BY <1>1, ForgetKeeps DEF EndCommand, obsVars
<1>2. CASE ~EndCommand(w)
  <2>1. /\ pc[w] \notin Upserting \cup {"record"} /\ pc'[w] \notin Upserting \cup {"record"}
        /\ \A x \in Workers \ {w} : pc'[x] = pc[x] /\ row'[x] = row[x]
        /\ UNCHANGED <<entry, skillVars, fetches, copyVars, raceVars>>
    <3>1. ASSUME NEW k \in {"seed", "sync"}, NEW src \in Sources, StartSync(w, k, src) PROVE <2>1
      BY <3>1 DEF StartSync, Goto, InstallsInv, TypeOK, Upserting, obsVars
    <3>2. CASE ListTracked(w)
      BY <3>2 DEF ListTracked, Goto, InstallsInv, TypeOK, Upserting, obsVars
    <3>3. CASE StartScan(w)
      BY <3>3 DEF StartScan, Goto, InstallsInv, TypeOK, Upserting, obsVars
    <3>4. ASSUME NEW r \in rest[w], SkipRow(w, r) PROVE <2>1
      BY <3>4 DEF SkipRow, NextRow, InstallsInv, TypeOK, Upserting, obsVars
    <3>5. CASE EndSeed(w)
      BY <3>5 DEF EndSeed, Goto, InstallsInv, TypeOK, Upserting, obsVars
    <3>6. CASE Attribute(w)
      BY <3>6 DEF Attribute, Goto, InstallsInv, TypeOK, Upserting
    <3>7. QED
      BY <1>2, <3>1, <3>2, <3>3, <3>4, <3>5, <3>6 DEF Start, Proceed
  <2>2. alone' = alone \ {w}
    BY <2>1 DEF InstallsInv, AloneInv, raceVars
  <2>3. Elsewhere(w)
    BY <2>1 DEF Elsewhere, copyVars
  <2>4. QED
    BY <2>1, <2>2, <2>3, Quiet DEF raceVars
<1>3. QED
  BY <1>1, <1>2

(* The select: w is alone if it meets nobody, and those it meets no longer   *)
(* are.                                                                      *)
LEMMA MeetKeeps ==
  ASSUME AloneInv, alone \subseteq Workers, NEW w \in Workers, NEW s, NEW pcs \in {Upserting, {"record"}}, Meet(w, s, pcs),
         w \notin alone, pc'[w] \in pcs, row'[w].skill = s,
         \A x \in Workers \ {w} : pc'[x] = pc[x] /\ row'[x] = row[x]
  PROVE  AloneInv' /\ alone' \subseteq alone \cup {w}
<1> DEFINE others == {x \in Workers \ {w} : pc[x] \in pcs /\ row[x].skill = s}
<1>1. alone' = IF others = {} THEN alone \cup {w} ELSE alone \ (others \cup {w})
  BY DEF Meet
<1>2. alone' \subseteq alone \cup {w} /\ (w \in alone' => others = {})
  BY <1>1
<1>3. ASSUME NEW x \in alone' PROVE x \in others => FALSE
  BY <1>1, <1>3
<1>4. "record" \notin Upserting
  BY DEF Upserting
<1>5. ASSUME NEW x \in alone', NEW y \in Workers \ {x}, row'[y].skill = row'[x].skill
      PROVE  ~(pc'[x] \in Upserting /\ pc'[y] \in Upserting) /\ ~(pc'[x] = "record" /\ pc'[y] = "record")
  <2>1. CASE x = w
    BY <1>2, <1>4, <1>5, <2>1
  <2>2. CASE y = w
    BY <1>2, <1>3, <1>4, <1>5, <2>2
  <2>3. CASE x # w /\ y # w
    BY <1>2, <1>5, <2>3 DEF AloneInv
  <2>4. QED
    BY <2>1, <2>2, <2>3
<1>6. ASSUME NEW x \in alone' PROVE pc'[x] \in Upserting \cup {"record"}
  BY <1>2, <1>6 DEF AloneInv
<1>7. QED
  BY <1>2, <1>5, <1>6 DEF AloneInv

LEMMA SelectKeeps ==
  ASSUME InstallsInv, NEW w \in Workers, NEW r \in rest[w], SelectEntry(w, r)
  PROVE  AloneInv' /\ SessionInv' /\ TotalIsSum' /\ CurrentIsNewest'
<1>1. /\ pc[w] \notin Upserting \cup {"record"} /\ pc'[w] \in {"flush1", "flush2"} /\ row'[w] = r
      /\ \A x \in Workers \ {w} : pc'[x] = pc[x] /\ row'[x] = row[x] /\ seen'[x] = seen[x]
      /\ seen'[w] = entry[r.skill][r.source]
  BY DEF SelectEntry, NextRow, Goto, InstallsInv, TypeOK, Upserting
<1>2. UNCHANGED <<entry, skillVars, fetches, mine, was, new, raced, racedWeekly>>
  BY DEF SelectEntry, obsVars
<1>3. AloneInv' /\ alone' \subseteq alone \cup {w}
  <2>1. w \notin alone
    BY <1>1 DEF InstallsInv, AloneInv
  <2>2. Meet(w, r.skill, Upserting) /\ pc'[w] \in Upserting
    BY <1>1 DEF SelectEntry, Upserting
  <2>3. QED
    BY <1>1, <2>1, <2>2, MeetKeeps DEF InstallsInv, TypeOK
<1>4. SessionInv'
  <2> SUFFICES ASSUME NEW x \in alone' PROVE Current(x)'
    BY DEF SessionInv
  <2>1. CASE x = w
    BY <1>1, <1>2, <2>1 DEF Current
  <2>2. CASE x # w
    <3>1. x \in alone /\ x \in Workers \ {w}
      BY <1>3, <2>2 DEF InstallsInv, TypeOK
    <3>2. QED
      BY <1>1, <1>2, <3>1, SessionKept DEF InstallsInv, skillVars
  <2>3. QED
    BY <2>1, <2>2
<1>5. QED
  BY <1>2, <1>3, <1>4 DEF InstallsInv, TotalIsSum, CurrentIsNewest, skillVars

LEMMA FlushKeeps ==
  ASSUME InstallsInv, NEW w \in Workers, FlushEntry(w)
  PROVE  AloneInv' /\ SessionInv' /\ TotalIsSum' /\ CurrentIsNewest'
<1>1. /\ pc[w] \in {"flush1", "flush2"} /\ pc'[w] \in {"commit1", "commit2"}
      /\ \A x \in Workers \ {w} : pc'[x] = pc[x] /\ mine'[x] = mine[x] /\ was'[x] = was[x] /\ new'[x] = new[x]
  BY DEF FlushEntry, Flushing, Goto, InstallsInv, TypeOK
<1>2. UNCHANGED <<entry, skillVars, fetches, row, seen, alone, raced, racedWeekly>>
  BY DEF FlushEntry, obsVars, raceVars
<1>3. AloneInv'
  <2>1. \A x \in Workers : (pc'[x] \in Upserting <=> pc[x] \in Upserting) /\ (pc'[x] = "record" <=> pc[x] = "record")
    BY <1>1 DEF Upserting
  <2>2. alone \subseteq Workers
    BY DEF InstallsInv, TypeOK
  <2>3. QED
    BY <1>2, <2>1, <2>2 DEF InstallsInv, AloneInv
<1>4. SessionInv'
  <2> SUFFICES ASSUME NEW x \in alone PROVE Current(x)'
    BY <1>2 DEF SessionInv
  <2>1. CASE x = w
    <3>1. mine'[w] = Merged(w) /\ was'[w] = total[row[w].skill] /\ new'[w] = Recompute(w, row[w].skill)
      BY DEF FlushEntry, InstallsInv, TypeOK
    <3>2. seen[w] = entry[row[w].skill][row[w].source]
      BY <1>1, <2>1 DEF InstallsInv, SessionInv, Current, Upserting
    <3>3. QED
      BY <1>1, <1>2, <2>1, <3>1, <3>2 DEF Current, Recompute, skillVars
  <2>2. CASE x # w
    <3>1. x \in Workers \ {w}
      BY <2>2 DEF InstallsInv, TypeOK
    <3>2. QED
      BY <1>1, <1>2, <3>1, SessionKept DEF InstallsInv, skillVars
  <2>3. QED
    BY <2>1, <2>2
<1>5. QED
  BY <1>2, <1>3, <1>4 DEF InstallsInv, TotalIsSum, CurrentIsNewest, skillVars

LEMMA CommitKeeps ==
  ASSUME InstallsInv, NEW w \in Workers, CommitEntry(w)
  PROVE  AloneInv' /\ SessionInv' /\ TotalIsSum' /\ CurrentIsNewest'
<1> DEFINE s == row[w].skill
           src == row[w].source
<1>1. /\ pc[w] \in {"commit1", "commit2"} /\ pc'[w] \notin Upserting \cup {"record"}
      /\ s \in Skills /\ src \in Sources
  BY DEF CommitEntry, AfterEntry, Goto, InstallsInv, TypeOK, Row, Upserting
<1>2. alone' = alone \ {w} /\ Elsewhere(w)
  BY DEF CommitEntry, CloseSession, Goto, Elsewhere, InstallsInv, TypeOK
<1>3. /\ entry' = [entry EXCEPT ![s] = [entry[s] EXCEPT ![src] = WrittenEntry(entry[s][src], seen[w], mine[w])]]
      /\ total' = [total EXCEPT ![s] = WrittenPair(total[s], was[w], new[w])]
      /\ raced' = IF w \in alone THEN raced \ {s} ELSE raced \cup {s}
      /\ UNCHANGED <<weekly, fetches, racedWeekly>>
  BY DEF CommitEntry, obsVars
<1>4. \A t \in Skills \ {s} : entry'[t] = entry[t] /\ total'[t] = total[t]
  BY <1>3 DEF InstallsInv, TypeOK
<1>5. AloneInv'
  BY <1>1, <1>2, AloneKept DEF InstallsInv, TypeOK, Elsewhere
<1>6. SessionInv'
  <2> SUFFICES ASSUME NEW x \in alone' PROVE Current(x)'
    BY DEF SessionInv
  <2>1. x \in alone /\ x \in Workers /\ x # w
    BY <1>2 DEF InstallsInv, TypeOK
  <2>2. pc[x] \in Upserting => row[x].skill # s
    BY <1>1, <2>1 DEF InstallsInv, AloneInv, Upserting
  <2>3. pc[x] \in Upserting => row[x].skill \in Skills
    BY <2>1 DEF InstallsInv, TypeOK, Row
  <2>4. QED
    BY <1>2, <1>3, <1>4, <2>1, <2>2, <2>3, SessionKept DEF InstallsInv, Elsewhere
<1>7. TotalIsSum'
  <2> SUFFICES ASSUME NEW t \in Skills \ raced' PROVE total'[t] = Total(entry'[t])
    BY DEF TotalIsSum
  <2>1. CASE t # s
    BY <1>3, <1>4, <2>1 DEF InstallsInv, TotalIsSum
  <2>2. CASE t = s
    <3>1. w \in alone
      BY <1>3, <2>2
    <3>2. seen[w] = entry[s][src] /\ was[w] = total[s] /\ new[w] = Total([entry[s] EXCEPT ![src] = mine[w]])
      BY <1>1, <3>1 DEF InstallsInv, SessionInv, Current, Upserting
    <3>3. WrittenEntry(entry[s][src], seen[w], mine[w]) = mine[w]
      <4>1. entry[s][src] \in Entry \cup {NoEntry}
        BY <1>1 DEF InstallsInv, TypeOK
      <4>2. mine[w] \in Entry
        BY <1>1 DEF InstallsInv, TypeOK
      <4>3. QED
        BY <3>2, <4>1, <4>2, WrittenOverItsRead
    <3>4. WrittenPair(total[s], was[w], new[w]) = new[w]
      BY <3>2, TotalIsRecord, PairOverItsRead
    <3>5. entry'[s] = [entry[s] EXCEPT ![src] = mine[w]] /\ total'[s] = new[w]
      BY <1>1, <1>3, <3>3, <3>4 DEF InstallsInv, TypeOK
    <3>6. QED
      BY <2>2, <3>2, <3>5
  <2>3. QED
    BY <2>1, <2>2
<1>8. CurrentIsNewest'
  BY <1>3 DEF InstallsInv, CurrentIsNewest
<1>9. QED
  BY <1>5, <1>6, <1>7, <1>8

LEMMA ReadKeeps ==
  ASSUME InstallsInv, NEW w \in Workers, ReadSkill(w)
  PROVE  AloneInv' /\ SessionInv' /\ TotalIsSum' /\ CurrentIsNewest'
<1>1. /\ pc[w] = "observe" /\ pc'[w] = "record" /\ was'[w] = weekly[row[w].skill]
      /\ \A x \in Workers \ {w} : pc'[x] = pc[x] /\ was'[x] = was[x]
  BY DEF ReadSkill, Goto, InstallsInv, TypeOK
<1>2. UNCHANGED <<entry, skillVars, fetches, row, seen, mine, new, raced, racedWeekly>>
  BY DEF ReadSkill, obsVars
<1>3. AloneInv' /\ alone' \subseteq alone \cup {w}
  <2>1. w \notin alone
    BY <1>1 DEF InstallsInv, AloneInv, Upserting
  <2>2. Meet(w, row[w].skill, {"record"}) /\ pc'[w] \in {"record"}
    BY <1>1 DEF ReadSkill
  <2>3. QED
    BY <1>1, <1>2, <2>1, <2>2, MeetKeeps DEF InstallsInv, TypeOK
<1>4. SessionInv'
  <2> SUFFICES ASSUME NEW x \in alone' PROVE Current(x)'
    BY DEF SessionInv
  <2>1. CASE x = w
    BY <1>1, <1>2, <2>1 DEF Current, Upserting, skillVars
  <2>2. CASE x # w
    <3>1. x \in alone /\ x \in Workers \ {w}
      BY <1>3, <2>2 DEF InstallsInv, TypeOK
    <3>2. QED
      BY <1>1, <1>2, <3>1, SessionKept DEF InstallsInv, skillVars
  <2>3. QED
    BY <2>1, <2>2
<1>5. QED
  BY <1>2, <1>3, <1>4 DEF InstallsInv, TotalIsSum, CurrentIsNewest, skillVars

LEMMA RecordKeeps ==
  ASSUME InstallsInv, NEW w \in Workers, RecordFetch(w)
  PROVE  AloneInv' /\ SessionInv' /\ TotalIsSum' /\ CurrentIsNewest'
<1> DEFINE s == row[w].skill
           now == [value |-> row[w].count, at |-> job[w].at]
           f == [skill |-> s, at |-> job[w].at, count |-> row[w].count]
<1>1. pc[w] = "record" /\ pc'[w] = "seed" /\ s \in Skills /\ job[w].at \in Times
  BY DEF RecordFetch, Goto, InstallsInv, TypeOK, Row
<1>2. alone' = alone \ {w} /\ Elsewhere(w)
  BY DEF RecordFetch, CloseSession, Goto, Elsewhere, InstallsInv, TypeOK
<1>3. /\ fetches' = fetches \cup {f}
      /\ weekly' = IF Newer(w) THEN [weekly EXCEPT ![s] = WrittenPair(weekly[s], was[w], now)] ELSE weekly
      /\ racedWeekly' = IF w \in alone THEN racedWeekly ELSE racedWeekly \cup {s}
      /\ UNCHANGED <<entry, total, raced>>
  BY DEF RecordFetch
<1>4. \A t \in Skills \ {s} : weekly'[t] = weekly[t]
  BY <1>3 DEF InstallsInv, TypeOK
<1>5. AloneInv'
  BY <1>1, <1>2, AloneKept DEF InstallsInv, TypeOK, Elsewhere, Upserting
<1>6. SessionInv'
  <2> SUFFICES ASSUME NEW x \in alone' PROVE Current(x)'
    BY DEF SessionInv
  <2>1. x \in alone /\ x \in Workers /\ x # w
    BY <1>2 DEF InstallsInv, TypeOK
  <2>2. pc[x] = "record" => row[x].skill \in Skills \ {s}
    BY <1>1, <2>1 DEF InstallsInv, AloneInv, TypeOK, Row
  <2>3. QED
    BY <1>2, <1>3, <1>4, <2>1, <2>2, SessionKept DEF InstallsInv, Elsewhere
<1>7. CurrentIsNewest'
  <2> SUFFICES ASSUME NEW t \in Skills \ racedWeekly'
               PROVE  /\ \A g \in fetches' : g.skill = t => g.at <= weekly'[t].at
                      /\ weekly'[t] # NoCount => [skill |-> t, at |-> weekly'[t].at, count |-> weekly'[t].value] \in fetches'
    BY DEF CurrentIsNewest
  <2>1. /\ t \in Skills \ racedWeekly
        /\ \A g \in fetches : g.skill = t => g.at <= weekly[t].at
        /\ weekly[t] # NoCount => [skill |-> t, at |-> weekly[t].at, count |-> weekly[t].value] \in fetches
    BY <1>3 DEF InstallsInv, CurrentIsNewest
  <2>2. CASE t # s
    BY <1>3, <1>4, <2>1, <2>2
  <2>3. CASE t = s /\ ~Newer(w)
    <3>1. was[w] = weekly[s]
      BY <1>1, <1>3, <2>3 DEF InstallsInv, SessionInv, Current
    <3>2. weekly[s].at \in Times \cup {0}
      BY <1>1 DEF InstallsInv, TypeOK, Pair
    <3>3. job[w].at <= weekly[s].at
      BY <1>1, <2>3, <3>1, <3>2, ClockAssumption DEF Newer, Times
    <3>4. QED
      BY <1>3, <2>1, <2>3, <3>3
  <2>4. CASE t = s /\ Newer(w)
    <3>1. was[w] = weekly[s]
      BY <1>1, <1>3, <2>4 DEF InstallsInv, SessionInv, Current
    <3>2. weekly'[s] = now
      <4>1. WrittenPair(weekly[s], was[w], now) = now
        BY <3>1, PairOverItsRead
      <4>2. QED
        BY <1>1, <1>3, <2>4, <4>1 DEF InstallsInv, TypeOK
    <3>3. \A g \in fetches : g.skill = s => g.at <= job[w].at
      <4>1. weekly[s].at \in Times \cup {0} /\ \A g \in fetches : g.at \in Times
        BY <1>1 DEF InstallsInv, TypeOK, Pair
      <4>2. weekly[s].at <= job[w].at
        BY <1>1, <2>4, <3>1, <4>1, ClockAssumption DEF Newer, Times
      <4>3. QED
        BY <1>1, <2>1, <2>4, <4>1, <4>2, ClockAssumption DEF Times
    <3>4. job[w].at <= job[w].at
      BY <1>1, ClockAssumption DEF Times
    <3>5. QED
      BY <1>3, <2>4, <3>2, <3>3, <3>4
  <2>5. QED
    BY <2>2, <2>3, <2>4
<1>8. TotalIsSum'
  BY <1>3 DEF InstallsInv, TotalIsSum
<1>9. QED
  BY <1>5, <1>6, <1>7, <1>8

LEMMA InstallsStep == InstallsInv /\ [Next]_vars => InstallsInv'
<1> SUFFICES ASSUME InstallsInv, [Next]_vars PROVE InstallsInv'
  OBVIOUS
<1>1. TypeOK'
  BY TypeStep DEF InstallsInv
<1>2. ASSUME NEW w \in Workers, Transact(w) PROVE AloneInv' /\ SessionInv' /\ TotalIsSum' /\ CurrentIsNewest'
  <2>1. CASE InsertRefused(w)
    BY <2>1, ForgetKeeps DEF InsertRefused, obsVars
  <2>2. QED
    BY <1>2, <2>1, SelectKeeps, FlushKeeps, CommitKeeps, ReadKeeps, RecordKeeps, StartKeeps DEF Transact
<1>3. ASSUME NEW w \in Workers, Die(w) PROVE AloneInv' /\ SessionInv' /\ TotalIsSum' /\ CurrentIsNewest'
  BY <1>3, ForgetKeeps DEF Die, obsVars
<1>4. ASSUME UNCHANGED vars PROVE AloneInv' /\ SessionInv' /\ TotalIsSum' /\ CurrentIsNewest'
  <2>1. UNCHANGED <<entry, total, weekly, fetches, pc, row, seen, mine, was, new, alone, raced, racedWeekly>>
    BY <1>4 DEF vars, skillVars, obsVars, copyVars, raceVars
  <2>2. AloneInv' /\ TotalIsSum' /\ CurrentIsNewest'
    BY <2>1 DEF InstallsInv, AloneInv, TotalIsSum, CurrentIsNewest
  <2>3. SessionInv'
    BY <2>1, SessionKept DEF InstallsInv, SessionInv
  <2>4. QED
    BY <2>2, <2>3
<1>5. ASSUME NEW w \in Workers, Start(w) \/ Proceed(w) PROVE AloneInv' /\ SessionInv' /\ TotalIsSum' /\ CurrentIsNewest'
  BY <1>5, StartKeeps
<1>6. AloneInv' /\ SessionInv' /\ TotalIsSum' /\ CurrentIsNewest'
  <2>1. CASE Next
    BY <2>1, <1>2, <1>3, <1>5 DEF Next
  <2>2. QED
    BY <1>4, <2>1
<1>7. QED
  BY <1>1, <1>6 DEF InstallsInv

LEMMA InstallsHold == Spec => []InstallsInv
  BY InstallsInit, InstallsStep, PTL DEF Spec

(* The total of a skill is the sum over its entries however the commands     *)
(* overlap and die, unless its latest upserts met each other: an upsert that *)
(* meets none repairs it (RegistryInstalls.TotalIsSum).                      *)
THEOREM TotalsAreSums == Spec => []TotalIsSum
<1>1. InstallsInv => TotalIsSum
  BY DEF InstallsInv
<1>2. QED
  BY <1>1, InstallsHold, PTL

(* No known count of a registry is lost from the total of a skill whose      *)
(* upserts have not met: each entry is in it.                                *)
NoCountIsLost ==
  \A s \in Skills \ raced : \A src \in Counted(entry[s]) :
    total[s].value \in Nat /\ entry[s][src].count <= total[s].value

(* An upsert that meets none moves the total by as much as its own entry, up *)
(* or down, also when the entry is new or its count becomes unknown          *)
(* (upsert_skill_source_entry and _recompute_skill_total_installs).          *)
TotalMovesWithEntry ==
  \A w \in alone : CommitEntry(w) /\ row[w].skill \notin raced =>
    LET s == row[w].skill
        src == row[w].source
    IN Amount(total'[s]) + Share(entry[s], src) = Amount(total[s]) + Share(entry'[s], src)

(* The registries of a skill are all in its total, whatever else is under    *)
(* way for other skills, and whatever has died.                              *)
THEOREM TotalsLoseNoCount == Spec => []NoCountIsLost
<1>1. InstallsInv => NoCountIsLost
  <2> SUFFICES ASSUME InstallsInv, NEW s \in Skills \ raced, NEW src \in Counted(entry[s])
               PROVE  total[s].value \in Nat /\ entry[s][src].count <= total[s].value
    BY DEF NoCountIsLost
  <2> DEFINE es == entry[s]
  <2>1. es \in Entries /\ src \in Sources /\ total[s] = Total(es)
    BY DEF InstallsInv, TypeOK, TotalIsSum, Entries, Counted, Known
  <2>2. Share(es, src) = es[src].count
    BY DEF Share
  <2>3. Counted(es) # {}
    OBVIOUS
  <2> HIDE DEF es
  <2>4. PICK m \in Nat : Share(es, src) \in Nat /\ Amount(Total(es)) = Share(es, src) + m
    BY <2>1, TotalSplits
  <2>5. Total(es).value \in Nat
    BY <2>1, <2>3, CountedAreNumbers, TotalIsOfCounts, SumType
  <2>6. Amount(Total(es)) = Total(es).value
    BY <2>5, UnknownAssumption DEF Amount
  <2>7. es[src].count <= Total(es).value
    BY <2>2, <2>4, <2>5, <2>6
  <2>8. QED
    BY <2>1, <2>5, <2>7 DEF es
<1>2. QED
  BY <1>1, InstallsHold, PTL

(* Syncs of several registries may follow each other or overlap for other    *)
(* skills: each adds to the total of a skill what it changes there, and      *)
(* nothing of what another has added is lost or counted twice.               *)
THEOREM UpsertsMoveTotals == Spec => [][TotalMovesWithEntry]_vars
<1>1. ASSUME InstallsInv, InstallsInv', [Next]_vars PROVE TotalMovesWithEntry
  <2> SUFFICES ASSUME NEW w \in alone, CommitEntry(w), row[w].skill \notin raced
               PROVE  Amount(total'[row[w].skill]) + Share(entry[row[w].skill], row[w].source)
                        = Amount(total[row[w].skill]) + Share(entry'[row[w].skill], row[w].source)
    BY DEF TotalMovesWithEntry
  <2> DEFINE s == row[w].skill
             src == row[w].source
             es == entry[s]
             fs == entry'[s]
  <2>1. w \in Workers
    BY <1>1 DEF InstallsInv, TypeOK
  <2>2. s \in Skills /\ src \in Sources
    BY <1>1, <2>1 DEF CommitEntry, InstallsInv, TypeOK, Row, Upserting
  <2>3. es \in Entries /\ total[s] = Total(es)
    BY <1>1, <2>2 DEF InstallsInv, TypeOK, TotalIsSum, Entries
  <2>4. fs \in Entries
    BY <1>1, <2>2 DEF InstallsInv, TypeOK, Entries
  <2>5. total'[s] = Total(fs)
    <3>1. s \in Skills \ raced'
      BY <2>2 DEF CommitEntry
    <3>2. QED
      BY <1>1, <3>1 DEF InstallsInv, TotalIsSum
  <2>6. \A x \in Sources \ {src} : es[x] = fs[x]
    <3>1. entry' = [entry EXCEPT ![s] = [entry[s] EXCEPT ![src] = WrittenEntry(entry[s][src], seen[w], mine[w])]]
      BY DEF CommitEntry
    <3> DEFINE e == WrittenEntry(entry[s][src], seen[w], mine[w])
    <3> HIDE DEF e
    <3>2. entry'[s] = [entry[s] EXCEPT ![src] = e]
      BY <1>1, <2>2, <3>1 DEF InstallsInv, TypeOK, e
    <3>3. QED
      BY <2>3, <3>2 DEF Entries
  <2> HIDE DEF s, src, es, fs
  <2>7. Amount(Total(es)) + Share(fs, src) = Amount(Total(fs)) + Share(es, src)
    BY <2>2, <2>3, <2>4, <2>6, TotalsDiffer
  <2>8. QED
    BY <2>3, <2>5, <2>7 DEF s, src, es, fs
<1>2. QED
  BY <1>1, InstallsHold, PTL DEF Spec

(* The current weekly installs are those of the newest directory fetch, even *)
(* when a command that was observed earlier writes later                     *)
(* (RegistryInstalls.CurrentIsNewest).                                       *)
THEOREM CurrentInstallsAreNewest == Spec => []CurrentIsNewest
<1>1. InstallsInv => CurrentIsNewest
  BY DEF InstallsInv
<1>2. QED
  BY <1>1, InstallsHold, PTL
-----------------------------------------------------------------------------
(* One command after the other *)

RunIn(e) == IF e = NoEntry THEN 0 ELSE e.run

(* The rows of a fetched listing carry its run; those of scan-due carry the  *)
(* run of the entry that they would write.                                   *)
Backed(w, r) ==
  IF job[w].kind = "scan"
    THEN r.run = RunIn(entry[r.skill][r.source]) /\ (r.run # 0 => r \in listed)
    ELSE r.run = job[w].at /\ r \in listed

(* What the command under way may trust, if it is the only one. *)
Acting(w) ==
  pc[w] # "idle" =>
    /\ \A x \in Workers \ {w} : pc[x] = "idle"
    /\ job[w].kind # "none"
    /\ pc[w] = "begin" => job[w].kind = "scan"
    /\ pc[w] # "begin" => job[w].at = clock
    /\ pc[w] \in {"scan", "flush2", "commit2", "attribute"} => job[w].kind \in {"sync", "scan"}
    /\ rest[w] \subseteq job[w].rows
    /\ pc[w] \in Upserting \cup {"observe", "record", "attribute"} => row[w] \in job[w].rows
    /\ \A r \in job[w].rows : Backed(w, r)
    /\ pc[w] \in Upserting => seen[w] = entry[row[w].skill][row[w].source]
    /\ pc[w] \in {"commit1", "commit2"} => mine[w] = Merged(w)
    /\ pc[w] = "attribute" => /\ entry[row[w].skill][row[w].source] # NoEntry
                              /\ entry[row[w].skill][row[w].source].run = row[w].run

LastInv == \A s \in Skills : \A src \in Known(entry[s]) : entry[s][src].last <= clock

(* The row r is of the run that the attribution a names, and q tells its      *)
(* count.                                                                     *)
Supports(r, q, a) ==
  /\ r.skill = a.skill /\ q.skill = a.skill
  /\ r.run = a.run
  /\ q.source = a.source /\ q.count = a.count
  /\ r.source <= q.source
  /\ r.source = q.source => r = q

AttributionsAre == \A a \in attributed : a.run # 0 => \E r, q \in listed : Supports(r, q, a)

OneCommand == \A w \in Workers : Acting(w)

TurnInv == ~overlapped => OneCommand /\ LastInv /\ CountIsOfItsRun

(* The others are idle, before the step of the only command and after it.    *)
LEMMA OthersRest ==
  ASSUME TypeOK, TurnInv, NEW w \in Workers, Start(w) \/ Transact(w) \/ Proceed(w) \/ Die(w), ~overlapped'
  PROVE  /\ ~overlapped
         /\ \A x \in Workers \ {w} : pc[x] = "idle" /\ pc'[x] = "idle"
<1>1. ~overlapped
  BY DEF Start, Transact, Proceed, Die, StartSync, ListTracked, StartScan, SelectEntry, FlushEntry,
         InsertRefused,
       CommitEntry, ReadSkill, RecordFetch, Attribute, SkipRow, EndSeed, EndCommand, Overlap
<1>2. pc[w] = "idle" => \A x \in Workers \ {w} : pc[x] = "idle"
  BY DEF Start, Transact, Proceed, Die, StartSync, ListTracked, StartScan, SelectEntry, FlushEntry, Flushing,
       InsertRefused, CommitEntry, ReadSkill, RecordFetch, Attribute, SkipRow, NextRow, EndSeed,
       EndCommand, Overlap
<1>3. \A x \in Workers \ {w} : pc[x] = "idle"
  BY <1>1, <1>2 DEF TurnInv, OneCommand, Acting
<1>4. \A x \in Workers \ {w} : pc'[x] = pc[x]
  <2>1. pc' = pc \/ \E p : pc' = [pc EXCEPT ![w] = p]
    BY Zenon DEF Start, Transact, Proceed, Die, StartSync, ListTracked, StartScan, SelectEntry, FlushEntry,
           InsertRefused,
       CommitEntry, ReadSkill, RecordFetch, Attribute, SkipRow, EndSeed, EndCommand, Forget, Goto
  <2> QED BY <2>1 DEF TypeOK
<1> QED BY <1>1, <1>3, <1>4

(* What the upsert of the only command commits is backed by its run. *)
LEMMA TurnCommit ==
  ASSUME TypeOK, TurnInv, ~overlapped, NEW w \in Workers, CommitEntry(w)
  PROVE  LET e == Merged(w)
         IN /\ entry' = [entry EXCEPT ![row[w].skill][row[w].source] = e]
            /\ row[w] \in Row /\ e # NoEntry
            /\ e.run = row[w].run /\ e.count = row[w].count /\ e.last <= clock
            /\ row[w].run # 0 => row[w] \in listed
<1>1. pc[w] \in {"commit1", "commit2"} /\ Acting(w) /\ LastInv
  BY DEF CommitEntry, TurnInv, OneCommand
<1>2. /\ row[w] \in Row /\ row[w] \in job[w].rows /\ Backed(w, row[w])
      /\ mine[w] = Merged(w) /\ seen[w] = entry[row[w].skill][row[w].source]
      /\ job[w].at = clock /\ clock \in Times
  BY <1>1 DEF Acting, Upserting, TypeOK
<1>3. Merged(w) \in Entry /\ seen[w] \in Entry \cup {NoEntry} /\ row[w].skill \in Skills /\ row[w].source \in Sources
  BY <1>2, MergedType DEF TypeOK, Row
<1>4. entry' = [entry EXCEPT ![row[w].skill][row[w].source] = Merged(w)]
  BY <1>2, <1>3, WrittenOverItsRead DEF CommitEntry
<1>5. Merged(w) # NoEntry
  BY <1>3, NoEntryAssumption
<1>6. Merged(w).count = row[w].count
  BY DEF Merged
<1>7. seen[w] # NoEntry => seen[w].last \in Times /\ seen[w].last <= clock
  BY <1>1, <1>2, <1>3 DEF LastInv, Known, Entry
<1>8. Merged(w).last <= clock
  BY <1>2, <1>7, ClockAssumption DEF Merged, Later, Times
<1>9. Merged(w).run = row[w].run
  <2>1. CASE job[w].kind = "scan"
    BY <1>2, <2>1 DEF Merged, RunOf, Backed, RunIn
  <2>2. CASE job[w].kind # "scan"
    BY <1>2, <1>7, <2>2, ClockAssumption DEF Merged, RunOf, Backed, Times
  <2> QED BY <2>1, <2>2
<1>10. row[w].run # 0 => row[w] \in listed
  BY <1>2 DEF Backed
<1> QED BY <1>2, <1>4, <1>5, <1>6, <1>8, <1>9, <1>10

(* The rows of a listing and of scan-due are backed when they are read. *)
LEMMA TurnStart ==
  ASSUME TypeOK, TypeOK', TurnInv, ~overlapped, NEW w \in Workers, Start(w),
         \A x \in Workers \ {w} : pc[x] = "idle" /\ pc'[x] = "idle"
  PROVE  Acting(w)' /\ LastInv' /\ CountIsOfItsRun'
<1>0. LastInv /\ CountIsOfItsRun /\ OneCommand
  BY DEF TurnInv
<1>1. ASSUME NEW k \in {"seed", "sync"}, NEW src \in Sources, StartSync(w, k, src)
      PROVE  Acting(w)' /\ LastInv' /\ CountIsOfItsRun'
  <2>1. PICK rows : /\ \A r \in rows : r.run = clock + 1 /\ r.source = src
                    /\ job' = [job EXCEPT ![w] = [kind |-> k, at |-> clock + 1, rows |-> rows]]
                    /\ rest' = [rest EXCEPT ![w] = rows]
                    /\ listed' = listed \cup rows
    <3>1. PICK S \in (SUBSET Skills) \ {{}} : \E c \in [S -> Counts[src]] :
            /\ job' = [job EXCEPT ![w] = [kind |-> k, at |-> clock + 1, rows |-> Listing(S, src, c, clock + 1)]]
            /\ rest' = [rest EXCEPT ![w] = Listing(S, src, c, clock + 1)]
            /\ listed' = listed \cup Listing(S, src, c, clock + 1)
      BY <1>1 DEF StartSync
    <3>2. \A c : \A r \in Listing(S, src, c, clock + 1) : r.run = clock + 1 /\ r.source = src
      BY DEF Listing
    <3> QED BY <3>1, <3>2
  <2>2. /\ UNCHANGED entry /\ clock' = clock + 1 /\ pc' = [pc EXCEPT ![w] = "seed"]
        /\ k = "sync" => src \in DeepSources
    BY <1>1 DEF StartSync, Goto
  <2>3. /\ pc'[w] = "seed" /\ rest'[w] = job'[w].rows
        /\ job'[w] = [kind |-> k, at |-> clock + 1, rows |-> rows]
    BY <2>1, <2>2 DEF TypeOK
  <2>4. \A r \in rows : r.run = clock + 1 /\ r.source = src /\ r \in listed'
    BY <2>1
  <2>5. Acting(w)'
    BY <2>2, <2>3, <2>4 DEF Acting, Backed, Upserting
  <2>6. LastInv'
    BY <1>0, <2>2, ClockAssumption DEF LastInv, TypeOK, Known, Entry, Times
  <2>7. CountIsOfItsRun'
    BY <1>0, <2>1, <2>2 DEF CountIsOfItsRun, Known
  <2> QED BY <2>5, <2>6, <2>7
<1>2. CASE ListTracked(w)
  <2>1. PICK S \in (SUBSET Skills) \ {{}} : \E rows \in SUBSET (UNION {RowsOf(s) : s \in S}) :
          /\ job' = [job EXCEPT ![w] = [kind |-> "scan", at |-> 0, rows |-> rows]]
          /\ rest' = [rest EXCEPT ![w] = rows]
    BY <1>2 DEF ListTracked
  <2>2. PICK rows \in SUBSET (UNION {RowsOf(s) : s \in S}) :
          /\ job' = [job EXCEPT ![w] = [kind |-> "scan", at |-> 0, rows |-> rows]]
          /\ rest' = [rest EXCEPT ![w] = rows]
    BY <2>1
  <2>3. UNCHANGED <<clock, entry, listed>> /\ pc' = [pc EXCEPT ![w] = "begin"]
    BY <1>2 DEF ListTracked, Goto
  <2>4. pc'[w] = "begin" /\ rest'[w] = job'[w].rows /\ job'[w] = [kind |-> "scan", at |-> 0, rows |-> rows]
    BY <2>2, <2>3 DEF TypeOK
  <2>5. ASSUME NEW r \in rows
        PROVE  r.run = RunIn(entry[r.skill][r.source]) /\ (r.run # 0 => r \in listed)
    <3>1. PICK s \in Skills : r \in RowsOf(s)
      BY <2>2
    <3>2. CASE Known(entry[s]) = {}
      <4>1. r.skill = s /\ r.source \in Sources /\ r.run = 0
        BY <3>1, <3>2 DEF RowsOf
      <4> QED BY <3>2, <4>1 DEF Known, RunIn
    <3>3. CASE Known(entry[s]) # {}
      <4>1. PICK src \in Primary(entry[s]) :
              r = [skill |-> s, source |-> src, count |-> entry[s][src].count, run |-> entry[s][src].run]
        BY <3>1, <3>3 DEF RowsOf
      <4>2. src \in Known(entry[s]) /\ entry[s][src] # NoEntry
        BY DEF Primary, Known
      <4> QED BY <1>0, <4>1, <4>2 DEF CountIsOfItsRun, RunIn
    <3> QED BY <3>2, <3>3
  <2>6. Acting(w)'
    BY <2>3, <2>4, <2>5 DEF Acting, Backed, Upserting
  <2> QED BY <1>0, <2>3, <2>6 DEF LastInv, CountIsOfItsRun
<1>3. CASE StartScan(w)
  <2>1. /\ pc[w] = "begin" /\ pc' = [pc EXCEPT ![w] = "seed"] /\ clock' = clock + 1
        /\ job' = [job EXCEPT ![w].at = clock + 1] /\ UNCHANGED <<entry, rest, listed>>
    BY <1>3 DEF StartScan, Goto
  <2>2. /\ pc'[w] = "seed" /\ job'[w].kind = job[w].kind /\ job'[w].rows = job[w].rows /\ job'[w].at = clock + 1
    BY <2>1 DEF TypeOK, Job
  <2>3. Acting(w)'
    BY <1>0, <2>1, <2>2 DEF OneCommand, Acting, Backed, Upserting
  <2>4. LastInv'
    BY <1>0, <2>1, ClockAssumption DEF LastInv, TypeOK, Known, Entry, Times
  <2> QED BY <1>0, <2>1, <2>3, <2>4 DEF CountIsOfItsRun
<1> QED BY <1>1, <1>2, <1>3 DEF Start

(* While one command runs at a time, what it writes back is of its run. *)
LEMMA TurnStep ==
  ASSUME TypeOK, TypeOK', TurnInv, Next
  PROVE  TurnInv'
<1> SUFFICES ASSUME ~overlapped'
             PROVE  OneCommand' /\ LastInv' /\ CountIsOfItsRun'
  BY DEF TurnInv
<1>1. PICK w \in Workers : Start(w) \/ Transact(w) \/ Proceed(w) \/ Die(w)
  BY DEF Next
<1>2. ~overlapped /\ \A x \in Workers \ {w} : pc[x] = "idle" /\ pc'[x] = "idle"
  BY <1>1, OthersRest
<1>3. Acting(w) /\ LastInv /\ CountIsOfItsRun
  BY <1>2 DEF TurnInv, OneCommand
<1>4. \A x \in Workers \ {w} : Acting(x)'
  BY <1>2 DEF Acting
<1>5. UNCHANGED <<clock, entry, listed>> => LastInv' /\ CountIsOfItsRun'
  BY <1>3 DEF LastInv, CountIsOfItsRun
<1>6. SUFFICES Acting(w)' /\ LastInv' /\ CountIsOfItsRun'
  BY <1>4 DEF OneCommand
<1>7. CASE Start(w)
  BY <1>2, <1>7, TurnStart
<1>8. CASE InsertRefused(w) \/ EndCommand(w) \/ Die(w)
  <2>1. UNCHANGED <<clock, entry, listed>> /\ pc' = [pc EXCEPT ![w] = "idle"]
    BY <1>8 DEF InsertRefused, EndCommand, Die, Forget, Goto
  <2>2. pc'[w] = "idle"
    BY <2>1 DEF TypeOK
  <2> QED BY <1>5, <2>1, <2>2 DEF Acting
<1>9. CASE EndSeed(w)
  <2>1. /\ UNCHANGED <<clock, entry, listed, job, row>> /\ job[w].kind # "seed" /\ pc[w] = "seed"
        /\ pc' = [pc EXCEPT ![w] = "scan"] /\ rest' = [rest EXCEPT ![w] = job[w].rows]
    BY <1>9 DEF EndSeed, Goto
  <2>2. pc'[w] = "scan" /\ rest'[w] = job[w].rows /\ job[w].kind \in {"none", "seed", "sync", "scan"}
    BY <2>1 DEF TypeOK, Job
  <2>3. job[w].kind # "none"
    BY <1>3, <2>1 DEF Acting
  <2> QED BY <1>2, <1>3, <1>5, <2>1, <2>2, <2>3 DEF Acting, Backed, Upserting
<1>10. ASSUME NEW r \in rest[w], SkipRow(w, r)
       PROVE  Acting(w)' /\ LastInv' /\ CountIsOfItsRun'
  <2>1. /\ UNCHANGED <<clock, entry, listed, job, pc>> /\ pc[w] = "scan"
        /\ rest' = [rest EXCEPT ![w] = @ \ {r}]
    BY <1>10 DEF SkipRow, NextRow
  <2>2. rest'[w] = rest[w] \ {r}
    BY <2>1 DEF TypeOK
  <2> QED BY <1>2, <1>3, <1>5, <2>1, <2>2 DEF Acting, Backed, Upserting
<1>11. ASSUME NEW r \in rest[w], SelectEntry(w, r)
       PROVE  Acting(w)' /\ LastInv' /\ CountIsOfItsRun'
  <2>1. /\ UNCHANGED <<clock, entry, listed, job>>
        /\ rest' = [rest EXCEPT ![w] = @ \ {r}] /\ row' = [row EXCEPT ![w] = r]
        /\ seen' = [seen EXCEPT ![w] = entry[r.skill][r.source]]
        /\ \/ pc[w] = "seed" /\ pc' = [pc EXCEPT ![w] = "flush1"]
           \/ pc[w] = "scan" /\ pc' = [pc EXCEPT ![w] = "flush2"]
    BY <1>11 DEF SelectEntry, NextRow, Goto
  <2>2. /\ rest'[w] = rest[w] \ {r} /\ row'[w] = r /\ seen'[w] = entry[r.skill][r.source]
        /\ \/ pc[w] = "seed" /\ pc'[w] = "flush1"
           \/ pc[w] = "scan" /\ pc'[w] = "flush2"
    BY <2>1 DEF TypeOK
  <2> QED BY <1>2, <1>3, <1>5, <2>1, <2>2 DEF Acting, Backed, Upserting
<1>12. CASE FlushEntry(w)
  <2>1. /\ UNCHANGED <<clock, entry, listed, job, rest, row, seen>>
        /\ mine' = [mine EXCEPT ![w] = Merged(w)]
        /\ \/ pc[w] = "flush1" /\ pc' = [pc EXCEPT ![w] = "commit1"]
           \/ pc[w] = "flush2" /\ pc' = [pc EXCEPT ![w] = "commit2"]
    BY <1>12 DEF FlushEntry, Flushing, Goto
  <2>2. /\ mine'[w] = Merged(w)
        /\ \/ pc[w] = "flush1" /\ pc'[w] = "commit1"
           \/ pc[w] = "flush2" /\ pc'[w] = "commit2"
    BY <2>1 DEF TypeOK
  <2>3. Merged(w)' = Merged(w)
    BY <2>1 DEF Merged, RunOf
  <2> QED BY <1>2, <1>3, <1>5, <2>1, <2>2, <2>3 DEF Acting, Backed, Upserting
<1>13. CASE CommitEntry(w)
  <2> DEFINE e == Merged(w)
  <2>1. /\ UNCHANGED <<clock, listed, job, rest, row>>
        /\ \/ pc[w] = "commit1" /\ pc' = [pc EXCEPT ![w] = "seed"]
           \/ pc[w] = "commit1" /\ pc' = [pc EXCEPT ![w] = "observe"]
           \/ pc[w] = "commit2" /\ pc' = [pc EXCEPT ![w] = "attribute"]
    BY <1>13 DEF CommitEntry, AfterEntry, Goto
  <2>2. \/ pc[w] = "commit1" /\ pc'[w] \in {"seed", "observe"}
        \/ pc[w] = "commit2" /\ pc'[w] = "attribute"
    BY <2>1 DEF TypeOK
  <2>3. /\ entry' = [entry EXCEPT ![row[w].skill][row[w].source] = e]
        /\ row[w] \in Row /\ e # NoEntry
        /\ e.run = row[w].run /\ e.count = row[w].count /\ e.last <= clock
        /\ row[w].run # 0 => row[w] \in listed
    BY <1>2, <1>13, TurnCommit
  <2> HIDE DEF e
  <2>4. \A s \in Skills : \A src \in Sources :
          entry'[s][src] = IF s = row[w].skill /\ src = row[w].source THEN e ELSE entry[s][src]
    BY <2>3 DEF TypeOK
  <2>5. LastInv'
    BY <1>3, <2>1, <2>3, <2>4 DEF LastInv, Known
  <2>6. CountIsOfItsRun'
    <3>1. row[w] = [skill |-> row[w].skill, source |-> row[w].source, count |-> e.count, run |-> e.run]
      BY <2>3 DEF Row
    <3> QED BY <1>3, <2>1, <2>3, <2>4, <3>1 DEF CountIsOfItsRun, Known
  <2>7. row[w] \in job[w].rows /\ job[w].rows \subseteq Row
    BY <1>3, <2>2 DEF Acting, Upserting, TypeOK, Job
  <2>8. \A r \in job[w].rows : Backed(w, r) /\ r.skill \in Skills /\ r.source \in Sources
    BY <1>3, <2>2, <2>7 DEF Acting, Row
  <2>9. ASSUME NEW r \in job[w].rows
        PROVE  Backed(w, r)'
    <3>1. CASE job[w].kind # "scan"
      BY <2>1, <2>8, <3>1 DEF Backed
    <3>2. CASE job[w].kind = "scan" /\ ~(r.skill = row[w].skill /\ r.source = row[w].source)
      BY <2>1, <2>4, <2>8, <3>2 DEF Backed
    <3>3. CASE job[w].kind = "scan" /\ r.skill = row[w].skill /\ r.source = row[w].source
      <4>1. r.run = RunIn(entry[r.skill][r.source]) /\ row[w].run = RunIn(entry[r.skill][r.source])
        BY <2>7, <2>8, <3>3 DEF Backed
      <4>2. RunIn(entry'[r.skill][r.source]) = row[w].run
        BY <2>3, <2>4, <2>8, <3>3 DEF RunIn
      <4> QED BY <2>1, <2>8, <4>1, <4>2 DEF Backed, RunIn
    <3> QED BY <3>1, <3>2, <3>3
  <2>10. entry'[row[w].skill][row[w].source] = e
    BY <2>4, <2>7, <2>8
  <2>11. Acting(w)'
    BY <1>2, <1>3, <2>1, <2>2, <2>3, <2>7, <2>9, <2>10 DEF Acting, Upserting
  <2> QED BY <2>5, <2>6, <2>11
<1>14. CASE ReadSkill(w) \/ RecordFetch(w)
  <2>1. /\ UNCHANGED <<clock, entry, listed, job, rest, row>>
        /\ \/ pc[w] = "observe" /\ pc' = [pc EXCEPT ![w] = "record"]
           \/ pc[w] = "record" /\ pc' = [pc EXCEPT ![w] = "seed"]
    BY <1>14 DEF ReadSkill, RecordFetch, Goto
  <2>2. (pc[w] = "observe" /\ pc'[w] = "record") \/ (pc[w] = "record" /\ pc'[w] = "seed")
    BY <2>1 DEF TypeOK
  <2> QED BY <1>2, <1>3, <1>5, <2>1, <2>2 DEF Acting, Backed, Upserting
<1>15. CASE Attribute(w)
  <2>1. /\ UNCHANGED <<clock, entry, listed, job, rest, row>>
        /\ pc[w] = "attribute" /\ pc' = [pc EXCEPT ![w] = "scan"]
    BY <1>15 DEF Attribute, Goto
  <2>2. pc'[w] = "scan"
    BY <2>1 DEF TypeOK
  <2> QED BY <1>2, <1>3, <1>5, <2>1, <2>2 DEF Acting, Backed, Upserting
<1> QED BY <1>1, <1>7, <1>8, <1>9, <1>10, <1>11, <1>12, <1>13, <1>14, <1>15 DEF Transact, Proceed

LEMMA TurnHolds == Spec => [](TypeOK /\ TurnInv)
<1>1. Init => TurnInv
  BY DEF Init, TurnInv, OneCommand, Acting, LastInv, CountIsOfItsRun, Known
<1>2. TypeOK /\ TurnInv /\ [Next]_vars => TypeOK' /\ TurnInv'
  <2> SUFFICES ASSUME TypeOK, TurnInv, [Next]_vars
               PROVE  TypeOK' /\ TurnInv'
    OBVIOUS
  <2>1. TypeOK'
    BY TypeStep
  <2>2. CASE UNCHANGED vars
    <3>1. /\ UNCHANGED <<clock, entry, pc, job, rest, row, seen, mine, listed, overlapped>>
          /\ \A w \in Workers : Merged(w)' = Merged(w)
      BY <2>2 DEF vars, copyVars, Merged, RunOf
    <3>2. OneCommand => OneCommand'
      BY <3>1 DEF OneCommand, Acting, Backed
    <3>3. LastInv' = LastInv /\ CountIsOfItsRun' = CountIsOfItsRun
      BY <3>1 DEF LastInv, CountIsOfItsRun, Known
    <3> QED BY <2>1, <3>1, <3>2, <3>3 DEF TurnInv
  <2>3. CASE Next
    BY <2>1, <2>3, TurnStep
  <2> QED BY <2>1, <2>2, <2>3
<1> QED BY TypeInit, <1>1, <1>2, PTL DEF Spec

(* As long as one command ends before the next begins, each entry has the    *)
(* count that its run has observed, however often scan-due writes it back    *)
(* (RegistryInstalls.CountIsOfItsRunInTurn).                                 *)
THEOREM CountsAreOfTheirRuns == Spec => []CountIsOfItsRunInTurn
<1>1. TurnInv => CountIsOfItsRunInTurn
  BY DEF TurnInv, CountIsOfItsRunInTurn
<1> QED BY <1>1, TurnHolds, PTL

LEMMA FirstSource ==
  ASSUME NEW es, Known(es) # {}
  PROVE  Primary(es) # {}
<1>1. Known(es) \subseteq Nat
  BY SourcesAssumption DEF Known
<1>2. \E x \in Known(es) : \A y \in Known(es) : x <= y
  BY <1>1, LeastExists
<1> QED BY <1>2 DEF Primary

(* As long as one command ends before the next begins, the run that a scan   *)
(* attribution names has listed the skill in the registry of the attribution *)
(* and with its count, or else in one that comes before it, and then the     *)
(* count is from a listing of its own registry, whichever registries are     *)
(* synced deeply (RegistryInstalls.AttributionIsOfItsRun).                   *)
THEOREM AttributionsAreOfTheirRuns == Spec => []AttributionIsOfItsRun
<1>1. Init => AttributionIsOfItsRun
  BY DEF Init, AttributionIsOfItsRun
<1>2. TypeOK /\ TypeOK' /\ TurnInv /\ AttributionIsOfItsRun /\ [Next]_vars => AttributionIsOfItsRun'
  <2> SUFFICES ASSUME TypeOK, TypeOK', TurnInv, AttributionIsOfItsRun, [Next]_vars, ~overlapped'
               PROVE  AttributionsAre'
    BY DEF AttributionIsOfItsRun, AttributionsAre, Supports
  <2>1. CASE UNCHANGED <<attributed, overlapped>> /\ listed \subseteq listed'
    BY <2>1 DEF AttributionIsOfItsRun, AttributionsAre, Supports
  <2>2. ASSUME NEW w \in Workers, Attribute(w)
        PROVE  AttributionsAre'
    <3> DEFINE a == [row[w] EXCEPT !.run = ContextRun(w)]
               es == entry[row[w].skill]
               src == row[w].source
    <3>1. /\ ~overlapped /\ UNCHANGED listed /\ pc[w] = "attribute"
          /\ attributed' = attributed \cup {a}
      BY <2>2 DEF Attribute
    <3>2. AttributionsAre /\ Acting(w) /\ CountIsOfItsRun
      BY <3>1 DEF AttributionIsOfItsRun, AttributionsAre, Supports, TurnInv, OneCommand
    <3>3. /\ row[w] \in job[w].rows /\ Backed(w, row[w]) /\ row[w] \in Row
          /\ es[src] # NoEntry /\ es[src].run = row[w].run
          /\ job[w].kind \in {"sync", "scan"}
      BY <3>1, <3>2 DEF Acting, TypeOK, Upserting
    <3>4. row[w].run # 0 => row[w] \in listed
      BY <3>3 DEF Backed
    <3>5. /\ row[w].skill \in Skills /\ src \in Sources /\ src \in Nat
          /\ a.skill = row[w].skill /\ a.source = src /\ a.count = row[w].count /\ a.run = ContextRun(w)
      BY <3>3, SourcesAssumption DEF Row
    <3>6. a.run = row[w].run /\ a.run # 0 => \E r, q \in listed : Supports(r, q, a)
      BY <3>4, <3>5 DEF Supports
    <3>7. a.run # 0 => \E r, q \in listed : Supports(r, q, a)
      <4>1. CASE job[w].kind = "scan"
        BY <3>5, <3>6, <4>1 DEF ContextRun
      <4>2. CASE job[w].kind = "sync"
        <5>1. src \in Known(es)
          BY <3>3, <3>5 DEF Known
        <5>2. PICK p \in Primary(es) : (CHOOSE e \in {es[x] : x \in Primary(es)} : TRUE) = es[p]
          <6>1. Primary(es) # {}
            BY <5>1, FirstSource
          <6>2. {es[x] : x \in Primary(es)} # {}
            BY <6>1
          <6>3. (CHOOSE e \in {es[x] : x \in Primary(es)} : TRUE) \in {es[x] : x \in Primary(es)}
            BY <6>2
          <6> QED BY <6>3
        <5>3. p \in Sources /\ p \in Nat /\ es[p] # NoEntry /\ p \in Known(es) /\ p <= src
          BY <5>1, <5>2, SourcesAssumption DEF Primary, Known
        <5>4. a.run = es[p].run
          BY <3>5, <4>2, <5>2 DEF ContextRun
        <5>5. CASE p = src
          BY <3>3, <3>6, <5>4, <5>5
        <5>6. CASE p # src /\ a.run # 0
          <6> DEFINE r == [skill |-> row[w].skill, source |-> p, count |-> es[p].count, run |-> es[p].run]
          <6>1. r \in listed
            BY <3>2, <3>5, <5>3, <5>4, <5>6 DEF CountIsOfItsRun
          <6>2. row[w] \in listed
            BY <3>1, <3>2, <3>3, <4>2 DEF Acting, Backed
          <6>3. Supports(r, row[w], a)
            BY <3>5, <5>3, <5>4, <5>6 DEF Supports
          <6> QED BY <6>1, <6>2, <6>3
        <5> QED BY <5>5, <5>6
      <4> QED BY <3>3, <4>1, <4>2
    <3> HIDE DEF a
    <3> QED BY <3>1, <3>2, <3>7 DEF AttributionsAre, Supports
  <2>3. CASE UNCHANGED vars
    BY <2>1, <2>3 DEF vars, obsVars
  <2>4. ASSUME NEW w \in Workers, Start(w) \/ Transact(w) \/ Proceed(w) \/ Die(w), ~Attribute(w)
        PROVE  AttributionsAre'
    <3>1. UNCHANGED attributed /\ listed \subseteq listed'
      BY <2>4 DEF Start, Transact, Proceed, Die, StartSync, ListTracked, StartScan, SelectEntry, FlushEntry,
         InsertRefused, CommitEntry, ReadSkill, RecordFetch, SkipRow, EndSeed, EndCommand, obsVars
    <3>2. ~overlapped
      BY <2>4, OthersRest
    <3> QED BY <3>1, <3>2 DEF AttributionIsOfItsRun, AttributionsAre, Supports
  <2> QED BY <2>2, <2>3, <2>4 DEF Next
<1> QED BY <1>1, <1>2, TurnHolds, PTL DEF Spec
=============================================================================
