---------------------------- MODULE LookupQueue ----------------------------
(***************************************************************************)
(* What the queue of VirusTotal lookups promises, without rows, runs and   *)
(* copies: an indicator waits or is looked up, never both and never twice  *)
(* at once; it is done only when its answer is kept; and the answers of a  *)
(* day stay within the budget.  An indicator whose run died stays in hand. *)
(***************************************************************************)
EXTENDS Naturals

CONSTANTS Indicators, Budget

VARIABLES
  waiting,   \* indicators that are queued
  inHand,    \* indicators that are being looked up
  answered,  \* indicators with an answer that is kept
  done,      \* indicators whose lookup was completed, now or before
  spent      \* answers of today

vars == <<waiting, inHand, answered, done, spent>>

(* An analysis asks for indicators that are neither waiting nor in hand. *)
Request(I) ==
  /\ I \cap (waiting \cup inHand) = {}
  /\ waiting' = waiting \cup I
  /\ UNCHANGED <<inHand, answered, done, spent>>

Take(i) ==
  /\ i \in waiting
  /\ waiting' = waiting \ {i}
  /\ inHand' = inHand \cup {i}
  /\ UNCHANGED <<answered, done, spent>>

(* An answer counts on the day of the run, which may be over. *)
Answer(i) ==
  /\ i \in inHand
  /\ answered' = answered \cup {i}
  /\ \/ spent' = spent
     \/ spent < Budget /\ spent' = spent + 1
  /\ UNCHANGED <<waiting, inHand, done>>

Finish(i) ==
  /\ i \in inHand \cap answered
  /\ inHand' = inHand \ {i}
  /\ done' = done \cup {i}
  /\ UNCHANGED <<waiting, answered, spent>>

GiveUp(i) ==
  /\ i \in inHand
  /\ inHand' = inHand \ {i}
  /\ UNCHANGED <<waiting, answered, done, spent>>

Midnight ==
  /\ spent' = 0
  /\ UNCHANGED <<waiting, inHand, answered, done>>

Init == waiting = {} /\ inHand = {} /\ answered = {} /\ done = {} /\ spent = 0

Next ==
  \/ \E I \in SUBSET Indicators : Request(I)
  \/ \E i \in Indicators : Take(i) \/ Answer(i) \/ Finish(i) \/ GiveUp(i)
  \/ Midnight

Spec == Init /\ [][Next]_vars
=============================================================================
