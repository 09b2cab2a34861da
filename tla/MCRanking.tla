------------------------------ MODULE MCRanking ------------------------------
(* Instances of Ranking for TLC. *)
EXTENDS Ranking

CONSTANTS g1, g2

Listed(a, b) == [r \in Sources |-> IF r = g1 THEN a ELSE b]

(* Known, partly known and unknown; in one registry and in both. *)
MCListings == {Listed(40, NotListed), Listed(Unknown, 60000), Listed(NotListed, Unknown)}

Found(c, x, n) == [d \in Categories |-> [y \in Contexts |-> IF d = c /\ x = y THEN n ELSE 0]]

Observation(high) == [urlhaus |-> FALSE, benign |-> FALSE, malicious |-> TRUE, high |-> high]

Match(high) == [platform |-> FALSE, observations |-> {Observation(high)}]

(* Nothing much; a catalog with two hits, whose behavior is held to 35. *)
MCEvidence ==
  {[found |-> Found("obfuscation", "reference_example", 2), router |-> FALSE, matches |-> <<>>],
   [found |-> Found("prompt_injection", "direct_operational", 3), router |-> TRUE,
      matches |-> <<Match(TRUE), Match(FALSE)>>]}

MCViews ==
  {[sort |-> x, severity |-> Unknown, min |-> Unknown, max |-> Unknown] : x \in {"priority", "installs", "growth"}}
    \cup {[sort |-> "priority", severity |-> "critical", min |-> Unknown, max |-> 60000],
          [sort |-> "risk", severity |-> Unknown, min |-> 40, max |-> Unknown]}
=============================================================================
