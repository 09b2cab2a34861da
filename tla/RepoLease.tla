----------------------------- MODULE RepoLease -----------------------------
(***************************************************************************)
(* What the analysis spool promises: a repository is leased to one piece   *)
(* of work at a time, and a result is recorded only while its own lease is *)
(* held.  Recording a result makes the repository not due.                 *)
(***************************************************************************)
CONSTANTS Repos, Tokens

Leases == [repo : Repos, token : Tokens]

VARIABLES due, leases, recorded

Acquire(c) ==
  /\ \A d \in leases : d.repo # c.repo
  /\ leases' = leases \cup {c}
  /\ recorded' = recorded \ {c}
  /\ UNCHANGED due

Record(c) ==
  /\ c \in leases
  /\ recorded' = recorded \cup {c}
  /\ due' = due \ {c.repo}
  /\ UNCHANGED leases

Release(c) ==
  /\ c \in leases
  /\ leases' = leases \ {c}
  /\ UNCHANGED <<due, recorded>>

(* Put off by a failure or another command, or due again in time. *)
Reschedule(r) ==
  /\ due' \in {due \ {r}, due \cup {r}}
  /\ UNCHANGED <<leases, recorded>>

Init == due \in SUBSET Repos /\ leases = {} /\ recorded = {}

Next ==
  \/ \E c \in Leases : Acquire(c) \/ Record(c) \/ Release(c)
  \/ \E r \in Repos : Reschedule(r)

Spec == Init /\ [][Next]_<<due, leases, recorded>>
=============================================================================
