---------------------------- MODULE MCVTEndless -----------------------------
(***************************************************************************)
(* An instance of VTTriage whose arrivals never end.  The rows of           *)
(* vt_lookup_queue only get more, so that MaxItems would end the arrivals:  *)
(* EndlessSpec drops rows that have their outcome, which no query of the    *)
(* program reads, and moves the ids of the later rows down.  MaxItems then  *)
(* bounds the rows at one time.  Which indicators the skills of an analysis *)
(* mention is settled at first: one mentions all, or both the same one.     *)
(***************************************************************************)
EXTENDS VTTriage

(* A row that nobody has in hand, on a list, or found active. *)
Unused(q) ==
  /\ \A r \in Runners : cur[r] # q /\ \A k \in DOMAIN todo[r] : todo[r][k] # q
  /\ \A e \in Enqueuers, i \in Indicators : found[e][i] # q

Without(f, q, none) == [x \in Items |-> IF x < q THEN f[x] ELSE IF x < MaxItems THEN f[x + 1] ELSE none]

Drop(q) ==
  LET down(x) == IF x > q THEN x - 1 ELSE x
  IN /\ status[q] \in {"completed", "failed"}
     /\ Unused(q)
     /\ status' = Without(status, q, "none")
     /\ target' = Without(target, q, NoIndicator)
     /\ priority' = Without(priority, q, 0)
     /\ todo' = [r \in Runners |-> [k \in DOMAIN todo[r] |-> down(todo[r][k])]]
     /\ cur' = [r \in Runners |-> down(cur[r])]
     /\ found' = [e \in Enqueuers |-> [i \in Indicators |-> down(found[e][i])]]
     /\ UNCHANGED <<dayVars, pc, fresh, remaining, handled, epc, wanted, asked, bumps, deaths>>

VARIABLE mentions  \* the indicators that each analysis may find

EndlessInit ==
  /\ Init
  /\ LET e1 == CHOOSE e \in Enqueuers : TRUE
         i1 == CHOOSE i \in Indicators : TRUE
     IN \/ mentions = [e \in Enqueuers |-> IF e = e1 THEN Indicators ELSE {}]
        \/ mentions = [e \in Enqueuers |-> {i1}]

EndlessNext ==
  /\ Next \/ \E q \in Items : Drop(q)
  /\ \A e \in Enqueuers : wanted'[e] \subseteq mentions[e]
  /\ UNCHANGED mentions

EndlessSpec == EndlessInit /\ [][EndlessNext]_<<vars, mentions>> /\ Fairness
=============================================================================
