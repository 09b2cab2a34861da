-------------------------- MODULE MCInfraEnrichment --------------------------
(* Instances of InfraEnrichment for TLC. *)
EXTENDS InfraEnrichment

CONSTANTS d1, p1, p2

(* A private address, another address, and the domain that resolves to both. *)
MCStanding == <<p2, p1, d1>>

(* No such name, or a host with two addresses. *)
MCAnswers == {{}, {p1, p2}}
=============================================================================
