----------------------------- MODULE MCPeople -----------------------------
(***************************************************************************)
(* People for TLC: a USER and a GUEST, and only one of the three           *)
(* components at a time in more than one initial state.                    *)
(***************************************************************************)
EXTENDS TLC, PeopleSystem

CONSTANTS ann, gus

RoleOf == (ann :> "USER") @@ (gus :> "GUEST")

MCInit ==
  /\ PeopleInit
  /\ inForce["privacy"] = inForce["terms"]
  /\ part # "acceptance" => inForce["terms"] = None
  /\ part # "accounts" => \A i \in Ids : rows[i].email = None

MCSpec == MCInit /\ [][PeopleNext]_peopleVars

PeopleSymmetry == Permutations(Requests)
=============================================================================
