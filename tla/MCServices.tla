----------------------------- MODULE MCServices -----------------------------
(***************************************************************************)
(* ServicesSystem for TLC, with what the data of the seven services is,    *)
(* and only the devices of Push in more than one initial state.            *)
(***************************************************************************)
EXTENDS TLC, ServicesSystem

CONSTANTS p1, p2, t1, t2, h1, h2, r1, r2

\* 33 cents and 99.99, of which VAT and fees fall between cents.
BasesOf == (p1 :> {33, 9999}) @@ (p2 :> {10})

\* Surah 2 spans two juz, as in the Quran.
TwoJuz == <<[id |-> 1, surahs |-> <<1, 2>>], [id |-> 2, surahs |-> <<2, 3>>]>>

\* A role with every permission and one with none.
SeedPlan ==
  <<[kind |-> "permission", name |-> "content.edit", permissions |-> {}],
    [kind |-> "role", name |-> "ADMIN", permissions |-> {"content.edit"}],
    [kind |-> "role", name |-> "USER", permissions |-> {}],
    [kind |-> "account", name |-> "Admin", permissions |-> {}],
    [kind |-> "reminder", name |-> "JUMUAH", permissions |-> {}]>>

\* Two users register the first token, which either or nobody may have; one
\* of them has the second token.
MCInit ==
  /\ ServicesInit
  /\ regToken = [r \in Registrations |-> t1]
  /\ owner[t2] = h1
  /\ regUser = (r1 :> h1) @@ (r2 :> h2)
  /\ part # "push" => owner[t1] = Nobody

MCSpec == MCInit /\ [][ServicesNext]_servicesVars /\ Fairness
=============================================================================
