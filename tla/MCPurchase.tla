----------------------------- MODULE MCPurchase -----------------------------
(***************************************************************************)
(* Instances of Purchase for TLC.  The hierarchies are given here because  *)
(* a configuration file cannot write a function.                           *)
(***************************************************************************)
EXTENDS Purchase, TLC

CONSTANTS movie, series, season, episode, dawah

MCKind == (movie :> "MOVIE" @@ series :> "SERIES" @@ season :> "SEASON"
           @@ episode :> "EPISODE" @@ dawah :> "DAWAH")
MCParent == (season :> series @@ episode :> season
             @@ [c \in {movie, series, dawah} |-> NoContent])

KindOfContents   == [c \in Contents |-> MCKind[c]]
ParentOfContents ==
  [c \in Contents |-> IF MCParent[c] \in Contents THEN MCParent[c]
                                                  ELSE NoContent]

\* Verify slots are interchangeable, and so are users and orders (every user
\* of the instances has an e-mail address).
SlotSymmetry   == Permutations(Verifiers)
ActorSymmetry  == SlotSymmetry \cup Permutations(Users) \cup Permutations(TxRefs)
=============================================================================
