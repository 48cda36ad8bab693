-------------------------- MODULE AcceptanceProofs --------------------------
(***************************************************************************)
(* Proofs about Acceptance, for any users, roles, versions and requests,   *)
(* and any number of changes by admins: its types, what a token's missing  *)
(* flag means, who gets at a profile, and which versions are accepted.     *)
(***************************************************************************)
EXTENDS Acceptance, TLAPS

\* A request that has begun has a user, and while it runs it has seen what
\* is in force.
SeenAgrees ==
  \A r \in Requests :
    /\ step[r] # "idle" => who[r] \in Users
    /\ Running(r) => \A d \in Documents : inForce[d] \in seen[r][d]

\* What a request holds in "found" has been in force while it ran.
FoundAgrees ==
  \A r \in Requests :
    /\ step[r] \in {"accepted", "findUser", "insert"} =>
         found[r] \in Versions /\ found[r] \in seen[r][doc[r]]
    /\ step[r] \in {"findUser", "insert"} => task[r] = "accept"
    /\ task[r] = "guard" /\ step[r] \in {"mandatory", "accepted"} => doc[r] = "terms"

\* The flags are settled in the order privacy, terms.
FlagsAgree ==
  \A r \in Requests :
    /\ step[r] \in {"mandatory", "accepted"} /\ task[r] = "flag" /\ doc[r] = "terms" =>
         "privacy" \in flagged[r] \/ Complied(r, "privacy")
    /\ step[r] = "token" /\ Role[who[r]] = "USER" =>
         \A d \in Documents \ flagged[r] : Complied(r, d)
    /\ step[r] = "served" /\ route[r] = "profile" => Complied(r, "terms")

AcceptanceInv == TypeOK /\ SeenAgrees /\ FoundAgrees /\ FlagsAgree

USE DEF Awaits, Refusals, Answers, Tasks, Documents, Running, request, rules

LEMMA InitInv ==
  ASSUME Changes \in Nat, Init
  PROVE  AcceptanceInv
<1>1. \A r \in Requests : step[r] = "idle"
  BY DEF Init
<1>2. TypeOK
  <2>1. /\ seen \in [Requests -> [Documents -> SUBSET (Versions \cup {None})]]
        /\ flagged \in [Requests -> SUBSET Documents]
        /\ route \in [Requests -> Routes]
    BY DEF Init, Routes
  <2>2. /\ accepted \in [Documents -> SUBSET (Users \X Versions)]
        /\ \A d \in Documents : accepted[d] = {}
        /\ changes \in 0..Changes
    BY DEF Init
  <2>3. QED
    BY <2>1, <2>2 DEF Init, TypeOK
<1>3. SeenAgrees /\ FoundAgrees /\ FlagsAgree
  BY <1>1 DEF SeenAgrees, FoundAgrees, FlagsAgree
<1>4. QED
  BY <1>2, <1>3 DEF AcceptanceInv

\* A user who complied at some moment of a request has complied for good:
\* acceptances go only with the user.
LEMMA CompliedForGood ==
  ASSUME NEW r \in Requests, NEW d \in Documents, Complied(r, d),
         who'[r] = who[r],
         seen[r][d] \subseteq seen'[r][d],
         users' \subseteq users,
         \A v \in Versions \cup {None} : HasAccepted(who[r], d, v) /\ who[r] \in users' => <<who[r], v>> \in accepted'[d],
         seen[r][d] \subseteq Versions \cup {None}
  PROVE  Complied(r, d)'
  BY DEF Complied, HasAccepted

\* One step of one request, which leaves its own arguments alone.  What has to
\* be shown of it is what its new step requires.
LEMMA RequestMoves ==
  ASSUME AcceptanceInv, NEW r \in Requests,
         UNCHANGED <<users, rules, request, seen>>,
         NEW t \in Tasks, NEW d \in Documents, NEW s \in Awaits \cup Answers,
         Running(r),
         task' = [task EXCEPT ![r] = t],
         doc' = [doc EXCEPT ![r] = d],
         step' = [step EXCEPT ![r] = s],
         found' \in [Requests -> Versions \cup {None}],
         flagged' \in [Requests -> SUBSET Documents],
         user' \in [Requests -> Users \cup {None}],
         accepted' \in [Documents -> SUBSET (Users \X Versions)],
         \A e \in Documents : accepted[e] \subseteq accepted'[e],
         \A e \in Documents : \A a \in accepted'[e] : a[1] \in users,
         \A q \in Requests \ {r} :
           found'[q] = found[q] /\ flagged'[q] = flagged[q],
         s \in {"accepted", "findUser", "insert"} => found'[r] \in Versions /\ found'[r] \in seen[r][d],
         s \in {"findUser", "insert"} => t = "accept",
         t = "guard" /\ s \in {"mandatory", "accepted"} => d = "terms",
         s \in {"mandatory", "accepted"} /\ t = "flag" /\ d = "terms" =>
           "privacy" \in flagged'[r] \/ Complied(r, "privacy"),
         s = "token" /\ Role[who[r]] = "USER" =>
           \A e \in Documents \ flagged'[r] : Complied(r, e),
         s = "served" /\ route[r] = "profile" => Complied(r, "terms")
  PROVE  AcceptanceInv'
<1>1. TypeOK'
  BY DEF AcceptanceInv, TypeOK
<1>2. /\ step'[r] = s /\ task'[r] = t /\ doc'[r] = d
      /\ \A q \in Requests \ {r} : step'[q] = step[q] /\ task'[q] = task[q] /\ doc'[q] = doc[q]
  BY DEF AcceptanceInv, TypeOK
<1>3. \A q \in Requests, e \in Documents : Complied(q, e) => Complied(q, e)'
  <2> SUFFICES ASSUME NEW q \in Requests, NEW e \in Documents, Complied(q, e)
               PROVE  Complied(q, e)'
    OBVIOUS
  <2>1. seen[q][e] \subseteq Versions \cup {None}
    BY DEF AcceptanceInv, TypeOK
  <2>2. \A v \in Versions \cup {None} :
          HasAccepted(who[q], e, v) /\ who[q] \in users' => <<who[q], v>> \in accepted'[e]
    BY DEF HasAccepted
  <2>3. QED
    BY <2>1, <2>2, CompliedForGood
<1>4. SeenAgrees'
  BY <1>2 DEF AcceptanceInv, SeenAgrees
<1>5. FoundAgrees'
  BY <1>2 DEF AcceptanceInv, FoundAgrees
<1>6. FlagsAgree'
  BY <1>2, <1>3 DEF AcceptanceInv, FlagsAgree
<1>7. QED
  BY <1>1, <1>4, <1>5, <1>6 DEF AcceptanceInv

-----------------------------------------------------------------------------
\* The steps of a request that touch neither the acceptances, nor what it has
\* found, nor its flags.
LEMMA PlainMoves ==
  ASSUME AcceptanceInv, NEW r \in Requests, Running(r),
         UNCHANGED <<users, rules, accepted, request, found, flagged, seen>>,
         user' \in [Requests -> Users \cup {None}],
         NEW t \in Tasks, NEW d \in Documents, NEW s \in Awaits \cup Answers,
         Goto(r, t, d, s),
         s \in {"accepted", "findUser", "insert"} =>
           t = "accept" /\ found[r] \in Versions /\ found[r] \in seen[r][d],
         t = "guard" /\ s \in {"mandatory", "accepted"} => d = "terms",
         t = "flag" /\ s = "mandatory" => d = "privacy",
         s = "token" => Role[who[r]] # "USER",
         s = "served" => route[r] # "profile"
  PROVE  AcceptanceInv'
<1>1. /\ task' = [task EXCEPT ![r] = t]
      /\ doc' = [doc EXCEPT ![r] = d]
      /\ step' = [step EXCEPT ![r] = s]
  BY DEF Goto
<1>2. /\ found' \in [Requests -> Versions \cup {None}]
      /\ flagged' \in [Requests -> SUBSET Documents]
      /\ accepted' \in [Documents -> SUBSET (Users \X Versions)]
      /\ \A e \in Documents : \A a \in accepted'[e] : a[1] \in users
  BY DEF AcceptanceInv, TypeOK
<1>3. QED
  BY <1>1, <1>2, RequestMoves

LEMMA GuardsKeep ==
  ASSUME AcceptanceInv, NEW r \in Requests,
         GlobalGuards(r) \/ JwtAuthGuard(r) \/ RolesGuard(r)
  PROVE  AcceptanceInv'
<1>0. task[r] \in Tasks /\ doc[r] \in Documents
  BY DEF AcceptanceInv, TypeOK
<1>1. ASSUME GlobalGuards(r) PROVE AcceptanceInv'
  <2>1. /\ Running(r) /\ UNCHANGED <<users, rules, accepted, request, found, flagged, seen>>
        /\ user' \in [Requests -> Users \cup {None}]
    BY <1>1 DEF GlobalGuards, AcceptanceInv, TypeOK
  <2>2. \/ Goto(r, "guard", "privacy", "jwt")
        \/ Goto(r, task[r], doc[r], "unauthorized")
        \/ Goto(r, "flag", "privacy", "mandatory")
        \/ Goto(r, "flag", "privacy", "token") /\ Role[who[r]] # "USER"
    BY <1>1 DEF GlobalGuards, End
  <2>3. QED
    BY <2>1, <2>2, <1>0, PlainMoves
<1>2. ASSUME JwtAuthGuard(r) PROVE AcceptanceInv'
  <2>1. /\ Running(r) /\ UNCHANGED <<users, rules, accepted, request, found, flagged, seen>>
        /\ user' \in [Requests -> Users \cup {None}]
    BY <1>2 DEF JwtAuthGuard, AcceptanceInv, TypeOK
  <2>2. \/ Goto(r, "accept", "terms", "mandatory")
        \/ Goto(r, "guard", "terms", "roles")
    BY <1>2 DEF JwtAuthGuard
  <2>3. QED
    BY <2>1, <2>2, PlainMoves
<1>3. ASSUME RolesGuard(r) PROVE AcceptanceInv'
  <2>1. /\ Running(r) /\ UNCHANGED <<users, rules, accepted, request, found, flagged, seen>>
        /\ user' \in [Requests -> Users \cup {None}]
    BY <1>3 DEF RolesGuard, AcceptanceInv, TypeOK
  <2>2. \/ Goto(r, task[r], doc[r], "forbidden")
        \/ Goto(r, "guard", "terms", "mandatory")
        \/ Goto(r, "accept", "privacy", "mandatory")
        \/ Goto(r, task[r], doc[r], "served") /\ route[r] # "profile"
    BY <1>3 DEF RolesGuard, End
  <2>3. QED
    BY <2>1, <2>2, <1>0, PlainMoves
<1>4. QED
  BY <1>1, <1>2, <1>3

LEMMA UserStepsKeep ==
  ASSUME AcceptanceInv, NEW r \in Requests, FindUser(r) \/ RefreshAccessToken(r)
  PROVE  AcceptanceInv'
<1>0. task[r] \in Tasks /\ doc[r] \in Documents
  BY DEF AcceptanceInv, TypeOK
<1>1. /\ Running(r) /\ UNCHANGED <<users, rules, accepted, request, found, flagged, seen>>
      /\ user' \in [Requests -> Users \cup {None}]
  BY DEF FindUser, RefreshAccessToken, AcceptanceInv, TypeOK
<1>2. CASE FindUser(r)
  <2>1. task[r] = "accept" /\ found[r] \in Versions /\ found[r] \in seen[r][doc[r]]
    BY <1>2 DEF FindUser, AcceptanceInv, FoundAgrees
  <2>2. Goto(r, task[r], doc[r], "insert") \/ Goto(r, task[r], doc[r], "notFound")
    BY <1>2 DEF FindUser, End
  <2>3. QED
    BY <2>1, <2>2, <1>0, <1>1, PlainMoves
<1>3. CASE RefreshAccessToken(r)
  <2>1. \/ Goto(r, task[r], doc[r], "unauthorized")
        \/ Goto(r, "flag", "privacy", "mandatory")
        \/ Goto(r, task[r], doc[r], "token") /\ Role[who[r]] # "USER"
    BY <1>3 DEF RefreshAccessToken, End
  <2>2. QED
    BY <2>1, <1>0, <1>1, PlainMoves
<1>4. QED
  BY <1>2, <1>3

-----------------------------------------------------------------------------
\* The document that a flag is about is settled: on to the next, or the end.
LEMMA FlagSettled ==
  ASSUME AcceptanceInv, NEW r \in Requests, step[r] \in {"mandatory", "accepted"},
         task[r] = "flag", NextFlag(r),
         UNCHANGED <<users, rules, accepted, request, user, seen>>,
         found' \in [Requests -> Versions \cup {None}],
         \A q \in Requests \ {r} : found'[q] = found[q],
         flagged' \in [Requests -> SUBSET Documents],
         \A q \in Requests \ {r} : flagged'[q] = flagged[q],
         flagged[r] \subseteq flagged'[r],
         doc[r] \in flagged'[r] \/ Complied(r, doc[r])
  PROVE  AcceptanceInv'
<1>1. /\ accepted' \in [Documents -> SUBSET (Users \X Versions)]
      /\ \A e \in Documents : \A a \in accepted'[e] : a[1] \in users
      /\ user' \in [Requests -> Users \cup {None}]
      /\ Running(r)
      /\ doc[r] \in Documents
  BY DEF AcceptanceInv, TypeOK
<1>2. CASE doc[r] = "privacy"
  <2>1. /\ task' = [task EXCEPT ![r] = "flag"]
        /\ doc' = [doc EXCEPT ![r] = "terms"]
        /\ step' = [step EXCEPT ![r] = "mandatory"]
    BY <1>2 DEF NextFlag, Goto
  <2>2. QED
    BY <1>1, <1>2, <2>1, RequestMoves
<1>3. CASE doc[r] = "terms"
  <2>1. /\ task' = [task EXCEPT ![r] = "flag"]
        /\ doc' = [doc EXCEPT ![r] = "terms"]
        /\ step' = [step EXCEPT ![r] = "token"]
    BY <1>3 DEF NextFlag, End, Goto
  <2>2. \A e \in Documents \ flagged'[r] : Complied(r, e)
    BY <1>3 DEF AcceptanceInv, FlagsAgree
  <2>3. QED
    BY <1>1, <2>1, <2>2, RequestMoves
<1>4. QED
  BY <1>1, <1>2, <1>3

\* A step of a guard or of an acceptance that reads the rows.
LEMMA ReaderMoves ==
  ASSUME AcceptanceInv, NEW r \in Requests, step[r] \in {"mandatory", "accepted"},
         UNCHANGED <<users, rules, accepted, request, user, flagged, seen>>,
         found' \in [Requests -> Versions \cup {None}],
         \A q \in Requests \ {r} : found'[q] = found[q],
         NEW t \in Tasks, NEW d \in Documents, NEW s \in Awaits \cup Answers,
         Goto(r, t, d, s),
         s \in {"accepted", "findUser", "insert"} =>
           found'[r] \in Versions /\ found'[r] \in seen[r][d],
         s \in {"findUser", "insert"} => t = "accept",
         s = "accepted" => t = task[r] /\ d = doc[r],
         s = "mandatory" => FALSE,
         s = "token" => FALSE,
         s = "served" => task[r] = "guard" /\ Complied(r, doc[r])
  PROVE  AcceptanceInv'
<1>1. /\ task' = [task EXCEPT ![r] = t]
      /\ doc' = [doc EXCEPT ![r] = d]
      /\ step' = [step EXCEPT ![r] = s]
  BY DEF Goto
<1>2. /\ flagged' \in [Requests -> SUBSET Documents]
      /\ user' \in [Requests -> Users \cup {None}]
      /\ accepted' \in [Documents -> SUBSET (Users \X Versions)]
      /\ \A e \in Documents : \A a \in accepted'[e] : a[1] \in users
      /\ Running(r)
  BY DEF AcceptanceInv, TypeOK
<1>3. /\ t = "guard" /\ s \in {"mandatory", "accepted"} => d = "terms"
      /\ s \in {"mandatory", "accepted"} /\ t = "flag" /\ d = "terms" =>
           "privacy" \in flagged'[r] \/ Complied(r, "privacy")
      /\ s = "served" => Complied(r, "terms")
  BY DEF AcceptanceInv, FoundAgrees, FlagsAgree
<1>4. QED
  BY <1>1, <1>2, <1>3, RequestMoves

LEMMA ReadKeeps ==
  ASSUME AcceptanceInv, NEW r \in Requests, ReadMandatory(r)
  PROVE  AcceptanceInv'
<1> DEFINE v == inForce[doc[r]]
<1>1. /\ step[r] = "mandatory" /\ found' = [found EXCEPT ![r] = v]
      /\ UNCHANGED <<users, rules, accepted, request, user, flagged, seen>>
  BY DEF ReadMandatory
<1>2. /\ doc[r] \in Documents /\ task[r] \in Tasks
      /\ v \in Versions \cup {None} /\ v \in seen[r][doc[r]]
      /\ flagged' \in [Requests -> SUBSET Documents]
  BY <1>1 DEF AcceptanceInv, TypeOK, SeenAgrees
<1>3. /\ found' \in [Requests -> Versions \cup {None}]
      /\ \A q \in Requests \ {r} : found'[q] = found[q]
      /\ found'[r] = v
  BY <1>1, <1>2 DEF AcceptanceInv, TypeOK
<1>4. CASE v = None
  <2>1. Complied(r, doc[r])
    BY <1>2, <1>4 DEF Complied
  <2>2. \/ task[r] = "guard" /\ Goto(r, task[r], doc[r], "served")
        \/ Goto(r, task[r], doc[r], "nothing")
        \/ Goto(r, "flag", "privacy", "refresh")
        \/ task[r] = "flag" /\ NextFlag(r)
    BY <1>4 DEF ReadMandatory, NoneInForce, End
  <2>3. CASE task[r] = "flag" /\ NextFlag(r)
    BY <1>1, <1>2, <1>3, <2>1, <2>3, FlagSettled
  <2>4. QED
    BY <1>1, <1>2, <1>3, <2>1, <2>2, <2>3, ReaderMoves
<1>5. CASE v # None
  <2>1. Goto(r, task[r], doc[r], "accepted")
    BY <1>5 DEF ReadMandatory
  <2>2. QED
    BY <1>1, <1>2, <1>3, <1>5, <2>1, ReaderMoves
<1>6. QED
  BY <1>4, <1>5

LEMMA CountKeeps ==
  ASSUME AcceptanceInv, NEW r \in Requests, CountAcceptance(r)
  PROVE  AcceptanceInv'
<1> DEFINE has == HasAccepted(who[r], doc[r], found[r])
<1>1. /\ step[r] = "accepted"
      /\ UNCHANGED <<users, rules, accepted, request, user, found, seen>>
      /\ flagged' = [flagged EXCEPT ![r] = IF ~has /\ task[r] = "flag" THEN @ \cup {doc[r]} ELSE @]
  BY DEF CountAcceptance
<1>2. /\ doc[r] \in Documents /\ task[r] \in Tasks
      /\ found[r] \in Versions /\ found[r] \in seen[r][doc[r]]
      /\ found' \in [Requests -> Versions \cup {None}]
  BY <1>1 DEF AcceptanceInv, TypeOK, FoundAgrees
<1>3. has => Complied(r, doc[r])
  BY <1>2 DEF Complied
<1>4. \/ task[r] = "guard" /\ has /\ Goto(r, task[r], doc[r], "served")
      \/ Goto(r, task[r], doc[r], "conflict") /\ task[r] # "flag"
      \/ Goto(r, "flag", "privacy", "refresh") /\ task[r] # "flag"
      \/ Goto(r, task[r], doc[r], "forbidden") /\ task[r] # "flag"
      \/ Goto(r, "accept", "privacy", "findUser") /\ task[r] # "flag" /\ doc[r] = "privacy"
      \/ Goto(r, "accept", "terms", "insert") /\ task[r] # "flag" /\ doc[r] = "terms"
      \/ task[r] = "flag" /\ NextFlag(r)
  BY DEF CountAcceptance, Already, NotYet, End
<1>5. CASE task[r] = "flag"
  <2>1. NextFlag(r)
    BY <1>4, <1>5
  <2>2. /\ flagged' \in [Requests -> SUBSET Documents]
        /\ \A q \in Requests \ {r} : flagged'[q] = flagged[q]
        /\ flagged[r] \subseteq flagged'[r]
        /\ doc[r] \in flagged'[r] \/ has
    BY <1>1, <1>2, <1>5 DEF AcceptanceInv, TypeOK
  <2>3. QED
    BY <1>1, <1>2, <1>3, <1>5, <2>1, <2>2, FlagSettled
<1>6. CASE task[r] # "flag"
  <2>1. flagged' = flagged
    BY <1>1, <1>6 DEF AcceptanceInv, TypeOK
  <2>2. QED
    BY <1>1, <1>2, <1>3, <1>4, <1>6, <2>1, ReaderMoves
<1>7. QED
  BY <1>5, <1>6

LEMMA InsertKeeps ==
  ASSUME AcceptanceInv, NEW r \in Requests, InsertAcceptance(r)
  PROVE  /\ AcceptanceInv'
         /\ \A d \in Documents : \A a \in accepted'[d] \ accepted[d] :
              who[r] = a[1] /\ a[2] \in seen[r][d]
<1>1. /\ step[r] = "insert" /\ Running(r)
      /\ UNCHANGED <<users, rules, request, user, found, flagged, seen>>
  BY DEF InsertAcceptance
<1>2. /\ doc[r] \in Documents /\ task[r] \in Tasks
      /\ found[r] \in Versions /\ found[r] \in seen[r][doc[r]]
      /\ who[r] \in Users
      /\ found' \in [Requests -> Versions \cup {None}]
      /\ flagged' \in [Requests -> SUBSET Documents]
      /\ user' \in [Requests -> Users \cup {None}]
  BY <1>1 DEF AcceptanceInv, TypeOK, FoundAgrees, SeenAgrees
<1>3. CASE UNCHANGED accepted /\ End(r, "error")
  BY <1>1, <1>2, <1>3, PlainMoves DEF End
<1>4. CASE /\ who[r] \in users
           /\ accepted' = [accepted EXCEPT ![doc[r]] = @ \cup {<<who[r], found[r]>>}]
           /\ Goto(r, "flag", "privacy", "refresh")
  <2>1. /\ accepted' \in [Documents -> SUBSET (Users \X Versions)]
        /\ \A e \in Documents : accepted[e] \subseteq accepted'[e]
        /\ \A e \in Documents : \A a \in accepted'[e] : a[1] \in users
        /\ \A e \in Documents : \A a \in accepted'[e] \ accepted[e] :
             e = doc[r] /\ a = <<who[r], found[r]>>
    BY <1>2, <1>4 DEF AcceptanceInv, TypeOK
  <2>2. /\ task' = [task EXCEPT ![r] = "flag"]
        /\ doc' = [doc EXCEPT ![r] = "privacy"]
        /\ step' = [step EXCEPT ![r] = "refresh"]
    BY <1>4 DEF Goto
  <2>3. AcceptanceInv'
    BY <1>1, <1>2, <2>1, <2>2, RequestMoves
  <2>4. QED
    BY <1>2, <2>1, <2>3
<1>5. QED
  BY <1>3, <1>4 DEF InsertAcceptance

-----------------------------------------------------------------------------
\* A request arrives: it has seen what is in force at that moment.
LEMMA BeginKeeps ==
  ASSUME AcceptanceInv, NEW r \in Requests, NEW u \in Users, NEW path \in Routes,
         Begin(r, u, path)
  PROVE  AcceptanceInv'
<1>1. /\ step[r] = "idle"
      /\ route' = [route EXCEPT ![r] = path]
      /\ who' = [who EXCEPT ![r] = u]
      /\ seen' = [seen EXCEPT ![r] = [d \in Documents |-> {inForce[d]}]]
      /\ task' = [task EXCEPT ![r] = "guard"]
      /\ doc' = [doc EXCEPT ![r] = "privacy"]
      /\ step' = [step EXCEPT ![r] = "global"]
      /\ UNCHANGED <<users, rules, accepted, user, found, flagged>>
  BY DEF Begin, Goto
<1>2. TypeOK'
  <2>1. [d \in Documents |-> {inForce[d]}] \in [Documents -> SUBSET (Versions \cup {None})]
    BY DEF AcceptanceInv, TypeOK
  <2>2. seen' \in [Requests -> [Documents -> SUBSET (Versions \cup {None})]]
    BY <1>1, <2>1 DEF AcceptanceInv, TypeOK
  <2>3. QED
    BY <1>1, <2>2 DEF AcceptanceInv, TypeOK
<1>3. /\ step'[r] = "global" /\ who'[r] = u
      /\ \A d \in Documents : inForce[d] \in seen'[r][d]
      /\ \A q \in Requests \ {r} :
           /\ step'[q] = step[q] /\ who'[q] = who[q] /\ seen'[q] = seen[q]
           /\ task'[q] = task[q] /\ doc'[q] = doc[q] /\ route'[q] = route[q]
  BY <1>1 DEF AcceptanceInv, TypeOK
<1>4. \A q \in Requests \ {r}, d \in Documents : Complied(q, d) => Complied(q, d)'
  BY <1>1, <1>3 DEF Complied, HasAccepted
<1>5. SeenAgrees' /\ FoundAgrees'
  BY <1>1, <1>3 DEF AcceptanceInv, SeenAgrees, FoundAgrees
<1>6. FlagsAgree'
  BY <1>1, <1>3, <1>4 DEF AcceptanceInv, FlagsAgree
<1>7. QED
  BY <1>2, <1>5, <1>6 DEF AcceptanceInv

\* What was true of a request stays true when others change the rules or the
\* users under it.
LEMMA OthersMove ==
  ASSUME AcceptanceInv, TypeOK', users' \subseteq users,
         UNCHANGED <<request, user, task, doc, step, found, flagged>>,
         \A q \in Requests, d \in Documents : seen[q][d] \subseteq seen'[q][d],
         \A q \in Requests : Running(q) => \A d \in Documents : inForce'[d] \in seen'[q][d],
         \A d \in Documents : \A a \in accepted[d] : a[1] \in users' => a \in accepted'[d]
  PROVE  AcceptanceInv'
<1>1. \A q \in Requests, d \in Documents : Complied(q, d) => Complied(q, d)'
  <2> SUFFICES ASSUME NEW q \in Requests, NEW d \in Documents, Complied(q, d)
               PROVE  Complied(q, d)'
    OBVIOUS
  <2>1. seen[q][d] \subseteq Versions \cup {None}
    BY DEF AcceptanceInv, TypeOK
  <2>2. \A v \in Versions \cup {None} :
          HasAccepted(who[q], d, v) /\ who[q] \in users' => <<who[q], v>> \in accepted'[d]
    BY DEF HasAccepted
  <2>3. QED
    BY <2>1, <2>2, CompliedForGood
<1>2. SeenAgrees' /\ FoundAgrees'
  <2>1. \A q \in Requests : doc[q] \in Documents
    BY DEF AcceptanceInv, TypeOK
  <2>2. QED
    BY <2>1 DEF AcceptanceInv, SeenAgrees, FoundAgrees
<1>3. FlagsAgree'
  BY <1>1 DEF AcceptanceInv, FlagsAgree
<1>4. QED
  BY <1>2, <1>3 DEF AcceptanceInv

LEMMA EnforceKeeps ==
  ASSUME Changes \in Nat, AcceptanceInv, NEW d \in Documents, NEW v \in Versions \cup {None},
         Enforce(d, v)
  PROVE  AcceptanceInv'
<1>1. /\ changes < Changes /\ changes' = changes + 1
      /\ inForce' = [inForce EXCEPT ![d] = v]
      /\ seen' = [r \in Requests |->
           IF Running(r) THEN [seen[r] EXCEPT ![d] = @ \cup {v}] ELSE seen[r]]
      /\ UNCHANGED <<users, accepted, request, user, task, doc, step, found, flagged>>
  BY DEF Enforce
<1>2. ASSUME NEW r \in Requests
      PROVE  /\ seen'[r] \in [Documents -> SUBSET (Versions \cup {None})]
             /\ \A e \in Documents : seen[r][e] \subseteq seen'[r][e]
             /\ Running(r) => v \in seen'[r][d]
  BY <1>1 DEF AcceptanceInv, TypeOK
<1>3. seen' \in [Requests -> [Documents -> SUBSET (Versions \cup {None})]]
  BY <1>1, <1>2
<1>4. TypeOK'
  BY <1>1, <1>3 DEF AcceptanceInv, TypeOK
<1>5. \A r \in Requests : Running(r) => \A e \in Documents : inForce'[e] \in seen'[r][e]
  BY <1>1, <1>2 DEF AcceptanceInv, TypeOK, SeenAgrees
<1>6. QED
  BY <1>1, <1>2, <1>4, <1>5, OthersMove

LEMMA RemoveKeeps ==
  ASSUME AcceptanceInv, NEW u \in Users, RemoveUser(u)
  PROVE  AcceptanceInv'
<1>1. /\ users' = users \ {u}
      /\ accepted' = [d \in Documents |-> {a \in accepted[d] : a[1] # u}]
      /\ UNCHANGED <<rules, request, user, task, doc, step, found, flagged, seen>>
  BY DEF RemoveUser
<1>2. TypeOK'
  BY <1>1 DEF AcceptanceInv, TypeOK
<1>3. \A r \in Requests : Running(r) => \A e \in Documents : inForce'[e] \in seen'[r][e]
  BY <1>1 DEF AcceptanceInv, SeenAgrees
<1>4. QED
  BY <1>1, <1>2, <1>3, OthersMove

LEMMA StepKeeps ==
  ASSUME Changes \in Nat, AcceptanceInv, [Next]_vars
  PROVE  AcceptanceInv'
<1>1. CASE UNCHANGED vars
  <2>1. TypeOK'
    BY <1>1 DEF vars, AcceptanceInv, TypeOK
  <2>2. UNCHANGED <<users, inForce, accepted, request, user, task, doc, step, found, flagged, seen>>
    BY <1>1 DEF vars
  <2>3. QED
    BY <2>1, <2>2, OthersMove DEF AcceptanceInv, SeenAgrees
<1>2. CASE Next
  BY <1>2, GuardsKeep, UserStepsKeep, ReadKeeps, CountKeeps, InsertKeeps, BeginKeeps,
     EnforceKeeps, RemoveKeeps DEF Next, Handle
<1>3. QED
  BY <1>1, <1>2

LEMMA InvCorrect ==
  ASSUME Changes \in Nat
  PROVE  Spec => []AcceptanceInv
<1>1. AcceptanceInv /\ [Next]_vars => AcceptanceInv'
  BY StepKeeps
<1>2. Init => AcceptanceInv
  BY InitInv
<1>3. QED
  BY <1>1, <1>2, PTL DEF Spec

-----------------------------------------------------------------------------
\* The tables and the requests keep their types, and no acceptance outlives
\* its user.
THEOREM TypeCorrect ==
  ASSUME Changes \in Nat
  PROVE  Spec => []TypeOK
<1>1. AcceptanceInv => TypeOK
  BY DEF AcceptanceInv
<1>2. QED
  BY <1>1, InvCorrect, PTL

\* login, refreshAccessToken: a token leaves a flag out only for a user who
\* complied at some moment while it was made.
THEOREM FlagsTruthful ==
  ASSUME Changes \in Nat
  PROVE  Spec => []TokensTruthful
<1>1. AcceptanceInv => TokensTruthful
  BY DEF AcceptanceInv, FlagsAgree, TokensTruthful
<1>2. QED
  BY <1>1, InvCorrect, PTL

\* TermsOfServiceGuard: whoever is served a profile had accepted the terms.
THEOREM ProfileGuarded ==
  ASSUME Changes \in Nat
  PROVE  Spec => []ProfileOnlyAfterTerms
<1>1. AcceptanceInv => ProfileOnlyAfterTerms
  BY DEF AcceptanceInv, FlagsAgree, ProfileOnlyAfterTerms
<1>2. QED
  BY <1>1, InvCorrect, PTL

\* recordAcceptance, accept: the version recorded was in force meanwhile.
THEOREM OnlyVersionsInForce ==
  ASSUME Changes \in Nat
  PROVE  Spec => AcceptedWhileInForce
<1> DEFINE Recorded ==
      \A d \in Documents : \A a \in accepted'[d] \ accepted[d] :
        \E r \in Requests : who[r] = a[1] /\ a[2] \in seen[r][d]
<1>1. ASSUME AcceptanceInv, Next PROVE Recorded
  <2>1. ASSUME NEW r \in Requests, InsertAcceptance(r) PROVE Recorded
    BY <1>1, <2>1, InsertKeeps
  <2>2. ASSUME NEW r \in Requests,
               \/ GlobalGuards(r) \/ JwtAuthGuard(r) \/ RolesGuard(r) \/ ReadMandatory(r)
               \/ CountAcceptance(r) \/ FindUser(r) \/ RefreshAccessToken(r)
               \/ \E u \in Users, path \in Routes : Begin(r, u, path)
        PROVE  accepted' = accepted
    BY <2>2 DEF GlobalGuards, JwtAuthGuard, RolesGuard, ReadMandatory, CountAcceptance,
       FindUser, RefreshAccessToken, Begin
  <2>3. ASSUME NEW d \in Documents, NEW v \in Versions \cup {None}, Enforce(d, v)
        PROVE  accepted' = accepted
    BY <2>3 DEF Enforce
  <2>4. ASSUME NEW u \in Users, RemoveUser(u) PROVE Recorded
    BY <2>4 DEF RemoveUser
  <2>5. accepted' = accepted => Recorded
    OBVIOUS
  <2> HIDE DEF Recorded
  <2>6. QED
    BY <1>1, <2>1, <2>2, <2>3, <2>4, <2>5 DEF Next, Handle
<1>2. ASSUME AcceptanceInv, [Next]_vars PROVE [Recorded]_vars
  BY <1>1, <1>2
<1>3. QED
  BY <1>2, InvCorrect, PTL DEF Spec, AcceptedWhileInForce
=============================================================================
