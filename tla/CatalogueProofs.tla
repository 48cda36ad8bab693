-------------------------- MODULE CatalogueProofs --------------------------
(***************************************************************************)
(* Proofs about Catalogue, for any media and any number of requests: its   *)
(* types, that the review cannot be bypassed, and what holds of a content  *)
(* as long as requests about it do not overlap.                            *)
(***************************************************************************)
EXTENDS Catalogue, TLAPS

Public    == {"PUBLISHED", "ARCHIVED"}
TierSteps == {"find_tier", "insert_tier", "select_tier", "write_tier"}
Holding   == {"select", "write", "insert", "deactivate"} \cup TierSteps

\* A request that is on its way to save() has an entity to save; a lock has
\* prices to save before it.
OpsAgree ==
  \A r \in Requests :
    /\ step[r] \in Holding => entity[r] # Absent
    /\ step[r] = "deactivate" => op[r] \in {"lock", "unlock"}
    /\ step[r] = "deactivate" /\ op[r] = "lock" => prices[r] # {}

\* Before an admin has published something, neither the row nor an entity in
\* memory, however stale, is public.
ReviewAgrees ==
  reviewed = {} =>
    /\ row # Absent => row.status \notin Public
    /\ \A r \in Requests : entity[r] # Absent => entity[r].status \notin Public

CoreInv == TypeOK /\ OpsAgree /\ ReviewAgrees

USE AbsentAssumption DEF Running, Answers, AccessTypes, Columns, Operations, Statuses,
    TierSteps, Holding, Public

LEMMA ThumbnailTyped == ASSUME NEW media \in Medias PROVE ThumbnailOf(media) \in Urls
  BY DEF Urls

LEMMA InitCore == Init => CoreInv
<1> SUFFICES ASSUME Init PROVE CoreInv
  OBVIOUS
<1>1. \A r \in Requests : step[r] = "idle" /\ entity[r] = Absent
  BY DEF Init
<1>2. TypeOK
  <2>1. row \in Rows \cup {Absent}
    BY DEF Init
  <2>2. reviewed \subseteq Medias
    BY <2>1 DEF Init, Rows
  <2>3. /\ edited \in BOOLEAN /\ overlapped \in BOOLEAN /\ failed \in BOOLEAN
        /\ announced \in Nat /\ approvals \in Nat
    <3>1. /\ edited = FALSE /\ overlapped = FALSE /\ failed = FALSE
          /\ announced = 0 /\ approvals = 0
      BY DEF Init
    <3>2. QED
      BY <3>1
  <2>4. /\ tiers \in [AccessTypes -> {"none", "inactive", "active"}]
        /\ step \in [Requests -> Running \cup Answers \cup {"idle"}]
        /\ op \in [Requests -> Operations \cup {"create"}]
        /\ entity \in [Requests -> Rows \cup {Absent}]
        /\ changed \in [Requests -> SUBSET Columns]
        /\ prices \in [Requests -> SUBSET AccessTypes]
    BY DEF Init
  <2>5. QED
    BY <1>1, <2>1, <2>2, <2>3, <2>4 DEF TypeOK
<1>3. OpsAgree /\ ReviewAgrees
  BY <1>1 DEF Init, OpsAgree, ReviewAgrees
<1>4. QED
  BY <1>2, <1>3 DEF CoreInv

\* An edited entity is a row, with a status that the row has or a new content
\* may have.
LEMMA GivenTyped ==
  ASSUME TypeOK, row # Absent, NEW media \in Medias,
         NEW status \in {row.status, "DRAFT", "PENDING_REVIEW"}
  PROVE  /\ Given(media, status) \in Rows
         /\ Given(media, status).media = media
         /\ Given(media, status).status = status
         /\ Given(media, status).locked = row.locked
         /\ Given(media, status).thumb = ThumbnailOf(media)
<1>1. row \in Rows
  BY DEF TypeOK
<1> HIDE DEF ThumbnailOf
<1>2. QED
  BY <1>1, ThumbnailTyped DEF Given, Rows

\* The row after the UPDATE takes each column from the entity or from itself.
LEMMA WrittenTyped ==
  ASSUME NEW old \in Rows, NEW e \in Rows, NEW C \in SUBSET Columns
  PROVE  LET new == [c \in Columns |-> IF c \in C THEN e[c] ELSE old[c]]
         IN  /\ new \in Rows
             /\ new.status \in {e.status, old.status}
  BY DEF Rows

\* A request r arrives to do o, and goes on to s with the entity e and the
\* prices P.
Arrives(r, o, s, e, P) ==
  /\ o \in Operations /\ Find(r, o)
  /\ s \in {"select", "deactivate", "preload", "delete", "refused"}
  /\ step' = [step EXCEPT ![r] = s]
  /\ e \in Rows \cup {Absent} /\ entity' = [entity EXCEPT ![r] = e]
  /\ P \in SUBSET AccessTypes /\ prices' = [prices EXCEPT ![r] = P]
  /\ s \in Holding => e # Absent
  /\ s = "deactivate" => o \in {"lock", "unlock"}
  /\ s = "deactivate" /\ o = "lock" => P # {}
  /\ reviewed \subseteq reviewed' /\ reviewed' \subseteq Medias /\ edited' \in BOOLEAN
  /\ reviewed' = {} /\ e # Absent => e.status \notin Public

LEMMA FindKeepsCore ==
  ASSUME CoreInv, NEW r \in Requests, NEW o, NEW s, NEW e, NEW P, Arrives(r, o, s, e, P)
  PROVE  CoreInv'
<1> USE DEF Arrives
<1>1. /\ step[r] = "idle" /\ op' = [op EXCEPT ![r] = o] /\ overlapped' \in BOOLEAN
      /\ UNCHANGED <<row, tiers, changed, announced, approvals, failed>>
  BY DEF Find, Idle
<1>2. TypeOK'
  <2>1. /\ op' \in [Requests -> Operations \cup {"create"}]
        /\ step' \in [Requests -> Running \cup Answers \cup {"idle"}]
        /\ entity' \in [Requests -> Rows \cup {Absent}]
        /\ prices' \in [Requests -> SUBSET AccessTypes]
        /\ edited' \in BOOLEAN /\ overlapped' \in BOOLEAN /\ failed' \in BOOLEAN
    BY <1>1 DEF CoreInv, TypeOK
  <2>2. \A q \in Requests \ {r} :
          /\ step'[q] = step[q] /\ op'[q] = op[q] /\ entity'[q] = entity[q]
          /\ prices'[q] = prices[q]
    BY <1>1 DEF CoreInv, TypeOK
  <2>3. /\ \A q \in Requests : step'[q] \in {"select", "write", "insert"} => entity'[q] # Absent
        /\ \A q \in Requests : step'[q] = "write" => changed'[q] # {}
        /\ \A q \in Requests : step'[q] \in TierSteps => op'[q] = "lock" /\ prices'[q] # {}
    BY <1>1, <2>2 DEF CoreInv, TypeOK
  <2>4. QED
    BY <1>1, <2>1, <2>3 DEF CoreInv, TypeOK
<1>3. OpsAgree'
  BY <1>1 DEF CoreInv, TypeOK, OpsAgree
<1>4. ReviewAgrees'
  BY <1>1 DEF CoreInv, TypeOK, ReviewAgrees
<1>5. QED
  BY <1>2, <1>3, <1>4 DEF CoreInv

\* A request that is refused at once.
LEMMA RefuseArrives ==
  ASSUME CoreInv, NEW r \in Requests, NEW o \in Operations, Find(r, o), Refuse(r)
  PROVE  \E q, s, e, P : Arrives(r, q, s, e, P)
<1>1. /\ step' = [step EXCEPT ![r] = "refused"]
      /\ entity' = [entity EXCEPT ![r] = entity[r]]
      /\ prices' = [prices EXCEPT ![r] = prices[r]]
      /\ reviewed' = reviewed /\ edited' = edited
      /\ entity[r] \in Rows \cup {Absent} /\ prices[r] \in SUBSET AccessTypes
      /\ reviewed \subseteq Medias /\ edited \in BOOLEAN
      /\ reviewed = {} /\ entity[r] # Absent => entity[r].status \notin Public
  BY DEF Refuse, Goto, CoreInv, TypeOK, ReviewAgrees
<1>2. Arrives(r, o, "refused", entity[r], prices[r])
  BY <1>1 DEF Arrives
<1>3. QED
  BY <1>2

LEMMA WorkflowArrives ==
  ASSUME CoreInv, NEW r \in Requests,
         NEW o \in {"submit", "approve", "reject", "archive", "restore"},
         NEW from \in Statuses, NEW to \in Statuses, Workflow(r, o, from, to),
         to = "ARCHIVED" => from = "PUBLISHED"
  PROVE  \E q, s, e, P : Arrives(r, q, s, e, P)
<1>1. o \in Operations /\ Find(r, o)
  BY DEF Workflow
<1>2. CASE Refuse(r)
  BY <1>1, <1>2, RefuseArrives
<1>3. CASE /\ row # Absent /\ row.status = from
           /\ Hold(r, [row EXCEPT !.status = to])
           /\ Goto(r, "select")
           /\ reviewed' = IF to = "PUBLISHED" THEN reviewed \cup {row.media} ELSE reviewed
           /\ UNCHANGED <<prices, edited>>
  <2> DEFINE e == [row EXCEPT !.status = to]
  <2>1. row \in Rows
    BY <1>3 DEF CoreInv, TypeOK
  <2>2. e \in Rows /\ e.status = to /\ row.media \in Medias
    BY <2>1 DEF Rows
  <2>3. /\ reviewed \subseteq reviewed' /\ reviewed' \subseteq Medias
        /\ prices' = [prices EXCEPT ![r] = prices[r]] /\ prices[r] \in SUBSET AccessTypes
        /\ edited' \in BOOLEAN
    BY <1>3, <2>2 DEF CoreInv, TypeOK
  <2>4. reviewed' = {} => e.status \notin Public
    BY <1>3, <2>2 DEF CoreInv, ReviewAgrees
  <2>5. /\ step' = [step EXCEPT ![r] = "select"]
        /\ entity' = [entity EXCEPT ![r] = e]
    BY <1>3 DEF Goto, Hold
  <2> HIDE DEF e
  <2>6. e # Absent /\ e \in Rows \cup {Absent}
    BY <2>2
  <2>7. Arrives(r, o, "select", e, prices[r])
    BY <1>1, <2>3, <2>4, <2>5, <2>6 DEF Arrives
  <2>8. QED
    BY <2>7
<1>4. QED
  BY <1>2, <1>3 DEF Workflow

LEMMA RequestsArrive ==
  ASSUME CoreInv, NEW r \in Requests,
         Update(r) \/ LockContent(r) \/ UnlockContent(r) \/ Remove(r)
  PROVE  \E q, s, e, P : Arrives(r, q, s, e, P)
<1>1. CASE Refuse(r)
  <2>1. \E o \in Operations : Find(r, o)
    BY DEF Update, LockContent, UnlockContent, Remove
  <2>2. QED
    BY <1>1, <2>1, RefuseArrives
<1>2. CASE row # Absent /\ ~Refuse(r)
  <2>1. row \in Rows
    BY <1>2 DEF CoreInv, TypeOK
  <2>2. /\ entity[r] \in Rows \cup {Absent} /\ prices[r] \in SUBSET AccessTypes
        /\ reviewed \subseteq Medias /\ edited \in BOOLEAN
        /\ reviewed = {} /\ entity[r] # Absent => entity[r].status \notin Public
        /\ entity = [entity EXCEPT ![r] = entity[r]]
        /\ prices = [prices EXCEPT ![r] = prices[r]]
    BY DEF CoreInv, TypeOK, ReviewAgrees
  <2>3. ASSUME NEW b \in BOOLEAN
        PROVE  LET e == [row EXCEPT !.locked = b]
               IN  e \in Rows /\ e.status = row.status
    BY <2>1 DEF Rows
  <2>4. CASE Update(r)
    <3>1. /\ Find(r, "update") /\ Goto(r, "preload") /\ edited' \in BOOLEAN
          /\ UNCHANGED <<entity, prices, reviewed>>
      BY <1>2, <2>2, <2>4 DEF Update
    <3>2. step' = [step EXCEPT ![r] = "preload"]
      BY <3>1 DEF Goto
    <3>3. Arrives(r, "update", "preload", entity[r], prices[r])
      BY <2>2, <3>1, <3>2 DEF Arrives
    <3>4. QED
      BY <3>3
  <2>5. CASE LockContent(r)
    <3>1. PICK given \in SUBSET AccessTypes :
            /\ Find(r, "lock") /\ given # {}
            /\ Hold(r, [row EXCEPT !.locked = TRUE])
            /\ prices' = [prices EXCEPT ![r] = given]
            /\ Goto(r, "deactivate")
            /\ UNCHANGED <<reviewed, edited>>
      BY <1>2, <2>5 DEF LockContent
    <3> DEFINE e == [row EXCEPT !.locked = TRUE]
    <3>2. /\ step' = [step EXCEPT ![r] = "deactivate"]
          /\ entity' = [entity EXCEPT ![r] = e]
      BY <3>1 DEF Goto, Hold
    <3>3. e \in Rows /\ e.status = row.status
      BY <2>3
    <3> HIDE DEF e
    <3>4. e # Absent /\ (reviewed = {} => e.status \notin Public)
      BY <1>2, <3>3 DEF CoreInv, ReviewAgrees
    <3>5. Arrives(r, "lock", "deactivate", e, given)
      BY <2>2, <3>1, <3>2, <3>3, <3>4 DEF Arrives
    <3>6. QED
      BY <3>5
  <2>6. CASE UnlockContent(r)
    <3>1. /\ Find(r, "unlock")
          /\ Hold(r, [row EXCEPT !.locked = FALSE])
          /\ Goto(r, "deactivate")
          /\ UNCHANGED <<prices, reviewed, edited>>
      BY <1>2, <2>6 DEF UnlockContent
    <3> DEFINE e == [row EXCEPT !.locked = FALSE]
    <3>2. /\ step' = [step EXCEPT ![r] = "deactivate"]
          /\ entity' = [entity EXCEPT ![r] = e]
      BY <3>1 DEF Goto, Hold
    <3>3. e \in Rows /\ e.status = row.status
      BY <2>3
    <3> HIDE DEF e
    <3>4. e # Absent /\ (reviewed = {} => e.status \notin Public)
      BY <1>2, <3>3 DEF CoreInv, ReviewAgrees
    <3>5. Arrives(r, "unlock", "deactivate", e, prices[r])
      BY <2>2, <3>1, <3>2, <3>3, <3>4 DEF Arrives
    <3>6. QED
      BY <3>5
  <2>7. CASE Remove(r)
    <3>1. /\ Find(r, "remove") /\ Goto(r, "delete")
          /\ UNCHANGED <<entity, prices, reviewed, edited>>
      BY <1>2, <2>7 DEF Remove
    <3>2. step' = [step EXCEPT ![r] = "delete"]
      BY <3>1 DEF Goto
    <3>3. Arrives(r, "remove", "delete", entity[r], prices[r])
      BY <2>2, <3>1, <3>2 DEF Arrives
    <3>4. QED
      BY <3>3
  <2>8. QED
    BY <2>4, <2>5, <2>6, <2>7
<1>3. QED
  BY <1>1, <1>2 DEF Update, LockContent, UnlockContent, Remove

-----------------------------------------------------------------------------
\* A request that runs goes on to s, with the entity e, the columns C and the
\* prices P, and may have written the row or a price.
Continues(r, s, e, C, P) ==
  /\ step[r] \in Running
  /\ s \in (Running \cup Answers) \ {"deactivate"}
  /\ step' = [step EXCEPT ![r] = s]
  /\ e \in Rows \cup {Absent} /\ entity' = [entity EXCEPT ![r] = e]
  /\ C \in SUBSET Columns /\ changed' = [changed EXCEPT ![r] = C]
  /\ P \in SUBSET AccessTypes /\ prices' = [prices EXCEPT ![r] = P]
  /\ UNCHANGED <<op, reviewed, edited, overlapped>>
  /\ s \in Holding => e # Absent
  /\ s \in TierSteps => op[r] = "lock" /\ P # {}
  /\ s = "write" => C # {}
  /\ row' \in Rows \cup {Absent}
  /\ tiers' \in [AccessTypes -> {"none", "inactive", "active"}]
  /\ announced' \in Nat /\ approvals' \in Nat /\ failed' \in BOOLEAN
  /\ reviewed = {} /\ row' # Absent => row'.status \notin Public
  /\ reviewed = {} /\ e # Absent => e.status \notin Public

LEMMA ContinueKeepsCore ==
  ASSUME CoreInv, NEW r \in Requests, NEW s, NEW e, NEW C, NEW P, Continues(r, s, e, C, P)
  PROVE  CoreInv'
<1> USE DEF Continues
<1>1. /\ step' \in [Requests -> Running \cup Answers \cup {"idle"}]
      /\ op' \in [Requests -> Operations \cup {"create"}]
      /\ entity' \in [Requests -> Rows \cup {Absent}]
      /\ changed' \in [Requests -> SUBSET Columns]
      /\ prices' \in [Requests -> SUBSET AccessTypes]
      /\ edited' \in BOOLEAN /\ overlapped' \in BOOLEAN /\ reviewed' \subseteq Medias
  BY DEF CoreInv, TypeOK
<1>2. /\ step'[r] = s /\ entity'[r] = e /\ changed'[r] = C /\ prices'[r] = P /\ op'[r] = op[r]
      /\ \A q \in Requests \ {r} :
           /\ step'[q] = step[q] /\ op'[q] = op[q] /\ entity'[q] = entity[q]
           /\ prices'[q] = prices[q] /\ changed'[q] = changed[q]
  BY DEF CoreInv, TypeOK
<1>3. /\ \A q \in Requests : step'[q] \in {"select", "write", "insert"} => entity'[q] # Absent
      /\ \A q \in Requests : step'[q] = "write" => changed'[q] # {}
      /\ \A q \in Requests : step'[q] \in TierSteps => op'[q] = "lock" /\ prices'[q] # {}
  BY <1>2 DEF CoreInv, TypeOK
<1>4. TypeOK'
  BY <1>1, <1>3 DEF TypeOK
<1>5. OpsAgree'
  BY <1>2 DEF CoreInv, OpsAgree
<1>6. ReviewAgrees'
  BY <1>2 DEF CoreInv, ReviewAgrees
<1>7. QED
  BY <1>4, <1>5, <1>6 DEF CoreInv

\* The steps of save(), and the removal.
LEMMA SaveContinues ==
  ASSUME CoreInv, NEW r \in Requests,
         \/ Preload(r) \/ SelectForSave(r) \/ WriteRow(r) \/ InsertRow(r) \/ DeleteRow(r)
         \/ NotifyContentPublished(r) \/ StatementFails(r)
  PROVE  \E s \in Running \cup Answers, e \in Rows \cup {Absent}, C \in SUBSET Columns :
           Continues(r, s, e, C, prices[r])
<1>1. /\ entity[r] \in Rows \cup {Absent} /\ prices[r] \in SUBSET AccessTypes
      /\ changed[r] \in SUBSET Columns
      /\ row \in Rows \cup {Absent}
      /\ tiers \in [AccessTypes -> {"none", "inactive", "active"}]
      /\ announced \in Nat /\ approvals \in Nat /\ failed \in BOOLEAN
      /\ entity = [entity EXCEPT ![r] = entity[r]]
      /\ changed = [changed EXCEPT ![r] = changed[r]]
      /\ prices = [prices EXCEPT ![r] = prices[r]]
  BY DEF CoreInv, TypeOK
<1>2. /\ reviewed = {} /\ row # Absent => row.status \notin Public
      /\ reviewed = {} /\ entity[r] # Absent => entity[r].status \notin Public
      /\ step[r] \in Holding => entity[r] # Absent
      /\ step[r] = "write" => changed[r] # {}
  BY DEF CoreInv, TypeOK, ReviewAgrees, OpsAgree
<1>3. AfterSave(r) \in {"notify", "done"}
  BY DEF AfterSave
<1>4. CASE Preload(r)
  <2>1. /\ step[r] = "preload"
        /\ UNCHANGED <<row, tiers, op, changed, prices, histories>>
    BY <1>4 DEF Preload
  <2>2. CASE row = Absent
    <3>1. step' = [step EXCEPT ![r] = "refused"] /\ entity' = entity
      BY <1>4, <2>2 DEF Preload, Goto
    <3>2. Continues(r, "refused", entity[r], changed[r], prices[r])
      BY <1>1, <1>2, <2>1, <3>1 DEF Continues, histories
    <3>3. QED
      BY <1>1, <3>2
  <2>3. CASE row # Absent
    <3>1. PICK media \in Medias, status \in {row.status, "DRAFT", "PENDING_REVIEW"} :
            Hold(r, Given(media, status)) /\ Goto(r, "select")
      BY <1>4, <2>3 DEF Preload
    <3> DEFINE e == Given(media, status)
    <3>2. /\ e \in Rows /\ e.status = status
      BY <2>3, GivenTyped DEF CoreInv
    <3>3. /\ step' = [step EXCEPT ![r] = "select"]
          /\ entity' = [entity EXCEPT ![r] = e]
      BY <3>1 DEF Hold, Goto
    <3> HIDE DEF e
    <3>4. e # Absent /\ (reviewed = {} => e.status \notin Public)
      BY <1>2, <2>3, <3>2
    <3>5. Continues(r, "select", e, changed[r], prices[r])
      BY <1>1, <1>2, <2>1, <3>2, <3>3, <3>4 DEF Continues, histories
    <3>6. QED
      BY <1>1, <3>2, <3>5
  <2>4. QED
    BY <2>2, <2>3
<1>5. CASE SelectForSave(r)
  <2>1. /\ step[r] = "select"
        /\ UNCHANGED <<row, tiers, op, entity, prices, histories>>
    BY <1>5 DEF SelectForSave
  <2>2. CASE row = Absent
    <3>1. step' = [step EXCEPT ![r] = "insert"] /\ changed' = changed
      BY <1>5, <2>2 DEF SelectForSave, Goto
    <3>2. Continues(r, "insert", entity[r], changed[r], prices[r])
      BY <1>1, <1>2, <2>1, <3>1 DEF Continues, histories
    <3>3. QED
      BY <1>1, <3>2
  <2>3. CASE row # Absent
    <3> DEFINE C == Differing(r)
               s == IF C = {} THEN AfterSave(r) ELSE "write"
    <3>1. /\ changed' = [changed EXCEPT ![r] = C]
          /\ step' = [step EXCEPT ![r] = s]
      BY <1>5, <2>3 DEF SelectForSave, Goto
    <3>2. C \in SUBSET Columns
      BY DEF Differing
    <3>3. s \in {"notify", "done", "write"} /\ (s = "write" => C # {})
      BY <1>3
    <3> HIDE DEF C, s
    <3>4. Continues(r, s, entity[r], C, prices[r])
      BY <1>1, <1>2, <2>1, <3>1, <3>2, <3>3 DEF Continues, histories
    <3>5. QED
      BY <1>1, <3>2, <3>3, <3>4
  <2>4. QED
    BY <2>2, <2>3
<1>6. CASE WriteRow(r)
  <2>1. /\ step[r] = "write"
        /\ row' = IF row = Absent THEN Absent
                  ELSE [c \in Columns |-> IF c \in changed[r] THEN entity[r][c] ELSE row[c]]
        /\ approvals' \in {approvals, approvals + 1}
        /\ step' = [step EXCEPT ![r] = AfterSave(r)]
        /\ UNCHANGED <<tiers, op, entity, changed, prices, reviewed, edited, announced,
                       overlapped, failed>>
    BY <1>6 DEF WriteRow, Goto
  <2>2. /\ row' \in Rows \cup {Absent}
        /\ row' # Absent => row # Absent /\ row'.status \in {entity[r].status, row.status}
    <3>1. CASE row = Absent
      BY <2>1, <3>1
    <3>2. CASE row # Absent
      BY <1>1, <1>2, <2>1, <3>2, WrittenTyped
    <3>3. QED
      BY <3>1, <3>2
  <2>3. Continues(r, AfterSave(r), entity[r], changed[r], prices[r])
    BY <1>1, <1>2, <1>3, <2>1, <2>2 DEF Continues
  <2>4. QED
    BY <1>1, <1>3, <2>3
<1>7. CASE InsertRow(r)
  <2>1. /\ step[r] = "insert"
        /\ UNCHANGED <<tiers, op, entity, changed, prices, histories>>
        /\ row' \in {row, entity[r]}
        /\ \E s \in {AfterSave(r), "error"} : step' = [step EXCEPT ![r] = s]
    BY <1>7 DEF InsertRow, Goto
  <2>2. PICK s \in {AfterSave(r), "error"} : step' = [step EXCEPT ![r] = s]
    BY <2>1
  <2>3. Continues(r, s, entity[r], changed[r], prices[r])
    BY <1>1, <1>2, <1>3, <2>1, <2>2 DEF Continues, histories
  <2>4. QED
    BY <1>1, <1>3, <2>3
<1>8. CASE DeleteRow(r)
  <2>1. Continues(r, "done", entity[r], changed[r], prices[r])
    BY <1>1, <1>2, <1>8 DEF Continues, DeleteRow, Goto, histories
  <2>2. QED
    BY <1>1, <2>1
<1>9. CASE NotifyContentPublished(r)
  <2>1. Continues(r, "done", entity[r], changed[r], prices[r])
    BY <1>1, <1>2, <1>9 DEF Continues, NotifyContentPublished, Goto
  <2>2. QED
    BY <1>1, <2>1
<1>10. CASE StatementFails(r)
  <2>1. Continues(r, "error", entity[r], changed[r], prices[r])
    BY <1>1, <1>2, <1>10 DEF Continues, StatementFails, Goto
  <2>2. QED
    BY <1>1, <2>1
<1>11. QED
  BY <1>4, <1>5, <1>6, <1>7, <1>8, <1>9, <1>10

\* The steps of lockContent and unlockContent before save().
LEMMA TiersContinue ==
  ASSUME CoreInv, NEW r \in Requests,
         \/ DeactivateTiers(r) \/ FindTier(r) \/ InsertTier(r) \/ SelectTier(r) \/ WriteTier(r)
  PROVE  \E s \in Running \cup Answers, P \in SUBSET AccessTypes :
           Continues(r, s, entity[r], changed[r], P)
<1>1. /\ entity[r] \in Rows \cup {Absent} /\ prices[r] \in SUBSET AccessTypes
      /\ changed[r] \in SUBSET Columns
      /\ row \in Rows \cup {Absent}
      /\ tiers \in [AccessTypes -> {"none", "inactive", "active"}]
      /\ announced \in Nat /\ approvals \in Nat /\ failed \in BOOLEAN
      /\ entity = [entity EXCEPT ![r] = entity[r]]
      /\ changed = [changed EXCEPT ![r] = changed[r]]
      /\ prices = [prices EXCEPT ![r] = prices[r]]
  BY DEF CoreInv, TypeOK
<1>2. /\ reviewed = {} /\ row # Absent => row.status \notin Public
      /\ reviewed = {} /\ entity[r] # Absent => entity[r].status \notin Public
      /\ step[r] \in Holding => entity[r] # Absent
      /\ step[r] \in TierSteps => op[r] = "lock" /\ prices[r] # {}
      /\ step[r] = "deactivate" => op[r] = "unlock" \/ (op[r] = "lock" /\ prices[r] # {})
  BY DEF CoreInv, TypeOK, ReviewAgrees, OpsAgree
<1>3. /\ step[r] \in {"deactivate"} \cup TierSteps
      /\ UNCHANGED <<row, op, entity, changed, histories>>
  BY DEF DeactivateTiers, FindTier, InsertTier, SelectTier, WriteTier
<1>4. /\ tiers' \in [AccessTypes -> {"none", "inactive", "active"}]
  <2>1. Tier(r) \in AccessTypes
    BY DEF Tier
  <2>2. QED
    BY <1>1, <2>1 DEF DeactivateTiers, FindTier, InsertTier, SelectTier, WriteTier
<1>5. ASSUME NEW s \in {"find_tier", "insert_tier", "select_tier", "write_tier", "select", "error"},
             step' = [step EXCEPT ![r] = s], prices' = prices,
             s \in TierSteps => op[r] = "lock"
      PROVE  Continues(r, s, entity[r], changed[r], prices[r])
  BY <1>1, <1>2, <1>3, <1>4, <1>5 DEF Continues, histories
<1>6. ASSUME TierSaved(r), step[r] \in TierSteps
      PROVE  \E s \in Running, P \in SUBSET AccessTypes :
               Continues(r, s, entity[r], changed[r], P)
  <2> DEFINE P == prices[r] \ {Tier(r)}
             s == IF P = {} THEN "select" ELSE "find_tier"
  <2>1. /\ prices' = [prices EXCEPT ![r] = P]
        /\ step' = [step EXCEPT ![r] = s]
    BY <1>6 DEF TierSaved, Goto
  <2>2. /\ P \in SUBSET AccessTypes
        /\ s = "select" \/ (s = "find_tier" /\ P # {})
    BY <1>1
  <2> HIDE DEF P, s
  <2>3. Continues(r, s, entity[r], changed[r], P)
    BY <1>1, <1>2, <1>3, <1>4, <1>6, <2>1, <2>2 DEF Continues, histories
  <2>4. QED
    BY <2>2, <2>3
<1>7. CASE DeactivateTiers(r)
  <2>1. /\ step' = [step EXCEPT ![r] = IF op[r] = "lock" THEN "find_tier" ELSE "select"]
        /\ prices' = prices
    BY <1>7 DEF DeactivateTiers, Goto
  <2>2. QED
    BY <1>1, <1>5, <2>1
<1>8. CASE FindTier(r)
  <2>1. /\ step' = [step EXCEPT ![r] =
             IF tiers[Tier(r)] = "none" THEN "insert_tier" ELSE "select_tier"]
        /\ prices' = prices /\ op[r] = "lock"
    BY <1>2, <1>8 DEF FindTier, Goto
  <2>2. QED
    BY <1>1, <1>5, <2>1
<1>9. CASE InsertTier(r)
  <2>1. \/ TierSaved(r)
        \/ step' = [step EXCEPT ![r] = "error"] /\ prices' = prices
    BY <1>9 DEF InsertTier, Goto
  <2>2. QED
    BY <1>1, <1>5, <1>6, <1>9, <2>1 DEF InsertTier
<1>10. CASE SelectTier(r)
  <2>1. \/ TierSaved(r)
        \/ step' = [step EXCEPT ![r] = "write_tier"] /\ prices' = prices
    BY <1>10 DEF SelectTier, Goto
  <2>2. op[r] = "lock"
    BY <1>2, <1>10 DEF SelectTier
  <2>3. QED
    BY <1>1, <1>5, <1>6, <1>10, <2>1, <2>2 DEF SelectTier
<1>11. CASE WriteTier(r)
  BY <1>6, <1>11 DEF WriteTier
<1>12. QED
  BY <1>7, <1>8, <1>9, <1>10, <1>11

\* A new content is a draft or in review.
LEMMA CreateKeepsCore ==
  ASSUME CoreInv, Create
  PROVE  CoreInv'
<1>1. PICK media \in Medias, status \in {"DRAFT", "PENDING_REVIEW"} :
        row' = [status |-> status, locked |-> FALSE, media |-> media,
                thumb |-> ThumbnailOf(media)]
  BY DEF Create
<1>2. row' \in Rows /\ row'.status = status
  BY <1>1, ThumbnailTyped DEF Rows
<1>3. UNCHANGED <<tiers, step, op, entity, changed, prices, reviewed, edited, announced,
                 approvals, overlapped, failed>>
  BY DEF Create
<1>4. QED
  BY <1>2, <1>3 DEF CoreInv, TypeOK, OpsAgree, ReviewAgrees

LEMMA StepKeepsCore ==
  ASSUME CoreInv, [Next]_vars
  PROVE  CoreInv'
<1>1. CASE UNCHANGED vars
  BY <1>1 DEF vars, CoreInv, TypeOK, OpsAgree, ReviewAgrees
<1>2. ASSUME NEW r \in Requests,
             \/ SubmitForReview(r) \/ ApproveContent(r) \/ RejectContent(r)
             \/ ArchiveContent(r) \/ RestoreContent(r)
             \/ Update(r) \/ LockContent(r) \/ UnlockContent(r) \/ Remove(r)
      PROVE  CoreInv'
  <2>1. \E o, s, e, P : Arrives(r, o, s, e, P)
    BY <1>2, WorkflowArrives, RequestsArrive DEF SubmitForReview, ApproveContent,
       RejectContent, ArchiveContent, RestoreContent
  <2>2. QED
    BY <2>1, FindKeepsCore
<1>3. ASSUME NEW r \in Requests,
             \/ Preload(r) \/ SelectForSave(r) \/ WriteRow(r) \/ InsertRow(r) \/ DeleteRow(r)
             \/ NotifyContentPublished(r) \/ StatementFails(r)
      PROVE  CoreInv'
  <2>1. PICK s, e, C : Continues(r, s, e, C, prices[r])
    BY <1>3, SaveContinues
  <2>2. QED
    BY <2>1, ContinueKeepsCore
<1>4. ASSUME NEW r \in Requests,
             \/ DeactivateTiers(r) \/ FindTier(r) \/ InsertTier(r) \/ SelectTier(r)
             \/ WriteTier(r)
      PROVE  CoreInv'
  <2>1. PICK s, P : Continues(r, s, entity[r], changed[r], P)
    BY <1>4, TiersContinue
  <2>2. QED
    BY <2>1, ContinueKeepsCore
<1>5. CASE Next
  BY <1>2, <1>3, <1>4, <1>5, CreateKeepsCore DEF Next
<1>6. QED
  BY <1>1, <1>5

LEMMA CoreCorrect == Spec => []CoreInv
  BY InitCore, StepKeepsCore, PTL DEF Spec

\* The row, the prices and the requests keep their types, whatever overlaps.
THEOREM TypeCorrect == Spec => []TypeOK
<1>1. CoreInv => TypeOK
  BY DEF CoreInv
<1>2. QED
  BY <1>1, CoreCorrect, PTL

\* The review cannot be bypassed, with any number of requests at once that
\* fail half-way or save entities read long before.
THEOREM ReviewEnforced == Spec => []PublishedWasReviewed
<1>1. CoreInv => PublishedWasReviewed
  BY DEF CoreInv, ReviewAgrees, PublishedWasReviewed
<1>2. QED
  BY <1>1, CoreCorrect, PTL

-----------------------------------------------------------------------------
(***************************************************************************)
(* What holds until two requests overlap.                                  *)
(***************************************************************************)

\* A row or an entity whose thumbnail is that of its media, and whose media,
\* if it is published, are what an admin saw.
InStep(e) ==
  /\ e.thumb = ThumbnailOf(e.media)
  /\ ~edited /\ e.status = "PUBLISHED" => e.media \in reviewed

Priced == \E a \in AccessTypes : tiers[a] = "active"

\* The one request that runs: its entity is up to date, and so is what its
\* SELECT found; the lock and the prices are as far as it has come.
SoloRequest(r) ==
  /\ step[r] # "insert"
  /\ step[r] # "notify" => row # Absent
  /\ step[r] \in Holding => InStep(entity[r])
  /\ step[r] = "write" => changed[r] = Differing(r)
  /\ step[r] = "notify" => op[r] = "approve" /\ announced < approvals
  /\ op[r] = "approve" /\ step[r] \in Holding =>
       row.status = "PENDING_REVIEW" /\ entity[r].status = "PUBLISHED"
  /\ step[r] = "preload" => op[r] = "update" /\ (~edited => row.status # "PUBLISHED")
  /\ step[r] = "insert_tier" => tiers[Tier(r)] = "none"
  /\ ~failed /\ op[r] \notin {"lock", "unlock"} =>
       /\ row # Absent => (row.locked <=> Priced)
       /\ step[r] \in Holding => (entity[r].locked <=> Priced)
  /\ ~failed /\ op[r] = "lock" /\ step[r] \in Holding =>
       entity[r].locked = TRUE /\ (step[r] \in {"select", "write"} => Priced)
  /\ ~failed /\ op[r] = "unlock" /\ step[r] \in Holding =>
       entity[r].locked = FALSE /\ (step[r] \in {"select", "write"} => ~Priced)

SoloRow ==
  /\ \A q, r \in Requests : step[q] \in Running /\ step[r] \in Running => q = r
  /\ row = Absent /\ (\A r \in Requests : step[r] = "idle") => ~Priced
  /\ row # Absent => InStep(row)
  /\ announced <= approvals
  /\ Idle /\ row # Absent /\ ~failed => (row.locked <=> Priced)

SoloInv ==
  ~overlapped => SoloRow /\ \A r \in Requests : step[r] \in Running => SoloRequest(r)

LEMMA InitSolo == Init => SoloInv
<1> SUFFICES ASSUME Init PROVE SoloInv
  OBVIOUS
<1>1. \A r \in Requests : step[r] = "idle"
  BY DEF Init
<1>2. /\ announced = 0 /\ approvals = 0
  BY DEF Init
<1>3. row # Absent => row.thumb = ThumbnailOf(row.media)
  BY DEF Init
<1>4. row # Absent /\ row.status = "PUBLISHED" => row.media \in reviewed
  BY DEF Init
<1>5. /\ row = Absent => ~Priced
      /\ row # Absent => (row.locked <=> Priced)
  BY DEF Init, Priced
<1> HIDE DEF Priced, ThumbnailOf
<1>6. row # Absent => InStep(row)
  BY <1>3, <1>4 DEF InStep
<1>7. SoloRow
  BY <1>1, <1>2, <1>5, <1>6 DEF SoloRow
<1>8. QED
  BY <1>1, <1>7 DEF SoloInv

\* A request arrives where none runs.
LEMMA ArriveAlone ==
  ASSUME CoreInv, SoloInv, NEW r \in Requests,
         \E o, s, e, P : Arrives(r, o, s, e, P),
         edited => edited',
         ~overlapped /\ Idle /\ SoloRow /\ step'[r] # "refused" => SoloRequest(r)'
  PROVE  SoloInv'
<1>0. PICK o, s, e, P : Arrives(r, o, s, e, P)
  OBVIOUS
<1>1. /\ step[r] = "idle" /\ overlapped' = (overlapped \/ ~Idle)
      /\ UNCHANGED <<row, tiers, changed, announced, approvals, failed>>
      /\ step' = [step EXCEPT ![r] = s]
      /\ reviewed \subseteq reviewed'
      /\ s \in {"select", "deactivate", "preload", "delete", "refused"}
  BY <1>0 DEF Arrives, Find
<1> SUFFICES ASSUME ~overlapped'
             PROVE  SoloRow' /\ \A q \in Requests : step'[q] \in Running => SoloRequest(q)'
  BY DEF SoloInv
<1>2. ~overlapped /\ Idle /\ SoloRow
  BY <1>1 DEF SoloInv, CoreInv, TypeOK
<1>3. /\ step'[r] = s /\ \A q \in Requests \ {r} : step'[q] = step[q] /\ step'[q] \notin Running
  BY <1>1, <1>2 DEF CoreInv, TypeOK, Idle
<1>4. /\ (Idle)' => s = "refused"
      /\ Priced' = Priced
  BY <1>1, <1>3 DEF Idle, Priced
<1>5. row # Absent => InStep(row)'
  BY <1>1, <1>2 DEF SoloRow, InStep, CoreInv, TypeOK
<1>6. \E q \in Requests : step'[q] # "idle"
  BY <1>1, <1>3
<1>7. SoloRow'
  BY <1>1, <1>2, <1>3, <1>4, <1>5, <1>6 DEF SoloRow
<1>8. \A q \in Requests : step'[q] \in Running => SoloRequest(q)'
  BY <1>1, <1>2, <1>3
<1>9. QED
  BY <1>7, <1>8

\* What the one request leaves behind with a step.
Leaves(r) ==
  /\ row' # Absent => InStep(row)'
  /\ announced' <= approvals'
  /\ step'[r] \notin Running => (row' # Absent /\ ~failed' => (row'.locked <=> Priced'))
  /\ step'[r] \in Running => SoloRequest(r)'

\* The one request goes on.
LEMMA ContinueAlone ==
  ASSUME CoreInv, SoloInv, NEW r \in Requests,
         \E s, e, C, P : Continues(r, s, e, C, P),
         ~overlapped /\ SoloRow /\ SoloRequest(r) => Leaves(r)
  PROVE  SoloInv'
<1>0. PICK s, e, C, P : Continues(r, s, e, C, P)
  OBVIOUS
<1>1. /\ step[r] \in Running /\ s \in Running \cup Answers
      /\ step' = [step EXCEPT ![r] = s] /\ overlapped' = overlapped
  BY <1>0 DEF Continues
<1> SUFFICES ASSUME ~overlapped
             PROVE  SoloRow' /\ \A q \in Requests : step'[q] \in Running => SoloRequest(q)'
  BY <1>1 DEF SoloInv
<1>2. SoloRow /\ SoloRequest(r)
  BY <1>1 DEF SoloInv
<1>3. /\ step'[r] = s
      /\ \A q \in Requests \ {r} : step'[q] = step[q] /\ step'[q] \notin Running
  BY <1>1, <1>2 DEF SoloRow, CoreInv, TypeOK
<1>4. (Idle)' => s \notin Running
  BY <1>3 DEF Idle
<1>5. step'[r] # "idle"
  BY <1>1, <1>3
<1> HIDE DEF Running
<1>6. SoloRow'
  BY <1>2, <1>3, <1>4, <1>5 DEF SoloRow, Leaves
<1>7. \A q \in Requests : step'[q] \in Running => SoloRequest(q)'
  BY <1>2, <1>3 DEF Leaves
<1>8. QED
  BY <1>6, <1>7

\* The five operations of the workflow read the row and change its status.
LEMMA WorkflowAlone ==
  ASSUME CoreInv, SoloRow, Idle, NEW r \in Requests,
         NEW o \in {"submit", "approve", "reject", "archive", "restore"},
         NEW from \in Statuses, NEW to \in Statuses, Workflow(r, o, from, to),
         o = "approve" => from = "PENDING_REVIEW" /\ to = "PUBLISHED",
         step'[r] # "refused"
  PROVE  SoloRequest(r)'
<1>1. /\ row # Absent /\ row.status = from
      /\ Hold(r, [row EXCEPT !.status = to])
      /\ Goto(r, "select")
      /\ reviewed' = IF to = "PUBLISHED" THEN reviewed \cup {row.media} ELSE reviewed
      /\ UNCHANGED edited
  BY DEF Workflow, Refuse, Goto, CoreInv, TypeOK
<1> DEFINE e == [row EXCEPT !.status = to]
<1>2. /\ step'[r] = "select" /\ entity'[r] = e /\ op'[r] = o
      /\ UNCHANGED <<row, tiers, failed>>
  BY <1>1 DEF Workflow, Find, Hold, Goto, CoreInv, TypeOK
<1>3. /\ row \in Rows /\ InStep(row)
      /\ e.status = to /\ e.media = row.media /\ e.thumb = row.thumb /\ e.locked = row.locked
  BY <1>1 DEF CoreInv, TypeOK, Rows, SoloRow
<1> HIDE DEF e
<1>4. InStep(entity[r])'
  BY <1>1, <1>2, <1>3 DEF InStep
<1>5. /\ Priced' = Priced
      /\ ~failed => (row.locked <=> Priced)
  BY <1>1, <1>2 DEF SoloRow, Priced
<1>6. QED
  BY <1>1, <1>2, <1>3, <1>4, <1>5 DEF SoloRequest

LEMMA RequestsAlone ==
  ASSUME CoreInv, SoloRow, Idle, NEW r \in Requests,
         Update(r) \/ LockContent(r) \/ UnlockContent(r) \/ Remove(r),
         step'[r] # "refused"
  PROVE  SoloRequest(r)'
<1>1. row # Absent
  BY DEF Update, LockContent, UnlockContent, Remove, Refuse, Goto, CoreInv, TypeOK
<1>2. /\ row \in Rows /\ InStep(row)
      /\ ~failed => (row.locked <=> Priced)
  BY <1>1 DEF CoreInv, TypeOK, SoloRow
<1>3. UNCHANGED <<row, tiers, failed>>
  BY DEF Update, LockContent, UnlockContent, Remove, Find
<1>4. Priced' = Priced
  BY <1>3 DEF Priced
<1>5. CASE Update(r)
  <2>1. \E manageAll \in BOOLEAN :
          /\ MayEdit(manageAll) /\ Goto(r, "preload") /\ edited' = (edited \/ manageAll)
    BY <1>5 DEF Update, Refuse, Goto, CoreInv, TypeOK
  <2>2. step'[r] = "preload" /\ op'[r] = "update" /\ (~edited' => row.status # "PUBLISHED")
    BY <1>5, <2>1 DEF Update, Find, Goto, MayEdit, CoreInv, TypeOK
  <2>3. QED
    BY <1>1, <1>2, <1>3, <1>4, <2>2 DEF SoloRequest
<1>6. ASSUME NEW b \in BOOLEAN, Hold(r, [row EXCEPT !.locked = b]),
             UNCHANGED <<reviewed, edited>>
      PROVE  InStep(entity[r])' /\ entity'[r].locked = b
  <2>1. entity'[r] = [row EXCEPT !.locked = b]
    BY <1>6 DEF Hold, CoreInv, TypeOK
  <2>2. /\ entity'[r].status = row.status /\ entity'[r].media = row.media
        /\ entity'[r].thumb = row.thumb /\ entity'[r].locked = b
    BY <1>2, <2>1 DEF Rows
  <2>3. QED
    BY <1>2, <1>6, <2>2 DEF InStep
<1>7. CASE LockContent(r)
  <2>1. /\ Hold(r, [row EXCEPT !.locked = TRUE])
        /\ Goto(r, "deactivate") /\ UNCHANGED <<reviewed, edited>>
    BY <1>7 DEF LockContent, Refuse, Goto, CoreInv, TypeOK
  <2>2. step'[r] = "deactivate" /\ op'[r] = "lock"
    BY <1>7, <2>1 DEF LockContent, Find, Goto, CoreInv, TypeOK
  <2>3. QED
    BY <1>1, <1>3, <1>6, <2>1, <2>2 DEF SoloRequest
<1>8. CASE UnlockContent(r)
  <2>1. /\ Hold(r, [row EXCEPT !.locked = FALSE])
        /\ Goto(r, "deactivate") /\ UNCHANGED <<reviewed, edited>>
    BY <1>8 DEF UnlockContent, Refuse, Goto, CoreInv, TypeOK
  <2>2. step'[r] = "deactivate" /\ op'[r] = "unlock"
    BY <1>8, <2>1 DEF UnlockContent, Find, Goto, CoreInv, TypeOK
  <2>3. QED
    BY <1>1, <1>3, <1>6, <2>1, <2>2 DEF SoloRequest
<1>9. CASE Remove(r)
  <2>1. step'[r] = "delete" /\ op'[r] = "remove"
    BY <1>1, <1>9 DEF Remove, Find, Goto, CoreInv, TypeOK
  <2>2. QED
    BY <1>1, <1>2, <1>3, <1>4, <2>1 DEF SoloRequest
<1>10. QED
  BY <1>5, <1>7, <1>8, <1>9

\* A step that leaves the row and the prices alone.
LEMMA SaveAlone ==
  ASSUME CoreInv, SoloRow, NEW r \in Requests, SoloRequest(r),
         Preload(r) \/ SelectForSave(r)
  PROVE  Leaves(r)
<1>1. /\ step[r] \in {"preload", "select"} /\ row # Absent
      /\ UNCHANGED <<row, tiers, op, reviewed, edited, announced, approvals, failed>>
  BY DEF Preload, SelectForSave, SoloRequest, histories
<1>2. /\ row \in Rows /\ InStep(row) /\ announced <= approvals
      /\ Priced' = Priced
  BY <1>1 DEF CoreInv, TypeOK, SoloRow, Priced
<1>3. InStep(row)' /\ announced' <= approvals'
  BY <1>1, <1>2 DEF InStep
<1>4. CASE Preload(r)
  <2>1. PICK media \in Medias, status \in {row.status, "DRAFT", "PENDING_REVIEW"} :
          /\ entity' = [entity EXCEPT ![r] = Given(media, status)]
          /\ step' = [step EXCEPT ![r] = "select"]
    BY <1>1, <1>4 DEF Preload, Goto, Hold
  <2>2. /\ Given(media, status).media = media
        /\ Given(media, status).status = status
        /\ Given(media, status).locked = row.locked
        /\ Given(media, status).thumb = ThumbnailOf(media)
    BY <1>1, GivenTyped DEF CoreInv
  <2>3. /\ step'[r] = "select" /\ op'[r] = "update" /\ entity'[r] = Given(media, status)
    BY <1>1, <1>4, <2>1 DEF CoreInv, TypeOK, SoloRequest, Preload
  <2>4. ~edited => row.status # "PUBLISHED"
    BY <1>4 DEF SoloRequest, Preload
  <2> HIDE DEF Given, ThumbnailOf
  <2>5. InStep(entity[r])'
    BY <1>1, <2>2, <2>3, <2>4 DEF InStep
  <2>6. ~failed => (row.locked <=> Priced)
    BY <1>1, <1>4 DEF SoloRequest, Preload
  <2>7. SoloRequest(r)'
    BY <1>1, <1>2, <2>2, <2>3, <2>5, <2>6 DEF SoloRequest
  <2>8. QED
    BY <1>3, <2>3, <2>7 DEF Leaves
<1>5. CASE SelectForSave(r)
  <2>1. /\ step[r] = "select" /\ entity' = entity
        /\ changed' = [changed EXCEPT ![r] = Differing(r)]
        /\ step' = [step EXCEPT ![r] = IF Differing(r) = {} THEN AfterSave(r) ELSE "write"]
    BY <1>1, <1>5 DEF SelectForSave, Goto
  <2>2. /\ changed'[r] = Differing(r) /\ Differing(r)' = Differing(r)
        /\ step'[r] = IF Differing(r) = {} THEN AfterSave(r) ELSE "write"
        /\ op'[r] = op[r] /\ entity'[r] = entity[r]
    BY <1>1, <2>1 DEF CoreInv, TypeOK, Differing
  <2>3. InStep(entity[r])'
    BY <1>1, <2>1 DEF SoloRequest, InStep
  <2>4. CASE Differing(r) # {}
    <3>1. step'[r] = "write"
      BY <2>2, <2>4
    <3> HIDE DEF Differing
    <3>2. SoloRequest(r)'
      BY <1>1, <1>2, <2>1, <2>2, <2>3, <3>1 DEF SoloRequest
    <3>3. QED
      BY <1>3, <3>1, <3>2 DEF Leaves
  <2>5. CASE Differing(r) = {}
    <3>1. row.status = entity[r].status /\ row.locked = entity[r].locked
      BY <2>5 DEF Differing
    <3>2. op[r] # "approve"
      BY <2>1, <3>1 DEF SoloRequest
    <3>3. step'[r] = "done"
      BY <2>2, <2>5, <3>2 DEF AfterSave
    <3>4. ~failed => (row.locked <=> Priced)
      BY <1>1, <2>1, <3>1 DEF SoloRequest
    <3>5. QED
      BY <1>1, <1>2, <1>3, <3>3, <3>4 DEF Leaves
  <2>6. QED
    BY <2>4, <2>5
<1>6. QED
  BY <1>4, <1>5

\* The row is written, or gone, and the request is all but done.
LEMMA WriteAlone ==
  ASSUME CoreInv, SoloRow, NEW r \in Requests, SoloRequest(r), WriteRow(r)
  PROVE  Leaves(r)
<1>1. /\ step[r] = "write" /\ row # Absent
      /\ step'[r] = AfterSave(r)
      /\ UNCHANGED <<tiers, op, entity, reviewed, edited, announced, failed>>
  BY DEF WriteRow, Goto, SoloRequest, CoreInv, TypeOK
<1>2. /\ row \in Rows /\ entity[r] \in Rows
      /\ announced \in Nat /\ approvals \in Nat /\ announced <= approvals
  BY <1>1 DEF CoreInv, TypeOK, SoloRow
<1>3. row' = [c \in Columns |-> IF c \in Differing(r) THEN entity[r][c] ELSE row[c]]
  BY <1>1 DEF WriteRow, SoloRequest
<1>4. \A c \in Columns : row'[c] = entity[r][c]
  BY <1>3 DEF Differing
<1>5. /\ row'.status = entity[r].status /\ row'.locked = entity[r].locked
      /\ row'.media = entity[r].media /\ row'.thumb = entity[r].thumb
  BY <1>4
<1>6. InStep(row)'
  BY <1>1, <1>5 DEF SoloRequest, InStep
<1>7. /\ approvals' \in {approvals, approvals + 1}
      /\ op[r] = "approve" => approvals' = approvals + 1
  BY <1>1, <1>5 DEF WriteRow, SoloRequest
<1>8. announced' <= approvals' /\ (op[r] = "approve" => announced' < approvals')
  BY <1>1, <1>2, <1>7
<1>9. Priced' = Priced
  BY <1>1 DEF Priced
<1>10. ~failed => (row'.locked <=> Priced)
  BY <1>1, <1>5 DEF SoloRequest
<1>11. CASE op[r] = "approve"
  <2>1. step'[r] = "notify"
    BY <1>1, <1>11 DEF AfterSave
  <2>2. SoloRequest(r)'
    BY <1>1, <1>8, <1>9, <1>10, <1>11, <2>1 DEF SoloRequest
  <2>3. QED
    BY <1>6, <1>8, <2>1, <2>2 DEF Leaves
<1>12. CASE op[r] # "approve"
  BY <1>1, <1>6, <1>8, <1>9, <1>10, <1>12 DEF Leaves, AfterSave
<1>13. QED
  BY <1>11, <1>12

\* The other ends of a request.
LEMMA EndsAlone ==
  ASSUME CoreInv, SoloRow, NEW r \in Requests, SoloRequest(r),
         InsertRow(r) \/ DeleteRow(r) \/ NotifyContentPublished(r) \/ StatementFails(r)
  PROVE  Leaves(r)
<1>1. ~InsertRow(r)
  BY DEF InsertRow, SoloRequest
<1>2. announced \in Nat /\ approvals \in Nat /\ announced <= approvals
  BY DEF CoreInv, TypeOK, SoloRow
<1>3. /\ step'[r] \in {"done", "error"}
      /\ UNCHANGED <<tiers, op, reviewed, edited, approvals>>
      /\ announced' <= approvals'
  BY <1>1, <1>2 DEF DeleteRow, NotifyContentPublished, StatementFails, Goto, histories,
     SoloRequest, CoreInv, TypeOK
<1>4. row' \in {row, Absent} /\ (row' # Absent => InStep(row)')
  BY <1>1, <1>3 DEF DeleteRow, NotifyContentPublished, StatementFails, SoloRow, InStep
<1>5. row' # Absent /\ ~failed' => (row'.locked <=> Priced')
  BY <1>1, <1>3 DEF DeleteRow, NotifyContentPublished, StatementFails, SoloRequest, Priced
<1>6. QED
  BY <1>3, <1>4, <1>5 DEF Leaves

\* The prices are deactivated, then those of a lock are made active one by one.
LEMMA TiersAlone ==
  ASSUME CoreInv, SoloRow, NEW r \in Requests, SoloRequest(r),
         \/ DeactivateTiers(r) \/ FindTier(r) \/ InsertTier(r) \/ SelectTier(r) \/ WriteTier(r)
  PROVE  Leaves(r)
<1>1. /\ step[r] \in {"deactivate"} \cup TierSteps
      /\ UNCHANGED <<row, op, entity, changed, reviewed, edited, announced, approvals, failed>>
  BY DEF DeactivateTiers, FindTier, InsertTier, SelectTier, WriteTier, histories
<1>2. /\ row # Absent /\ op[r] \in {"lock", "unlock"}
      /\ step[r] # "deactivate" => op[r] = "lock"
      /\ announced <= approvals
      /\ Tier(r) \in AccessTypes /\ tiers \in [AccessTypes -> {"none", "inactive", "active"}]
  BY <1>1 DEF SoloRequest, CoreInv, TypeOK, OpsAgree, SoloRow, Tier
<1>3. InStep(row)' /\ InStep(entity[r])' /\ announced' <= approvals'
  BY <1>1, <1>2 DEF SoloRow, SoloRequest, InStep
<1>4. ~failed => (entity[r].locked <=> op[r] = "lock")
  BY <1>1, <1>2 DEF SoloRequest
<1>5. ASSUME step'[r] \in {"select", "find_tier", "insert_tier", "select_tier", "write_tier"},
             step'[r] = "insert_tier" => tiers'[Tier(r)'] = "none",
             step'[r] = "select" => (Priced' <=> op[r] = "lock"),
             step'[r] # "select" => op[r] = "lock"
      PROVE  Leaves(r)
  <2>1. SoloRequest(r)'
    BY <1>1, <1>2, <1>3, <1>4, <1>5 DEF SoloRequest
  <2>2. QED
    BY <1>3, <1>5, <2>1 DEF Leaves
<1>6. ASSUME TierSaved(r), tiers'[Tier(r)] = "active", op[r] = "lock"
      PROVE  Leaves(r)
  <2>1. step'[r] \in {"select", "find_tier"}
    BY <1>6 DEF TierSaved, Goto, CoreInv, TypeOK
  <2>2. Priced'
    BY <1>2, <1>6 DEF Priced
  <2>3. QED
    BY <1>5, <1>6, <2>1, <2>2
<1>7. CASE DeactivateTiers(r)
  <2>1. step'[r] = IF op[r] = "lock" THEN "find_tier" ELSE "select"
    BY <1>7 DEF DeactivateTiers, Goto, CoreInv, TypeOK
  <2>2. ~Priced'
    BY <1>7 DEF DeactivateTiers, Priced
  <2>3. QED
    BY <1>5, <2>1, <2>2
<1>8. CASE FindTier(r)
  <2>1. /\ step'[r] = IF tiers[Tier(r)] = "none" THEN "insert_tier" ELSE "select_tier"
        /\ tiers' = tiers /\ Tier(r)' = Tier(r) /\ op[r] = "lock"
    BY <1>2, <1>8 DEF FindTier, Goto, CoreInv, TypeOK, Tier
  <2>2. QED
    BY <1>5, <2>1
<1>9. CASE InsertTier(r)
  <2>1. /\ tiers[Tier(r)] = "none" /\ op[r] = "lock"
        /\ tiers' = [tiers EXCEPT ![Tier(r)] = "active"] /\ TierSaved(r)
    BY <1>2, <1>9 DEF InsertTier, SoloRequest
  <2>2. QED
    BY <1>2, <1>6, <2>1
<1>10. CASE SelectTier(r)
  <2>1. step[r] = "select_tier" /\ tiers' = tiers /\ op[r] = "lock"
    BY <1>2, <1>10 DEF SelectTier
  <2>2. CASE tiers[Tier(r)] = "active"
    BY <1>6, <1>10, <2>1, <2>2 DEF SelectTier
  <2>3. CASE tiers[Tier(r)] # "active"
    <3>1. step'[r] = "write_tier"
      BY <1>10, <2>3 DEF SelectTier, Goto, CoreInv, TypeOK
    <3>2. QED
      BY <1>5, <2>1, <3>1
  <2>4. QED
    BY <2>2, <2>3
<1>11. CASE WriteTier(r)
  <2>1. /\ tiers' = [tiers EXCEPT ![Tier(r)] = "active"] /\ TierSaved(r) /\ op[r] = "lock"
    BY <1>2, <1>11 DEF WriteTier
  <2>2. QED
    BY <1>2, <1>6, <2>1
<1>12. QED
  BY <1>7, <1>8, <1>9, <1>10, <1>11

LEMMA CreateAlone ==
  ASSUME CoreInv, SoloInv, Create
  PROVE  SoloInv'
<1> SUFFICES ASSUME ~overlapped' PROVE SoloInv'
  BY DEF SoloInv
<1>1. PICK media \in Medias, status \in {"DRAFT", "PENDING_REVIEW"} :
        row' = [status |-> status, locked |-> FALSE, media |-> media,
                thumb |-> ThumbnailOf(media)]
  BY DEF Create
<1>2. /\ row = Absent /\ \A q \in Requests : step[q] = "idle"
      /\ UNCHANGED <<tiers, step, announced, approvals, overlapped, reviewed, edited>>
  BY DEF Create
<1>3. /\ row'.status = status /\ row'.locked = FALSE /\ row'.media = media
      /\ row'.thumb = ThumbnailOf(media)
  BY <1>1
<1>4. SoloRow
  BY <1>2 DEF SoloInv
<1> HIDE DEF ThumbnailOf
<1>5. InStep(row)'
  BY <1>3 DEF InStep
<1>6. ~Priced /\ Priced' = Priced
  BY <1>2, <1>4 DEF SoloRow, Priced
<1>7. SoloRow'
  BY <1>2, <1>3, <1>4, <1>5, <1>6 DEF SoloRow
<1>8. \A q \in Requests : step'[q] \notin Running
  BY <1>2
<1>9. QED
  BY <1>7, <1>8 DEF SoloInv

LEMMA StepKeepsSolo ==
  ASSUME CoreInv, SoloInv, [Next]_vars
  PROVE  SoloInv'
<1>1. CASE UNCHANGED vars
  BY <1>1 DEF vars, SoloInv, SoloRow, SoloRequest, InStep, Idle, Priced, Differing, Tier
<1>2. ASSUME NEW r \in Requests,
             \/ SubmitForReview(r) \/ ApproveContent(r) \/ RejectContent(r)
             \/ ArchiveContent(r) \/ RestoreContent(r)
             \/ Update(r) \/ LockContent(r) \/ UnlockContent(r) \/ Remove(r)
      PROVE  SoloInv'
  <2>1. \E o, s, e, P : Arrives(r, o, s, e, P)
    BY <1>2, WorkflowArrives, RequestsArrive DEF SubmitForReview, ApproveContent,
       RejectContent, ArchiveContent, RestoreContent
  <2>2. edited => edited'
    BY <1>2 DEF SubmitForReview, ApproveContent, RejectContent, ArchiveContent,
       RestoreContent, Workflow, Update, LockContent, UnlockContent, Remove, Refuse
  <2>3. Idle /\ SoloRow /\ step'[r] # "refused" => SoloRequest(r)'
    BY <1>2, WorkflowAlone, RequestsAlone DEF SubmitForReview, ApproveContent,
       RejectContent, ArchiveContent, RestoreContent
  <2>4. QED
    BY <2>1, <2>2, <2>3, ArriveAlone
<1>3. ASSUME NEW r \in Requests,
             \/ Preload(r) \/ SelectForSave(r) \/ WriteRow(r) \/ InsertRow(r) \/ DeleteRow(r)
             \/ NotifyContentPublished(r) \/ StatementFails(r)
      PROVE  SoloInv'
  <2>1. \E s, e, C, P : Continues(r, s, e, C, P)
    BY <1>3, SaveContinues
  <2>2. SoloRow /\ SoloRequest(r) => Leaves(r)
    BY <1>3, SaveAlone, WriteAlone, EndsAlone
  <2>3. QED
    BY <2>1, <2>2, ContinueAlone
<1>4. ASSUME NEW r \in Requests,
             \/ DeactivateTiers(r) \/ FindTier(r) \/ InsertTier(r) \/ SelectTier(r)
             \/ WriteTier(r)
      PROVE  SoloInv'
  <2>1. \E s, e, C, P : Continues(r, s, e, C, P)
    BY <1>4, TiersContinue
  <2>2. SoloRow /\ SoloRequest(r) => Leaves(r)
    BY <1>4, TiersAlone
  <2>3. QED
    BY <2>1, <2>2, ContinueAlone
<1>5. CASE Next
  BY <1>2, <1>3, <1>4, <1>5, CreateAlone DEF Next
<1>6. QED
  BY <1>1, <1>5

LEMMA SoloCorrect == Spec => [](CoreInv /\ SoloInv)
<1>1. Init => CoreInv /\ SoloInv
  BY InitCore, InitSolo
<1>2. CoreInv /\ SoloInv /\ [Next]_vars => (CoreInv /\ SoloInv)'
  BY StepKeepsCore, StepKeepsSolo
<1>3. QED
  BY <1>1, <1>2, PTL DEF Spec

\* What the public reads is what an admin saw when publishing it, unless
\* requests overlap or a privileged edit comes after.
THEOREM SeenIsPublished == Spec => []PublishedAsReviewed
<1>1. SoloInv => PublishedAsReviewed
  BY DEF SoloInv, SoloRow, InStep, PublishedAsReviewed
<1>2. QED
  BY <1>1, SoloCorrect, PTL

\* Locked content has a price to show, and content that is not has none,
\* unless requests overlap or a statement fails half-way.
THEOREM LockMatchesPrices == Spec => []LockAndPriceAgree
<1>1. SoloInv => LockAndPriceAgree
  BY DEF SoloInv, SoloRow, Priced, LockAndPriceAgree, PricingTiers
<1>2. QED
  BY <1>1, SoloCorrect, PTL

\* No publication is announced twice, unless requests overlap.
THEOREM NoSecondAnnouncement == Spec => []AnnouncedOnce
<1>1. SoloInv => AnnouncedOnce
  BY DEF SoloInv, SoloRow, AnnouncedOnce
<1>2. QED
  BY <1>1, SoloCorrect, PTL

\* The thumbnail follows the media through every save(), unless requests
\* overlap.
THEOREM ThumbnailFollowsMedia == Spec => []ThumbnailInStep
<1>1. SoloInv => ThumbnailInStep
  BY DEF SoloInv, SoloRow, InStep, ThumbnailInStep
<1>2. QED
  BY <1>1, SoloCorrect, PTL
=============================================================================
