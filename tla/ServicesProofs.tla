--------------------------- MODULE ServicesProofs ---------------------------
(***************************************************************************)
(* Theorems about ServicesSystem, for any number of days, orders, updates, *)
(* devices, broadcasts, users, notifications and playlists.  Each service  *)
(* is proved on its own, the settlement in SettlementProofs, the seeders in*)
(* SeedProofs and the others here, and the invariants of the whole follow  *)
(* because it only ever takes steps of one of them.                        *)
(***************************************************************************)
EXTENDS ServicesSystem, SettlementProofs, SeedProofs

-----------------------------------------------------------------------------
\* Reminders.

\* A running update is the only one, has scheduled its entity and is about to
\* write the columns in which the row differs.
JobFollows ==
  /\ server # "up" => job = NoJob /\ \A u \in Updates : updStep[u] \notin Reminders!Running
  /\ server = "up" /\ ~torn =>
       /\ \A u, v \in Updates : updStep[u] \in Reminders!Running
          /\ updStep[v] \in Reminders!Running => u = v
       /\ \A u \in Updates : updStep[u] \in Reminders!Running
            => job = Reminders!JobOf(updEntity[u])
       /\ \A u \in Updates : updStep[u] = "write" =>
            updChanged[u] = {c \in Reminders!Columns : setting[c] # updEntity[u][c]}
       /\ (\A u \in Updates : updStep[u] \notin Reminders!Running)
            => job = Reminders!JobOf(setting)

JobInv == Reminders!TypeOK /\ JobFollows

\* At first the server is down, and nothing is scheduled.
LEMMA JobInit ==
  ASSUME Reminders!Init
  PROVE  JobInv
<1>1. Reminders!TypeOK
  <2>1. 0 \in 0..Crashes
    BY RemindersAssumption DEF RemindersConstants
  <2>2. QED
    BY <2>1 DEF Reminders!Init, Reminders!TypeOK, Reminders!Running
<1>2. JobFollows
  BY DEF Reminders!Init, JobFollows, Reminders!Running
<1>3. QED
  BY <1>1, <1>2 DEF JobInv

\* Settings, entities and jobs.
LEMMA SettingTyped ==
  ASSUME NEW s \in Reminders!Settings
  PROVE  /\ s = [isEnabled |-> s["isEnabled"], plan |-> s["plan"]]
         /\ s["isEnabled"] \in BOOLEAN /\ s["plan"] \in Plans
  BY DEF Reminders!Settings

\* What is scheduled is enabled.
LEMMA JobOfTyped ==
  ASSUME NEW s \in Reminders!Settings \cup {NoJob}
  PROVE  /\ Reminders!JobOf(s) \in Reminders!Settings \cup {NoJob}
         /\ Reminders!JobOf(s) # NoJob => Reminders!JobOf(s).isEnabled
  BY DEF Reminders!JobOf

\* What save() writes makes the row the entity.
LEMMA SavedIsEntity ==
  ASSUME NEW s \in Reminders!Settings, NEW e \in Reminders!Settings
  PROVE  /\ [c \in Reminders!Columns |->
               IF c \in {k \in Reminders!Columns : s[k] # e[k]} THEN e[c] ELSE s[c]] = e
         /\ {k \in Reminders!Columns : s[k] # e[k]} = {} => s = e
<1> DEFINE D == {k \in Reminders!Columns : s[k] # e[k]}
           w == [c \in Reminders!Columns |-> IF c \in D THEN e[c] ELSE s[c]]
<1>1. DOMAIN e = Reminders!Columns /\ DOMAIN s = Reminders!Columns
      /\ e = [c \in Reminders!Columns |-> e[c]] /\ s = [c \in Reminders!Columns |-> s[c]]
  BY DEF Reminders!Settings, Reminders!Columns
<1>2. \A c \in Reminders!Columns : w[c] = e[c]
  OBVIOUS
<1>3. w = [c \in Reminders!Columns |-> e[c]]
  BY <1>2
<1>4. D = {} => \A c \in Reminders!Columns : s[c] = e[c]
  OBVIOUS
<1>5. QED
  BY <1>1, <1>3, <1>4

\* Whichever columns save() writes, the row is one.
LEMMA SavedTyped ==
  ASSUME NEW s \in Reminders!Settings, NEW e \in Reminders!Settings, NEW D
  PROVE  [c \in Reminders!Columns |-> IF c \in D THEN e[c] ELSE s[c]] \in Reminders!Settings
  BY DEF Reminders!Settings, Reminders!Columns

\* Every step keeps the invariant.
LEMMA JobStep ==
  ASSUME JobInv, [Reminders!Next]_(Reminders!vars)
  PROVE  JobInv'
<1> USE DEF JobInv
<1>0. Reminders!TypeOK /\ JobFollows
  OBVIOUS
<1>1. CASE Reminders!Start
  <2>1. Reminders!TypeOK'
    BY <1>1 DEF Reminders!Start, Reminders!TypeOK, Reminders!updates
  <2>2. JobFollows'
    BY <1>1 DEF Reminders!Start, Reminders!TypeOK, Reminders!updates, JobFollows
  <2>3. QED
    BY <2>1, <2>2
<1>2. CASE Reminders!SeedReminderSettings
  <2>1. Reminders!TypeOK'
    <3>1. [isEnabled |-> FALSE, plan |-> Seeded] \in Reminders!Settings
      BY RemindersAssumption DEF RemindersConstants, Reminders!Settings
    <3>2. setting' \in Reminders!Settings /\ setting' # NoJob
      BY <1>2, <3>1, RemindersAssumption DEF Reminders!SeedReminderSettings,
         Reminders!TypeOK, RemindersConstants
    <3>3. QED
      BY <1>2, <3>2 DEF Reminders!SeedReminderSettings, Reminders!TypeOK,
         Reminders!updates
  <2>2. JobFollows'
    BY <1>2 DEF Reminders!SeedReminderSettings, Reminders!updates, JobFollows
  <2>3. QED
    BY <2>1, <2>2
<1>3. CASE Reminders!OnModuleInit
  <2>1. Reminders!TypeOK'
    BY <1>3, JobOfTyped DEF Reminders!OnModuleInit, Reminders!TypeOK, Reminders!updates
  <2>2. JobFollows'
    BY <1>3 DEF Reminders!OnModuleInit, Reminders!updates, JobFollows, Reminders!Running
  <2>3. QED
    BY <2>1, <2>2
<1>4. CASE Reminders!Crash
  <2>1. Reminders!TypeOK'
    BY <1>4, RemindersAssumption DEF Reminders!Crash, Reminders!TypeOK,
       Reminders!Running, RemindersConstants
  <2>2. JobFollows'
    BY <1>4 DEF Reminders!Crash, JobFollows, Reminders!Running
  <2>3. QED
    BY <2>1, <2>2
<1>5. ASSUME NEW u \in Updates, Reminders!Update(u) PROVE JobInv'
  <2>1. PICK e \in Reminders!Settings : updEntity' = [updEntity EXCEPT ![u] = e]
             /\ job' = Reminders!JobOf(e)
    BY <1>5 DEF Reminders!Update
  <2>2. e # NoJob
    BY RemindersAssumption DEF RemindersConstants
  <2>3. Reminders!TypeOK'
    BY <1>5, <2>1, <2>2, JobOfTyped DEF Reminders!Update, Reminders!TypeOK,
       Reminders!Running
  <2>4. JobFollows'
    BY <1>5, <2>1 DEF Reminders!Update, Reminders!TypeOK, JobFollows, Reminders!Running
  <2>5. QED
    BY <2>3, <2>4
<1>6. ASSUME NEW u \in Updates, Reminders!SelectForSave(u) PROVE JobInv'
  <2>1. Reminders!TypeOK'
    BY <1>6 DEF Reminders!SelectForSave, Reminders!TypeOK, Reminders!Running
  <2>2. JobFollows'
    BY <1>6, SavedIsEntity DEF Reminders!SelectForSave, Reminders!TypeOK, JobFollows,
       Reminders!Running
  <2>3. QED
    BY <2>1, <2>2
<1>7. ASSUME NEW u \in Updates, Reminders!Save(u) PROVE JobInv'
  <2>1. Reminders!TypeOK'
    <3>1. setting \in Reminders!Settings /\ updEntity[u] \in Reminders!Settings
      BY <1>7 DEF Reminders!Save, JobFollows, Reminders!TypeOK, Reminders!Running
    <3>2. setting' \in Reminders!Settings /\ setting' # NoJob
      BY <1>7, <3>1, SavedTyped, RemindersAssumption
         DEF Reminders!Save, RemindersConstants
    <3>3. QED
      BY <1>7, <3>2 DEF Reminders!Save, Reminders!TypeOK, Reminders!Running
  <2>2. JobFollows'
    BY <1>7, SavedIsEntity DEF Reminders!Save, Reminders!TypeOK, JobFollows,
       Reminders!Running
  <2>3. QED
    BY <2>1, <2>2
<1>8. ASSUME NEW u \in Updates, Reminders!SaveFails(u) PROVE JobInv'
  <2>1. Reminders!TypeOK'
    BY <1>8 DEF Reminders!SaveFails, Reminders!TypeOK, Reminders!Running
  <2>2. JobFollows'
    BY <1>8 DEF Reminders!SaveFails, Reminders!TypeOK, JobFollows, Reminders!Running
  <2>3. QED
    BY <2>1, <2>2
<1>9. CASE UNCHANGED Reminders!vars
  BY <1>9 DEF Reminders!vars, Reminders!TypeOK, JobFollows
<1>10. QED
  BY <1>1, <1>2, <1>3, <1>4, <1>5, <1>6, <1>7, <1>8, <1>9 DEF Reminders!Next

\* And the invariant says that the job follows the row.
LEMMA JobKept ==
  ASSUME JobInv
  PROVE  Reminders!JobMatchesRow
  BY DEF JobInv, JobFollows, Reminders!JobMatchesRow

\* Whatever happens, the job follows the row.
LEMMA RemindersCorrect == Reminders!Spec => []JobInv
<1>1. JobInv /\ [Reminders!Next]_(Reminders!vars) => JobInv'
  BY JobStep
<1>2. QED
  BY <1>1, JobInit, PTL DEF Reminders!Spec

-----------------------------------------------------------------------------
\* Push.

RegSteps  == {"idle", "find", "select", "update", "insert", "done", "error"}

\* The steps of a broadcast, but for the deletion, leave the devices alone.
DevicesStay ==
  UNCHANGED <<holders, owner, Push!registrations, promised, tangled>>

-----------------------------------------------------------------------------
\* A row keeps the user promised; a registration that has found a row at its
\* SELECT still has one to update.
OwnersAgree ==
  \A t \in Tokens \ tangled :
    /\ owner[t] = promised[t]
    /\ \A r \in Registrations : regToken[r] = t
       /\ regStep[r] = "update" => owner[t] # Nobody

\* A broadcast has sent nothing to the tokens it has yet to send to, and has
\* dealt with the others; what it holds stale is dead.
CastsAgree ==
  \A b \in Broadcasts :
    /\ toSend[b] \subseteq recipients[b]
    /\ castStep[b] = "idle" => stale[b] = {} /\ recipients[b] = {}
    /\ castStep[b] \notin {"send", "lost"} => toSend[b] = {}
    /\ \A t \in Tokens : sent[b][t] <= 1
    /\ \A t \in Tokens : castStep[b] = "idle" \/ t \in toSend[b] => sent[b][t] = 0
    /\ \A t \in recipients[b] : t \in toSend[b] \/ sent[b][t] = 1
       \/ t \in stale[b] \cup missed[b]
    /\ stale[b] \cap live = {}

PushInv == Push!TypeOK /\ OwnersAgree /\ CastsAgree

\* At first every device is of the user it was promised to.
LEMMA PushInit == Push!Init => PushInv
  BY DEF Push!Init, PushInv, Push!TypeOK, OwnersAgree, CastsAgree

-----------------------------------------------------------------------------
\* One step of a registration.
LEMMA RegistrationKeeps ==
  ASSUME Nobody \notin Holders, PushInv, NEW r \in Registrations,
         \/ Push!RegisterDevice(r) \/ Push!FindDevice(r) \/ Push!SelectDevice(r)
         \/ Push!MoveDevice(r) \/ Push!InsertDevice(r)
  PROVE  PushInv'
<1> DEFINE t == regToken[r]
<1>0. t \in Tokens /\ regUser[r] \in Holders
  BY DEF PushInv, Push!TypeOK
<1>1. UNCHANGED <<holders, live, regToken, regUser, Push!broadcasts, tangled>>
  BY DEF Push!RegisterDevice, Push!FindDevice, Push!SelectDevice, Push!MoveDevice,
     Push!InsertDevice
<1>2. PICK s \in RegSteps : regStep' = [regStep EXCEPT ![r] = s]
  BY DEF Push!RegisterDevice, Push!FindDevice, Push!SelectDevice, Push!MoveDevice,
     Push!InsertDevice, Push!Registered, Push!Goto, RegSteps
<1>3. \/ UNCHANGED <<owner, promised>> /\ (s = "update" => owner[t] # Nobody)
      \/ /\ owner' = owner /\ owner[t] \in {Nobody, regUser[r]} /\ s = "done"
         /\ owner[t] = Nobody => regStep[r] = "update"
         /\ promised' = [promised EXCEPT ![t] = regUser[r]]
      \/ /\ owner' = [owner EXCEPT ![t] = regUser[r]] /\ regUser[r] \in holders
         /\ s = "done"
         /\ promised' = [promised EXCEPT ![t] = regUser[r]]
  BY <1>2 DEF Push!RegisterDevice, Push!FindDevice, Push!SelectDevice, Push!MoveDevice,
     Push!InsertDevice, Push!Registered, Push!Goto, PushInv, Push!TypeOK
<1>4. CastsAgree'
  BY <1>1 DEF PushInv, CastsAgree, Push!broadcasts
<1>5. Push!TypeOK'
  BY <1>0, <1>1, <1>2, <1>3 DEF PushInv, Push!TypeOK, RegSteps, Push!broadcasts
<1>6. OwnersAgree'
  BY <1>0, <1>1, <1>2, <1>3 DEF PushInv, Push!TypeOK, OwnersAgree
<1>7. QED
  BY <1>4, <1>5, <1>6 DEF PushInv

\* Rows that go are forgotten.
LEMMA ForgetKeeps ==
  ASSUME Push!TypeOK, OwnersAgree, NEW T \in SUBSET Tokens, Push!Forget(T),
         UNCHANGED Push!registrations, holders' \subseteq holders,
         \A t \in Tokens : owner[t] \in holders \ holders' => t \in T
  PROVE  /\ owner' \in [Tokens -> Holders \cup {Nobody}]
         /\ promised' \in [Tokens -> Holders \cup {Nobody}]
         /\ tangled' \subseteq Tokens
         /\ \A t \in Tokens : owner'[t] # Nobody => owner'[t] \in holders'
         /\ OwnersAgree'
<1>1. /\ owner' \in [Tokens -> Holders \cup {Nobody}]
      /\ promised' \in [Tokens -> Holders \cup {Nobody}]
      /\ tangled' \subseteq Tokens
      /\ \A t \in Tokens : owner'[t] # Nobody => owner'[t] \in holders'
  BY DEF Push!Forget, Push!TypeOK
<1>2. OwnersAgree'
  BY DEF Push!Forget, Push!TypeOK, OwnersAgree, Push!Registering, Push!registrations
<1>3. QED
  BY <1>1, <1>2

\* Devices that are deleted, and apps and users that go.
LEMMA DevicesKeep ==
  ASSUME PushInv,
         \/ \E t \in Tokens : Push!DeleteDevice(t) \/ Push!Uninstall(t)
         \/ \E u \in Holders : Push!RemoveUser(u)
  PROVE  PushInv'
<1>1. ASSUME NEW t \in Tokens, Push!DeleteDevice(t) PROVE PushInv'
  <2>1. Push!Forget({t}) /\ UNCHANGED <<holders, live, Push!registrations, Push!broadcasts>>
    BY <1>1 DEF Push!DeleteDevice
  <2>2. OwnersAgree' /\ Push!TypeOK'
    BY <2>1, ForgetKeeps DEF PushInv, Push!TypeOK, Push!registrations, Push!broadcasts
  <2>3. QED
    BY <2>1, <2>2 DEF PushInv, CastsAgree, Push!broadcasts
<1>2. ASSUME NEW t \in Tokens, Push!Uninstall(t) PROVE PushInv'
  <2>1. /\ live' = live \ {t}
        /\ UNCHANGED <<holders, owner, Push!registrations, Push!broadcasts, promised, tangled>>
    BY <1>2 DEF Push!Uninstall
  <2>2. QED
    BY <2>1 DEF PushInv, Push!TypeOK, OwnersAgree, CastsAgree, Push!registrations,
       Push!broadcasts
<1>3. ASSUME NEW u \in Holders, Push!RemoveUser(u) PROVE PushInv'
  <2> DEFINE T == {t \in Tokens : owner[t] = u}
  <2>1. /\ Push!Forget(T) /\ T \in SUBSET Tokens /\ holders' = holders \ {u}
        /\ UNCHANGED <<live, Push!registrations, Push!broadcasts>>
    BY <1>3 DEF Push!RemoveUser
  <2>2. \A t \in Tokens : owner[t] \in holders \ holders' => t \in T
    BY <2>1
  <2> HIDE DEF T
  <2>3. OwnersAgree' /\ Push!TypeOK'
    BY <2>1, <2>2, ForgetKeeps DEF PushInv, Push!TypeOK, Push!registrations,
       Push!broadcasts
  <2>4. QED
    BY <2>1, <2>3 DEF PushInv, CastsAgree, Push!broadcasts
<1>4. QED
  BY <1>1, <1>2, <1>3

-----------------------------------------------------------------------------
\* One multicast, which reaches the tokens Ok of its chunk T; the rest it
\* reports as unknown or has missed.
LEMMA ChunkKeeps ==
  ASSUME PushInv, NEW b \in Broadcasts, castStep[b] = "send",
         NEW T \in SUBSET toSend[b], NEW Ok \in SUBSET T, NEW Stale \in SUBSET (T \ live),
         T \subseteq Ok \cup Stale \cup missed'[b],
         stale' = [stale EXCEPT ![b] = @ \cup Stale],
         sent' = [sent EXCEPT ![b] = [t \in Tokens |-> IF t \in Ok THEN @[t] + 1 ELSE @[t]]],
         NEW Miss \in SUBSET T, missed' = [missed EXCEPT ![b] = @ \cup Miss],
         Push!AfterChunk(b, T), DevicesStay, UNCHANGED <<live, recipients>>
  PROVE  PushInv'
<1>0. /\ recipients[b] \subseteq Tokens /\ T \subseteq Tokens /\ Stale \subseteq Tokens
      /\ Miss \subseteq Tokens
      /\ sent[b] \in [Tokens -> Nat]
  BY DEF PushInv, Push!TypeOK
<1>1. /\ toSend' = [toSend EXCEPT ![b] = @ \ T]
      /\ \E s \in {"send", "clean", "record"} :
           castStep' = [castStep EXCEPT ![b] = s] /\ (s # "send" => toSend[b] = T)
  BY DEF Push!AfterChunk, Push!CastTo
<1>2. Push!TypeOK'
  <2>1. /\ toSend' \in [Broadcasts -> SUBSET Tokens]
        /\ stale' \in [Broadcasts -> SUBSET Tokens]
        /\ missed' \in [Broadcasts -> SUBSET Tokens]
        /\ recipients' \in [Broadcasts -> SUBSET Tokens]
    BY <1>0, <1>1 DEF PushInv, Push!TypeOK
  <2>2. sent' \in [Broadcasts -> [Tokens -> Nat]]
    <3>1. [t \in Tokens |-> IF t \in Ok THEN sent[b][t] + 1 ELSE sent[b][t]]
            \in [Tokens -> Nat]
      BY <1>0
    <3>2. QED
      BY <3>1 DEF PushInv, Push!TypeOK
  <2>3. /\ castStep' \in [Broadcasts ->
              {"idle", "send", "clean", "record", "done", "nobody", "lost"}]
        /\ \A c \in Broadcasts : toSend'[c] # {} => castStep'[c] \in {"send", "lost"}
    <3>1. PICK s \in {"send", "clean", "record"} :
            castStep' = [castStep EXCEPT ![b] = s] /\ (s # "send" => toSend[b] = T)
      BY <1>1
    <3>2. s # "send" => toSend'[b] = {}
      BY <1>1, <3>1 DEF PushInv, Push!TypeOK
    <3>3. QED
      BY <1>1, <3>1, <3>2 DEF PushInv, Push!TypeOK
  <2>4. UNCHANGED <<holders, owner, live, regStep, regToken, regUser, promised, tangled>>
    BY DEF DevicesStay, Push!registrations
  <2>5. QED
    BY <2>1, <2>2, <2>3, <2>4 DEF PushInv, Push!TypeOK
<1>3. CastsAgree'
  <2>1. ASSUME NEW c \in Broadcasts, c # b
        PROVE  /\ toSend'[c] = toSend[c] /\ stale'[c] = stale[c] /\ sent'[c] = sent[c]
               /\ missed'[c] = missed[c] /\ castStep'[c] = castStep[c]
    BY <1>1, <2>1 DEF PushInv, Push!TypeOK
  <2>2. /\ toSend'[b] = toSend[b] \ T
        /\ stale'[b] = stale[b] \cup Stale
        /\ missed'[b] = missed[b] \cup Miss
        /\ castStep'[b] \in {"send", "clean", "record"}
        /\ castStep'[b] # "send" => toSend[b] = T
    BY <1>1 DEF PushInv, Push!TypeOK
  <2>3. \A t \in Tokens : sent'[b][t] = IF t \in Ok THEN sent[b][t] + 1 ELSE sent[b][t]
    BY DEF PushInv, Push!TypeOK
  <2>4. \A t \in Ok : sent[b][t] = 0
    BY <1>0 DEF PushInv, CastsAgree
  <2>5. /\ \A t \in Tokens : sent'[b][t] <= 1
        /\ \A t \in toSend'[b] : sent'[b][t] = 0
    BY <2>2, <2>3, <2>4, <1>0 DEF PushInv, CastsAgree, Push!TypeOK
  <2>6. \A t \in recipients[b] :
          t \in toSend'[b] \/ sent'[b][t] = 1 \/ t \in stale'[b] \cup missed'[b]
    BY <2>2, <2>3, <2>4, <1>0 DEF PushInv, CastsAgree
  <2>7. /\ toSend'[b] \subseteq recipients[b]
        /\ castStep'[b] # "send" => toSend'[b] = {}
        /\ stale'[b] \cap live = {}
    BY <2>2 DEF PushInv, CastsAgree
  <2> DEFINE Agrees(c) ==
        /\ toSend[c] \subseteq recipients[c]
        /\ castStep[c] = "idle" => stale[c] = {} /\ recipients[c] = {}
        /\ castStep[c] \notin {"send", "lost"} => toSend[c] = {}
        /\ \A t \in Tokens : sent[c][t] <= 1
        /\ \A t \in Tokens : castStep[c] = "idle" \/ t \in toSend[c] => sent[c][t] = 0
        /\ \A t \in recipients[c] : t \in toSend[c] \/ sent[c][t] = 1
           \/ t \in stale[c] \cup missed[c]
        /\ stale[c] \cap live = {}
  <2>8. Agrees(b)'
    BY <2>2, <2>5, <2>6, <2>7
  <2>9. ASSUME NEW c \in Broadcasts, c # b PROVE Agrees(c)'
    <3>1. Agrees(c)
      BY DEF PushInv, CastsAgree
    <3>2. QED
      BY <2>1, <2>9, <3>1
  <2>10. \A c \in Broadcasts : Agrees(c)'
    BY <2>8, <2>9
  <2>11. QED
    BY <2>10 DEF CastsAgree
<1>4. QED
  BY <1>2, <1>3 DEF PushInv, OwnersAgree, DevicesStay, Push!registrations

\* A chunk, whether its multicast answers or fails.
LEMMA SendKeeps ==
  ASSUME PushInv, NEW b \in Broadcasts, Push!SendMulticast(b) \/ Push!MulticastFails(b)
  PROVE  PushInv'
<1>1. ASSUME Push!SendMulticast(b) PROVE PushInv'
  <2>1. PICK T \in Push!Chunks(b) : \E failed \in SUBSET (T \cap live) :
          /\ stale' = [stale EXCEPT ![b] = @ \cup (T \ live)]
          /\ sent' = [sent EXCEPT ![b] = [t \in Tokens |->
                        IF t \in (T \cap live) \ failed THEN @[t] + 1 ELSE @[t]]]
          /\ missed' = [missed EXCEPT ![b] = @ \cup failed]
          /\ Push!AfterChunk(b, T)
    BY <1>1 DEF Push!SendMulticast, Push!StaleOf
  <2>2. PICK failed \in SUBSET (T \cap live) :
          /\ stale' = [stale EXCEPT ![b] = @ \cup (T \ live)]
          /\ sent' = [sent EXCEPT ![b] = [t \in Tokens |->
                        IF t \in (T \cap live) \ failed THEN @[t] + 1 ELSE @[t]]]
          /\ missed' = [missed EXCEPT ![b] = @ \cup failed]
          /\ Push!AfterChunk(b, T)
    BY <2>1
  <2>3. T \in SUBSET toSend[b]
    BY DEF Push!Chunks
  <2>4. missed'[b] = missed[b] \cup failed
    BY <2>2 DEF PushInv, Push!TypeOK
  <2>5. T \subseteq ((T \cap live) \ failed) \cup (T \ live) \cup missed'[b]
    BY <2>4
  <2>6. castStep[b] = "send" /\ DevicesStay /\ UNCHANGED <<live, recipients>>
    BY <1>1 DEF Push!SendMulticast, DevicesStay
  <2>7. /\ (T \cap live) \ failed \in SUBSET T
        /\ T \ live \in SUBSET (T \ live)
        /\ failed \in SUBSET T
    OBVIOUS
  <2>8. QED
    BY <2>2, <2>3, <2>5, <2>6, <2>7, ChunkKeeps
<1>2. ASSUME Push!MulticastFails(b) PROVE PushInv'
  <2>1. PICK T \in Push!Chunks(b) : missed' = [missed EXCEPT ![b] = @ \cup T]
             /\ Push!AfterChunk(b, T)
    BY <1>2 DEF Push!MulticastFails
  <2>2. T \in SUBSET toSend[b]
    BY DEF Push!Chunks
  <2>3. T \subseteq {} \cup {} \cup missed'[b]
    BY <2>1 DEF PushInv, Push!TypeOK
  <2>4. /\ castStep[b] = "send" /\ DevicesStay /\ UNCHANGED <<live, recipients>>
        /\ stale' = stale /\ sent' = sent
    BY <1>2 DEF Push!MulticastFails, DevicesStay
  <2>5. stale' = [stale EXCEPT ![b] = @ \cup {}]
    BY <2>4 DEF PushInv, Push!TypeOK
  <2>6. sent' = [sent EXCEPT ![b] = [t \in Tokens |-> IF t \in {} THEN @[t] + 1 ELSE @[t]]]
    <3>1. sent[b] = [t \in Tokens |-> sent[b][t]]
      BY DEF PushInv, Push!TypeOK
    <3>2. sent = [sent EXCEPT ![b] = sent[b]]
      BY DEF PushInv, Push!TypeOK
    <3>3. QED
      BY <2>4, <3>1, <3>2
  <2>7. {} \in SUBSET T /\ {} \in SUBSET (T \ live) /\ T \in SUBSET T
    OBVIOUS
  <2>8. QED
    BY <2>1, <2>2, <2>3, <2>4, <2>5, <2>6, <2>7, ChunkKeeps
<1>3. QED
  BY <1>1, <1>2

\* The other steps of a broadcast.
LEMMA BroadcastKeeps ==
  ASSUME PushInv, NEW b \in Broadcasts,
         \/ Push!FindAllTokens(b) \/ Push!DeleteTokens(b) \/ Push!RecordNotification(b)
            \/ Push!AnnouncementFails(b)
  PROVE  PushInv'
<1>1. ASSUME Push!FindAllTokens(b) PROVE PushInv'
  <2> DEFINE T == {t \in Tokens : owner[t] # Nobody}
  <2>1. /\ castStep[b] = "idle"
        /\ toSend' = [toSend EXCEPT ![b] = T]
        /\ recipients' = [recipients EXCEPT ![b] = T]
        /\ castStep' = [castStep EXCEPT ![b] = IF T = {} THEN "nobody" ELSE "send"]
        /\ UNCHANGED <<holders, owner, live, Push!registrations, stale, sent, missed,
                       promised, tangled>>
        /\ T \subseteq Tokens
    BY <1>1 DEF Push!FindAllTokens, Push!CastTo
  <2> HIDE DEF T
  <2>2. Push!TypeOK' /\ OwnersAgree'
    BY <2>1 DEF PushInv, Push!TypeOK, OwnersAgree, Push!registrations
  <2>3. CastsAgree'
    BY <2>1 DEF PushInv, Push!TypeOK, CastsAgree
  <2>4. QED
    BY <2>2, <2>3 DEF PushInv
<1>2. ASSUME Push!DeleteTokens(b) PROVE PushInv'
  <2>1. /\ castStep[b] = "clean" /\ Push!Forget(stale[b]) /\ stale[b] \in SUBSET Tokens
        /\ castStep' = [castStep EXCEPT ![b] = "record"]
        /\ UNCHANGED <<holders, live, Push!registrations, toSend, stale, sent, missed,
                       recipients>>
    BY <1>2 DEF Push!DeleteTokens, Push!CastTo, PushInv, Push!TypeOK
  <2>2. /\ owner' \in [Tokens -> Holders \cup {Nobody}]
        /\ promised' \in [Tokens -> Holders \cup {Nobody}]
        /\ tangled' \subseteq Tokens
        /\ \A t \in Tokens : owner'[t] # Nobody => owner'[t] \in holders'
        /\ OwnersAgree'
    BY <2>1, ForgetKeeps DEF PushInv, Push!registrations
  <2>3. Push!TypeOK'
    BY <2>1, <2>2 DEF PushInv, Push!TypeOK, CastsAgree, Push!registrations
  <2>4. CastsAgree'
    BY <2>1 DEF PushInv, Push!TypeOK, CastsAgree
  <2>5. QED
    BY <2>2, <2>3, <2>4 DEF PushInv
<1>3. ASSUME NEW s \in {"done", "lost"},
             castStep[b] \in {"send", "clean", "record"},
             s = "done" => castStep[b] = "record",
             castStep' = [castStep EXCEPT ![b] = s],
             UNCHANGED <<holders, owner, live, Push!registrations, toSend, stale, sent, missed,
                         recipients, promised, tangled>>
      PROVE  PushInv'
  <2>1. Push!TypeOK' /\ OwnersAgree'
    BY <1>3 DEF PushInv, Push!TypeOK, OwnersAgree, CastsAgree, Push!registrations
  <2>2. CastsAgree'
    BY <1>3 DEF PushInv, Push!TypeOK, CastsAgree
  <2>3. QED
    BY <2>1, <2>2 DEF PushInv
<1>4. ASSUME Push!RecordNotification(b) PROVE PushInv'
  BY <1>3, <1>4 DEF Push!RecordNotification, Push!CastTo
<1>5. ASSUME Push!AnnouncementFails(b) PROVE PushInv'
  BY <1>3, <1>5 DEF Push!AnnouncementFails, Push!CastTo
<1>6. QED
  BY <1>1, <1>2, <1>4, <1>5

\* A crash ends what runs and changes no row.
LEMMA CrashKeeps ==
  ASSUME PushInv, Push!Crash
  PROVE  PushInv'
<1>1. /\ castStep' = [b \in Broadcasts |->
           IF castStep[b] \in {"send", "clean", "record"} THEN "lost" ELSE castStep[b]]
      /\ regStep' = [r \in Registrations |->
           IF \E t \in Tokens : r \in Push!Registering(t) THEN "error" ELSE regStep[r]]
      /\ UNCHANGED <<holders, owner, live, regToken, regUser, toSend, stale, sent, missed,
                     recipients, promised, tangled>>
  BY DEF Push!Crash
<1>2. /\ regStep' \in [Registrations -> RegSteps]
      /\ \A r \in Registrations : regStep'[r] = "update" => regStep[r] = "update"
  BY <1>1 DEF PushInv, Push!TypeOK, RegSteps
<1>3. Push!TypeOK' /\ OwnersAgree'
  BY <1>1, <1>2 DEF PushInv, Push!TypeOK, OwnersAgree, RegSteps
<1>4. CastsAgree'
  BY <1>1 DEF PushInv, Push!TypeOK, CastsAgree
<1>5. QED
  BY <1>3, <1>4 DEF PushInv

\* Every step keeps the invariant.
LEMMA PushStepKeeps ==
  Nobody \notin Holders /\ PushInv /\ [Push!Next]_(Push!vars) => PushInv'
<1> SUFFICES ASSUME Nobody \notin Holders, PushInv, [Push!Next]_(Push!vars) PROVE PushInv'
  OBVIOUS
<1>1. CASE UNCHANGED Push!vars
  BY <1>1 DEF Push!vars, PushInv, Push!TypeOK, OwnersAgree, CastsAgree,
     Push!registrations, Push!broadcasts
<1>2. CASE Push!Next
  BY <1>2, RegistrationKeeps, DevicesKeep, SendKeeps, BroadcastKeeps, CrashKeeps
     DEF Push!Next
<1>3. QED
  BY <1>1, <1>2

\* Whatever happens, tokens and broadcasts agree with the rows.
LEMMA PushCorrect ==
  ASSUME Nobody \notin Holders
  PROVE  Push!Spec => []PushInv
<1>1. PushInv /\ [Push!Next]_(Push!vars) => PushInv'
  BY PushStepKeeps
<1>2. QED
  BY <1>1, PushInit, PTL DEF Push!Spec

\* deleteTokens never takes a device from a phone that has the app.
LEMMA LiveTokensStay ==
  ASSUME Nobody \notin Holders
  PROVE  Push!Spec => Push!OnlyDeadTokensCleaned
<1> DEFINE Kept(t, b) ==
      castStep[b] = "clean" /\ castStep'[b] = "record" => owner'[t] = owner[t]
<1>1. ASSUME PushInv, Push!Next, NEW t \in live, NEW b \in Broadcasts,
             castStep[b] = "clean", castStep'[b] = "record"
      PROVE  owner'[t] = owner[t]
  <2>1. t \in Tokens /\ t \notin stale[b]
    BY <1>1 DEF PushInv, Push!TypeOK, CastsAgree
  <2>2. ASSUME NEW c \in Broadcasts, c # b, Push!DeleteTokens(c) PROVE FALSE
    BY <2>2, <1>1 DEF Push!DeleteTokens, Push!CastTo, PushInv, Push!TypeOK
  <2>3. CASE Push!DeleteTokens(b)
    BY <2>1, <2>3 DEF Push!DeleteTokens, Push!Forget
  <2>4. ASSUME NEW r \in Registrations,
               \/ Push!RegisterDevice(r) \/ Push!FindDevice(r) \/ Push!SelectDevice(r)
               \/ Push!MoveDevice(r) \/ Push!InsertDevice(r)
        PROVE  FALSE
    BY <2>4, <1>1 DEF Push!RegisterDevice, Push!FindDevice, Push!SelectDevice,
       Push!MoveDevice, Push!InsertDevice, Push!broadcasts
  <2>5. ASSUME \/ \E s \in Tokens : Push!DeleteDevice(s) \/ Push!Uninstall(s)
               \/ \E u \in Holders : Push!RemoveUser(u)
        PROVE  FALSE
    BY <2>5, <1>1 DEF Push!DeleteDevice, Push!Uninstall, Push!RemoveUser, Push!broadcasts
  <2>6. ASSUME NEW c \in Broadcasts,
               \/ Push!FindAllTokens(c) \/ Push!SendMulticast(c) \/ Push!MulticastFails(c)
               \/ Push!RecordNotification(c) \/ Push!AnnouncementFails(c)
        PROVE  owner' = owner
    BY <2>6 DEF Push!FindAllTokens, Push!SendMulticast, Push!MulticastFails,
       Push!RecordNotification, Push!AnnouncementFails
  <2>7. ASSUME Push!Crash PROVE owner' = owner
    BY <2>7 DEF Push!Crash
  <2>8. QED
    BY <1>1, <2>2, <2>3, <2>4, <2>5, <2>6, <2>7 DEF Push!Next
<1>2. ASSUME PushInv, [Push!Next]_(Push!vars)
      PROVE  [\A t \in live : \A b \in Broadcasts : Kept(t, b)]_(Push!vars)
  BY <1>1, <1>2
<1>3. QED
  BY <1>2, PushCorrect, PTL DEF Push!Spec, Push!OnlyDeadTokensCleaned

-----------------------------------------------------------------------------
\* Inbox.

\* A running request is about a user and about ids that have been given out.
\* Of those its SELECT found a row of, it can have been lost only together
\* with its user or its notification, and neither ever comes back.
MarksAgree ==
  /\ \A m \in Marks : targets[m] \subseteq used
  /\ \A m \in Marks : markStep[m] \in Inbox!Running => marker[m] \in Readers
  /\ \A m \in Marks : markStep[m] \in {"idle", "findall", "select"} => inserts[m] = {}
  /\ \A m \in Marks : markStep[m] = "write" =>
       \A n \in targets[m] \ inserts[m] :
         status[<<marker[m], n>>] = "none" => marker[m] \notin readers \/ n \notin items

\* Nobody has been told anything of an id that has not been given out.
AnswersAgree == \A p \in answered : p[2] \in used

\* ClearedStaysCleared, in terms of the rows.
RowsAgree ==
  \A u \in readers, n \in items : <<u, n>> \in answered <=> status[<<u, n>>] = "cleared"

ClearedInv == Inbox!TypeOK /\ MarksAgree /\ AnswersAgree /\ RowsAgree

\* At first nobody has asked for anything.
LEMMA InboxInit == Inbox!Init => ClearedInv
  BY DEF Inbox!Init, ClearedInv, Inbox!TypeOK, MarksAgree, AnswersAgree, RowsAgree,
     Inbox!Running, Inbox!StatusRows

\* A write of one request, which changes rows of its own user only.
LEMMA WriteKeeps ==
  ASSUME ClearedInv, NEW m \in Marks, Inbox!WriteStatus(m)
  PROVE  ClearedInv'
<1> DEFINE u == marker[m]
           T == targets[m]
           Has(n) == n \in inserts[m] \/ status[<<u, n>>] # "none"
<1>0. /\ u \in Readers /\ T \subseteq used /\ used \subseteq Items /\ T \subseteq Items
      /\ clears[m] \in BOOLEAN
      /\ inserts[m] \subseteq T
  BY DEF ClearedInv, Inbox!TypeOK, MarksAgree, Inbox!WriteStatus, Inbox!Running
<1>1. UNCHANGED <<readers, items, used, marker, clears, targets, inserts>>
  BY DEF Inbox!WriteStatus
<1>2. CASE Inbox!Refused(m)
  <2>1. /\ markStep' = [markStep EXCEPT ![m] = "error"]
        /\ UNCHANGED <<status, answered>>
    BY <1>2 DEF Inbox!WriteStatus, Inbox!Goto
  <2>2. QED
    BY <1>1, <2>1 DEF ClearedInv, Inbox!TypeOK, MarksAgree, AnswersAgree, RowsAgree,
       Inbox!Running
<1>3. CASE ~Inbox!Refused(m)
  <2>1. /\ status' = [p \in Readers \X Items |->
                        IF /\ p[1] = u /\ p[2] \in T
                           /\ (p[2] \in inserts[m] \/ status[p] # "none")
                          THEN Inbox!With(status[p], clears[m]) ELSE status[p]]
        /\ markStep' = [markStep EXCEPT ![m] = "done"]
        /\ answered' = IF clears[m] THEN answered \cup ({u} \X T) ELSE answered
    BY <1>3 DEF Inbox!WriteStatus, Inbox!Goto
  <2>2. \A n \in inserts[m] : status[<<u, n>>] = "none" /\ u \in readers /\ n \in items
    BY <1>3 DEF Inbox!Refused
  <2>3. ASSUME NEW v \in Readers, NEW n \in Items
        PROVE  status'[<<v, n>>] = IF v = u /\ n \in T /\ Has(n)
                                   THEN Inbox!With(status[<<v, n>>], clears[m])
                                   ELSE status[<<v, n>>]
    BY <2>1
  <2>4. status' \in [Readers \X Items -> Inbox!StatusRows]
    BY <2>1 DEF ClearedInv, Inbox!TypeOK, Inbox!With, Inbox!StatusRows
  <2>5. \A v \in Readers, n \in Items :
           status'[<<v, n>>] = "none"
             <=> status[<<v, n>>] = "none" /\ ~(v = u /\ n \in inserts[m])
    BY <2>3, <1>0 DEF Inbox!With
  <2>6. Inbox!TypeOK'
    <3>1. \A v \in Readers, n \in Items : status'[<<v, n>>] # "none" => v \in readers
          /\ n \in items
      BY <2>5, <2>2 DEF ClearedInv, Inbox!TypeOK
    <3>2. markStep' \in [Marks -> Inbox!Running \cup {"idle", "done", "error"}]
      BY <2>1 DEF ClearedInv, Inbox!TypeOK
    <3>3. answered' \subseteq Readers \X Items
      BY <2>1, <1>0 DEF ClearedInv, Inbox!TypeOK
    <3>4. QED
      BY <3>1, <3>2, <3>3, <2>4, <1>1 DEF ClearedInv, Inbox!TypeOK
  <2>7. MarksAgree'
    <3>1. \A k \in Marks : markStep'[k] \in Inbox!Running => markStep'[k] = markStep[k]
      BY <2>1 DEF ClearedInv, Inbox!TypeOK, Inbox!Running
    <3>2. ASSUME NEW k \in Marks, markStep'[k] = "write", NEW n \in targets[k] \ inserts[k],
                 status'[<<marker[k], n>>] = "none"
          PROVE  marker[k] \notin readers \/ n \notin items
      <4>1. markStep[k] = "write" /\ marker[k] \in Readers /\ n \in Items
        BY <3>1, <3>2 DEF ClearedInv, Inbox!TypeOK, MarksAgree, Inbox!Running
      <4>2. status[<<marker[k], n>>] = "none"
        BY <4>1, <3>2, <2>5
      <4>3. QED
        BY <4>1, <4>2 DEF ClearedInv, MarksAgree
    <3>3. \A k \in Marks : markStep'[k] \in Inbox!Running => marker[k] \in Readers
      BY <3>1 DEF ClearedInv, MarksAgree
    <3>4. \A k \in Marks : markStep'[k] \in {"idle", "findall", "select"} => inserts[k] = {}
      BY <2>1 DEF ClearedInv, Inbox!TypeOK, MarksAgree
    <3>5. QED
      BY <3>2, <3>3, <3>4, <1>1 DEF ClearedInv, MarksAgree
  <2>8. AnswersAgree'
    BY <2>1, <1>0, <1>1 DEF ClearedInv, AnswersAgree
  <2>9. RowsAgree'
    <3> SUFFICES ASSUME NEW v \in readers, NEW n \in items
                 PROVE  <<v, n>> \in answered' <=> status'[<<v, n>>] = "cleared"
      BY <1>1 DEF RowsAgree
    <3>1. v \in Readers /\ n \in Items
          /\ (<<v, n>> \in answered <=> status[<<v, n>>] = "cleared")
      BY DEF ClearedInv, Inbox!TypeOK, RowsAgree
    <3>2. CASE v = u /\ n \in T
      <4>1. Has(n)
        BY <3>2 DEF ClearedInv, MarksAgree, Inbox!WriteStatus
      <4>2. status'[<<v, n>>] = "cleared" <=> clears[m] \/ status[<<v, n>>] = "cleared"
        BY <4>1, <3>1, <3>2, <2>3 DEF Inbox!With
      <4>3. <<v, n>> \in answered' <=> clears[m] \/ <<v, n>> \in answered
        BY <2>1, <3>2
      <4>4. QED
        BY <4>2, <4>3, <3>1
    <3>3. CASE ~(v = u /\ n \in T)
      BY <3>3, <3>1, <2>1, <2>3
    <3>4. QED
      BY <3>2, <3>3
  <2>10. QED
    BY <2>6, <2>7, <2>8, <2>9 DEF ClearedInv
<1>4. QED
  BY <1>2, <1>3

\* A new request, or one that comes no further than its SELECT or an error.
LEMMA MarkKeeps ==
  ASSUME ClearedInv, NEW m \in Marks,
         \/ \E u \in Readers : \/ Inbox!MarkNotificationAsRead(m, u)
                               \/ Inbox!ClearNotificationForUser(m, u)
                               \/ Inbox!ClearAllNotificationsForUser(m, u)
         \/ Inbox!FindAll(m) \/ Inbox!SelectStatus(m) \/ Inbox!MarkFails(m)
  PROVE  ClearedInv'
<1>1. ASSUME NEW u \in Readers, NEW first \in {"select", "findall"}, NEW clear \in BOOLEAN,
             NEW T \in SUBSET used, Inbox!Ask(m, u, first, clear, T)
      PROVE  ClearedInv'
  <2>1. /\ markStep' = [markStep EXCEPT ![m] = first]
        /\ marker' = [marker EXCEPT ![m] = u]
        /\ clears' = [clears EXCEPT ![m] = clear]
        /\ targets' = [targets EXCEPT ![m] = T]
        /\ UNCHANGED <<readers, items, used, status, inserts, answered>>
    BY <1>1 DEF Inbox!Ask, Inbox!Goto
  <2>2. inserts[m] = {}
    BY <1>1 DEF Inbox!Ask, ClearedInv, MarksAgree
  <2>3. T \subseteq Items
    BY DEF ClearedInv, Inbox!TypeOK
  <2>4. Inbox!TypeOK'
    BY <2>1, <2>2, <2>3 DEF ClearedInv, Inbox!TypeOK, Inbox!Running
  <2>5. MarksAgree'
    BY <2>1, <2>2 DEF ClearedInv, Inbox!TypeOK, MarksAgree, Inbox!Running
  <2>6. QED
    BY <2>1, <2>4, <2>5 DEF ClearedInv, AnswersAgree, RowsAgree
<1>2. ASSUME NEW u \in Readers, Inbox!MarkNotificationAsRead(m, u) PROVE ClearedInv'
  <2>1. PICK n \in used : Inbox!Ask(m, u, "select", FALSE, {n})
    BY <1>2 DEF Inbox!MarkNotificationAsRead
  <2>2. {n} \in SUBSET used
    OBVIOUS
  <2>3. QED
    BY <1>1, <2>1, <2>2
<1>3. ASSUME NEW u \in Readers, Inbox!ClearNotificationForUser(m, u) PROVE ClearedInv'
  <2>1. PICK n \in used : Inbox!Ask(m, u, "select", TRUE, {n})
    BY <1>3 DEF Inbox!ClearNotificationForUser
  <2>2. {n} \in SUBSET used
    OBVIOUS
  <2>3. QED
    BY <1>1, <2>1, <2>2
<1>4. ASSUME NEW u \in Readers, Inbox!ClearAllNotificationsForUser(m, u) PROVE ClearedInv'
  <2>1. Inbox!Ask(m, u, "findall", TRUE, {}) /\ {} \in SUBSET used
    BY <1>4 DEF Inbox!ClearAllNotificationsForUser
  <2>2. QED
    BY <1>1, <2>1
<1>5. ASSUME Inbox!FindAll(m) PROVE ClearedInv'
  <2>1. /\ markStep' = [markStep EXCEPT ![m] = IF items = {} THEN "done" ELSE "select"]
        /\ targets' = [targets EXCEPT ![m] = items]
        /\ markStep[m] = "findall"
        /\ UNCHANGED <<readers, items, used, status, marker, clears, inserts, answered>>
    BY <1>5 DEF Inbox!FindAll, Inbox!Goto
  <2>2. inserts[m] = {}
    BY <2>1 DEF ClearedInv, MarksAgree
  <2>3. Inbox!TypeOK'
    BY <2>1, <2>2 DEF ClearedInv, Inbox!TypeOK, Inbox!Running
  <2>4. MarksAgree'
    BY <2>1 DEF ClearedInv, Inbox!TypeOK, MarksAgree, Inbox!Running
  <2>5. QED
    BY <2>1, <2>3, <2>4 DEF ClearedInv, AnswersAgree, RowsAgree
<1>6. ASSUME Inbox!SelectStatus(m) PROVE ClearedInv'
  <2>1. /\ markStep' = [markStep EXCEPT ![m] = "write"]
        /\ inserts' = [inserts EXCEPT ![m] =
                         {n \in targets[m] : status[<<marker[m], n>>] = "none"}]
        /\ markStep[m] = "select"
        /\ UNCHANGED <<readers, items, used, status, marker, clears, targets, answered>>
    BY <1>6 DEF Inbox!SelectStatus, Inbox!Goto
  <2>2. Inbox!TypeOK'
    BY <2>1 DEF ClearedInv, Inbox!TypeOK, Inbox!Running
  <2>3. MarksAgree'
    BY <2>1 DEF ClearedInv, Inbox!TypeOK, MarksAgree, Inbox!Running
  <2>4. QED
    BY <2>1, <2>2, <2>3 DEF ClearedInv, AnswersAgree, RowsAgree
<1>7. ASSUME Inbox!MarkFails(m) PROVE ClearedInv'
  <2>1. /\ markStep' = [markStep EXCEPT ![m] = "error"]
        /\ markStep[m] \in Inbox!Running
        /\ UNCHANGED <<readers, items, used, status, marker, clears, targets, inserts,
                       answered>>
    BY <1>7 DEF Inbox!MarkFails, Inbox!Goto
  <2>2. Inbox!TypeOK'
    BY <2>1 DEF ClearedInv, Inbox!TypeOK, Inbox!Running
  <2>3. MarksAgree'
    BY <2>1 DEF ClearedInv, Inbox!TypeOK, MarksAgree, Inbox!Running
  <2>4. QED
    BY <2>1, <2>2, <2>3 DEF ClearedInv, AnswersAgree, RowsAgree
<1>8. QED
  BY <1>2, <1>3, <1>4, <1>5, <1>6, <1>7

\* Notifications and users that come and go.
LEMMA RowsKeep ==
  ASSUME ClearedInv,
         \/ \E n \in Items : Inbox!Record(n) \/ Inbox!DeleteNotification(n)
         \/ \E u \in Readers : Inbox!RemoveUser(u)
  PROVE  ClearedInv'
<1> USE DEF ClearedInv, Inbox!TypeOK, MarksAgree, AnswersAgree, RowsAgree, Inbox!Running
<1>1. ASSUME NEW n \in Items, Inbox!Record(n) PROVE ClearedInv'
  BY <1>1 DEF Inbox!Record
<1>2. ASSUME NEW n \in Items, Inbox!DeleteNotification(n) PROVE ClearedInv'
  BY <1>2 DEF Inbox!DeleteNotification, Inbox!StatusRows
<1>3. ASSUME NEW u \in Readers, Inbox!RemoveUser(u) PROVE ClearedInv'
  BY <1>3 DEF Inbox!RemoveUser, Inbox!StatusRows
<1>4. QED
  BY <1>1, <1>2, <1>3

\* Every step keeps the invariant.
LEMMA InboxStepKeeps == ClearedInv /\ [Inbox!Next]_(Inbox!vars) => ClearedInv'
<1> SUFFICES ASSUME ClearedInv, [Inbox!Next]_(Inbox!vars) PROVE ClearedInv'
  OBVIOUS
<1>1. CASE UNCHANGED Inbox!vars
  BY <1>1 DEF Inbox!vars, ClearedInv, Inbox!TypeOK, MarksAgree, AnswersAgree, RowsAgree
<1>2. CASE Inbox!Next
  BY <1>2, WriteKeeps, MarkKeeps, RowsKeep DEF Inbox!Next
<1>3. QED
  BY <1>1, <1>2

\* Whatever happens, the rows are what users have been told.
LEMMA InboxCorrect == Inbox!Spec => []ClearedInv
  BY InboxInit, InboxStepKeeps, PTL DEF Inbox!Spec

-----------------------------------------------------------------------------
\* YoutubeCache.

\* A fetch has no page before it begins, pages as new as its beginning while
\* it lists, and as many as its key needs when it stores them.
PagesAgree ==
  \A f \in Fetches :
    /\ fetchStep[f] \in {"idle", "get", "delete"} => pages[f] = <<>>
    /\ fetchStep[f] \in {"set", "served"} => Len(pages[f]) = Youtube!Size(fetchKey[f])
    /\ fetchStep[f] = "delete" => fetchKey[f] = Playlist
    /\ refreshes[f] => fetchKey[f] = Playlist
    /\ fetchStep[f] \in {"list", "set"} =>
         /\ began[f] <= version
         /\ \A n \in 1..Len(pages[f]) : pages[f][n] >= began[f]

\* What is cached is whole.
CacheAgrees == \A k \in Youtube!Keys : cache[k] # Missing => Len(cache[k]) = Youtube!Size(k)

\* Unless an older fetch was on its way when the last refresh was complete,
\* what is cached, or will be, began no earlier than that refresh.
FetchesAgree ==
  ~mingled =>
    /\ cache[Playlist] # Missing
         => \A n \in 1..Len(cache[Playlist]) : cache[Playlist][n] >= fresh
    /\ \A f \in Fetches :
         fetchKey[f] = Playlist /\ fetchStep[f] \in {"list", "set"} => began[f] >= fresh

FreshInv == Youtube!TypeOK /\ PagesAgree /\ CacheAgrees /\ FetchesAgree

\* A list of versions that is short enough is one of Lists, and so is what it
\* becomes with one more page.
LEMMA ListsTyped ==
  ASSUME NEW x
  PROVE  x \in Youtube!Lists <=> x \in Seq(0..MaxVersion) /\ Len(x) <= Playlists
<1>1. ASSUME x \in Youtube!Lists PROVE x \in Seq(0..MaxVersion) /\ Len(x) <= Playlists
  <2>1. PICK n \in 0..Playlists : x \in [1..n -> 0..MaxVersion]
    BY <1>1 DEF Youtube!Lists
  <2>2. n \in Nat /\ n <= Playlists
    BY YoutubeAssumption DEF YoutubeConstants
  <2> DEFINE S == 0..MaxVersion
  <2> HIDE DEF S
  <2>3. x \in Seq(S) /\ Len(x) = n
    <3>1. x \in [1..n -> S]
      BY <2>1 DEF S
    <3>2. x \in Seq(S)
      BY <2>2, <3>1
    <3>3. Len(x) = n
      BY <2>2, <3>1, <3>2
    <3>4. QED
      BY <3>2, <3>3
  <2> USE DEF S
  <2>4. QED
    BY <2>2, <2>3
<1>2. ASSUME x \in Seq(0..MaxVersion), Len(x) <= Playlists PROVE x \in Youtube!Lists
  <2>1. Len(x) \in 0..Playlists /\ x \in [1..Len(x) -> 0..MaxVersion]
    BY <1>2, YoutubeAssumption DEF YoutubeConstants
  <2>2. QED
    BY <2>1 DEF Youtube!Lists
<1>3. QED
  BY <1>1, <1>2

\* One more page.
LEMMA OneMore ==
  ASSUME NEW x \in Youtube!Lists, NEW v \in 0..MaxVersion, NEW k, Len(x) < Youtube!Size(k)
  PROVE  /\ Append(x, v) \in Youtube!Lists
         /\ Len(Append(x, v)) = Len(x) + 1
         /\ Len(x) \in Nat
         /\ \A n \in 1..Len(x) : Append(x, v)[n] = x[n]
         /\ Append(x, v)[Len(x) + 1] = v
         /\ Len(x) + 1 <= Youtube!Size(k)
<1>1. x \in Seq(0..MaxVersion) /\ Len(x) <= Playlists
  BY ListsTyped
<1>2. Youtube!Size(k) \in Nat /\ Youtube!Size(k) <= Playlists
  BY YoutubeAssumption DEF YoutubeConstants, Youtube!Size
<1>3. /\ Append(x, v) \in Seq(0..MaxVersion)
      /\ Len(Append(x, v)) = Len(x) + 1
      /\ Len(x) \in Nat
      /\ \A n \in 1..Len(x) : Append(x, v)[n] = x[n]
      /\ Append(x, v)[Len(x) + 1] = v
  BY <1>1
<1>4. Len(Append(x, v)) <= Playlists /\ Len(x) + 1 <= Youtube!Size(k)
  BY <1>2, <1>3, YoutubeAssumption DEF YoutubeConstants
<1>5. QED
  BY <1>3, <1>4, ListsTyped

\* Every key needs a page at least.
LEMMA SizeTyped ==
  ASSUME NEW k
  PROVE  Youtube!Size(k) \in Nat \ {0} /\ <<>> \in Youtube!Lists /\ Len(<<>>) = 0
         /\ Youtube!Size(Playlist) = Playlists
<1>1. <<>> \in Seq(0..MaxVersion) /\ Len(<<>>) = 0 /\ 0 <= Playlists
  BY YoutubeAssumption DEF YoutubeConstants
<1>2. <<>> \in Youtube!Lists
  BY <1>1, ListsTyped
<1>3. QED
  BY <1>1, <1>2, YoutubeAssumption DEF YoutubeConstants, Youtube!Size

\* At first nothing is cached, and nobody fetches.
LEMMA FreshInit ==
  ASSUME Youtube!Init
  PROVE  FreshInv
<1>1. /\ 0 \in 0..MaxVersion
      /\ <<>> \in Youtube!Lists
      /\ Playlist \in Youtube!Keys
  BY SizeTyped, YoutubeAssumption DEF YoutubeConstants, Youtube!Keys
<1>a. 0 \in 0..0
  OBVIOUS
<1>b. fresh \in 0..version
  BY <1>a DEF Youtube!Init
<1>c. version \in 0..MaxVersion /\ cache \in [Youtube!Keys -> Youtube!Lists \cup {Missing}]
      /\ pages \in [Fetches -> Youtube!Lists] /\ began \in [Fetches -> 0..MaxVersion]
  BY <1>1 DEF Youtube!Init
<1>2. Youtube!TypeOK
  BY <1>1, <1>b, <1>c DEF Youtube!Init, Youtube!TypeOK
<1>3. PagesAgree /\ CacheAgrees /\ FetchesAgree
  BY <1>1 DEF Youtube!Init, PagesAgree, CacheAgrees, FetchesAgree
<1>4. QED
  BY <1>2, <1>3 DEF FreshInv

\* Every step keeps the invariant.
LEMMA FreshStep ==
  ASSUME FreshInv, [Youtube!Next]_(Youtube!vars)
  PROVE  FreshInv'
<1>0. Youtube!TypeOK /\ PagesAgree /\ CacheAgrees /\ FetchesAgree
  BY DEF FreshInv
<1>a. /\ Playlist \in Youtube!Keys /\ Queries \subseteq Youtube!Keys
      /\ version \in Nat /\ MaxVersion \in Nat /\ fresh \in Nat /\ fresh <= version
      /\ \A f \in Fetches : began[f] \in Nat /\ pages[f] \in Youtube!Lists
         /\ fetchKey[f] \in Youtube!Keys
  BY <1>0, YoutubeAssumption DEF Youtube!TypeOK, Youtube!Keys, YoutubeConstants
<1>b. \A k \in Youtube!Keys : Youtube!Size(k) \in Nat \ {0}
  BY SizeTyped
<1>1. CASE Youtube!Upload
  <2>1. version' \in 0..MaxVersion /\ fresh' \in 0..version' /\ version <= version'
    BY <1>0, <1>1, <1>a DEF Youtube!Upload
  <2>2. Youtube!TypeOK'
    BY <1>0, <1>1, <2>1 DEF Youtube!Upload, Youtube!TypeOK
  <2>3. PagesAgree'
    BY <1>0, <1>1, <1>a, <2>1 DEF Youtube!Upload, PagesAgree
  <2>4. QED
    BY <1>0, <1>1, <2>2, <2>3 DEF Youtube!Upload, CacheAgrees, FetchesAgree, FreshInv
<1>2. ASSUME NEW f \in Fetches, NEW k \in Youtube!Keys, NEW first \in {"get", "delete"},
             Youtube!Ask(f, k, first), first = "delete" => k = Playlist
      PROVE  FreshInv'
  <2>1. Youtube!TypeOK'
    BY <1>0, <1>2 DEF Youtube!Ask, Youtube!Goto, Youtube!TypeOK
  <2>2. PagesAgree'
    BY <1>0, <1>2 DEF Youtube!Ask, Youtube!Goto, Youtube!TypeOK, PagesAgree
  <2>3. CacheAgrees' /\ FetchesAgree'
    BY <1>0, <1>2 DEF Youtube!Ask, Youtube!Goto, Youtube!TypeOK, CacheAgrees, FetchesAgree
  <2>4. QED
    BY <2>1, <2>2, <2>3 DEF FreshInv
\* A fetch begins, on what is cached or on nothing.
<1>3. ASSUME NEW f \in Fetches, fetchStep[f] \in {"get", "delete"}, Youtube!StartToFetch(f),
             UNCHANGED <<version, fetchKey, refreshes, pages, fresh, mingled>>,
             cache' = cache \/ cache' = [cache EXCEPT ![Playlist] = Missing]
      PROVE  FreshInv'
  <2>1. pages[f] = <<>> /\ Len(pages[f]) = 0 /\ 0 < Youtube!Size(fetchKey[f])
    BY <1>0, <1>3, <1>a, <1>b, SizeTyped DEF PagesAgree
  <2>2. Youtube!TypeOK'
    BY <1>0, <1>3, <1>a, <2>1 DEF Youtube!StartToFetch, Youtube!Goto, Youtube!TypeOK
  <2>3. PagesAgree'
    BY <1>0, <1>3, <1>a, <2>1 DEF Youtube!StartToFetch, Youtube!Goto, Youtube!TypeOK,
       PagesAgree
  <2>4. CacheAgrees'
    BY <1>0, <1>3 DEF CacheAgrees, Youtube!TypeOK
  <2>5. FetchesAgree'
    BY <1>0, <1>3, <1>a DEF Youtube!StartToFetch, Youtube!Goto, Youtube!TypeOK,
       FetchesAgree
  <2>6. QED
    BY <2>2, <2>3, <2>4, <2>5 DEF FreshInv
<1>4. ASSUME NEW f \in Fetches, Youtube!GetCached(f) PROVE FreshInv'
  <2>1. CASE cache[fetchKey[f]] = Missing
    BY <1>3, <1>4, <2>1 DEF Youtube!GetCached
  <2>2. CASE cache[fetchKey[f]] # Missing
    <3>1. /\ fetchStep' = [fetchStep EXCEPT ![f] = "served"]
          /\ pages' = [pages EXCEPT ![f] = cache[fetchKey[f]]]
          /\ UNCHANGED <<version, cache, fetchKey, refreshes, began, fresh, mingled>>
      BY <1>4, <2>2 DEF Youtube!GetCached, Youtube!Goto
    <3>2. cache[fetchKey[f]] \in Youtube!Lists
          /\ Len(cache[fetchKey[f]]) = Youtube!Size(fetchKey[f])
      BY <1>0, <1>a, <2>2 DEF Youtube!TypeOK, CacheAgrees
    <3>3. Youtube!TypeOK'
      BY <1>0, <3>1, <3>2 DEF Youtube!TypeOK
    <3>4. PagesAgree'
      BY <1>0, <3>1, <3>2 DEF Youtube!TypeOK, PagesAgree
    <3>5. CacheAgrees' /\ FetchesAgree'
      BY <1>0, <3>1 DEF Youtube!TypeOK, CacheAgrees, FetchesAgree
    <3>6. QED
      BY <3>3, <3>4, <3>5 DEF FreshInv
  <2>3. QED
    BY <2>1, <2>2
<1>5. ASSUME NEW f \in Fetches, Youtube!DeleteCached(f) PROVE FreshInv'
  BY <1>3, <1>5 DEF Youtube!DeleteCached
<1>6. ASSUME NEW f \in Fetches, Youtube!List(f) PROVE FreshInv'
  <2> DEFINE x == pages[f]
             y == Append(x, version)
  <2>1. Len(x) < Youtube!Size(fetchKey[f]) /\ began[f] <= version
        /\ \A n \in 1..Len(x) : x[n] >= began[f]
    BY <1>0, <1>6 DEF Youtube!List, Youtube!TypeOK, PagesAgree
  <2>2. /\ y \in Youtube!Lists
        /\ Len(y) = Len(x) + 1
        /\ Len(x) \in Nat
        /\ \A n \in 1..Len(x) : y[n] = x[n]
        /\ y[Len(x) + 1] = version
        /\ Len(x) + 1 <= Youtube!Size(fetchKey[f])
    <3>1. x \in Youtube!Lists /\ version \in 0..MaxVersion
      BY <1>0, <1>a DEF Youtube!TypeOK
    <3>2. PICK v \in 0..MaxVersion : v = version
      BY <3>1
    <3>3. PICK z \in Youtube!Lists : z = x
      BY <3>1
    <3>4. PICK k : k = fetchKey[f]
      OBVIOUS
    <3>5. Len(z) < Youtube!Size(k)
      BY <2>1, <3>3, <3>4
    <3> HIDE DEF x
    <3>6. QED
      BY <3>2, <3>3, <3>4, <3>5, OneMore
  <2>3. \A n \in 1..Len(y) : y[n] >= began[f]
    <3>1. \A n \in 1..Len(y) : n \in 1..Len(x) \/ n = Len(x) + 1
      BY <2>2
    <3> HIDE DEF x, y
    <3>2. QED
      BY <2>1, <2>2, <3>1
  <2>4. /\ pages' = [pages EXCEPT ![f] = y]
        /\ fetchStep' = [fetchStep EXCEPT ![f] =
             IF Len(pages'[f]) = Youtube!Size(fetchKey[f]) THEN "set" ELSE "list"]
        /\ fetchStep[f] = "list"
        /\ UNCHANGED <<version, cache, fetchKey, refreshes, began, fresh, mingled>>
    BY <1>6 DEF Youtube!List, Youtube!Goto
  <2> HIDE DEF x, y
  <2>5. pages'[f] = y
    BY <1>0, <2>4 DEF Youtube!TypeOK
  <2>6. Len(y) # Youtube!Size(fetchKey[f]) => Len(y) < Youtube!Size(fetchKey[f])
    BY <1>a, <1>b, <2>2
  <2>7. Youtube!TypeOK'
    BY <1>0, <2>2, <2>4, <2>5, <2>6 DEF Youtube!TypeOK
  <2>8. PagesAgree'
    BY <1>0, <2>1, <2>2, <2>3, <2>4, <2>5, <2>6 DEF Youtube!TypeOK, PagesAgree
  <2>9. CacheAgrees' /\ FetchesAgree'
    BY <1>0, <2>4 DEF Youtube!TypeOK, CacheAgrees, FetchesAgree
  <2>10. QED
    BY <2>7, <2>8, <2>9 DEF FreshInv
<1>7. ASSUME NEW f \in Fetches, Youtube!SetCached(f) PROVE FreshInv'
  <2>1. /\ fetchStep[f] = "set"
        /\ cache' = [cache EXCEPT ![fetchKey[f]] = pages[f]]
        /\ fetchStep' = [fetchStep EXCEPT ![f] = "served"]
        /\ UNCHANGED <<version, fetchKey, refreshes, pages, began>>
    BY <1>7 DEF Youtube!SetCached, Youtube!Goto
  <2>2. /\ Len(pages[f]) = Youtube!Size(fetchKey[f])
        /\ began[f] <= version
        /\ \A n \in 1..Len(pages[f]) : pages[f][n] >= began[f]
        /\ refreshes[f] => fetchKey[f] = Playlist
    BY <1>0, <2>1 DEF PagesAgree
  <2>3. PagesAgree' /\ CacheAgrees'
    BY <1>0, <1>a, <2>1, <2>2 DEF Youtube!TypeOK, PagesAgree, CacheAgrees
  <2>4. CASE refreshes[f] /\ began[f] >= fresh
    <3>1. fresh' = began[f] /\ mingled' = (Youtube!OlderThan(f) # {})
      BY <1>7, <2>4 DEF Youtube!SetCached
    <3>2. Youtube!TypeOK'
      <4>1. fresh' \in 0..version' /\ mingled' \in BOOLEAN
        BY <1>a, <2>1, <2>2, <3>1
      <4>2. QED
        BY <1>0, <1>a, <2>1, <4>1 DEF Youtube!TypeOK
    <3>3. ASSUME ~mingled', NEW g \in Fetches, fetchKey'[g] = Playlist,
                 fetchStep'[g] \in {"list", "set"}
          PROVE  began'[g] >= fresh'
      <4>1. g # f /\ fetchStep[g] \in {"list", "set"} /\ fetchKey[g] = Playlist
        BY <1>0, <2>1, <3>3 DEF Youtube!TypeOK
      <4>2. ~(began[g] < began[f])
        BY <3>1, <3>3, <4>1 DEF Youtube!OlderThan
      <4>3. QED
        BY <1>a, <2>1, <3>1, <4>2
    <3>4. cache'[Playlist] = pages[f]
      BY <1>0, <1>a, <2>1, <2>2, <2>4 DEF Youtube!TypeOK
    <3>5. FetchesAgree'
      BY <2>2, <3>1, <3>3, <3>4 DEF FetchesAgree
    <3>6. QED
      BY <2>3, <3>2, <3>5 DEF FreshInv
  <2>5. CASE ~(refreshes[f] /\ began[f] >= fresh)
    <3>1. UNCHANGED <<fresh, mingled>>
      BY <1>7, <2>5 DEF Youtube!SetCached
    <3>2. Youtube!TypeOK'
      BY <1>0, <1>a, <2>1, <3>1 DEF Youtube!TypeOK
    <3>3. ASSUME ~mingled, cache'[Playlist] # Missing, NEW n \in 1..Len(cache'[Playlist])
          PROVE  cache'[Playlist][n] >= fresh
      <4>1. CASE fetchKey[f] # Playlist
        BY <1>0, <1>a, <2>1, <3>3, <4>1 DEF Youtube!TypeOK, FetchesAgree
      <4>2. CASE fetchKey[f] = Playlist
        <5>1. cache'[Playlist] = pages[f]
          BY <1>0, <1>a, <2>1, <4>2 DEF Youtube!TypeOK
        <5>2. n \in 1..Len(pages[f]) /\ pages[f][n] >= began[f] /\ began[f] >= fresh
          BY <1>0, <2>1, <2>2, <3>3, <4>2, <5>1 DEF FetchesAgree
        <5>3. pages[f][n] \in Nat
          <6>1. PICK x : x = pages[f]
            OBVIOUS
          <6>2. x \in Youtube!Lists
            BY <1>a, <6>1
          <6>3. x \in Seq(0..MaxVersion)
            BY <6>2, ListsTyped
          <6>a. n \in 1..Len(x)
            BY <5>2, <6>1
          <6>b. x[n] \in 0..MaxVersion
            <7> DEFINE S == 0..MaxVersion
            <7>1. x \in Seq(S)
              BY <6>3
            <7> HIDE DEF S
            <7>2. x[n] \in S
              BY <6>a, <7>1
            <7> QED
              BY <7>2 DEF S
          <6>4. x[n] \in Nat
            BY <6>b, YoutubeAssumption DEF YoutubeConstants
          <6>5. QED
            BY <6>1, <6>4
        <5>4. QED
          BY <1>a, <5>1, <5>2, <5>3
      <4>3. QED
        BY <4>1, <4>2
    <3>4. FetchesAgree'
      BY <1>0, <2>1, <3>1, <3>3 DEF Youtube!TypeOK, FetchesAgree
    <3>5. QED
      BY <2>3, <3>2, <3>4 DEF FreshInv
  <2>6. QED
    BY <2>4, <2>5
<1>8. ASSUME NEW f \in Fetches, Youtube!FetchFails(f) PROVE FreshInv'
  <2>1. Youtube!TypeOK'
    BY <1>0, <1>8 DEF Youtube!FetchFails, Youtube!Goto, Youtube!TypeOK
  <2>2. PagesAgree' /\ CacheAgrees' /\ FetchesAgree'
    BY <1>0, <1>8 DEF Youtube!FetchFails, Youtube!Goto, Youtube!TypeOK, PagesAgree,
       CacheAgrees, FetchesAgree
  <2>3. QED
    BY <2>1, <2>2 DEF FreshInv
<1>9. ASSUME NEW k \in Youtube!Keys, Youtube!Expire(k) PROVE FreshInv'
  <2>1. Youtube!TypeOK'
    BY <1>0, <1>9 DEF Youtube!Expire, Youtube!TypeOK
  <2>2. PagesAgree' /\ CacheAgrees' /\ FetchesAgree'
    BY <1>0, <1>9 DEF Youtube!Expire, Youtube!TypeOK, PagesAgree, CacheAgrees,
       FetchesAgree
  <2>3. QED
    BY <2>1, <2>2 DEF FreshInv
<1>10. CASE UNCHANGED Youtube!vars
  BY <1>0, <1>10 DEF Youtube!vars, Youtube!TypeOK, PagesAgree, CacheAgrees, FetchesAgree,
     Youtube!OlderThan, FreshInv
<1>11. QED
  BY <1>1, <1>2, <1>4, <1>5, <1>6, <1>7, <1>8, <1>9, <1>10, <1>a
     DEF Youtube!Next, Youtube!GetPlaylistVideos, Youtube!SearchCachedPlaylist,
     Youtube!SearchYouTube, Youtube!RefreshPlaylistCache

\* And the invariant says that what is cached is fresh.
LEMMA FreshKept ==
  ASSUME FreshInv
  PROVE  Youtube!FreshAfterRefresh
  BY SizeTyped DEF FreshInv, PagesAgree, CacheAgrees, FetchesAgree,
     Youtube!FreshAfterRefresh, Youtube!Keys

\* Whatever happens, what is cached is whole and fresh.
LEMMA YoutubeCorrect == Youtube!Spec => []FreshInv
<1>1. FreshInv /\ [Youtube!Next]_(Youtube!vars) => FreshInv'
  BY FreshStep
<1>2. QED
  BY <1>1, FreshInit, PTL DEF Youtube!Spec

-----------------------------------------------------------------------------
(***************************************************************************)
(* The whole.                                                              *)
(***************************************************************************)

\* Whatever the whole does is a step of each service, or leaves it alone.
THEOREM EachOnItsOwn ==
  ServicesSpec => /\ Spec /\ Reminders!Spec /\ Push!Spec /\ Inbox!Spec /\ Youtube!Spec
                  /\ Quran!Init /\ [][Quran!Next]_(Quran!vars)
                  /\ RoleSeed!Init /\ [][RoleSeed!Next]_(RoleSeed!vars)
<1>1. ServicesInit => /\ Init /\ Reminders!Init /\ Push!Init /\ Inbox!Init
                      /\ Youtube!Init /\ Quran!Init /\ RoleSeed!Init
  BY DEF ServicesInit
<1>2. [ServicesNext]_servicesVars => [Next]_vars
  BY DEF ServicesNext, servicesVars
<1>3. [ServicesNext]_servicesVars => [Reminders!Next]_(Reminders!vars)
  BY DEF ServicesNext, servicesVars, reminderVars, Reminders!vars
<1>4. [ServicesNext]_servicesVars => [Push!Next]_(Push!vars)
  BY DEF ServicesNext, servicesVars, pushVars, Push!vars, Push!registrations,
     Push!broadcasts
<1>5. [ServicesNext]_servicesVars => [Inbox!Next]_(Inbox!vars)
  BY DEF ServicesNext, servicesVars, inboxVars, Inbox!vars
<1>6. [ServicesNext]_servicesVars => [Youtube!Next]_(Youtube!vars)
  BY DEF ServicesNext, servicesVars, youtubeVars, Youtube!vars
<1>7. [ServicesNext]_servicesVars => [Quran!Next]_(Quran!vars)
  BY DEF ServicesNext, servicesVars, quranVars, Quran!vars
<1>8. [ServicesNext]_servicesVars => [RoleSeed!Next]_(RoleSeed!vars)
  BY DEF ServicesNext, servicesVars, rolesVars, RoleSeed!vars
<1>9. QED
  BY <1>1, <1>2, <1>3, <1>4, <1>5, <1>6, <1>7, <1>8, PTL
     DEF ServicesSpec, Spec, Reminders!Spec, Push!Spec, Inbox!Spec, Youtube!Spec

\* Every interleaving keeps the types of the tables, caches and jobs, and the
\* keys between them: no device outlives its user, no status row its user or
\* its notification, no surah is without its juz.
THEOREM TypesCorrect == ServicesSpec => []TypesOK
<1>1. /\ SettlementInv => TypeOK
      /\ JobInv => Reminders!TypeOK
      /\ PushInv => Push!TypeOK
      /\ ClearedInv => Inbox!TypeOK
      /\ FreshInv => Youtube!TypeOK
      /\ QuranInv => Quran!TypeOK
      /\ RolesInv => RoleSeed!TypeOK
  BY DEF SettlementInv, JobInv, PushInv, ClearedInv, FreshInv, QuranInv, RolesInv
<1>2. /\ TypeOK /\ Reminders!TypeOK /\ Push!TypeOK /\ Inbox!TypeOK
      /\ Youtube!TypeOK /\ Quran!TypeOK /\ RoleSeed!TypeOK
      => TypesOK
  BY DEF TypesOK
<1>3. Push!Spec => []PushInv
  BY PushCorrect, PushAssumption
<1>4. QED
  BY <1>1, <1>2, <1>3, EachOnItsOwn, InvCorrect, RemindersCorrect, InboxCorrect,
     YoutubeCorrect, QuranSeedCorrect, RoleSeedCorrect, PTL

\* initiatePurchase and verifyAndGrantAccess: fee, VAT and net amount of every
\* purchase add up to what was charged, to the cent, whichever way each of
\* them is rounded, and no net amount is negative.
THEOREM PartsOfSales == ServicesSpec => []PartsAddUp
<1>1. SettlementInv => PartsAddUp
  BY DEF SettlementInv
<1>2. QED
  BY <1>1, EachOnItsOwn, InvCorrect, PTL

\* handleDailySettlement: whichever server makes a settlement, and whatever is
\* sold and settled beside, it has every sale of its day but those of the
\* last millisecond, and all that was charged for them.
THEOREM DaysAreWhole == ServicesSpec => []SettledDayIsWhole
<1>1. SettlementInv => SettledDayIsWhole
  BY WholeDays
<1>2. QED
  BY <1>1, EachOnItsOwn, InvCorrect, PTL

\* handleDailySettlement: a day with sales for which a job of any server has
\* ended without a failure is settled.
THEOREM DaysRemembered == ServicesSpec => []NoDayForgotten
<1>1. SettlementInv => NoDayForgotten
  BY DEF SettlementInv
<1>2. QED
  BY <1>1, EachOnItsOwn, InvCorrect, PTL

\* ReportsService: for any number of sales and days the four reports tell the
\* same story, but for half a cent a day in the settlements and a cent a sale
\* in the reconciliation.
THEOREM ReportsTellTheSame == ServicesSpec => []ReportsAgree
<1>1. SettlementInv => ReportsAgree
  BY ReportsRight
<1>2. QED
  BY <1>1, EachOnItsOwn, InvCorrect, PTL

\* RemindersService: whatever crashes and restarts, the cron job is the one
\* that the row asks for, unless updates have overlapped or one has failed.
THEOREM JobFollowsRow == ServicesSpec => []JobMatchesRow
<1>1. JobInv => JobMatchesRow
  BY JobKept DEF JobMatchesRow
<1>2. QED
  BY <1>1, EachOnItsOwn, RemindersCorrect, PTL

\* registerDevice: a token belongs to the user it was last registered for,
\* however registrations overlap with each other and with broadcasts, unless
\* it was deleted in the middle of one.
THEOREM LastUserHasDevice == ServicesSpec => []DeviceOfLastUser
<1>1. PushInv => DeviceOfLastUser
  BY DEF PushInv, OwnersAgree, DeviceOfLastUser, Push!DeviceOfLastUser
<1>2. Push!Spec => []PushInv
  BY PushCorrect, PushAssumption
<1>3. QED
  BY <1>1, <1>2, EachOnItsOwn, PTL

\* sendBroadcastNotification: a broadcast that ends has reached each device it
\* found once, but for those that FCM did not know or whose message failed.
THEOREM NobodyMissed == ServicesSpec => []BroadcastReachesAll
<1>1. PushInv => BroadcastReachesAll
  BY DEF PushInv, CastsAgree, BroadcastReachesAll, Push!BroadcastReachesAll
<1>2. Push!Spec => []PushInv
  BY PushCorrect, PushAssumption
<1>3. QED
  BY <1>1, <1>2, EachOnItsOwn, PTL

\* deleteTokens: no broadcast takes a device from a phone that has the app,
\* whoever has registered it since.
THEOREM LiveDevicesStay == ServicesSpec => OnlyDeadTokensCleaned
<1>1. Push!Spec => Push!OnlyDeadTokensCleaned
  BY LiveTokensStay, PushAssumption
<1>2. QED
  BY <1>1, EachOnItsOwn, PTL DEF OnlyDeadTokensCleaned

\* NotificationsService: what a user was told is cleared is out of the list
\* for good, and nothing else is, however marks, deletions and failures of
\* any number of requests overlap.
THEOREM ClearedIsFinal == ServicesSpec => []ClearedStaysCleared
<1>1. ClearedInv => ClearedStaysCleared
  BY DEF ClearedInv, RowsAgree, ClearedStaysCleared, Inbox!ClearedStaysCleared, Inbox!Visible
<1>2. QED
  BY <1>1, EachOnItsOwn, InboxCorrect, PTL

\* refreshPlaylistCache: lists are cached and served whole, and none older than
\* the last complete refresh, unless it met a fetch that had begun before.
THEOREM CacheIsFresh == ServicesSpec => []FreshAfterRefresh
<1>1. FreshInv => FreshAfterRefresh
  BY FreshKept DEF FreshAfterRefresh
<1>2. QED
  BY <1>1, EachOnItsOwn, YoutubeCorrect, PTL
=============================================================================
