------------------------------- MODULE Push -------------------------------
(***************************************************************************)
(* The devices registered for push messages (DevicesService) and the       *)
(* broadcasts sent to them (NotificationsService, FirebaseService), await  *)
(* by await.  A published content is announced the same way.               *)
(***************************************************************************)
EXTENDS FiniteSets, Naturals

CONSTANTS
  Tokens,         \* FCM tokens
  Holders,        \* users
  Registrations,  \* requests to register a device, each made once
  Broadcasts,     \* broadcasts, each made once
  ChunkSize,      \* how many tokens one multicast takes (500)
  Nobody

VARIABLES
  holders,    \* the rows of the user table
  owner,      \* the user of the device row of each token
  live,       \* the tokens FCM knows: an app that is removed loses its own
  regStep,    \* what a registration does next, or how it ended
  regToken,   \* its token
  regUser,    \* its user
  castStep,   \* what a broadcast does next, or how it ended
  toSend,     \* the tokens it has yet to send to
  stale,      \* the tokens FCM has told it not to know
  sent,       \* history: how often it has sent to each token
  missed,     \* history: the tokens of chunks whose multicast failed
  recipients, \* history: the devices it found
  promised,   \* history: the user a token was last registered for
  tangled     \* history: tokens whose row was deleted during a registration

vars == <<holders, owner, live, regStep, regToken, regUser, castStep, toSend, stale,
          sent, missed, recipients, promised, tangled>>

registrations == <<regStep, regToken, regUser>>
broadcasts    == <<castStep, toSend, stale, sent, missed, recipients>>

TypeOK ==
  /\ holders \subseteq Holders
  /\ owner \in [Tokens -> Holders \cup {Nobody}]
  /\ live \subseteq Tokens
  /\ regStep \in [Registrations ->
       {"idle", "find", "select", "update", "insert", "done", "error"}]
  /\ regToken \in [Registrations -> Tokens]
  /\ regUser \in [Registrations -> Holders]
  /\ castStep \in [Broadcasts ->
       {"idle", "send", "clean", "record", "done", "nobody", "lost"}]
  /\ {toSend, stale, missed, recipients} \subseteq [Broadcasts -> SUBSET Tokens]
  /\ sent \in [Broadcasts -> [Tokens -> Nat]]
  /\ promised \in [Tokens -> Holders \cup {Nobody}]
  /\ tangled \subseteq Tokens
  /\ \A t \in Tokens : owner[t] # Nobody => owner[t] \in holders
  /\ \A b \in Broadcasts : toSend[b] # {} => castStep[b] \in {"send", "lost"}

Init ==
  /\ holders = Holders
  /\ owner \in [Tokens -> Holders \cup {Nobody}]
  /\ live = Tokens
  /\ regStep = [r \in Registrations |-> "idle"]
  /\ regToken \in [Registrations -> Tokens]
  /\ regUser \in [Registrations -> Holders]
  /\ castStep = [b \in Broadcasts |-> "idle"]
  /\ toSend = [b \in Broadcasts |-> {}]
  /\ stale = [b \in Broadcasts |-> {}]
  /\ sent = [b \in Broadcasts |-> [t \in Tokens |-> 0]]
  /\ missed = [b \in Broadcasts |-> {}]
  /\ recipients = [b \in Broadcasts |-> {}]
  /\ promised = owner
  /\ tangled = {}

-----------------------------------------------------------------------------
Registering(t) ==
  {r \in Registrations : regToken[r] = t /\ regStep[r] \in {"find", "select", "update", "insert"}}

Goto(r, s) == regStep' = [regStep EXCEPT ![r] = s]

\* The app registers its token for the user who has logged in on it.
RegisterDevice(r) ==
  /\ regStep[r] = "idle"
  /\ regUser[r] \in holders
  /\ Goto(r, "find")
  /\ UNCHANGED <<holders, owner, live, regToken, regUser, broadcasts, promised, tangled>>

FindDevice(r) ==
  /\ regStep[r] = "find"
  /\ Goto(r, IF owner[regToken[r]] = Nobody THEN "insert" ELSE "select")
  /\ UNCHANGED <<holders, owner, live, regToken, regUser, broadcasts, promised, tangled>>

\* The SELECT of save(): a row that is gone will be inserted again.
SelectDevice(r) ==
  /\ regStep[r] = "select"
  /\ Goto(r, CASE owner[regToken[r]] = Nobody     -> "insert"
               [] owner[regToken[r]] = regUser[r] -> "done"
               [] OTHER                           -> "update")
  /\ UNCHANGED <<holders, owner, live, regToken, regUser, broadcasts, tangled>>
  /\ promised' = IF owner[regToken[r]] = regUser[r]
                   THEN [promised EXCEPT ![regToken[r]] = regUser[r]] ELSE promised

Registered(r) ==
  /\ Goto(r, "done")
  /\ promised' = [promised EXCEPT ![regToken[r]] = regUser[r]]

\* Mutant: a token that is there stays with its user.
KeepOwner(r) ==
  /\ regStep[r] = "update"
  /\ Registered(r)
  /\ UNCHANGED <<holders, owner, live, regToken, regUser, broadcasts, tangled>>

\* The UPDATE touches nothing when the row is gone; it fails for a user who is.
MoveDevice(r) ==
  /\ regStep[r] = "update"
  /\ IF owner[regToken[r]] # Nobody /\ regUser[r] \notin holders
       THEN Goto(r, "error") /\ UNCHANGED <<owner, promised>>
       ELSE /\ owner' = IF owner[regToken[r]] = Nobody THEN owner
                        ELSE [owner EXCEPT ![regToken[r]] = regUser[r]]
            /\ Registered(r)
  /\ UNCHANGED <<holders, live, regToken, regUser, broadcasts, tangled>>

\* fcmToken is unique.
InsertDevice(r) ==
  /\ regStep[r] = "insert"
  /\ IF owner[regToken[r]] # Nobody \/ regUser[r] \notin holders
       THEN Goto(r, "error") /\ UNCHANGED <<owner, promised>>
       ELSE owner' = [owner EXCEPT ![regToken[r]] = regUser[r]] /\ Registered(r)
  /\ UNCHANGED <<holders, live, regToken, regUser, broadcasts, tangled>>

\* Rows disappear; a registration that is under way may or may not see it.
Forget(T) ==
  /\ owner' = [t \in Tokens |-> IF t \in T THEN Nobody ELSE owner[t]]
  /\ promised' = [t \in Tokens |-> IF t \in T THEN Nobody ELSE promised[t]]
  /\ tangled' = tangled \cup {t \in T : Registering(t) # {}}

\* One DELETE by the token and its user.
DeleteDevice(t) ==
  /\ owner[t] # Nobody
  /\ Forget({t})
  /\ UNCHANGED <<holders, live, registrations, broadcasts>>

\* The devices of a deleted user are deleted with it.
RemoveUser(u) ==
  /\ u \in holders
  /\ holders' = holders \ {u}
  /\ Forget({t \in Tokens : owner[t] = u})
  /\ UNCHANGED <<live, registrations, broadcasts>>

\* The app is removed from its phone; FCM never knows the token again.
Uninstall(t) ==
  /\ t \in live
  /\ live' = live \ {t}
  /\ UNCHANGED <<holders, owner, registrations, broadcasts, promised, tangled>>

-----------------------------------------------------------------------------
CastTo(b, s) == castStep' = [castStep EXCEPT ![b] = s]

\* findAllTokens: no device, no broadcast.
FindAllTokens(b) ==
  /\ castStep[b] = "idle"
  /\ LET T == {t \in Tokens : owner[t] # Nobody}
     IN  /\ toSend' = [toSend EXCEPT ![b] = T]
         /\ recipients' = [recipients EXCEPT ![b] = T]
         /\ CastTo(b, IF T = {} THEN "nobody" ELSE "send")
  /\ UNCHANGED <<holders, owner, live, registrations, stale, sent, missed, promised, tangled>>

\* What is left after the tokens T.
AfterChunk(b, T) ==
  /\ toSend' = [toSend EXCEPT ![b] = @ \ T]
  /\ CastTo(b, IF toSend[b] # T THEN "send" ELSE IF stale'[b] # {} THEN "clean" ELSE "record")

Chunks(b) ==
  {T \in SUBSET toSend[b] :
     Cardinality(T) = IF Cardinality(toSend[b]) < ChunkSize THEN Cardinality(toSend[b])
                      ELSE ChunkSize}

\* Mutant: every token that was not sent to counts as stale.
StaleOrFailed(T, failed) == (T \ live) \cup failed

\* FCM answers for each token; only those it does not know are stale.
StaleOf(T, failed) == T \ live

\* sendMulticastNotification: tokens that fail for another reason are logged.
SendMulticast(b) ==
  /\ castStep[b] = "send"
  /\ \E T \in Chunks(b) : \E failed \in SUBSET (T \cap live) :
       /\ stale' = [stale EXCEPT ![b] = @ \cup StaleOf(T, failed)]
       /\ sent' = [sent EXCEPT ![b] = [t \in Tokens |->
                     IF t \in (T \cap live) \ failed THEN @[t] + 1 ELSE @[t]]]
       /\ missed' = [missed EXCEPT ![b] = @ \cup failed]
       /\ AfterChunk(b, T)
  /\ UNCHANGED <<holders, owner, live, registrations, recipients, promised, tangled>>

\* Mutant: a chunk whose multicast fails ends the broadcast.
MulticastEnds(b) ==
  /\ castStep[b] = "send"
  /\ \E T \in Chunks(b) : missed' = [missed EXCEPT ![b] = @ \cup T]
  /\ toSend' = [toSend EXCEPT ![b] = {}]
  /\ CastTo(b, "record")
  /\ UNCHANGED <<holders, owner, live, registrations, stale, sent, recipients, promised, tangled>>

\* The multicast as a whole fails, which is caught: on to the next chunk.
MulticastFails(b) ==
  /\ castStep[b] = "send"
  /\ UNCHANGED <<stale, holders, owner, live, registrations, sent, recipients, promised, tangled>>
  /\ \E T \in Chunks(b) : missed' = [missed EXCEPT ![b] = @ \cup T] /\ AfterChunk(b, T)

\* deleteTokens: one DELETE by token, whoever has it by now.
DeleteTokens(b) ==
  /\ castStep[b] = "clean"
  /\ Forget(stale[b])
  /\ CastTo(b, "record")
  /\ UNCHANGED <<holders, live, registrations, toSend, stale, sent, missed, recipients>>

\* The history row is saved last.
RecordNotification(b) ==
  /\ castStep[b] = "record"
  /\ CastTo(b, "done")
  /\ UNCHANGED <<holders, owner, live, registrations, toSend, stale, sent, missed,
                 recipients, promised, tangled>>

\* A statement of an announcement fails, which notifyContentPublished catches.
AnnouncementFails(b) ==
  /\ castStep[b] \in {"send", "clean", "record"}
  /\ CastTo(b, "lost")
  /\ UNCHANGED <<holders, owner, live, registrations, toSend, stale, sent, missed,
                 recipients, promised, tangled>>

\* A statement of a broadcast fails.  Nothing awaits a broadcast, so that the
\* process goes down, and with it every request and broadcast under way.
Crash ==
  /\ \E b \in Broadcasts : castStep[b] \in {"send", "clean", "record"}
  /\ castStep' = [b \in Broadcasts |->
       IF castStep[b] \in {"send", "clean", "record"} THEN "lost" ELSE castStep[b]]
  /\ regStep' = [r \in Registrations |->
       IF \E t \in Tokens : r \in Registering(t) THEN "error" ELSE regStep[r]]
  /\ UNCHANGED <<holders, owner, live, regToken, regUser, toSend, stale, sent, missed,
                 recipients, promised, tangled>>

Next ==
  \/ \E r \in Registrations : \/ RegisterDevice(r) \/ FindDevice(r) \/ SelectDevice(r)
                              \/ MoveDevice(r) \/ InsertDevice(r)
  \/ \E t \in Tokens : DeleteDevice(t) \/ Uninstall(t)
  \/ \E u \in Holders : RemoveUser(u)
  \/ \E b \in Broadcasts : \/ FindAllTokens(b) \/ SendMulticast(b) \/ MulticastFails(b)
                           \/ DeleteTokens(b) \/ RecordNotification(b) \/ AnnouncementFails(b)
  \/ Crash

Spec == Init /\ [][Next]_vars

-----------------------------------------------------------------------------
\* The broadcast that the history shows has reached every device it found, once,
\* but for those FCM did not know or whose message failed.
BroadcastReachesAll ==
  \A b \in Broadcasts :
    /\ \A t \in Tokens : sent[b][t] <= 1
    /\ castStep[b] = "done" =>
         \A t \in recipients[b] : sent[b][t] = 1 \/ t \in stale[b] \cup missed[b]

\* deleteTokens comes long after the answers of FCM and asks for no user, and
\* yet no broadcast takes a device from a phone that still has the app,
\* whoever has registered it since.
OnlyDeadTokensCleaned ==
  [][\A t \in live : \A b \in Broadcasts :
       castStep[b] = "clean" /\ castStep'[b] = "record" => owner'[t] = owner[t]]_vars

\* registerDevice: the messages of a token go to the user it was last
\* registered for, however registrations overlap, and to nobody once the
\* device is deleted, unless it was deleted in the middle of a registration.
DeviceOfLastUser ==
  \A t \in Tokens \ tangled : owner[t] = promised[t]
=============================================================================
