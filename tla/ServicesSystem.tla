--------------------------- MODULE ServicesSystem ---------------------------
(***************************************************************************)
(* The services that share nothing but the process they run in, side by    *)
(* side: a behaviour is one of the seven, and the others stay as they are. *)
(***************************************************************************)
EXTENDS Settlement, Sequences

CONSTANTS
  Updates, Plans, Seeded, Crashes, NoJob,            \* Reminders
  Structure, Starters, Faults, NoJuz,                \* QuranSeeder
  Tokens, Holders, Registrations, Broadcasts,        \* Push
  ChunkSize, Nobody,
  Readers, Items, Marks, NoUser,                     \* Inbox
  Playlists, Queries, Fetches, MaxVersion,           \* YoutubeCache
  Playlist, Missing,
  Permissions, RoleNames, Custom, ReminderIds, Plan, \* RoleSeed
  Requests, Changes, SeedFaults, NoRole

VARIABLES
  part,
  setting, job, server, updStep, updEntity, updChanged, crashes, torn,
  juz, juzOf, phase, next, faults, spoiled,
  holders, owner, live, regStep, regToken, regUser, castStep, toSend, stale, sent, missed,
  recipients, promised, tangled,
  readers, items, used, status, markStep, marker, clears, targets, inserts, answered,
  version, cache, fetchStep, fetchKey, refreshes, pages, began, fresh, mingled,
  stored, granted, accounts, seedPhase, seedNext, asked, reqStep, diff, changes, seedFaults

Reminders == INSTANCE Reminders
Quran     == INSTANCE QuranSeeder
Push      == INSTANCE Push
Inbox     == INSTANCE Inbox
Youtube   == INSTANCE YoutubeCache
RoleSeed  == INSTANCE RoleSeed WITH
               Faults <- SeedFaults, phase <- seedPhase, next <- seedNext,
               faults <- seedFaults

RemindersConstants ==
  NoJob \notin Reminders!Settings /\ Seeded \in Plans /\ Crashes \in Nat

QuranConstants ==
  Structure \in Seq([id : Nat, surahs : Seq(Nat)]) /\ Faults \in Nat /\ NoJuz \notin Nat

YoutubeConstants ==
  Playlists \in Nat \ {0} /\ MaxVersion \in Nat /\ Missing \notin Youtube!Lists

\* Each row of Plan has a name of its kind.
RoleSeedConstants ==
  /\ Len(Plan) \in Nat \ {0}
  /\ \A i \in 1..Len(Plan) :
       /\ Plan[i].kind = "permission" => Plan[i].name \in Permissions
       /\ Plan[i].kind = "reminder" => Plan[i].name \in ReminderIds
       /\ Plan[i].kind = "role" => Plan[i].name \in RoleNames
       /\ Plan[i].permissions \subseteq Permissions
  /\ Custom \in RoleNames /\ \A P \in SUBSET Permissions : P # NoRole
  /\ Changes \in Nat /\ SeedFaults \in Nat

ASSUME RemindersAssumption == RemindersConstants
ASSUME QuranAssumption     == QuranConstants
ASSUME PushAssumption      == Nobody \notin Holders
ASSUME YoutubeAssumption   == YoutubeConstants
ASSUME RoleSeedAssumption  == RoleSeedConstants

reminderVars == <<setting, job, server, updStep, updEntity, updChanged, crashes, torn>>
quranVars    == <<juz, juzOf, phase, next, faults, spoiled>>
pushVars     == <<holders, owner, live, regStep, regToken, regUser, castStep, toSend, stale,
                  sent, missed, recipients, promised, tangled>>
inboxVars    == <<readers, items, used, status, markStep, marker, clears, targets,
                  inserts, answered>>
youtubeVars  == <<version, cache, fetchStep, fetchKey, refreshes, pages, began, fresh,
                  mingled>>
rolesVars    == <<stored, granted, accounts, seedPhase, seedNext, asked, reqStep, diff,
                  changes, seedFaults>>
servicesVars == <<part, vars, reminderVars, quranVars, pushVars, inboxVars, youtubeVars,
                  rolesVars>>

ServicesInit ==
  /\ part \in {"settlement", "reminders", "quran", "push", "inbox", "youtube", "roles"}
  /\ Init
  /\ Reminders!Init
  /\ Quran!Init
  /\ Push!Init
  /\ Inbox!Init
  /\ Youtube!Init
  /\ RoleSeed!Init

ServicesNext ==
  /\ UNCHANGED part
  /\ \/ /\ part = "settlement" /\ Next
        /\ UNCHANGED <<reminderVars, quranVars, pushVars, inboxVars, youtubeVars, rolesVars>>
     \/ /\ part = "reminders" /\ Reminders!Next
        /\ UNCHANGED <<vars, quranVars, pushVars, inboxVars, youtubeVars, rolesVars>>
     \/ /\ part = "quran" /\ Quran!Next
        /\ UNCHANGED <<vars, reminderVars, pushVars, inboxVars, youtubeVars, rolesVars>>
     \/ /\ part = "push" /\ Push!Next
        /\ UNCHANGED <<vars, reminderVars, quranVars, inboxVars, youtubeVars, rolesVars>>
     \/ /\ part = "inbox" /\ Inbox!Next
        /\ UNCHANGED <<vars, reminderVars, quranVars, pushVars, youtubeVars, rolesVars>>
     \/ /\ part = "youtube" /\ Youtube!Next
        /\ UNCHANGED <<vars, reminderVars, quranVars, pushVars, inboxVars, rolesVars>>
     \/ /\ part = "roles" /\ RoleSeed!Next
        /\ UNCHANGED <<vars, reminderVars, quranVars, pushVars, inboxVars, youtubeVars>>

\* Each server is started again and its start-up goes on by itself.
QuranStep(s) ==
  /\ part = "quran" /\ Quran!StartUp(s)
  /\ UNCHANGED <<part, vars, reminderVars, pushVars, inboxVars, youtubeVars, rolesVars>>

RolesStep(s) ==
  /\ part = "roles" /\ RoleSeed!StartUp(s)
  /\ UNCHANGED <<part, vars, reminderVars, quranVars, pushVars, inboxVars, youtubeVars>>

Fairness ==
  \A s \in Starters : WF_servicesVars(QuranStep(s)) /\ WF_servicesVars(RolesStep(s))

ServicesSpec == ServicesInit /\ [][ServicesNext]_servicesVars /\ Fairness

-----------------------------------------------------------------------------
\* The variables of the part that moves have the types it states.
TypesOK ==
  /\ part = "settlement" => TypeOK
  /\ part = "reminders" => Reminders!TypeOK
  /\ part = "quran" => Quran!TypeOK
  /\ part = "push" => Push!TypeOK
  /\ part = "inbox" => Inbox!TypeOK
  /\ part = "youtube" => Youtube!TypeOK
  /\ part = "roles" => RoleSeed!TypeOK

\* update and onModuleInit keep the cron job in step with its row.
JobMatchesRow == Reminders!JobMatchesRow

\* The structure becomes complete.
EventuallySeeded == part = "quran" => Quran!EventuallySeeded

\* Every server gets past the seeding, unless the admin's number is taken.
EveryServerStarts == part = "roles" => RoleSeed!EveryServerStarts

\* registerDevice: a token belongs to the user it was last registered for.
DeviceOfLastUser == Push!DeviceOfLastUser

\* A broadcast misses no device that it found and sends nothing twice.
BroadcastReachesAll == Push!BroadcastReachesAll

\* deleteTokens never takes a device from a phone that has the app.
OnlyDeadTokensCleaned == Push!OnlyDeadTokensCleaned

\* A notification stays cleared for its user, and for no other.
ClearedStaysCleared == Inbox!ClearedStaysCleared

\* No list older than the last refresh stays in the cache.
FreshAfterRefresh == Youtube!FreshAfterRefresh
=============================================================================
