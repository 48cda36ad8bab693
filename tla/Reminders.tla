----------------------------- MODULE Reminders -----------------------------
(***************************************************************************)
(* One weekly reminder: its settings row and the cron job in the memory of *)
(* the server (RemindersService), with start-ups and crashes.              *)
(*                                                                         *)
(* The job keeps the entity it was scheduled with.  update replaces the    *)
(* job first and saves the row after it.                                   *)
(***************************************************************************)
EXTENDS Naturals

CONSTANTS
  Updates,   \* requests that change the settings, each made once
  Plans,     \* what the message and the time may be
  Seeded,    \* the plan the row is seeded with
  Crashes,   \* bound on the crashes
  NoJob      \* no job, or no row

VARIABLES
  setting,    \* the settings row
  job,        \* the entity of the scheduled cron job
  server,     \* how far the start-up has come
  updStep,    \* what a request does next, or how it ended
  updEntity,  \* the entity a request is saving
  updChanged, \* the columns its save() found different
  crashes,    \* how often the server has crashed
  torn        \* history: the last update to begin since the last start-up met
              \* another one, or one has failed after it began

vars == <<setting, job, server, updStep, updEntity, updChanged, crashes, torn>>

Settings == [isEnabled : BOOLEAN, plan : Plans]
Columns  == {"isEnabled", "plan"}
Running  == {"select", "write"}

TypeOK ==
  /\ setting \in Settings \cup {NoJob}
  /\ job \in Settings \cup {NoJob}
  /\ server \in {"down", "seed", "init", "up"}
  /\ updStep \in [Updates -> Running \cup {"idle", "done", "failed"}]
  /\ updEntity \in [Updates -> Settings \cup {NoJob}]
  /\ updChanged \in [Updates -> SUBSET Columns]
  /\ crashes \in 0..Crashes
  /\ torn \in BOOLEAN
  /\ server \in {"init", "up"} => setting # NoJob
  /\ job # NoJob => job.isEnabled /\ server # "down"
  /\ \A u \in Updates : updStep[u] \in Running => updEntity[u] # NoJob

Init ==
  /\ setting = NoJob
  /\ job = NoJob
  /\ server = "down"
  /\ updStep = [u \in Updates |-> "idle"]
  /\ updEntity = [u \in Updates |-> NoJob]
  /\ updChanged = [u \in Updates |-> {}]
  /\ crashes = 0
  /\ torn = FALSE

-----------------------------------------------------------------------------
updates == <<updStep, updEntity, updChanged>>

\* scheduleReminder, if the reminder is enabled.
JobOf(s) == IF s # NoJob /\ s.isEnabled THEN s ELSE NoJob

\* bootstrap seeds the database; listen initialises the modules after it.
Start ==
  /\ server = "down"
  /\ server' = "seed"
  /\ torn' = FALSE
  /\ UNCHANGED <<setting, job, updates, crashes>>

\* The row is created where there is none, disabled.
SeedReminderSettings ==
  /\ server = "seed"
  /\ setting' = IF setting = NoJob THEN [isEnabled |-> FALSE, plan |-> Seeded] ELSE setting
  /\ server' = "init"
  /\ UNCHANGED <<job, updates, crashes, torn>>

\* Mutant: the jobs are scheduled only when somebody changes the settings.
InitializeWithoutJobs ==
  /\ server = "init"
  /\ server' = "up"
  /\ UNCHANGED <<setting, job, updates, crashes, torn>>

OnModuleInit ==
  /\ server = "init"
  /\ job' = JobOf(setting)
  /\ server' = "up"
  /\ UNCHANGED <<setting, updates, crashes, torn>>

\* preload and, in the same turn, updateScheduledReminder: the old job is
\* stopped and a new one scheduled if the merged entity is enabled.  One request
\* may change whether it is enabled, its time and its message.
Update(u) ==
  /\ server = "up"
  /\ updStep[u] = "idle"
  /\ \E e \in Settings :
       /\ updEntity' = [updEntity EXCEPT ![u] = e]
       /\ job' = JobOf(e)
  /\ updStep' = [updStep EXCEPT ![u] = "select"]
  /\ torn' = (\E v \in Updates : updStep[v] \in Running)
  /\ UNCHANGED <<setting, server, updChanged, crashes>>

SelectForSave(u) ==
  /\ updStep[u] = "select"
  /\ updChanged' = [updChanged EXCEPT ![u] = {c \in Columns : setting[c] # updEntity[u][c]}]
  /\ updStep' = [updStep EXCEPT ![u] = IF updChanged'[u] = {} THEN "done" ELSE "write"]
  /\ UNCHANGED <<setting, job, server, updEntity, crashes, torn>>

Save(u) ==
  /\ updStep[u] = "write"
  /\ setting' = [c \in Columns |-> IF c \in updChanged[u] THEN updEntity[u][c] ELSE setting[c]]
  /\ updStep' = [updStep EXCEPT ![u] = "done"]
  /\ UNCHANGED <<job, server, updEntity, updChanged, crashes, torn>>

\* The statement fails, or the row refuses the value (a null is merged, and
\* scheduled, before the column refuses it).
SaveFails(u) ==
  /\ updStep[u] \in Running
  /\ updStep' = [updStep EXCEPT ![u] = "failed"]
  /\ torn' = TRUE
  /\ UNCHANGED <<setting, job, server, updEntity, updChanged, crashes>>

\* Jobs and requests live in the memory of the server.  Among what brings it
\* down is a broadcast of the job itself that fails: nothing awaits it.
Crash ==
  /\ server # "down"
  /\ crashes < Crashes
  /\ crashes' = crashes + 1
  /\ server' = "down"
  /\ job' = NoJob
  /\ updStep' = [u \in Updates |-> IF updStep[u] \in Running THEN "failed" ELSE updStep[u]]
  /\ UNCHANGED <<setting, updEntity, updChanged, torn>>

Next ==
  \/ Start \/ SeedReminderSettings \/ OnModuleInit \/ Crash
  \/ \E u \in Updates : Update(u) \/ SelectForSave(u) \/ Save(u) \/ SaveFails(u)

Spec == Init /\ [][Next]_vars

-----------------------------------------------------------------------------
\* update schedules before it saves.  Still the job is what the row says whenever
\* no update is on its way, unless the last one to begin overlapped with another
\* or one has failed since: the next update that runs alone, or a restart, then
\* puts job and row right again.
JobMatchesRow ==
  server = "up" /\ ~torn /\ (\A u \in Updates : updStep[u] \notin Running)
    => job = JobOf(setting)
=============================================================================
