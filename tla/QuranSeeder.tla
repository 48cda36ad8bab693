---------------------------- MODULE QuranSeeder ----------------------------
(***************************************************************************)
(* The Quran structure that every start-up seeds when it finds none        *)
(* (QuranSeederService), with servers that start side by side, statements  *)
(* that fail and crashes.                                                  *)
(***************************************************************************)
EXTENDS Naturals, Sequences

CONSTANTS
  Structure,  \* QURAN_STRUCTURE: a sequence of [id, surahs], in order
  Starters,   \* servers that start on one database
  Faults,     \* bound on failures and crashes
  NoJuz       \* a surah that is not stored

VARIABLES
  juz,        \* the stored juz rows
  juzOf,      \* the juzId of each stored surah row
  phase,      \* what each server does: the seeder runs twice in a start-up
  next,       \* the row it saves next: a juz, and 0 for the juz itself or the
              \* position of one of its surahs
  faults,     \* how many statements have failed and servers crashed
  spoiled     \* history: a fault has happened that the seeder does not repair

vars == <<juz, juzOf, phase, next, faults, spoiled>>

Juzs       == 1..Len(Structure)
Surahs(k)  == Structure[k].surahs
Ids(k, n)  == {Surahs(k)[i] : i \in 1..n}
SurahsOf(k) == Ids(k, Len(Surahs(k)))

JuzIds   == {Structure[k].id : k \in Juzs}
SurahIds == UNION {SurahsOf(k) : k \in Juzs}

\* createdSurahs before the i-th surah of juz k is looked at.
CreatedSurahs(k, i) == UNION {SurahsOf(j) : j \in 1..(k - 1)} \cup Ids(k, i - 1)

\* Mutant: a surah that has been created ends the juz.
ToCreateUntilKnown(k, n) ==
  {i \in (n + 1)..Len(Surahs(k)) :
     \A h \in (n + 1)..i : Surahs(k)[h] \notin CreatedSurahs(k, h)}

\* The surahs of juz k after the n-th that are still to be created.
ToCreate(k, n) ==
  {i \in (n + 1)..Len(Surahs(k)) : Surahs(k)[i] \notin CreatedSurahs(k, i)}

Positions == [juz : 1..(Len(Structure) + 1), surah : Nat]
First     == [juz |-> 1, surah |-> 0]

RowAt(at) ==
  [juz |-> Structure[at.juz].id,
   surah |-> IF at.surah = 0 THEN NoJuz ELSE Surahs(at.juz)[at.surah]]

Seeding == {"count1", "select1", "insert1", "count2", "select2", "insert2"}

TypeOK ==
  /\ juz \subseteq JuzIds
  /\ juzOf \in [SurahIds -> JuzIds \cup {NoJuz}]
  /\ phase \in [Starters -> Seeding \cup {"down", "up"}]
  /\ next \in [Starters -> Positions]
  /\ faults \in 0..Faults
  /\ spoiled \in BOOLEAN
  /\ \A s \in SurahIds : juzOf[s] # NoJuz => juzOf[s] \in juz

Init ==
  /\ juz = {}
  /\ juzOf = [s \in SurahIds |-> NoJuz]
  /\ phase = [s \in Starters |-> "down"]
  /\ next = [s \in Starters |-> First]
  /\ faults = 0
  /\ spoiled = FALSE

-----------------------------------------------------------------------------
Enter(s, p) == phase' = [phase EXCEPT ![s] = p]

\* bootstrap calls the seeder; listen calls it again as onModuleInit.
Boot(s) ==
  /\ phase[s] = "down"
  /\ Enter(s, "count1")
  /\ UNCHANGED <<juz, juzOf, next, faults, spoiled>>

After(p) == IF p \in {"count1", "select1", "insert1"} THEN "count2" ELSE "up"
Select(p) == IF p \in {"count1", "insert1"} THEN "select1" ELSE "select2"

\* Not one juz: seed.  Any juz at all: skip.
CountJuz(s) ==
  /\ phase[s] \in {"count1", "count2"}
  /\ IF juz # {}
       THEN Enter(s, After(phase[s])) /\ UNCHANGED next
       ELSE Enter(s, Select(phase[s])) /\ next' = [next EXCEPT ![s] = First]
  /\ UNCHANGED <<juz, juzOf, faults, spoiled>>

Stored(row) == IF row.surah = NoJuz THEN row.juz \in juz ELSE juzOf[row.surah] # NoJuz

Put(row) == IF row.surah = NoJuz THEN juzOf ELSE [juzOf EXCEPT ![row.surah] = row.juz]

\* The loops over the juz and over the surahs of each go on.
Advance(s) ==
  LET k == next[s].juz
      rest == ToCreate(k, next[s].surah)
  IN  \/ rest = {} /\ next' = [next EXCEPT ![s] = [juz |-> k + 1, surah |-> 0]]
      \/ \E i \in rest :
           /\ \A h \in rest : i <= h
           /\ next' = [next EXCEPT ![s] = [juz |-> k, surah |-> i]]

\* save(): a SELECT by the id.  A surah that is there goes to the juz it is
\* saved with.
SelectRow(s) ==
  /\ phase[s] \in {"select1", "select2"}
  /\ IF next[s].juz \notin Juzs THEN Enter(s, After(phase[s])) /\ UNCHANGED <<juzOf, next>>
     ELSE LET row == RowAt(next[s])
          IN  IF Stored(row)
                THEN /\ Advance(s)
                     /\ juzOf' = Put(row)
                     /\ UNCHANGED phase
                ELSE /\ Enter(s, IF phase[s] = "select1" THEN "insert1" ELSE "insert2")
                     /\ UNCHANGED <<juzOf, next>>
  /\ UNCHANGED <<juz, faults, spoiled>>

\* and an INSERT, which the primary key refuses when another server has been
\* faster; that is caught, and ends the seeding of this server.
InsertRow(s) ==
  /\ phase[s] \in {"insert1", "insert2"}
  /\ LET row == RowAt(next[s])
     IN  IF Stored(row) THEN Enter(s, After(phase[s])) /\ UNCHANGED <<juz, juzOf, next>>
         ELSE /\ juz' = juz \cup {row.juz}
              /\ juzOf' = Put(row)
              /\ Advance(s)
              /\ Enter(s, Select(phase[s]))
  /\ UNCHANGED <<faults, spoiled>>

FaultAt(repaired) ==
  /\ faults < Faults
  /\ faults' = faults + 1
  /\ spoiled' = (spoiled \/ ~repaired)
  /\ UNCHANGED <<juz, juzOf, next>>

\* A save fails, which is caught.  The second attempt repairs a failure of
\* the first only if nothing had been stored.
SaveFails(s) ==
  /\ phase[s] \in {"select1", "insert1", "select2", "insert2"}
  /\ Enter(s, After(phase[s]))
  /\ FaultAt(juz = {} /\ phase[s] \in {"select1", "insert1"})

\* The next start-up repairs a crash only if nothing had been stored.
Crash(s) ==
  /\ phase[s] # "down"
  /\ Enter(s, "down")
  /\ FaultAt(juz = {} \/ phase[s] \in {"count1", "count2", "up"})

StartUp(s) == Boot(s) \/ CountJuz(s) \/ SelectRow(s) \/ InsertRow(s)

Next == \E s \in Starters : StartUp(s) \/ SaveFails(s) \/ Crash(s)

\* Each server is started again and goes on by itself.
Fairness == \A s \in Starters : WF_vars(StartUp(s))

Spec == Init /\ [][Next]_vars /\ Fairness

-----------------------------------------------------------------------------
\* Each juz is stored, and each surah belongs to the first juz that has it.
Complete ==
  /\ juz = JuzIds
  /\ \A k \in Juzs : \A i \in 1..Len(Surahs(k)) :
       Surahs(k)[i] \notin CreatedSurahs(k, i) => juzOf[Surahs(k)[i]] = Structure[k].id

\* seedQuranStructure: servers that seed one database at the same time stop
\* each other, but never all of them: the structure becomes complete, unless a
\* failure or a crash has hit a seeding that had stored something.
EventuallySeeded == <>(Complete \/ spoiled)
=============================================================================
