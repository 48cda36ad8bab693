----------------------------- MODULE SeedProofs -----------------------------
(***************************************************************************)
(* What the theorems about ServicesSystem need of its two seeders, for any *)
(* structure and plan, any servers that start side by side, and any number *)
(* of failures and crashes.                                                *)
(***************************************************************************)
EXTENDS ServicesSystem, TLAPS

-----------------------------------------------------------------------------
\* The Quran structure.

\* A server that is about to save a surah has saved its juz, and one about to
\* insert a row has not come to the end.
PositionsAgree ==
  \A s \in Starters :
    /\ next[s].juz \in Quran!Juzs => next[s].surah \in 0..Len(Quran!Surahs(next[s].juz))
    /\ next[s].juz \in Quran!Juzs /\ next[s].surah # 0 => Structure[next[s].juz].id \in juz
    /\ phase[s] \in {"insert1", "insert2"} => next[s].juz \in Quran!Juzs

QuranInv == Quran!TypeOK /\ PositionsAgree

\* The structure: what it has of a juz and of a surah.
LEMMA StructureTyped ==
         /\ Len(Structure) \in Nat
         /\ \A k \in Quran!Juzs :
              /\ k \in Nat \ {0}
              /\ Structure[k].id \in Quran!JuzIds \cap Nat
              /\ Quran!Surahs(k) \in Seq(Nat)
              /\ \A i \in 1..Len(Quran!Surahs(k)) :
                   Quran!Surahs(k)[i] \in Quran!SurahIds \cap Nat
<1> DEFINE Rows == [id : Nat, surahs : Seq(Nat)]
<1>0. Structure \in Seq(Rows)
  BY QuranAssumption DEF QuranConstants
<1>1. Len(Structure) \in Nat
      /\ \A k \in Quran!Juzs : Structure[k] \in [id : Nat, surahs : Seq(Nat)]
  <2> HIDE DEF Rows
  <2>1. Len(Structure) \in Nat /\ \A k \in Quran!Juzs : Structure[k] \in Rows
    BY <1>0 DEF Quran!Juzs
  <2>2. QED
    BY <2>1 DEF Rows
<1>2. ASSUME NEW k \in Quran!Juzs
      PROVE  /\ k \in Nat \ {0}
             /\ Structure[k].id \in Quran!JuzIds \cap Nat
             /\ Quran!Surahs(k) \in Seq(Nat)
             /\ \A i \in 1..Len(Quran!Surahs(k)) :
                  Quran!Surahs(k)[i] \in Quran!SurahIds \cap Nat
  <2>1. k \in Nat \ {0}
    BY <1>1 DEF Quran!Juzs
  <2>2. Structure[k].id \in Quran!JuzIds \cap Nat /\ Quran!Surahs(k) \in Seq(Nat)
    BY <1>1 DEF Quran!JuzIds, Quran!Surahs
  <2>3. ASSUME NEW i \in 1..Len(Quran!Surahs(k))
        PROVE  Quran!Surahs(k)[i] \in Quran!SurahIds \cap Nat
    <3>1. Quran!Surahs(k)[i] \in Nat
      BY <2>2
    <3>2. Quran!Surahs(k)[i] \in Quran!SurahsOf(k)
      BY DEF Quran!SurahsOf, Quran!Ids
    <3>3. Quran!Surahs(k)[i] \in Quran!SurahIds
      BY <3>2 DEF Quran!SurahIds
    <3>4. QED
      BY <3>1, <3>3
  <2>4. QED
    BY <2>1, <2>2, <2>3
<1>3. QED
  BY <1>1, <1>2

\* A row that is stored, or about to be, is of the structure.
LEMMA QuranRowTyped ==
  ASSUME NEW at \in Quran!Positions, at.juz \in Quran!Juzs,
         at.surah \in 0..Len(Quran!Surahs(at.juz))
  PROVE  /\ Quran!RowAt(at).juz \in Quran!JuzIds /\ Quran!RowAt(at).juz # NoJuz
         /\ Quran!RowAt(at).juz = Structure[at.juz].id
         /\ at.surah = 0 => Quran!RowAt(at).surah = NoJuz
         /\ at.surah # 0 => Quran!RowAt(at).surah \in Quran!SurahIds
            /\ Quran!RowAt(at).surah # NoJuz
<1>1. Quran!RowAt(at).juz = Structure[at.juz].id
      /\ Structure[at.juz].id \in Quran!JuzIds \cap Nat
  BY StructureTyped DEF Quran!RowAt
<1>2. at.surah = 0 => Quran!RowAt(at).surah = NoJuz
  BY DEF Quran!RowAt
<1>3. ASSUME at.surah # 0 PROVE Quran!RowAt(at).surah \in Quran!SurahIds \cap Nat
  <2>1. at.surah \in 1..Len(Quran!Surahs(at.juz))
    BY <1>3, StructureTyped
  <2>2. QED
    BY <1>3, <2>1, StructureTyped DEF Quran!RowAt
<1>4. QED
  BY <1>1, <1>2, <1>3, QuranAssumption DEF QuranConstants

\* At first every server is down.
LEMMA QuranInit ==
  ASSUME Quran!Init
  PROVE  QuranInv
<1>1. Quran!First \in Quran!Positions /\ 0 \in 0..Faults
  BY QuranAssumption DEF Quran!First, Quran!Positions, QuranConstants
<1>2. Quran!TypeOK
  BY <1>1 DEF Quran!Init, Quran!TypeOK, Quran!Seeding
<1>3. \A k \in Quran!Juzs : 0 \in 0..Len(Quran!Surahs(k))
  BY StructureTyped
<1>4. PositionsAgree
  BY <1>3 DEF Quran!Init, PositionsAgree, Quran!First
<1>5. QED
  BY <1>2, <1>4 DEF QuranInv

\* The next row is one, and the juz of a surah is the one before it.
LEMMA QuranAdvances ==
  ASSUME Quran!TypeOK, NEW s \in Starters, Quran!Advance(s), next[s].juz \in Quran!Juzs
  PROVE  \E at \in Quran!Positions :
           /\ next' = [next EXCEPT ![s] = at]
           /\ at.juz \in Quran!Juzs => at.surah \in 0..Len(Quran!Surahs(at.juz))
           /\ at.surah # 0 => at.juz = next[s].juz
<1> DEFINE k == next[s].juz
<1>1. next[s] \in Quran!Positions /\ k \in Nat /\ k + 1 \in 1..(Len(Structure) + 1)
      /\ next[s].surah \in Nat
  BY StructureTyped DEF Quran!TypeOK, Quran!Positions, Quran!Juzs
<1>2. CASE next' = [next EXCEPT ![s] = [juz |-> k + 1, surah |-> 0]]
  <2> DEFINE at == [juz |-> k + 1, surah |-> 0]
  <2>1. at \in Quran!Positions /\ at.surah = 0
    BY <1>1 DEF Quran!Positions
  <2>2. at.juz \in Quran!Juzs => at.surah \in 0..Len(Quran!Surahs(at.juz))
    BY StructureTyped
  <2> HIDE DEF at
  <2>3. QED
    BY <1>2, <2>1, <2>2 DEF at
<1>3. ASSUME NEW i \in Quran!ToCreate(k, next[s].surah),
             next' = [next EXCEPT ![s] = [juz |-> k, surah |-> i]]
      PROVE  \E at \in Quran!Positions :
               /\ next' = [next EXCEPT ![s] = at]
               /\ at.juz \in Quran!Juzs => at.surah \in 0..Len(Quran!Surahs(at.juz))
               /\ at.surah # 0 => at.juz = next[s].juz
  <2> DEFINE at == [juz |-> k, surah |-> i]
  <2>1. i \in 0..Len(Quran!Surahs(k)) /\ i \in Nat
    BY <1>1, StructureTyped DEF Quran!ToCreate
  <2>2. at \in Quran!Positions /\ at.juz = k /\ at.surah = i
    BY <1>1, <2>1 DEF Quran!Positions
  <2> HIDE DEF at, k
  <2>3. QED
    BY <1>3, <2>1, <2>2 DEF at, k
<1>4. QED
  BY <1>2, <1>3 DEF Quran!Advance

\* A step of a server that moves it to a row, or leaves it where it is.
LEMMA QuranServerMoves ==
  ASSUME QuranInv, NEW s \in Starters, NEW p \in Quran!Seeding \cup {"down", "up"},
         phase' = [phase EXCEPT ![s] = p],
         NEW at \in Quran!Positions, next' = [next EXCEPT ![s] = at],
         juz \subseteq juz',
         at.juz \in Quran!Juzs => at.surah \in 0..Len(Quran!Surahs(at.juz)),
         at.juz \in Quran!Juzs /\ at.surah # 0 => Structure[at.juz].id \in juz',
         p \in {"insert1", "insert2"} => at.juz \in Quran!Juzs
  PROVE  /\ phase' \in [Starters -> Quran!Seeding \cup {"down", "up"}]
         /\ next' \in [Starters -> Quran!Positions]
         /\ PositionsAgree'
<1>1. phase' \in [Starters -> Quran!Seeding \cup {"down", "up"}]
      /\ next' \in [Starters -> Quran!Positions]
  BY DEF QuranInv, Quran!TypeOK
<1>2. ASSUME NEW r \in Starters
      PROVE  /\ next'[r].juz \in Quran!Juzs
                  => next'[r].surah \in 0..Len(Quran!Surahs(next'[r].juz))
             /\ next'[r].juz \in Quran!Juzs /\ next'[r].surah # 0
                  => Structure[next'[r].juz].id \in juz'
             /\ phase'[r] \in {"insert1", "insert2"} => next'[r].juz \in Quran!Juzs
  <2>1. CASE r = s
    BY <2>1 DEF QuranInv, Quran!TypeOK
  <2>2. CASE r # s
    BY <2>2 DEF QuranInv, Quran!TypeOK, PositionsAgree
  <2>3. QED
    BY <2>1, <2>2
<1>3. PositionsAgree'
  BY <1>2 DEF PositionsAgree
<1>4. QED
  BY <1>1, <1>3

\* Every step keeps the invariant.
LEMMA QuranStepKeeps ==
  ASSUME QuranInv, [Quran!Next]_(Quran!vars)
  PROVE  QuranInv'
<1>0. Quran!TypeOK /\ PositionsAgree
  BY DEF QuranInv
<1>a. \A s \in Starters : phase[s] \in Quran!Seeding \cup {"down", "up"}
      /\ next[s] \in Quran!Positions
  BY <1>0 DEF Quran!TypeOK
<1>b. /\ Quran!First \in Quran!Positions /\ Quran!First.surah = 0
      /\ Quran!First.juz \in Quran!Juzs
           => Quran!First.surah \in 0..Len(Quran!Surahs(Quran!First.juz))
  BY StructureTyped, QuranAssumption DEF Quran!First, Quran!Positions, QuranConstants
<1>c. \A p \in Quran!Seeding \cup {"down", "up"} :
        Quran!After(p) \in Quran!Seeding \cup {"down", "up"}
        /\ Quran!After(p) \notin {"insert1", "insert2"}
        /\ Quran!Select(p) \in Quran!Seeding
           /\ Quran!Select(p) \notin {"insert1", "insert2"}
  BY DEF Quran!After, Quran!Select, Quran!Seeding
\* A step that leaves the rows and the position alone.
<1>1. ASSUME NEW s \in Starters, NEW p \in Quran!Seeding \cup {"down", "up"},
             Quran!Enter(s, p),
             UNCHANGED <<juz, juzOf, next>>,
             p \in {"insert1", "insert2"} => next[s].juz \in Quran!Juzs,
             faults' \in 0..Faults, spoiled' \in BOOLEAN
      PROVE  QuranInv'
  <2> PICK at \in Quran!Positions : at = next[s]
    BY <1>a
  <2>1. next' = [next EXCEPT ![s] = at]
    BY <1>0, <1>1 DEF Quran!TypeOK
  <2>2. /\ at.juz \in Quran!Juzs => at.surah \in 0..Len(Quran!Surahs(at.juz))
        /\ at.juz \in Quran!Juzs /\ at.surah # 0 => Structure[at.juz].id \in juz'
    BY <1>0, <1>1 DEF PositionsAgree
  <2>3. /\ phase' \in [Starters -> Quran!Seeding \cup {"down", "up"}]
        /\ next' \in [Starters -> Quran!Positions]
        /\ PositionsAgree'
    BY <1>1, <2>1, <2>2, QuranServerMoves DEF Quran!Enter
  <2>4. Quran!TypeOK'
    BY <1>0, <1>1, <2>3 DEF Quran!TypeOK
  <2>5. QED
    BY <2>3, <2>4 DEF QuranInv
<1>2. ASSUME NEW s \in Starters, Quran!Boot(s) PROVE QuranInv'
  BY <1>0, <1>1, <1>2 DEF Quran!Boot, Quran!TypeOK, Quran!Seeding
<1>3. ASSUME NEW s \in Starters, Quran!CountJuz(s) PROVE QuranInv'
  <2>1. CASE juz # {}
    BY <1>0, <1>1, <1>3, <1>a, <1>c, <2>1 DEF Quran!CountJuz, Quran!TypeOK
  <2>2. CASE juz = {}
    <3>1. Quran!Enter(s, Quran!Select(phase[s])) /\ next' = [next EXCEPT ![s] = Quran!First]
          /\ UNCHANGED <<juz, juzOf, faults, spoiled>>
      BY <1>3, <2>2 DEF Quran!CountJuz
    <3>2. /\ phase' \in [Starters -> Quran!Seeding \cup {"down", "up"}]
          /\ next' \in [Starters -> Quran!Positions]
          /\ PositionsAgree'
      BY <1>a, <1>b, <1>c, <3>1, QuranServerMoves DEF Quran!Enter
    <3>3. Quran!TypeOK'
      BY <1>0, <3>1, <3>2 DEF Quran!TypeOK
    <3>4. QED
      BY <3>2, <3>3 DEF QuranInv
  <2>3. QED
    BY <2>1, <2>2
\* What a row that is saved does to the tables.
<1>4. ASSUME NEW s \in Starters, next[s].juz \in Quran!Juzs,
             juz' = juz \/ juz' = juz \cup {Quran!RowAt(next[s]).juz},
             Quran!Stored(Quran!RowAt(next[s]))
             \/ juz' = juz \cup {Quran!RowAt(next[s]).juz},
             juzOf' = Quran!Put(Quran!RowAt(next[s]))
      PROVE  /\ juz' \subseteq Quran!JuzIds
             /\ juzOf' \in [Quran!SurahIds -> Quran!JuzIds \cup {NoJuz}]
             /\ \A q \in Quran!SurahIds : juzOf'[q] # NoJuz => juzOf'[q] \in juz'
             /\ Structure[next[s].juz].id \in juz'
  <2> DEFINE at == next[s]
             row == Quran!RowAt(at)
  <2>1. at \in Quran!Positions /\ at.juz \in Quran!Juzs
        /\ at.surah \in 0..Len(Quran!Surahs(at.juz))
    BY <1>0, <1>4, <1>a DEF PositionsAgree
  <2>2. /\ row.juz \in Quran!JuzIds /\ row.juz # NoJuz
        /\ row.juz = Structure[at.juz].id
        /\ at.surah = 0 => row.surah = NoJuz
        /\ at.surah # 0 => row.surah \in Quran!SurahIds /\ row.surah # NoJuz
    BY <2>1, QuranRowTyped
  <2>3. at.surah # 0 => row.juz \in juz
    BY <1>0, <2>1, <2>2 DEF PositionsAgree
  <2> HIDE DEF at, row
  <2>4. juz' \subseteq Quran!JuzIds /\ juz \subseteq juz'
    BY <1>0, <1>4, <2>2 DEF Quran!TypeOK, at, row
  <2>5. row.juz \in juz'
    BY <1>4, <2>2, <2>3, <2>4 DEF Quran!Stored, at, row
  <2>6. juzOf' \in [Quran!SurahIds -> Quran!JuzIds \cup {NoJuz}]
    BY <1>0, <1>4, <2>2 DEF Quran!TypeOK, Quran!Put, at, row
  <2>7. \A q \in Quran!SurahIds : juzOf'[q] # NoJuz => juzOf'[q] \in juz'
    BY <1>0, <1>4, <2>2, <2>4, <2>5 DEF Quran!TypeOK, Quran!Put, at, row
  <2>8. QED
    BY <2>2, <2>4, <2>5, <2>6, <2>7 DEF at, row
\* A row is saved, and the seeding goes on.
<1>5. ASSUME NEW s \in Starters, NEW p \in Quran!Seeding, p \notin {"insert1", "insert2"},
             phase' = [phase EXCEPT ![s] = p],
             next[s].juz \in Quran!Juzs, Quran!Advance(s),
             juz' = juz \/ juz' = juz \cup {Quran!RowAt(next[s]).juz},
             Quran!Stored(Quran!RowAt(next[s]))
             \/ juz' = juz \cup {Quran!RowAt(next[s]).juz},
             juzOf' = Quran!Put(Quran!RowAt(next[s])),
             UNCHANGED <<faults, spoiled>>
      PROVE  QuranInv'
  <2>1. PICK at \in Quran!Positions :
          /\ next' = [next EXCEPT ![s] = at]
          /\ at.juz \in Quran!Juzs => at.surah \in 0..Len(Quran!Surahs(at.juz))
          /\ at.surah # 0 => at.juz = next[s].juz
    BY <1>0, <1>5, QuranAdvances
  <2>2. /\ juz' \subseteq Quran!JuzIds
        /\ juzOf' \in [Quran!SurahIds -> Quran!JuzIds \cup {NoJuz}]
        /\ \A q \in Quran!SurahIds : juzOf'[q] # NoJuz => juzOf'[q] \in juz'
        /\ Structure[next[s].juz].id \in juz'
    BY <1>4, <1>5
  <2>3. juz \subseteq juz'
    BY <1>5
  <2>4. /\ phase' \in [Starters -> Quran!Seeding \cup {"down", "up"}]
        /\ next' \in [Starters -> Quran!Positions]
        /\ PositionsAgree'
    BY <1>5, <2>1, <2>2, <2>3, QuranServerMoves
  <2>5. Quran!TypeOK'
    BY <1>0, <1>5, <2>2, <2>4 DEF Quran!TypeOK
  <2>6. QED
    BY <2>4, <2>5 DEF QuranInv
<1>6. ASSUME NEW s \in Starters, Quran!SelectRow(s) PROVE QuranInv'
  <2>1. CASE next[s].juz \notin Quran!Juzs
    BY <1>0, <1>1, <1>6, <1>a, <1>c, <2>1 DEF Quran!SelectRow, Quran!TypeOK
  <2>2. CASE next[s].juz \in Quran!Juzs /\ Quran!Stored(Quran!RowAt(next[s]))
    <3>1. Quran!Advance(s) /\ juzOf' = Quran!Put(Quran!RowAt(next[s]))
          /\ UNCHANGED <<phase, juz, faults, spoiled>>
      BY <1>6, <2>2 DEF Quran!SelectRow
    <3> PICK p : p = phase[s]
      OBVIOUS
    <3>2. p \in Quran!Seeding /\ p \notin {"insert1", "insert2"}
          /\ phase' = [phase EXCEPT ![s] = p]
      BY <1>0, <1>6, <3>1 DEF Quran!SelectRow, Quran!Seeding, Quran!TypeOK
    <3>3. QED
      BY <1>5, <2>2, <3>1, <3>2
  <2>3. CASE next[s].juz \in Quran!Juzs /\ ~Quran!Stored(Quran!RowAt(next[s]))
    <3> PICK p \in {"insert1", "insert2"} : Quran!Enter(s, p)
      BY <1>6, <2>3 DEF Quran!SelectRow
    <3>1. p \in Quran!Seeding \cup {"down", "up"}
      BY DEF Quran!Seeding
    <3>2. UNCHANGED <<juz, juzOf, next, faults, spoiled>>
      BY <1>6, <2>3 DEF Quran!SelectRow
    <3>3. QED
      BY <1>0, <1>1, <2>3, <3>1, <3>2 DEF Quran!TypeOK
  <2>4. QED
    BY <2>1, <2>2, <2>3
<1>7. ASSUME NEW s \in Starters, Quran!InsertRow(s) PROVE QuranInv'
  <2>1. next[s].juz \in Quran!Juzs
    BY <1>0, <1>7 DEF PositionsAgree, Quran!InsertRow
  <2>2. CASE Quran!Stored(Quran!RowAt(next[s]))
    BY <1>0, <1>1, <1>7, <1>a, <1>c, <2>2 DEF Quran!InsertRow, Quran!TypeOK
  <2>3. CASE ~Quran!Stored(Quran!RowAt(next[s]))
    <3>1. /\ juz' = juz \cup {Quran!RowAt(next[s]).juz}
             /\ juzOf' = Quran!Put(Quran!RowAt(next[s])) /\ Quran!Advance(s)
          /\ Quran!Enter(s, Quran!Select(phase[s])) /\ UNCHANGED <<faults, spoiled>>
      BY <1>7, <2>3 DEF Quran!InsertRow
    <3> PICK p : p = Quran!Select(phase[s])
      OBVIOUS
    <3>2. p \in Quran!Seeding /\ p \notin {"insert1", "insert2"}
          /\ phase' = [phase EXCEPT ![s] = p]
      BY <1>a, <1>c, <3>1 DEF Quran!Enter
    <3>3. QED
      BY <1>5, <2>1, <3>1, <3>2
  <2>4. QED
    BY <2>2, <2>3
<1>8. ASSUME NEW s \in Starters, Quran!SaveFails(s) \/ Quran!Crash(s) PROVE QuranInv'
  <2>1. UNCHANGED <<juz, juzOf, next>> /\ faults' \in 0..Faults
    BY <1>0, <1>8, QuranAssumption DEF Quran!SaveFails, Quran!Crash, Quran!FaultAt,
       Quran!TypeOK, QuranConstants
  <2>2. spoiled' \in BOOLEAN
    BY <1>0, <1>8 DEF Quran!SaveFails, Quran!Crash, Quran!FaultAt, Quran!TypeOK
  <2>3. PICK p \in Quran!Seeding \cup {"down", "up"} : Quran!Enter(s, p)
             /\ p \notin {"insert1", "insert2"}
    BY <1>8, <1>a, <1>c DEF Quran!SaveFails, Quran!Crash
  <2>4. QED
    BY <1>1, <2>1, <2>2, <2>3
<1>9. CASE UNCHANGED Quran!vars
  BY <1>0, <1>9 DEF Quran!vars, Quran!TypeOK, PositionsAgree, QuranInv
<1>10. QED
  BY <1>2, <1>3, <1>6, <1>7, <1>8, <1>9 DEF Quran!Next, Quran!StartUp

-----------------------------------------------------------------------------
\* Roles, permissions and the admin.

\* Whoever is about to compare or to save the permissions of a role has found
\* it, and roles stay; a request that runs does so on one of the servers.
RolesAgree ==
  /\ \A s \in Starters : seedPhase[s] \in {"select", "write"} =>
       RoleSeed!Row(s).kind = "role" /\ granted[RoleSeed!Row(s).name] # NoRole
  /\ \A r \in Requests : reqStep[r] \in {"assign", "save"}
       => granted[asked[r].role] # NoRole
  /\ \A r \in Requests : reqStep[r] \in RoleSeed!Running => asked[r].server \in Starters

RolesInv == RoleSeed!TypeOK /\ RolesAgree

\* The accounts' part of TypeOK.
Distinct(set) ==
  \A a, b \in set : a # b
    => ~(a.adminEmail /\ b.adminEmail) /\ ~(a.seedPhone /\ b.seedPhone)

\* At first every server is down and nobody has asked for anything.
LEMMA RolesInit ==
  ASSUME RoleSeed!Init
  PROVE  RolesInv
<1>1. seedNext \in [Starters -> 1..Len(Plan)] /\ changes \in 0..Changes
      /\ seedFaults \in 0..SeedFaults
  BY RoleSeedAssumption DEF RoleSeed!Init, RoleSeedConstants
<1>2. diff \in [Starters \cup Requests -> RoleSeed!Differences]
  BY DEF RoleSeed!Init, RoleSeed!Differences, RoleSeed!NoDifference
<1>3. asked \in [Requests -> [server : Starters \cup {NoRole}, role : RoleNames,
                              permissions : SUBSET Permissions]]
  BY RoleSeedAssumption DEF RoleSeed!Init, RoleSeedConstants
<1>4. RoleSeed!TypeOK
  BY <1>1, <1>2, <1>3 DEF RoleSeed!Init, RoleSeed!TypeOK, RoleSeed!Seeding,
     RoleSeed!Running
<1>5. RolesAgree
  BY DEF RoleSeed!Init, RolesAgree, RoleSeed!Running
<1>6. QED
  BY <1>4, <1>5 DEF RolesInv

\* The row that a server seeds.
LEMMA PlanRowTyped ==
  ASSUME RoleSeed!TypeOK, NEW s \in Starters
  PROVE  /\ RoleSeed!Row(s).kind = "permission" => RoleSeed!Row(s).name \in Permissions
         /\ RoleSeed!Row(s).kind = "reminder" => RoleSeed!Row(s).name \in ReminderIds
         /\ RoleSeed!Row(s).kind = "role" => RoleSeed!Row(s).name \in RoleNames
         /\ RoleSeed!Row(s).permissions \subseteq Permissions
  BY RoleSeedAssumption DEF RoleSeed!TypeOK, RoleSeedConstants, RoleSeed!Row

\* What a server does next, when it is not about to write a role.
LEMMA RolesServerGoesOn ==
  ASSUME RolesInv, NEW s \in Starters, seedPhase[s] # "up",
         \/ RoleSeed!RowDone(s)
         \/ RoleSeed!Throw(s)
         \/ RoleSeed!Enter(s, "find") /\ seedNext' = [seedNext EXCEPT ![s] = 1]
         \/ RoleSeed!Enter(s, "insert") /\ UNCHANGED seedNext
         \/ /\ RoleSeed!Enter(s, "select") \/ RoleSeed!Enter(s, "write")
            /\ UNCHANGED seedNext
            /\ RoleSeed!Row(s).kind = "role" /\ granted[RoleSeed!Row(s).name] # NoRole,
         \A n \in RoleNames : granted[n] # NoRole => granted'[n] # NoRole,
         UNCHANGED <<asked, reqStep>>
  PROVE  /\ seedPhase' \in [Starters -> RoleSeed!Seeding \cup {"down", "up"}]
         /\ seedNext' \in [Starters -> 1..Len(Plan)]
         /\ \A r \in Requests : reqStep'[r] \in RoleSeed!Running
              => seedPhase'[asked'[r].server] = "up"
         /\ RolesAgree'
<1>0. RoleSeed!TypeOK /\ RolesAgree
  BY DEF RolesInv
<1>1. seedPhase' \in [Starters -> RoleSeed!Seeding \cup {"down", "up"}]
  BY <1>0 DEF RoleSeed!TypeOK, RoleSeed!RowDone, RoleSeed!Throw, RoleSeed!Enter,
     RoleSeed!Seeding
<1>2. seedNext' \in [Starters -> 1..Len(Plan)]
  <2>1. Len(Plan) \in Nat /\ 1 \in 1..Len(Plan)
    BY RoleSeedAssumption DEF RoleSeedConstants
  <2>2. seedNext[s] \in 1..Len(Plan)
    BY <1>0 DEF RoleSeed!TypeOK
  <2>3. seedNext[s] # Len(Plan) => seedNext[s] + 1 \in 1..Len(Plan)
    BY <2>1, <2>2
  <2>4. QED
    BY <1>0, <2>1, <2>3 DEF RoleSeed!TypeOK, RoleSeed!RowDone, RoleSeed!Throw
<1>3. \A r \in Requests : reqStep'[r] \in RoleSeed!Running
        => seedPhase'[asked'[r].server] = "up"
  <2> SUFFICES ASSUME NEW r \in Requests, reqStep[r] \in RoleSeed!Running
               PROVE  seedPhase'[asked[r].server] = "up"
    OBVIOUS
  <2>1. asked[r].server \in Starters /\ seedPhase[asked[r].server] = "up"
        /\ asked[r].server # s
    BY <1>0 DEF RoleSeed!TypeOK, RolesAgree
  <2>2. \E p : seedPhase' = [seedPhase EXCEPT ![s] = p]
    BY DEF RoleSeed!RowDone, RoleSeed!Throw, RoleSeed!Enter
  <2>3. QED
    BY <1>0, <2>1, <2>2 DEF RoleSeed!TypeOK
<1>4. ASSUME NEW q \in Starters, seedPhase'[q] \in {"select", "write"}
      PROVE  RoleSeed!Row(q)'.kind = "role" /\ granted'[RoleSeed!Row(q)'.name] # NoRole
  <2>1. CASE q # s
    <3>1. seedPhase'[q] = seedPhase[q] /\ seedNext'[q] = seedNext[q]
      BY <1>0, <2>1 DEF RoleSeed!TypeOK, RoleSeed!RowDone, RoleSeed!Throw, RoleSeed!Enter
    <3>2. RoleSeed!Row(q).kind = "role" /\ granted[RoleSeed!Row(q).name] # NoRole
      BY <1>0, <1>4, <3>1 DEF RolesAgree
    <3>3. RoleSeed!Row(q).name \in RoleNames
      BY <1>0, <3>2, PlanRowTyped
    <3>4. QED
      BY <3>1, <3>2, <3>3 DEF RoleSeed!Row
  <2>2. CASE q = s
    <3>1. UNCHANGED seedNext /\ RoleSeed!Row(s).kind = "role"
          /\ granted[RoleSeed!Row(s).name] # NoRole
      BY <1>0, <1>4, <2>2 DEF RoleSeed!TypeOK, RoleSeed!RowDone, RoleSeed!Throw,
         RoleSeed!Enter
    <3>2. RoleSeed!Row(s).name \in RoleNames
      BY <1>0, <3>1, PlanRowTyped
    <3>3. QED
      BY <2>2, <3>1, <3>2 DEF RoleSeed!Row
  <2>3. QED
    BY <2>1, <2>2
<1>5. \A r \in Requests : reqStep'[r] \in {"assign", "save"}
        => granted'[asked'[r].role] # NoRole
  BY <1>0 DEF RoleSeed!TypeOK, RolesAgree
<1>6. \A r \in Requests : reqStep'[r] \in RoleSeed!Running => asked'[r].server \in Starters
  BY <1>0 DEF RolesAgree
<1>7. RolesAgree'
  BY <1>4, <1>5, <1>6 DEF RolesAgree
<1>8. QED
  BY <1>1, <1>2, <1>3, <1>7

\* What Compare finds is a difference, and saving it leaves every role typed.
LEMMA DifferenceTyped ==
  ASSUME RoleSeed!TypeOK, NEW x \in Starters \cup Requests, NEW name \in RoleNames,
         granted[name] # NoRole,
         NEW wanted \in SUBSET Permissions, RoleSeed!Compare(x, name, wanted)
  PROVE  diff' \in [Starters \cup Requests -> RoleSeed!Differences]
<1>1. granted[name] \in SUBSET Permissions
  BY DEF RoleSeed!TypeOK
<1> DEFINE d == [add |-> wanted \ granted[name], del |-> granted[name] \ wanted]
<1>2. d \in RoleSeed!Differences
  BY <1>1 DEF RoleSeed!Differences
<1>3. diff' = [diff EXCEPT ![x] = d]
  BY DEF RoleSeed!Compare
<1> HIDE DEF d
<1>4. QED
  BY <1>2, <1>3 DEF RoleSeed!TypeOK

\* A role that is saved stays one, and every other role does.
LEMMA RoleSaved ==
  ASSUME RoleSeed!TypeOK, NEW x \in Starters \cup Requests, NEW name \in RoleNames,
         granted[name] # NoRole, RoleSeed!SaveRole(x, name)
  PROVE  /\ diff' \in [Starters \cup Requests -> RoleSeed!Differences]
         /\ granted' \in [RoleNames -> (SUBSET Permissions) \cup {NoRole}]
         /\ \A n \in RoleNames : granted[n] # NoRole => granted'[n] # NoRole
<1>1. granted[name] \in SUBSET Permissions /\ diff[x].add \in SUBSET Permissions
  BY DEF RoleSeed!TypeOK, RoleSeed!Differences
<1>2. RoleSeed!NoDifference \in RoleSeed!Differences
  BY DEF RoleSeed!Differences, RoleSeed!NoDifference
<1>3. diff' \in [Starters \cup Requests -> RoleSeed!Differences]
  BY <1>2 DEF RoleSeed!TypeOK, RoleSeed!SaveRole
<1> DEFINE g == (granted[name] \cup diff[x].add) \ diff[x].del
<1>4. g \in SUBSET Permissions /\ g # NoRole
  BY <1>1, RoleSeedAssumption DEF RoleSeedConstants
<1>5. granted' = granted \/ granted' = [granted EXCEPT ![name] = g]
  BY DEF RoleSeed!SaveRole
<1> HIDE DEF g
<1>6. QED
  BY <1>3, <1>4, <1>5 DEF RoleSeed!TypeOK

\* A server's step, and a request's.
LEMMA RolesServerStep ==
  ASSUME RolesInv, NEW s \in Starters, RoleSeed!StartUp(s)
  PROVE  RolesInv'
<1>0. RoleSeed!TypeOK /\ RolesAgree
  BY DEF RolesInv
<1>a. /\ RoleSeed!Row(s).kind = "permission" => RoleSeed!Row(s).name \in Permissions
      /\ RoleSeed!Row(s).kind = "reminder" => RoleSeed!Row(s).name \in ReminderIds
      /\ RoleSeed!Row(s).kind = "role" => RoleSeed!Row(s).name \in RoleNames
      /\ RoleSeed!Row(s).permissions \in SUBSET Permissions
  BY <1>0, PlanRowTyped
<1>1. CASE RoleSeed!Boot(s)
  <2>1. /\ seedPhase' \in [Starters -> RoleSeed!Seeding \cup {"down", "up"}]
        /\ seedNext' \in [Starters -> 1..Len(Plan)]
        /\ \A r \in Requests : reqStep'[r] \in RoleSeed!Running
             => seedPhase'[asked'[r].server] = "up"
        /\ RolesAgree'
    BY <1>1, RolesServerGoesOn DEF RoleSeed!Boot
  <2>2. RoleSeed!TypeOK'
    BY <1>0, <1>1, <2>1 DEF RoleSeed!Boot, RoleSeed!TypeOK
  <2>3. QED
    BY <2>1, <2>2 DEF RolesInv
<1>2. CASE RoleSeed!FindRow(s)
  <2>1. /\ seedPhase[s] # "up"
        /\ \/ RoleSeed!RowDone(s)
           \/ RoleSeed!Enter(s, "insert") /\ UNCHANGED seedNext
           \/ /\ RoleSeed!Enter(s, "select") /\ UNCHANGED seedNext
              /\ RoleSeed!Row(s).kind = "role" /\ granted[RoleSeed!Row(s).name] # NoRole
        /\ UNCHANGED <<stored, granted, accounts, asked, reqStep, diff, changes, seedFaults>>
    BY <1>2 DEF RoleSeed!FindRow, RoleSeed!Exists
  <2>2. /\ seedPhase' \in [Starters -> RoleSeed!Seeding \cup {"down", "up"}]
        /\ seedNext' \in [Starters -> 1..Len(Plan)]
        /\ \A r \in Requests : reqStep'[r] \in RoleSeed!Running
             => seedPhase'[asked'[r].server] = "up"
        /\ RolesAgree'
    BY <2>1, RolesServerGoesOn
  <2>3. RoleSeed!TypeOK'
    BY <1>0, <2>1, <2>2 DEF RoleSeed!TypeOK
  <2>4. QED
    BY <2>2, <2>3 DEF RolesInv
<1>3. CASE RoleSeed!InsertRow(s)
  <2>1. /\ seedPhase[s] # "up"
        /\ RoleSeed!RowDone(s) \/ RoleSeed!Throw(s)
        /\ UNCHANGED <<asked, reqStep, diff, changes, seedFaults>>
    BY <1>3 DEF RoleSeed!InsertRow
  <2>2. /\ stored' \subseteq Permissions \cup ReminderIds
        /\ granted' \in [RoleNames -> (SUBSET Permissions) \cup {NoRole}]
        /\ \A n \in RoleNames : granted[n] # NoRole => granted'[n] # NoRole
        /\ accounts' \subseteq RoleSeed!AccountRows
        /\ Distinct(accounts')
    <3>1. CASE UNCHANGED <<stored, granted, accounts>>
      BY <1>0, <3>1 DEF RoleSeed!TypeOK, Distinct
    <3>2. CASE ~UNCHANGED <<stored, granted, accounts>>
      <4>1. /\ ~RoleSeed!Refused(RoleSeed!Row(s))
            /\ stored' = IF RoleSeed!Row(s).kind \in {"permission", "reminder"}
                           THEN stored \cup {RoleSeed!Row(s).name} ELSE stored
            /\ granted' = IF RoleSeed!Row(s).kind = "role"
                         THEN [granted EXCEPT ![RoleSeed!Row(s).name] = RoleSeed!Row(s).permissions]
                         ELSE granted
            /\ accounts' = IF RoleSeed!Row(s).kind = "account"
                             THEN {[adminEmail |-> TRUE, seedPhone |-> TRUE]} ELSE accounts
        BY <1>3, <3>2 DEF RoleSeed!InsertRow
      <4>2. stored' \subseteq Permissions \cup ReminderIds
        BY <1>0, <1>a, <4>1 DEF RoleSeed!TypeOK
      <4>3. RoleSeed!Row(s).permissions # NoRole
        BY <1>a, RoleSeedAssumption DEF RoleSeedConstants
      <4>4. granted' \in [RoleNames -> (SUBSET Permissions) \cup {NoRole}]
        BY <1>0, <1>a, <4>1 DEF RoleSeed!TypeOK
      <4>5. \A n \in RoleNames : granted[n] # NoRole => granted'[n] # NoRole
        BY <1>0, <1>a, <4>1, <4>3 DEF RoleSeed!TypeOK
      <4>6. [adminEmail |-> TRUE, seedPhone |-> TRUE] \in RoleSeed!AccountRows
        BY DEF RoleSeed!AccountRows
      <4>7. accounts' \subseteq RoleSeed!AccountRows /\ Distinct(accounts')
        BY <1>0, <4>1, <4>6 DEF RoleSeed!TypeOK, Distinct
      <4>8. QED
        BY <4>2, <4>4, <4>5, <4>7
    <3>3. QED
      BY <3>1, <3>2
  <2>3. /\ seedPhase' \in [Starters -> RoleSeed!Seeding \cup {"down", "up"}]
        /\ seedNext' \in [Starters -> 1..Len(Plan)]
        /\ \A r \in Requests : reqStep'[r] \in RoleSeed!Running
             => seedPhase'[asked'[r].server] = "up"
        /\ RolesAgree'
    BY <2>1, <2>2, RolesServerGoesOn
  <2>4. RoleSeed!TypeOK'
    BY <1>0, <2>1, <2>2, <2>3 DEF RoleSeed!TypeOK, Distinct
  <2>5. QED
    BY <2>3, <2>4 DEF RolesInv
<1>4. CASE RoleSeed!SelectRole(s)
  <2>1. RoleSeed!Row(s).kind = "role" /\ granted[RoleSeed!Row(s).name] # NoRole
        /\ seedPhase[s] # "up"
    BY <1>0, <1>4 DEF RoleSeed!SelectRole, RolesAgree
  <2>2. /\ RoleSeed!RowDone(s) \/ (RoleSeed!Enter(s, "write") /\ UNCHANGED seedNext)
        /\ UNCHANGED <<stored, granted, accounts, asked, reqStep, changes, seedFaults>>
        /\ RoleSeed!Compare(s, RoleSeed!Row(s).name, RoleSeed!Row(s).permissions)
    BY <1>4 DEF RoleSeed!SelectRole
  <2>3. diff' \in [Starters \cup Requests -> RoleSeed!Differences]
    <3> PICK name \in RoleNames, wanted \in SUBSET Permissions :
          name = RoleSeed!Row(s).name /\ wanted = RoleSeed!Row(s).permissions
      BY <1>a, <2>1
    <3> QED
      BY <1>0, <2>1, <2>2, DifferenceTyped
  <2>4. /\ seedPhase' \in [Starters -> RoleSeed!Seeding \cup {"down", "up"}]
        /\ seedNext' \in [Starters -> 1..Len(Plan)]
        /\ \A r \in Requests : reqStep'[r] \in RoleSeed!Running
             => seedPhase'[asked'[r].server] = "up"
        /\ RolesAgree'
    BY <2>1, <2>2, RolesServerGoesOn
  <2>5. RoleSeed!TypeOK'
    BY <1>0, <2>2, <2>3, <2>4 DEF RoleSeed!TypeOK
  <2>6. QED
    BY <2>4, <2>5 DEF RolesInv
<1>5. CASE RoleSeed!WriteRole(s)
  <2>1. RoleSeed!Row(s).kind = "role" /\ granted[RoleSeed!Row(s).name] # NoRole
        /\ seedPhase[s] # "up"
    BY <1>0, <1>5 DEF RoleSeed!WriteRole, RolesAgree
  <2>2. /\ RoleSeed!RowDone(s) \/ RoleSeed!Throw(s)
        /\ UNCHANGED <<stored, accounts, asked, reqStep, changes, seedFaults>>
        /\ RoleSeed!SaveRole(s, RoleSeed!Row(s).name)
    BY <1>5 DEF RoleSeed!WriteRole
  <2>3. /\ diff' \in [Starters \cup Requests -> RoleSeed!Differences]
        /\ granted' \in [RoleNames -> (SUBSET Permissions) \cup {NoRole}]
        /\ \A n \in RoleNames : granted[n] # NoRole => granted'[n] # NoRole
    <3> PICK name \in RoleNames : name = RoleSeed!Row(s).name
      BY <1>a, <2>1
    <3> QED
      BY <1>0, <2>1, <2>2, RoleSaved
  <2>4. /\ seedPhase' \in [Starters -> RoleSeed!Seeding \cup {"down", "up"}]
        /\ seedNext' \in [Starters -> 1..Len(Plan)]
        /\ \A r \in Requests : reqStep'[r] \in RoleSeed!Running
             => seedPhase'[asked'[r].server] = "up"
        /\ RolesAgree'
    BY <2>1, <2>2, <2>3, RolesServerGoesOn
  <2>5. RoleSeed!TypeOK'
    BY <1>0, <2>2, <2>3, <2>4 DEF RoleSeed!TypeOK
  <2>6. QED
    BY <2>4, <2>5 DEF RolesInv
<1>6. QED
  BY <1>1, <1>2, <1>3, <1>4, <1>5 DEF RoleSeed!StartUp

\* A request's step: it is asked, or goes on where it runs.
LEMMA RolesRequestMoves ==
  ASSUME RolesInv, NEW r \in Requests,
         NEW to \in RoleSeed!Running \cup {"done", "failed"}, RoleSeed!Goto(r, to),
         \A n \in RoleNames : granted[n] # NoRole => granted'[n] # NoRole,
         \/ /\ UNCHANGED asked
            /\ reqStep[r] \in RoleSeed!Running
            /\ to \in {"assign", "save"} => granted[asked[r].role] # NoRole
         \/ \E srv \in Starters, name \in RoleNames, given \in SUBSET Permissions :
              /\ seedPhase[srv] = "up"
              /\ asked' = [asked EXCEPT ![r] = [server |-> srv, role |-> name,
                                                permissions |-> given]]
              /\ to \in {"assign", "save"} => granted[name] # NoRole,
         UNCHANGED <<seedPhase, seedNext>>
  PROVE  /\ asked' \in [Requests -> [server : Starters \cup {NoRole}, role : RoleNames,
                                     permissions : SUBSET Permissions]]
         /\ reqStep' \in [Requests -> RoleSeed!Running \cup {"idle", "done", "failed"}]
         /\ \A q \in Requests : reqStep'[q] \in RoleSeed!Running
              => seedPhase'[asked'[q].server] = "up"
         /\ RolesAgree'
<1>0. RoleSeed!TypeOK /\ RolesAgree
  BY DEF RolesInv
<1>1. reqStep' = [reqStep EXCEPT ![r] = to]
  BY DEF RoleSeed!Goto
<1>2. reqStep' \in [Requests -> RoleSeed!Running \cup {"idle", "done", "failed"}]
  BY <1>0, <1>1 DEF RoleSeed!TypeOK
<1>3. asked' \in [Requests -> [server : Starters \cup {NoRole}, role : RoleNames,
                               permissions : SUBSET Permissions]]
  BY <1>0 DEF RoleSeed!TypeOK
<1>4. to \in RoleSeed!Running =>
        /\ asked'[r].server \in Starters
        /\ seedPhase[asked'[r].server] = "up"
        /\ asked'[r].role \in RoleNames
        /\ to \in {"assign", "save"} => granted[asked'[r].role] # NoRole
  <2>1. CASE /\ UNCHANGED asked /\ reqStep[r] \in RoleSeed!Running
             /\ to \in {"assign", "save"} => granted[asked[r].role] # NoRole
    BY <1>0, <2>1 DEF RoleSeed!TypeOK, RolesAgree
  <2>2. ASSUME NEW srv \in Starters, NEW name \in RoleNames,
               NEW given \in SUBSET Permissions,
               seedPhase[srv] = "up",
               asked' = [asked EXCEPT ![r] = [server |-> srv, role |-> name,
                                              permissions |-> given]],
               to \in {"assign", "save"} => granted[name] # NoRole
        PROVE  /\ asked'[r].server \in Starters /\ seedPhase[asked'[r].server] = "up"
               /\ asked'[r].role \in RoleNames
               /\ to \in {"assign", "save"} => granted[asked'[r].role] # NoRole
    <3>1. asked'[r] = [server |-> srv, role |-> name, permissions |-> given]
      BY <1>0, <2>2 DEF RoleSeed!TypeOK
    <3>2. asked'[r].server = srv /\ asked'[r].role = name
      BY <3>1
    <3>3. QED
      BY <2>2, <3>2
  <2>3. QED
    BY <2>1, <2>2
<1>5. ASSUME NEW q \in Requests, q # r
      PROVE  reqStep'[q] = reqStep[q] /\ asked'[q] = asked[q]
  BY <1>0, <1>1, <1>5 DEF RoleSeed!TypeOK
<1>6. reqStep'[r] = to
  BY <1>0, <1>1 DEF RoleSeed!TypeOK
<1>7. \A q \in Requests : asked[q].role \in RoleNames
  BY <1>0 DEF RoleSeed!TypeOK
<1>8. \A q \in Requests : reqStep'[q] \in RoleSeed!Running
        => seedPhase'[asked'[q].server] = "up"
  <2> SUFFICES ASSUME NEW q \in Requests, reqStep'[q] \in RoleSeed!Running
               PROVE  seedPhase[asked'[q].server] = "up"
    OBVIOUS
  <2>1. CASE q = r
    BY <1>4, <1>6, <2>1
  <2>2. CASE q # r
    BY <1>0, <1>5, <2>2 DEF RoleSeed!TypeOK
  <2>3. QED
    BY <2>1, <2>2
<1>9. \A q \in Requests : reqStep'[q] \in {"assign", "save"}
        => granted'[asked'[q].role] # NoRole
  <2> SUFFICES ASSUME NEW q \in Requests, reqStep'[q] \in {"assign", "save"}
               PROVE  granted'[asked'[q].role] # NoRole
    OBVIOUS
  <2>1. CASE q = r
    BY <1>4, <1>6, <2>1 DEF RoleSeed!Running
  <2>2. CASE q # r
    BY <1>0, <1>5, <1>7, <2>2 DEF RolesAgree
  <2>3. QED
    BY <2>1, <2>2
<1>10. \A q \in Requests : reqStep'[q] \in RoleSeed!Running => asked'[q].server \in Starters
  BY <1>0, <1>4, <1>5, <1>6 DEF RolesAgree
<1>11. \A s \in Starters : seedPhase'[s] \in {"select", "write"} =>
         RoleSeed!Row(s)'.kind = "role" /\ granted'[RoleSeed!Row(s)'.name] # NoRole
  BY <1>0, PlanRowTyped DEF RolesAgree, RoleSeed!Row
<1>12. RolesAgree'
  BY <1>9, <1>10, <1>11 DEF RolesAgree
<1>13. QED
  BY <1>2, <1>3, <1>8, <1>12

\* Every step of a request keeps the invariant.
LEMMA RolesRequestStep ==
  ASSUME RolesInv, NEW r \in Requests,
         \/ RoleSeed!CreateRole(r) \/ RoleSeed!InsertRole(r)
         \/ RoleSeed!AssignPermissionsToRole(r) \/ RoleSeed!SelectAssigned(r)
            \/ RoleSeed!SaveAssigned(r)
         \/ RoleSeed!RequestFails(r)
  PROVE  RolesInv'
<1>0. RoleSeed!TypeOK /\ RolesAgree
  BY DEF RolesInv
<1>a. /\ asked[r].role \in RoleNames /\ asked[r].permissions \in SUBSET Permissions
      /\ Custom \in RoleNames
  BY <1>0, RoleSeedAssumption DEF RoleSeed!TypeOK, RoleSeedConstants
<1>1. ASSUME NEW name \in RoleNames, NEW given \in SUBSET Permissions,
             NEW to \in RoleSeed!Running \cup {"done", "failed"},
             RoleSeed!Ask(r, name, given, to),
             to \in {"assign", "save"} => granted[name] # NoRole
      PROVE  RolesInv'
  <2>1. RoleSeed!Goto(r, to)
        /\ UNCHANGED <<stored, granted, accounts, seedPhase, seedNext, diff, changes,
                       seedFaults>>
    BY <1>1 DEF RoleSeed!Ask
  <2>2. PICK srv \in Starters :
          /\ seedPhase[srv] = "up"
          /\ asked' = [asked EXCEPT ![r] = [server |-> srv, role |-> name,
                                            permissions |-> given]]
    BY <1>1 DEF RoleSeed!Ask
  <2>3. /\ asked' \in [Requests -> [server : Starters \cup {NoRole}, role : RoleNames,
                                    permissions : SUBSET Permissions]]
        /\ reqStep' \in [Requests -> RoleSeed!Running \cup {"idle", "done", "failed"}]
        /\ \A q \in Requests : reqStep'[q] \in RoleSeed!Running
             => seedPhase'[asked'[q].server] = "up"
        /\ RolesAgree'
    BY <1>1, <2>1, <2>2, RolesRequestMoves
  <2>4. RoleSeed!TypeOK'
    BY <1>0, <2>1, <2>3 DEF RoleSeed!TypeOK
  <2>5. QED
    BY <2>3, <2>4 DEF RolesInv
\* A request that goes on.
<1>2. ASSUME NEW to \in RoleSeed!Running \cup {"done", "failed"}, RoleSeed!Goto(r, to),
             reqStep[r] \in RoleSeed!Running,
             to \in {"assign", "save"} => granted[asked[r].role] # NoRole,
             \A n \in RoleNames : granted[n] # NoRole => granted'[n] # NoRole,
             granted' \in [RoleNames -> (SUBSET Permissions) \cup {NoRole}],
             diff' \in [Starters \cup Requests -> RoleSeed!Differences],
             UNCHANGED <<stored, accounts, seedPhase, seedNext, asked, changes, seedFaults>>
      PROVE  RolesInv'
  <2>1. /\ asked' \in [Requests -> [server : Starters \cup {NoRole}, role : RoleNames,
                                    permissions : SUBSET Permissions]]
        /\ reqStep' \in [Requests -> RoleSeed!Running \cup {"idle", "done", "failed"}]
        /\ \A q \in Requests : reqStep'[q] \in RoleSeed!Running
             => seedPhase'[asked'[q].server] = "up"
        /\ RolesAgree'
    BY <1>2, RolesRequestMoves
  <2>2. RoleSeed!TypeOK'
    BY <1>0, <1>2, <2>1 DEF RoleSeed!TypeOK
  <2>3. QED
    BY <2>1, <2>2 DEF RolesInv
<1>3. CASE RoleSeed!CreateRole(r)
  <2>1. PICK given \in SUBSET Permissions, to \in {"create", "failed"} :
               RoleSeed!Ask(r, Custom, given, to)
    BY <1>3 DEF RoleSeed!CreateRole
  <2>2. QED
    BY <1>1, <1>a, <2>1 DEF RoleSeed!Running
<1>4. CASE RoleSeed!AssignPermissionsToRole(r)
  <2>1. PICK name \in RoleNames, given \in SUBSET Permissions, to \in {"assign", "failed"} :
          RoleSeed!Ask(r, name, given, to) /\ (to = "assign" => granted[name] # NoRole)
    BY <1>4, Zenon DEF RoleSeed!AssignPermissionsToRole
  <2>2. QED
    BY <1>1, <2>1 DEF RoleSeed!Running
<1>5. CASE RoleSeed!InsertRole(r)
  <2>1. CASE granted[Custom] # NoRole
    <3>1. RoleSeed!Goto(r, "failed") /\ UNCHANGED <<granted, diff>>
          /\ reqStep[r] \in RoleSeed!Running
      BY <1>5, <2>1 DEF RoleSeed!InsertRole, RoleSeed!Running
    <3>2. QED
      BY <1>0, <1>2, <1>5, <3>1 DEF RoleSeed!InsertRole, RoleSeed!TypeOK
  <2>2. CASE granted[Custom] = NoRole
    <3>1. /\ granted' = [granted EXCEPT ![Custom] = asked[r].permissions]
          /\ RoleSeed!Goto(r, "done") /\ reqStep[r] \in RoleSeed!Running
      BY <1>5, <2>2 DEF RoleSeed!InsertRole, RoleSeed!Running
    <3>2. asked[r].permissions # NoRole
      BY <1>a, RoleSeedAssumption DEF RoleSeedConstants
    <3>3. /\ \A n \in RoleNames : granted[n] # NoRole => granted'[n] # NoRole
          /\ granted' \in [RoleNames -> (SUBSET Permissions) \cup {NoRole}]
      BY <1>0, <1>a, <3>1, <3>2 DEF RoleSeed!TypeOK
    <3>4. QED
      BY <1>0, <1>2, <1>5, <3>1, <3>3 DEF RoleSeed!InsertRole, RoleSeed!TypeOK
  <2>3. QED
    BY <2>1, <2>2
<1>6. CASE RoleSeed!SelectAssigned(r)
  <2>1. granted[asked[r].role] # NoRole /\ reqStep[r] \in RoleSeed!Running
    BY <1>0, <1>6 DEF RoleSeed!SelectAssigned, RolesAgree, RoleSeed!Running
  <2>2. diff' \in [Starters \cup Requests -> RoleSeed!Differences]
    <3> PICK name \in RoleNames, wanted \in SUBSET Permissions :
          name = asked[r].role /\ wanted = asked[r].permissions
      BY <1>a
    <3> QED
      BY <1>0, <1>6, <2>1, DifferenceTyped DEF RoleSeed!SelectAssigned
  <2>3. PICK to \in {"done", "save"} : RoleSeed!Goto(r, to)
    BY <1>6 DEF RoleSeed!SelectAssigned
  <2>4. UNCHANGED <<stored, granted, accounts, seedPhase, seedNext, asked, changes,
                    seedFaults>>
    BY <1>6 DEF RoleSeed!SelectAssigned
  <2>5. QED
    BY <1>0, <1>2, <2>1, <2>2, <2>3, <2>4 DEF RoleSeed!TypeOK, RoleSeed!Running
<1>7. CASE RoleSeed!SaveAssigned(r)
  <2>1. granted[asked[r].role] # NoRole /\ reqStep[r] \in RoleSeed!Running
    BY <1>0, <1>7 DEF RoleSeed!SaveAssigned, RolesAgree, RoleSeed!Running
  <2>2. /\ diff' \in [Starters \cup Requests -> RoleSeed!Differences]
        /\ granted' \in [RoleNames -> (SUBSET Permissions) \cup {NoRole}]
        /\ \A n \in RoleNames : granted[n] # NoRole => granted'[n] # NoRole
    <3> PICK name \in RoleNames : name = asked[r].role
      BY <1>a
    <3> QED
      BY <1>0, <1>7, <2>1, RoleSaved DEF RoleSeed!SaveAssigned
  <2>3. PICK to \in {"done", "failed"} : RoleSeed!Goto(r, to)
    BY <1>7 DEF RoleSeed!SaveAssigned
  <2>4. UNCHANGED <<stored, accounts, seedPhase, seedNext, asked, changes, seedFaults>>
    BY <1>7 DEF RoleSeed!SaveAssigned
  <2>5. QED
    BY <1>0, <1>2, <2>1, <2>2, <2>3, <2>4 DEF RoleSeed!TypeOK, RoleSeed!Running
<1>8. CASE RoleSeed!RequestFails(r)
  BY <1>0, <1>2, <1>8 DEF RoleSeed!RequestFails, RoleSeed!TypeOK
<1>9. QED
  BY <1>3, <1>4, <1>5, <1>6, <1>7, <1>8

\* So does every other.
LEMMA RolesStepKeeps ==
  ASSUME RolesInv, [RoleSeed!Next]_(RoleSeed!vars)
  PROVE  RolesInv'
<1>0. RoleSeed!TypeOK /\ RolesAgree
  BY DEF RolesInv
<1>1. ASSUME NEW s \in Starters, RoleSeed!Crash(s) PROVE RolesInv'
  <2>1. /\ seedPhase' = [seedPhase EXCEPT ![s] = "down"]
        /\ reqStep' = [r \in Requests |->
                          IF reqStep[r] \in RoleSeed!Running /\ asked[r].server = s
                            THEN "failed" ELSE reqStep[r]]
        /\ UNCHANGED <<seedNext, stored, granted, accounts, asked, diff, changes>>
    BY <1>1 DEF RoleSeed!Crash, RoleSeed!Throw, RoleSeed!Enter
  <2>2. seedFaults' \in 0..SeedFaults
    BY <1>0, <1>1, RoleSeedAssumption DEF RoleSeed!Crash, RoleSeed!TypeOK,
       RoleSeedConstants
  <2>3. ASSUME NEW r \in Requests, reqStep'[r] \in RoleSeed!Running
        PROVE  reqStep[r] \in RoleSeed!Running /\ asked[r].server # s
               /\ reqStep'[r] = reqStep[r]
    BY <2>1, <2>3 DEF RoleSeed!Running
  <2>4. \A r \in Requests : reqStep'[r] \in RoleSeed!Running
          => seedPhase'[asked'[r].server] = "up"
    BY <1>0, <2>1, <2>3 DEF RoleSeed!TypeOK, RolesAgree
  <2>5. seedPhase' \in [Starters -> RoleSeed!Seeding \cup {"down", "up"}]
        /\ reqStep' \in [Requests -> RoleSeed!Running \cup {"idle", "done", "failed"}]
    BY <1>0, <2>1 DEF RoleSeed!TypeOK
  <2>6. RoleSeed!TypeOK'
    BY <1>0, <2>1, <2>2, <2>4, <2>5 DEF RoleSeed!TypeOK
  <2>7. \A q \in Starters : seedPhase'[q] \in {"select", "write"}
          => seedPhase[q] = seedPhase'[q]
    BY <1>0, <2>1 DEF RoleSeed!TypeOK
  <2>8. \A r \in Requests : reqStep'[r] \in {"assign", "save"} => reqStep[r] = reqStep'[r]
    BY <2>3 DEF RoleSeed!Running
  <2>9. RolesAgree'
    BY <1>0, <2>1, <2>3, <2>7, <2>8 DEF RolesAgree, RoleSeed!Row
  <2>10. QED
    BY <2>6, <2>9 DEF RolesInv
\* The accounts change, and no two of them are alike.
<1>2. ASSUME NEW new, RoleSeed!AccountsBecome(new), new \subseteq RoleSeed!AccountRows,
             Distinct(new)
      PROVE  RolesInv'
  <2>1. changes' \in 0..Changes
    BY <1>0, <1>2, RoleSeedAssumption DEF RoleSeed!AccountsBecome, RoleSeed!TypeOK,
       RoleSeedConstants
  <2>2. RoleSeed!TypeOK'
    BY <1>0, <1>2, <2>1 DEF RoleSeed!AccountsBecome, RoleSeed!TypeOK, Distinct
  <2>3. RolesAgree'
    BY <1>0, <1>2 DEF RoleSeed!AccountsBecome, RolesAgree, RoleSeed!Row
  <2>4. QED
    BY <2>2, <2>3 DEF RolesInv
<1>3. accounts \subseteq RoleSeed!AccountRows /\ Distinct(accounts)
  BY <1>0 DEF RoleSeed!TypeOK, Distinct
<1>4. ASSUME NEW new \in RoleSeed!AccountRows, NEW others \in SUBSET accounts,
             RoleSeed!Free(new, others)
      PROVE  Distinct(others \cup {new}) /\ Distinct(others)
  BY <1>3, <1>4 DEF Distinct, RoleSeed!Free
<1>5. CASE RoleSeed!RegisterAccount
  <2>1. PICK new \in RoleSeed!AccountRows : RoleSeed!Free(new, accounts)
             /\ RoleSeed!AccountsBecome(accounts \cup {new})
    BY <1>5 DEF RoleSeed!RegisterAccount
  <2>2. QED
    BY <1>2, <1>3, <1>4, <2>1
<1>6. CASE RoleSeed!ChangeAddress
  <2>1. PICK a \in accounts :
          /\ RoleSeed!Free([a EXCEPT !.adminEmail = ~@], accounts \ {a})
          /\ RoleSeed!AccountsBecome((accounts \ {a}) \cup
                             ({[a EXCEPT !.adminEmail = ~@]} \cap RoleSeed!AccountRows))
    BY <1>6 DEF RoleSeed!ChangeAddress
  <2> DEFINE new == [a EXCEPT !.adminEmail = ~@]
             after == (accounts \ {a}) \cup ({new} \cap RoleSeed!AccountRows)
  <2>2. after \subseteq RoleSeed!AccountRows
    BY <1>3
  <2>3. Distinct(after)
    <3>1. CASE new \in RoleSeed!AccountRows
      <4>1. after = (accounts \ {a}) \cup {new}
        BY <3>1
      <4>2. accounts \ {a} \in SUBSET accounts
        OBVIOUS
      <4> HIDE DEF new, after
      <4>3. RoleSeed!Free(new, accounts \ {a})
        BY <2>1 DEF new
      <4>4. Distinct((accounts \ {a}) \cup {new})
        BY <1>4, <3>1, <4>2, <4>3
      <4>5. QED
        BY <4>1, <4>4
    <3>2. CASE new \notin RoleSeed!AccountRows
      <4>1. after = accounts \ {a}
        BY <3>2
      <4>2. QED
        BY <1>3, <4>1 DEF Distinct
    <3>3. QED
      BY <3>1, <3>2
  <2>4. RoleSeed!AccountsBecome(after)
    BY <2>1
  <2> HIDE DEF new, after
  <2>5. PICK x : x = after
    OBVIOUS
  <2>6. QED
    BY <1>2, <2>2, <2>3, <2>4, <2>5
<1>7. CASE RoleSeed!RemoveAccount
  <2>1. PICK a \in accounts : RoleSeed!AccountsBecome(accounts \ {a})
    BY <1>7 DEF RoleSeed!RemoveAccount
  <2>2. accounts \ {a} \subseteq RoleSeed!AccountRows /\ Distinct(accounts \ {a})
    BY <1>3 DEF Distinct
  <2>3. QED
    BY <1>2, <2>1, <2>2
<1>8. CASE UNCHANGED RoleSeed!vars
  BY <1>0, <1>8 DEF RoleSeed!vars, RoleSeed!TypeOK, RolesAgree, RoleSeed!Row, RolesInv
<1>9. QED
  BY <1>1, <1>5, <1>6, <1>7, <1>8, RolesServerStep, RolesRequestStep DEF RoleSeed!Next

-----------------------------------------------------------------------------
\* Whatever happens, seeders save what they have reached.
LEMMA QuranSeedCorrect == Quran!Init /\ [][Quran!Next]_(Quran!vars) => []QuranInv
<1>1. QuranInv /\ [Quran!Next]_(Quran!vars) => QuranInv'
  BY QuranStepKeeps
<1>2. QED
  BY <1>1, QuranInit, PTL

\* Whatever happens, rows are compared and saved only of roles that are there.
LEMMA RoleSeedCorrect == RoleSeed!Init /\ [][RoleSeed!Next]_(RoleSeed!vars) => []RolesInv
<1>1. RolesInv /\ [RoleSeed!Next]_(RoleSeed!vars) => RolesInv'
  BY RolesStepKeeps
<1>2. QED
  BY <1>1, RolesInit, PTL
=============================================================================
