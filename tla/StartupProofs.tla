---------------------------- MODULE StartupProofs ----------------------------
(***************************************************************************)
(* Proofs about Startup, for any saves, releases and environments.          *)
(*                                                                         *)
(* The invariant says what a transaction may hold, and that a release has    *)
(* in memory only what it can read and what it will write.                  *)
(***************************************************************************)
EXTENDS Startup, Lemmas, SequenceTheorems

\* The three things the transaction of a migration may hold.
TxInv ==
    tx # None =>
        /\ proc = "migrating"
        /\ db.version < Migrations[release]
        /\ \/ tx = db
           \/ tx = Migrated(db)
           \/ tx = [Migrated(db) EXCEPT !.version = db.version + 1]

\* The row of a save tells its payload's version, as far as it can.
RowInv ==
    \A k \in Key : db.rows[k] # None =>
        /\ db.rows[k].column = IF db.version < 2 THEN 0 ELSE db.rows[k].save.version
        /\ db.version < 2 => db.rows[k].save.version = 1

\* A process that runs is of a release, and one that serves has its tables.
ProcInv ==
    /\ proc # "down" => release \in Release
    /\ proc \in {"migrating", "serving"} => db.version <= Migrations[release]
    /\ proc = "serving" => db.version = Migrations[release]

\* What is open is a save of the release that runs, over a row it can read.
OpenInv ==
    \A k \in Key : open[k] # None =>
        /\ proc = "serving"
        /\ open[k].version = Current
        /\ db.rows[k] # None
        /\ db.rows[k].save.version <= Current

DatabaseInv == db.tables = db.version

StartupInv ==
    TypeOK /\ TxInv /\ RowInv /\ ProcInv /\ OpenInv /\ DatabaseInv

USE StartupAssumption, NoneAssumption

-----------------------------------------------------------------------------
(* Lemmas about the operators.                                             *)

\* What a release reads is a save of its own version.
LEMMA DecodedSave ==
    ASSUME NEW save \in Save, NEW version \in {1, 2, 3}, save.version <= version
    PROVE  /\ Decoded(save, version) \in Save
           /\ Decoded(save, version).version = version
<1> DEFINE two == ToVersion2(save)
           three == ToVersion3(two)
<1>1. two \in Save /\ two.version = IF save.version < 2 THEN 2 ELSE save.version
  BY DEF ToVersion2, Save
<1>2. three \in Save /\ three.version = 3
  <2> HIDE DEF two
  <2>1. CASE two.version = 3
    BY <1>1, <2>1 DEF ToVersion3
  <2>2. CASE two.version # 3
    <3> DEFINE flags == [p \in Plot |-> two.auto[p] \cup two.tools]
    <3>1. two.version < 3 /\ flags \in [Plot -> SUBSET Tool]
      BY <1>1, <2>2 DEF Save
    <3>2. three = [two EXCEPT !.version = 3, !.auto = flags]
      BY <3>1 DEF ToVersion3
    <3> HIDE DEF flags
    <3> QED
      BY <1>1, <3>1, <3>2 DEF Save
  <2> QED
    BY <2>1, <2>2
<1>3. save.version \in {1, 2, 3}
  BY DEF Save
<1> QED
  BY <1>1, <1>2, <1>3 DEF Decoded

\* A fresh save is one too.
LEMMA FreshIsSave ==
    ASSUME NEW version \in {1, 2, 3}
    PROVE  /\ FreshSave(version) \in Save
           /\ FreshSave(version).version = version
  BY DEF FreshSave, Save

\* A migration leaves a database.
LEMMA MigratedDatabase ==
    ASSUME NEW d \in Database
    PROVE  /\ Migrated(d) \in Database
           /\ Migrated(d).version = d.version
           /\ Migrated(d).tables = d.tables + 1
           /\ \A k \in Key :
                /\ Migrated(d).rows[k] = None <=> d.rows[k] = None
                /\ d.rows[k] # None =>
                     /\ Migrated(d).rows[k].save = d.rows[k].save
                     /\ Migrated(d).rows[k].column =
                           IF d.version + 1 = 2 THEN 1 ELSE d.rows[k].column
<1> DEFINE column == WithColumn(d.rows)
<1>1. \A k \in Key : d.rows[k] # None =>
         /\ [d.rows[k] EXCEPT !.column = 1] \in Row
         /\ [d.rows[k] EXCEPT !.column = 1].save = d.rows[k].save
         /\ [d.rows[k] EXCEPT !.column = 1].column = 1
  BY DEF Database, Row
<1>2. column \in [Key -> Row \cup {None}]
  BY <1>1 DEF WithColumn, Database
<1>3. \A k \in Key : column[k] = IF d.rows[k] = None THEN None
                                 ELSE [d.rows[k] EXCEPT !.column = 1]
  BY DEF WithColumn
<1> DEFINE r == IF d.version + 1 = 2 THEN column ELSE d.rows
<1>4. Migrated(d) = [d EXCEPT !.tables = d.tables + 1, !.rows = r]
  BY DEF Migrated, Database
<1>5. r \in [Key -> Row \cup {None}]
  BY <1>2 DEF Database
<1>6. \A k \in Key :
         /\ r[k] = None <=> d.rows[k] = None
         /\ d.rows[k] # None =>
              /\ r[k].save = d.rows[k].save
              /\ r[k].column = IF d.version + 1 = 2 THEN 1 ELSE d.rows[k].column
  BY <1>1, <1>3
<1> HIDE DEF r
<1>7. Migrated(d) = [version |-> d.version, tables |-> d.tables + 1, rows |-> r]
  BY <1>4 DEF Database
<1>8. Migrated(d) \in Database
  BY <1>5, <1>7 DEF Database
<1> QED
  BY <1>6, <1>7, <1>8

-----------------------------------------------------------------------------
(* The invariant.                                                          *)

\* It holds at first.
LEMMA StartupInit == Init => StartupInv
  BY DEF Init, StartupInv, TypeOK, Database, TxInv, RowInv, ProcInv, OpenInv,
     DatabaseInv

\* A step that leaves the database alone, and opens nothing.
LEMMA StartStep ==
    ASSUME StartupInv,
           \/ \E r \in Release, env \in Environment : Start(r, env)
           \/ Down \/ ReadVersion \/ Serve \/ UNCHANGED vars
    PROVE  StartupInv'
<1> USE DEF StartupInv
<1>1. ASSUME NEW r \in Release, NEW env \in Environment, Start(r, env)
      PROVE  StartupInv'
  BY <1>1 DEF Start, TypeOK, TxInv, RowInv, ProcInv, OpenInv, DatabaseInv
<1>2. CASE Down
  BY <1>2 DEF Down, TypeOK, TxInv, RowInv, ProcInv, OpenInv, DatabaseInv
<1>3. CASE ReadVersion
  BY <1>3 DEF ReadVersion, TypeOK, TxInv, RowInv, ProcInv, OpenInv, DatabaseInv, Current
<1>4. CASE Serve
  BY <1>4 DEF Serve, TypeOK, TxInv, RowInv, ProcInv, OpenInv, DatabaseInv, Current
<1>5. CASE UNCHANGED vars
  BY <1>5 DEF vars, TypeOK, TxInv, RowInv, ProcInv, OpenInv, DatabaseInv, Current
<1> QED
  BY <1>1, <1>2, <1>3, <1>4, <1>5

\* The steps of a migration before its commit change the transaction only.
LEMMA TxStep ==
    ASSUME StartupInv, BeginTx \/ Apply \/ Bump
    PROVE  StartupInv'
<1> USE DEF StartupInv
<1>1. UNCHANGED <<db, proc, release, cfg, open>>
  BY DEF BeginTx, Apply, Bump
<1>2. tx' \in Database /\ TxInv'
  <2>1. CASE BeginTx
    BY <1>1, <2>1 DEF BeginTx, TypeOK, TxInv
  <2>2. CASE Apply
    <3>1. tx = db
      BY <2>2, MigratedDatabase DEF Apply, TypeOK, TxInv, Database
    <3> QED
      BY <1>1, <2>2, <3>1, MigratedDatabase DEF Apply, TypeOK, TxInv
  <2>3. CASE Bump
    <3>1. tx = Migrated(db)
      BY <2>3, MigratedDatabase DEF Bump, TypeOK, TxInv, Database, DatabaseInv
    <3>2. tx' = [Migrated(db) EXCEPT !.version = db.version + 1]
      BY <2>3, <3>1, MigratedDatabase DEF Bump, TypeOK
    <3>3. tx' \in Database
      BY <3>2, MigratedDatabase DEF TypeOK, Database
    <3> QED
      BY <1>1, <2>3, <3>2, <3>3 DEF Bump, TxInv
  <2> QED
    BY <2>1, <2>2, <2>3
<1>3. TypeOK' /\ RowInv' /\ ProcInv' /\ OpenInv' /\ DatabaseInv'
  BY <1>1, <1>2 DEF TypeOK, RowInv, ProcInv, OpenInv, DatabaseInv, Current
<1> QED
  BY <1>2, <1>3

\* What a commit makes of the database.
LEMMA CommitEffect ==
    ASSUME StartupInv, Commit
    PROVE  /\ db' \in Database
           /\ db'.version = db.version + 1
           /\ db'.tables = db.tables + 1
           /\ \A k \in Key :
                /\ db'.rows[k] = None <=> db.rows[k] = None
                /\ db.rows[k] # None =>
                     /\ db'.rows[k].save = db.rows[k].save
                     /\ db'.rows[k].column =
                           IF db.version + 1 = 2 THEN 1 ELSE db.rows[k].column
<1> USE DEF StartupInv
<1>1. db \in Database /\ db.version \in Nat
  BY DEF TypeOK, Database
<1>2. tx = [Migrated(db) EXCEPT !.version = db.version + 1]
  BY <1>1, MigratedDatabase DEF Commit, TxInv
<1> QED
  BY <1>1, <1>2, MigratedDatabase DEF Commit, Database

\* A commit makes the migrated database the stored one.
LEMMA CommitStep ==
    ASSUME StartupInv, Commit
    PROVE  StartupInv'
<1> USE DEF StartupInv
<1>1. /\ UNCHANGED <<proc, release, cfg, open>>
      /\ tx' = None
      /\ proc = "migrating"
      /\ db.version < Migrations[release]
  BY DEF Commit, TxInv
<1>2. TypeOK' /\ TxInv' /\ DatabaseInv'
  BY <1>1, CommitEffect DEF TypeOK, TxInv, DatabaseInv
<1>3. ProcInv'
  BY <1>1, CommitEffect DEF ProcInv, TypeOK, Database
<1>4. OpenInv'
  BY <1>1 DEF OpenInv
<1>5. RowInv'
  <2> SUFFICES ASSUME NEW k \in Key, db'.rows[k] # None
               PROVE  /\ db'.rows[k].column =
                            IF db'.version < 2 THEN 0 ELSE db'.rows[k].save.version
                      /\ db'.version < 2 => db'.rows[k].save.version = 1
    BY DEF RowInv
  <2>1. db.rows[k] # None /\ db.version \in Nat
    BY CommitEffect DEF TypeOK, Database
  <2> QED
    BY <2>1, CommitEffect DEF RowInv
<1> QED
  BY <1>2, <1>3, <1>4, <1>5

\* A write of the running release to one row.
LEMMA WriteEffect ==
    ASSUME StartupInv, NEW k \in Key, NEW save \in Save,
           proc = "serving", save.version = Current,
           db' = [db EXCEPT !.rows[k] = Stored(save)]
    PROVE  /\ db' \in Database
           /\ db'.version = db.version /\ db'.tables = db.tables
           /\ db'.rows[k] = Stored(save) /\ Stored(save) \in Row
           /\ \A j \in Key \ {k} : db'.rows[j] = db.rows[j]
<1> USE DEF StartupInv
<1>1. Stored(save) \in Row
  BY DEF Stored, Row, Save
<1>2. db \in Database
  BY DEF TypeOK
<1> DEFINE r == [db.rows EXCEPT ![k] = Stored(save)]
<1>3. db' = [db EXCEPT !.rows = r]
  BY <1>2 DEF Database
<1>4. r \in [Key -> Row \cup {None}] /\ r[k] = Stored(save)
  BY <1>1, <1>2 DEF Database
<1>5. \A j \in Key \ {k} : r[j] = db.rows[j]
  BY <1>2 DEF Database
<1> HIDE DEF r
<1>6. db' = [version |-> db.version, tables |-> db.tables, rows |-> r]
  BY <1>2, <1>3 DEF Database
<1> QED
  BY <1>1, <1>2, <1>4, <1>5, <1>6 DEF Database

\* The running release writes its own version, and tables below 2 are of the
\* releases whose version is 1.
LEMMA WriteStep ==
    ASSUME StartupInv, NEW k \in Key, NEW save \in Save,
           proc = "serving", save.version = Current,
           db' = [db EXCEPT !.rows[k] = Stored(save)],
           open' \in [Key -> Save \cup {None}],
           \A j \in Key : open'[j] # None =>
              open'[j].version = Current /\ (j = k \/ open'[j] = open[j]),
           UNCHANGED <<tx, proc, release, cfg>>
    PROVE  StartupInv'
<1> USE DEF StartupInv
<1>1. /\ db \in Database /\ release \in Release /\ tx = None
      /\ db.version = Migrations[release]
  BY DEF TypeOK, ProcInv, TxInv
<1>2. /\ Stored(save).save = save
      /\ Stored(save).column = IF db.version < 2 THEN 0 ELSE save.version
      /\ Stored(save) # None
  BY <1>1, WriteEffect DEF Stored, DatabaseInv, Database
<1>3. db.version < 2 => save.version = 1
  BY <1>1 DEF Current
<1>4. TypeOK' /\ TxInv' /\ ProcInv' /\ DatabaseInv'
  BY <1>1, WriteEffect DEF TypeOK, TxInv, ProcInv, DatabaseInv
<1>5. RowInv'
  BY <1>2, <1>3, WriteEffect DEF RowInv
<1>6. OpenInv'
  <2> SUFFICES ASSUME NEW j \in Key, open'[j] # None
               PROVE  db'.rows[j] # None /\ db'.rows[j].save.version <= Current
    BY DEF OpenInv, Current
  <2>1. Current \in {1, 2, 3}
    BY <1>1 DEF Current
  <2>2. CASE j = k
    BY <1>2, <2>1, <2>2, WriteEffect
  <2>3. CASE j # k
    BY <2>3, WriteEffect DEF OpenInv
  <2> QED
    BY <2>2, <2>3
<1> QED
  BY <1>4, <1>5, <1>6

\* A step that opens, changes or closes a save in memory.
LEMMA MemoryStep ==
    ASSUME StartupInv, NEW k \in Key, NEW save \in Save \cup {None},
           open' = [open EXCEPT ![k] = save],
           save # None => /\ proc = "serving"
                          /\ save.version = Current
                          /\ db.rows[k] # None
                          /\ db.rows[k].save.version <= Current,
           UNCHANGED <<db, tx, proc, release, cfg>>
    PROVE  StartupInv'
  BY DEF StartupInv, TypeOK, TxInv, RowInv, ProcInv, OpenInv, DatabaseInv, Current

\* A save that is created, opened, played or written stays readable.
LEMMA SaveStep ==
    ASSUME StartupInv, NEW k \in Key,
           CreateSave(k) \/ OpenSave(k) \/ Play(k) \/ Persist(k) \/ Close(k)
    PROVE  StartupInv'
<1> USE DEF StartupInv
<1>1. CASE CreateSave(k)
  <2>1. Current \in {1, 2, 3}
    BY <1>1 DEF CreateSave, Current, ProcInv
  <2>2. FreshSave(Current) \in Save /\ FreshSave(Current).version = Current
    BY <2>1, FreshIsSave
  <2>3. /\ open' \in [Key -> Save \cup {None}]
        /\ open'[k] = FreshSave(Current)
        /\ \A j \in Key \ {k} : open'[j] = open[j]
    BY <1>1, <2>2 DEF CreateSave, TypeOK
  <2> QED
    BY <1>1, <2>2, <2>3, WriteStep DEF CreateSave, OpenInv
<1>2. CASE OpenSave(k)
  <2>1. Current \in {1, 2, 3} /\ db.rows[k].save \in Save
    BY <1>2 DEF OpenSave, Current, ProcInv, TypeOK, Database, Row
  <2>2. /\ Decoded(db.rows[k].save, Current) \in Save
        /\ Decoded(db.rows[k].save, Current).version = Current
    BY <1>2, <2>1, DecodedSave DEF OpenSave
  <2> QED
    BY <1>2, <2>2, MemoryStep DEF OpenSave
<1>3. CASE Play(k)
  <2>1. /\ open[k] \in Save /\ open[k] # None /\ proc = "serving"
        /\ open[k].version = Current
        /\ db.rows[k] # None /\ db.rows[k].save.version <= Current
    BY <1>3 DEF Play, TypeOK, OpenInv
  <2>2. ASSUME NEW save \in Save, open' = [open EXCEPT ![k] = save],
               save.version = open[k].version
        PROVE  StartupInv'
    BY <1>3, <2>1, <2>2, MemoryStep DEF Play
  <2>3. ASSUME NEW t \in Tool, open' = [open EXCEPT ![k].tools = @ \cup {t}]
        PROVE  StartupInv'
    <3> DEFINE save == [open[k] EXCEPT !.tools = @ \cup {t}]
    <3>1. save \in Save /\ save.version = open[k].version
      BY <2>1 DEF Save
    <3>2. open' = [open EXCEPT ![k] = save]
      BY <2>3 DEF TypeOK
    <3> HIDE DEF save
    <3> QED
      BY <2>2, <3>1, <3>2
  <2>4. ASSUME NEW p \in Plot, NEW t \in Tool,
               open' = [open EXCEPT ![k].auto[p] = @ \cup {t}]
        PROVE  StartupInv'
    <3> DEFINE flags == [open[k].auto EXCEPT ![p] = @ \cup {t}]
               save == [open[k] EXCEPT !.auto = flags]
    <3>1. flags \in [Plot -> SUBSET Tool]
      BY <2>1 DEF Save
    <3>2. save \in Save /\ save.version = open[k].version
      <4> HIDE DEF flags
      <4> QED
        BY <2>1, <3>1 DEF Save
    <3>3. open' = [open EXCEPT ![k] = save]
      BY <2>4 DEF TypeOK
    <3> HIDE DEF save
    <3> QED
      BY <2>2, <3>2, <3>3
  <2>5. ASSUME open' = [open EXCEPT ![k].flavor = ~@] PROVE StartupInv'
    <3> DEFINE save == [open[k] EXCEPT !.flavor = ~@]
    <3>1. save \in Save /\ save.version = open[k].version
      BY <2>1 DEF Save
    <3>2. open' = [open EXCEPT ![k] = save]
      BY <2>5 DEF TypeOK
    <3> HIDE DEF save
    <3> QED
      BY <2>2, <3>1, <3>2
  <2> QED
    BY <1>3, <2>3, <2>4, <2>5 DEF Play
<1>4. CASE Persist(k)
  BY <1>4, WriteStep DEF Persist, OpenInv, TypeOK
<1>5. CASE Close(k)
  BY <1>5, MemoryStep DEF Close
<1> QED
  BY <1>1, <1>2, <1>3, <1>4, <1>5

\* The invariant always holds: of Init and Next, as Startup has them.
THEOREM StartupInvariant == Spec => []StartupInv
<1>1. StartupInv /\ [Next]_vars => StartupInv'
  BY StartStep, TxStep, CommitStep, SaveStep DEF Next
<1> QED
  BY <1>1, StartupInit, PTL DEF Spec

\* Wherever a process dies, user_version and state_version tell the truth.
THEOREM VersionsAreTold == Spec => []DatabaseTellsVersions
<1>1. StartupInv => DatabaseTellsVersions
  BY DEF StartupInv, DatabaseTellsVersions, DatabaseInv, RowInv, ProcInv
<1> QED
  BY <1>1, StartupInvariant, PTL

\* No start and no write of any release loses a row, or puts an older payload or
\* one that its writer could not read in the place of another.
THEOREM NeverDowngraded == Spec => NothingIsDowngraded
<1> DEFINE A == /\ db'.version >= db.version
                /\ \A k \in Key : db.rows[k] # None =>
                      /\ db'.rows[k] # None
                      /\ db'.rows[k].save.version >= db.rows[k].save.version
                      /\ \/ db'.rows[k].save = db.rows[k].save
                         \/ db.rows[k].save.version <= Current
<1>1. StartupInv /\ [Next]_vars => [A]_vars
  <2> SUFFICES ASSUME StartupInv, Next PROVE A
    OBVIOUS
  <2> USE DEF StartupInv
  <2>1. db.version \in Nat /\ \A k \in Key : db.rows[k] # None => db.rows[k].save.version \in {1, 2, 3}
    BY DEF TypeOK, Database, Row, Save
  <2>2. CASE db' = db
    BY <2>1, <2>2
  <2>3. CASE Commit
    BY <2>1, <2>3, CommitEffect
  <2>4. ASSUME NEW k \in Key, CreateSave(k) PROVE A
    <3>1. Current \in {1, 2, 3}
      BY <2>4 DEF CreateSave, Current, ProcInv
    <3>2. FreshSave(Current) \in Save /\ FreshSave(Current).version = Current
      BY <3>1, FreshIsSave
    <3>3. \A j \in Key : db.rows[j] # None => j # k /\ db'.rows[j] = db.rows[j]
      BY <2>4, <3>2, WriteEffect DEF CreateSave
    <3>4. db'.version = db.version
      BY <2>4, <3>2, WriteEffect DEF CreateSave
    <3> QED
      BY <2>1, <3>3, <3>4
  <2>5. ASSUME NEW k \in Key, Persist(k) PROVE A
    <3>1. /\ open[k] \in Save /\ open[k].version = Current /\ proc = "serving"
          /\ db.rows[k].save.version <= Current
      BY <2>5 DEF Persist, TypeOK, OpenInv
    <3>2. /\ db'.version = db.version
          /\ db'.rows[k] = Stored(open[k]) /\ Stored(open[k]) \in Row
          /\ \A j \in Key \ {k} : db'.rows[j] = db.rows[j]
      BY <2>5, <3>1, WriteEffect DEF Persist
    <3>3. Stored(open[k]).save = open[k]
      BY DEF Stored
    <3> QED
      BY <2>1, <3>1, <3>2, <3>3
  <2>6. db' = db \/ Commit \/ \E k \in Key : CreateSave(k) \/ Persist(k)
    BY DEF Next, Start, Down, ReadVersion, BeginTx, Apply, Bump, Serve,
        OpenSave, Play, Close
  <2> QED
    BY <2>2, <2>3, <2>4, <2>5, <2>6
<1>2. Spec => [][A]_vars
  BY <1>1, StartupInvariant, PTL DEF Spec
<1> QED
  BY <1>2 DEF NothingIsDowngraded

-----------------------------------------------------------------------------
(* Upgrades.                                                               *)

\* The flags of plots came with version 3.
Unflagged(save) == save.version < 3 => \A p \in Plot : save.auto[p] = {}

FlagsInv ==
    \A k \in Key :
        /\ db.rows[k] # None => Unflagged(db.rows[k].save)
        /\ open[k] # None => Unflagged(open[k])

\* An upgrade keeps the automation of every plot, and a choice once there is one.
LEMMA DecodedKeeps ==
    ASSUME NEW save \in Save, NEW version \in {1, 2, 3}, save.version <= version,
           Unflagged(save)
    PROVE  /\ Unflagged(Decoded(save, version))
           /\ \A p \in Plot : Automated(Decoded(save, version), p) = Automated(save, p)
           /\ version >= 2 =>
                Decoded(save, version).flavor = (save.flavor \/ save.version < 2)
<1> DEFINE two == ToVersion2(save)
           three == ToVersion3(two)
<1>1. /\ two \in Save /\ two.version = IF save.version < 2 THEN 2 ELSE save.version
      /\ two.tools = save.tools /\ two.auto = save.auto
      /\ two.flavor = (save.flavor \/ save.version < 2)
  BY DEF ToVersion2, Save
<1>2. /\ three.version = 3 /\ three.flavor = two.flavor
      /\ \A p \in Plot : three.auto[p] = Automated(two, p)
  <2> HIDE DEF two
  <2>1. CASE two.version = 3
    BY <1>1, <2>1 DEF ToVersion3, Automated
  <2>2. CASE two.version # 3
    <3>1. two.version < 3 /\ save.version < 3
      BY <1>1, <2>2 DEF Save
    <3>2. three = [two EXCEPT !.version = 3,
                              !.auto = [p \in Plot |-> two.auto[p] \cup two.tools]]
      BY <3>1 DEF ToVersion3
    <3>3. /\ three.version = 3 /\ three.flavor = two.flavor
          /\ three.auto = [p \in Plot |-> two.auto[p] \cup two.tools]
      BY <1>1, <3>2 DEF Save
    <3> QED
      BY <1>1, <3>1, <3>3 DEF Unflagged, Automated
  <2> QED
    BY <2>1, <2>2
<1>3. \A p \in Plot : Automated(two, p) = Automated(save, p)
  BY <1>1 DEF Automated, Save
<1>4. Unflagged(two)
  BY <1>1 DEF Unflagged, Save
<1>5. save.version \in {1, 2, 3}
  BY DEF Save
<1> HIDE DEF two, three
<1>6. CASE version = 1
  BY <1>6 DEF Decoded
<1>7. CASE version = 2
  <2>1. Decoded(save, version) = two
    BY <1>7 DEF Decoded, two
  <2> QED
    BY <1>1, <1>3, <1>4, <2>1
<1>8. CASE version = 3
  <2>1. Decoded(save, version) = three
    BY <1>8 DEF Decoded, three, two
  <2> QED
    BY <1>1, <1>2, <1>3, <2>1 DEF Unflagged, Automated
<1> QED
  BY <1>6, <1>7, <1>8

\* No step turns a flag on that the stored save had off.
LEMMA FlagsStep ==
    ASSUME StartupInv, FlagsInv, [Next]_vars
    PROVE  FlagsInv'
<1> USE DEF StartupInv
<1>1. CASE UNCHANGED <<db, open>>
  BY <1>1 DEF FlagsInv, Unflagged
<1>2. CASE Down
  BY <1>2 DEF Down, FlagsInv, Unflagged
<1>3. CASE Commit
  <2>1. open' = open
    BY <1>3 DEF Commit
  <2> QED
    BY <1>3, <2>1, CommitEffect DEF FlagsInv, Unflagged
<1>4. ASSUME NEW k \in Key, CreateSave(k) PROVE FlagsInv'
  <2>1. Current \in {1, 2, 3}
    BY <1>4 DEF CreateSave, Current, ProcInv
  <2>2. FreshSave(Current) \in Save /\ FreshSave(Current).version = Current
    BY <2>1, FreshIsSave
  <2>3. Unflagged(FreshSave(Current))
    BY DEF Unflagged, FreshSave
  <2>4. /\ db'.rows[k].save = FreshSave(Current)
        /\ \A j \in Key \ {k} : db'.rows[j] = db.rows[j]
    BY <1>4, <2>2, WriteEffect DEF CreateSave, Stored
  <2>5. /\ open'[k] = FreshSave(Current)
        /\ \A j \in Key \ {k} : open'[j] = open[j]
    BY <1>4 DEF CreateSave, TypeOK
  <2> QED
    BY <2>3, <2>4, <2>5 DEF FlagsInv, Unflagged
<1>5. ASSUME NEW k \in Key, OpenSave(k) PROVE FlagsInv'
  <2>1. /\ Current \in {1, 2, 3} /\ db.rows[k].save \in Save
        /\ db.rows[k].save.version <= Current /\ Unflagged(db.rows[k].save)
    BY <1>5 DEF OpenSave, Current, ProcInv, TypeOK, Database, Row, FlagsInv
  <2>2. Unflagged(Decoded(db.rows[k].save, Current))
    BY <2>1, DecodedKeeps
  <2>3. /\ open'[k] = Decoded(db.rows[k].save, Current)
        /\ \A j \in Key \ {k} : open'[j] = open[j]
        /\ db' = db
    BY <1>5 DEF OpenSave, TypeOK
  <2> QED
    BY <2>2, <2>3 DEF FlagsInv, Unflagged
<1>6. ASSUME NEW k \in Key, Play(k) PROVE FlagsInv'
  <2>1. open[k] \in Save /\ db' = db /\ \A j \in Key \ {k} : open'[j] = open[j]
    BY <1>6 DEF Play, TypeOK
  <2>2. \/ open'[k].version = 3
        \/ open'[k].auto = open[k].auto /\ open'[k].version = open[k].version
    BY <1>6, <2>1 DEF Play, TypeOK, Save
  <2> QED
    BY <1>6, <2>1, <2>2 DEF FlagsInv, Unflagged, Play
<1>7. ASSUME NEW k \in Key, Persist(k) PROVE FlagsInv'
  <2>1. open[k] \in Save /\ open[k].version = Current /\ proc = "serving"
    BY <1>7 DEF Persist, TypeOK, OpenInv
  <2>2. /\ db'.rows[k].save = open[k]
        /\ \A j \in Key \ {k} : db'.rows[j] = db.rows[j]
        /\ open' = open
    BY <1>7, <2>1, WriteEffect DEF Persist, Stored
  <2> QED
    BY <1>7, <2>2 DEF FlagsInv, Unflagged, Persist
<1>8. ASSUME NEW k \in Key, Close(k) PROVE FlagsInv'
  BY <1>8 DEF Close, TypeOK, FlagsInv, Unflagged
<1> QED
  BY <1>1, <1>2, <1>3, <1>4, <1>5, <1>6, <1>7, <1>8
  DEF Next, Start, ReadVersion, BeginTx, Apply, Bump, Serve, vars

\* A player of an older release finds, in a newer one, the automation that was
\* bought on every plot, and the flavor texts as they were set.
THEOREM UpgradesKeep == Spec => UpgradesKeepWhatWasBought
<1> DEFINE A == \A k \in Key : open[k] = None /\ open'[k] # None /\ db.rows[k] # None =>
                  LET row == db.rows[k].save IN
                  /\ \A p \in Plot : Automated(open'[k], p) = Automated(row, p)
                  /\ open'[k].version >= 2 =>
                        open'[k].flavor = (row.flavor \/ row.version < 2)
<1>1. Init => FlagsInv
  BY DEF Init, FlagsInv
<1>2. StartupInv /\ FlagsInv /\ [Next]_vars => A
  <2> SUFFICES ASSUME StartupInv, FlagsInv, [Next]_vars, NEW k \in Key,
                      open[k] = None, open'[k] # None, db.rows[k] # None
               PROVE  LET row == db.rows[k].save IN
                      /\ \A p \in Plot : Automated(open'[k], p) = Automated(row, p)
                      /\ open'[k].version >= 2 =>
                            open'[k].flavor = (row.flavor \/ row.version < 2)
    OBVIOUS
  <2> USE DEF StartupInv
  <2>1. OpenSave(k)
    BY DEF Next, Start, ReadVersion, BeginTx, Apply, Bump, Commit, Serve, Down,
        CreateSave, OpenSave, Play, Persist, Close, vars, TypeOK
  <2>2. /\ Current \in {1, 2, 3} /\ db.rows[k].save \in Save
        /\ db.rows[k].save.version <= Current /\ Unflagged(db.rows[k].save)
    BY <2>1 DEF OpenSave, Current, ProcInv, TypeOK, Database, Row, FlagsInv
  <2>3. /\ open'[k] = Decoded(db.rows[k].save, Current)
        /\ open'[k].version = Current
    BY <2>1, <2>2, DecodedSave DEF OpenSave, TypeOK
  <2> QED
    BY <2>2, <2>3, DecodedKeeps
<1>3. Spec => []FlagsInv
  BY <1>1, FlagsStep, StartupInvariant, PTL DEF Spec
<1>4. Spec => [][A]_vars
  BY <1>2, <1>3, StartupInvariant, PTL DEF Spec
<1> QED
  BY <1>4 DEF UpgradesKeepWhatWasBought

-----------------------------------------------------------------------------
(* Configurations.                                                         *)

\* What the store takes as a slot, and the empty one.
Slots == {s \in Seq(SlotChar) : Len(s) <= maxSlotLen}

\* The step of SanitizeSlot.
Takes(raw) ==
    [q \in Nat \X Slots |->
        IF ToLower(raw[q[1]]) \in SlotChar /\ Len(q[2]) < maxSlotLen
        THEN Append(q[2], ToLower(raw[q[1]])) ELSE q[2]]

\* The loop of SanitizeSlot never leaves the slots.
LEMMA SlotLoop ==
    ASSUME NEW raw \in Seq(Char)
    PROVE  \E slot : /\ slot[0] = <<>>
                     /\ \A i \in 1 .. Len(raw) : slot[i] = Takes(raw)[<<i, slot[i - 1]>>]
                     /\ \A i \in 0 .. Len(raw) : slot[i] \in Slots
                     /\ SanitizeSlot(raw) = slot[Len(raw)]
<1> DEFINE n == Len(raw)
<1>1. n \in Nat /\ <<>> \in Slots
  BY ConfigAssumption DEF Slots
<1>2. \A q \in Nat \X Slots : Takes(raw)[q] \in Slots
  <2> SUFFICES ASSUME NEW i \in Nat, NEW s \in Slots
               PROVE  Takes(raw)[<<i, s>>] \in Slots
    OBVIOUS
  <2> DEFINE c == ToLower(raw[i])
  <2>1. Takes(raw)[<<i, s>>] = IF c \in SlotChar /\ Len(s) < maxSlotLen
                               THEN Append(s, c) ELSE s
    BY DEF Takes
  <2> HIDE DEF c
  <2>2. c \in SlotChar /\ Len(s) < maxSlotLen => Append(s, c) \in Slots
    BY ConfigAssumption DEF Slots
  <2> QED
    BY <2>1, <2>2
<1>3. PICK g : IsRun(g, <<>>, Takes(raw), Slots, n)
  <2>1. Keeps(Takes(raw), Slots, n)
    BY <1>1, <1>2 DEF Keeps
  <2> QED
    BY <1>1, <2>1, LoopExists
<1>4. /\ g \in [0 .. n -> Slots] /\ g[0] = <<>>
      /\ \A i \in 1 .. n : g[i] = Takes(raw)[<<i, g[i - 1]>>]
  BY <1>3 DEF IsRun
<1> DEFINE W(f) == [i \in 0 .. n |->
               IF i = 0 THEN <<>>
               ELSE IF ToLower(raw[i]) \in SlotChar /\ Len(f[i - 1]) < maxSlotLen
               THEN Append(f[i - 1], ToLower(raw[i])) ELSE f[i - 1]]
           slot == CHOOSE f : f = W(f)
<1>5. \A f : \A i \in 1 .. n : f[i - 1] \in Slots =>
         W(f)[i] = Takes(raw)[<<i, f[i - 1]>>]
  BY DEF Takes
<1>6. g = W(g)
  <2>1. ASSUME NEW i \in 0 .. n PROVE g[i] = W(g)[i]
    <3>1. CASE i = 0
      BY <1>1, <1>4, <3>1
    <3>2. CASE i # 0
      <4>1. i \in 1 .. n /\ i - 1 \in 0 .. n
        BY <1>1, <3>2
      <4> HIDE DEF W
      <4> QED
        BY <1>4, <1>5, <4>1
    <3> QED
      BY <3>1, <3>2
  <2>2. g = [i \in 0 .. n |-> g[i]] /\ W(g) = [i \in 0 .. n |-> W(g)[i]]
    BY <1>4
  <2> HIDE DEF W
  <2> QED
    BY <2>1, <2>2
<1>7. slot = W(slot)
  BY <1>6
<1>8. SanitizeSlot(raw) = slot[n]
  BY DEF SanitizeSlot
<1> HIDE DEF slot
<1>9. slot[0] = <<>> /\ \A i \in 1 .. n : slot[i] = W(slot)[i]
  <2>1. ASSUME NEW i \in 0 .. n PROVE slot[i] = W(slot)[i]
    BY <1>7
  <2>2. W(slot)[0] = <<>>
    BY <1>1
  <2> HIDE DEF W
  <2> QED
    BY <1>1, <2>1, <2>2
<1> HIDE DEF W
<1>10. \A i \in 0 .. n : slot[i] \in Slots
  <2>1. ASSUME NEW i \in 1 .. n, slot[i - 1] \in Slots PROVE slot[i] \in Slots
    <3>1. slot[i] = Takes(raw)[<<i, slot[i - 1]>>]
      BY <1>5, <1>9, <2>1
    <3>2. <<i, slot[i - 1]>> \in Nat \X Slots
      BY <1>1, <2>1
    <3> QED
      BY <1>2, <3>1, <3>2
  <2> QED
    BY <1>1, <1>9, <2>1, LoopStays
<1>11. ASSUME NEW i \in 1 .. n PROVE slot[i] = Takes(raw)[<<i, slot[i - 1]>>]
  <2>1. slot[i - 1] \in Slots
    BY <1>1, <1>10
  <2>2. slot[i] = W(slot)[i]
    BY <1>9
  <2> QED
    BY <1>5, <2>1, <2>2
<1> QED
  BY <1>8, <1>9, <1>10, <1>11

\* A slot is short enough for the store and has only what it may have.
LEMMA SanitizedIsSlot ==
    ASSUME NEW raw \in Seq(Char)
    PROVE  SanitizeSlot(raw) \in Slots
BY SlotLoop

\* A slot may be a user name.
LEMMA SlotIsName ==
    ASSUME NEW s \in Slots
    PROVE  s \in Seq(Char) /\ \A i \in DOMAIN s : s[i] \in SlotChar
<1>1. s \in Seq(SlotChar)
  BY DEF Slots
<1>2. Len(s) \in Nat /\ DOMAIN s = 1 .. Len(s) /\ \A i \in 1 .. Len(s) : s[i] \in SlotChar
  BY <1>1
<1>3. SlotChar \subseteq Char
  BY DEF Char
<1>4. s = [i \in 1 .. Len(s) |-> s[i]]
  BY <1>1
<1>5. [i \in 1 .. Len(s) |-> s[i]] \in Seq(Char)
  BY <1>2, <1>3, IsASeq
<1> QED
  BY <1>2, <1>4, <1>5

\* A slot that is sanitized again is still there.
LEMMA SlotSurvives ==
    ASSUME NEW raw \in Slots, raw # <<>>
    PROVE  SanitizeSlot(raw) # <<>>
<1>1. raw \in Seq(Char) /\ Len(raw) \in Nat \ {0}
  BY SlotIsName DEF Slots
<1>2. PICK slot : /\ slot[0] = <<>>
                  /\ \A i \in 1 .. Len(raw) : slot[i] = Takes(raw)[<<i, slot[i - 1]>>]
                  /\ \A i \in 0 .. Len(raw) : slot[i] \in Slots
                  /\ SanitizeSlot(raw) = slot[Len(raw)]
  BY <1>1, SlotLoop
<1>3. \A i \in 1 .. Len(raw) : ToLower(raw[i]) \in SlotChar
  <2>1. \A c \in SlotChar : ToLower(c) = c
    BY DEF SlotChar, ToLower
  <2> QED
    BY <1>1, <2>1, SlotIsName
<1>4. \A i \in 1 .. Len(raw), s \in Slots :
         Takes(raw)[<<i, s>>] = IF Len(s) < maxSlotLen
                                THEN Append(s, ToLower(raw[i])) ELSE s
  BY <1>3 DEF Takes
<1>5. ASSUME NEW i \in 1 .. Len(raw), NEW s \in Slots
      PROVE  Takes(raw)[<<i, s>>] # <<>>
  <2> DEFINE c == ToLower(raw[i])
  <2>1. Takes(raw)[<<i, s>>] = IF Len(s) < maxSlotLen THEN Append(s, c) ELSE s
    BY <1>4
  <2> HIDE DEF c
  <2>2. s \in Seq(SlotChar) /\ Len(s) \in Nat /\ Len(Append(s, c)) = Len(s) + 1
    BY DEF Slots
  <2>3. ~(Len(s) < maxSlotLen) => Len(s) # 0
    BY <2>2, ConfigAssumption
  <2>4. Len(Takes(raw)[<<i, s>>]) # 0
    BY <2>1, <2>2, <2>3
  <2> QED
    BY <2>4
<1>6. Len(raw) \in 1 .. Len(raw) /\ slot[Len(raw) - 1] \in Slots
  BY <1>1, <1>2
<1>7. slot[Len(raw)] = Takes(raw)[<<Len(raw), slot[Len(raw) - 1]>>]
  BY <1>2, <1>6
<1> QED
  BY <1>2, <1>5, <1>6, <1>7

\* The configuration of a process that starts is one that Load accepted.
ConfigInv ==
    proc = "starting" =>
        \E env \in Environment : Accepts(env) /\ cfg = Loaded(env)

\* Every configuration that Load accepts is one that the server can serve with,
\* whatever the user's name.
LEMMA AcceptedIsServed ==
    ASSUME NEW env \in Environment, Accepts(env), cfg = Loaded(env)
    PROVE  /\ cfg.maxSessionsPerKey \in Nat \ {0}
           /\ cfg.maxConnections \in Nat \ {0}
           /\ cfg.sessionPolicy \in {"takeover", "refuse"}
           /\ \A name \in Seq(Char) :
                 SlotPattern(ResolveSlot(name, cfg.defaultSlot))
<1>1. /\ cfg.maxSessionsPerKey = EnvOr(env.maxSessionsPerKey, 2)
      /\ cfg.maxConnections = EnvOr(env.maxConnections, 100)
      /\ cfg.defaultSlot = SanitizeSlot(EnvOr(env.defaultSlot, <<"a">>))
  BY DEF Loaded
<1>2. /\ cfg.maxSessionsPerKey >= 1 /\ cfg.maxConnections >= 1
      /\ cfg.sessionPolicy \in {"takeover", "refuse"}
      /\ cfg.defaultSlot # <<>>
      /\ env.maxSessionsPerKey # Junk /\ env.maxConnections # Junk
  BY DEF Accepts, Parses
<1>3. cfg.maxSessionsPerKey \in Int /\ cfg.maxConnections \in Int
  BY <1>1, <1>2, EnvironmentAssumption DEF EnvOr
<1>4. cfg.defaultSlot \in Slots
  <2>1. <<"a">> \in Seq(Char)
    BY DEF Char, SlotChar
  <2>2. EnvOr(env.defaultSlot, <<"a">>) \in Seq(Char)
    BY <2>1, EnvironmentAssumption DEF EnvOr
  <2> QED
    BY <1>1, <2>2, SanitizedIsSlot
<1>5. ASSUME NEW name \in Seq(Char)
      PROVE  SlotPattern(ResolveSlot(name, cfg.defaultSlot))
  <2>1. cfg.defaultSlot \in Seq(Char)
    BY <1>4, SlotIsName
  <2>2. /\ SanitizeSlot(name) \in Slots
        /\ SanitizeSlot(cfg.defaultSlot) \in Slots
        /\ SanitizeSlot(cfg.defaultSlot) # <<>>
    BY <1>2, <1>4, <2>1, SanitizedIsSlot, SlotSurvives
  <2>3. \A s \in Slots : s # <<>> => SlotPattern(s)
    BY ConfigAssumption DEF Slots, SlotPattern
  <2> QED
    BY <2>2, <2>3 DEF ResolveSlot
<1> QED
  BY <1>2, <1>3, <1>5

\* A server that starts has limits that the gate and the manager can work with,
\* and no player is refused for a name.
THEOREM StartsConfigured == Spec => []ConfiguredAsAssumed
<1>1. Init => ConfigInv
  BY DEF Init, ConfigInv
<1>2. ConfigInv /\ [Next]_vars => ConfigInv'
  BY DEF Next, Start, ReadVersion, BeginTx, Apply, Bump, Commit, Serve, Down,
      CreateSave, OpenSave, Play, Persist, Close, vars, ConfigInv
<1>3. ConfigInv => ConfiguredAsAssumed
  <2> SUFFICES ASSUME ConfigInv, proc = "starting" PROVE ConfiguredAsAssumed
    BY DEF ConfiguredAsAssumed
  <2>1. PICK env \in Environment : Accepts(env) /\ cfg = Loaded(env)
    BY DEF ConfigInv
  <2>2. \A n \in 0 .. maxSlotLen + 2 : [1 .. n -> Char] \subseteq Seq(Char)
    BY ConfigAssumption
  <2> QED
    BY <2>1, <2>2, AcceptedIsServed DEF ConfiguredAsAssumed
<1> QED
  BY <1>1, <1>2, <1>3, PTL DEF Spec

=============================================================================
