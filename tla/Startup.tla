------------------------------- MODULE Startup -------------------------------
(***************************************************************************)
(* Starts of the server over one database (cmd/ssh-idlefarmer/main.go,       *)
(* internal/store/migrations.go), and what becomes of the saves in it when   *)
(* an older or a newer release opens them (internal/sim/state.go).           *)
(*                                                                         *)
(* One process runs at a time.  A release is the code with the migrations    *)
(* and the payload version that it had; it may be stopped or die at any      *)
(* point, and what it had not committed is gone.                            *)
(***************************************************************************)
EXTENDS Config, FiniteSets

CONSTANTS
    Key,             \* saves
    Plot,            \* plots of a farm
    Release,         \* releases of the program
    Migrations,      \* how many migrations each has
    StateVersion,    \* the payload version each writes
    Environment,     \* environments it may be started in
    None

ASSUME StartupAssumption ==
    /\ Migrations \in [Release -> Nat \ {0}]
    /\ StateVersion \in [Release -> {1, 2, 3}]
    \* Payloads of version 2 came with the migration that adds their column
    \* (migrations.go:31-35).
    /\ \A r \in Release : StateVersion[r] > 1 => Migrations[r] >= 2

\* What variables parse to.
ASSUME EnvironmentAssumption ==
    \A env \in Environment :
        /\ env.maxSessionsPerKey \in {Unset, Junk} \cup Int
        /\ env.maxConnections \in {Unset, Junk} \cup Int
        /\ env.defaultSlot \in {Unset} \cup Seq(Char)

VARIABLES
    db,              \* the committed database
    tx,              \* the transaction of a migration, or None
    proc,            \* where main is
    release,         \* the release that runs
    cfg,             \* its configuration
    open             \* saves that its actors have in memory

vars == <<db, tx, proc, release, cfg, open>>

Tool == {"harvest", "sow"}

\* A save: the tools are those of the whole farm, until version 3, and the
\* flags those of its plots.
Save == [version: {1, 2, 3}, flavor: BOOLEAN,
         tools: SUBSET Tool, auto: [Plot -> SUBSET Tool]]

\* state_version of a row, which is 0 while there is no such column.
Row == [save: Save, column: 0 .. 3]

Database == [version: Nat, tables: Nat, rows: [Key -> Row \cup {None}]]

ASSUME NoneAssumption ==
    None \notin Save /\ None \notin Row /\ None \notin Database

TypeOK ==
    /\ db \in Database
    /\ tx \in Database \cup {None}
    /\ proc \in {"down", "starting", "migrating", "serving"}
    /\ release \in Release \cup {None}
    /\ cfg = None \/ \E env \in Environment : cfg = Loaded(env)
    /\ open \in [Key -> Save \cup {None}]

Init ==
    /\ db = [version |-> 0, tables |-> 0, rows |-> [k \in Key |-> None]]
    /\ tx = None
    /\ proc = "down"
    /\ release = None
    /\ cfg = None
    /\ open = [k \in Key |-> None]

-----------------------------------------------------------------------------
(* Starting.                                                               *)

\* main gets past config.Load; else it exits and nothing has happened.
Start(r, env) ==
    /\ proc = "down"
    /\ Accepts(env)
    /\ proc' = "starting"
    /\ release' = r
    /\ cfg' = Loaded(env)
    /\ UNCHANGED <<db, tx, open>>

\* The process ends: it is stopped, it dies, or a step of its start fails.
\* SQLite rolls an open transaction back.
Down ==
    /\ proc # "down"
    /\ proc' = "down"
    /\ release' = None
    /\ cfg' = None
    /\ tx' = None
    /\ open' = [k \in Key |-> None]
    /\ UNCHANGED db

\* The head of migrate; a database that is newer makes the start fail.
ReadVersion ==
    /\ proc = "starting"
    /\ db.version <= Migrations[release]
    /\ proc' = "migrating"
    /\ UNCHANGED <<db, tx, release, cfg, open>>

BeginTx ==
    /\ proc = "migrating"
    /\ tx = None
    /\ db.version < Migrations[release]
    /\ tx' = db
    /\ UNCHANGED <<db, proc, release, cfg, open>>

\* ALTER TABLE saves ADD COLUMN state_version NOT NULL DEFAULT 1.
WithColumn(rows) ==
    [k \in Key |-> IF rows[k] = None THEN None ELSE [rows[k] EXCEPT !.column = 1]]

\* What one migration does to a database.
Migrated(d) ==
    [d EXCEPT !.tables = @ + 1,
              !.rows = IF d.version + 1 = 2 THEN WithColumn(@) ELSE @]

\* Fault: the statements of a migration are committed one by one.
ApplyAlone ==
    /\ tx # None
    /\ tx.tables = db.tables
    /\ tx' = Migrated(tx)
    /\ db' = Migrated(tx)
    /\ UNCHANGED <<proc, release, cfg, open>>

\* The statements of the next migration.
Apply ==
    /\ tx # None
    /\ tx.tables = db.tables
    /\ tx' = Migrated(tx)
    /\ UNCHANGED <<db, proc, release, cfg, open>>

\* PRAGMA user_version = v+1.
Bump ==
    /\ tx # None
    /\ tx.tables = tx.version + 1
    /\ tx.version = db.version
    /\ tx' = [tx EXCEPT !.version = @ + 1]
    /\ UNCHANGED <<db, proc, release, cfg, open>>

Commit ==
    /\ tx # None
    /\ tx.version = db.version + 1
    /\ db' = tx
    /\ tx' = None
    /\ UNCHANGED <<proc, release, cfg, open>>

\* The manager and the server are made, and the listener is up.
Serve ==
    /\ proc = "migrating"
    /\ tx = None
    /\ db.version = Migrations[release]
    /\ proc' = "serving"
    /\ UNCHANGED <<db, tx, release, cfg, open>>

-----------------------------------------------------------------------------
(* Saves, opened and written by whichever release runs.                    *)

\* The version that the running release writes.
Current == StateVersion[release]

\* sim.New.
FreshSave(version) ==
    [version |-> version, flavor |-> version >= 2, tools |-> {},
     auto |-> [p \in Plot |-> {}]]

\* What an INSERT or an UPDATE of the running release stores.
Stored(save) == [save |-> save, column |-> IF db.tables >= 2 THEN save.version ELSE 0]

\* A step of upgradeState: flavor is on for payloads that did not have it.
ToVersion2(save) ==
    IF save.version < 2 THEN [save EXCEPT !.version = 2, !.flavor = TRUE] ELSE save

\* Fault: the sower is forgotten.
ToVersion3Harvester(save) ==
    IF save.version < 3
    THEN [save EXCEPT !.version = 3,
                      !.auto = [p \in Plot |-> @[p] \cup (save.tools \cap {"harvest"})]]
    ELSE save

\* The next one: a tool of the farm becomes a flag of each of its plots.
ToVersion3(save) ==
    IF save.version < 3
    THEN [save EXCEPT !.version = 3,
                      !.auto = [p \in Plot |-> @[p] \cup save.tools]]
    ELSE save

\* DecodeState, as of each version.
Decoded(save, version) ==
    IF version = 1 THEN save
    ELSE IF version = 2 THEN ToVersion2(save)
    ELSE ToVersion3(ToVersion2(save))

\* The first connection of a key.
CreateSave(k) ==
    /\ proc = "serving"
    /\ db.rows[k] = None
    /\ db' = [db EXCEPT !.rows[k] = Stored(FreshSave(Current))]
    /\ open' = [open EXCEPT ![k] = FreshSave(Current)]
    /\ UNCHANGED <<tx, proc, release, cfg>>

\* Fault: the version of the payload is not looked at.
OpenSaveUnchecked(k) ==
    /\ proc = "serving"
    /\ open[k] = None
    /\ db.rows[k] # None
    /\ open' = [open EXCEPT ![k] = Decoded(db.rows[k].save, Current)]
    /\ UNCHANGED <<db, tx, proc, release, cfg>>

\* A later one; a payload that is newer than the release is refused.
OpenSave(k) ==
    /\ proc = "serving"
    /\ open[k] = None
    /\ db.rows[k] # None
    /\ db.rows[k].save.version <= Current
    /\ open' = [open EXCEPT ![k] = Decoded(db.rows[k].save, Current)]
    /\ UNCHANGED <<db, tx, proc, release, cfg>>

\* The player automates: the farm, or a plot since version 3, which needs its
\* harvester before its sower; or mutes the flavor texts, since version 2.
Play(k) ==
    /\ open[k] # None
    /\ \/ \E t \in Tool :
             /\ open[k].version = 2
             /\ open' = [open EXCEPT ![k].tools = @ \cup {t}]
       \/ \E p \in Plot, t \in Tool :
             /\ open[k].version = 3
             /\ t = "sow" => "harvest" \in open[k].auto[p]
             /\ open' = [open EXCEPT ![k].auto[p] = @ \cup {t}]
       \/ /\ open[k].version >= 2
          /\ open' = [open EXCEPT ![k].flavor = ~@]
    /\ UNCHANGED <<db, tx, proc, release, cfg>>

\* actor.persist.
Persist(k) ==
    /\ open[k] # None
    /\ db' = [db EXCEPT !.rows[k] = Stored(open[k])]
    /\ UNCHANGED <<tx, proc, release, cfg, open>>

\* The actor ends, after a last write that may have failed.
Close(k) ==
    /\ open[k] # None
    /\ open' = [open EXCEPT ![k] = None]
    /\ UNCHANGED <<db, tx, proc, release, cfg>>

Next ==
    \/ \E r \in Release, env \in Environment : Start(r, env)
    \/ ReadVersion \/ BeginTx \/ Apply \/ Bump \/ Commit \/ Serve
    \/ \E k \in Key :
          CreateSave(k) \/ OpenSave(k) \/ Play(k) \/ Persist(k) \/ Close(k)
    \/ Down

Spec == Init /\ [][Next]_vars

-----------------------------------------------------------------------------
(* What starts and upgrades promise.                                       *)

\* user_version tells which tables there are and state_version which payload a
\* row has, wherever a process died (migrations.go:8-12, 31-34), so that a start
\* neither repeats nor skips a migration, and a process that serves has the
\* tables it was written for.
DatabaseTellsVersions ==
    /\ db.tables = db.version
    /\ \A k \in Key : db.rows[k] # None =>
          db.rows[k].column = IF db.version < 2 THEN 0 ELSE db.rows[k].save.version
    /\ proc = "serving" => db.version = Migrations[release]

\* Whatever release is started over the database after another: no row
\* disappears, none is written by a release that does not know all of its payload
\* (state.go:95), and neither payloads nor tables go back.
NothingIsDowngraded ==
    [][/\ db'.version >= db.version
       /\ \A k \in Key : db.rows[k] # None =>
             /\ db'.rows[k] # None
             /\ db'.rows[k].save.version >= db.rows[k].save.version
             /\ \/ db'.rows[k].save = db.rows[k].save
                \/ db.rows[k].save.version <= Current]_vars

\* What automation a plot has, by the rules of the payload's version.
Automated(save, p) == IF save.version < 3 THEN save.tools ELSE save.auto[p]

\* A release that opens a save of an older one gives its player the same
\* automation, plot by plot, and no choice of his is reset (state.go:93-95).
UpgradesKeepWhatWasBought ==
    [][\A k \in Key : open[k] = None /\ open'[k] # None /\ db.rows[k] # None =>
          LET row == db.rows[k].save IN
          /\ \A p \in Plot : Automated(open'[k], p) = Automated(row, p)
          /\ open'[k].version >= 2 =>
                open'[k].flavor = (row.flavor \/ row.version < 2)]_vars

\* A configuration that Load accepts is one that the models of the server
\* assume, and leads every user name to a slot that the store takes
\* (store.go:223): no connection is refused for its name.
ConfiguredAsAssumed ==
    proc = "starting" =>
        /\ cfg.maxSessionsPerKey \in Nat \ {0}
        /\ cfg.maxConnections \in Nat \ {0}
        /\ cfg.sessionPolicy \in {"takeover", "refuse"}
        /\ \A n \in 0 .. maxSlotLen + 2 : \A name \in [1 .. n -> Char] :
              SlotPattern(ResolveSlot(name, cfg.defaultSlot))

=============================================================================
