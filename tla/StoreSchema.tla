----------------------------- MODULE StoreSchema -----------------------------
(***************************************************************************)
(* Opening the state file: SqliteStore::open with its migrations, and       *)
(* open_read_only, which migrates nothing.  Processes open the file at the  *)
(* same time; each reads the schema version outside the transaction that    *)
(* migrates from it, and may die between two transactions.                  *)
(*                                                                          *)
(* The schema is a set of objects (tables, columns and indexes that came    *)
(* with one version).  `odd' holds the objects somebody else made or        *)
(* altered: they bear the name and are not the canonical ones.              *)
(***************************************************************************)
EXTENDS Naturals, FiniteSets

CONSTANT Processes

VARIABLES
  file,      \* the file exists
  version,   \* schema_meta; 0 before there is one
  tables,    \* objects in the file
  odd,       \* those that are not canonical
  run,       \* the run in it: "none", "old" (older than version 5), "new"
  marked,    \* workspace_legacy_unbound names the run
  pc,        \* where each process is
  saw        \* the version each process read

database == <<file, version, tables, odd, run, marked>>

Versions == {0, 1, 2, 4, 5, 6, 7, 8}

\* The version an object came with; CREATE IF NOT EXISTS makes the first two.
Objects == {"core", "runs", "columns", "lifecycle", "runtime", "liveness", "cleanup"}
Since(o) ==
  CHOOSE v \in Versions :
    <<o, v>> \in {<<"core", 1>>, <<"runs", 2>>, <<"columns", 4>>, <<"lifecycle", 5>>,
                  <<"runtime", 6>>, <<"liveness", 7>>, <<"cleanup", 8>>}

Owned(v) == {o \in Objects : Since(o) <= v}

\* validate_base: columns only, of the tables that version had.
validate_base(v) == {o \in Owned(v) : Since(o) <= 4} \subseteq tables \ odd

validate_lifecycle_schema == "lifecycle" \in tables \ odd

\* validate6, validate7 and validate8, each on top of the one before.
validate(v) ==
  validate_lifecycle_schema /\ {o \in Owned(v) : Since(o) >= 6} \subseteq tables \ odd

Go(p, to) == pc' = [pc EXCEPT ![p] = to]

-----------------------------------------------------------------------------
\* pin_database creates the file; schema_version.
SchemaVersion(p) ==
  /\ pc[p] = "opening"
  /\ file' = TRUE
  /\ saw' = [saw EXCEPT ![p] = version]
  /\ Go(p, "seen")
  /\ UNCHANGED <<version, tables, odd, run, marked>>

\* migrate_with_fault up to its first transaction.
Dispatch(p) ==
  LET next == IF saw[p] = 8 THEN "open" ELSE IF saw[p] = 7 THEN "to8"
              ELSE IF saw[p] = 6 THEN "to7" ELSE "base"
  IN /\ pc[p] = "seen"
     /\ Go(p, IF saw[p] < 5 \/ validate(saw[p]) THEN next ELSE "refused")
     /\ UNCHANGED <<database, saw>>

\* Mutant: runs that are there already are not marked.
LegacyMarkForgotten == marked

\* LIFECYCLE_SCHEMA names every run of an older file.
LegacyMark == marked \/ (version < 5 /\ run # "none")

\* The one transaction from version 5 or older, or from nothing.  The version
\* is read again inside it.
Migrate(p) ==
  LET from == \/ version = 0 /\ tables = {}
              \/ version \in {1, 2, 4, 5} /\ validate_base(version)
                 /\ (version = 5 => validate(5))
      new == {o \in Objects : Since(o) > version /\ Since(o) >= 5}
  IN /\ pc[p] = "base"
     /\ IF from /\ new \cap tables = {}
        THEN /\ version' = 8 /\ tables' = Objects /\ marked' = LegacyMark
             /\ Go(p, "open")
        ELSE Go(p, "refused") /\ UNCHANGED <<version, tables, marked>>
     /\ UNCHANGED <<file, odd, run, saw>>

\* Mutant: the version is written after the transaction, by the next one.
migrate_v6_to_v7_late(p) ==
  /\ pc[p] = "to7"
  /\ IF "liveness" \notin tables /\ validate(6)
     THEN /\ tables' = tables \cup {"liveness"}
          /\ saw' = [saw EXCEPT ![p] = 7]
          /\ Go(p, "seen")
     ELSE Go(p, "refused") /\ UNCHANGED <<tables, saw>>
  /\ UNCHANGED <<file, version, odd, run, marked>>

\* Mutant: the migration stops at version 7.
migrate_v6_to_v7_only(p) ==
  /\ pc[p] = "to7"
  /\ IF "liveness" \notin tables /\ validate(6)
     THEN /\ version' = 7 /\ tables' = tables \cup {"liveness"}
          /\ Go(p, "open")
     ELSE Go(p, "refused") /\ UNCHANGED <<version, tables>>
  /\ UNCHANGED <<file, odd, run, marked, saw>>

\* CREATE TABLE fails when another process was first.  Version 7 is committed
\* before the step to version 8 begins.
migrate_v6_to_v7(p) ==
  /\ pc[p] = "to7"
  /\ IF "liveness" \notin tables /\ validate(6)
     THEN /\ version' = 7 /\ tables' = tables \cup {"liveness"}
          /\ saw' = [saw EXCEPT ![p] = 7]
          /\ Go(p, "seen")
     ELSE Go(p, "refused") /\ UNCHANGED <<version, tables, saw>>
  /\ UNCHANGED <<file, odd, run, marked>>

migrate_v7_to_v8(p) ==
  /\ pc[p] = "to8"
  /\ IF "cleanup" \notin tables /\ validate(7)
     THEN version' = 8 /\ tables' = tables \cup {"cleanup"} /\ Go(p, "open")
     ELSE Go(p, "refused") /\ UNCHANGED <<version, tables>>
  /\ UNCHANGED <<file, odd, run, marked, saw>>

Open(p) ==
  \/ SchemaVersion(p) \/ Dispatch(p) \/ Migrate(p)
  \/ migrate_v6_to_v7(p) \/ migrate_v7_to_v8(p)

-----------------------------------------------------------------------------
\* open_read_only: no file is no error.
SeeReadOnly(p, from, none) ==
  /\ pc[p] = from
  /\ saw' = [saw EXCEPT ![p] = version]
  /\ Go(p, IF file THEN "peek" ELSE none)
  /\ UNCHANGED database

\* SchemaUpgradeRequired below version 7.
ReadOnlyOpens(p) == saw[p] >= 7 /\ validate(saw[p])

-----------------------------------------------------------------------------
\* A file of any version, as it was left, or with one object of another origin.
SchemaInit ==
  /\ version \in Versions
  /\ \E o \in Objects, alien \in BOOLEAN :
       \/ tables = Owned(version) /\ odd = {}
       \/ o \in Owned(version) /\ tables = Owned(version) /\ odd = {o}
       \/ /\ alien /\ Since(o) >= 5 /\ o \notin Owned(version)
          /\ tables = Owned(version) \cup {o} /\ odd = {o}
  /\ run \in IF version < 2 THEN {"none"} ELSE IF version < 5 THEN {"old"} ELSE {"old", "new"}
  /\ marked = (version >= 5 /\ run = "old")
  /\ file = (tables # {})
  /\ saw = [p \in Processes |-> 0]

SchemaTypeOK ==
  /\ file \in BOOLEAN /\ version \in Versions
  /\ tables \subseteq Objects /\ odd \subseteq tables
  /\ run \in {"none", "old", "new"} /\ marked \in BOOLEAN
  /\ saw \in [Processes -> Versions]

\* The version and the objects in the file never part: whatever migration was
\* interrupted, overtaken or refused, every object of the version is there and
\* none of a later one, except those that somebody else made.
SchemaMatchesVersion ==
  /\ Owned(version) \subseteq tables
  /\ tables \ Owned(version) \subseteq odd
=============================================================================
