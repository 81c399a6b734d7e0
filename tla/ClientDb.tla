------------------------------ MODULE ClientDb ------------------------------
(***************************************************************************)
(* The client's SQLite database file (src/client/src/db.rs):              *)
(* create_database checks that the file is absent, creates it, connects   *)
(* through establish_connection and creates the reference and            *)
(* config_entry tables, returning at the first error.  The caller runs    *)
(* create_database again after an error, up to MaxCalls calls.  Each call *)
(* that can fail (File::create, Database::connect, each CREATE TABLE) may *)
(* fail when MayFail holds.  Every filesystem or database call is a step. *)
(***************************************************************************)
EXTENDS Naturals

CONSTANTS
    MaxCalls,   \* the most create_database calls the caller makes
    MayFail     \* whether file and database calls may fail

ASSUME ClientDbAssumption == MaxCalls \in Nat \ {0} /\ MayFail \in BOOLEAN

Tables == {"reference", "config_entry"}

VARIABLES
    file,     \* whether the database file exists
    tables,   \* the tables the file holds
    pc,       \* where the running call is
    calls,    \* create_database calls made so far
    result    \* what the last call returned

vars == <<file, tables, pc, calls, result>>

\* The outcomes of a call that may fail.
Outcomes == IF MayFail THEN {TRUE, FALSE} ELSE {TRUE}

Init ==
    /\ file = FALSE /\ tables = {}
    /\ pc = "idle" /\ calls = 0 /\ result = "none"

Return(r) == pc' = "idle" /\ result' = r

(* setup_database(&conn).await.map_err(..): any error of the schema setup *)
(* is returned as ErrorKind::Other.                                        *)
SetupError == Return("Other") /\ UNCHANGED tables

(* Mutant of CreateDatabase: the AlreadyExists check is left out.         *)
CreateDatabaseNoCheck ==
    /\ pc = "idle" /\ calls < MaxCalls
    /\ calls' = calls + 1
    /\ pc' = "create" /\ UNCHANGED result
    /\ UNCHANGED <<file, tables>>

(* create_database: the file must not exist yet (AlreadyExists).          *)
CreateDatabase ==
    /\ pc = "idle" /\ calls < MaxCalls
    /\ calls' = calls + 1
    /\ IF file THEN Return("AlreadyExists") ELSE pc' = "create" /\ UNCHANGED result
    /\ UNCHANGED <<file, tables>>

(* std::fs::File::create(db_path): creates (or truncates) the file.       *)
CreateFile ==
    /\ pc = "create"
    /\ \E ok \in Outcomes :
         IF ok THEN file' = TRUE /\ tables' = {} /\ pc' = "connect" /\ UNCHANGED result
         ELSE Return("Other") /\ UNCHANGED <<file, tables>>
    /\ UNCHANGED calls

(* establish_connection: NotFound without the file, else                  *)
(* Database::connect; create_database turns any error into "Failed to     *)
(* connect to new database".                                               *)
EstablishConnection ==
    /\ pc = "connect"
    /\ \E ok \in Outcomes :
         IF file /\ ok THEN pc' = "reference" /\ UNCHANGED result
         ELSE Return("Other")
    /\ UNCHANGED <<file, tables, calls>>

(* Mutant of SetupReference: the error of the first CREATE TABLE is       *)
(* dropped and setup goes on.                                              *)
SetupReferenceIgnoreError ==
    /\ pc = "reference"
    /\ \E ok \in Outcomes :
         /\ tables' = IF ok THEN tables \cup {"reference"} ELSE tables
         /\ pc' = "config_entry"
    /\ UNCHANGED <<file, calls, result>>

(* setup_database: CREATE TABLE reference; an error is returned.          *)
SetupReference ==
    /\ pc = "reference"
    /\ \E ok \in Outcomes :
         IF ok THEN tables' = tables \cup {"reference"} /\ pc' = "config_entry" /\ UNCHANGED result
         ELSE SetupError
    /\ UNCHANGED <<file, calls>>

(* setup_database: CREATE TABLE config_entry, then Ok(()).                *)
SetupConfigEntry ==
    /\ pc = "config_entry"
    /\ \E ok \in Outcomes :
         IF ok THEN tables' = tables \cup {"config_entry"} /\ Return("Ok")
         ELSE SetupError
    /\ UNCHANGED <<file, calls>>

Next ==
    \/ CreateDatabase \/ CreateFile \/ EstablishConnection
    \/ SetupReference \/ SetupConfigEntry

Spec == Init /\ [][Next]_vars

-----------------------------------------------------------------------------
(* Type invariant.                                                          *)
TypeOK ==
    /\ file \in BOOLEAN /\ tables \subseteq Tables
    /\ pc \in {"idle", "create", "connect", "reference", "config_entry"}
    /\ calls \in 0..MaxCalls
    /\ result \in {"none", "Ok", "AlreadyExists", "Other"}

(* The doc comment of create_database: Ok(()) means the file was created *)
(* and the schema set up, so the call that returns Ok leaves both tables *)
(* in the file, although each table is created by its own statement that *)
(* may fail.  A later call of create_database on that file answers        *)
(* AlreadyExists and leaves it as it is.                                   *)
OkMeansSchema == result = "Ok" => file /\ tables = Tables

(* File::create truncates an existing file, and only the AlreadyExists   *)
(* check of an earlier step keeps create_database from reaching it with a *)
(* file there: once the database file exists it stays, and no call of     *)
(* create_database, failed or repeated, drops a table from it.            *)
FileNeverTruncated == [][file => file' /\ tables \subseteq tables']_<<file, tables>>

(* establish_connection refuses a missing file and accepts any existing  *)
(* one, as though an existing file were a database create_database had    *)
(* finished: between calls, an existing file holds both tables.           *)
FileIsDatabase == pc = "idle" /\ file => tables = Tables
=============================================================================
