---------------------------- MODULE ClientDbProofs ----------------------------
(***************************************************************************)
(* OkMeansSchema for every number of calls: create_database returns Ok     *)
(* only with both tables in the file.                                      *)
(***************************************************************************)
EXTENDS ClientDb, TLAPS

(* What a call has done by each point of create_database: from the        *)
(* connection on the file exists, config_entry is created only after      *)
(* reference, and an Ok result stays only while the process is idle with  *)
(* the file it set up.  OkMeansSchema alone is not inductive: it does not *)
(* say that SetupConfigEntry finds the reference table already there.     *)
(* File::create is reached only when the check found no file.             *)
SetupState ==
    /\ result = "Ok" => pc = "idle" /\ file /\ tables = Tables
    /\ pc \in {"connect", "reference", "config_entry"} => file
    /\ pc = "config_entry" => "reference" \in tables
    /\ pc = "create" => ~file

IInv == TypeOK /\ SetupState

LEMMA InitIInv == Init => IInv
<1> SUFFICES ASSUME Init PROVE IInv
  OBVIOUS
<1>1. calls \in 0..MaxCalls
  BY ClientDbAssumption DEF Init
<1>2. file \in BOOLEAN
  BY Zenon DEF Init
<1>3. TypeOK
  BY <1>1, <1>2 DEF Init, TypeOK
<1>4. SetupState
  BY DEF Init, SetupState
<1> QED
  BY <1>3, <1>4 DEF IInv

LEMMA StepIInv == IInv /\ [Next]_vars => IInv'
<1> SUFFICES ASSUME IInv, [Next]_vars PROVE IInv'
  OBVIOUS
<1> USE ClientDbAssumption DEF IInv, TypeOK, SetupState, Return, Outcomes, Tables
<1>1. CASE CreateDatabase
  BY <1>1 DEF CreateDatabase
<1>2. CASE CreateFile
  BY <1>2 DEF CreateFile
<1>3. CASE EstablishConnection
  BY <1>3 DEF EstablishConnection
<1>4. CASE SetupReference
  BY <1>4 DEF SetupReference, SetupError
<1>5. CASE SetupConfigEntry
  <2>1. PICK ok \in Outcomes :
          IF ok THEN tables' = tables \cup {"config_entry"} /\ Return("Ok")
          ELSE SetupError
    BY <1>5 DEF SetupConfigEntry
  <2>2. CASE ok
    <3>1. tables' = Tables
      BY <1>5, <2>1, <2>2 DEF SetupConfigEntry, Tables
    <3> QED
      BY <1>5, <2>1, <2>2, <3>1 DEF SetupConfigEntry
  <2>3. CASE ~ok
    BY <1>5, <2>1, <2>3 DEF SetupConfigEntry, SetupError
  <2> QED
    BY <2>2, <2>3
<1>6. CASE UNCHANGED vars
  BY <1>6 DEF vars
<1>7. QED
  BY <1>1, <1>2, <1>3, <1>4, <1>5, <1>6 DEF Next

(* create_database's doc comment: whichever of File::create, the          *)
(* connection and the two CREATE TABLE statements fail on the way, and   *)
(* however often the caller calls again, a call that returns Ok leaves a  *)
(* file that holds both the reference and the config_entry table.         *)
THEOREM CreateOkHasSchema == Spec => []OkMeansSchema
<1>1. IInv => OkMeansSchema
  BY DEF IInv, SetupState, OkMeansSchema
<1>2. QED
  BY InitIInv, StepIInv, <1>1, PTL DEF Spec

(* create_database never truncates a database: File::create, which would  *)
(* empty an existing file, runs only after the AlreadyExists check of the *)
(* same call found no file, so once the file exists it stays and no later *)
(* call, failed or repeated, drops a table from it.                        *)
THEOREM NoTruncation == Spec => FileNeverTruncated
<1>1. IInv /\ [Next]_vars => [file => file' /\ tables \subseteq tables']_<<file, tables>>
  <2> SUFFICES ASSUME IInv, [Next]_vars
               PROVE  [file => file' /\ tables \subseteq tables']_<<file, tables>>
    OBVIOUS
  <2>1. CASE CreateFile
    BY <2>1 DEF CreateFile, IInv, SetupState
  <2>2. CASE SetupReference \/ SetupConfigEntry
    BY <2>2 DEF SetupReference, SetupConfigEntry, SetupError
  <2>3. CASE CreateDatabase \/ EstablishConnection \/ UNCHANGED vars
    BY <2>3 DEF CreateDatabase, EstablishConnection, vars
  <2> QED
    BY <2>1, <2>2, <2>3 DEF Next
<1>2. QED
  BY InitIInv, StepIInv, <1>1, PTL DEF Spec, FileNeverTruncated
=============================================================================
