------------------------------ MODULE LfsPush ------------------------------
(***************************************************************************)
(* LFSClient::push_objects and upload_object                               *)
(* (src/libra/src/internal/protocol/lfs_client.rs).  The pointer blobs of  *)
(* the push name LFS objects; each must be in the local object store, then *)
(* one batch request announces them and the objects of the answer are     *)
(* uploaded one after the other.  The server is the environment: for an   *)
(* object it holds it sends no actions, otherwise an upload action or,    *)
(* when MayFail, an error, actions without "upload", or a failing PUT.    *)
(***************************************************************************)

CONSTANTS
    Oids,      \* LFS object ids
    MayFail    \* whether the server may refuse or fail an object

ASSUME LfsPushAssumption == MayFail \in BOOLEAN

VARIABLES
    pointers,  \* lfs_oids: the oids of the pointer blobs being pushed
    local,     \* oids whose file is in the local LFS store
    server,    \* oids the LFS server holds
    resp,      \* the objects of the batch answer not uploaded yet
    fatal,     \* a "fatal: ..." line went to stderr
    pc

vars == <<pointers, local, server, resp, fatal, pc>>

\* LfsBatchResponse.objects: one Representation per object, which carries
\* an error, actions with or without "upload", or no actions.
Kinds == {"exists", "upload", "error", "noupload"}
Representations == [oid : Oids, kind : Kinds]

\* What the server may answer for one object.
Answers(o) ==
    IF o \in server THEN {"exists"}
    ELSE IF MayFail THEN {"upload", "error", "noupload"} ELSE {"upload"}

Init ==
    /\ pointers \in SUBSET Oids /\ local \in SUBSET Oids /\ server \in SUBSET Oids
    /\ resp = {} /\ fatal = FALSE /\ pc = "check"

(* for oid in &lfs_oids: a missing object prints a fatal line and returns *)
(* before anything is sent; the others are put in the batch request.      *)
CheckLocal ==
    /\ pc = "check"
    /\ IF pointers \subseteq local
       THEN pc' = "batch" /\ UNCHANGED fatal
       ELSE pc' = "returned" /\ fatal' = TRUE
    /\ UNCHANGED <<pointers, local, server, resp>>

(* request.send() and response.json(): one answer per requested object.  *)
Batch ==
    /\ pc = "batch"
    /\ \E a \in [pointers -> Kinds] :
         /\ \A o \in pointers : a[o] \in Answers(o)
         /\ resp' = {[oid |-> o, kind |-> a[o]] : o \in pointers}
    /\ pc' = "upload"
    /\ UNCHANGED <<pointers, local, server, fatal>>

(* Mutant of UploadObject: actions without an upload link are taken for   *)
(* an object the server already has, with no fatal line.                  *)
UploadObjectNoLinkSilent ==
    /\ pc = "upload"
    /\ \E r \in resp :
         /\ resp' = resp \ {r}
         /\ \/ r.kind = "error" /\ fatal' = TRUE /\ UNCHANGED server
            \/ r.kind \in {"exists", "noupload"} /\ UNCHANGED <<server, fatal>>
            \/ r.kind = "upload" /\ server' = server \cup {r.oid} /\ UNCHANGED fatal
            \/ r.kind = "upload" /\ MayFail /\ fatal' = TRUE /\ UNCHANGED server
    /\ UNCHANGED <<pointers, local, pc>>

(* upload_object: an error or a missing upload action prints a fatal line *)
(* and returns; no actions means the server has it; else the file is PUT, *)
(* and a failing status prints a fatal line.  File::open(..).unwrap()     *)
(* opens a file CheckLocal found; nothing of push_objects removes one, so *)
(* its panic needs another process deleting the local store meanwhile.    *)
UploadObject ==
    /\ pc = "upload"
    /\ \E r \in resp :
         /\ resp' = resp \ {r}
         /\ \/ r.kind \in {"error", "noupload"} /\ fatal' = TRUE /\ UNCHANGED server
            \/ r.kind = "exists" /\ UNCHANGED <<server, fatal>>
            \/ r.kind = "upload" /\ server' = server \cup {r.oid} /\ UNCHANGED fatal
            \/ r.kind = "upload" /\ MayFail /\ fatal' = TRUE /\ UNCHANGED server
    /\ UNCHANGED <<pointers, local, pc>>

(* println!("LFS objects push completed.") once the answer is used up.    *)
Complete ==
    /\ pc = "upload" /\ resp = {}
    /\ pc' = "completed"
    /\ UNCHANGED <<pointers, local, server, resp, fatal>>

Next == CheckLocal \/ Batch \/ UploadObject \/ Complete

Spec == Init /\ [][Next]_vars

-----------------------------------------------------------------------------
(* Type invariant.                                                          *)
TypeOK ==
    /\ pointers \subseteq Oids /\ local \subseteq Oids /\ server \subseteq Oids
    /\ resp \subseteq Representations
    /\ fatal \in BOOLEAN
    /\ pc \in {"check", "returned", "batch", "upload", "completed"}

(* push_objects returns nothing, so stderr is all its caller's user sees: *)
(* a push that printed "completed" and no fatal line left every object of  *)
(* its pointer blobs on the server, whatever each object's answer was.    *)
SilentMeansPushed == pc = "completed" /\ ~fatal => pointers \subseteq server

(* The doc comment "push LFS objects to remote server": once push_objects *)
(* prints that the push completed, the server holds every object the      *)
(* pushed pointer blobs name.                                              *)
CompletedMeansPushed == pc = "completed" => pointers \subseteq server

=============================================================================
