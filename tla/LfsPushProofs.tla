---------------------------- MODULE LfsPushProofs ----------------------------
(***************************************************************************)
(* SilentMeansPushed for every set of objects: a push_objects call that    *)
(* printed that it completed and printed no fatal line left every object  *)
(* of its pointer blobs on the LFS server.                                 *)
(***************************************************************************)
EXTENDS LfsPush, TLAPS

(* What the batch answer still owes while the uploads run: an object the  *)
(* server said it has is on the server, and until a fatal line every      *)
(* pointed-to object is on the server or still has its answer in resp.    *)
(* SilentMeansPushed alone is not inductive: it says nothing before       *)
(* Complete, and Complete only checks that resp is used up.               *)
RespState ==
    /\ \A r \in resp : r.kind = "exists" => r.oid \in server
    /\ pc \in {"upload", "completed"} /\ ~fatal =>
         \A o \in pointers : o \in server \/ \E r \in resp : r.oid = o
    /\ pc = "completed" => resp = {}

IInv == TypeOK /\ RespState

LEMMA InitIInv == Init => IInv
BY DEF Init, IInv, TypeOK, RespState

LEMMA StepIInv == IInv /\ [Next]_vars => IInv'
<1> SUFFICES ASSUME IInv, [Next]_vars PROVE IInv'
  OBVIOUS
<1>1. CASE CheckLocal
  BY <1>1 DEF CheckLocal, IInv, TypeOK, RespState
<1>2. CASE Batch
  <2>1. PICK a \in [pointers -> Kinds] :
               /\ \A o \in pointers : a[o] \in Answers(o)
               /\ resp' = {[oid |-> o, kind |-> a[o]] : o \in pointers}
    BY <1>2 DEF Batch
  <2>2. \A o \in pointers : a[o] = "exists" => o \in server
    BY <2>1, LfsPushAssumption DEF Answers
  <2>3. TypeOK'
    BY <1>2, <2>1 DEF Batch, IInv, TypeOK, Representations
  <2>4. \A r \in resp' : r.kind = "exists" => r.oid \in server'
    <3> SUFFICES ASSUME NEW o \in pointers, a[o] = "exists" PROVE o \in server'
      BY <2>1
    <3> QED
      BY <1>2, <2>2 DEF Batch
  <2>5. \A o \in pointers' : o \in server' \/ \E r \in resp' : r.oid = o
    <3> SUFFICES ASSUME NEW o \in pointers PROVE \E r \in resp' : r.oid = o
      BY <1>2 DEF Batch
    <3>1. [oid |-> o, kind |-> a[o]] \in resp'
      BY <2>1
    <3> QED
      BY <3>1
  <2>6. RespState'
    BY <1>2, <2>4, <2>5 DEF Batch, RespState
  <2>7. QED
    BY <2>3, <2>6 DEF IInv
<1>3. CASE UploadObject
  <2>1. PICK r \in resp :
          /\ resp' = resp \ {r}
          /\ \/ r.kind \in {"error", "noupload"} /\ fatal' = TRUE /\ UNCHANGED server
             \/ r.kind = "exists" /\ UNCHANGED <<server, fatal>>
             \/ r.kind = "upload" /\ server' = server \cup {r.oid} /\ UNCHANGED fatal
             \/ r.kind = "upload" /\ MayFail /\ fatal' = TRUE /\ UNCHANGED server
    BY <1>3 DEF UploadObject
  <2>2. UNCHANGED <<pointers, local, pc>> /\ pc = "upload"
    BY <1>3 DEF UploadObject
  <2>3. server \subseteq server'
    BY <2>1
  <2>4. ~fatal' => r.oid \in server'
    BY <2>1 DEF IInv, RespState
  <2>5. TypeOK'
    BY <2>1, <2>2, <2>3 DEF IInv, TypeOK, Representations
  <2>6. RespState'
    BY <2>1, <2>2, <2>3, <2>4 DEF IInv, RespState
  <2>7. QED
    BY <2>5, <2>6 DEF IInv
<1>4. CASE Complete
  BY <1>4 DEF Complete, IInv, TypeOK, RespState
<1>5. CASE UNCHANGED vars
  BY <1>5 DEF vars, IInv, TypeOK, RespState
<1>6. QED
  BY <1>1, <1>2, <1>3, <1>4, <1>5 DEF Next

(* The push reports its outcome: whatever each object's answer from the   *)
(* server, push_objects prints "LFS objects push completed." without a    *)
(* fatal line only after every object of its pointer blobs is on the      *)
(* server (upload_object's error, missing-link and failed-PUT paths all   *)
(* print one).                                                             *)
THEOREM PushReported == Spec => []SilentMeansPushed
<1>1. IInv => SilentMeansPushed
  BY DEF IInv, RespState, SilentMeansPushed
<1>2. QED
  BY InitIInv, StepIInv, <1>1, PTL DEF Spec

=============================================================================
