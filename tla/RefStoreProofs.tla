--------------------------- MODULE RefStoreProofs ---------------------------
(***************************************************************************)
(* RefStore implements RefStoreAbs without Compare, for every set of       *)
(* sessions, ref names and ids: each ref operation of GitDbStorage takes   *)
(* effect at one step, update_ref's two calls included.                    *)
(***************************************************************************)
EXTENDS RefStore, TLAPS

Dispatched == {"save", "remove", "find", "write"}
AR == [s \in Sessions |-> AbsResult(s)]

(* What a session holds at each point: from the dispatch on a command of *)
(* the kind its pc names, no result before it is done, and a result of   *)
(* the store's vocabulary after.  TypeOK alone does not say which call   *)
(* a pending command is in.                                              *)
SessionState ==
    \A s \in Sessions :
        /\ pc[s] \in {"idle", "advertised"} => result[s] = "idle"
        /\ pc[s] = "advertised" => adv[s] \in [RefNames -> Ids \cup {NoRow}]
        /\ pc[s] \in Dispatched => cmd[s] \in Abs!Commands /\ result[s] = "idle"
        /\ pc[s] = "save" => cmd[s].old = Zero
        /\ pc[s] = "remove" => cmd[s].new = Zero /\ cmd[s].old # Zero
        /\ pc[s] \in {"find", "write"} => cmd[s].old # Zero /\ cmd[s].new # Zero
        /\ pc[s] = "done" => result[s] \in {"ok", "conflict", "panicked"}

IInv == TypeOK /\ SessionState

LEMMA InitIInv == Init => IInv
<1> SUFFICES ASSUME Init PROVE IInv
  OBVIOUS
<1>1. TypeOK
  BY RefStoreAssumption DEF Init, TypeOK, PCs, Results
<1>2. SessionState
  BY DEF Init, SessionState, Dispatched
<1>3. QED
  BY <1>1, <1>2 DEF IInv

(* The abstract result of a session, read off its pc and result.          *)
LEMMA ARValues == ASSUME IInv, NEW s \in Sessions
                  PROVE /\ pc[s] \in {"idle", "advertised"} => AR[s] = "idle"
                        /\ pc[s] \in Dispatched => AR[s] = "pending"
                        /\ pc[s] = "done" /\ result[s] = "panicked" => AR[s] = "failed"
                        /\ pc[s] = "done" /\ result[s] # "panicked" => AR[s] = result[s]
<1>1. AR[s] = AbsResult(s)
  BY DEF AR
<1>2. pc[s] \in {"idle", "advertised"} => AR[s] = "idle"
  BY <1>1 DEF AbsResult
<1>3. pc[s] \in Dispatched => AR[s] = "pending"
  BY <1>1 DEF AbsResult, Dispatched
<1>4. pc[s] = "done" /\ result[s] = "panicked" => AR[s] = "failed"
  BY <1>1 DEF AbsResult
<1>5. pc[s] = "done" /\ result[s] # "panicked" => AR[s] = result[s]
  BY <1>1 DEF AbsResult
<1>6. QED
  BY <1>2, <1>3, <1>4, <1>5

(* A step that touches one session leaves every other's abstract result. *)
LEMMA AROthers == ASSUME NEW s \in Sessions,
                         \A t \in Sessions \ {s} : pc'[t] = pc[t] /\ result'[t] = result[t]
                  PROVE \A t \in Sessions \ {s} : AR'[t] = AR[t]
BY DEF AR, AbsResult

LEMMA InitRefinement == Init => Abs!AbsInit
BY RefStoreAssumption DEF Init, Abs!AbsInit, AR, AbsResult

LEMMA StepIInv == IInv /\ [Next]_vars => IInv'
<1> SUFFICES ASSUME IInv, [Next]_vars PROVE IInv'
  OBVIOUS
<1> USE DEF IInv, TypeOK, SessionState, PCs, Results, Dispatched, Finish
<1>1. ASSUME NEW s \in Sessions, GetRef(s) PROVE IInv'
  BY <1>1 DEF GetRef
<1>2. ASSUME NEW s \in Sessions, Receive(s) PROVE IInv'
  <2>1. PICK c \in CommandsFor(adv[s]) :
          /\ cmd' = [cmd EXCEPT ![s] = c]
          /\ IF Old(refs[c.name]) # c.old
             THEN /\ pc' = [pc EXCEPT ![s] = "done"]
                  /\ result' = [result EXCEPT ![s] = "conflict"]
             ELSE /\ pc' = [pc EXCEPT ![s] = Dispatch(c)]
                  /\ UNCHANGED result
    BY <1>2 DEF Receive
  <2>2. c \in Abs!Commands
    BY <1>2 DEF Receive, CommandsFor, Abs!Commands, Old
  <2>3. UNCHANGED <<refs, rowGen, adv, found>> /\ pc[s] = "advertised"
    BY <1>2 DEF Receive
  <2>4. CASE Old(refs[c.name]) # c.old
    BY <2>1, <2>2, <2>3, <2>4 DEF Abs!Commands
  <2>5. CASE Old(refs[c.name]) = c.old
    <3>1. pc' = [pc EXCEPT ![s] = Dispatch(c)] /\ UNCHANGED result
      BY <2>1, <2>5
    <3>2. c \in Abs!Commands /\ Dispatch(c) \in Dispatched
      BY <2>2 DEF Dispatch
    <3>3. /\ Dispatch(c) = "save" => c.old = Zero
          /\ Dispatch(c) = "remove" => c.new = Zero /\ c.old # Zero
          /\ Dispatch(c) \in {"find", "write"} => c.old # Zero /\ c.new # Zero
      BY DEF Dispatch
    <3>4. TypeOK'
      BY <2>1, <2>3, <3>1, <3>2 DEF Abs!Commands
    <3>5. SessionState'
      BY <2>1, <2>3, <3>1, <3>2, <3>3
    <3>6. QED
      BY <3>4, <3>5
  <2>6. QED
    BY <2>4, <2>5
<1>3. ASSUME NEW s \in Sessions, SaveRef(s) PROVE IInv'
  <2>1. CASE refs[cmd[s].name] # NoRow
    BY <1>3, <2>1 DEF SaveRef
  <2>2. CASE refs[cmd[s].name] = NoRow
    BY <1>3, <2>2 DEF SaveRef, Abs!Commands
  <2>3. QED
    BY <2>1, <2>2
<1>4. ASSUME NEW s \in Sessions, RemoveRef(s) PROVE IInv'
  BY <1>4 DEF RemoveRef
<1>5. ASSUME NEW s \in Sessions, UpdateRefFind(s) PROVE IInv'
  <2>1. CASE refs[cmd[s].name] = NoRow
    BY <1>5, <2>1 DEF UpdateRefFind
  <2>2. CASE refs[cmd[s].name] # NoRow
    <3>1. pc[s] = "find" /\ cmd[s] \in Abs!Commands
      BY <1>5 DEF UpdateRefFind
    <3>2. rowGen[cmd[s].name] \in Nat
      BY <3>1 DEF Abs!Commands
    <3>3. QED
      BY <1>5, <2>2, <3>2 DEF UpdateRefFind
  <2>3. QED
    BY <2>1, <2>2
<1>6. ASSUME NEW s \in Sessions, UpdateRefWrite(s) PROVE IInv'
  <2>1. CASE ~SameRow(s)
    BY <1>6, <2>1 DEF UpdateRefWrite
  <2>2. CASE SameRow(s)
    BY <1>6, <2>2 DEF UpdateRefWrite, Abs!Commands
  <2>3. QED
    BY <2>1, <2>2
<1>7. CASE UNCHANGED vars
  BY <1>7 DEF vars
<1>8. QED
  BY <1>1, <1>2, <1>3, <1>4, <1>5, <1>6, <1>7 DEF Next

(* The abstract result function changes at most at the session that      *)
(* stepped.                                                               *)
LEMMA ARExcept == ASSUME NEW s \in Sessions, NEW v,
                         AR'[s] = v, \A t \in Sessions \ {s} : AR'[t] = AR[t]
                  PROVE AR' = [AR EXCEPT ![s] = v]
BY DEF AR

LEMMA ARSame == ASSUME \A t \in Sessions : AR'[t] = AR[t]
                PROVE AR' = AR
BY DEF AR

(* Every step of a session is a step of the abstract store or leaves it  *)
(* as it is.                                                              *)
LEMMA StepRefinement == IInv /\ [Next]_vars => [Abs!AbsNext]_<<refs, cmd, AR>>
<1> SUFFICES ASSUME IInv, [Next]_vars PROVE [Abs!AbsNext]_<<refs, cmd, AR>>
  OBVIOUS
<1> USE RefStoreAssumption
<1>1. ASSUME NEW s \in Sessions, GetRef(s) PROVE UNCHANGED <<refs, cmd, AR>>
  <2>1. \A t \in Sessions : pc'[t] = pc[t] \/ (t = s /\ pc[t] = "idle" /\ pc'[t] = "advertised")
    BY <1>1 DEF GetRef, IInv, TypeOK
  <2>2. \A t \in Sessions : AR'[t] = AR[t]
    BY <1>1, <2>1 DEF GetRef, AR, AbsResult
  <2>3. QED
    BY <1>1, <2>2, ARSame DEF GetRef
<1>2. ASSUME NEW s \in Sessions, Receive(s) PROVE Abs!Submit(s)
  <2>1. PICK c \in CommandsFor(adv[s]) :
          /\ cmd' = [cmd EXCEPT ![s] = c]
          /\ IF Old(refs[c.name]) # c.old
             THEN /\ pc' = [pc EXCEPT ![s] = "done"]
                  /\ result' = [result EXCEPT ![s] = "conflict"]
             ELSE /\ pc' = [pc EXCEPT ![s] = Dispatch(c)]
                  /\ UNCHANGED result
    BY <1>2 DEF Receive
  <2>2. c \in Abs!Commands /\ pc[s] = "advertised" /\ UNCHANGED <<refs, adv>>
    BY <1>2 DEF Receive, CommandsFor, Abs!Commands, Old, IInv, SessionState
  <2>3. AR[s] = "idle"
    BY <2>2, ARValues
  <2>4. \A t \in Sessions \ {s} : AR'[t] = AR[t]
    BY <2>1, AROthers DEF IInv, TypeOK
  <2>5. AR'[s] = IF Old(refs[c.name]) # c.old THEN "conflict" ELSE "pending"
    BY <2>1, <2>2 DEF AR, AbsResult, Dispatch, IInv, TypeOK
  <2>6. AR' = [AR EXCEPT ![s] = IF Abs!Old(refs[c.name]) # c.old THEN "conflict" ELSE "pending"]
    BY <2>4, <2>5, ARExcept DEF Old, Abs!Old
  <2>7. QED
    BY <2>1, <2>2, <2>3, <2>6 DEF Abs!Submit, AR
<1>3. ASSUME NEW s \in Sessions, SaveRef(s) PROVE Abs!Apply(s)
  <2>1. pc[s] = "save" /\ cmd[s] \in Abs!Commands /\ cmd[s].old = Zero /\ cmd[s].new # Zero
    BY <1>3 DEF SaveRef, IInv, SessionState, Dispatched, Abs!Commands
  <2>2. AR[s] = "pending"
    BY <2>1, ARValues DEF Dispatched
  <2>3. \A t \in Sessions \ {s} : AR'[t] = AR[t]
    BY <1>3, AROthers DEF SaveRef, Finish, IInv, TypeOK
  <2>4. AR'[s] = IF refs[cmd[s].name] # NoRow THEN "failed" ELSE "ok"
    BY <1>3 DEF SaveRef, Finish, AR, AbsResult, IInv, TypeOK
  <2>5. AR' = [AR EXCEPT ![s] = IF refs[cmd[s].name] # NoRow THEN "failed" ELSE "ok"]
    BY <2>3, <2>4, ARExcept
  <2>6. refs' = IF refs[cmd[s].name] # NoRow THEN refs
                ELSE [refs EXCEPT ![cmd[s].name] = cmd[s].new]
    BY <1>3 DEF SaveRef, Finish
  <2>7. QED
    BY <1>3, <2>1, <2>2, <2>5, <2>6 DEF SaveRef, Abs!Apply, Abs!Val, AR
<1>4. ASSUME NEW s \in Sessions, RemoveRef(s) PROVE Abs!Apply(s)
  <2>1. pc[s] = "remove" /\ cmd[s] \in Abs!Commands /\ cmd[s].new = Zero
    BY <1>4 DEF RemoveRef, IInv, SessionState, Dispatched
  <2>2. AR[s] = "pending"
    BY <2>1, ARValues DEF Dispatched
  <2>3. \A t \in Sessions \ {s} : AR'[t] = AR[t]
    BY <1>4, AROthers DEF RemoveRef, Finish, IInv, TypeOK
  <2>4. AR'[s] = "ok"
    BY <1>4 DEF RemoveRef, Finish, AR, AbsResult, IInv, TypeOK
  <2>5. AR' = [AR EXCEPT ![s] = "ok"]
    BY <2>3, <2>4, ARExcept
  <2>6. QED
    BY <1>4, <2>1, <2>2, <2>5 DEF RemoveRef, Abs!Apply, Abs!Val, AR
<1>5. ASSUME NEW s \in Sessions, UpdateRefFind(s)
      PROVE Abs!Apply(s) \/ UNCHANGED <<refs, cmd, AR>>
  <2>1. pc[s] = "find" /\ cmd[s] \in Abs!Commands /\ cmd[s].old # Zero /\ cmd[s].new # Zero
    BY <1>5 DEF UpdateRefFind, IInv, SessionState, Dispatched
  <2>2. AR[s] = "pending"
    BY <2>1, ARValues DEF Dispatched
  <2>3. \A t \in Sessions \ {s} : AR'[t] = AR[t]
    BY <1>5, AROthers DEF UpdateRefFind, Finish, IInv, TypeOK
  <2>4. CASE refs[cmd[s].name] = NoRow
    <3>1. AR'[s] = "failed"
      BY <1>5, <2>4 DEF UpdateRefFind, Finish, AR, AbsResult, IInv, TypeOK
    <3>2. AR' = [AR EXCEPT ![s] = "failed"]
      BY <2>3, <3>1, ARExcept
    <3>3. QED
      BY <1>5, <2>1, <2>2, <2>4, <3>2 DEF UpdateRefFind, Abs!Apply, AR
  <2>5. CASE refs[cmd[s].name] # NoRow
    <3>1. AR'[s] = AR[s]
      BY <1>5, <2>2, <2>5 DEF UpdateRefFind, AR, AbsResult, IInv, TypeOK
    <3>2. QED
      BY <1>5, <2>3, <3>1, ARSame DEF UpdateRefFind
  <2>6. QED
    BY <2>4, <2>5
<1>6. ASSUME NEW s \in Sessions, UpdateRefWrite(s) PROVE Abs!Apply(s)
  <2>1. pc[s] = "write" /\ cmd[s] \in Abs!Commands /\ cmd[s].old # Zero /\ cmd[s].new # Zero
    BY <1>6 DEF UpdateRefWrite, IInv, SessionState, Dispatched
  <2>2. AR[s] = "pending"
    BY <2>1, ARValues DEF Dispatched
  <2>3. \A t \in Sessions \ {s} : AR'[t] = AR[t]
    BY <1>6, AROthers DEF UpdateRefWrite, Finish, IInv, TypeOK
  <2>4. CASE ~SameRow(s)
    \* the row found is gone: an update that fails without a change
    <3>1. AR'[s] = "failed"
      BY <1>6, <2>4 DEF UpdateRefWrite, Finish, AR, AbsResult, IInv, TypeOK
    <3>2. AR' = [AR EXCEPT ![s] = "failed"]
      BY <2>3, <3>1, ARExcept
    <3>3. refs' = refs
      BY <1>6, <2>4 DEF UpdateRefWrite
    <3>4. QED
      BY <1>6, <2>1, <2>2, <3>2, <3>3 DEF UpdateRefWrite, Abs!Apply, AR
  <2>5. CASE SameRow(s)
    \* the row found is the ref's row: the new id is written
    <3>1. AR'[s] = "ok"
      BY <1>6, <2>5 DEF UpdateRefWrite, Finish, AR, AbsResult, IInv, TypeOK
    <3>2. AR' = [AR EXCEPT ![s] = "ok"]
      BY <2>3, <3>1, ARExcept
    <3>3. refs' = [refs EXCEPT ![cmd[s].name] = cmd[s].new] /\ refs[cmd[s].name] # NoRow
      BY <1>6, <2>5 DEF UpdateRefWrite, SameRow
    <3>4. QED
      BY <1>6, <2>1, <2>2, <3>2, <3>3 DEF UpdateRefWrite, Abs!Apply, Abs!Val, AR
  <2>6. QED
    BY <2>4, <2>5
<1>7. CASE UNCHANGED vars
  <2>1. \A t \in Sessions : AR'[t] = AR[t]
    BY <1>7 DEF vars, AR, AbsResult
  <2>2. QED
    BY <1>7, <2>1, ARSame DEF vars
<1>8. QED
  BY <1>1, <1>2, <1>3, <1>4, <1>5, <1>6, <1>7 DEF Next, Abs!AbsNext

(* Every state of the concurrent sessions is well typed: the refs table   *)
(* maps each name to an id or no row, and a session's command and result *)
(* stay in their types through save_ref, remove_ref, the two calls of     *)
(* update_ref and their panics.                                            *)
THEOREM RefStoreTypeCorrect == Spec => []TypeOK
BY InitIInv, StepIInv, PTL DEF Spec, IInv

(* GitDbStorage's ref operations implement the abstract store: every      *)
(* save_ref, remove_ref and update_ref of a receive-pack session takes    *)
(* effect at one instant, with its create or update precondition holding *)
(* at that instant, although update_ref finds the row and writes it in    *)
(* two calls.                                                              *)
THEOREM RefStoreRefinement == Spec => RefStoreRefinesAbs
<1>1. Init => Abs!AbsInit
  BY InitRefinement
<1>2. IInv /\ [Next]_vars => [Abs!AbsNext]_<<refs, cmd, AR>>
  BY StepRefinement
<1>3. QED
  BY <1>1, <1>2, InitIInv, StepIInv, PTL DEF Spec, RefStoreRefinesAbs, Abs!AbsSpec, AR
=============================================================================
