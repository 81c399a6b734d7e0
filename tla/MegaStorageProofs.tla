------------------------- MODULE MegaStorageProofs -------------------------
(***************************************************************************)
(* Proofs about MegaStorage for every monorepo, every set of requests and  *)
(* every set of file infos that satisfy the module's assumptions.          *)
(***************************************************************************)
EXTENDS MegaStorage, TLAPS

RowTrees == {row.tree_id : row \in Rows}

(* What a request's locals hold at each point of create_mega_file: the   *)
(* walk has a row of the mega_tree table, and from get_ref on there is a *)
(* commit, built on a tree of the monorepo's rows.  TypeOK alone is not   *)
(* inductive: UpdateRef and SaveCommits read commit[r], WalkUp and ReadRef *)
(* read cur[r].                                                            *)
WalkState == \A r \in Requests : pc[r] = "walk" => cur[r] \in trees
CommitRecs == [id : CommitIds, tree : RowTrees, parents : Seq(CommitIds)]
CommitState ==
    \A r \in Requests :
        /\ pc[r] \in {"update_ref", "save_commits", "done"} => commit[r] \in CommitRecs
        /\ commit[r] # None => commit[r].tree \in RowTrees

(* Why get_ref finds main, whenever a request comes: a request past its   *)
(* path lookup saw a mega_tree row, rows are never deleted, and           *)
(* init_mega_directory inserts the ref before any row; nothing deletes   *)
(* the ref, and update_ref writes nothing.  GetRefFindsMain alone is not  *)
(* inductive: it says nothing of a request about to call get_ref.         *)
Started == {"walk", "update_ref", "save_commits", "done"}
ServeState ==
    /\ \A r \in Requests : pc[r] \in Started => trees # {}
    /\ trees # {} => refMain \in CommitIds
    /\ initPc \in {"trees", "blobs", "done"} => refMain \in CommitIds

IInv == TypeOK /\ WalkState /\ CommitState /\ ServeState /\ GetRefFindsMain

LEMMA RootRowInRows == RootRow \in Rows
BY MonorepoAssumption DEF RootRow, RowAt

(* The initial state satisfies the inductive invariant.                   *)
LEMMA InitIInv == Init => IInv
<1> SUFFICES ASSUME Init PROVE IInv
  OBVIOUS
<1>1. TypeOK
  BY ConstantsAssumption DEF Init, TypeOK, InitPcs
<1>2. WalkState /\ CommitState /\ ServeState /\ GetRefFindsMain
  BY DEF Init, WalkState, CommitState, ServeState, GetRefFindsMain, Started
<1>3. QED
  BY <1>1, <1>2 DEF IInv

(* A step that changes no request's pc, locals or the tables the request *)
(* invariants read keeps them.                                            *)
LEMMA InitStepKeeps ==
    ASSUME IInv, UNCHANGED <<refMain, commits, pc, info, cur, newTree, commit, trees, crashes>>,
           initPc' \in InitPcs, initPc' \in {"trees", "blobs", "done"} => refMain \in CommitIds
    PROVE  IInv'
BY DEF IInv, TypeOK, WalkState, CommitState, ServeState, GetRefFindsMain, Started

(* Every step of a request preserves the inductive invariant.             *)
LEMMA StepIInv == IInv /\ [Next]_vars => IInv'
<1> SUFFICES ASSUME IInv, [Next]_vars PROVE IInv'
  OBVIOUS
<1> USE DEF IInv
<1>1. ASSUME NEW r \in Requests, StartCreate(r) PROVE IInv'
  <2>1. PICK f \in FileInfos :
          /\ info' = [info EXCEPT ![r] = f]
          /\ \/ /\ \A row \in trees : row.full_path # f.path
                /\ pc' = [pc EXCEPT ![r] = "path_not_found"]
                /\ UNCHANGED <<cur, newTree>>
             \/ \E row \in trees :
                  /\ row.full_path = f.path
                  /\ LET items == Append(row.tree_id.tree, NewItem(f)) IN
                     IF DupNames(items)
                     THEN /\ pc' = [pc EXCEPT ![r] = "invalid_tree"]
                          /\ UNCHANGED <<cur, newTree>>
                     ELSE /\ pc' = [pc EXCEPT ![r] = "walk"]
                          /\ cur' = [cur EXCEPT ![r] = row]
                          /\ newTree' = [newTree EXCEPT ![r] = TreeId(items)]
    BY <1>1 DEF StartCreate
  <2>2. UNCHANGED <<refMain, commits, commit, trees, initPc, crashes>> /\ pc[r] = "idle"
    BY <1>1 DEF StartCreate
  <2> USE DEF TypeOK, WalkState, CommitState, ServeState, GetRefFindsMain, Started, Done, InFlight
  <2>3. CASE /\ \A row \in trees : row.full_path # f.path
             /\ pc' = [pc EXCEPT ![r] = "path_not_found"]
             /\ UNCHANGED <<cur, newTree>>
    BY <2>1, <2>2, <2>3
  <2>4. ASSUME NEW row \in trees, row.full_path = f.path,
               DupNames(Append(row.tree_id.tree, NewItem(f))),
               pc' = [pc EXCEPT ![r] = "invalid_tree"],
               UNCHANGED <<cur, newTree>>
        PROVE IInv'
    BY <2>1, <2>2, <2>4
  <2>5. ASSUME NEW row \in trees, row.full_path = f.path,
               pc' = [pc EXCEPT ![r] = "walk"],
               cur' = [cur EXCEPT ![r] = row],
               newTree' = [newTree EXCEPT ![r] =
                             TreeId(Append(row.tree_id.tree, NewItem(f)))]
        PROVE IInv'
    BY <2>1, <2>2, <2>5 DEF TreeId, IsTreeId
  <2>6. QED
    BY <2>1, <2>3, <2>4, <2>5
<1>2. ASSUME NEW r \in Requests, WalkUp(r) PROVE IInv'
  <2>1. PICK row \in GetMegaTreeBySha(cur[r].parent_id) :
          /\ cur' = [cur EXCEPT ![r] = row]
          /\ newTree' = [newTree EXCEPT ![r] =
                  TreeId(ReplaceFirst(row.tree_id.tree, cur[r].name, newTree[r]))]
    BY <1>2 DEF WalkUp
  <2>2. UNCHANGED <<refMain, commits, pc, info, commit, trees, initPc, crashes>>
        /\ pc[r] = "walk"
    BY <1>2 DEF WalkUp
  <2>3. row \in trees /\ row \in Rows
    BY DEF GetMegaTreeBySha, TypeOK
  <2>4. QED
    BY <2>1, <2>2, <2>3 DEF TypeOK, WalkState, CommitState, ServeState, GetRefFindsMain,
                           TreeId, IsTreeId
<1>3. ASSUME NEW r \in Requests, ReadRef(r) PROVE IInv'
  <2>1. pc[r] = "walk" /\ cur[r] \in Rows /\ cur[r].tree_id \in RowTrees
    BY <1>3 DEF ReadRef, WalkState, TypeOK, RowTrees
  <2>2. refMain \in CommitIds /\ GetRef # NoRef
    BY <2>1, ConstantsAssumption DEF ServeState, Started, GetRef
  <2>3. commit' = [commit EXCEPT ![r] = Commit(r, cur[r].tree_id, <<refMain>>)]
        /\ pc' = [pc EXCEPT ![r] = "update_ref"]
        /\ UNCHANGED <<refMain, commits, info, cur, newTree, trees, initPc, crashes>>
    BY <1>3, <2>2 DEF ReadRef, GetRef
  <2>4. TypeOK'
    <3>1. <<refMain>> \in Seq(CommitIds)
      BY <2>2
    <3>2. QED
      BY <2>3, <3>1, ConstantsAssumption DEF Commit, TypeOK, Done, CommitIds, InFlight
  <2>5. WalkState'
    BY <2>3 DEF WalkState, TypeOK
  <2>6. CommitState'
    BY <2>1, <2>2, <2>3 DEF Commit, CommitState, TypeOK, CommitRecs, CommitIds
  <2>7. (ServeState /\ GetRefFindsMain)'
    BY <2>1, <2>3 DEF ServeState, GetRefFindsMain, Started, TypeOK
  <2>8. QED
    BY <2>4, <2>5, <2>6, <2>7
<1>4. ASSUME NEW r \in Requests, UpdateRef(r) PROVE IInv'
  <2>1. pc[r] = "update_ref" /\ refMain # NoRef
    BY <1>4, ConstantsAssumption DEF UpdateRef, ServeState, Started
  <2>2. pc' = [pc EXCEPT ![r] = "save_commits"]
        /\ UNCHANGED <<refMain, commits, info, cur, newTree, commit, trees, initPc, crashes>>
    BY <1>4, <2>1 DEF UpdateRef
  <2>3. QED
    BY <2>1, <2>2 DEF TypeOK, WalkState, CommitState, ServeState, GetRefFindsMain, Started,
                      Done, InFlight
<1>5. ASSUME NEW r \in Requests, SaveCommits(r) PROVE IInv'
  <2>1. commit[r] \in CommitRecs
    BY <1>5 DEF SaveCommits, CommitState
  <2>2. /\ DOMAIN commit[r] = {"id", "tree", "parents"}
        /\ commit[r].id \in CommitIds /\ commit[r].parents \in Seq(CommitIds)
    BY <2>1 DEF CommitRecs
  <2>3. QED
    BY <1>5, <2>2 DEF SaveCommits, BatchSaveModel, TypeOK, WalkState, CommitState,
                      ServeState, GetRefFindsMain, Started, Done
<1>6. CASE InitInsertCommit
  <2>1. InitCommit \in CommitRecs
    BY RootRowInRows, ConstantsAssumption DEF InitCommit, Commit, CommitRecs, RowTrees, CommitIds
  <2>2. QED
    BY <1>6, <2>1 DEF InitInsertCommit, TypeOK, CommitRecs, InitPcs, WalkState, CommitState,
                      ServeState, GetRefFindsMain
<1>7. CASE InitInsertRefs
  BY <1>7, ConstantsAssumption DEF InitInsertRefs, TypeOK, WalkState, CommitState,
                                   ServeState, GetRefFindsMain, CommitIds, InitPcs, Started
<1>8. CASE InitSaveTrees
  <2>1. initPc = "trees" /\ refMain \in CommitIds
    BY <1>8 DEF InitSaveTrees, ServeState
  <2>2. trees \subseteq trees' /\ trees' \subseteq Rows
    BY <1>8 DEF InitSaveTrees, BatchSaveModel, TypeOK
  <2>3. QED
    BY <1>8, <2>1, <2>2 DEF InitSaveTrees, TypeOK, WalkState, CommitState,
                            ServeState, GetRefFindsMain, InitPcs
<1>9. CASE InitSaveBlobs
  BY <1>9, InitStepKeeps DEF InitSaveBlobs, InitPcs, ServeState
<1>10. CASE Crash
  <2>1. \A r \in Requests : pc'[r] = pc[r] \/ (pc[r] \in InFlight /\ pc'[r] = "crashed")
    BY <1>10 DEF Crash
  <2>2. pc' \in [Requests -> {"idle"} \cup InFlight \cup Done]
    BY <1>10 DEF Crash, TypeOK, InFlight, Done
  <2>3. TypeOK'
    BY <1>10, <2>2, ConstantsAssumption DEF Crash, TypeOK, InitPcs
  <2>4. (WalkState /\ CommitState /\ GetRefFindsMain)'
    BY <1>10, <2>1 DEF Crash, WalkState, CommitState, GetRefFindsMain, InFlight
  <2>5. ServeState'
    BY <1>10, <2>1 DEF Crash, ServeState, Started, InFlight
  <2>6. QED
    BY <2>3, <2>4, <2>5
<1>11. CASE UNCHANGED vars
  BY <1>11 DEF vars, TypeOK, WalkState, CommitState, ServeState, GetRefFindsMain
<1>12. CASE StorageNew
  <2>1. initPc' \in {"commit", "aborted"}
    BY <1>12, ConstantsAssumption DEF StorageNew
  <2>2. QED
    BY <1>12, <2>1, InitStepKeeps DEF StorageNew, InitPcs
<1>13. QED
  BY <1>1, <1>2, <1>3, <1>4, <1>5, <1>6, <1>7, <1>8, <1>9, <1>10, <1>11, <1>12
  DEF Next, Step, InitStep

(* The type invariant holds in every reachable state.                     *)
THEOREM TypeCorrect == Spec => []TypeOK
<1>1. IInv => TypeOK
  BY DEF IInv
<1>2. QED
  BY InitIInv, StepIInv, <1>1, PTL DEF Spec

(* No create_mega_file ever panics on a missing main, in                  *)
(* SHA1::from_str("").unwrap() after get_ref or in update_ref's find,      *)
(* although requests may come before, during or after                     *)
(* init_mega_directory and the process may crash in the middle of it: a   *)
(* request past its path lookup saw a mega_tree row, and                  *)
(* init_mega_directory inserts the ref before the rows.                    *)
THEOREM GetRefSafety == Spec => []GetRefFindsMain
<1>1. IInv => GetRefFindsMain
  BY DEF IInv
<1>2. QED
  BY InitIInv, StepIInv, <1>1, PTL DEF Spec
=============================================================================
