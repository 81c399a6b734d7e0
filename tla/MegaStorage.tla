---------------------------- MODULE MegaStorage ----------------------------
(***************************************************************************)
(* The monorepo tree engine of jupiter's MegaStorage: concurrent           *)
(* create_mega_file requests (src/jupiter/src/storage/mega_storage.rs)     *)
(* over the mega_tree, mega_commit and refs tables.                        *)
(*                                                                         *)
(* Each request is a tokio task; it is split into steps at the awaits      *)
(* that touch shared tables: the lookup by path, one lookup by SHA per     *)
(* ancestor, get_ref, update_ref and save_mega_commits.  Objects are       *)
(* content addressed: the id of a blob or tree is modelled by its content  *)
(* (an injective hash), the id of a commit by the request that built it    *)
(* (its hash covers a fresh timestamp).                                    *)
(***************************************************************************)
EXTENDS Naturals, Sequences, SequencesExt

CONSTANTS
    Requests,        \* concurrent create_mega_file calls
    Names,           \* names of files and directories
    Contents,        \* file contents
    GitKeep,         \* the name ".gitkeep"
    GitKeepContent,  \* the content of converter::generate_git_keep()
    Rows,            \* the mega_tree rows init_mega_directory writes
    FileInfos,       \* the CreateFileInfo values a request may carry
    InitId,          \* id of the commit written by init_mega_directory
    None,            \* Option::None
    NoRef,           \* no refs row for main yet
    SaveMayFail,     \* whether an insert of batch_save_model may fail
    MaxCrashes,      \* bound on process crashes
    EnvChoices       \* whether the server's storage variables may be set

Modes == {"Blob", "Tree"}

BlobId(c) == [blob |-> c]
TreeId(items) == [tree |-> items]
Item(mode, id, name) == [mode |-> mode, id |-> id, name |-> name]
IsTreeId(t) == DOMAIN t = {"tree"}

RowType == [full_path : Seq(Names), name : Names,
            tree_id : {r.tree_id : r \in Rows}, parent_id : {r.tree_id : r \in Rows} \cup {None}]
FileInfoType == [path : Seq(Names), name : Names, is_directory : BOOLEAN,
                 content : Contents]
CommitIds == Requests \cup {InitId}

ASSUME RowsAssumption ==
    /\ Rows \subseteq RowType
    /\ \A r \in Rows : IsTreeId(r.tree_id)
ASSUME FileInfosAssumption == FileInfos \subseteq FileInfoType
ASSUME ConstantsAssumption ==
    /\ None \notin {r.tree_id : r \in Rows}
    /\ InitId \notin Requests
    /\ GitKeep \notin Names
    /\ SaveMayFail \in BOOLEAN
    /\ NoRef \notin CommitIds
    /\ MaxCrashes \in Nat
    /\ EnvChoices \subseteq BOOLEAN

(* mega_tree rows are unique per full_path; the root is the row with no    *)
(* parent, and every other row's parent_id is the tree id of the row of    *)
(* its directory, whose tree has an item with the row's name and tree id.  *)
RowAt(p) == CHOOSE r \in Rows : r.full_path = p
RootRow == RowAt(<<>>)

ASSUME MonorepoAssumption ==
    /\ \E r \in Rows : r.full_path = <<>>
    /\ \A r1, r2 \in Rows : r1.full_path = r2.full_path => r1 = r2
    /\ \A r \in Rows : (r.parent_id = None) <=> (r.full_path = <<>>)
    /\ \A r \in Rows : r.full_path # <<>> =>
         LET d == RowAt(Front(r.full_path)) IN
         /\ d \in Rows /\ d.full_path = Front(r.full_path)
         /\ r.parent_id = d.tree_id
         /\ r.name = Last(r.full_path)
         /\ \E k \in DOMAIN d.tree_id.tree :
              d.tree_id.tree[k] = Item("Tree", r.tree_id, r.name)

VARIABLES
    refMain,   \* refs row of "main": its ref_git_id
    commits,   \* the mega_commit table
    pc,        \* per request: where its task is
    info,      \* per request: its CreateFileInfo
    cur,       \* per request: the local mega_tree row of the walk
    newTree,   \* per request: the local new_tree (the last of save_trees)
    commit,    \* per request: the commit built by converter::init_commit
    trees,     \* the mega_tree table
    initPc,    \* where init_mega_directory is
    crashes    \* process crashes so far

vars == <<refMain, commits, pc, info, cur, newTree, commit, trees, initPc, crashes>>

(* get_mega_tree_by_sha: .one() of the rows whose tree_id is sha; two      *)
(* directories with equal content share a tree_id, and any may come back. *)
GetMegaTreeBySha(sha) == {r \in trees : r.tree_id = sha}

Commit(id, tree, parents) == [id |-> id, tree |-> tree, parents |-> parents]
InitCommit == Commit(InitId, RootRow.tree_id, <<>>)

(* Tree::from_tree_items: fails when two items share a name (spec 4.1).    *)
DupNames(items) == \E i, j \in DOMAIN items : i # j /\ items[i].name = items[j].name

(* iter_mut().find(|x| x.name == n): rewrite the id of the first match.   *)
ReplaceFirst(items, n, id) ==
    IF \E k \in DOMAIN items : items[k].name = n
    THEN LET k == CHOOSE k \in DOMAIN items :
                    items[k].name = n /\ \A j \in 1..(k - 1) : items[j].name # n
         IN [items EXCEPT ![k].id = id]
    ELSE items

(* The new leaf item: a one-item tree around .gitkeep for a directory,    *)
(* the content's blob for a file.                                         *)
NewItem(f) ==
    IF f.is_directory
    THEN Item("Tree", TreeId(<<Item("Blob", BlobId(GitKeepContent), GitKeep)>>), f.name)
    ELSE Item("Blob", BlobId(f.content), f.name)

Done == {"done", "path_not_found", "invalid_tree", "no_main", "crashed"}
InFlight == {"walk", "update_ref", "save_commits"}
InitPcs == {"new", "aborted", "commit", "refs", "trees", "blobs", "done", "crashed"}

(* A fresh database: no tables filled yet, and no request served.         *)
Init ==
    /\ refMain = NoRef
    /\ commits = {}
    /\ trees = {}
    /\ initPc = "new"
    /\ crashes = 0
    /\ pc = [r \in Requests |-> "idle"]
    /\ info = [r \in Requests |-> None]
    /\ cur = [r \in Requests |-> None]
    /\ newTree = [r \in Requests |-> None]
    /\ commit = [r \in Requests |-> None]

(* create_mega_file up to the walk: get_mega_tree_by_path(...).unwrap()   *)
(* .unwrap() panics on a missing path; the new item is pushed onto the    *)
(* directory's items and Tree::from_tree_items(...).unwrap() panics on a  *)
(* duplicate name.  Nothing in the crate orders a request after           *)
(* init_mega_directory, so it may come at any time.                       *)
StartCreate(r) ==
    /\ pc[r] = "idle"
    /\ \E f \in FileInfos :
         /\ info' = [info EXCEPT ![r] = f]
         /\ \/ /\ \A row \in trees : row.full_path # f.path
               /\ pc' = [pc EXCEPT ![r] = "path_not_found"]
               /\ UNCHANGED <<cur, newTree>>
            \/ \E row \in trees :
                 /\ row.full_path = f.path
                 /\ LET items == Append(row.tree_id.tree, NewItem(f)) IN
                    IF DupNames(items)
                    THEN /\ pc' = [pc EXCEPT ![r] = "invalid_tree"]
                         /\ UNCHANGED <<cur, newTree>>
                    ELSE /\ pc' = [pc EXCEPT ![r] = "walk"]
                         /\ cur' = [cur EXCEPT ![r] = row]
                         /\ newTree' = [newTree EXCEPT ![r] = TreeId(items)]
    /\ UNCHANGED <<refMain, commits, commit, trees, initPc, crashes>>

(* Mutant of WalkUp: the parent's item is looked up by the created name.  *)
WalkUpByLeafName(r) ==
    /\ pc[r] = "walk"
    /\ cur[r].parent_id # None
    /\ \E row \in GetMegaTreeBySha(cur[r].parent_id) :
         /\ cur' = [cur EXCEPT ![r] = row]
         /\ newTree' = [newTree EXCEPT ![r] =
                          TreeId(ReplaceFirst(row.tree_id.tree, info[r].name, newTree[r]))]
    /\ UNCHANGED <<refMain, commits, pc, info, commit, trees, initPc, crashes>>

(* One iteration of `while let Some(parent_id) = mega_tree.parent_id`:    *)
(* get_mega_tree_by_sha(parent_id) returns one row whose tree_id is      *)
(* parent_id, the item named like the previous row gets the new tree's   *)
(* id, and the rebuilt tree becomes new_tree.                             *)
WalkUp(r) ==
    /\ pc[r] = "walk"
    /\ cur[r].parent_id # None
    /\ \E row \in GetMegaTreeBySha(cur[r].parent_id) :
         /\ cur' = [cur EXCEPT ![r] = row]
         /\ newTree' = [newTree EXCEPT ![r] =
                          TreeId(ReplaceFirst(row.tree_id.tree, cur[r].name, newTree[r]))]
    /\ UNCHANGED <<refMain, commits, pc, info, commit, trees, initPc, crashes>>

(* get_ref(&repo, "main"): the ref_git_id of the row, or String::new()    *)
(* without a row, which NoRef stands for.                                  *)
GetRef == refMain

(* Mutant of ReadRef: init_commit gets its two ids swapped, the ref as    *)
(* the tree and the root row's tree as the parent.                        *)
ReadRefSwapped(r) ==
    /\ pc[r] = "walk"
    /\ cur[r].parent_id = None
    /\ IF GetRef = NoRef
       THEN pc' = [pc EXCEPT ![r] = "no_main"] /\ UNCHANGED commit
       ELSE /\ commit' = [commit EXCEPT ![r] = Commit(r, GetRef, <<cur[r].tree_id>>)]
            /\ pc' = [pc EXCEPT ![r] = "update_ref"]
    /\ UNCHANGED <<refMain, commits, info, cur, newTree, trees, initPc, crashes>>

(* Loop exit, get_ref(&repo, "main") and converter::init_commit with the  *)
(* tree id of the last row read, mega_tree.tree_id, and the ref as the    *)
(* parent: SHA1::from_str(&ref_id).unwrap() panics on the empty string.   *)
ReadRef(r) ==
    /\ pc[r] = "walk"
    /\ cur[r].parent_id = None
    /\ IF GetRef = NoRef
       THEN pc' = [pc EXCEPT ![r] = "no_main"] /\ UNCHANGED commit
       ELSE /\ commit' = [commit EXCEPT ![r] = Commit(r, cur[r].tree_id, <<GetRef>>)]
            /\ pc' = [pc EXCEPT ![r] = "update_ref"]
    /\ UNCHANGED <<refMain, commits, info, cur, newTree, trees, initPc, crashes>>

(* update_ref(&repo, "main", commit.id): find(..).one(..).unwrap()        *)
(* .unwrap() panics without a row; the found Model gets the new id, but   *)
(* into_active_model() marks every field Unchanged, so update() has       *)
(* nothing to set, re-reads the row by key and writes nothing: main       *)
(* keeps its old id.                                                       *)
UpdateRef(r) ==
    /\ pc[r] = "update_ref"
    /\ pc' = [pc EXCEPT ![r] = IF refMain = NoRef THEN "no_main" ELSE "save_commits"]
    /\ UNCHANGED <<refMain, commits, info, cur, newTree, commit, trees, initPc, crashes>>

(* Mutant of SaveCommits: the save_mega_commits call is left out.         *)
SaveCommitsDropped(r) ==
    /\ pc[r] = "save_commits"
    /\ pc' = [pc EXCEPT ![r] = "done"]
    /\ UNCHANGED <<refMain, commits, info, cur, newTree, commit, trees, initPc, crashes>>

(* batch_save_model: insert_many per chunk of 1000 with ON CONFLICT DO     *)
(* NOTHING, so a row already there is left as it is; join_all's results   *)
(* are dropped, so a failed chunk leaves its rows out and the call still  *)
(* returns Ok(()).  The batches of this model fit in one chunk.           *)
BatchSaveModel(table, models) ==
    {table \cup models} \cup (IF SaveMayFail THEN {table} ELSE {})

(* save_mega_commits: the commit goes through batch_save_model.           *)
SaveCommits(r) ==
    /\ pc[r] = "save_commits"
    /\ commits' \in BatchSaveModel(commits, {commit[r]})
    /\ pc' = [pc EXCEPT ![r] = "done"]
    /\ UNCHANGED <<refMain, info, cur, newTree, commit, trees, initPc, crashes>>

(* MegaStorage::new: MEGA_BIG_OBJ_THRESHOLD_SIZE must be set and parse as *)
(* a usize, MEGA_RAW_STORAGE and MEGA_OBJ_LOCAL_PATH must be set, or       *)
(* expect and unwrap panic and the server never starts.                   *)
StorageNew ==
    /\ initPc = "new"
    /\ \E configured \in EnvChoices : initPc' = IF configured THEN "commit" ELSE "aborted"
    /\ UNCHANGED <<refMain, commits, pc, info, cur, newTree, commit, trees, crashes>>

(* Mutant of InitInsertCommit: the insert of converter.refs is dropped.   *)
InitInsertCommitSkipRefs ==
    /\ initPc = "commit"
    /\ commits' = commits \cup {InitCommit}
    /\ initPc' = "trees"
    /\ UNCHANGED <<refMain, pc, info, cur, newTree, commit, trees, crashes>>

(* init_mega_directory, one step per await.  The commit is inserted with   *)
(* a plain insert; on the fresh database of a first run it cannot clash.  *)
InitInsertCommit ==
    /\ initPc = "commit"
    /\ commits' = commits \cup {InitCommit}
    /\ initPc' = "refs"
    /\ UNCHANGED <<refMain, pc, info, cur, newTree, commit, trees, crashes>>

(* refs::Entity::insert(converter.refs): main now names the init commit.  *)
InitInsertRefs ==
    /\ initPc = "refs"
    /\ refMain' = InitId
    /\ initPc' = "trees"
    /\ UNCHANGED <<commits, pc, info, cur, newTree, commit, trees, crashes>>

(* batch_save_model(mega_trees): the converter's rows, after the ref.     *)
InitSaveTrees ==
    /\ initPc = "trees"
    /\ trees' \in BatchSaveModel(trees, Rows)
    /\ initPc' = "blobs"
    /\ UNCHANGED <<refMain, commits, pc, info, cur, newTree, commit, crashes>>

(* batch_save_model of mega_blobs, then of raw_blobs: tables this model   *)
(* leaves out; the server then serves requests.                           *)
InitSaveBlobs ==
    /\ initPc = "blobs"
    /\ initPc' = "done"
    /\ UNCHANGED <<refMain, commits, pc, info, cur, newTree, commit, trees, crashes>>

(* The process dies: every table keeps what was written, every task in   *)
(* flight and an unfinished init_mega_directory are gone.                  *)
Crash ==
    /\ crashes < MaxCrashes
    /\ crashes' = crashes + 1
    /\ pc' = [r \in Requests |-> IF pc[r] \in InFlight THEN "crashed" ELSE pc[r]]
    /\ initPc' = IF initPc \in {"done", "aborted"} THEN initPc ELSE "crashed"
    /\ UNCHANGED <<refMain, commits, info, cur, newTree, commit, trees>>

InitStep == StorageNew \/ InitInsertCommit \/ InitInsertRefs \/ InitSaveTrees \/ InitSaveBlobs

Step(r) == StartCreate(r) \/ WalkUp(r) \/ ReadRef(r) \/ UpdateRef(r) \/ SaveCommits(r)

Next == InitStep \/ Crash \/ \E r \in Requests : Step(r)

Spec == Init /\ [][Next]_vars

(* A request that has started runs to its end, and so does the startup's *)
(* init_mega_directory: tokio polls the task and every call returns.      *)
Fairness == /\ WF_vars(InitStep)
            /\ \A r \in Requests :
                 WF_vars(WalkUp(r) \/ ReadRef(r) \/ UpdateRef(r) \/ SaveCommits(r))

FairSpec == Spec /\ Fairness

-----------------------------------------------------------------------------
(* Type invariant.                                                          *)
TypeOK ==
    /\ refMain \in CommitIds \cup {NoRef}
    /\ trees \subseteq Rows
    /\ initPc \in InitPcs
    /\ crashes \in 0..MaxCrashes
    /\ \A c \in commits : DOMAIN c = {"id", "tree", "parents"}
                          /\ c.id \in CommitIds /\ c.parents \in Seq(CommitIds)
    /\ pc \in [Requests -> {"idle"} \cup InFlight \cup Done]
    /\ info \in [Requests -> FileInfos \cup {None}]
    /\ cur \in [Requests -> Rows \cup {None}]
    /\ DOMAIN newTree = Requests /\ DOMAIN commit = Requests
    /\ \A r \in Requests : newTree[r] = None \/ IsTreeId(newTree[r])
    /\ \A r \in Requests :
         commit[r] = None \/ (DOMAIN commit[r] = {"id", "tree", "parents"}
                              /\ commit[r].id = r /\ commit[r].parents \in Seq(CommitIds))

(* Reference definition of the rebuild (spec 4.3, section 8): the tree at *)
(* depth k of f.path once the new item is appended in f.path, found by    *)
(* full path, never by SHA.                                                *)
ExpectedTree(f, k) ==
    LET put[j \in 0..Len(f.path)] ==
          IF j = Len(f.path)
          THEN TreeId(Append(RowAt(f.path).tree_id.tree, NewItem(f)))
          ELSE TreeId(ReplaceFirst(RowAt(SubSeq(f.path, 1, j)).tree_id.tree,
                                   f.path[j + 1], put[j + 1]))
    IN put[k]

(* While it walks up, a request's new_tree is the rebuilt tree of the     *)
(* directory it has reached, and that directory is an ancestor of the     *)
(* requested path: every ancestor gets the rebuilt child, every sibling   *)
(* keeps its id.  The walk follows parent_id through                      *)
(* get_mega_tree_by_sha, a lookup by content, not by path.                *)
RebuiltTreeCorrect ==
    \A r \in Requests : pc[r] \in {"walk", "update_ref", "save_commits", "done"} =>
        /\ IsPrefix(cur[r].full_path, info[r].path)
        /\ newTree[r] = ExpectedTree(info[r], Len(cur[r].full_path))

(* get_ref returns String::new() when main has no row, and create_mega_file *)
(* then panics in SHA1::from_str("").unwrap() (update_ref's find would     *)
(* panic next).  No request ever does, whenever it comes: a path lookup    *)
(* needs a mega_tree row, init_mega_directory inserts the ref before the  *)
(* trees and all rows in one insert, a crash keeps the tables, and        *)
(* nothing deletes the ref.                                               *)
GetRefFindsMain == \A r \in Requests : pc[r] # "no_main"

(* Every create_mega_file that found its path and built a valid tree     *)
(* runs to its end under tokio's polling: the walk up by parent_id        *)
(* reaches the root row, get_ref and update_ref do not panic, and the     *)
(* request returns Ok with its commit in mega_commit, unless the process *)
(* dies first.                                                             *)
RequestEnds ==
    \A r \in Requests :
        pc[r] \in InFlight ~> (pc[r] = "crashed" \/ (pc[r] = "done" /\ commit[r] \in commits))

-----------------------------------------------------------------------------
(* Properties the spec states and the code does not keep (violation runs). *)

(* Spec 4.3 and the comment "// update ref" before                         *)
(* update_ref(&repo, "main", &commit.id.to_plain_str()): once a request's  *)
(* update_ref has returned, main names the request's commit.               *)
UpdateRefMovesMain ==
    [][\A r \in Requests :
         pc[r] = "update_ref" /\ pc'[r] = "save_commits" => refMain' = commit[r].id]_vars

OkImpliesCommitSaved ==
    \A r \in Requests : pc[r] = "done" => commit[r] \in commits

(* Spec 4.3 step 5 and section 8: the new commit's tree is the rebuilt     *)
(* root, which holds the created file.                                     *)
CommitRecordsFile ==
    \A r \in Requests : pc[r] = "done" => commit[r].tree = ExpectedTree(info[r], 0)

(* Spec 4.3 step 5: a crash in the middle of a write leaves nothing       *)
(* partial observable through the ref.  Once init_mega_directory has      *)
(* stopped, finished or killed by a crash, the commit main names has its  *)
(* tree in mega_tree; the code inserts the commit and the ref before the  *)
(* trees.                                                                  *)
RefTreeSaved ==
    initPc \in {"done", "crashed"} =>
        \A c \in commits : c.id = refMain => c.tree \in {row.tree_id : row \in trees}

(* Spec 4.3: inserting a name that is already in the directory replaces   *)
(* it; NameConflict is not raised and the request does not fail.          *)
SameNameOverwrites == \A r \in Requests : pc[r] # "invalid_tree"
=============================================================================
