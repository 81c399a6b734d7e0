------------------------------ MODULE RefStore ------------------------------
(***************************************************************************)
(* The refs table of one repository under concurrent receive-pack         *)
(* sessions, through GitDbStorage's GitStorageProvider methods            *)
(* (src/jupiter/src/storage/git_db_storage.rs).  MegaStorage's save_ref,  *)
(* remove_ref and update_ref (mega_storage.rs) have the same control.     *)
(*                                                                         *)
(* A session advertises the refs (get_ref), receives one RefCommand whose *)
(* old id is what it advertised, checks it against the stored value and   *)
(* dispatches it: a zero old id creates (save_ref), a zero new id deletes *)
(* (remove_ref), anything else updates (update_ref).  The check and the   *)
(* dispatch belong to the smart protocol module, which is not in the      *)
(* sources, and follow the spec.  Every database call is a step.          *)
(***************************************************************************)
EXTENDS Naturals

CONSTANTS
    Sessions,   \* concurrent receive-pack connections
    RefNames,   \* ref names of the repository
    Ids,        \* commit ids a ref may hold
    Zero,       \* the zero-id sentinel
    NoRow,      \* no refs row for this name
    None,       \* Option::None
    InitRefs    \* the refs table when the sessions start

ASSUME RefStoreAssumption ==
    /\ InitRefs \in [RefNames -> Ids \cup {NoRow}]
    /\ Zero \notin Ids /\ NoRow \notin Ids \cup {Zero}

VARIABLES
    refs,     \* the refs table: ref_git_id per ref_name, or NoRow
    rowGen,   \* per ref_name: which insert made its row (its primary key)
    pc,       \* per session: where it is
    adv,      \* per session: the refs get_ref returned
    cmd,      \* per session: its RefCommand
    found,    \* per session: the row update_ref's find returned
    result    \* per session: what it reports

vars == <<refs, rowGen, pc, adv, cmd, found, result>>

\* Advertisement and commands use the zero id for an absent ref.
Old(v) == IF v = NoRow THEN Zero ELSE v
CommandsFor(a) == {c \in [name : RefNames, old : {Old(a[n]) : n \in RefNames}, new : Ids \cup {Zero}] :
                      /\ c.old = Old(a[c.name])
                      /\ ~(c.old = Zero /\ c.new = Zero)}

PCs == {"idle", "advertised", "save", "remove", "find", "write", "done"}
Results == {"idle", "ok", "conflict", "panicked"}

Init ==
    /\ refs = InitRefs
    /\ rowGen = [n \in RefNames |-> 0]
    /\ pc = [s \in Sessions |-> "idle"]
    /\ found = [s \in Sessions |-> None]
    /\ adv = [s \in Sessions |-> None]
    /\ cmd = [s \in Sessions |-> None]
    /\ result = [s \in Sessions |-> "idle"]

(* get_ref(repo): every refs row of the repository.                       *)
GetRef(s) ==
    /\ pc[s] = "idle"
    /\ adv' = [adv EXCEPT ![s] = refs]
    /\ pc' = [pc EXCEPT ![s] = "advertised"]
    /\ UNCHANGED <<refs, rowGen, cmd, found, result>>

(* Mutant of Dispatch: no delete branch, a zero new id goes to update_ref. *)
DispatchNoDelete(c) == IF c.old = Zero THEN "save" ELSE "find"

(* Which store call a command goes to: a zero old id creates, a zero new *)
(* id deletes, anything else updates.                                     *)
Dispatch(c) == IF c.old = Zero THEN "save" ELSE IF c.new = Zero THEN "remove" ELSE "find"

(* The client answers with a command on what it was shown; a stale old   *)
(* id is refused, the rest is dispatched on the zero ids.                  *)
Receive(s) ==
    /\ pc[s] = "advertised"
    /\ \E c \in CommandsFor(adv[s]) :
         /\ cmd' = [cmd EXCEPT ![s] = c]
         /\ IF Old(refs[c.name]) # c.old
            THEN /\ pc' = [pc EXCEPT ![s] = "done"]
                 /\ result' = [result EXCEPT ![s] = "conflict"]
            ELSE /\ pc' = [pc EXCEPT ![s] = Dispatch(c)]
                 /\ UNCHANGED result
    /\ UNCHANGED <<refs, rowGen, adv, found>>

Finish(s, r) ==
    /\ pc' = [pc EXCEPT ![s] = "done"]
    /\ result' = [result EXCEPT ![s] = r]

(* save_ref: refs::Entity::insert(...).exec(..).await.unwrap(); a row of  *)
(* the same name violates the (repo_id, ref_name) key and unwrap panics;  *)
(* otherwise a new row, with a new primary key, holds the new id.        *)
SaveRef(s) ==
    /\ pc[s] = "save"
    /\ LET n == cmd[s].name IN
       IF refs[n] # NoRow
       THEN Finish(s, "panicked") /\ UNCHANGED <<refs, rowGen>>
       ELSE /\ Finish(s, "ok")
            /\ refs' = [refs EXCEPT ![n] = cmd[s].new]
            /\ rowGen' = [rowGen EXCEPT ![n] = @ + 1]
    /\ UNCHANGED <<adv, cmd, found>>

(* remove_ref: delete_many filtered by repo and name; no row, no error.  *)
RemoveRef(s) ==
    /\ pc[s] = "remove"
    /\ refs' = [refs EXCEPT ![cmd[s].name] = NoRow]
    /\ Finish(s, "ok")
    /\ UNCHANGED <<rowGen, adv, cmd, found>>

(* update_ref, first await: find().one(..).await.unwrap().unwrap() panics *)
(* when the row is gone, and otherwise keeps the row it found.            *)
UpdateRefFind(s) ==
    /\ pc[s] = "find"
    /\ IF refs[cmd[s].name] = NoRow
       THEN Finish(s, "panicked") /\ UNCHANGED found
       ELSE /\ pc' = [pc EXCEPT ![s] = "write"]
            /\ found' = [found EXCEPT ![s] = rowGen[cmd[s].name]]
            /\ UNCHANGED result
    /\ UNCHANGED <<refs, rowGen, adv, cmd>>

(* The row update_ref found is still the ref's row: not deleted, and not  *)
(* replaced by a delete and a new insert under the same name.             *)
SameRow(s) == refs[cmd[s].name] # NoRow /\ rowGen[cmd[s].name] = found[s]

(* Mutant of UpdateRefWrite: the found model is saved back (an upsert),   *)
(* so a row deleted meanwhile is inserted again.                          *)
UpdateRefUpsert(s) ==
    /\ pc[s] = "write"
    /\ refs' = [refs EXCEPT ![cmd[s].name] = cmd[s].new]
    /\ Finish(s, "ok")
    /\ UNCHANGED <<rowGen, adv, cmd, found>>

(* update_ref, second await: the active model sets ref_git_id and        *)
(* updated_at and update(..).await.unwrap() writes by the primary key of *)
(* the row found, with no compare on the old value; when that row is     *)
(* gone, deleted or replaced by a new row of the same name, nothing is   *)
(* updated (RecordNotUpdated) and unwrap panics.                          *)
UpdateRefWrite(s) ==
    /\ pc[s] = "write"
    /\ IF ~SameRow(s)
       THEN Finish(s, "panicked") /\ UNCHANGED refs
       ELSE Finish(s, "ok") /\ refs' = [refs EXCEPT ![cmd[s].name] = cmd[s].new]
    /\ UNCHANGED <<rowGen, adv, cmd, found>>

Next == \E s \in Sessions :
          \/ GetRef(s) \/ Receive(s) \/ SaveRef(s) \/ RemoveRef(s)
          \/ UpdateRefFind(s) \/ UpdateRefWrite(s)

Spec == Init /\ [][Next]_vars

-----------------------------------------------------------------------------
(* Type invariant.                                                          *)
TypeOK ==
    /\ refs \in [RefNames -> Ids \cup {NoRow}]
    /\ rowGen \in [RefNames -> Nat]
    /\ pc \in [Sessions -> PCs]
    /\ found \in [Sessions -> Nat \cup {None}]
    /\ adv \in [Sessions -> [RefNames -> Ids \cup {NoRow}] \cup {None}]
    /\ cmd \in [Sessions -> [name : RefNames, old : Ids \cup {Zero}, new : Ids \cup {Zero}] \cup {None}]
    /\ result \in [Sessions -> Results]

(* The abstract store the sessions see: a command is pending from its    *)
(* dispatch to its last database call, and a panic is a failed command.  *)
AbsResult(s) ==
    IF pc[s] \in {"idle", "advertised"} THEN "idle"
    ELSE IF pc[s] \in {"save", "remove", "find", "write"} THEN "pending"
    ELSE IF result[s] = "panicked" THEN "failed"
    ELSE result[s]

Abs == INSTANCE RefStoreAbs WITH result <- [s \in Sessions |-> AbsResult(s)], Compare <- FALSE
CAS == INSTANCE RefStoreAbs WITH result <- [s \in Sessions |-> AbsResult(s)], Compare <- TRUE

(* Every save_ref, remove_ref and update_ref takes effect at one instant, *)
(* although update_ref finds the row and writes it in two calls: a ref   *)
(* deleted between them is never brought back, a command's value is      *)
(* written only while its create or update precondition holds, and a    *)
(* command that fails leaves the table as it was.                        *)
RefStoreRefinesAbs == Abs!AbsSpec

(* Spec 4.2, 5 and section 8: update_ref is a compare-and-set, so of two  *)
(* pushes from the same old id exactly one succeeds and the other gets    *)
(* RefConflict.                                                             *)
RefStoreIsCAS == CAS!AbsSpec

(* Spec 7: ref conflicts are reported per ref, and a failed command is an *)
(* expected outcome, never a crash of the session's task.                 *)
ConflictsReported == \A s \in Sessions : result[s] # "panicked"
=============================================================================
