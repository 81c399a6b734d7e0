---------------------------- MODULE RefStoreAbs ----------------------------
(***************************************************************************)
(* What the reference store promises a receive-pack session (spec 4.2, 5,  *)
(* 8): a session submits one RefCommand, which is rejected at once when   *)
(* its old id is not the ref's current value, and otherwise takes effect   *)
(* in one atomic step.  A create needs the ref absent, an update needs it *)
(* present, a delete is idempotent.  With Compare the applying step also  *)
(* compares the current value with old_id, the store's compare-and-set;   *)
(* without it the store only keeps each operation atomic.                 *)
(***************************************************************************)
CONSTANTS Sessions, RefNames, Ids, Zero, NoRow, None, Compare

VARIABLES refs, cmd, result

\* The zero-id sentinel stands for an absent ref in old_id and new_id.
Old(v) == IF v = NoRow THEN Zero ELSE v
Commands == {c \in [name : RefNames, old : Ids \cup {Zero}, new : Ids \cup {Zero}] :
                ~(c.old = Zero /\ c.new = Zero)}
Results == {"idle", "pending", "ok", "conflict", "failed"}

AbsInit ==
    /\ refs \in [RefNames -> Ids \cup {NoRow}]
    /\ cmd = [s \in Sessions |-> None]
    /\ result = [s \in Sessions |-> "idle"]

\* The session sends a command; a stale old_id is rejected on the spot.
Submit(s) ==
    /\ result[s] = "idle"
    /\ \E c \in Commands :
         /\ cmd' = [cmd EXCEPT ![s] = c]
         /\ result' = [result EXCEPT ![s] =
                         IF Old(refs[c.name]) # c.old THEN "conflict" ELSE "pending"]
    /\ UNCHANGED refs

\* The command takes effect atomically, or fails without a change: a
\* create needs the ref absent, an update needs it present, a delete
\* always goes through.  An update may also fail on a present ref: the
\* store writes the row the update found, by its key, and that row may
\* have been deleted and the ref created again.
Val(v) == IF v = Zero THEN NoRow ELSE v
Apply(s) ==
    /\ result[s] = "pending"
    /\ LET c == cmd[s]
           stale == Compare /\ Old(refs[c.name]) # c.old
           allowed == c.new = Zero \/ ((c.old = Zero) = (refs[c.name] = NoRow))
           update == c.old # Zero /\ c.new # Zero
       IN \/ /\ ~stale /\ allowed
             /\ refs' = [refs EXCEPT ![c.name] = Val(c.new)]
             /\ result' = [result EXCEPT ![s] = "ok"]
          \/ /\ stale \/ ~allowed \/ update
             /\ refs' = refs
             /\ result' = [result EXCEPT ![s] = IF stale THEN "conflict" ELSE "failed"]
    /\ UNCHANGED cmd

AbsNext == \E s \in Sessions : Submit(s) \/ Apply(s)

AbsSpec == AbsInit /\ [][AbsNext]_<<refs, cmd, result>>
=============================================================================
