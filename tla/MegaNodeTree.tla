---------------------------- MODULE MegaNodeTree ----------------------------
(***************************************************************************)
(* MegaStorage::mega_node_tree (src/jupiter/src/storage/mega_storage.rs): *)
(* building the MegaNode tree of a list of CreateFileInfo.  The directory *)
(* with path "/" is the root; the others wait in `stack`, and a queue of   *)
(* `parents` is drained breadth first: each parent scans the stack and     *)
(* takes as children the infos whose path is the parent's path joined     *)
(* with its name, in stack order, queueing the directories among them.    *)
(* One step per pass of the inner while loop.                              *)
(***************************************************************************)
EXTENDS Naturals, Sequences, SequencesExt

CONSTANTS
    Infos,     \* the CreateFileInfo values an input may hold
    MaxLen,    \* the longest input list
    None       \* Option::None

\* A path is the sequence of its components; "/" is <<>>.
FullPath(i) == Append(i.path, i.name)

VARIABLES
    input,     \* file_infos
    stack,     \* VecDeque<CreateFileInfo> still unattached
    root,      \* Option<Rc<MegaNode>>
    parents,   \* VecDeque<Rc<MegaNode>> to scan for
    parent,    \* the parent being scanned
    index,     \* index into stack
    children,  \* the children list of each node
    pc

vars == <<input, stack, root, parents, parent, index, children, pc>>

Inputs == {s \in BoundedSeq(Infos, MaxLen) : IsInjective(s)}

Init ==
    /\ input \in Inputs
    /\ stack = <<>> /\ root = None /\ parents = <<>> /\ parent = None /\ index = 1
    /\ children = [i \in Infos |-> <<>>]
    /\ pc = "split"

(* for f_info in file_infos: a directory at "/" becomes the root (a later *)
(* one replaces an earlier one), everything else goes on the stack; then *)
(* unreachable! without a root, or the root is queued.                    *)
IsRoot(i) == i.path = <<>> /\ i.is_directory
Split ==
    /\ pc = "split"
    /\ LET roots == SelectSeq(input, IsRoot) IN
       IF roots = <<>>
       THEN pc' = "unreachable" /\ UNCHANGED <<stack, root, parents>>
       ELSE /\ root' = Last(roots)
            /\ stack' = SelectSeq(input, LAMBDA i : ~IsRoot(i))
            /\ parents' = <<Last(roots)>>
            /\ pc' = "outer"
    /\ UNCHANGED <<input, parent, index, children>>

(* while !parents.is_empty(): pop_front, index = 0.                        *)
PopParent ==
    /\ pc = "outer"
    /\ IF parents = <<>>
       THEN pc' = "done" /\ UNCHANGED <<parents, parent, index>>
       ELSE /\ parent' = Head(parents)
            /\ parents' = Tail(parents)
            /\ index' = 1
            /\ pc' = "inner"
    /\ UNCHANGED <<input, stack, root, children>>

(* Mutant of Scan: index also moves on after stack.remove(index).         *)
ScanSkipAfterRemove ==
    /\ pc = "inner"
    /\ IF index > Len(stack)
       THEN pc' = "outer" /\ UNCHANGED <<stack, parents, index, children>>
       ELSE LET e == stack[index] IN
            IF e.path = FullPath(parent)
            THEN /\ parents' = IF e.is_directory THEN Append(parents, e) ELSE parents
                 /\ children' = [children EXCEPT ![parent] = Append(@, e)]
                 /\ stack' = RemoveAt(stack, index)
                 /\ index' = index + 1
                 /\ UNCHANGED pc
            ELSE index' = index + 1 /\ UNCHANGED <<stack, parents, children, pc>>
    /\ UNCHANGED <<input, root, parent>>

(* while index < stack.len(): an element whose path is parent.path       *)
(* joined with parent.name becomes a node, is queued when it is a         *)
(* directory, is added to the parent's children and is removed from the  *)
(* stack, so index stays; any other element moves index on.              *)
Scan ==
    /\ pc = "inner"
    /\ IF index > Len(stack)
       THEN pc' = "outer" /\ UNCHANGED <<stack, parents, index, children>>
       ELSE LET e == stack[index] IN
            IF e.path = FullPath(parent)
            THEN /\ parents' = IF e.is_directory THEN Append(parents, e) ELSE parents
                 /\ children' = [children EXCEPT ![parent] = Append(@, e)]
                 /\ stack' = RemoveAt(stack, index)
                 /\ UNCHANGED <<index, pc>>
            ELSE index' = index + 1 /\ UNCHANGED <<stack, parents, children, pc>>
    /\ UNCHANGED <<input, root, parent>>

Next == Split \/ PopParent \/ Scan

Spec == Init /\ [][Next]_vars

-----------------------------------------------------------------------------
(* Type invariant.                                                          *)
TypeOK ==
    /\ input \in Inputs
    /\ stack \in Seq(Infos) /\ parents \in Seq(Infos)
    /\ root \in Infos \cup {None} /\ parent \in Infos \cup {None}
    /\ index \in 1..(MaxLen + 1)
    /\ children \in [Infos -> Seq(Infos)]
    /\ pc \in {"split", "unreachable", "outer", "inner", "done"}

(* Reference tree: the root is the last directory at "/", a directory of *)
(* the tree has as children the other inputs whose path is its full     *)
(* path, in input order, and the tree holds what is reachable that way.  *)
RefRoot == Last(SelectSeq(input, IsRoot))
RefChildren(n) ==
    IF n.is_directory
    THEN SelectSeq(input, LAMBDA i : ~IsRoot(i) /\ i.path = FullPath(n))
    ELSE <<>>
RefReach[k \in 0..MaxLen] ==
    IF k = 0 THEN {RefRoot}
    ELSE RefReach[k - 1] \cup UNION {ToSet(RefChildren(n)) : n \in RefReach[k - 1]}

(* When mega_node_tree returns, every node of the reference tree has      *)
(* exactly its reference children, in input order, and no other info is  *)
(* attached anywhere: an info whose directory is missing, or is a file,  *)
(* is left out of the tree.  A skipped or doubly attached element would  *)
(* show here.                                                             *)
NodeTreeCorrect ==
    pc = "done" =>
        /\ root = RefRoot
        /\ \A n \in Infos :
             children[n] = IF n \in RefReach[MaxLen] THEN RefChildren(n) ELSE <<>>

=============================================================================
