---------------------------- MODULE MCMegaStorage ----------------------------
(***************************************************************************)
(* Small monorepos for MegaStorage.  Trees are written bottom-up; every    *)
(* id is the content of the tree (the injective hash of MegaStorage).      *)
(***************************************************************************)
EXTENDS MegaStorage

CONSTANTS root, projects, mega, import, readme, newf, keep, c1, c2, r1, r2

KeepTree == TreeId(<<Item("Blob", BlobId(keep), GitKeep)>>)

(* /                                                                       *)
(* |-- projects/mega/.gitkeep                                              *)
(* `-- import/readme                                                       *)
MegaT == KeepTree
ProjT == TreeId(<<Item("Tree", MegaT, mega)>>)
ImportT == TreeId(<<Item("Blob", BlobId(c1), readme)>>)
RootT == TreeId(<<Item("Tree", ProjT, projects), Item("Tree", ImportT, import)>>)

MCRows ==
    { [full_path |-> <<>>, name |-> root, tree_id |-> RootT, parent_id |-> None],
      [full_path |-> <<projects>>, name |-> projects, tree_id |-> ProjT, parent_id |-> RootT],
      [full_path |-> <<projects, mega>>, name |-> mega, tree_id |-> MegaT, parent_id |-> ProjT],
      [full_path |-> <<import>>, name |-> import, tree_id |-> ImportT, parent_id |-> RootT] }

(* /                                                                       *)
(* |-- projects/mega/.gitkeep                                              *)
(* `-- import/mega/.gitkeep      (projects and import have one tree id)    *)
TwinT == TreeId(<<Item("Tree", KeepTree, mega)>>)
TwinRootT == TreeId(<<Item("Tree", TwinT, projects), Item("Tree", TwinT, import)>>)

MCTwinRows ==
    { [full_path |-> <<>>, name |-> root, tree_id |-> TwinRootT, parent_id |-> None],
      [full_path |-> <<projects>>, name |-> projects, tree_id |-> TwinT, parent_id |-> TwinRootT],
      [full_path |-> <<import>>, name |-> import, tree_id |-> TwinT, parent_id |-> TwinRootT],
      [full_path |-> <<projects, mega>>, name |-> mega, tree_id |-> KeepTree, parent_id |-> TwinT],
      [full_path |-> <<import, mega>>, name |-> mega, tree_id |-> KeepTree, parent_id |-> TwinT] }

(* A file two levels down, a directory at the root, a name that is        *)
(* already there, and a path with no mega_tree row.                        *)
MCFileInfos ==
    { [path |-> <<projects, mega>>, name |-> newf, is_directory |-> FALSE, content |-> c2],
      [path |-> <<>>, name |-> newf, is_directory |-> TRUE, content |-> c1],
      [path |-> <<import>>, name |-> readme, is_directory |-> FALSE, content |-> c2],
      [path |-> <<readme>>, name |-> newf, is_directory |-> FALSE, content |-> c2] }

(* The file two levels down under the twin directories.                    *)
MCTwinFileInfos ==
    { [path |-> <<projects, mega>>, name |-> newf, is_directory |-> FALSE, content |-> c2] }

MCNames == {root, projects, mega, import, readme, newf}
MCContents == {c1, c2}
MCRequests == {r1, r2}
=============================================================================
