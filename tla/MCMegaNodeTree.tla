--------------------------- MODULE MCMegaNodeTree ---------------------------
(***************************************************************************)
(* Inputs of up to four infos drawn from the tree of test_node_tree: the  *)
(* root /root with the directory projects and the file readme under it,  *)
(* mega under projects, a directory under the file readme, a directory   *)
(* lost whose parent other is not in that tree, and a second directory    *)
(* at "/", other, that becomes the root when it comes last.              *)
(***************************************************************************)
EXTENDS MegaNodeTree

CONSTANTS rootdir, projects, mega, readme, x, other, lost

Info(p, n, d) == [path |-> p, name |-> n, is_directory |-> d]
MCInfos == { Info(<<>>, rootdir, TRUE),
             Info(<<rootdir>>, projects, TRUE),
             Info(<<rootdir, projects>>, mega, TRUE),
             Info(<<rootdir>>, readme, FALSE),
             Info(<<rootdir, readme>>, x, TRUE),
             Info(<<other>>, lost, TRUE),
             Info(<<>>, other, TRUE) }
=============================================================================
