----------------------------- MODULE MCRefStore -----------------------------
(***************************************************************************)
(* Two receive-pack sessions on a repository with main at a and no dev:   *)
(* they can race to create dev, update main from a, or delete main while  *)
(* the other updates it.                                                   *)
(***************************************************************************)
EXTENDS RefStore, TLC

CONSTANTS s1, s2, s3, main, dev, a, b

MCInitRefs == (main :> a) @@ (dev :> NoRow)
MCSessions == {s1, s2, s3}
=============================================================================
