------------------------------ MODULE MCClientDb ------------------------------
(* ClientDb for TLC: the cfg gives MaxCalls and MayFail, and TLC checks     *)
(* ClientDbAssumption on them.                                              *)
EXTENDS ClientDb
=============================================================================
