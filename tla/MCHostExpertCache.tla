-------------------------- MODULE MCHostExpertCache --------------------------
(* Calls that share an expert, and more experts than slots, so that slots are *)
(* taken over.                                                                *)
EXTENDS HostExpertCache, TLC

CONSTANTS c1, c2, c3, c4, c5, e1, e2, e3

SomeShared == (c1 :> e1) @@ (c2 :> e1) @@ (c3 :> e2) @@ (c4 :> e3) @@ (c5 :> e2)
=============================================================================
