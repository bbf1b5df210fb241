--------------------------- MODULE MCPublicConfig ---------------------------
(***************************************************************************)
(* Tables of one or two entries, each refused a further one; the second    *)
(* scene begins on the first page of flash and ends on the second.  Which  *)
(* scene, panel or key a value names is irrelevant to every definition:    *)
(* they compare inputs only with entries of the same table, so permuting   *)
(* them is sound.                                                          *)
(***************************************************************************)
EXTENDS PublicConfig, TLC

Symmetry == Permutations(SceneIds) \cup Permutations(Keys) \cup Permutations(GroupAddrs)
=============================================================================
