--------------------------- MODULE MCStoreBuffer ----------------------------
(***************************************************************************)
(* Small rings, two stores that can be told apart.                         *)
(***************************************************************************)
EXTENDS StoreBuffer

CONSTANTS s1, s2
=============================================================================
