---------------------------- MODULE MCGroupOrder ----------------------------
(***************************************************************************)
(* Small instances of GroupOrder for TLC.                                  *)
(***************************************************************************)
EXTENDS GroupOrder

CONSTANTS i1, i2, m1, m2

(* One dish of the host, one of another member. *)
OneEach == [i \in Items |-> IF i = i1 THEN m1 ELSE m2]
=============================================================================
