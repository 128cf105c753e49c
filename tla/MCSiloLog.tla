----------------------------- MODULE MCSiloLog -----------------------------
(***************************************************************************)
(* Instances of SiloLog for TLC.                                           *)
(***************************************************************************)
EXTENDS SiloLogProps

OneLogger == [w \in Workers |-> 0]

\* Transactions: the leader's can be fewer.
OneTwo == [w \in Workers |-> IF w = Leader THEN 1 ELSE 2]
One == [w \in Workers |-> 1]
Four == [w \in Workers |-> 4]
=============================================================================
