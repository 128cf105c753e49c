--------------------------- MODULE MCSiloDurable ---------------------------
(***************************************************************************)
(* An instance of SiloDurable for TLC: each worker has a logger of its own.*)
(***************************************************************************)
EXTENDS SiloDurable

R(k) == [ope |-> "READ", key |-> k]
W(k) == [ope |-> "WRITE", key |-> k]

RMW(k) == [ope |-> "READ_MODIFY_WRITE", key |-> k]

\* An update of one record, and a transaction that depends on it and writes,
\* reads and logs another.
DependentProcs == {<<RMW(1)>>, <<W(2), R(2), R(1)>>}

OwnLogger == [w \in Workers |-> IF w = Leader THEN 0 ELSE 1]
=============================================================================
