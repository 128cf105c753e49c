------------------------------ MODULE MCSiloCC ------------------------------
(***************************************************************************)
(* Instances of SiloCC for TLC.                                            *)
(***************************************************************************)
EXTENDS SiloCCProps, TLC

R(k) == [ope |-> "READ", key |-> k]
W(k) == [ope |-> "WRITE", key |-> k]
RMW(k) == [ope |-> "READ_MODIFY_WRITE", key |-> k]

\* Write skew, a blind write of two keys and a read-only procedure.
SkewProcs == {<<R(1), W(2)>>, <<R(2), W(1)>>, <<W(1), W(2)>>, <<R(1), R(2)>>}

\* Lost update, and a read of a key already written between two writes.
UpdateProcs == {<<RMW(1)>>, <<W(1), R(1), W(2)>>}

ShortProcs == {<<R(1), W(2)>>, <<RMW(2)>>, <<R(2), R(1)>>}

WorkerSymmetry == Permutations(Workers \ {Leader})
=============================================================================
