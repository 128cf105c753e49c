----------------------------- MODULE EpochClock -----------------------------
(***************************************************************************)
(* What the epoch machinery promises, apart from transactions and logging. *)
(*                                                                         *)
(* The leader (worker 0) advances the global epoch; every worker publishes *)
(* the epoch it works in.  The clock ticks only when every other worker    *)
(* has published the current epoch, so no worker other than the leader is  *)
(* ever more than one epoch behind.                                        *)
(***************************************************************************)
EXTENDS Naturals

CONSTANTS Workers, Leader

VARIABLES GlobalEpoch, ThLocalEpoch

vars == <<GlobalEpoch, ThLocalEpoch>>

Init ==
  /\ GlobalEpoch = 1
  /\ ThLocalEpoch = [w \in Workers |-> 0]

Tick ==
  /\ \A w \in Workers \ {Leader} : ThLocalEpoch[w] = GlobalEpoch
  /\ GlobalEpoch' = GlobalEpoch + 1
  /\ UNCHANGED ThLocalEpoch

Publish(w) ==
  /\ ThLocalEpoch' = [ThLocalEpoch EXCEPT ![w] = GlobalEpoch]
  /\ UNCHANGED GlobalEpoch

Next == Tick \/ \E w \in Workers : Publish(w)

Spec == Init /\ [][Next]_vars
=============================================================================
