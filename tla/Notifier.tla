------------------------------ MODULE Notifier ------------------------------
(***************************************************************************)
(* The durable epoch (notifier.cpp).  Each logger publishes the epoch up   *)
(* to which its own workers are on disk in ThLocalDurableEpoch.            *)
(* make_durable(), called by every logger, raises DurableEpoch to the      *)
(* least of them and stores it in the pepoch file.                         *)
(*                                                                         *)
(* Every Logger has a Notifier of its own, and all of these open the same  *)
(* file, with O_TRUNC, so one pepoch stands for it.                        *)
(* The loads, the compare-and-exchange and the store of the file are       *)
(* separate steps: nothing in the code excludes two loggers.               *)
(***************************************************************************)
EXTENDS Naturals

CONSTANTS
  LOGGER_NUM,   \* number of loggers
  MaxEpoch      \* bound on the epochs of a behaviour

ASSUME LoggerNumAssumption == LOGGER_NUM \in Nat \ {0}
ASSUME MaxEpochAssumption == MaxEpoch \in Nat

Loggers == 0 .. LOGGER_NUM - 1

VARIABLES
  ThLocalDurableEpoch,  \* per logger
  DurableEpoch,         \* the global durable epoch
  pepoch,               \* contents of log0/pepoch
  npc,                  \* per logger: where it is in make_durable
  idx,                  \* per logger: index of the loop in check_durable
  min_dl,               \* per logger: min_dl
  d                     \* per logger: the DurableEpoch it loaded

durableVars == <<DurableEpoch, pepoch>>
checkVars   == <<npc, idx, min_dl, d>>
notifierVars == <<ThLocalDurableEpoch, durableVars, checkVars>>

NotifierTypeOK ==
  /\ ThLocalDurableEpoch \in [Loggers -> Nat]
  /\ DurableEpoch \in Nat
  /\ pepoch \in Nat
  /\ npc \in [Loggers -> {"new", "opened", "out", "scan", "cas", "pepoch",
                           "ret"}]
  /\ idx \in [Loggers -> 0 .. LOGGER_NUM]
  /\ min_dl \in [Loggers -> Nat]
  /\ d \in [Loggers -> Nat]

NotifierInit ==
  /\ ThLocalDurableEpoch = [l \in Loggers |-> 0]
  /\ DurableEpoch = 0
  /\ pepoch = 0
  /\ npc = [l \in Loggers |-> "new"]
  /\ idx = [l \in Loggers |-> 0]
  /\ min_dl = [l \in Loggers |-> 0]
  /\ d = [l \in Loggers |-> 0]

Step(l, label) == npc' = [npc EXCEPT ![l] = label]

\* PepochFile::open, in the constructor of each logger's Notifier: the file is
\* emptied, whoever else has it open, and an empty file says as little as 0.
Truncate(l) ==
  /\ npc[l] = "new"
  /\ pepoch' = 0
  /\ Step(l, "opened")
  /\ UNCHANGED <<ThLocalDurableEpoch, DurableEpoch, idx, min_dl, d>>

WriteZero(l) ==
  /\ npc[l] = "opened"
  /\ pepoch' = 0
  /\ Step(l, "out")
  /\ UNCHANGED <<ThLocalDurableEpoch, DurableEpoch, idx, min_dl, d>>

Open(l) == Truncate(l) \/ WriteZero(l)

\* Called: make_durable enters check_durable, which loads entry 0 first.
EnterCheck(l) ==
  /\ npc[l] = "out"
  /\ min_dl' = [min_dl EXCEPT ![l] = ThLocalDurableEpoch[0]]
  /\ idx' = [idx EXCEPT ![l] = 1]
  /\ Step(l, "scan")
  /\ UNCHANGED <<ThLocalDurableEpoch, durableVars, d>>

\* Mutated: the maximum is kept.
LargerDl(l, dl) == IF dl > min_dl[l] THEN dl ELSE min_dl[l]

SmallerDl(l, dl) == IF dl < min_dl[l] THEN dl ELSE min_dl[l]

ScanDl(l) ==
  /\ npc[l] = "scan"
  /\ idx[l] < LOGGER_NUM
  /\ min_dl' = [min_dl EXCEPT ![l] = SmallerDl(l, ThLocalDurableEpoch[idx[l]])]
  /\ idx' = [idx EXCEPT ![l] = @ + 1]
  /\ UNCHANGED <<ThLocalDurableEpoch, durableVars, npc, d>>

LoadDurable(l) ==
  /\ npc[l] = "scan"
  /\ idx[l] = LOGGER_NUM
  /\ d' = [d EXCEPT ![l] = DurableEpoch]
  /\ Step(l, IF DurableEpoch < min_dl[l] THEN "cas" ELSE "ret")
  /\ UNCHANGED <<ThLocalDurableEpoch, durableVars, idx, min_dl>>

\* Mutated: a plain store instead of a compare-and-exchange.
StoreDurable(l) ==
  /\ npc[l] = "cas"
  /\ DurableEpoch' = min_dl[l]
  /\ Step(l, "pepoch")
  /\ UNCHANGED <<ThLocalDurableEpoch, pepoch, idx, min_dl, d>>

\* One attempt; the logger that loses the race leaves the epoch to the other.
CasDurable(l) ==
  /\ npc[l] = "cas"
  /\ IF DurableEpoch = d[l]
     THEN DurableEpoch' = min_dl[l] /\ Step(l, "pepoch")
     ELSE UNCHANGED DurableEpoch /\ Step(l, "ret")
  /\ UNCHANGED <<ThLocalDurableEpoch, pepoch, idx, min_dl, d>>

\* PepochFile::write
WritePepoch(l) ==
  /\ npc[l] = "pepoch"
  /\ pepoch' = min_dl[l]
  /\ Step(l, "ret")
  /\ UNCHANGED <<ThLocalDurableEpoch, DurableEpoch, idx, min_dl, d>>

CheckStep(l) == ScanDl(l) \/ LoadDurable(l) \/ CasDurable(l) \/ WritePepoch(l)

\* Back in make_durable: nothing else to do, the clients are not notified.
LeaveCheck(l) ==
  /\ npc[l] = "ret"
  /\ Step(l, "out")
  /\ idx' = [idx EXCEPT ![l] = 0]
  /\ min_dl' = [min_dl EXCEPT ![l] = 0]
  /\ d' = [d EXCEPT ![l] = 0]
  /\ UNCHANGED durableVars

-----------------------------------------------------------------------------
(* The notifier on its own: loggers whose epochs grow as they please.      *)

VARIABLE new_dl   \* per logger: what it is about to publish, 0 for nothing

vars == <<notifierVars, new_dl>>

Init ==
  /\ NotifierInit
  /\ new_dl = [l \in Loggers |-> 0]

\* Mutated: the comparison with the published epoch is left out.
AnyDl(l, e) == TRUE

\* The guard of send_nid_to_notifier.
NewerDl(l, e) == ThLocalDurableEpoch[l] < e

\* send_nid_to_notifier: make_durable first, then the store.
Send(l, e) ==
  /\ NewerDl(l, e)
  /\ new_dl' = [new_dl EXCEPT ![l] = e]
  /\ EnterCheck(l)

Publish(l) ==
  /\ new_dl[l] # 0
  /\ LeaveCheck(l)
  /\ ThLocalDurableEpoch' = [ThLocalDurableEpoch EXCEPT ![l] = new_dl[l]]
  /\ new_dl' = [new_dl EXCEPT ![l] = 0]

\* logging(true) calls make_durable with nothing to publish.
SendLast(l) == EnterCheck(l) /\ UNCHANGED new_dl

ReturnLast(l) ==
  /\ new_dl[l] = 0
  /\ LeaveCheck(l)
  /\ UNCHANGED <<ThLocalDurableEpoch, new_dl>>

Next ==
  \E l \in Loggers :
    \/ \E e \in 1 .. MaxEpoch : Send(l, e)
    \/ SendLast(l)
    \/ (Open(l) \/ CheckStep(l)) /\ UNCHANGED new_dl
    \/ Publish(l) \/ ReturnLast(l)

Spec == Init /\ [][Next]_vars

-----------------------------------------------------------------------------
TypeOK == NotifierTypeOK /\ new_dl \in [Loggers -> Nat]

\* The durable epoch never passes what some logger has put on disk.
DurableBelowLoggers ==
  \A l \in Loggers : DurableEpoch <= ThLocalDurableEpoch[l]

\* The durable epoch and the epochs of the loggers never go back.
DurableMonotone ==
  [][/\ DurableEpoch' >= DurableEpoch
     /\ \A l \in Loggers :
          ThLocalDurableEpoch'[l] >= ThLocalDurableEpoch[l]]_vars

\* A logger that starts late would empty the file the others have mapped.  It
\* never empties it of a durable epoch: no logger stores one, or is about to,
\* before every logger has opened the file.
OpenedBeforeStored ==
  (pepoch > 0 \/ \E l \in Loggers : npc[l] \in {"cas", "pepoch"})
    => \A l \in Loggers : npc[l] \notin {"new", "opened"}

\* What a recovery would read from the file has been a durable epoch, and so
\* is not ahead of the durable epoch.
PepochNotAhead == pepoch <= DurableEpoch

\* The file holds the durable epoch whenever no logger is about to store it.
PepochIsDurable ==
  (\A l \in Loggers : npc[l] # "pepoch") => pepoch = DurableEpoch
=============================================================================
