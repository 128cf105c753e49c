---------------------------- MODULE GroupCommit ----------------------------
(***************************************************************************)
(* What the loggers and their workers promise together, apart from the     *)
(* buffers, queues and files: write-ahead logging by epochs.               *)
(*                                                                         *)
(* Each worker has a floor, an epoch below which it commits no more.  What *)
(* is committed becomes durable in any order and in any portions.  A       *)
(* logger announces epochs: only one below the floor of each of its        *)
(* workers, and only when all they have committed up to it is durable.     *)
(*                                                                         *)
(* Of a transaction (or a log record) only the worker and the epoch matter.*)
(***************************************************************************)
EXTENDS Naturals

CONSTANTS
  Workers,
  Loggers,
  LoggerOf   \* the logger of each worker

VARIABLES
  floor,         \* per worker: the least epoch it may still commit in
  committed,     \* records with the fields worker and epoch
  durable,       \* those of them that are on disk
  announced      \* per logger: the epoch it announced last, 0 at first

vars == <<floor, committed, durable, announced>>

\* The clock starts at 1, so nothing is committed in epoch 0.
Item(x) == x.worker \in Workers /\ x.epoch \in Nat \ {0}

Init ==
  /\ floor = [w \in Workers |-> 0]
  /\ committed = {}
  /\ durable = {}
  /\ announced = [l \in Loggers |-> 0]

\* Worker w commits the items of S, in epochs not below its floor.
Commit(w, S) ==
  /\ \A x \in S : Item(x) /\ x.worker = w /\ x.epoch >= floor[w]
  /\ committed' = committed \cup S
  /\ UNCHANGED <<floor, durable, announced>>

\* Worker w gives up the epochs below e.
Advance(w, e) ==
  /\ e \in Nat /\ e >= floor[w]
  /\ floor' = [floor EXCEPT ![w] = e]
  /\ UNCHANGED <<committed, durable, announced>>

Flush(S) ==
  /\ S \subseteq committed
  /\ durable' = durable \cup S
  /\ UNCHANGED <<floor, committed, announced>>

Announceable(l, e) ==
  /\ e \in Nat /\ e > announced[l]
  /\ \A w \in Workers : LoggerOf[w] = l => e < floor[w]
  /\ \A x \in committed :
       LoggerOf[x.worker] = l /\ x.epoch <= e => x \in durable

Announce(l, e) ==
  /\ Announceable(l, e)
  /\ announced' = [announced EXCEPT ![l] = e]
  /\ UNCHANGED <<floor, committed, durable>>

\* The sets and the epochs of a step are read off its outcome.
Next ==
  \/ \E w \in Workers :
       \/ Commit(w, committed' \ committed)
       \/ Advance(w, floor'[w])
  \/ Flush(durable' \ durable)
  \/ \E l \in Loggers : Announce(l, announced'[l])

Spec == Init /\ [][Next]_vars

-----------------------------------------------------------------------------
TypeOK ==
  /\ floor \in [Workers -> Nat]
  /\ \A x \in committed : Item(x)
  /\ durable \subseteq committed
  /\ announced \in [Loggers -> Nat]

\* The epochs a logger has announced are over for its workers.
AnnouncedClosed ==
  \A l \in Loggers : \A w \in Workers :
    LoggerOf[w] = l => announced[l] = 0 \/ announced[l] < floor[w]

\* What has been announced is on disk, and with it all that is ever committed
\* up to that epoch.
AnnouncedDurable ==
  \A l \in Loggers : \A x \in committed :
    LoggerOf[x.worker] = l /\ x.epoch <= announced[l] => x \in durable
=============================================================================
