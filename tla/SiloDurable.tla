----------------------------- MODULE SiloDurable -----------------------------
(***************************************************************************)
(* Transactions and their log together: the protocol of SiloCC step by     *)
(* step, above a write-ahead log that is no more than GroupCommit (which   *)
(* the logging path of SiloLog implements) and a durable epoch that is no  *)
(* more than the least announcement of the loggers (as in Notifier).       *)
(*                                                                         *)
(* The two meet in wal(): between validation and the installation of its   *)
(* writes a transaction hands over its records and then gives up the       *)
(* epochs before its own, by storing its identifier in CTIDW.              *)
(***************************************************************************)
EXTENDS SiloCCProps

CONSTANTS
  LOGGER_NUM,
  LoggerOf      \* the logger of each worker

Loggers == 0 .. LOGGER_NUM - 1

ASSUME DurableAssumption ==
  LOGGER_NUM \in Nat \ {0} /\ LoggerOf \in [Workers -> Loggers]

VARIABLES
  floor,        \* per worker: the epoch of CTIDW, 0 before its first store
  durable,      \* the log records on disk
  announced,    \* per logger: the epoch up to which it is durable
  DurableEpoch  \* the durable epoch of the program

walVars == <<floor, durable, announced>>
dvars   == <<vars, walVars, DurableEpoch>>

\* Log records as the write-ahead log sees them.
ItemOf(r) == [worker |-> r.val, epoch |-> r.tid.epoch, record |-> r]
Items(S)  == {ItemOf(r) : r \in S}

G == INSTANCE GroupCommit
       WITH committed <- Items(log), durable <- Items(durable)

DInit ==
  /\ Init
  /\ durable = {}
  /\ G!Init
  /\ DurableEpoch = 0

-----------------------------------------------------------------------------
(* The worker: transactions, and the places where it meets the log.        *)

\* wal(), first half: the records are handed over.
Push(w) == Wal(w) /\ UNCHANGED <<walVars, DurableEpoch>>

\* After wal() and before anything is installed.
InWal(w) == pc[w] = "write" /\ floor[w] # ThLocalEpoch[w]

\* wal(), second half: CTIDW is stored if a new epoch begins.
StoreCTIDW(w) ==
  /\ InWal(w)
  /\ floor' = [floor EXCEPT ![w] = ThLocalEpoch[w]]
  /\ UNCHANGED <<vars, durable, announced, DurableEpoch>>

\* epochWork: the epoch is published, and stored in CTIDW.
WaitForBuffer(w) ==
  /\ EpochWork(w)
  /\ floor' = [floor EXCEPT ![w] = ThLocalEpoch'[w]]
  /\ UNCHANGED <<durable, announced, DurableEpoch>>

\* Everything else a worker does leaves the log alone.
OtherStep(w) ==
  \/ Begin(w) \/ ReadStep(w) \/ ValidationStep(w) \/ CommitTid(w)
  \/ /\ ~InWal(w)
     /\ \/ \E k \in Keys : InstallVal(w, k) \/ InstallTid(w, k)
        \/ EndTxn(w)

WorkerStep(w) ==
  \/ Push(w) \/ StoreCTIDW(w) \/ WaitForBuffer(w)
  \/ OtherStep(w) /\ UNCHANGED <<walVars, DurableEpoch>>

-----------------------------------------------------------------------------
(* The loggers and the notifier, as far as the log promises it.            *)

RecordsOf(w) == {r \in log : r.val = w}

\* A logger writes and syncs what a worker has handed over so far.
Flush(w) ==
  /\ durable' = durable \cup RecordsOf(w)
  /\ durable' # durable
  /\ UNCHANGED <<vars, floor, announced, DurableEpoch>>

\* send_nid_to_notifier
AnnounceEpoch(l) ==
  /\ UNCHANGED <<vars, durable, DurableEpoch>>
  /\ \E e \in 1 .. GlobalEpoch : G!Announce(l, e)

\* Mutated: the epoch of one logger is taken for that of all.
SomeAnnounced(e) == \E l \in Loggers : announced[l] >= e

\* min(d_l)
AllAnnounced(e) == \A l \in Loggers : announced[l] >= e

\* check_durable
RaiseDurable ==
  /\ \E e \in DurableEpoch + 1 .. GlobalEpoch :
       AllAnnounced(e) /\ DurableEpoch' = e
  /\ UNCHANGED <<vars, walVars>>

DNext ==
  \/ AdvanceEpoch /\ UNCHANGED <<walVars, DurableEpoch>>
  \/ \E w \in Workers : WorkerStep(w) \/ Flush(w)
  \/ \E l \in Loggers : AnnounceEpoch(l)
  \/ RaiseDurable

DSpec == DInit /\ [][DNext]_dvars

-----------------------------------------------------------------------------
\* The log records of a committed transaction.
RecordsOfTxn(t) ==
  {[tid |-> t.tid, key |-> k, val |-> t.worker] : k \in t.writes}

\* Transactions the durable epoch covers.
Acknowledged == {t \in history : t.epoch <= DurableEpoch}

\* Wherever the protocol stands, it keeps its half of the write-ahead log's
\* contract: no worker commits in an epoch before its CTIDW, and CTIDW never
\* goes back.
WalContract == G!Spec

\* What is acknowledged is a prefix of the serial order: every transaction
\* serialized before an acknowledged one, by whatever worker and with whatever
\* logger, is acknowledged as well.
DurablePrefix ==
  \A t \in Acknowledged : \A u \in history :
    u.stamp <= t.stamp => u \in Acknowledged

\* A transaction is acknowledged only when all its records are in a log file:
\* not one that has its identifier and is still before wal(), or whose
\* records are in a buffer.
AcknowledgedOnDisk ==
  \A t \in Acknowledged : RecordsOfTxn(t) \subseteq durable

\* A recovery that replays the records on disk up to the durable epoch, the
\* largest identifier of a key last, finds in each record the last write of
\* the acknowledged transactions: identifiers, epochs and flushes agree with
\* the serial order.
RecoveryRebuilds ==
  \A k \in Keys :
    LET writers == {t \in Acknowledged : k \in t.writes}
        replayed == {r \in durable : r.key = k /\ r.tid.epoch <= DurableEpoch}
    IN  /\ writers = {} => replayed = {}
        /\ \A t \in writers :
             (\A u \in writers : u.stamp <= t.stamp) =>
               \E r \in replayed : /\ r.tid = t.tid /\ r.val = t.worker
                                   /\ \A q \in replayed : TidLeq(q.tid, r.tid)
=============================================================================
