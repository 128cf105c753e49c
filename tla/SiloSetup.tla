------------------------------ MODULE SiloSetup ------------------------------
(***************************************************************************)
(* main before its threads run (main.cpp:116-187): LoggerAffinity::init    *)
(* deals the processors out to the loggers and takes one of each share for *)
(* the logger itself; makeDB fills the table with as many threads as       *)
(* divide it evenly; then each logger is started with the workers of its   *)
(* share, numbered on from the last one.                                   *)
(*                                                                         *)
(* The numbers the real program gets from consts.h and from the machine    *)
(* are chosen in the initial state.                                        *)
(***************************************************************************)
EXTENDS Integers, SequencesExt

CONSTANTS
  MaxWorkers,   \* bound: values of THREAD_NUM
  MaxLoggers,   \* bound: values of LOGGER_NUM
  MaxCpus,      \* bound: values of hardware_concurrency(), 0 if not known
  TUPLE_NUM     \* records of the table

ASSUME ThreadBounds ==
  MaxWorkers \in Nat \ {0} /\ MaxLoggers \in Nat \ {0} /\ MaxCpus \in Nat
ASSUME TupleAssumption == TUPLE_NUM \in Nat

VARIABLES
  THREAD_NUM, LOGGER_NUM, num_cpus,
  step,         \* "deal", "convert", "fill", "launch", "launched", or "crashed"
  i, j,         \* the loop counters: processors or workers, and loggers
  worker_cpu,   \* per logger: LoggerNode::worker_cpu_
  logger_cpu,   \* per logger: LoggerNode::logger_cpu_, -1 before it is set
  fill,         \* per thread of makeDB: the next record it initializes
  filled,       \* per record: how many times it was initialized
  loggerOf      \* the logger of each worker started so far

params == <<THREAD_NUM, LOGGER_NUM, num_cpus>>
vars   == <<params, step, i, j, worker_cpu, logger_cpu, fill, filled, loggerOf>>

Loggers == 0 .. LOGGER_NUM - 1
Records == 0 .. TUPLE_NUM - 1

\* Too few processors for all threads: loggers share theirs with a worker.
Shared == LOGGER_NUM + THREAD_NUM > num_cpus
Dealt  == IF Shared THEN THREAD_NUM ELSE LOGGER_NUM + THREAD_NUM

\* The threads of makeDB: the greatest divisor of TUPLE_NUM there are
\* processors for.
maxthread == Max({m \in 1 .. num_cpus : TUPLE_NUM % m = 0} \cup {0})

Init ==
  /\ THREAD_NUM \in 1 .. MaxWorkers
  /\ LOGGER_NUM \in 1 .. MaxLoggers
  /\ num_cpus \in 0 .. MaxCpus
  /\ step = "deal" /\ i = 0 /\ j = 0
  /\ worker_cpu = [l \in Loggers |-> <<>>]
  /\ logger_cpu = [l \in Loggers |-> -1]
  /\ fill = <<>>
  /\ filled = [k \in Records |-> 0]
  /\ loggerOf = <<>>

-----------------------------------------------------------------------------
(* LoggerAffinity::init                                                    *)

\* Mutated: shares of one size, rounded up.
RoundedShare(c) == c \div (Dealt \div LOGGER_NUM + 1)

\* The logger in whose share a processor is.
ShareOf(c) == (c * LOGGER_NUM) \div Dealt

Deal ==
  /\ step = "deal"
  /\ IF i < Dealt
     THEN /\ worker_cpu' = [worker_cpu EXCEPT ![ShareOf(i)] = Append(@, i)]
          /\ i' = i + 1
          /\ UNCHANGED step
     ELSE /\ i' = 0 /\ step' = "convert"
          /\ UNCHANGED worker_cpu
  /\ UNCHANGED <<params, j, logger_cpu, fill, filled, loggerOf>>

\* Mutated: the logger's processor stays in its share.
KeptWorkers(cpus) == cpus

\* A logger of its own takes the last processor out of its share.
LeftWorkers(cpus) == IF Shared THEN cpus ELSE Front(cpus)

\* back() of an empty vector is undefined: it reads before a null pointer.
Convert ==
  /\ step = "convert" /\ j < LOGGER_NUM
  /\ IF worker_cpu[j] = <<>>
     THEN step' = "crashed" /\ UNCHANGED <<j, worker_cpu, logger_cpu>>
     ELSE /\ logger_cpu' = [logger_cpu EXCEPT ![j] = Last(worker_cpu[j])]
          /\ worker_cpu' = [worker_cpu EXCEPT ![j] = LeftWorkers(@)]
          /\ j' = j + 1
          /\ UNCHANGED step
  /\ UNCHANGED <<params, i, fill, filled, loggerOf>>

-----------------------------------------------------------------------------
(* makeDB                                                                  *)

FirstOf(t) == t * (TUPLE_NUM \div maxthread)

\* Mutated: one short, as for an end that is not included.
LastExcluded(t) == (t + 1) * (TUPLE_NUM \div maxthread) - 2

LastOf(t) == (t + 1) * (TUPLE_NUM \div maxthread) - 1

StartFill ==
  /\ step = "convert" /\ j = LOGGER_NUM
  /\ step' = "fill"
  /\ fill' = [t \in 0 .. maxthread - 1 |-> FirstOf(t)]
  /\ UNCHANGED <<params, i, j, worker_cpu, logger_cpu, filled, loggerOf>>

\* partTableInit: one record, by the thread in whose part it is.
FillRecord(t) ==
  /\ step = "fill" /\ fill[t] <= LastOf(t)
  /\ filled' = [filled EXCEPT ![fill[t]] = @ + 1]
  /\ fill' = [fill EXCEPT ![t] = @ + 1]
  /\ UNCHANGED <<params, step, i, j, worker_cpu, logger_cpu, loggerOf>>

JoinFill ==
  /\ step = "fill"
  /\ \A t \in DOMAIN fill : fill[t] > LastOf(t)
  /\ step' = "launch" /\ j' = 0
  /\ UNCHANGED <<params, i, worker_cpu, logger_cpu, fill, filled, loggerOf>>

-----------------------------------------------------------------------------
(* The loop of main that starts the threads.                               *)

\* A logger, and the workers of its share with the next numbers.
Launch ==
  /\ step = "launch"
  /\ IF j < LOGGER_NUM
     THEN /\ loggerOf' = loggerOf \o [w \in DOMAIN worker_cpu[j] |-> j]
          /\ i' = i + Len(worker_cpu[j])
          /\ j' = j + 1
          /\ UNCHANGED step
     ELSE step' = "launched" /\ UNCHANGED <<i, j, loggerOf>>
  /\ UNCHANGED <<params, worker_cpu, logger_cpu, fill, filled>>

Next ==
  \/ Deal \/ Convert
  \/ StartFill \/ JoinFill
  \/ \E t \in DOMAIN fill : FillRecord(t)
  \/ Launch

Spec == Init /\ [][Next]_vars /\ WF_vars(Next)

-----------------------------------------------------------------------------
Ready == step = "launched"

\* When the threads start, each record of the table has been initialized by
\* one thread, and none by two (on a machine that tells its processors).
TableFilled ==
  step \in {"launch", "launched"} /\ num_cpus > 0 =>
    \A k \in Records : filled[k] = 1

\* The workers of a logger, after the start.
Served(l) == {w \in DOMAIN loggerOf : loggerOf[w] = l}

\* As many workers as the arrays of main have room for are started, dealt out
\* evenly; and where there are no fewer workers than loggers, every logger
\* has one: a logger without would never end, and hold DurableEpoch at 0.
WorkersPlaced ==
  Ready => /\ Len(loggerOf) = THREAD_NUM /\ i = THREAD_NUM
           /\ \A l, m \in Loggers :
                Cardinality(Served(l)) - Cardinality(Served(m)) <= 1
           /\ THREAD_NUM >= LOGGER_NUM => \A l \in Loggers : Served(l) # {}

\* With no fewer workers than loggers the start-up comes to its end, on any
\* machine.
Starts == THREAD_NUM >= LOGGER_NUM ~> Ready
=============================================================================
