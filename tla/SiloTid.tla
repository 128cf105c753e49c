------------------------------ MODULE SiloTid ------------------------------
(***************************************************************************)
(* Transaction identifiers of the Silo protocol (include/tuple.h).         *)
(*                                                                         *)
(* A TIDword packs epoch (32 bits), TID (29 bits), absent, latest and lock *)
(* into one 64-bit integer and is ordered by that integer, so by epoch     *)
(* first and TID second.  The flags absent and latest never change once a  *)
(* record is in use and are left out; the lock bit is kept by the users of *)
(* this module, next to the identifier.                                    *)
(***************************************************************************)
EXTENDS Naturals

CONSTANT TIDMod      \* number of values of the TID field (2^29 in the code)

ASSUME TIDModAssumption == TIDMod \in Nat \ {0}

Tid == [epoch : Nat, TID : 0 .. TIDMod - 1]

\* A TIDword whose obj_ is 0, or that was default-constructed.
ZeroTid == [epoch |-> 0, TID |-> 0]

\* What partTableInit leaves in every record.
InitTid == [epoch |-> 1, TID |-> 0]

TidLess(a, b) ==
  \/ a.epoch < b.epoch
  \/ a.epoch = b.epoch /\ a.TID < b.TID

TidLeq(a, b) == TidLess(a, b) \/ a = b

\* std::max on TIDwords.
MaxTid(a, b) == IF TidLess(a, b) THEN b ELSE a

\* Mutated: the increment carries out of its field.
BumpUnbounded(t) == [t EXCEPT !.TID = @ + 1]

\* tid.TID++ on a bit field: the carry does not reach the epoch.
Bump(t) == [t EXCEPT !.TID = (@ + 1) % TIDMod]

\* Mutated: the locked records do not count.
ChooseIgnoringWrites(maxW, maxR, mrctid, e) ==
  MaxTid(MaxTid(Bump(maxR), Bump(mrctid)), [epoch |-> e, TID |-> 0])

\* Mutated: the worker's previous identifier does not count.
ChooseIgnoringLast(maxW, maxR, mrctid, e) ==
  MaxTid(Bump(MaxTid(maxW, maxR)), [epoch |-> e, TID |-> 0])

(***************************************************************************)
(* The identifier writePhase gives a transaction: above every record it    *)
(* locked or validated, above the worker's previous identifier, and in the *)
(* epoch e the worker loaded.                                              *)
(***************************************************************************)
ChooseTid(maxW, maxR, mrctid, e) ==
  LET a == Bump(MaxTid(maxW, maxR))
      b == Bump(mrctid)
      c == [epoch |-> e, TID |-> 0]
  IN  MaxTid(MaxTid(a, b), c)
============================================================================
