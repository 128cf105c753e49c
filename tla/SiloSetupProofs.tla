---------------------------- MODULE SiloSetupProofs ----------------------------
(***************************************************************************)
(* The start-up of SiloSetup, for any number of workers, loggers and       *)
(* processors and a table of any size: every record of the table is        *)
(* initialized once, and the workers are dealt out evenly to the loggers.  *)
(***************************************************************************)
EXTENDS SiloSetup, SequenceTheorems, FiniteSetTheorems, WellFoundedInduction, TLAPS

-----------------------------------------------------------------------------
(* Numbers.                                                                *)

\* A set of numbers that is not empty has a least one.
LEMMA LeastNumber ==
  ASSUME NEW S, S \subseteq Nat, S # {}
  PROVE  \E m \in S : \A n \in S : m <= n
<1> DEFINE R == OpToRel(<, Nat)
<1>1. IsWellFoundedOn(R, Nat)
  BY NatLessThanWellFounded
<1>2. \A m, n \in Nat : n < m => <<n, m>> \in R
  BY DEF OpToRel
<1> HIDE DEF R
<1>3. PICK m \in S : \A n \in S : <<n, m>> \notin R
  BY <1>1, WFMin
<1>4. ASSUME NEW n \in S PROVE m <= n
  <2>1. m \in Nat /\ n \in Nat /\ <<n, m>> \notin R
    BY <1>3
  <2>2. ~(n < m)
    BY <1>2, <2>1
  <2> QED
    BY <2>1, <2>2
<1> QED
  BY <1>4

\* A quotient and what is lost in the division.
LEMMA Division ==
  ASSUME NEW a \in Nat, NEW b \in Nat, b > 0,
         NEW d, d = a \div b, NEW r, r = a % b
  PROVE  d \in Nat /\ r \in 0 .. b - 1 /\ a = b * d + r
<1>1. a \div b \in Nat
  BY SMT
<1>2. a % b \in 0 .. b - 1
  BY SMT
<1>3. a = b * d + r
  OBVIOUS
<1> QED
  BY <1>1, <1>2, <1>3

\* A quotient is not above a number if the dividend is not above its multiple.
LEMMA QuotientBound ==
  ASSUME NEW a \in Nat, NEW b \in Nat, b > 0, NEW q \in Nat
  PROVE  /\ q <= a \div b <=> b * q <= a
         /\ a \div b < q <=> a < b * q
<1> DEFINE d == a \div b
           r == a % b
<1>1. d \in Nat /\ r \in 0 .. b - 1 /\ a = b * d + r
  BY Division
<1> HIDE DEF d, r
<1>2. ASSUME q <= d PROVE b * q <= a
  <2>1. b * q <= b * d
    BY <1>1, <1>2
  <2> QED
    BY <1>1, <2>1
<1>3. ASSUME d < q PROVE a < b * q
  <2>1. d + 1 <= q
    BY <1>1, <1>3
  <2>2. b * (d + 1) <= b * q /\ b * (d + 1) = b * d + b
    BY <1>1, <2>1
  <2> QED
    BY <1>1, <2>2
<1> QED
  BY <1>1, <1>2, <1>3 DEF d

\* A finite set of numbers has a greatest one.
LEMMA GreatestNumber ==
  ASSUME NEW n \in Nat, NEW S, S \subseteq 0 .. n, S # {}
  PROVE  Max(S) \in S /\ \A x \in S : x <= Max(S)
<1> DEFINE IsMax(x) == x \in S /\ \A y \in S : x >= y
           D == {n - x : x \in S}
<1>1. D \subseteq Nat
  <2>1. \A x \in S : n - x \in Nat
    OBVIOUS
  <2> QED
    BY <2>1
<1>2. PICK d \in D : \A e \in D : d <= e
  <2>1. D # {}
    OBVIOUS
  <2> QED
    BY <1>1, <2>1, LeastNumber
<1>3. PICK x \in S : d = n - x
  BY <1>2
<1>4. ASSUME NEW y \in S PROVE x >= y
  <2>1. n - y \in D
    OBVIOUS
  <2>2. n - x <= n - y /\ x \in 0 .. n /\ y \in 0 .. n
    BY <1>2, <1>3, <2>1
  <2> QED
    BY <2>2
<1>5. IsMax(x)
  BY <1>4
<1>6. Max(S) = CHOOSE y \in S : \A z \in S : y >= z
  BY DEF Max
<1>7. IsMax(Max(S))
  <2>1. \E y \in S : \A z \in S : y >= z
    BY <1>4
  <2> QED
    BY <1>6, <2>1
<1> QED
  BY <1>7

-----------------------------------------------------------------------------
(* Shares.                                                                 *)

\* The first processor of a share, and of the one behind the last.
Bound(l) == (l * Dealt + LOGGER_NUM - 1) \div LOGGER_NUM

\* How many processors a share has, and how many of them workers keep.
Size(l) == Bound(l + 1) - Bound(l)
Kept(l) == IF Shared THEN Size(l) ELSE Size(l) - 1

\* The workers of the loggers before l.
Before(l) == IF Shared THEN Bound(l) ELSE Bound(l) - l

\* The processors of a share among the first n.
DealtTo(l, n) ==
  IF n < Bound(l) THEN 0 ELSE IF n < Bound(l + 1) THEN n - Bound(l) ELSE Size(l)

ParamsOK ==
  /\ THREAD_NUM \in 1 .. MaxWorkers
  /\ LOGGER_NUM \in 1 .. MaxLoggers
  /\ num_cpus \in 0 .. MaxCpus

SharesInv ==
  /\ worker_cpu \in [Loggers -> Seq(Nat)]
  /\ step = "deal" => /\ i \in 0 .. Dealt /\ j = 0
                      /\ \A l \in Loggers : Len(worker_cpu[l]) = DealtTo(l, i)
  /\ step = "convert" => /\ i = 0 /\ j \in 0 .. LOGGER_NUM
                         /\ \A l \in Loggers :
                              Len(worker_cpu[l]) = IF l < j THEN Kept(l) ELSE Size(l)
                         /\ \A l \in Loggers : l < j => Size(l) > 0
  /\ step \in {"fill", "launch", "launched"} =>
       \A l \in Loggers : Len(worker_cpu[l]) = Kept(l)

\* The workers of the loggers started so far have their numbers one behind
\* the other.
LaunchInv ==
  /\ step \notin {"launch", "launched"} => loggerOf = <<>>
  /\ step = "fill" => i = 0
  /\ step = "launch" => j \in 0 .. LOGGER_NUM
  /\ step = "launched" => j = LOGGER_NUM
  /\ step \in {"launch", "launched"} =>
       /\ loggerOf \in Seq(Loggers)
       /\ i = Before(j) /\ Len(loggerOf) = i
       /\ \A w \in 1 .. i : Before(loggerOf[w]) < w /\ w <= Before(loggerOf[w] + 1)

-----------------------------------------------------------------------------
(* The table.                                                              *)

Part == TUPLE_NUM \div maxthread

\* A record has been initialized once if it is in front of the next record of
\* the thread in whose part it is, and otherwise not yet.
FillInv ==
  /\ filled \in [Records -> Nat]
  /\ step \in {"deal", "convert"} => \A k \in Records : filled[k] = 0
  /\ step \in {"fill", "launch", "launched"} =>
       /\ fill \in [0 .. maxthread - 1 -> Nat]
       /\ \A t \in DOMAIN fill : t * Part <= fill[t] /\ fill[t] <= (t + 1) * Part
       /\ \A k \in Records :
            filled[k] = IF \E t \in DOMAIN fill : t * Part <= k /\ k < fill[t]
                        THEN 1 ELSE 0
  /\ step \in {"launch", "launched"} =>
       \A t \in DOMAIN fill : fill[t] = (t + 1) * Part

SetupInv == ParamsOK /\ SharesInv /\ LaunchInv /\ FillInv

\* The processors of the machine divide the table into equal parts, and a
\* machine that tells its processors has one part at least.
LEMMA Parts ==
  ASSUME ParamsOK
  PROVE  /\ maxthread \in Nat /\ (num_cpus > 0 => maxthread > 0)
         /\ maxthread > 0 => Part \in Nat /\ maxthread * Part = TUPLE_NUM
<1> DEFINE S == {m \in 1 .. num_cpus : TUPLE_NUM % m = 0} \cup {0}
<1>1. S \subseteq 0 .. num_cpus /\ S # {} /\ num_cpus \in Nat
  BY ThreadBounds DEF ParamsOK
<1>2. maxthread = Max(S)
  BY DEF maxthread
<1>3. num_cpus > 0 => 1 \in S
  <2>1. TUPLE_NUM % 1 = 0
    BY TupleAssumption, Division
  <2> QED
    BY <1>1, <2>1
<1>4. maxthread > 0 => TUPLE_NUM % maxthread = 0
  <2>1. maxthread \in S
    BY <1>1, <1>2, GreatestNumber
  <2> QED
    BY <2>1
<1> HIDE DEF S
<1>5. maxthread \in S /\ \A x \in S : x <= maxthread
  BY <1>1, <1>2, GreatestNumber
<1>6. maxthread \in Nat
  BY <1>1, <1>5
<1>7. ASSUME maxthread > 0
      PROVE  Part \in Nat /\ maxthread * Part = TUPLE_NUM
  <2>1. Part \in Nat /\ TUPLE_NUM = maxthread * Part + 0
    BY <1>4, <1>6, <1>7, TupleAssumption, Division DEF Part
  <2> QED
    BY <1>6, <2>1
<1> QED
  BY <1>1, <1>3, <1>5, <1>6, <1>7

\* The part of a thread is in the table, and apart from those of others.
LEMMA PartsApart ==
  ASSUME NEW m \in Nat, NEW s \in Nat, NEW t \in 0 .. m - 1
  PROVE  /\ t * s \in Nat /\ (t + 1) * s \in Nat /\ (t + 1) * s = t * s + s
         /\ (t + 1) * s <= m * s
         /\ \A u \in 0 .. m - 1 : u # t => (u + 1) * s <= t * s \/ (t + 1) * s <= u * s
<1>1. \A x, y \in Nat : x <= y => x * s <= y * s /\ x * s \in Nat /\ y * s \in Nat
  OBVIOUS
<1>2. (t + 1) * s = t * s + s /\ t * s \in Nat /\ (t + 1) * s \in Nat
  OBVIOUS
<1>3. t + 1 <= m /\ t + 1 \in Nat
  OBVIOUS
<1>4. (t + 1) * s <= m * s
  BY <1>1, <1>3
<1>5. ASSUME NEW u \in 0 .. m - 1, u # t
      PROVE  (u + 1) * s <= t * s \/ (t + 1) * s <= u * s
  <2>1. /\ {t, u, t + 1, u + 1} \subseteq Nat
        /\ u + 1 <= t \/ t + 1 <= u
    BY <1>5
  <2> QED
    BY <1>1, <2>1
<1> QED
  BY <1>2, <1>4, <1>5

\* Every record is in a part.
LEMMA InSomePart ==
  ASSUME NEW m \in Nat, NEW s \in Nat, m * s = TUPLE_NUM, NEW k \in Records
  PROVE  \E t \in 0 .. m - 1 : t * s <= k /\ k < (t + 1) * s
<1>1. k \in Nat /\ k < m * s
  BY TupleAssumption DEF Records
<1>2. s > 0
  BY <1>1
<1> DEFINE t == k \div s
<1>3. t \in Nat
  BY <1>1, <1>2
<1>4. t < m
  <2>1. s * m = m * s
    OBVIOUS
  <2> QED
    BY <1>1, <1>2, <2>1, QuotientBound
<1>5. s * t <= k
  BY <1>1, <1>2, <1>3, QuotientBound
<1>6. k < s * (t + 1)
  <2>1. t + 1 \in Nat /\ t < t + 1
    BY <1>3
  <2> QED
    BY <1>1, <1>2, <2>1, QuotientBound
<1> HIDE DEF t
<1>7. t \in 0 .. m - 1 /\ t * s = s * t /\ (t + 1) * s = s * (t + 1)
  BY <1>3, <1>4
<1>8. t * s <= k /\ k < (t + 1) * s
  BY <1>5, <1>6, <1>7
<1> QED
  BY <1>7, <1>8

\* No step changes what was chosen in the beginning.
LEMMA ParamsKept ==
  ASSUME [Next]_vars
  PROVE  /\ UNCHANGED params
         /\ Dealt' = Dealt /\ Shared' = Shared /\ Loggers' = Loggers
         /\ maxthread' = maxthread /\ Part' = Part
<1>1. UNCHANGED params
  BY DEF Next, vars, Deal, Convert, StartFill, JoinFill, FillRecord, Launch
<1>2. UNCHANGED <<THREAD_NUM, LOGGER_NUM, num_cpus>>
  BY <1>1 DEF params
<1> QED
  BY <1>1, <1>2 DEF Dealt, Shared, Loggers, maxthread, Part

\* What the steps outside makeDB leave to it.
LEMMA FillKept ==
  ASSUME ParamsOK, FillInv, [Next]_vars, UNCHANGED <<fill, filled>>,
         \/ step' = step
         \/ step \in {"deal", "convert"} /\ step' \in {"convert", "crashed"}
         \/ step = "launch" /\ step' = "launched"
  PROVE  FillInv'
<1>1. maxthread' = maxthread /\ Part' = Part /\ UNCHANGED <<fill, filled>>
  BY ParamsKept
<1>2. step' \in {"deal", "convert"} => step \in {"deal", "convert"}
  OBVIOUS
<1>3. step' \in {"fill", "launch", "launched"} => step \in {"fill", "launch", "launched"}
  OBVIOUS
<1>4. step' \in {"launch", "launched"} => step \in {"launch", "launched"}
  OBVIOUS
<1> QED
  BY <1>1, <1>2, <1>3, <1>4 DEF FillInv

\* No record is initialized before its thread starts.
LEMMA StartFillStep ==
  ASSUME ParamsOK, FillInv, StartFill
  PROVE  FillInv'
<1>1. /\ step = "convert" /\ step' = "fill" /\ UNCHANGED filled
      /\ fill' = [t \in 0 .. maxthread - 1 |-> FirstOf(t)]
      /\ maxthread' = maxthread /\ Part' = Part
  BY ParamsKept DEF StartFill, Next
<1>2. maxthread \in Nat /\ (maxthread > 0 => Part \in Nat)
  BY Parts
<1>3. ASSUME NEW t \in 0 .. maxthread - 1
      PROVE  /\ fill'[t] = t * Part /\ fill'[t] \in Nat
             /\ t * Part <= fill'[t] /\ fill'[t] <= (t + 1) * Part
  <2>1. Part \in Nat /\ fill'[t] = t * Part
    BY <1>1, <1>2 DEF FirstOf, Part
  <2>2. t * Part \in Nat /\ (t + 1) * Part = t * Part + Part
    BY <1>2, <2>1, PartsApart
  <2> QED
    BY <2>1, <2>2
<1>4. fill' \in [0 .. maxthread - 1 -> Nat] /\ DOMAIN fill' = 0 .. maxthread - 1
  BY <1>1, <1>3
<1>5. \A k \in Records : filled[k] = 0 /\ k \in Nat
  BY <1>1, TupleAssumption DEF FillInv, Records
<1>6. ASSUME NEW k \in Records, NEW t \in 0 .. maxthread - 1,
             t * Part <= k, k < fill'[t]
      PROVE  FALSE
  <2>1. k < t * Part /\ t * Part \in Nat
    BY <1>3, <1>6
  <2> QED
    BY <1>5, <1>6, <2>1
<1>7. \A k \in Records :
        filled[k] = IF \E t \in DOMAIN fill' : t * Part <= k /\ k < fill'[t] THEN 1 ELSE 0
  BY <1>4, <1>5, <1>6
<1>8. \A t \in DOMAIN fill' : t * Part <= fill'[t] /\ fill'[t] <= (t + 1) * Part
  BY <1>3, <1>4
<1>9. filled \in [Records -> Nat]
  BY DEF FillInv
<1> QED
  BY <1>1, <1>4, <1>7, <1>8, <1>9 DEF FillInv

\* A thread initializes a record that nobody has, for it is in its own part.
LEMMA FillRecordStep ==
  ASSUME ParamsOK, FillInv, NEW t \in DOMAIN fill, FillRecord(t)
  PROVE  FillInv'
<1> DEFINE c == fill[t]
           m == maxthread
<1>1. /\ step = "fill" /\ step' = "fill" /\ c <= LastOf(t)
      /\ filled' = [filled EXCEPT ![c] = @ + 1]
      /\ fill' = [fill EXCEPT ![t] = c + 1]
      /\ maxthread' = m /\ Part' = Part
  BY ParamsKept DEF FillRecord, Next
<1>2. /\ fill \in [0 .. m - 1 -> Nat] /\ filled \in [Records -> Nat]
      /\ \A u \in 0 .. m - 1 : u * Part <= fill[u] /\ fill[u] <= (u + 1) * Part
      /\ \A k \in Records :
           filled[k] = IF \E u \in 0 .. m - 1 : u * Part <= k /\ k < fill[u]
                       THEN 1 ELSE 0
  BY <1>1 DEF FillInv
<1>3. m \in Nat /\ t \in 0 .. m - 1 /\ m > 0
  BY <1>2, Parts
<1>4. Part \in Nat /\ m * Part = TUPLE_NUM
  BY <1>3, Parts
<1> HIDE DEF m
<1>5. \A u \in 0 .. m - 1 :
        /\ u * Part \in Nat /\ (u + 1) * Part \in Nat
        /\ u # t => (u + 1) * Part <= t * Part \/ (t + 1) * Part <= u * Part
  BY <1>3, <1>4, PartsApart
<1>6. c \in Nat /\ t * Part <= c /\ c < (t + 1) * Part /\ c < TUPLE_NUM
  <2>1. LastOf(t) = (t + 1) * Part - 1
    BY DEF LastOf, Part
  <2>2. (t + 1) * Part <= m * Part /\ (t + 1) * Part \in Nat
    BY <1>3, <1>4, PartsApart
  <2>3. c \in Nat /\ t * Part <= c
    BY <1>2, <1>3
  <2> QED
    <3> DEFINE e == (t + 1) * Part
    <3>1. e \in Nat /\ e <= TUPLE_NUM /\ c <= e - 1
      BY <1>1, <1>4, <2>1, <2>2
    <3> HIDE DEF e, c
    <3>2. c < e /\ c < TUPLE_NUM
      BY <2>3, <3>1, TupleAssumption
    <3> QED
      BY <2>3, <3>2 DEF e
<1>7. c \in Records
  BY <1>6, TupleAssumption DEF Records
<1>8. ASSUME NEW u \in 0 .. m - 1, u * Part <= c, c < fill[u] PROVE FALSE
  <2>1. CASE u = t
    BY <1>6, <1>8, <2>1
  <2>2. CASE u # t
    <3>1. /\ u * Part \in Nat /\ (u + 1) * Part \in Nat
          /\ t * Part \in Nat /\ (t + 1) * Part \in Nat
          /\ fill[u] \in Nat /\ fill[u] <= (u + 1) * Part
      BY <1>2, <1>3, <1>5
    <3>2. (u + 1) * Part <= t * Part \/ (t + 1) * Part <= u * Part
      BY <1>5, <2>2
    <3> QED
      BY <1>6, <1>8, <3>1, <3>2
  <2> QED
    BY <2>1, <2>2
<1>9. filled[c] = 0
  BY <1>2, <1>7, <1>8
<1>10. \A u \in 0 .. m - 1 : fill'[u] = IF u = t THEN c + 1 ELSE fill[u]
  BY <1>1, <1>2, <1>3
<1>11. \A k \in Records : filled'[k] = IF k = c THEN 1 ELSE filled[k]
  BY <1>1, <1>2, <1>7, <1>9
<1>12. fill' \in [0 .. m - 1 -> Nat] /\ filled' \in [Records -> Nat]
       /\ DOMAIN fill' = 0 .. m - 1
  BY <1>1, <1>2, <1>6, <1>7, <1>9
<1>13. ASSUME NEW u \in 0 .. m - 1
       PROVE  u * Part <= fill'[u] /\ fill'[u] <= (u + 1) * Part
  <2>1. CASE u = t
    <3>1. c + 1 <= (t + 1) * Part /\ t * Part <= c + 1
      BY <1>3, <1>5, <1>6
    <3> QED
      BY <1>10, <2>1, <3>1
  <2>2. CASE u # t
    BY <1>2, <1>10, <2>2
  <2> QED
    BY <2>1, <2>2
<1>14. ASSUME NEW k \in Records
       PROVE  filled'[k] = IF \E u \in 0 .. m - 1 : u * Part <= k /\ k < fill'[u]
                           THEN 1 ELSE 0
  <2>1. k \in Nat
    BY DEF Records
  <2>2. CASE k = c
    <3>1. t * Part <= k /\ k < fill'[t]
      BY <1>3, <1>6, <1>10, <2>2
    <3> QED
      BY <1>3, <1>11, <2>2, <3>1
  <2>3. CASE k # c
    <3>1. ASSUME NEW u \in 0 .. m - 1
          PROVE  k < fill'[u] <=> k < fill[u]
      <4>1. CASE u = t
        BY <1>6, <1>10, <2>1, <2>3, <4>1
      <4>2. CASE u # t
        BY <1>10, <4>2
      <4> QED
        BY <4>1, <4>2
    <3> HIDE DEF c
    <3>2. (\E u \in 0 .. m - 1 : u * Part <= k /\ k < fill'[u]) <=>
            \E u \in 0 .. m - 1 : u * Part <= k /\ k < fill[u]
      BY <3>1
    <3>3. filled'[k] = filled[k]
      BY <1>11, <2>3
    <3> QED
      BY <1>2, <3>2, <3>3
  <2> QED
    BY <2>2, <2>3
<1>15. DOMAIN fill' = 0 .. maxthread' - 1 /\ fill' \in [0 .. maxthread' - 1 -> Nat]
  BY <1>1, <1>12 DEF m
<1> QED
  BY <1>1, <1>12, <1>13, <1>14, <1>15 DEF FillInv

\* When all threads of makeDB have ended they are at the ends of their parts.
LEMMA JoinFillStep ==
  ASSUME ParamsOK, FillInv, JoinFill
  PROVE  FillInv'
<1>1. /\ step = "fill" /\ step' = "launch" /\ UNCHANGED <<fill, filled>>
      /\ \A t \in DOMAIN fill : fill[t] > LastOf(t)
      /\ maxthread' = maxthread /\ Part' = Part
  BY ParamsKept DEF JoinFill, Next
<1>2. ASSUME NEW t \in DOMAIN fill PROVE fill[t] = (t + 1) * Part
  <2>1. /\ t \in 0 .. maxthread - 1 /\ fill[t] \in Nat
        /\ fill[t] <= (t + 1) * Part
    BY <1>1 DEF FillInv
  <2>2. maxthread \in Nat /\ Part \in Nat
    BY <2>1, Parts
  <2>3. (t + 1) * Part \in Nat
    BY <2>1, <2>2, PartsApart
  <2>4. fill[t] > (t + 1) * Part - 1
    BY <1>1 DEF LastOf, Part
  <2> QED
    BY <2>1, <2>3, <2>4
<1> QED
  BY <1>1, <1>2 DEF FillInv

-----------------------------------------------------------------------------
(* The shares of the loggers.                                              *)

\* Where the shares begin: the first at 0, each at or behind the one before,
\* the last ends at the end, and their sizes differ by less than two.
LEMMA BoundFacts ==
  ASSUME ParamsOK, NEW l \in Nat
  PROVE  /\ Dealt \in Nat /\ Dealt > 0 /\ LOGGER_NUM \in Nat /\ LOGGER_NUM > 0
         /\ Bound(l) \in Nat
         /\ l * Dealt <= LOGGER_NUM * Bound(l)
         /\ LOGGER_NUM * Bound(l) <= l * Dealt + LOGGER_NUM - 1
<1>1. /\ Dealt \in Nat /\ Dealt > 0 /\ LOGGER_NUM \in Nat /\ LOGGER_NUM > 0
  BY ThreadBounds DEF ParamsOK, Dealt
<1> DEFINE a == l * Dealt + LOGGER_NUM - 1
           d == Bound(l)
           r == a % LOGGER_NUM
<1>2. l * Dealt \in Nat
  BY <1>1
<1>3. a \in Nat
  BY <1>1, <1>2
<1>4. d = a \div LOGGER_NUM
  BY DEF Bound
<1> HIDE DEF d, r, a
<1>5. d \in Nat /\ r \in 0 .. LOGGER_NUM - 1 /\ a = LOGGER_NUM * d + r
  BY <1>1, <1>3, <1>4, Division DEF r
<1> DEFINE x == l * Dealt
           y == LOGGER_NUM * d
<1>6. y \in Nat
  BY <1>1, <1>5
<1>7. a = x + LOGGER_NUM - 1 /\ x \in Nat /\ a = y + r
  BY <1>2, <1>5 DEF a
<1> HIDE DEF x, y
<1>8. x <= y /\ y <= x + LOGGER_NUM - 1
  BY <1>1, <1>5, <1>6, <1>7
<1> QED
  BY <1>1, <1>5, <1>8 DEF x, y, d

\* Which share a processor is in.
LEMMA InShare ==
  ASSUME ParamsOK, NEW c \in Nat, NEW l \in Nat
  PROVE  Bound(l) <= c <=> l * Dealt <= c * LOGGER_NUM
<1> DEFINE b == Bound(l)
           x == l * Dealt
<1>1. /\ Dealt \in Nat /\ LOGGER_NUM \in Nat /\ LOGGER_NUM > 0 /\ b \in Nat
      /\ x <= LOGGER_NUM * b /\ LOGGER_NUM * b <= x + LOGGER_NUM - 1
  BY BoundFacts
<1>2. x \in Nat
  BY <1>1
<1> HIDE DEF b, x
<1>3. ASSUME b <= c PROVE x <= c * LOGGER_NUM
  <2>1. LOGGER_NUM * b <= c * LOGGER_NUM
    BY <1>1, <1>3
  <2> QED
    BY <1>1, <1>2, <2>1
<1>4. ASSUME ~(b <= c) PROVE ~(x <= c * LOGGER_NUM)
  <2>1. c + 1 <= b
    BY <1>1, <1>4
  <2>2. LOGGER_NUM * (c + 1) <= LOGGER_NUM * b
        /\ LOGGER_NUM * (c + 1) = c * LOGGER_NUM + LOGGER_NUM
    BY <1>1, <2>1
  <2> QED
    BY <1>1, <1>2, <2>2
<1> QED
  BY <1>3, <1>4 DEF b, x

\* The bounds of all shares, in order.
LEMMA BoundsInOrder ==
  ASSUME ParamsOK
  PROVE  /\ Bound(0) = 0 /\ Bound(LOGGER_NUM) = Dealt
         /\ \A l, m \in Nat : l <= m => Bound(l) <= Bound(m)
<1>1. /\ Dealt \in Nat /\ LOGGER_NUM \in Nat /\ LOGGER_NUM > 0
      /\ \A l \in Nat : Bound(l) \in Nat
  BY BoundFacts
<1>2. Bound(0) = 0
  <2>1. Bound(0) <= 0 <=> 0 * Dealt <= 0 * LOGGER_NUM
    BY InShare
  <2> QED
    BY <1>1, <2>1
<1>3. Bound(LOGGER_NUM) = Dealt
  <2>1. Bound(LOGGER_NUM) <= Dealt
    <3>1. LOGGER_NUM * Dealt <= Dealt * LOGGER_NUM
      BY <1>1
    <3> QED
      BY <1>1, <3>1, InShare
  <2>2. CASE Bound(LOGGER_NUM) < Dealt
    <3> DEFINE c == Dealt - 1
    <3>1. c \in Nat /\ Bound(LOGGER_NUM) <= c
      BY <1>1, <2>2
    <3>2. LOGGER_NUM * Dealt <= c * LOGGER_NUM
      BY <1>1, <3>1, InShare
    <3>3. c * LOGGER_NUM = LOGGER_NUM * Dealt - LOGGER_NUM /\ LOGGER_NUM * Dealt \in Nat
      BY <1>1
    <3> QED
      BY <1>1, <3>2, <3>3
  <2> QED
    BY <1>1, <2>1, <2>2
<1>4. ASSUME NEW l \in Nat, NEW m \in Nat, l <= m PROVE Bound(l) <= Bound(m)
  <2> DEFINE c == Bound(m)
  <2>1. c \in Nat
    BY <1>1
  <2> HIDE DEF c
  <2>2. m * Dealt <= c * LOGGER_NUM
    BY <1>1, <2>1, InShare DEF c
  <2>3. l * Dealt <= m * Dealt /\ l * Dealt \in Nat /\ m * Dealt \in Nat
    BY <1>1, <1>4
  <2>4. l * Dealt <= c * LOGGER_NUM
    BY <1>1, <2>1, <2>2, <2>3
  <2> QED
    BY <2>1, <2>4, InShare DEF c
<1> QED
  BY <1>2, <1>3, <1>4

\* Sizes of two shares, and what is in each if there is one worker at least
\* for every logger.
LEMMA SizeFacts ==
  ASSUME ParamsOK, NEW l \in Nat, NEW m \in Nat
  PROVE  /\ Size(l) \in Nat
         /\ Size(l) <= Size(m) + 1
         /\ Kept(l) \in Nat
         /\ THREAD_NUM >= LOGGER_NUM => Kept(l) > 0
<1> DEFINE L == LOGGER_NUM
<1>1. /\ Dealt \in Nat /\ Dealt > 0 /\ L \in Nat /\ L > 0
      /\ l + 1 \in Nat /\ m + 1 \in Nat
      /\ \A k \in Nat : /\ Bound(k) \in Nat /\ k * Dealt <= L * Bound(k)
                        /\ L * Bound(k) <= k * Dealt + L - 1
  BY BoundFacts
<1>2. Bound(l) <= Bound(l + 1)
  BY <1>1, BoundsInOrder
<1>3. Size(l) \in Nat
  BY <1>1, <1>2 DEF Size
<1>4. ASSUME NEW k \in Nat
      PROVE  /\ Size(k) \in Int
             /\ Dealt - (L - 1) <= L * Size(k) /\ L * Size(k) <= Dealt + (L - 1)
  <2> DEFINE b == Bound(k)
             e == Bound(k + 1)
             x == k * Dealt
  <2>1. /\ b \in Nat /\ e \in Nat
        /\ x <= L * b /\ L * b <= x + L - 1
        /\ (k + 1) * Dealt <= L * e /\ L * e <= (k + 1) * Dealt + L - 1
    BY <1>1
  <2>2. (k + 1) * Dealt = x + Dealt /\ x \in Nat
    BY <1>1
  <2>3. Size(k) = e - b
    BY DEF Size
  <2> HIDE DEF b, e, x, L
  <2>4. L * (e - b) = L * e - L * b /\ L * e \in Nat /\ L * b \in Nat
    BY <1>1, <2>1
  <2> QED
    BY <1>1, <2>1, <2>2, <2>3, <2>4
<1> HIDE DEF L
<1>5. Size(l) <= Size(m) + 1
  <2> SUFFICES ASSUME ~(Size(l) <= Size(m) + 1) PROVE FALSE
    OBVIOUS
  <2> DEFINE s == Size(l)
             t == Size(m)
  <2>1. s \in Int /\ t \in Int /\ s >= t + 2
    BY <1>4
  <2>2. L * s <= Dealt + (L - 1) /\ Dealt - (L - 1) <= L * t
    BY <1>4
  <2> HIDE DEF s, t
  <2>3. L * s >= L * (t + 2) /\ L * (t + 2) = L * t + 2 * L
        /\ L * s \in Int /\ L * t \in Int
    BY <1>1, <2>1
  <2> QED
    BY <1>1, <2>2, <2>3
<1>6. ASSUME THREAD_NUM >= LOGGER_NUM PROVE Kept(l) > 0
  <2> DEFINE s == Size(l)
  <2>1. s \in Int /\ Dealt - (L - 1) <= L * s
    BY <1>4
  <2>2. THREAD_NUM \in Nat /\ L = LOGGER_NUM
    BY ThreadBounds DEF ParamsOK, L
  <2> HIDE DEF s
  <2>3. CASE Shared
    <3>1. Dealt >= L
      BY <1>6, <2>2, <2>3 DEF Dealt
    <3>2. L * s >= 1 /\ L * s \in Int
      BY <1>1, <2>1, <3>1
    <3>3. s > 0
      BY <1>1, <2>1, <3>2
    <3> QED
      BY <2>3, <3>3 DEF Kept, s
  <2>4. CASE ~Shared
    <3>1. Dealt >= 2 * L
      BY <1>1, <1>6, <2>2, <2>4 DEF Dealt
    <3>2. L * s >= L + 1 /\ L * s \in Int
      BY <1>1, <2>1, <3>1
    <3>3. ~(s <= 1)
      BY <1>1, <2>1, <3>2
    <3>4. s - 1 > 0
      BY <2>1, <3>3
    <3> QED
      BY <2>4, <3>4 DEF Kept, s
  <2> QED
    BY <2>3, <2>4
<1>7. Kept(l) \in Nat
  <2>1. CASE Shared
    BY <1>3, <2>1 DEF Kept
  <2>2. CASE ~Shared
    <3> DEFINE s == Size(l)
    <3>1. s \in Nat /\ Dealt - (L - 1) <= L * s
      BY <1>3, <1>4
    <3>2. Dealt >= L + 1
      BY <1>1, <2>2, ThreadBounds DEF ParamsOK, Dealt, L
    <3> HIDE DEF s
    <3>3. s # 0
      BY <1>1, <3>1, <3>2
    <3> QED
      BY <2>2, <3>1, <3>3 DEF Kept, s
  <2> QED
    BY <2>1, <2>2
<1> QED
  BY <1>3, <1>5, <1>6, <1>7

\* The numbers of the workers: they begin at 0, those of a logger follow those
\* of the loggers before, and there are THREAD_NUM.
LEMMA BeforeFacts ==
  ASSUME ParamsOK
  PROVE  /\ Before(0) = 0 /\ Before(LOGGER_NUM) = THREAD_NUM
         /\ \A l \in Nat : Before(l) \in Int /\ Before(l + 1) = Before(l) + Kept(l)
         /\ \A l, m \in Nat : l < m => Before(l + 1) <= Before(m)
<1> DEFINE L == LOGGER_NUM
<1>1. /\ Dealt \in Nat /\ L \in Nat /\ L > 0 /\ THREAD_NUM \in Nat /\ num_cpus \in Nat
      /\ \A k \in Nat : /\ Bound(k) \in Nat /\ k * Dealt <= L * Bound(k)
                        /\ L * Bound(k) <= k * Dealt + L - 1
  BY BoundFacts, ThreadBounds DEF ParamsOK
<1>2. Before(0) = 0 /\ Before(L) = THREAD_NUM
  BY <1>1, BoundsInOrder DEF Before, Dealt
<1>3. ASSUME NEW l \in Nat
      PROVE  Before(l) \in Int /\ Before(l + 1) = Before(l) + Kept(l)
  <2>1. Bound(l) \in Nat /\ Bound(l + 1) \in Nat
    BY <1>1
  <2> QED
    BY <2>1 DEF Before, Kept, Size
<1>4. ASSUME NEW l \in Nat, NEW m \in Nat, l < m PROVE Before(l + 1) <= Before(m)
  <2>1. CASE Shared
    <3>1. Bound(l + 1) <= Bound(m)
      BY <1>4, BoundsInOrder
    <3> QED
      BY <2>1, <3>1 DEF Before
  <2>2. CASE ~Shared
    <3>1. Dealt >= L + 1
      BY <1>1, <2>2, ThreadBounds DEF ParamsOK, Dealt
    <3> DEFINE k == l + 1
               n == m - k
               b == Bound(k)
               e == Bound(m)
               x == k * Dealt
    <3>2. k \in Nat /\ n \in Nat /\ m = k + n /\ b \in Nat /\ e \in Nat
      BY <1>1, <1>4
    <3>3. m * Dealt <= L * e /\ L * b <= x + L - 1 /\ x \in Nat
      BY <1>1, <3>2
    <3>4. Before(k) = b - k /\ Before(m) = e - m
      BY <2>2 DEF Before
    <3> HIDE DEF k, n, b, e, L
    <3>5. m * Dealt = x + n * Dealt /\ n * Dealt >= n * (L + 1) /\ n * Dealt \in Nat
          /\ n * (L + 1) = L * n + n /\ L * n \in Nat
      BY <1>1, <3>1, <3>2
    <3> HIDE DEF x
    <3>6. L * e >= L * b + L * n + n - L + 1
      <4>1. L * e \in Nat /\ L * b \in Nat
        BY <1>1, <3>2
      <4> QED
        BY <1>1, <3>2, <3>3, <3>5, <4>1
    <3>7. ~(e <= b + n - 1)
      <4> SUFFICES ASSUME e <= b + n - 1 PROVE FALSE
        OBVIOUS
      <4>1. L * e <= L * (b + n - 1) /\ L * (b + n - 1) = L * b + L * n - L
        BY <1>1, <3>2
      <4>2. L * e \in Nat /\ L * b \in Nat
        BY <1>1, <3>2
      <4> DEFINE le == L * e
                 lb == L * b
                 ln == L * n
      <4>3. /\ le \in Nat /\ lb \in Nat /\ ln \in Nat /\ n \in Nat /\ L \in Nat
            /\ le <= lb + ln - L /\ le >= lb + ln + n - L + 1
        BY <1>1, <3>2, <3>5, <3>6, <4>1, <4>2
      <4> HIDE DEF le, lb, ln
      <4> QED
        BY <4>3
    <3>8. b - k <= e - m
      BY <3>2, <3>7
    <3> QED
      BY <3>4, <3>8 DEF k
  <2> QED
    BY <2>1, <2>2
<1> QED
  BY <1>2, <1>3, <1>4

\* What a share has got when the processors are dealt out one by one.
LEMMA DealtOnce ==
  ASSUME ParamsOK, NEW n \in Nat, n < Dealt, NEW s, s = ShareOf(n)
  PROVE  /\ s \in Loggers
         /\ DealtTo(s, n + 1) = DealtTo(s, n) + 1
         /\ \A l \in Loggers : l # s => DealtTo(l, n + 1) = DealtTo(l, n)
<1>1. /\ Dealt \in Nat /\ Dealt > 0 /\ LOGGER_NUM \in Nat /\ LOGGER_NUM > 0
      /\ \A l \in Nat : Bound(l) \in Nat
  BY BoundFacts
<1>2. n * LOGGER_NUM \in Nat /\ s = (n * LOGGER_NUM) \div Dealt
  BY <1>1 DEF ShareOf
<1>3. s \in Nat
  BY <1>1, <1>2
<1>4. s < LOGGER_NUM
  <2>1. n * LOGGER_NUM < Dealt * LOGGER_NUM
    BY <1>1
  <2> QED
    BY <1>1, <1>2, <2>1, QuotientBound
<1>5. s \in Loggers
  BY <1>1, <1>3, <1>4 DEF Loggers
<1>6. Bound(s) <= n
  <2>1. Dealt * s <= n * LOGGER_NUM
    BY <1>1, <1>2, <1>3, QuotientBound
  <2>2. s * Dealt <= n * LOGGER_NUM
    BY <1>1, <1>3, <2>1
  <2> QED
    BY <1>3, <2>2, InShare
<1>7. n < Bound(s + 1)
  <2>1. s + 1 \in Nat /\ s < s + 1
    BY <1>3
  <2>2. n * LOGGER_NUM < Dealt * (s + 1)
    BY <1>1, <1>2, <2>1, QuotientBound
  <2>3. ~((s + 1) * Dealt <= n * LOGGER_NUM)
    BY <1>1, <1>2, <2>1, <2>2
  <2>4. ~(Bound(s + 1) <= n)
    BY <2>1, <2>3, InShare
  <2> QED
    BY <1>1, <2>1, <2>4
<1>8. DealtTo(s, n + 1) = DealtTo(s, n) + 1
  <2>1. Bound(s) \in Nat /\ Bound(s + 1) \in Nat
    BY <1>1, <1>3
  <2> QED
    BY <1>6, <1>7, <2>1 DEF DealtTo, Size
<1>9. ASSUME NEW l \in Loggers, l # s PROVE DealtTo(l, n + 1) = DealtTo(l, n)
  <2>1. l \in Nat /\ l + 1 \in Nat /\ s + 1 \in Nat
    BY <1>1, <1>3 DEF Loggers
  <2>2. /\ Bound(l) \in Nat /\ Bound(l + 1) \in Nat /\ Bound(l) <= Bound(l + 1)
        /\ Bound(s) \in Nat /\ Bound(s + 1) \in Nat
    BY <1>1, <1>3, <2>1, BoundsInOrder
  <2>3. CASE l < s
    <3>1. Bound(l + 1) <= Bound(s)
      BY <1>3, <2>1, <2>3, BoundsInOrder
    <3> QED
      BY <1>6, <2>2, <3>1 DEF DealtTo
  <2>4. CASE s < l
    <3>1. Bound(s + 1) <= Bound(l)
      BY <1>3, <2>1, <2>4, BoundsInOrder
    <3> QED
      BY <1>7, <2>2, <3>1 DEF DealtTo, Size
  <2> QED
    BY <1>3, <1>9, <2>1, <2>3, <2>4
<1> QED
  BY <1>5, <1>8, <1>9

\* Nothing is dealt in the beginning, and all of the shares in the end.
LEMMA DealtEnds ==
  ASSUME ParamsOK, NEW l \in Loggers
  PROVE  DealtTo(l, 0) = 0 /\ DealtTo(l, Dealt) = Size(l)
<1>1. /\ Dealt \in Nat /\ LOGGER_NUM \in Nat
      /\ \A k \in Nat : Bound(k) \in Nat
  BY BoundFacts
<1>2. l \in Nat /\ l + 1 \in Nat /\ l + 1 <= LOGGER_NUM
  BY <1>1 DEF Loggers
<1>3. /\ Bound(l) \in Nat /\ Bound(l + 1) \in Nat
      /\ Bound(l) <= Bound(l + 1) /\ Bound(l + 1) <= Dealt
  BY <1>1, <1>2, BoundsInOrder
<1> QED
  BY <1>1, <1>3 DEF DealtTo, Size

-----------------------------------------------------------------------------
(* The steps.                                                              *)

\* What was chosen in the beginning, in the next state.
LEMMA ParamsStep ==
  ASSUME ParamsOK, [Next]_vars
  PROVE  /\ ParamsOK' /\ Loggers' = Loggers
         /\ Dealt' = Dealt /\ LOGGER_NUM' = LOGGER_NUM
         /\ \A l : Bound(l)' = Bound(l) /\ Size(l)' = Size(l)
         /\ \A l : Kept(l)' = Kept(l) /\ Before(l)' = Before(l)
         /\ \A l : DealtTo(l, i)' = DealtTo(l, i')
<1>1. UNCHANGED <<THREAD_NUM, LOGGER_NUM, num_cpus>> /\ Dealt' = Dealt
      /\ Shared' = Shared /\ Loggers' = Loggers
  BY ParamsKept DEF params
<1>2. ParamsOK'
  BY <1>1 DEF ParamsOK
<1>3. \A l : Bound(l)' = Bound(l)
  BY <1>1 DEF Bound
<1>4. \A l : Size(l)' = Size(l)
  BY <1>3 DEF Size
<1>5. \A l : Kept(l)' = Kept(l) /\ Before(l)' = Before(l)
  BY <1>1, <1>3, <1>4 DEF Kept, Before
<1>6. \A l : DealtTo(l, i)' = DealtTo(l, i')
  BY <1>3, <1>4 DEF DealtTo
<1> QED
  BY <1>1, <1>2, <1>3, <1>4, <1>5, <1>6

\* What main has when it begins.
LEMMA SetupInit == Init => SetupInv
<1> SUFFICES ASSUME Init PROVE SetupInv
  OBVIOUS
<1>1. ParamsOK
  BY DEF Init, ParamsOK
<1>2. SharesInv
  <2>1. worker_cpu \in [Loggers -> Seq(Nat)] /\ \A l \in Loggers : Len(worker_cpu[l]) = 0
    BY DEF Init
  <2>2. 0 \in 0 .. Dealt
    BY <1>1, ThreadBounds DEF ParamsOK, Dealt
  <2>3. \A l \in Loggers : DealtTo(l, 0) = 0
    BY <1>1, DealtEnds
  <2> QED
    BY <2>1, <2>2, <2>3 DEF Init, SharesInv
<1>3. LaunchInv
  BY DEF Init, LaunchInv
<1>4. FillInv
  BY DEF Init, FillInv
<1> QED
  BY <1>1, <1>2, <1>3, <1>4 DEF SetupInv

\* LoggerAffinity::init deals out a processor, or has dealt out all.
LEMMA DealStep ==
  ASSUME SetupInv, Deal
  PROVE  SetupInv'
<1> USE DEF SetupInv
<1>1. /\ step = "deal" /\ UNCHANGED <<j, fill, filled, loggerOf>>
      /\ step' = "deal" \/ step' = "convert"
  BY DEF Deal
<1>2. /\ worker_cpu \in [Loggers -> Seq(Nat)] /\ i \in 0 .. Dealt /\ j = 0
      /\ \A l \in Loggers : Len(worker_cpu[l]) = DealtTo(l, i)
  BY <1>1 DEF SharesInv
<1>3. /\ ParamsOK' /\ Loggers' = Loggers /\ Dealt' = Dealt /\ LOGGER_NUM' = LOGGER_NUM
      /\ \A l : Size(l)' = Size(l) /\ Kept(l)' = Kept(l)
      /\ \A l : DealtTo(l, i)' = DealtTo(l, i')
  BY ParamsStep DEF Next
<1>4. Dealt \in Nat /\ LOGGER_NUM \in Nat
  BY BoundFacts
<1>5. SharesInv'
  <2>1. CASE i < Dealt
    <3> DEFINE s == ShareOf(i)
    <3>1. /\ worker_cpu' = [worker_cpu EXCEPT ![s] = Append(@, i)]
          /\ i' = i + 1 /\ step' = "deal"
      BY <1>1, <2>1 DEF Deal
    <3>2. i \in Nat /\ i + 1 \in 0 .. Dealt
      BY <1>2, <1>4, <2>1
    <3>3. /\ s \in Loggers /\ DealtTo(s, i + 1) = DealtTo(s, i) + 1
          /\ \A l \in Loggers : l # s => DealtTo(l, i + 1) = DealtTo(l, i)
      BY <2>1, <3>2, DealtOnce
    <3> HIDE DEF s
    <3>4. Append(worker_cpu[s], i) \in Seq(Nat)
          /\ Len(Append(worker_cpu[s], i)) = Len(worker_cpu[s]) + 1
      BY <1>2, <3>2, <3>3, AppendProperties
    <3>5. /\ worker_cpu' \in [Loggers -> Seq(Nat)]
          /\ \A l \in Loggers : Len(worker_cpu'[l]) = DealtTo(l, i + 1)
      BY <1>2, <3>1, <3>3, <3>4
    <3>6. \A l \in Loggers : Len(worker_cpu'[l]) = DealtTo(l, i)'
      BY <1>3, <3>1, <3>5
    <3> QED
      BY <1>1, <1>2, <1>3, <3>1, <3>2, <3>5, <3>6 DEF SharesInv
  <2>2. CASE ~(i < Dealt)
    <3>1. i' = 0 /\ step' = "convert" /\ UNCHANGED worker_cpu
      BY <1>1, <2>2 DEF Deal
    <3>2. i = Dealt
      BY <1>2, <1>4, <2>2
    <3>3. \A l \in Loggers : Len(worker_cpu[l]) = Size(l)
      BY <1>2, <3>2, DealtEnds
    <3>4. \A l \in Loggers : ~(l < 0)
      BY DEF Loggers
    <3> QED
      BY <1>1, <1>2, <1>3, <1>4, <3>1, <3>3, <3>4 DEF SharesInv
  <2> QED
    BY <2>1, <2>2
<1>6. LaunchInv'
  BY <1>1 DEF LaunchInv
<1>7. FillInv'
  BY <1>1, FillKept DEF Next
<1> QED
  BY <1>3, <1>5, <1>6, <1>7

\* A logger takes the last processor of its share, or finds it empty.
LEMMA ConvertStep ==
  ASSUME SetupInv, Convert
  PROVE  SetupInv'
<1> USE DEF SetupInv
<1>1. /\ step = "convert" /\ j < LOGGER_NUM /\ UNCHANGED <<i, fill, filled, loggerOf>>
      /\ step' = "convert" \/ step' = "crashed"
  BY DEF Convert
<1>2. /\ worker_cpu \in [Loggers -> Seq(Nat)] /\ i = 0 /\ j \in 0 .. LOGGER_NUM
      /\ \A l \in Loggers : Len(worker_cpu[l]) = IF l < j THEN Kept(l) ELSE Size(l)
      /\ \A l \in Loggers : l < j => Size(l) > 0
  BY <1>1 DEF SharesInv
<1>3. /\ ParamsOK' /\ Loggers' = Loggers /\ LOGGER_NUM' = LOGGER_NUM
      /\ \A l : Size(l)' = Size(l) /\ Kept(l)' = Kept(l)
  BY ParamsStep DEF Next
<1>4. LOGGER_NUM \in Nat /\ j \in Loggers /\ \A l \in Loggers : l \in Nat
  <2>1. LOGGER_NUM \in Nat
    BY BoundFacts
  <2> QED
    BY <1>1, <1>2, <2>1 DEF Loggers
<1>5. SharesInv'
  <2>1. CASE worker_cpu[j] = <<>>
    <3>1. step' = "crashed" /\ UNCHANGED worker_cpu
      BY <2>1 DEF Convert
    <3> QED
      BY <1>2, <1>3, <3>1 DEF SharesInv
  <2>2. CASE worker_cpu[j] # <<>>
    <3> DEFINE cpus == worker_cpu[j]
    <3>1. /\ worker_cpu' = [worker_cpu EXCEPT ![j] = LeftWorkers(cpus)]
          /\ j' = j + 1 /\ step' = "convert"
      BY <1>1, <2>2 DEF Convert
    <3>2. cpus \in Seq(Nat) /\ Len(cpus) = Size(j) /\ Len(cpus) \in Nat \ {0}
      BY <1>2, <1>4, <2>2, EmptySeq
    <3> HIDE DEF cpus
    <3>3. LeftWorkers(cpus) \in Seq(Nat) /\ Len(LeftWorkers(cpus)) = Kept(j)
      <4>1. CASE Shared
        BY <3>2, <4>1 DEF LeftWorkers, Kept
      <4>2. CASE ~Shared
        <5>1. LeftWorkers(cpus) = SubSeq(cpus, 1, Len(cpus) - 1)
          BY <4>2 DEF LeftWorkers, Front
        <5> DEFINE n == Len(cpus) - 1
        <5>2. n \in Nat /\ n = Kept(j) /\ \A c \in 1 .. n : cpus[c] \in Nat
          BY <3>2, <4>2 DEF Kept
        <5> HIDE DEF n
        <5>3. /\ SubSeq(cpus, 1, n) \in Seq(Nat)
              /\ Len(SubSeq(cpus, 1, n)) = IF 1 <= n THEN n - 1 + 1 ELSE 0
          BY <5>2, SubSeqProperties
        <5>4. Len(SubSeq(cpus, 1, n)) = n
          BY <5>2, <5>3
        <5> QED
          BY <5>1, <5>2, <5>3, <5>4 DEF n
      <4> QED
        BY <4>1, <4>2
    <3>4. worker_cpu' \in [Loggers -> Seq(Nat)]
      BY <1>2, <3>1, <3>3
    <3>5. ASSUME NEW l \in Loggers
          PROVE  Len(worker_cpu'[l]) = IF l < j + 1 THEN Kept(l) ELSE Size(l)
      <4>1. CASE l = j
        BY <1>2, <1>4, <3>1, <3>3, <4>1
      <4>2. CASE l # j
        <5>1. worker_cpu'[l] = worker_cpu[l] /\ (l < j + 1 <=> l < j)
          BY <1>2, <1>4, <3>1, <4>2
        <5> QED
          BY <1>2, <5>1
      <4> QED
        BY <4>1, <4>2
    <3>6. ASSUME NEW l \in Loggers, l < j + 1 PROVE Size(l) > 0
      <4>1. l = j \/ l < j
        BY <1>2, <1>4, <3>6
      <4> QED
        BY <1>2, <3>2, <4>1
    <3>7. j + 1 \in 0 .. LOGGER_NUM
      BY <1>1, <1>2, <1>4
    <3> QED
      BY <1>1, <1>2, <1>3, <3>1, <3>4, <3>5, <3>6, <3>7 DEF SharesInv
  <2> QED
    BY <2>1, <2>2
<1>6. LaunchInv'
  BY <1>1 DEF LaunchInv
<1>7. FillInv'
  BY <1>1, FillKept DEF Next
<1> QED
  BY <1>3, <1>5, <1>6, <1>7

\* makeDB starts its threads when every logger has its processor, and joins them.
LEMMA MakeDBSteps ==
  ASSUME SetupInv, StartFill \/ JoinFill \/ \E t \in DOMAIN fill : FillRecord(t)
  PROVE  SetupInv'
<1> USE DEF SetupInv
<1>1. ParamsOK' /\ Loggers' = Loggers
      /\ \A l : Kept(l)' = Kept(l) /\ Before(l)' = Before(l)
  BY ParamsStep DEF Next
<1>2. worker_cpu \in [Loggers -> Seq(Nat)]
  BY DEF SharesInv
<1>3. CASE StartFill
  <2>1. /\ step = "convert" /\ j = LOGGER_NUM /\ step' = "fill"
        /\ UNCHANGED <<i, j, worker_cpu, loggerOf>>
    BY <1>3 DEF StartFill
  <2>2. \A l \in Loggers : Len(worker_cpu[l]) = Kept(l)
    <3>1. \A l \in Loggers : l < j
      BY <2>1, BoundFacts DEF Loggers
    <3> QED
      BY <2>1, <3>1 DEF SharesInv
  <2>3. SharesInv'
    BY <1>1, <1>2, <2>1, <2>2 DEF SharesInv
  <2>4. LaunchInv'
    <3>1. i = 0
      BY <2>1 DEF SharesInv
    <3> QED
      BY <2>1, <3>1 DEF LaunchInv
  <2> QED
    BY <1>1, <1>3, <2>3, <2>4, StartFillStep
<1>4. CASE JoinFill
  <2>1. /\ step = "fill" /\ step' = "launch" /\ j' = 0
        /\ UNCHANGED <<i, worker_cpu, loggerOf>>
    BY <1>4 DEF JoinFill
  <2>2. SharesInv'
    BY <1>1, <1>2, <2>1 DEF SharesInv
  <2>3. LaunchInv'
    <3>1. i = 0 /\ loggerOf = <<>> /\ 0 \in 0 .. LOGGER_NUM'
      BY <2>1, <1>1, ThreadBounds DEF LaunchInv, ParamsOK
    <3>2. Before(0)' = 0
      BY <1>1, BeforeFacts
    <3>3. Before(j)' = 0
      BY <2>1, <3>2 DEF Before, Bound, Dealt, Shared
    <3> QED
      BY <2>1, <3>1, <3>3 DEF LaunchInv
  <2> QED
    BY <1>1, <1>4, <2>2, <2>3, JoinFillStep
<1>5. CASE \E t \in DOMAIN fill : FillRecord(t)
  <2>1. PICK t \in DOMAIN fill : FillRecord(t)
    BY <1>5
  <2>2. /\ step = "fill" /\ step' = "fill"
        /\ UNCHANGED <<i, j, worker_cpu, loggerOf>>
    BY <2>1 DEF FillRecord
  <2>3. SharesInv'
    BY <1>1, <1>2, <2>2 DEF SharesInv
  <2>4. LaunchInv'
    BY <2>2 DEF LaunchInv
  <2> QED
    BY <1>1, <2>1, <2>3, <2>4, FillRecordStep
<1> QED
  BY <1>3, <1>4, <1>5

\* A logger is started with its workers: their numbers go on from those before.
LEMMA LaunchStep ==
  ASSUME SetupInv, Launch
  PROVE  SetupInv'
<1> USE DEF SetupInv
<1>1. /\ step = "launch" /\ UNCHANGED <<worker_cpu, fill, filled>>
      /\ step' = "launch" \/ step' = "launched"
  BY DEF Launch
<1>2. /\ ParamsOK' /\ Loggers' = Loggers /\ LOGGER_NUM' = LOGGER_NUM
      /\ \A l : Kept(l)' = Kept(l) /\ Before(l)' = Before(l)
      /\ Before(j)' = Before(j')
  <2>1. UNCHANGED <<THREAD_NUM, LOGGER_NUM, num_cpus>>
    BY ParamsKept DEF Next, params
  <2>2. Before(j)' = Before(j')
    BY <2>1 DEF Before, Bound, Dealt, Shared
  <2> QED
    BY <2>2, ParamsStep DEF Next
<1>3. /\ j \in 0 .. LOGGER_NUM /\ loggerOf \in Seq(Loggers)
      /\ i = Before(j) /\ Len(loggerOf) = i
      /\ \A w \in 1 .. i : Before(loggerOf[w]) < w /\ w <= Before(loggerOf[w] + 1)
  BY <1>1 DEF LaunchInv
<1>4. /\ worker_cpu \in [Loggers -> Seq(Nat)]
      /\ \A l \in Loggers : Len(worker_cpu[l]) = Kept(l)
  BY <1>1 DEF SharesInv
<1>5. SharesInv'
  <2>1. worker_cpu' \in [Loggers' -> Seq(Nat)]
        /\ \A l \in Loggers' : Len(worker_cpu'[l]) = Kept(l)'
    BY <1>1, <1>2, <1>4
  <2> QED
    BY <1>1, <2>1 DEF SharesInv
<1>6. LOGGER_NUM \in Nat
  BY BoundFacts
<1>7. LaunchInv'
  <2>1. CASE j < LOGGER_NUM
    <3> DEFINE new == [w \in DOMAIN worker_cpu[j] |-> j]
               n   == Len(worker_cpu[j])
    <3>1. loggerOf' = loggerOf \o new /\ i' = i + n /\ j' = j + 1 /\ step' = "launch"
      BY <1>1, <2>1 DEF Launch
    <3>2. j \in Nat /\ j \in Loggers /\ j + 1 \in 0 .. LOGGER_NUM
      BY <1>3, <1>6, <2>1 DEF Loggers
    <3>3. n = Kept(j) /\ n \in Nat /\ DOMAIN worker_cpu[j] = 1 .. n
      BY <1>4, <3>2, LenProperties
    <3>4. new \in Seq(Loggers) /\ Len(new) = n /\ \A w \in 1 .. n : new[w] = j
      BY <3>2, <3>3
    <3> HIDE DEF new, n
    <3>5. /\ Before(j) \in Int /\ Before(j + 1) = Before(j) + n
      BY <3>2, <3>3, BeforeFacts
    <3>6. i' = Before(j + 1)
      BY <1>3, <3>1, <3>5
    <3>7. i \in Nat
      BY <1>3
    <3>8. /\ loggerOf' \in Seq(Loggers) /\ Len(loggerOf') = i'
          /\ \A w \in 1 .. i + n :
               loggerOf'[w] = IF w <= i THEN loggerOf[w] ELSE new[w - i]
      BY <1>3, <3>1, <3>4, ConcatProperties
    <3>9. ASSUME NEW w \in 1 .. i'
          PROVE  Before(loggerOf'[w]) < w /\ w <= Before(loggerOf'[w] + 1)
      <4>1. CASE w <= i
        <5>1. w \in 1 .. i /\ w \in 1 .. i + n
          BY <3>1, <3>3, <3>7, <4>1
        <5>2. loggerOf'[w] = loggerOf[w]
          BY <3>8, <4>1, <5>1
        <5> QED
          BY <1>3, <5>1, <5>2
      <4>2. CASE ~(w <= i)
        <5>1. w \in 1 .. i + n /\ w - i \in 1 .. n
          BY <3>1, <3>3, <3>7, <4>2
        <5>2. loggerOf'[w] = j
          BY <3>4, <3>8, <4>2, <5>1
        <5>3. Before(j) < w /\ w <= Before(j + 1)
          BY <1>3, <3>1, <3>6, <3>7, <4>2
        <5> QED
          BY <5>2, <5>3
      <4> QED
        BY <4>1, <4>2
    <3>10. \A w \in 1 .. i' :
             (Before(loggerOf[w]) < w /\ w <= Before(loggerOf[w] + 1))'
      <4>1. UNCHANGED <<THREAD_NUM, LOGGER_NUM, num_cpus>>
        BY ParamsKept DEF Next, params
      <4> QED
        BY <3>9, <4>1 DEF Before, Bound, Dealt, Shared
    <3>11. i' = Before(j)' /\ j' \in 0 .. LOGGER_NUM'
      BY <1>2, <3>1, <3>2, <3>6
    <3> QED
      BY <1>2, <3>1, <3>8, <3>10, <3>11 DEF LaunchInv
  <2>2. CASE ~(j < LOGGER_NUM)
    <3>1. step' = "launched" /\ UNCHANGED <<i, j, loggerOf>>
      BY <1>1, <2>2 DEF Launch
    <3>2. j' = LOGGER_NUM'
      BY <1>2, <1>3, <1>6, <2>2, <3>1
    <3>3. \A w \in 1 .. i :
            (Before(loggerOf[w]) < w /\ w <= Before(loggerOf[w] + 1))'
      <4>1. UNCHANGED <<THREAD_NUM, LOGGER_NUM, num_cpus>>
        BY ParamsKept DEF Next, params
      <4> QED
        BY <1>3, <3>1, <4>1 DEF Before, Bound, Dealt, Shared
    <3>4. loggerOf' \in Seq(Loggers') /\ Len(loggerOf') = i' /\ i' = Before(j)'
      BY <1>2, <1>3, <3>1
    <3> QED
      BY <3>1, <3>2, <3>3, <3>4 DEF LaunchInv
  <2> QED
    BY <2>1, <2>2
<1>8. FillInv'
  BY <1>1, FillKept DEF Next
<1> QED
  BY <1>2, <1>5, <1>7, <1>8

\* The start-up keeps the shares, the numbers and the table in order.
LEMMA SetupInvariant == Spec => []SetupInv
<1>1. SetupInv /\ [Next]_vars => SetupInv'
  <2> SUFFICES ASSUME SetupInv, [Next]_vars PROVE SetupInv'
    OBVIOUS
  <2>1. CASE UNCHANGED vars
    <3>1. UNCHANGED <<THREAD_NUM, LOGGER_NUM, num_cpus, step, i, j, worker_cpu,
                      logger_cpu, fill, filled, loggerOf>>
      BY <2>1 DEF vars, params
    <3>2. ParamsOK' /\ FillInv'
      BY <3>1 DEF SetupInv, ParamsOK, FillInv, maxthread, Part
    <3>3. SharesInv'
      BY <3>1 DEF SetupInv, SharesInv, Loggers, Dealt, Shared, DealtTo, Kept, Size, Bound
    <3>4. LaunchInv'
      BY <3>1 DEF SetupInv, LaunchInv, Loggers, Dealt, Shared, Before, Bound
    <3> QED
      BY <3>2, <3>3, <3>4 DEF SetupInv
  <2>2. CASE Deal
    BY <2>2, DealStep
  <2>3. CASE Convert
    BY <2>3, ConvertStep
  <2>4. CASE StartFill \/ JoinFill \/ \E t \in DOMAIN fill : FillRecord(t)
    BY <2>4, MakeDBSteps
  <2>5. CASE Launch
    BY <2>5, LaunchStep
  <2> QED
    BY <2>1, <2>2, <2>3, <2>4, <2>5 DEF Next
<1> QED
  BY <1>1, SetupInit, PTL DEF Spec

\* When the threads start, each record of the table has been initialized once.
THEOREM EachRecordOnce == Spec => []TableFilled
<1>1. SetupInv => TableFilled
  <2> SUFFICES ASSUME SetupInv, step \in {"launch", "launched"}, num_cpus > 0,
                      NEW k \in Records
               PROVE  filled[k] = 1
    BY DEF TableFilled
  <2>1. /\ maxthread \in Nat /\ Part \in Nat /\ maxthread * Part = TUPLE_NUM
    BY Parts DEF SetupInv
  <2>2. PICK t \in 0 .. maxthread - 1 : t * Part <= k /\ k < (t + 1) * Part
    BY <2>1, InSomePart
  <2>3. t \in DOMAIN fill /\ fill[t] = (t + 1) * Part
    BY DEF SetupInv, FillInv
  <2> QED
    BY <2>2, <2>3 DEF SetupInv, FillInv
<1> QED
  BY <1>1, SetupInvariant, PTL

\* The workers of a logger are those with its numbers.
LEMMA ServedFacts ==
  ASSUME SetupInv, Ready, NEW l \in Loggers
  PROVE  /\ Served(l) = Before(l) + 1 .. Before(l + 1)
         /\ Cardinality(Served(l)) = Kept(l)
<1> USE DEF SetupInv
<1>1. /\ loggerOf \in Seq(Loggers) /\ i = Before(LOGGER_NUM) /\ Len(loggerOf) = i
      /\ \A w \in 1 .. i : Before(loggerOf[w]) < w /\ w <= Before(loggerOf[w] + 1)
  BY DEF Ready, LaunchInv
<1>2. /\ Before(0) = 0 /\ i \in Nat
      /\ \A k \in Nat : Before(k) \in Int /\ Before(k + 1) = Before(k) + Kept(k)
      /\ \A k, m \in Nat : k < m => Before(k + 1) <= Before(m)
  <2>1. i \in Nat
    BY <1>1, LenProperties
  <2> QED
    BY <2>1, BeforeFacts
<1>3. /\ LOGGER_NUM \in Nat /\ l \in Nat /\ l < LOGGER_NUM
      /\ \A k \in Loggers : k \in Nat
  BY BoundFacts DEF Loggers
<1>4. \A w \in 1 .. i : loggerOf[w] \in Loggers
  BY <1>1, ElementOfSeq
<1>5. DOMAIN loggerOf = 1 .. i
  BY <1>1, LenProperties
<1>6. Kept(l) \in Nat
  BY <1>3, SizeFacts
<1>7. 0 <= Before(l)
  <2>1. CASE l = 0
    BY <1>2, <2>1
  <2>2. CASE l > 0
    <3>1. Before(0 + 1) <= Before(l) /\ Before(0 + 1) = Before(0) + Kept(0)
      BY <1>2, <1>3, <2>2
    <3>2. Kept(0) \in Nat
      BY SizeFacts
    <3> QED
      BY <1>2, <1>3, <3>1, <3>2
  <2> QED
    BY <1>3, <2>1, <2>2
<1>8. ASSUME NEW w \in Served(l) PROVE w \in Before(l) + 1 .. Before(l + 1)
  <2>1. w \in 1 .. i /\ loggerOf[w] = l
    BY <1>5 DEF Served
  <2>2. Before(l) < w /\ w <= Before(l + 1)
    BY <1>1, <2>1
  <2> QED
    BY <1>2, <1>3, <2>1, <2>2
<1>9. ASSUME NEW w \in Before(l) + 1 .. Before(l + 1) PROVE w \in Served(l)
  <2>1. Before(l) \in Int /\ Before(l + 1) \in Int /\ Before(l + 1) <= i
    BY <1>1, <1>2, <1>3
  <2>2. w \in 1 .. i /\ Before(l) < w /\ w <= Before(l + 1)
    BY <1>2, <1>7, <2>1
  <2> DEFINE m == loggerOf[w]
  <2>3. m \in Nat /\ Before(m) < w /\ w <= Before(m + 1)
    BY <1>1, <1>3, <1>4, <2>2
  <2> HIDE DEF m
  <2>4. Before(m) \in Int /\ Before(m + 1) \in Int
    BY <1>2, <2>3
  <2>5. ~(m < l)
    BY <1>2, <1>3, <2>1, <2>2, <2>3, <2>4
  <2>6. ~(l < m)
    BY <1>2, <1>3, <2>1, <2>2, <2>3, <2>4
  <2>7. m = l
    BY <1>3, <2>3, <2>5, <2>6
  <2> QED
    BY <1>5, <2>2, <2>7 DEF Served, m
<1>10. Served(l) = Before(l) + 1 .. Before(l + 1)
  BY <1>8, <1>9
<1>11. Cardinality(Served(l)) = Kept(l)
  <2> DEFINE a == Before(l) + 1
             b == Before(l + 1)
  <2>1. a \in Int /\ b \in Int /\ b - a + 1 = Kept(l)
    BY <1>2, <1>3, <1>6
  <2> HIDE DEF a, b
  <2>2. Cardinality(a .. b) = IF a > b THEN 0 ELSE b - a + 1
    BY <2>1, FS_Interval
  <2>3. Cardinality(a .. b) = Kept(l)
    BY <1>6, <2>1, <2>2
  <2> QED
    BY <1>10, <2>3 DEF a, b
<1> QED
  BY <1>10, <1>11

\* As many workers as there is room for are started, dealt out evenly, and if
\* there are as many workers as loggers no logger is left without.
THEOREM WorkersDealtEvenly == Spec => []WorkersPlaced
<1>1. SetupInv => WorkersPlaced
  <2> SUFFICES ASSUME SetupInv, Ready
               PROVE  /\ Len(loggerOf) = THREAD_NUM /\ i = THREAD_NUM
                      /\ \A l, m \in Loggers :
                           Cardinality(Served(l)) - Cardinality(Served(m)) <= 1
                      /\ THREAD_NUM >= LOGGER_NUM => \A l \in Loggers : Served(l) # {}
    BY DEF WorkersPlaced
  <2>1. Len(loggerOf) = THREAD_NUM /\ i = THREAD_NUM
    BY BeforeFacts DEF SetupInv, Ready, LaunchInv
  <2>2. \A l \in Loggers : l \in Nat
    BY BoundFacts DEF SetupInv, Loggers
  <2>3. ASSUME NEW l \in Loggers, NEW m \in Loggers
        PROVE  Cardinality(Served(l)) - Cardinality(Served(m)) <= 1
    <3>1. /\ Size(l) \in Nat /\ Size(m) \in Nat /\ Size(l) <= Size(m) + 1
      BY <2>2, SizeFacts DEF SetupInv
    <3>2. Kept(l) - Kept(m) <= 1
      BY <3>1 DEF Kept
    <3> QED
      BY <3>2, ServedFacts
  <2>4. ASSUME THREAD_NUM >= LOGGER_NUM, NEW l \in Loggers
        PROVE  Served(l) # {}
    <3>1. Kept(l) > 0 /\ Kept(l) \in Nat
      BY <2>2, <2>4, SizeFacts DEF SetupInv
    <3>2. Before(l) \in Int /\ Before(l + 1) = Before(l) + Kept(l)
      BY <2>2, BeforeFacts DEF SetupInv
    <3>3. Before(l + 1) \in Before(l) + 1 .. Before(l + 1)
      BY <3>1, <3>2
    <3> QED
      BY <3>3, ServedFacts
  <2> QED
    BY <2>1, <2>3, <2>4
<1> QED
  BY <1>1, SetupInvariant, PTL
==============================================================================
