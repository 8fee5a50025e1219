-------------------------- MODULE AckManagerProofs --------------------------
(***************************************************************************)
(* Theorems about AckManager, for every set of keys, every setting and     *)
(* any changes of the wall clock.                                          *)
(***************************************************************************)
EXTENDS AckManager, TLAPS, FiniteSetTheorems, SequenceTheorems

(***************************************************************************)
(* 1 << qMin(n, 10) is a positive number that doubles up to n = 10.        *)
(***************************************************************************)
LEMMA ShiftIsPositive == \A n \in Nat : Shift(n) \in Nat \ {0}
BY DEF Shift

LEMMA ShiftDoubles ==
    \A n \in Nat : Shift(n + 1) = IF n < 10 THEN 2 * Shift(n) ELSE 1024
<1> SUFFICES ASSUME NEW n \in Nat
             PROVE  Shift(n + 1) = IF n < 10 THEN 2 * Shift(n) ELSE 1024
    OBVIOUS
<1>1. CASE n >= 10
    BY <1>1 DEF Shift
<1>2. CASE n < 10
    <2>1. n \in {0, 1, 2, 3, 4, 5, 6, 7, 8, 9}
        BY <1>2
    <2> QED BY <2>1 DEF Shift
<1> QED BY <1>1, <1>2

(***************************************************************************)
(* What AfterTick, Later and NewPending make of the records of the table.  *)
(***************************************************************************)
LEMMA NewPendingType == \A c \in Configs : NewPending(c) \in PendingRecord
BY ConfigsAssumption DEF NewPending, PendingRecord

LEMMA RearmedType ==
    \A p \in PendingRecord : p.retries_left > 0 => Rearmed(p) \in PendingRecord
<1> SUFFICES ASSUME NEW p \in PendingRecord, p.retries_left > 0
             PROVE  Rearmed(p) \in PendingRecord
    OBVIOUS
<1>1. Shift(p.attempt + 1) \in Nat
    BY ShiftIsPositive DEF PendingRecord
<1>2. Backoff(p, p.attempt + 1) \in Int
    BY <1>1 DEF Backoff, PendingRecord
<1>3. p.retries_left - 1 \in Nat /\ p.attempt + 1 \in Nat
    BY DEF PendingRecord
<1> QED BY <1>2, <1>3 DEF Rearmed, PendingRecord

LEMMA RearmedFields ==
    ASSUME NEW p \in PendingRecord
    PROVE  /\ Rearmed(p).attempt = p.attempt + 1
           /\ Rearmed(p).retries_left = p.retries_left - 1
           /\ Rearmed(p).wait = Backoff(p, p.attempt + 1)
           /\ Rearmed(p).base = p.base
           /\ Rearmed(p).backoff = p.backoff
BY DEF Rearmed, PendingRecord

LEMMA LaterType ==
    ASSUME pending \in [DOMAIN pending -> PendingRecord], NEW d \in Int
    PROVE  Later(d) \in [DOMAIN pending -> PendingRecord]
<1>1. ASSUME NEW p \in PendingRecord
      PROVE  [p EXCEPT !.wait = @ - d] \in PendingRecord
    BY DEF PendingRecord
<1> QED BY <1>1 DEF Later

(***************************************************************************)
(* The ring takes any order of keys and stays within its capacity.         *)
(***************************************************************************)
LEMMA PushDeadType ==
    ASSUME NEW ring \in Seq(Keys), NEW S \in SUBSET Keys, NEW ks \in SetToSeqs(S)
    PROVE  /\ PushDead(ring, ks) \in Seq(Keys)
           /\ Len(PushDead(ring, ks)) <= DeadCap
<1>1. Cardinality(S) \in Nat
    BY KeysAssumption, FS_Subset, FS_CardinalityType
<1>2. ks \in [1 .. Cardinality(S) -> S]
    BY DEF SetToSeqs
<1>3. ks \in Seq(Keys)
    BY <1>1, <1>2
<1> DEFINE all == ring \o ks
<1>4. all \in Seq(Keys) /\ Len(all) \in Nat
    BY <1>3
<1>5. CASE Len(all) <= DeadCap
    BY <1>4, <1>5 DEF PushDead
<1>6. CASE Len(all) > DeadCap
    <2> HIDE DEF all
    <2> DEFINE kept == SubSeq(all, Len(all) - DeadCap + 1, Len(all))
    <2>1. /\ kept \in Seq(Keys)
          /\ Len(kept) = DeadCap
        BY <1>4, <1>6, DeadCapAssumption, SubSeqProperties
    <2> QED BY <1>6, <1>4, <2>1, DeadCapAssumption DEF PushDead, all
<1> QED BY <1>4, <1>5, <1>6, DeadCapAssumption

(***************************************************************************)
(* THEOREM: the table holds records of the right type for exactly the keys *)
(* that are tracked and not settled, and the ring stays bounded.           *)
(***************************************************************************)
LEMMA TypeInit == Init => TypeOK
BY DeadCapAssumption DEF Init, TypeOK, Fates

LEMMA TypeNext == TypeOK /\ [Next]_vars => TypeOK'
<1> SUFFICES ASSUME TypeOK, [Next]_vars PROVE TypeOK'
    OBVIOUS
<1> USE DEF TypeOK, Fates
<1>1. ASSUME NEW k \in Keys, Track(k) PROVE TypeOK'
    BY <1>1, NewPendingType DEF Track
<1>2. ASSUME NEW k \in Keys, AckReceived(k) PROVE TypeOK'
    BY <1>2 DEF AckReceived
<1>3. ASSUME OnTick PROVE TypeOK'
    <2>1. Spent \subseteq Due /\ Due \subseteq Keys
        BY DEF Spent, Due
    <2>2. \A k \in Due \ Spent : pending[k].retries_left > 0
        BY DEF Spent, Due, PendingRecord
    <2>3. AfterTick \in [DOMAIN pending \ Spent -> PendingRecord]
        BY <2>1, <2>2, RearmedType DEF AfterTick, Due
    <2>4. {k \in Keys : fate'[k] = "pending"} = DOMAIN pending \ Spent
        BY <1>3, <2>1 DEF OnTick
    <2>5. dead_letters' \in Seq(Keys) /\ Len(dead_letters') <= DeadCap
        <3>1. PICK ks \in SetToSeqs(Spent) : dead_letters' = PushDead(dead_letters, ks)
            BY <1>3 DEF OnTick
        <3>2. Spent \in SUBSET Keys
            BY <2>1
        <3> QED BY <3>1, <3>2, PushDeadType
    <2>6. fate' \in [Keys -> Fates] /\ sent' \in [Keys -> Nat]
        BY <1>3 DEF OnTick
    <2> QED BY <1>3, <2>3, <2>4, <2>5, <2>6 DEF OnTick
<1>4. ASSUME Elapse PROVE TypeOK'
    <2>1. pending' \in [DOMAIN pending -> PendingRecord]
        <3>1. pending \in [DOMAIN pending -> PendingRecord] /\ 1 \in Int
            OBVIOUS
        <3>2. pending' = Later(1)
            BY <1>4 DEF Elapse
        <3> QED BY <3>1, <3>2, LaterType
    <2>2. age' \in [Keys -> Nat]
        BY <1>4 DEF Elapse
    <2> QED BY <1>4, <2>1, <2>2 DEF Elapse
<1>5. ASSUME NEW d \in Jumps, SetClock(d) PROVE TypeOK'
    <2>1. d \in Int
        BY BoundsAssumption
    <2>2. pending' \in [DOMAIN pending -> PendingRecord]
        BY <1>5, <2>1, LaterType DEF SetClock
    <2>3. jumped' \in [n: Nat, ahead: Nat, back: Nat]
        BY <1>5, <2>1 DEF SetClock
    <2> QED BY <1>5, <2>2, <2>3 DEF SetClock
<1>6. CASE UNCHANGED vars
    BY <1>6 DEF vars
<1> QED BY <1>1, <1>2, <1>3, <1>4, <1>5, <1>6 DEF Next

THEOREM TypeCorrect == Spec => []TypeOK
BY TypeInit, TypeNext, PTL DEF Spec

-----------------------------------------------------------------------------
(***************************************************************************)
(* The retry budget.  RetryBudget is not inductive: it does not say that a *)
(* pending key's attempts and its budget add up to max_retries.            *)
(***************************************************************************)
BudgetOf(k) ==
    LET max == config[k].max_retries
    IN  /\ fate[k] = "untracked" => sent[k] = 0
        /\ fate[k] = "pending" =>
              /\ sent[k] = pending[k].attempt + 1
              /\ pending[k].attempt + pending[k].retries_left = max
        /\ fate[k] = "acked" => sent[k] <= max + 1
        /\ fate[k] = "failed" => sent[k] = max + 1

BudgetInv == \A k \in Keys : BudgetOf(k)

LEMMA BudgetInit == Init => BudgetInv
BY DEF Init, BudgetInv, BudgetOf

\* What the types say of one key.
KeyTypes(k) ==
    /\ fate[k] \in Fates
    /\ sent[k] \in Nat /\ age[k] \in Nat
    /\ config[k] \in Configs /\ config[k].max_retries \in Nat
    /\ config[k].ack_timeout \in Nat /\ config[k].backoff \in BOOLEAN
    /\ k \in DOMAIN pending <=> fate[k] = "pending"
    /\ fate[k] = "pending" =>
          /\ pending[k] \in PendingRecord
          /\ pending[k].attempt \in Nat /\ pending[k].retries_left \in Nat
          /\ pending[k].wait \in Int /\ pending[k].base \in Nat

LEMMA TypesOfKey == TypeOK => \A k \in Keys : KeyTypes(k)
<1> SUFFICES ASSUME TypeOK, NEW k \in Keys PROVE KeyTypes(k)
    OBVIOUS
<1>1. config[k] \in [max_retries: Nat, ack_timeout: Nat, backoff: BOOLEAN]
    BY ConfigsAssumption DEF TypeOK
<1>2. fate[k] = "pending" => pending[k] \in PendingRecord
    BY DEF TypeOK
<1> QED BY <1>1, <1>2 DEF TypeOK, KeyTypes, PendingRecord

(***************************************************************************)
(* A tick does one of three things to a key.                               *)
(***************************************************************************)
LEMMA TickOnKey ==
    ASSUME TypeOK, OnTick, NEW k \in Keys
    PROVE  \/ /\ fate[k] = "pending" /\ fate'[k] = "failed"
              /\ pending[k].wait <= 0 /\ pending[k].retries_left = 0
              /\ sent'[k] = sent[k]
           \/ /\ fate[k] = "pending" /\ fate'[k] = "pending"
              /\ pending[k].wait <= 0 /\ pending[k].retries_left > 0
              /\ pending'[k] = Rearmed(pending[k])
              /\ sent'[k] = sent[k] + 1
           \/ /\ fate'[k] = fate[k] /\ sent'[k] = sent[k]
              /\ fate[k] = "pending" => pending'[k] = pending[k]
<1>1. KeyTypes(k)
    BY TypesOfKey
<1>2. Spent \subseteq Due /\ Due \subseteq DOMAIN pending
    BY DEF Spent, Due
<1>3. /\ fate'[k] = IF k \in Spent THEN "failed" ELSE fate[k]
      /\ sent'[k] = IF k \in Due \ Spent THEN sent[k] + 1 ELSE sent[k]
      /\ k \in DOMAIN pending \ Spent =>
            pending'[k] = IF k \in Due THEN Rearmed(pending[k]) ELSE pending[k]
    BY DEF OnTick, AfterTick
<1>4. CASE k \in Spent
    BY <1>1, <1>2, <1>3, <1>4 DEF KeyTypes, Spent, Due
<1>5. CASE k \in Due \ Spent
    BY <1>1, <1>2, <1>3, <1>5 DEF KeyTypes, Spent, Due
<1>6. CASE k \notin Due
    BY <1>1, <1>2, <1>3, <1>6 DEF KeyTypes
<1> QED BY <1>4, <1>5, <1>6

LEMMA BudgetNext == TypeOK /\ BudgetInv /\ [Next]_vars => BudgetInv'
<1> SUFFICES ASSUME TypeOK, BudgetInv, [Next]_vars, NEW k \in Keys
             PROVE  BudgetOf(k)'
    BY DEF BudgetInv
<1>0. BudgetOf(k) /\ KeyTypes(k)
    BY TypesOfKey DEF BudgetInv
<1>1. ASSUME NEW j \in Keys, Track(j) PROVE BudgetOf(k)'
    <2>1. CASE k = j
        <3>1. /\ fate'[k] = "pending" /\ sent'[k] = 1 /\ config' = config
              /\ pending'[k] = NewPending(config[k])
            BY <1>1, <2>1 DEF Track, TypeOK
        <3> QED BY <1>0, <3>1 DEF NewPending, BudgetOf, KeyTypes
    <2>2. CASE k # j
        <3>1. /\ fate'[k] = fate[k] /\ sent'[k] = sent[k] /\ config' = config
              /\ fate[k] = "pending" => pending'[k] = pending[k]
            BY <1>0, <1>1, <2>2 DEF Track, TypeOK, KeyTypes
        <3> QED BY <1>0, <3>1 DEF BudgetOf
    <2> QED BY <2>1, <2>2
<1>2. ASSUME NEW j \in Keys, AckReceived(j) PROVE BudgetOf(k)'
    <2>1. /\ sent' = sent /\ config' = config
          /\ \/ fate[k] = "pending" /\ fate'[k] = "acked"
             \/ /\ fate'[k] = fate[k]
                /\ fate[k] = "pending" => pending'[k] = pending[k]
        BY <1>0, <1>2 DEF AckReceived, TypeOK, KeyTypes
    <2> QED BY <1>0, <2>1 DEF BudgetOf, KeyTypes
<1>3. ASSUME OnTick PROVE BudgetOf(k)'
    <2>1. config' = config
        BY <1>3 DEF OnTick
    <2> QED BY <1>0, <1>3, <2>1, TickOnKey, RearmedFields DEF BudgetOf, KeyTypes
<1>4. ASSUME NEW d, pending' = Later(d), UNCHANGED <<fate, config, sent>>
      PROVE  BudgetOf(k)'
    <2>1. fate[k] = "pending" =>
            /\ pending'[k].attempt = pending[k].attempt
            /\ pending'[k].retries_left = pending[k].retries_left
        BY <1>0, <1>4 DEF Later, PendingRecord, KeyTypes
    <2> QED BY <1>0, <1>4, <2>1 DEF BudgetOf
<1>5. CASE UNCHANGED vars
    BY <1>0, <1>5 DEF vars, BudgetOf
<1> QED BY <1>1, <1>2, <1>3, <1>4, <1>5 DEF Next, Elapse, SetClock

(***************************************************************************)
(* THEOREM: no message is sent more than max_retries + 1 times, and none   *)
(* is given up before it was.                                              *)
(***************************************************************************)
LEMMA BudgetImplies == TypeOK /\ BudgetInv => RetryBudget
<1> SUFFICES ASSUME TypeOK, BudgetInv, NEW k \in Keys
             PROVE  /\ sent[k] <= config[k].max_retries + 1
                    /\ fate[k] = "failed" => sent[k] = config[k].max_retries + 1
    BY DEF RetryBudget
<1>1. BudgetOf(k) /\ KeyTypes(k)
    BY TypesOfKey DEF BudgetInv
<1> QED BY <1>1 DEF BudgetOf, KeyTypes, Fates

THEOREM BudgetRespected == Spec => []RetryBudget
BY TypeInit, TypeNext, BudgetInit, BudgetNext, BudgetImplies, PTL DEF Spec

-----------------------------------------------------------------------------
(***************************************************************************)
(* The backoff schedule.                                                   *)
(***************************************************************************)
LEMMA ShiftMonotone ==
    \A m, n \in Nat : m <= n => Shift(m) <= Shift(n)
<1> SUFFICES ASSUME NEW m \in Nat, NEW n \in Nat, m <= n
             PROVE  Shift(m) <= Shift(n)
    OBVIOUS
<1>1. CASE n >= 10
    BY <1>1 DEF Shift
<1>2. CASE n < 10
    <2>1. /\ n \in {0, 1, 2, 3, 4, 5, 6, 7, 8, 9}
          /\ m \in {0, 1, 2, 3, 4, 5, 6, 7, 8, 9}
        BY <1>2
    <2> QED BY <2>1 DEF Shift
<1> QED BY <1>1, <1>2

\* How often the first timeout fits into the waits of attempts 0 to n.
Waits(b, n) ==
    IF b THEN 2 * Shift(n) - 1 + (IF n > 10 THEN 1024 * (n - 10) ELSE 0)
         ELSE n + 1

LEMMA WaitsGrow ==
    ASSUME NEW b \in BOOLEAN, NEW n \in Nat
    PROVE  /\ Waits(b, 0) = 1
           /\ Waits(b, n) \in Nat
           /\ Waits(b, n + 1) = Waits(b, n) + (IF b THEN Shift(n + 1) ELSE 1)
<1>1. Shift(0) = 1 /\ Shift(10) = 1024
    BY DEF Shift
<1>2. Shift(n) \in Nat \ {0} /\ Shift(n + 1) \in Nat \ {0}
    BY ShiftIsPositive
<1>3. CASE n < 10
    BY <1>1, <1>2, <1>3, ShiftDoubles DEF Waits
<1>4. CASE n >= 10
    <2>1. Shift(n) = 1024 /\ Shift(n + 1) = 1024
        BY <1>4 DEF Shift
    <2> QED BY <1>1, <1>4, <2>1 DEF Waits
<1> QED BY <1>3, <1>4

LEMMA WaitsMonotone ==
    ASSUME NEW b \in BOOLEAN, NEW m \in Nat, NEW n \in Nat, m <= n
    PROVE  Waits(b, m) <= Waits(b, n)
<1>1. Shift(m) \in Nat /\ Shift(n) \in Nat /\ Shift(m) <= Shift(n)
    BY ShiftIsPositive, ShiftMonotone
<1> QED BY <1>1 DEF Waits

LEMMA Product ==
    \A x, y, z \in Nat : /\ x * y \in Nat
                         /\ x * (y + z) = x * y + x * z
                         /\ y <= z => x * y <= x * z
OBVIOUS

LEMMA PatienceGrows ==
    ASSUME NEW c \in Configs, NEW n \in Nat
    PROVE  /\ Patience(c, 0) = c.ack_timeout
           /\ Patience(c, n) \in Nat
           /\ Patience(c, n + 1) =
                Patience(c, n) + c.ack_timeout * (IF c.backoff THEN Shift(n + 1) ELSE 1)
<1>1. c.ack_timeout \in Nat /\ c.backoff \in BOOLEAN
    BY ConfigsAssumption
<1>2. \A m \in Nat : Patience(c, m) = c.ack_timeout * Waits(c.backoff, m)
    BY DEF Patience, Waits
<1>3. Shift(n + 1) \in Nat
    BY ShiftIsPositive
<1>4. Patience(c, 0) = c.ack_timeout
    BY <1>1, <1>2, WaitsGrow
<1>5. Patience(c, n) \in Nat
    BY <1>1, <1>2, WaitsGrow, Product
<1>6. /\ Waits(c.backoff, n) \in Nat
      /\ Waits(c.backoff, n + 1) = Waits(c.backoff, n)
                                     + (IF c.backoff THEN Shift(n + 1) ELSE 1)
    BY <1>1, WaitsGrow
<1>7. (IF c.backoff THEN Shift(n + 1) ELSE 1) \in Nat
    BY <1>3
<1> QED BY <1>1, <1>2, <1>4, <1>5, <1>6, <1>7, Product

LEMMA PatienceMonotone ==
    ASSUME NEW c \in Configs, NEW m \in Nat, NEW n \in Nat, m <= n
    PROVE  Patience(c, m) <= Patience(c, n)
<1>1. c.ack_timeout \in Nat /\ c.backoff \in BOOLEAN
    BY ConfigsAssumption
<1>2. \A i \in Nat : Patience(c, i) = c.ack_timeout * Waits(c.backoff, i)
    BY DEF Patience, Waits
<1>3. /\ Waits(c.backoff, m) \in Nat /\ Waits(c.backoff, n) \in Nat
      /\ Waits(c.backoff, m) <= Waits(c.backoff, n)
    BY <1>1, WaitsGrow, WaitsMonotone
<1> QED BY <1>1, <1>2, <1>3, Product

-----------------------------------------------------------------------------
(***************************************************************************)
(* The schedule as an inductive invariant.  What a pending key has waited  *)
(* and what it still waits until its deadline add up to its patience so    *)
(* far, give or take the lag of each attempt and the clock being set.      *)
(***************************************************************************)
Lag(n) == n * MaxLag

LEMMA LagGrows ==
    ASSUME NEW n \in Nat
    PROVE  /\ Lag(0) = 0
           /\ Lag(n) \in Nat
           /\ Lag(n + 1) = Lag(n) + MaxLag
BY BoundsAssumption, Product DEF Lag

LEMMA LagMonotone ==
    ASSUME NEW m \in Nat, NEW n \in Nat, m <= n
    PROVE  Lag(m) <= Lag(n)
BY BoundsAssumption, Product DEF Lag

WaitSoFar(c, p, a) ==
    /\ a + p.wait + jumped.ahead >= Patience(c, p.attempt)
    /\ a + p.wait <= Patience(c, p.attempt) + Lag(p.attempt) + jumped.back
    /\ a <= Patience(c, p.attempt) + Lag(p.attempt + 1) + jumped.back

ScheduleOf(k) ==
    LET max == config[k].max_retries
    IN  /\ fate[k] = "untracked" => age[k] = 0
        /\ fate[k] = "pending" =>
              /\ pending[k].base = config[k].ack_timeout
              /\ pending[k].backoff = config[k].backoff
              /\ WaitSoFar(config[k], pending[k], age[k])
        /\ fate[k] \in Settled =>
              age[k] <= Patience(config[k], max) + Lag(max + 1) + jumped.back
        /\ fate[k] = "failed" =>
              age[k] + jumped.ahead >= Patience(config[k], max)

ScheduleInv == \A k \in Keys : ScheduleOf(k)

LEMMA ScheduleInit == Init => ScheduleInv
BY DEF Init, ScheduleInv, ScheduleOf, Settled

\* What is known of a pending key when it is retransmitted or settled.
LEMMA PendingBound ==
    ASSUME TypeOK, NEW k \in Keys, BudgetOf(k), ScheduleOf(k), fate[k] = "pending"
    PROVE  age[k] <= Patience(config[k], config[k].max_retries)
                       + Lag(config[k].max_retries + 1) + jumped.back
<1> DEFINE c == config[k]
           p == pending[k]
<1>1. /\ KeyTypes(k) /\ jumped.back \in Nat
      /\ p.attempt \in Nat /\ c.max_retries \in Nat /\ c \in Configs
      /\ p.attempt <= c.max_retries
    BY TypesOfKey DEF TypeOK, KeyTypes, BudgetOf
<1>2. age[k] <= Patience(c, p.attempt) + Lag(p.attempt + 1) + jumped.back
    BY DEF ScheduleOf, WaitSoFar
<1>3. /\ Patience(c, p.attempt) <= Patience(c, c.max_retries)
      /\ Patience(c, p.attempt) \in Nat /\ Patience(c, c.max_retries) \in Nat
    BY <1>1, PatienceMonotone, PatienceGrows
<1>4. /\ Lag(p.attempt + 1) <= Lag(c.max_retries + 1)
      /\ Lag(p.attempt + 1) \in Nat /\ Lag(c.max_retries + 1) \in Nat
    BY <1>1, LagMonotone, LagGrows
<1>5. age[k] \in Nat
    BY <1>1 DEF KeyTypes
<1> HIDE DEF c, p
<1> QED BY <1>1, <1>2, <1>3, <1>4, <1>5 DEF c

LEMMA ScheduleNext ==
    TypeOK /\ BudgetInv /\ ScheduleInv /\ [Next]_vars => ScheduleInv'
<1> SUFFICES ASSUME TypeOK, BudgetInv, ScheduleInv, [Next]_vars, NEW k \in Keys
             PROVE  ScheduleOf(k)'
    BY DEF ScheduleInv
<1> DEFINE c == config[k]
           p == pending[k]
<1>0. /\ ScheduleOf(k) /\ BudgetOf(k) /\ KeyTypes(k)
      /\ jumped.ahead \in Nat /\ jumped.back \in Nat /\ MaxLag \in Nat
    BY TypesOfKey, BoundsAssumption DEF BudgetInv, ScheduleInv, TypeOK
<1>1. ASSUME NEW j \in Keys, Track(j) PROVE ScheduleOf(k)'
    <2>1. age' = age /\ jumped' = jumped /\ config' = config
        BY <1>1 DEF Track
    <2>2. CASE k = j
        <3>1. /\ fate[k] = "untracked" /\ fate'[k] = "pending"
              /\ pending'[k] = NewPending(c)
            BY <1>1, <2>2 DEF Track, TypeOK
        <3>2. age[k] = 0
            BY <1>0, <3>1 DEF ScheduleOf
        <3>3. /\ Patience(c, 0) = c.ack_timeout /\ c.ack_timeout \in Nat
              /\ Lag(0) = 0 /\ Lag(0 + 1) \in Nat
            BY <1>0, PatienceGrows, LagGrows DEF KeyTypes
        <3>4. WaitSoFar(c, NewPending(c), 0)'
            BY <1>0, <2>1, <3>3 DEF WaitSoFar, NewPending
        <3> QED BY <2>1, <3>1, <3>2, <3>4 DEF ScheduleOf, NewPending, Settled
    <2>3. CASE k # j
        <3>1. /\ fate'[k] = fate[k]
              /\ fate[k] = "pending" => pending'[k] = p
            BY <1>0, <1>1, <2>3 DEF Track, TypeOK, KeyTypes
        <3> QED BY <1>0, <2>1, <3>1 DEF ScheduleOf, WaitSoFar
    <2> QED BY <2>2, <2>3
<1>2. ASSUME NEW j \in Keys, AckReceived(j) PROVE ScheduleOf(k)'
    <2>1. age' = age /\ jumped' = jumped /\ config' = config
        BY <1>2 DEF AckReceived
    <2>2. \/ fate[k] = "pending" /\ fate'[k] = "acked"
          \/ /\ fate'[k] = fate[k]
             /\ fate[k] = "pending" => pending'[k] = p
        BY <1>0, <1>2 DEF AckReceived, TypeOK, KeyTypes
    <2> QED BY <1>0, <2>1, <2>2, PendingBound DEF ScheduleOf, WaitSoFar
<1>3. ASSUME OnTick PROVE ScheduleOf(k)'
    <2>1. age' = age /\ jumped' = jumped /\ config' = config
        BY <1>3 DEF OnTick
    <2>2. CASE /\ fate[k] = "pending" /\ fate'[k] = "failed"
               /\ p.wait <= 0 /\ p.retries_left = 0
        <3>1. p.attempt = c.max_retries
            BY <1>0, <2>2 DEF BudgetOf, KeyTypes
        <3>2. age[k] + jumped.ahead >= Patience(c, c.max_retries)
            <4>1. age[k] + p.wait + jumped.ahead >= Patience(c, c.max_retries)
                BY <1>0, <2>2, <3>1 DEF ScheduleOf, WaitSoFar
            <4>2. /\ age[k] \in Nat /\ p.wait \in Int
                  /\ Patience(c, c.max_retries) \in Nat
                BY <1>0, <2>2, PatienceGrows DEF KeyTypes
            <4> HIDE DEF c, p
            <4> QED BY <1>0, <2>2, <4>1, <4>2
        <3> QED BY <1>0, <2>1, <2>2, <3>2, PendingBound DEF ScheduleOf
    <2>3. CASE /\ fate[k] = "pending" /\ fate'[k] = "pending"
               /\ p.wait <= 0 /\ p.retries_left > 0
               /\ pending'[k] = Rearmed(p)
        <3> DEFINE n == p.attempt
                   w == Backoff(p, n + 1)
        <3>1. /\ pending'[k].attempt = n + 1 /\ pending'[k].wait = w
              /\ pending'[k].base = c.ack_timeout /\ pending'[k].backoff = c.backoff
            BY <1>0, <2>3, RearmedFields DEF ScheduleOf, KeyTypes
        <3>2. n \in Nat /\ p.wait \in Int /\ age[k] \in Nat
            BY <1>0, <2>3 DEF KeyTypes
        <3>3. w = c.ack_timeout * (IF c.backoff THEN Shift(n + 1) ELSE 1)
            BY <1>0, <2>3 DEF Backoff, ScheduleOf
        <3>4. /\ Patience(c, n) \in Nat /\ Patience(c, n + 1) = Patience(c, n) + w
              /\ Patience(c, n + 1) \in Nat
            <4>1. c \in Configs /\ n + 1 \in Nat
                BY <1>0, <3>2 DEF KeyTypes
            <4> HIDE DEF c, n, w
            <4> QED BY <3>2, <3>3, <4>1, PatienceGrows
        <3>5. /\ Lag(n) \in Nat /\ Lag(n + 1) \in Nat
              /\ Lag(n + 1 + 1) = Lag(n + 1) + MaxLag
            <4>1. n + 1 \in Nat
                BY <3>2
            <4> QED BY <3>2, <4>1, LagGrows
        <3>6. WaitSoFar(c, p, age[k])
            BY <1>0, <2>3 DEF ScheduleOf
        <3>7. w \in Int
            <4>1. c.ack_timeout \in Nat /\ Shift(n + 1) \in Nat
                BY <1>0, <3>2, ShiftIsPositive DEF KeyTypes
            <4> HIDE DEF c, n, w
            <4> QED BY <3>3, <4>1
        <3>8. /\ age[k] + w + jumped.ahead >= Patience(c, n + 1)
              /\ age[k] + w <= Patience(c, n + 1) + Lag(n + 1) + jumped.back
              /\ age[k] <= Patience(c, n + 1) + Lag(n + 1 + 1) + jumped.back
            <4>1. /\ age[k] + p.wait + jumped.ahead >= Patience(c, n)
                  /\ age[k] <= Patience(c, n) + Lag(n + 1) + jumped.back
                BY <3>6 DEF WaitSoFar
            <4>2. p.wait <= 0 /\ Patience(c, n + 1) >= Patience(c, n)
                <5>1. c \in Configs /\ n + 1 \in Nat /\ n <= n + 1
                    BY <1>0, <3>2 DEF KeyTypes
                <5> QED BY <2>3, <3>2, <5>1, PatienceMonotone
            <4> HIDE DEF c, p, n, w
            <4> QED BY <1>0, <3>2, <3>4, <3>5, <3>7, <4>1, <4>2
        <3>9. WaitSoFar(config[k], pending[k], age[k])'
            BY <2>1, <3>1, <3>8 DEF WaitSoFar
        <3> QED BY <2>1, <2>3, <3>1, <3>9 DEF ScheduleOf, Settled
    <2>4. CASE /\ fate'[k] = fate[k]
               /\ fate[k] = "pending" => pending'[k] = p
        BY <1>0, <2>1, <2>4 DEF ScheduleOf, WaitSoFar
    <2> QED BY <1>3, <2>2, <2>3, <2>4, TickOnKey
<1>4. ASSUME Elapse PROVE ScheduleOf(k)'
    <2>1. jumped' = jumped /\ config' = config /\ fate' = fate
        BY <1>4 DEF Elapse
    <2>2. CASE fate[k] = "pending"
        <3>1. /\ p \in PendingRecord /\ k \in DOMAIN pending
              /\ p.wait > -MaxLag /\ pending'[k] = [p EXCEPT !.wait = @ - 1]
              /\ age'[k] = age[k] + 1
            BY <1>0, <1>4, <2>2 DEF Elapse, Later, KeyTypes
        <3>2. /\ pending'[k].wait = p.wait - 1 /\ pending'[k].attempt = p.attempt
              /\ pending'[k].base = p.base /\ pending'[k].backoff = p.backoff
            BY <3>1 DEF PendingRecord
        <3>3. /\ p.wait \in Int /\ age[k] \in Nat
              /\ Patience(c, p.attempt) \in Nat
              /\ Lag(p.attempt) \in Nat /\ Lag(p.attempt + 1) = Lag(p.attempt) + MaxLag
            BY <1>0, <2>2, PatienceGrows, LagGrows DEF KeyTypes
        <3>4. WaitSoFar(c, p, age[k])
            BY <1>0, <2>2 DEF ScheduleOf
        <3>5. WaitSoFar(config[k], pending[k], age[k])'
            BY <1>0, <2>1, <3>1, <3>2, <3>3, <3>4 DEF WaitSoFar
        <3> QED BY <1>0, <2>1, <2>2, <3>2, <3>5 DEF ScheduleOf, Settled
    <2>3. CASE fate[k] # "pending"
        <3>1. age'[k] = age[k]
            BY <1>0, <1>4, <2>3 DEF Elapse, KeyTypes
        <3> QED BY <1>0, <2>1, <2>3, <3>1 DEF ScheduleOf
    <2> QED BY <2>2, <2>3
<1>5. ASSUME NEW d \in Jumps, SetClock(d) PROVE ScheduleOf(k)'
    <2>1. age' = age /\ config' = config /\ fate' = fate /\ d \in Int
        BY <1>5, BoundsAssumption DEF SetClock
    <2>2. /\ jumped'.ahead = jumped.ahead + (IF d > 0 THEN d ELSE 0)
          /\ jumped'.back = jumped.back + (IF d < 0 THEN -d ELSE 0)
        BY <1>5 DEF SetClock
    <2>3. CASE fate[k] = "pending"
        <3>1. /\ p \in PendingRecord /\ k \in DOMAIN pending
              /\ pending'[k] = [p EXCEPT !.wait = @ - d]
            BY <1>0, <1>5, <2>3 DEF SetClock, Later, KeyTypes
        <3>2. /\ pending'[k].wait = p.wait - d /\ pending'[k].attempt = p.attempt
              /\ pending'[k].base = p.base /\ pending'[k].backoff = p.backoff
            BY <3>1 DEF PendingRecord
        <3>3. /\ p.wait \in Int /\ age[k] \in Nat
              /\ Patience(c, p.attempt) \in Nat
              /\ Lag(p.attempt) \in Nat /\ Lag(p.attempt + 1) \in Nat
            BY <1>0, <2>3, PatienceGrows, LagGrows DEF KeyTypes
        <3>4. WaitSoFar(c, p, age[k])
            BY <1>0, <2>3 DEF ScheduleOf
        <3>5. WaitSoFar(config[k], pending[k], age[k])'
            BY <1>0, <2>1, <2>2, <3>2, <3>3, <3>4 DEF WaitSoFar
        <3> QED BY <1>0, <2>1, <2>3, <3>2, <3>5 DEF ScheduleOf, Settled
    <2>4. CASE fate[k] # "pending"
        <3>1. /\ Patience(c, c.max_retries) \in Nat /\ age[k] \in Nat
              /\ Lag(c.max_retries + 1) \in Nat
            BY <1>0, PatienceGrows, LagGrows DEF KeyTypes
        <3> QED BY <1>0, <2>1, <2>2, <2>4, <3>1 DEF ScheduleOf
    <2> QED BY <2>3, <2>4
<1>6. CASE UNCHANGED vars
    BY <1>0, <1>6 DEF vars, ScheduleOf, WaitSoFar
<1> QED BY <1>1, <1>2, <1>3, <1>4, <1>5, <1>6 DEF Next

(***************************************************************************)
(* THEOREM: no message is given up before its schedule, less what the      *)
(* wall clock was set ahead.                                               *)
(***************************************************************************)
LEMMA ScheduleImplies ==
    TypeOK /\ BudgetInv /\ ScheduleInv => NeverGivesUpEarly /\ GivesUpInTime
<1> SUFFICES ASSUME TypeOK, BudgetInv, ScheduleInv, NEW k \in Keys
             PROVE  /\ fate[k] = "failed" =>
                          age[k] + jumped.ahead >= Patience(config[k], config[k].max_retries)
                    /\ age[k] <= Patience(config[k], config[k].max_retries)
                                   + (config[k].max_retries + 1) * MaxLag + jumped.back
    BY DEF NeverGivesUpEarly, GivesUpInTime
<1>1. /\ ScheduleOf(k) /\ BudgetOf(k) /\ KeyTypes(k) /\ jumped.back \in Nat
    BY TypesOfKey DEF BudgetInv, ScheduleInv, TypeOK
<1>2. /\ Patience(config[k], config[k].max_retries) \in Nat
      /\ Lag(config[k].max_retries + 1) \in Nat
    BY <1>1, PatienceGrows, LagGrows DEF KeyTypes
<1>3. age[k] <= Patience(config[k], config[k].max_retries)
                  + Lag(config[k].max_retries + 1) + jumped.back
    BY <1>1, <1>2, PendingBound DEF ScheduleOf, KeyTypes, Fates, Settled
<1> QED BY <1>1, <1>3 DEF ScheduleOf, Lag

THEOREM PatienceKept == Spec => []NeverGivesUpEarly
<1>1. TypeOK /\ BudgetInv /\ ScheduleInv => NeverGivesUpEarly
    BY ScheduleImplies
<1> QED BY <1>1, TypeInit, TypeNext, BudgetInit, BudgetNext, ScheduleInit,
           ScheduleNext, PTL DEF Spec

(***************************************************************************)
(* THEOREM: no message stays in the table longer than its schedule, plus   *)
(* the lag at each attempt and what the wall clock was set back.           *)
(***************************************************************************)
THEOREM WaitIsBounded == Spec => []GivesUpInTime
<1>1. TypeOK /\ BudgetInv /\ ScheduleInv => GivesUpInTime
    BY ScheduleImplies
<1> QED BY <1>1, TypeInit, TypeNext, BudgetInit, BudgetNext, ScheduleInit,
           ScheduleNext, PTL DEF Spec

-----------------------------------------------------------------------------
(***************************************************************************)
(* The ring of dead letters, as a map from places: DeadLettersComplete is  *)
(* inductive, once the types say that the keys of one tick were pending.   *)
(***************************************************************************)
LEMMA SeqOfSet ==
    ASSUME NEW S, IsFiniteSet(S), NEW ks \in SetToSeqs(S)
    PROVE  ks \in Seq(S) /\ IsInjective(ks) /\ ToSet(ks) = S
<1> DEFINE D == 1 .. Cardinality(S)
<1>1. Cardinality(S) \in Nat
    BY FS_CardinalityType
<1>2. ks \in [D -> S] /\ \A i, j \in D : i # j => ks[i] # ks[j]
    BY DEF SetToSeqs
<1>3. ks \in Seq(S) /\ DOMAIN ks = D
    BY <1>1, <1>2
<1>4. Cardinality(D) = Cardinality(S)
    BY <1>1, FS_Interval
<1> HIDE DEF D
<1>5. ks \in Injection(D, S)
    BY <1>2 DEF Injection, IsInjective
<1>6. ks \in Surjection(D, S)
    BY <1>4, <1>5, FS_Injection
<1>7. IsInjective(ks)
    BY <1>2, <1>3 DEF IsInjective
<1>8. ToSet(ks) = S
    BY <1>2, <1>3, <1>6 DEF ToSet, Surjection
<1> QED BY <1>3, <1>7, <1>8

LEMMA Joined ==
    ASSUME NEW ring \in Seq(Keys), NEW ks \in Seq(Keys),
           IsInjective(ring), IsInjective(ks), ToSet(ring) \cap ToSet(ks) = {}
    PROVE  /\ ring \o ks \in Seq(Keys) /\ Len(ring \o ks) = Len(ring) + Len(ks)
           /\ IsInjective(ring \o ks)
           /\ ToSet(ring \o ks) = ToSet(ring) \cup ToSet(ks)
<1> DEFINE all == ring \o ks
           m == Len(ring)
           n == Len(ks)
<1>1. /\ m \in Nat /\ n \in Nat /\ all \in Seq(Keys) /\ Len(all) = m + n
      /\ DOMAIN ring = 1 .. m /\ DOMAIN ks = 1 .. n /\ DOMAIN all = 1 .. m + n
      /\ \A i \in 1 .. m + n : all[i] = IF i <= m THEN ring[i] ELSE ks[i - m]
    BY ConcatProperties, LenProperties
<1> HIDE DEF all, m, n
<1>2. \A i \in DOMAIN ring, j \in DOMAIN ks : ring[i] # ks[j]
    BY DEF ToSet
<1>3. ASSUME NEW i \in 1 .. m + n, NEW j \in 1 .. m + n, all[i] = all[j] PROVE i = j
    <2>1. CASE i <= m /\ j <= m
        <3>1. i \in DOMAIN ring /\ j \in DOMAIN ring /\ ring[i] = ring[j]
            BY <1>1, <1>3, <2>1
        <3> QED BY <3>1 DEF IsInjective
    <2>2. CASE i > m /\ j > m
        <3>1. i - m \in 1 .. n /\ j - m \in 1 .. n
            BY <1>1, <2>2
        <3>2. ks[i - m] = ks[j - m]
            BY <1>1, <1>3, <2>2
        <3>3. i - m = j - m
            BY <1>1, <3>1, <3>2 DEF IsInjective
        <3> QED BY <1>1, <3>3
    <2>3. CASE i <= m /\ j > m
        <3>1. i \in DOMAIN ring /\ j - m \in DOMAIN ks
            BY <1>1, <2>3
        <3> QED BY <1>1, <1>2, <1>3, <2>3, <3>1
    <2>4. CASE i > m /\ j <= m
        <3>1. j \in DOMAIN ring /\ i - m \in DOMAIN ks
            BY <1>1, <2>4
        <3> QED BY <1>1, <1>2, <1>3, <2>4, <3>1
    <2> QED BY <1>1, <2>1, <2>2, <2>3, <2>4
<1>4. IsInjective(all)
    BY <1>1, <1>3 DEF IsInjective
<1>5. ToSet(all) \subseteq ToSet(ring) \cup ToSet(ks)
    <2> SUFFICES ASSUME NEW i \in 1 .. m + n
                 PROVE  all[i] \in ToSet(ring) \cup ToSet(ks)
        BY <1>1 DEF ToSet
    <2>1. CASE i <= m
        BY <1>1, <2>1 DEF ToSet
    <2>2. CASE i > m
        <3>1. i - m \in DOMAIN ks /\ all[i] = ks[i - m]
            BY <1>1, <2>2
        <3> QED BY <3>1 DEF ToSet
    <2> QED BY <1>1, <2>1, <2>2
<1>6. ToSet(ring) \subseteq ToSet(all)
    <2> SUFFICES ASSUME NEW i \in 1 .. m PROVE ring[i] \in ToSet(all)
        BY <1>1 DEF ToSet
    <2>1. i \in DOMAIN all /\ all[i] = ring[i]
        BY <1>1
    <2> QED BY <2>1 DEF ToSet
<1>7. ToSet(ks) \subseteq ToSet(all)
    <2> SUFFICES ASSUME NEW i \in 1 .. n PROVE ks[i] \in ToSet(all)
        BY <1>1 DEF ToSet
    <2>1. i + m \in DOMAIN all /\ all[i + m] = ks[(i + m) - m] /\ (i + m) - m = i
        BY <1>1
    <2> QED BY <2>1 DEF ToSet
<1> QED BY <1>1, <1>4, <1>5, <1>6, <1>7 DEF all, m, n

LEMMA NewestKept ==
    ASSUME NEW all \in Seq(Keys), IsInjective(all), Len(all) > DeadCap
    PROVE  LET kept == SubSeq(all, Len(all) - DeadCap + 1, Len(all))
           IN  /\ Len(kept) = DeadCap /\ IsInjective(kept)
               /\ ToSet(kept) \subseteq ToSet(all)
<1> DEFINE first == Len(all) - DeadCap + 1
           kept == SubSeq(all, first, Len(all))
<1>1. Len(all) \in Nat /\ DOMAIN all = 1 .. Len(all) /\ DeadCap \in Nat \ {0}
    BY LenProperties, DeadCapAssumption
<1>2. first \in 1 .. Len(all)
    BY <1>1
<1>3. /\ Len(kept) = DeadCap /\ DOMAIN kept = 1 .. DeadCap
      /\ \A i \in 1 .. DeadCap : kept[i] = all[first + i - 1]
    <2>1. SubSeq(all, first, Len(all)) \in Seq(Keys)
        BY <1>1, <1>2, SubSeqProperties
    <2> QED BY <1>1, <1>2, <2>1, SubSeqProperties, LenProperties
<1>4. \A i \in 1 .. DeadCap : first + i - 1 \in DOMAIN all
    BY <1>1
<1> HIDE DEF kept
<1>5. ToSet(kept) \subseteq ToSet(all)
    <2> SUFFICES ASSUME NEW i \in 1 .. DeadCap PROVE kept[i] \in ToSet(all)
        BY <1>3 DEF ToSet
    <2> QED BY <1>3, <1>4 DEF ToSet
<1>6. ASSUME NEW i \in 1 .. DeadCap, NEW j \in 1 .. DeadCap, kept[i] = kept[j] PROVE i = j
    <2>1. first + i - 1 = first + j - 1
        BY <1>3, <1>4, <1>6 DEF IsInjective
    <2> QED BY <1>1, <2>1
<1>7. IsInjective(kept)
    BY <1>3, <1>6 DEF IsInjective
<1> QED BY <1>3, <1>5, <1>7 DEF kept

Failed == {k \in Keys : fate[k] = "failed"}

RingInv ==
    /\ ToSet(dead_letters) \subseteq Failed
    /\ IsInjective(dead_letters)
    /\ ToSet(dead_letters) = Failed \/ Len(dead_letters) = DeadCap

LEMMA RingIs == RingInv <=> DeadLettersComplete
BY DEF RingInv, DeadLettersComplete, Failed

LEMMA RingInit == Init => RingInv
BY DEF Init, RingInv, Failed, ToSet, IsInjective

LEMMA RingNext == TypeOK /\ RingInv /\ [Next]_vars => RingInv'
<1> SUFFICES ASSUME TypeOK, RingInv, [Next]_vars PROVE RingInv'
    OBVIOUS
<1>1. ASSUME UNCHANGED dead_letters, Failed' = Failed PROVE RingInv'
    BY <1>1 DEF RingInv, ToSet, IsInjective
<1>2. ASSUME NEW k \in Keys, Track(k) \/ AckReceived(k) PROVE RingInv'
    <2>1. Failed' = Failed
        BY <1>2 DEF Track, AckReceived, Failed, TypeOK
    <2> QED BY <1>1, <1>2, <2>1 DEF Track, AckReceived
<1>3. ASSUME Elapse \/ (\E d \in Jumps : SetClock(d)) \/ UNCHANGED vars PROVE RingInv'
    BY <1>1, <1>3 DEF Elapse, SetClock, vars, Failed
<1>4. ASSUME OnTick PROVE RingInv'
    <2>1. PICK ks \in SetToSeqs(Spent) : dead_letters' = PushDead(dead_letters, ks)
        BY <1>4 DEF OnTick
    <2>2. Spent \subseteq Keys /\ \A k \in Spent : fate[k] = "pending"
        BY DEF Spent, Due, TypeOK
    <2>3. IsFiniteSet(Spent)
        BY <2>2, KeysAssumption, FS_Subset
    <2>4. ks \in Seq(Spent) /\ IsInjective(ks) /\ ToSet(ks) = Spent
        BY <2>1, <2>3, SeqOfSet
    <2>5. ks \in Seq(Keys) /\ dead_letters \in Seq(Keys)
        BY <2>2, <2>4 DEF TypeOK
    <2>6. Failed' = Failed \cup Spent
        BY <1>4, <2>2 DEF OnTick, Failed
    <2>7. ToSet(dead_letters) \cap ToSet(ks) = {}
        BY <2>2, <2>4 DEF RingInv, Failed
    <2> DEFINE all == dead_letters \o ks
    <2>8. /\ all \in Seq(Keys) /\ Len(all) = Len(dead_letters) + Len(ks)
          /\ IsInjective(all) /\ ToSet(all) = ToSet(dead_letters) \cup Spent
        BY <2>4, <2>5, <2>7, Joined DEF RingInv
    <2>9. Len(dead_letters) \in Nat /\ Len(ks) \in Nat /\ Len(dead_letters) <= DeadCap
        BY <2>5, LenProperties DEF TypeOK
    <2>10. CASE Len(all) <= DeadCap
        <3>1. dead_letters' = all
            BY <2>1, <2>10 DEF PushDead
        <3>2. CASE ToSet(dead_letters) = Failed
            <4>1. ToSet(all) = Failed'
                BY <2>6, <2>8, <3>2
            <4> QED BY <2>8, <3>1, <4>1 DEF RingInv
        <3>3. CASE Len(dead_letters) = DeadCap
            <4>1. Len(all) = DeadCap
                BY <2>8, <2>9, <2>10, <3>3, DeadCapAssumption
            <4>2. ToSet(all) \subseteq Failed'
                BY <2>6, <2>8 DEF RingInv
            <4> QED BY <2>8, <3>1, <4>1, <4>2 DEF RingInv
        <3> QED BY <3>2, <3>3 DEF RingInv
    <2>11. CASE Len(all) > DeadCap
        <3> DEFINE kept == SubSeq(all, Len(all) - DeadCap + 1, Len(all))
        <3>1. Len(all) \in Nat /\ ~(Len(all) <= DeadCap)
            BY <2>8, <2>9, <2>11, DeadCapAssumption
        <3>2. dead_letters' = kept
            BY <2>1, <3>1 DEF PushDead
        <3>3. Len(kept) = DeadCap /\ IsInjective(kept) /\ ToSet(kept) \subseteq ToSet(all)
            <4> HIDE DEF all
            <4> QED BY <2>8, <2>11, NewestKept
        <3>4. ToSet(kept) \subseteq Failed'
            BY <2>6, <2>8, <3>3 DEF RingInv
        <3> QED BY <3>2, <3>3, <3>4 DEF RingInv
    <2> QED BY <2>8, <2>9, <2>10, <2>11, DeadCapAssumption
<1> QED BY <1>2, <1>3, <1>4 DEF Next

(***************************************************************************)
(* Whatever the capacity of the ring, and however many messages one tick   *)
(* gives up: every failure is in the ring once, unless the ring is full.   *)
(***************************************************************************)
THEOREM RingComplete == Spec => []DeadLettersComplete
<1>1. TypeOK /\ RingInv /\ [Next]_vars => (TypeOK /\ RingInv)'
    BY TypeNext, RingNext
<1> QED BY <1>1, TypeInit, RingInit, RingIs, PTL DEF Spec

-----------------------------------------------------------------------------
(***************************************************************************)
(* THEOREM: a settled message stays settled and is not sent again.         *)
(***************************************************************************)
THEOREM Settlement == Spec => SettledForGood
<1>1. ASSUME TypeOK, [Next]_vars, NEW k \in Keys, fate[k] \in Settled
      PROVE  fate'[k] = fate[k] /\ sent'[k] = sent[k]
    <2>0. fate[k] # "pending" /\ fate[k] # "untracked" /\ KeyTypes(k)
        BY <1>1, TypesOfKey DEF Settled
    <2>1. ASSUME NEW j \in Keys, Track(j) PROVE fate'[k] = fate[k] /\ sent'[k] = sent[k]
        BY <1>1, <2>0, <2>1 DEF Track, TypeOK
    <2>2. ASSUME NEW j \in Keys, AckReceived(j)
          PROVE  fate'[k] = fate[k] /\ sent'[k] = sent[k]
        BY <1>1, <2>0, <2>2 DEF AckReceived, TypeOK, KeyTypes
    <2>3. ASSUME OnTick PROVE fate'[k] = fate[k] /\ sent'[k] = sent[k]
        BY <1>1, <2>0, <2>3, TickOnKey
    <2> QED BY <1>1, <2>1, <2>2, <2>3 DEF Next, Elapse, SetClock, vars
<1>2. TypeOK /\ [Next]_vars =>
        [\A k \in Keys : fate[k] \in Settled => fate'[k] = fate[k] /\ sent'[k] = sent[k]]_vars
    BY <1>1
<1> QED BY <1>2, TypeInit, TypeNext, PTL DEF Spec, SettledForGood

-----------------------------------------------------------------------------
(***************************************************************************)
(* THEOREM: every behaviour of the timed table is one of RetryTable, as    *)
(* far as safety goes: Init maps to Init, and every step to a step or to   *)
(* a stutter.                                                              *)
(***************************************************************************)
AbstractFate == [k \in Keys |-> IF k \in DOMAIN pending THEN "pending" ELSE fate[k]]
AbstractLeft == [k \in Keys |-> IF k \in DOMAIN pending
                                  THEN pending[k].retries_left ELSE 0]

LEMMA FateMaps == TypeOK => AbstractFate = fate
BY DEF TypeOK, AbstractFate

LEMMA StepMaps == TypeOK /\ [Next]_vars => [Abstract!Next]_(Abstract!vars)
<1> SUFFICES ASSUME TypeOK, [Next]_vars
             PROVE  Abstract!Next \/ UNCHANGED <<AbstractFate, AbstractLeft>>
    BY DEF Abstract!vars, AbstractFate, AbstractLeft
<1>0. TypeOK' /\ AbstractFate = fate /\ AbstractFate' = fate'
    <2>1. TypeOK'
        BY TypeNext
    <2>2. (TypeOK => AbstractFate = fate)'
        BY FateMaps, PTL
    <2> QED BY <2>1, <2>2, FateMaps
<1>1. ASSUME NEW k \in Keys, Track(k) PROVE Abstract!Start(k)
    <2>1. AbstractLeft' = [AbstractLeft EXCEPT ![k] = config[k].max_retries]
        BY <1>1 DEF Track, AbstractLeft, NewPending, TypeOK
    <2>2. config[k].max_retries \in {c.max_retries : c \in Configs}
        BY DEF TypeOK
    <2> QED BY <1>0, <1>1, <2>1, <2>2
            DEF Abstract!Start, Track, TypeOK, AbstractFate, AbstractLeft
<1>2. ASSUME NEW k \in Keys, AckReceived(k), k \in DOMAIN pending
      PROVE  Abstract!Confirm(k)
    <2>1. AbstractLeft' = [AbstractLeft EXCEPT ![k] = 0]
        BY <1>2 DEF AckReceived, AbstractLeft
    <2>2. fate[k] = "pending" /\ fate' = [fate EXCEPT ![k] = "acked"]
        BY <1>2 DEF AckReceived, TypeOK
    <2> QED BY <1>0, <2>1, <2>2 DEF Abstract!Confirm, AbstractFate, AbstractLeft
<1>3. ASSUME NEW k \in Keys, AckReceived(k), k \notin DOMAIN pending
      PROVE  UNCHANGED <<AbstractFate, AbstractLeft>>
    <2>1. AbstractLeft' = AbstractLeft
        BY <1>3 DEF AckReceived, AbstractLeft
    <2>2. fate' = fate
        BY <1>3 DEF AckReceived, TypeOK
    <2> QED BY <1>0, <2>1, <2>2
<1>4. ASSUME OnTick
      PROVE  Due \in SUBSET Abstract!Pending /\ Abstract!Expire(Due)
    <2>1. Spent \subseteq Due /\ Due \subseteq DOMAIN pending
        BY DEF Spent, Due
    <2>2. \A k \in Due : k \in Spent <=> pending[k].retries_left = 0
        BY DEF Spent, Due, TypeOK, PendingRecord
    <2>3. Due \in SUBSET {k \in Keys : fate[k] = "pending"}
        BY <2>1 DEF TypeOK
    <2>4. AbstractLeft' = [k \in Keys |-> IF k \in Due /\ AbstractLeft[k] > 0
                                           THEN AbstractLeft[k] - 1 ELSE AbstractLeft[k]]
        <3>1. \A k \in Keys : AbstractLeft'[k] = IF k \in Due /\ AbstractLeft[k] > 0
                                           THEN AbstractLeft[k] - 1 ELSE AbstractLeft[k]
            <4> SUFFICES ASSUME NEW k \in Keys
                         PROVE  AbstractLeft'[k] = IF k \in Due /\ AbstractLeft[k] > 0
                                           THEN AbstractLeft[k] - 1 ELSE AbstractLeft[k]
                OBVIOUS
            <4>1. /\ k \in DOMAIN pending => pending[k] \in PendingRecord
                  /\ DOMAIN pending' = DOMAIN pending \ Spent
                  /\ k \in DOMAIN pending \ Spent =>
                       pending'[k] = IF k \in Due THEN Rearmed(pending[k]) ELSE pending[k]
                BY <1>4 DEF OnTick, AfterTick, TypeOK
            <4>2. k \in DOMAIN pending => pending[k].retries_left \in Nat
                BY <4>1 DEF PendingRecord
            <4>3. AbstractLeft[k] =
                    IF k \in DOMAIN pending THEN pending[k].retries_left ELSE 0
                BY DEF AbstractLeft
            <4>4. AbstractLeft'[k] =
                    IF k \in DOMAIN pending' THEN pending'[k].retries_left ELSE 0
                BY DEF AbstractLeft
            <4> QED BY <2>1, <2>2, <4>1, <4>2, <4>3, <4>4, RearmedFields
        <3> QED BY <3>1 DEF AbstractLeft
    <2>5. fate' = [k \in Keys |-> IF k \in Due /\ AbstractLeft[k] = 0
                                   THEN "failed" ELSE fate[k]]
        <3>1. \A k \in Due : AbstractLeft[k] = pending[k].retries_left
            BY <2>1 DEF AbstractLeft, TypeOK
        <3> QED BY <1>4, <2>1, <2>2, <3>1 DEF OnTick
    <2> QED BY <1>0, <2>3, <2>4, <2>5
            DEF Abstract!Pending, Abstract!Expire, AbstractFate, AbstractLeft
<1>5. ASSUME NEW d, pending' = Later(d), UNCHANGED fate
      PROVE  UNCHANGED <<AbstractFate, AbstractLeft>>
    <2>1. \A k \in DOMAIN pending : pending'[k].retries_left = pending[k].retries_left
        BY <1>5 DEF Later, TypeOK, PendingRecord
    <2>2. DOMAIN pending' = DOMAIN pending
        BY <1>5 DEF Later
    <2> QED BY <1>0, <1>5, <2>1, <2>2 DEF AbstractLeft
<1>6. CASE UNCHANGED vars
    BY <1>6 DEF vars, AbstractFate, AbstractLeft
<1>7. CASE \E k \in Keys : Track(k) \/ AckReceived(k)
    BY <1>1, <1>2, <1>3, <1>7 DEF Abstract!Next
<1>8. CASE OnTick
    <2>1. \E due \in SUBSET Abstract!Pending : Abstract!Expire(due)
        BY <1>4, <1>8 DEF Abstract!Expire
    <2> QED BY <2>1 DEF Abstract!Next
<1>9. CASE Elapse \/ \E d \in Jumps : SetClock(d)
    <2>1. \E d : pending' = Later(d) /\ UNCHANGED fate
        BY <1>9 DEF Elapse, SetClock
    <2> QED BY <1>5, <2>1
<1> QED BY <1>6, <1>7, <1>8, <1>9 DEF Next

LEMMA InitMaps == Init => Abstract!Init
BY DEF Init, Abstract!Init

THEOREM RefinesRetryTable ==
    Spec => Abstract!Init /\ [][Abstract!Next]_(Abstract!vars)
BY InitMaps, StepMaps, TypeInit, TypeNext, PTL DEF Spec

=============================================================================
