-------------------------- MODULE TokenBucketProofs --------------------------
(***************************************************************************)
(* Proofs about TokenBucket, for any number of callers and any capacity,   *)
(* and about ReloadLimiter, whose worker is one of the callers.            *)
(*                                                                         *)
(* The bucket is described by its level: what it would hold if it were     *)
(* adjusted now.  A call of take lowers the level by one, a tick raises it *)
(* by at most one; the exception is the first take, after which the level  *)
(* may be full once more, because availTick was left behind.               *)
(***************************************************************************)
EXTENDS ReloadLimiter, FiniteSetTheorems, TLAPS

\* Only before the first take is the bucket full when it is not adjusted.
FirstInv ==
  avail = Capacity => taken = 0 /\ slack = 1 /\ \A c \in Client : wake[c] = 0

\* What was taken and what can be taken are paid for by the window.
WindowInv == avail < Capacity => taken + Level <= Capacity + slack + (tick - mark)

BucketInv == TypeOK /\ FirstInv /\ SleepersAreTheDebt /\ WindowInv

-----------------------------------------------------------------------------
(* The level.                                                              *)

LEMMA LevelType ==
  ASSUME TypeOK
  PROVE  /\ Level \in Int /\ Level <= Capacity
         /\ Debt \in Nat
         /\ Debt = IF Level < 0 THEN -Level ELSE 0
         /\ tick \in Int /\ availTick \in Int /\ Capacity \in Int
         /\ avail = Capacity => Level = Capacity /\ adjust[2] = availTick
         /\ avail < Capacity => /\ Level = CapAt(avail + (tick - availTick))
                                /\ adjust[2] = tick
<1>1. /\ avail \in Int /\ avail <= Capacity /\ tick \in Nat /\ availTick \in Nat
      /\ Capacity \in Int /\ tick - availTick \in Nat
  BY CapacityAssumption, TickAssumption DEF TypeOK
<1>2. avail = Capacity => adjust = <<avail, availTick>>
  BY <1>1 DEF adjust, bucket
<1>3. avail < Capacity => adjust = <<CapAt(avail + (tick - availTick)), tick>>
  BY <1>1 DEF adjust
<1>4. CapAt(avail + (tick - availTick)) \in Int /\ CapAt(avail + (tick - availTick)) <= Capacity
  BY <1>1 DEF CapAt
<1> QED BY <1>1, <1>2, <1>3, <1>4 DEF Level, Debt

(* Those who sleep for the debt are at least as many as the debt.          *)
LEMMA DebtBound ==
  ASSUME TypeOK, SleepersAreTheDebt, NEW S \in SUBSET Client,
         \A c \in Client : wake[c] > tick => c \in S
  PROVE  Debt <= Cardinality(S) /\ Cardinality(S) \in Nat
<1> DEFINE I == tick + 1 .. tick + Debt
           R == {c \in S : wake[c] \in I}
           f == [c \in R |-> wake[c]]
<1>1. Debt \in Nat /\ tick \in Int
  BY LevelType
<1>2. IsFiniteSet(S) /\ Cardinality(S) \in Nat
  BY ClientAssumption, FS_Subset, FS_CardinalityType
<1>3. IsFiniteSet(R) /\ Cardinality(R) <= Cardinality(S)
  BY <1>2, FS_Subset
<1>4. \A t \in I : \E c \in R : wake[c] = t
  BY <1>1 DEF SleepersAreTheDebt
<1>5. f \in Surjection(R, I)
  BY <1>4 DEF Surjection
<1>6. Cardinality(I) <= Cardinality(R)
  BY <1>3, <1>5, FS_Surjection
<1>7. Cardinality(I) = Debt
  BY <1>1, FS_Interval
<1>8. Cardinality(R) \in Nat
  BY <1>3, FS_CardinalityType
<1> HIDE DEF I, R
<1> QED BY <1>1, <1>2, <1>3, <1>6, <1>7, <1>8

-----------------------------------------------------------------------------
(* The invariant.                                                          *)

LEMMA BucketInit == Init => BucketInv
<1> SUFFICES ASSUME Init PROVE BucketInv
  OBVIOUS
<1>1. TypeOK
  BY CapacityAssumption, TickAssumption DEF Init, TypeOK
<1>2. Level = Capacity /\ Debt = 0
  BY <1>1, LevelType, CapacityAssumption DEF Init
<1>3. SleepersAreTheDebt
  BY <1>2 DEF Init, SleepersAreTheDebt
<1>4. FirstInv /\ WindowInv
  BY CapacityAssumption DEF Init, FirstInv, WindowInv
<1> QED BY <1>1, <1>3, <1>4 DEF BucketInv

(* take: a token is at hand, or the caller becomes the last sleeper.       *)
LEMMA AcceptKeeps ==
  ASSUME BucketInv, NEW c \in Client, Accept(c)
  PROVE  BucketInv'
<1> PICK left : left = Level - 1
  OBVIOUS
<1>1. TypeOK /\ FirstInv /\ SleepersAreTheDebt /\ WindowInv
  BY DEF BucketInv
<1>2. /\ wake[c] = 0 /\ tick + Cardinality(Client) <= MaxTick
      /\ avail' = left /\ availTick' = adjust[2]
      /\ wake' = [wake EXCEPT ![c] = IF left >= 0 THEN 0 ELSE tick + (-left)]
      /\ taken' = taken + 1 /\ tick' = tick /\ mark' = mark /\ slack' = slack
  BY DEF Accept, Level, endTick
<1>3. /\ Level \in Int /\ Level <= Capacity /\ Debt \in Nat
      /\ Debt = IF Level < 0 THEN -Level ELSE 0
      /\ tick \in Nat /\ availTick \in 0 .. tick /\ Capacity \in Int /\ Capacity > 0
      /\ avail \in Int /\ avail <= Capacity /\ wake \in [Client -> 0 .. MaxTick]
      /\ taken \in Nat /\ mark \in 0 .. tick /\ slack \in {0, 1} /\ MaxTick \in Nat
  BY <1>1, LevelType, CapacityAssumption, TickAssumption DEF TypeOK
<1>4. left \in Int /\ left < Capacity
  BY <1>3
<1>5. adjust[2] \in 0 .. tick
  BY <1>1, <1>3, LevelType
<1>6. Debt + 1 <= Cardinality(Client) /\ Cardinality(Client) \in Nat
  <2>1. Debt <= Cardinality(Client \ {c})
    BY <1>1, <1>2, <1>3, DebtBound
  <2>2. Cardinality(Client \ {c}) = Cardinality(Client) - 1 /\ Cardinality(Client) \in Nat
    BY ClientAssumption, FS_RemoveElement, FS_CardinalityType
  <2> QED BY <1>3, <2>1, <2>2
<1>7. left < 0 => -left = Debt + 1 /\ -left \in Nat
  BY <1>3
<1>8. TypeOK'
  <2>1. left < 0 => tick + (-left) \in 0 .. MaxTick
    BY <1>2, <1>3, <1>6, <1>7
  <2>2. wake' \in [Client -> 0 .. MaxTick]
    BY <1>2, <1>3, <1>4, <2>1
  <2> QED BY <1>1, <1>2, <1>3, <1>4, <1>5, <2>2 DEF TypeOK
<1>9. Level' = CapAt(left + (tick - adjust[2])) /\ Level' \in Int /\ Level' <= Capacity
  <2>1. Level' = CapAt(left + (tick - adjust[2]))
    BY <1>2, <1>3, <1>4 DEF Level, adjust, CapAt
  <2> QED BY <1>3, <1>4, <1>5, <2>1 DEF CapAt
<1>10. avail < Capacity => Level' = left
  BY <1>1, <1>3, <1>4, <1>9, LevelType DEF CapAt
<1>11. avail = Capacity => Level = Capacity /\ left >= 0 /\ Level' >= 0 /\ Debt = 0
  BY <1>1, <1>3, <1>4, <1>5, <1>9, LevelType DEF CapAt
<1>12. Debt' = IF left < 0 THEN Debt + 1 ELSE 0
  <2>1. Debt' = IF Level' < 0 THEN -(Level') ELSE 0
    BY DEF Debt
  <2>2. CASE avail < Capacity
    BY <1>3, <1>4, <1>7, <1>10, <2>1, <2>2
  <2>3. CASE avail = Capacity
    BY <1>3, <1>9, <1>11, <2>1, <2>3
  <2> QED BY <1>3, <2>2, <2>3
<1>13. SleepersAreTheDebt'
  <2>1. CASE left < 0
    <3>1. Debt' = Debt + 1 /\ wake'[c] = tick + Debt + 1
      BY <1>2, <1>3, <1>7, <1>12, <2>1
    <3>2. \A d \in Client : d # c => wake'[d] = wake[d]
      BY <1>2, <1>3
    <3>3. \A d \in Client : wake[d] \in Nat /\ wake[d] <= tick + Debt
      BY <1>1, <1>3 DEF SleepersAreTheDebt
    <3>4. \A d \in Client : wake'[d] <= tick + Debt'
      BY <1>3, <3>1, <3>2, <3>3
    <3>5. ASSUME NEW t \in tick + 1 .. tick + (Debt + 1)
          PROVE  \E d \in Client : wake'[d] = t
      <4>1. CASE t = tick + Debt + 1
        BY <3>1, <4>1
      <4>2. CASE t \in tick + 1 .. tick + Debt
        <5>1. PICK d \in Client : wake[d] = t
          BY <1>1, <4>2 DEF SleepersAreTheDebt
        <5>2. d # c
          BY <1>2, <1>3, <4>2, <5>1
        <5> QED BY <3>2, <5>1, <5>2
      <4> QED BY <1>3, <4>1, <4>2
    <3>6. ASSUME NEW d \in Client, NEW e \in Client, wake'[d] = wake'[e], wake'[d] > tick
          PROVE  d = e
      BY <1>1, <1>3, <3>1, <3>2, <3>3, <3>6 DEF SleepersAreTheDebt
    <3> QED BY <1>2, <3>1, <3>4, <3>5, <3>6 DEF SleepersAreTheDebt
  <2>2. CASE left >= 0
    <3>1. Debt' = 0 /\ Debt = 0 /\ wake' = wake
      BY <1>2, <1>3, <1>4, <1>12, <2>2
    <3> QED BY <1>1, <1>2, <3>1 DEF SleepersAreTheDebt
  <2> QED BY <1>4, <2>1, <2>2
<1>14. FirstInv'
  BY <1>2, <1>3, <1>4 DEF FirstInv
<1>15. WindowInv'
  <2>1. CASE avail < Capacity
    <3>1. taken + Level <= Capacity + slack + (tick - mark)
      BY <1>1, <2>1 DEF WindowInv
    <3>2. taken' + Level' <= Capacity + slack + (tick - mark)
      BY <1>2, <1>3, <1>10, <2>1, <3>1
    <3> QED BY <1>2, <3>2 DEF WindowInv
  <2>2. CASE avail = Capacity
    <3>1. taken = 0 /\ slack = 1
      BY <1>1, <2>2 DEF FirstInv
    <3>2. taken' + Level' <= Capacity + slack + (tick - mark)
      BY <1>2, <1>3, <1>9, <3>1
    <3> QED BY <1>2, <3>2 DEF WindowInv
  <2> QED BY <1>3, <2>1, <2>2
<1> QED BY <1>8, <1>13, <1>14, <1>15 DEF BucketInv

(* A tick pays one token, for the first sleeper if there is one.           *)
LEMMA TickKeeps ==
  ASSUME BucketInv, Tick
  PROVE  BucketInv'
<1>1. TypeOK /\ FirstInv /\ SleepersAreTheDebt /\ WindowInv
  BY DEF BucketInv
<1>2. /\ tick < MaxTick /\ tick' = tick + 1
      /\ UNCHANGED <<avail, availTick, wake, mark, taken, slack>>
  BY DEF Tick, bucket, window
<1>3. /\ Level \in Int /\ Level <= Capacity /\ Debt \in Nat
      /\ Debt = IF Level < 0 THEN -Level ELSE 0
      /\ tick \in Nat /\ availTick \in 0 .. tick /\ Capacity \in Int /\ Capacity > 0
      /\ avail \in Int /\ avail <= Capacity /\ wake \in [Client -> 0 .. MaxTick]
      /\ taken \in Nat /\ mark \in 0 .. tick /\ slack \in {0, 1} /\ MaxTick \in Nat
  BY <1>1, LevelType, CapacityAssumption, TickAssumption DEF TypeOK
<1>4. TypeOK'
  BY <1>1, <1>2, <1>3 DEF TypeOK
<1>5. /\ avail = Capacity => Level' = Level /\ Level = Capacity
      /\ avail < Capacity => Level' = CapAt(Level + 1)
  <2>1. Level' = IF avail >= Capacity THEN avail ELSE CapAt(avail + ((tick + 1) - availTick))
    <3>1. adjust' = IF avail >= Capacity THEN <<avail, availTick>>
                    ELSE <<CapAt(avail + ((tick + 1) - availTick)), tick + 1>>
      BY <1>2 DEF adjust, bucket
    <3> QED BY <3>1 DEF Level
  <2>2. avail = Capacity => Level = Capacity
    BY <1>1, LevelType
  <2>3. avail < Capacity => Level = CapAt(avail + (tick - availTick))
    BY <1>1, LevelType
  <2>4. CASE avail = Capacity
    BY <1>3, <2>1, <2>2, <2>4
  <2>5. CASE avail < Capacity
    BY <1>3, <2>1, <2>3, <2>5 DEF CapAt
  <2> QED BY <1>3, <2>4, <2>5
<1>6. Level' \in Int /\ Level' <= Level + 1 /\ (Level < 0 => Level' = Level + 1)
      /\ (Level >= 0 => Level' >= 0)
  BY <1>3, <1>5 DEF CapAt
<1>7. /\ Debt > 0 => Debt' = Debt - 1
      /\ Debt = 0 => Debt' = 0
  <2>1. PICK m \in Int : m = Level'
    BY <1>6
  <2>2. PICK n \in Int : n = Level
    BY <1>3
  <2>3. Debt = (IF n < 0 THEN -n ELSE 0) /\ Debt' = (IF m < 0 THEN -m ELSE 0)
    BY <2>1, <2>2 DEF Debt
  <2>4. (n < 0 => m = n + 1) /\ (n >= 0 => m >= 0)
    BY <1>6, <2>1, <2>2
  <2> QED BY <2>3, <2>4
<1>8. SleepersAreTheDebt'
  <2>1. Debt' \in Nat /\ tick' + Debt' >= tick + Debt
        /\ tick' + 1 .. tick' + Debt' \subseteq tick + 1 .. tick + Debt
    BY <1>2, <1>3, <1>7
  <2>2. \A d \in Client : wake[d] \in Nat
    BY <1>3
  <2>3. \A d \in Client : wake[d] <= tick' + Debt'
    <3>1. \A d \in Client : wake[d] <= tick + Debt
      BY <1>1 DEF SleepersAreTheDebt
    <3>2. PICK t \in Nat, m \in Nat, n \in Nat : t = tick /\ m = Debt /\ n = Debt'
      BY <1>3, <2>1
    <3>3. (m > 0 => n = m - 1) /\ (m = 0 => n = 0)
      BY <1>7, <3>2
    <3>4. t + m <= (t + 1) + n
      BY <3>3
    <3>5. \A d \in Client : wake[d] <= (t + 1) + n
      <4> TAKE d \in Client
      <4>1. PICK w \in Nat : w = wake[d]
        BY <2>2
      <4>2. w <= t + m
        BY <3>1, <3>2, <4>1
      <4> QED BY <3>4, <4>1, <4>2
    <3> QED BY <1>2, <3>2, <3>5
  <2>4. \A t \in tick' + 1 .. tick' + Debt' : \E d \in Client : wake[d] = t
    BY <1>1, <2>1 DEF SleepersAreTheDebt
  <2>5. \A d, e \in Client : wake[d] = wake[e] /\ wake[d] > tick' => d = e
    BY <1>1, <1>2, <1>3, <2>2 DEF SleepersAreTheDebt
  <2> QED BY <1>2, <2>3, <2>4, <2>5 DEF SleepersAreTheDebt
<1>9. FirstInv'
  BY <1>1, <1>2 DEF FirstInv
<1>10. WindowInv'
  <2> SUFFICES ASSUME avail < Capacity
               PROVE  taken + Level' <= Capacity + slack + ((tick + 1) - mark)
    <3>1. avail' = avail /\ taken' = taken /\ slack' = slack /\ mark' = mark /\ tick' = tick + 1
      BY <1>2
    <3> QED BY <3>1 DEF WindowInv
  <2>1. taken + Level <= Capacity + slack + (tick - mark)
    BY <1>1 DEF WindowInv
  <2>2. /\ mark \in Int /\ slack \in Int /\ taken \in Int /\ Level \in Int
        /\ tick \in Int /\ Capacity \in Int
    BY <1>3
  <2>3. PICK m \in Int : m = Level' /\ m <= Level + 1
    BY <1>6
  <2>4. taken + m <= Capacity + slack + ((tick + 1) - mark)
    <3>1. PICK a \in Int, l \in Int, c \in Int, x \in Int, t \in Int, k \in Int :
            a = taken /\ l = Level /\ c = Capacity /\ x = slack /\ t = tick /\ k = mark
      BY <2>2
    <3>2. a + l <= c + x + (t - k) /\ m <= l + 1
      BY <2>1, <2>3, <3>1
    <3>3. a + m <= c + x + ((t + 1) - k)
      BY <3>2
    <3> QED BY <3>1, <3>3
  <2> QED BY <2>3, <2>4
<1> QED BY <1>4, <1>8, <1>9, <1>10 DEF BucketInv

(* Waking up and opening a window leave the bucket alone.                  *)
LEMMA OthersKeep ==
  ASSUME BucketInv, (\E c \in Client : Wake(c)) \/ OpenWindow \/ UNCHANGED vars
  PROVE  BucketInv'
<1>1. TypeOK /\ FirstInv /\ SleepersAreTheDebt /\ WindowInv
  BY DEF BucketInv
<1>2. UNCHANGED <<tick, avail, availTick>>
  BY DEF Wake, OpenWindow, vars, bucket
<1>3. Level' = Level /\ Debt' = Debt
  BY <1>2 DEF Level, Debt, adjust, bucket
<1>4. Level \in Int /\ Level <= Capacity /\ tick \in Nat /\ Debt \in Nat /\ Capacity \in Int
  BY <1>1, LevelType DEF TypeOK
<1>5. ASSUME NEW c \in Client, Wake(c)
      PROVE  BucketInv'
  <2>1. /\ wake[c] <= tick /\ wake' = [wake EXCEPT ![c] = 0]
        /\ UNCHANGED <<mark, taken, slack>>
    BY <1>5 DEF Wake, window
  <2>2. TypeOK'
    BY <1>1, <1>2, <2>1, TickAssumption DEF TypeOK
  <2>3. wake'[c] = 0 /\ \A d \in Client : d # c => wake'[d] = wake[d]
    BY <1>1, <2>1 DEF TypeOK
  <2>4. SleepersAreTheDebt'
    <3>1. \A t \in tick + 1 .. tick + Debt : \E d \in Client : wake'[d] = t
      BY <1>1, <1>4, <2>1, <2>3 DEF SleepersAreTheDebt
    <3>2. \A d \in Client : wake'[d] <= tick + Debt
      BY <1>1, <1>4, <2>3 DEF SleepersAreTheDebt
    <3>3. \A d, e \in Client : wake'[d] = wake'[e] /\ wake'[d] > tick => d = e
      BY <1>1, <1>4, <2>3 DEF SleepersAreTheDebt
    <3> QED BY <1>2, <1>3, <3>1, <3>2, <3>3 DEF SleepersAreTheDebt
  <2>5. FirstInv' /\ WindowInv'
    BY <1>1, <1>2, <1>3, <2>1, <2>3 DEF FirstInv, WindowInv
  <2> QED BY <2>2, <2>4, <2>5 DEF BucketInv
<1>6. CASE OpenWindow
  <2>1. /\ mark' = tick /\ taken' = 0 /\ slack' = (IF avail >= Capacity THEN 1 ELSE 0)
        /\ wake' = wake
    BY <1>6 DEF OpenWindow
  <2>2. TypeOK'
    BY <1>1, <1>2, <1>4, <2>1 DEF TypeOK
  <2>3. SleepersAreTheDebt'
    BY <1>1, <1>2, <1>3, <2>1 DEF SleepersAreTheDebt
  <2>4. FirstInv'
    BY <1>1, <1>2, <1>4, <2>1 DEF FirstInv
  <2>5. WindowInv'
    BY <1>1, <1>2, <1>3, <1>4, <2>1 DEF WindowInv, TypeOK
  <2> QED BY <2>2, <2>3, <2>4, <2>5 DEF BucketInv
<1>7. CASE UNCHANGED vars
  BY <1>1, <1>2, <1>3, <1>7
     DEF BucketInv, TypeOK, FirstInv, WindowInv, SleepersAreTheDebt, vars, window
<1> QED BY <1>5, <1>6, <1>7

LEMMA BucketStep == BucketInv /\ [Next]_vars => BucketInv'
  BY AcceptKeeps, TickKeeps, OthersKeep DEF Next

-----------------------------------------------------------------------------
(* The theorems.                                                           *)

(* The inductive invariant of the bucket.                                  *)
THEOREM BucketInvariant == Spec => []BucketInv
  BY BucketInit, BucketStep, PTL DEF Spec

(* The bucket's variables have their types: it never holds more than its   *)
(* capacity.                                                               *)
THEOREM BucketTypeCorrect == Spec => []TypeOK
<1>1. BucketInv => TypeOK
  BY DEF BucketInv
<1> QED BY <1>1, BucketInvariant, PTL

(* Sleepers are served one per tick, without a gap.                        *)
THEOREM SleepersServedInTurn == Spec => []SleepersAreTheDebt
<1>1. BucketInv => SleepersAreTheDebt
  BY DEF BucketInv
<1> QED BY <1>1, BucketInvariant, PTL

(* No call of Accept sleeps longer than there are callers.                 *)
THEOREM BoundedWait == Spec => []WaitIsBounded
<1>1. BucketInv => WaitIsBounded
  <2> SUFFICES ASSUME BucketInv, NEW c \in Client
               PROVE  wake[c] <= tick + Cardinality(Client)
    BY DEF WaitIsBounded
  <2>1. TypeOK /\ SleepersAreTheDebt
    BY DEF BucketInv
  <2>2. Debt <= Cardinality(Client) /\ Cardinality(Client) \in Nat
    BY <2>1, DebtBound
  <2>3. wake[c] <= tick + Debt /\ wake[c] \in Nat /\ tick \in Nat /\ Debt \in Nat
    BY <2>1, LevelType DEF SleepersAreTheDebt, TypeOK
  <2> QED BY <2>2, <2>3
<1> QED BY <1>1, BucketInvariant, PTL

(* In any window the tokens handed out are at most a full bucket and one   *)
(* per tick, and one more if the first token ever is among them.           *)
THEOREM BoundedRate == Spec => []RateIsBounded
<1>1. BucketInv => RateIsBounded
  <2> SUFFICES ASSUME BucketInv
               PROVE  taken - Debt <= Capacity + slack + (tick - mark)
    BY DEF RateIsBounded
  <2>1. TypeOK /\ FirstInv /\ WindowInv
    BY DEF BucketInv
  <2>2. /\ Level \in Int /\ Debt \in Nat /\ Debt = IF Level < 0 THEN -Level ELSE 0
        /\ tick \in Nat /\ mark \in 0 .. tick /\ taken \in Nat /\ slack \in {0, 1}
        /\ Capacity \in Nat /\ avail \in Int /\ avail <= Capacity
    BY <2>1, LevelType, CapacityAssumption DEF TypeOK
  <2>3. CASE avail < Capacity
    BY <2>1, <2>2, <2>3 DEF WindowInv
  <2>4. CASE avail = Capacity
    BY <2>1, <2>2, <2>4 DEF FirstInv
  <2> QED BY <2>2, <2>3, <2>4
<1> QED BY <1>1, BucketInvariant, PTL

-----------------------------------------------------------------------------
(* The reload limiter.  The worker uses the bucket as any client may, so   *)
(* what was proved of the bucket holds under the worker's syncs; and the   *)
(* reloads follow the tokens.                                              *)

\* Reloads and tokens in a window that began anywhere in a sync.
ReloadInv ==
  /\ reloads \in Nat
  /\ at \in {"idle", "free", "limit", "reload"}
  /\ reloads <= 2 * taken + 2
  /\ at # "limit" => reloads <= 2 * taken + 1
  /\ at = "reload" => reloads <= 2 * taken
  /\ at # "reload" => wake[Worker] = 0

(* Every step of sync is a step of the bucket or leaves it alone: sync     *)
(* calls Accept once at a time and waits for it to return.                 *)
THEOREM LimiterImplementsBucket == LimiterSpec => Spec
<1>1. LimiterInit => Init
  BY DEF LimiterInit
<1>2. [LimiterNext]_limiterVars => [Next]_vars
  <2> SUFFICES ASSUME [LimiterNext]_limiterVars PROVE [Next]_vars
    OBVIOUS
  <2>1. CASE FirstReload \/ FreeReload \/ FreeReturn \/ LastReload
    BY <2>1 DEF FirstReload, FreeReload, FreeReturn, LastReload
  <2>2. CASE Limit
    BY <2>2, WorkerAssumption DEF Limit, Next
  <2>3. CASE Others
    BY <2>3 DEF Others, Next
  <2>4. CASE Sleepers
    BY <2>4 DEF Sleepers, Next
  <2>5. CASE Clock
    BY <2>5 DEF Clock, Next
  <2>6. CASE Observe
    BY <2>6 DEF Observe, Next
  <2>7. CASE UNCHANGED limiterVars
    BY <2>7 DEF limiterVars
  <2> QED
    BY <2>1, <2>2, <2>3, <2>4, <2>5, <2>6, <2>7 DEF LimiterNext
<1> QED
  BY <1>1, <1>2, PTL DEF LimiterSpec, Spec

\* The count of reloads is kept by every step.
LEMMA ReloadInvariant == LimiterSpec => []ReloadInv
<1>1. LimiterInit => ReloadInv
  BY WorkerAssumption DEF LimiterInit, Init, ReloadInv
<1>2. TypeOK /\ ReloadInv /\ [LimiterNext]_limiterVars => ReloadInv'
  <2> SUFFICES ASSUME TypeOK, ReloadInv, [LimiterNext]_limiterVars PROVE ReloadInv'
    OBVIOUS
  <2> USE WorkerAssumption DEF TypeOK, ReloadInv
  <2>1. CASE FirstReload
    BY <2>1 DEF FirstReload, vars, window
  <2>2. CASE FreeReload \/ FreeReturn
    BY <2>2 DEF FreeReload, FreeReturn, vars, window
  <2>3. CASE Limit
    BY <2>3 DEF Limit, Accept
  <2>4. CASE LastReload
    BY <2>4 DEF LastReload, vars, window
  <2>5. CASE Others
    BY <2>5 DEF Others, Accept, sync
  <2>6. CASE Sleepers
    BY <2>6 DEF Sleepers, Wake, sync, window
  <2>7. CASE Clock
    BY <2>7 DEF Clock, Tick, sync, window
  <2>8. CASE Observe
    BY <2>8 DEF Observe, OpenWindow
  <2>9. CASE UNCHANGED limiterVars
    BY <2>9 DEF limiterVars, vars, sync, window
  <2> QED
    BY <2>1, <2>2, <2>3, <2>4, <2>5, <2>6, <2>7, <2>8, <2>9 DEF LimiterNext
<1> QED
  BY <1>1, <1>2, LimiterImplementsBucket, BucketTypeCorrect, PTL DEF LimiterSpec

(* The reload limiter, whose only client is the worker, lets at most two   *)
(* reloads per token happen in any window: all tokens taken but the one    *)
(* the worker sleeps for have been paid for.                               *)
THEOREM ReloadRateBounded ==
  ASSUME Client = {Worker}
  PROVE  LimiterSpec => []TwoReloadsPerToken
<1>1. TypeOK /\ SleepersAreTheDebt /\ RateIsBounded /\ ReloadInv => TwoReloadsPerToken
  <2> SUFFICES ASSUME TypeOK, SleepersAreTheDebt, RateIsBounded, ReloadInv
               PROVE  TwoReloadsPerToken
    OBVIOUS
  <2> DEFINE bound == Capacity + slack + (tick - mark)
  <2>1. Debt \in Nat
    BY CapacityAssumption DEF Debt, Level, adjust, CapAt, bucket, TypeOK
  <2>2. \A t \in tick + 1 .. tick + Debt : wake[Worker] = t
    BY DEF SleepersAreTheDebt
  <2>3. Debt <= 1
    <3>1. ASSUME Debt > 1 PROVE FALSE
      <4>1. tick + 1 \in tick + 1 .. tick + Debt /\ tick + 2 \in tick + 1 .. tick + Debt
        BY <2>1, <3>1 DEF TypeOK
      <4> QED
        BY <4>1, <2>2 DEF TypeOK
    <3> QED
      BY <3>1, <2>1
  <2>4. at # "reload" => Debt = 0
    <3>1. ASSUME at # "reload", Debt > 0 PROVE FALSE
      <4>1. tick + 1 \in tick + 1 .. tick + Debt
        BY <2>1, <3>1 DEF TypeOK
      <4> QED
        BY <4>1, <2>2, <3>1 DEF TypeOK, ReloadInv
    <3> QED
      BY <3>1, <2>1
  <2>5. taken <= bound + Debt /\ taken \in Nat /\ bound \in Int /\ reloads \in Nat
    BY <2>1, CapacityAssumption DEF RateIsBounded, TypeOK, ReloadInv
  <2>6. reloads <= 2 * bound + 2
    <3> HIDE DEF bound
    <3>1. CASE at = "reload"
      <4>1. reloads <= 2 * taken
        BY <3>1, <2>5 DEF ReloadInv
      <4> QED
        BY <4>1, <2>1, <2>3, <2>5
    <3>2. CASE at # "reload"
      <4>1. reloads <= 2 * taken + 2
        BY <3>2, <2>5 DEF ReloadInv
      <4> QED
        BY <4>1, <3>2, <2>4, <2>5
    <3> QED
      BY <3>1, <3>2
  <2> QED
    BY <2>6 DEF TwoReloadsPerToken
<1> QED
  BY <1>1, LimiterImplementsBucket, BucketTypeCorrect, SleepersServedInTurn, BoundedRate,
     ReloadInvariant, PTL
=============================================================================
