--------------------- MODULE FootballDataClient_proofs ---------------------
(***************************************************************************)
(* Theorems of RateLimiter, for every MaxCalls, Period, MaxRequests and    *)
(* Horizon: the window limit over the whole history, and the refinement of *)
(* SlidingWindow.  On top of them those of FootballDataClient, for every   *)
(* number of attempts and every backoff: retries keep their distance, and  *)
(* the server sees at most MaxCalls + 1 calls in a window beside those the *)
(* client had given up.                                                    *)
(***************************************************************************)
EXTENDS FootballDataClient, TLAPS, SequenceTheorems, FiniteSetTheorems

-----------------------------------------------------------------------------
(* The limiter *)

\* The deque without its n oldest entries: length and entries.
LEMMA WithoutProperties ==
  ASSUME timestamps \in Seq(Nat), NEW n \in 0..Len(timestamps)
  PROVE  /\ Without(n) \in Seq(Nat)
         /\ Len(Without(n)) = Len(timestamps) - n
         /\ \A i \in 1..Len(Without(n)) : Without(n)[i] = timestamps[n + i]
<1>1. Len(timestamps) \in Nat
  BY LenProperties
<1>2. \A i \in (n + 1)..Len(timestamps) : timestamps[i] \in Nat
  BY <1>1, ElementOfSeq
<1>3. /\ SubSeq(timestamps, n + 1, Len(timestamps)) \in Seq(Nat)
      /\ Len(SubSeq(timestamps, n + 1, Len(timestamps)))
           = IF n + 1 <= Len(timestamps) THEN Len(timestamps) - (n + 1) + 1 ELSE 0
      /\ \A i \in 1..(Len(timestamps) - (n + 1) + 1) :
           SubSeq(timestamps, n + 1, Len(timestamps))[i] = timestamps[n + 1 + i - 1]
  BY <1>1, <1>2, SubSeqProperties
<1>4. Len(Without(n)) = Len(timestamps) - n
  BY <1>1, <1>3 DEF Without
<1>5. \A i \in 1..Len(Without(n)) : n + 1 + i - 1 = n + i
  BY <1>1, <1>4
<1> QED
  BY <1>1, <1>3, <1>4, <1>5 DEF Without

\* What an eviction drops, and what earlier ones dropped, has left the window.
LEMMA EvictedLeftWindow ==
  ASSUME LimiterInv, NEW n \in 0..Len(timestamps), Evicts(n)
  PROVE  \A i \in 1..(Dropped + n) : now >= grants[i] + Period
<1>1. /\ now \in Nat /\ Len(timestamps) \in Nat /\ Len(grants) \in Nat /\ n \in Nat
      /\ timestamps \in Seq(Nat) /\ Period \in Nat
  BY LenProperties, LimiterAssumption DEF LimiterInv, LimiterTypeOK
<1>2. Dropped \in Nat
  BY <1>1 DEF Dropped, LimiterInv, DequeIsRecentHistory
<1> SUFFICES ASSUME NEW i \in 1..(Dropped + n)
             PROVE  now >= grants[i] + Period
  OBVIOUS
<1>3. CASE i <= Dropped
  BY <1>2, <1>3 DEF LimiterInv, DequeIsRecentHistory
<1>4. CASE i > Dropped
  <2>1. i - Dropped \in 1..n /\ i - Dropped \in 1..Len(timestamps)
    BY <1>1, <1>2, <1>4
  <2>2. timestamps[i - Dropped] = grants[Dropped + (i - Dropped)]
    BY <2>1 DEF LimiterInv, DequeIsRecentHistory
  <2>3. Dropped + (i - Dropped) = i
    BY <1>1, <1>2
  <2>4. now - timestamps[i - Dropped] >= Period
    BY <2>1 DEF Evicts
  <2>5. timestamps[i - Dropped] \in Nat
    BY <1>1, <2>1, ElementOfSeq
  <2>6. timestamps[i - Dropped] = grants[i]
    BY <2>2, <2>3
  <2> QED
    BY <1>1, <2>4, <2>5, <2>6
<1> QED
  BY <1>2, <1>3, <1>4

\* A call that returns over a deque with room keeps the invariant: the call
\* MaxCalls places back has been evicted, so it has left the window.
LEMMA ReturnKeepsInv ==
  ASSUME LimiterInv, NEW n \in 0..Len(timestamps), Evicts(n),
         Len(Without(n)) < MaxCalls, Return(Without(n))
  PROVE  LimiterInv'
<1> DEFINE rest == Without(n)
<1>1. /\ rest \in Seq(Nat) /\ Len(rest) = Len(timestamps) - n
      /\ \A i \in 1..Len(rest) : rest[i] = timestamps[n + i]
  BY WithoutProperties DEF LimiterInv, LimiterTypeOK
<1>2. /\ now \in Nat /\ Len(timestamps) \in Nat /\ Len(grants) \in Nat
      /\ timestamps \in Seq(Nat) /\ grants \in Seq(Nat)
      /\ Len(rest) \in Nat /\ Len(rest) = Len(timestamps) - n
      /\ n \in Nat /\ MaxCalls \in Nat \ {0} /\ Period \in Nat \ {0}
  BY <1>1, LenProperties, LimiterAssumption DEF LimiterInv, LimiterTypeOK
<1>3. /\ \A i \in 1..Len(timestamps) : timestamps[i] \in Nat
      /\ \A i \in 1..Len(grants) : grants[i] \in Nat
  BY <1>2, ElementOfSeq
<1>4. /\ grants' \in Seq(Nat) /\ Len(grants') = Len(grants) + 1
      /\ grants'[Len(grants) + 1] = now
      /\ \A i \in 1..Len(grants) : grants'[i] = grants[i]
  BY <1>2, AppendProperties DEF Return
<1>5. /\ timestamps' \in Seq(Nat) /\ Len(timestamps') = Len(rest) + 1
      /\ timestamps'[Len(rest) + 1] = now
      /\ \A i \in 1..Len(rest) : timestamps'[i] = rest[i]
  BY <1>1, <1>2, AppendProperties DEF Return
<1>6. now' = now /\ phase' = "idle" /\ wakeAt' = wakeAt
  BY DEF Return
<1> HIDE DEF rest
<1>7. LimiterTypeOK'
  BY <1>2, <1>4, <1>5, <1>6 DEF LimiterInv, LimiterTypeOK
<1>8. /\ Dropped' = Dropped + n /\ Dropped \in Nat
      /\ Dropped = Len(grants) - Len(timestamps)
  BY <1>1, <1>2, <1>4, <1>5 DEF Dropped, LimiterInv, DequeIsRecentHistory
<1>9. \A i \in 1..(Dropped + n) : now >= grants[i] + Period
  BY EvictedLeftWindow
<1>10. Dropped + n <= Len(grants)
  BY <1>1, <1>2, <1>8
<1>11. DequeIsRecentHistory'
  <2>1. Len(timestamps') <= Len(grants') /\ Len(timestamps') <= MaxCalls
    BY <1>1, <1>2, <1>4, <1>5 DEF LimiterInv, DequeIsRecentHistory, rest
  <2>2. \A i \in 1..Len(timestamps') : timestamps'[i] = grants'[Dropped' + i]
    <3> SUFFICES ASSUME NEW i \in 1..Len(timestamps')
                 PROVE  timestamps'[i] = grants'[Dropped' + i]
      OBVIOUS
    <3>1. CASE i = Len(rest) + 1
      <4>1. Dropped' + i = Len(grants) + 1
        BY <1>2, <1>8, <3>1
      <4> QED
        BY <1>4, <1>5, <3>1, <4>1
    <3>2. CASE i \in 1..Len(rest)
      <4>0. i \in Nat /\ 1 <= i /\ i <= Len(rest)
        BY <1>2, <3>2
      <4> DEFINE l == Len(timestamps)
                 g == Len(grants)
                 r == Len(rest)
                 d == Dropped
      <4>5. /\ l \in Nat /\ g \in Nat /\ r \in Nat /\ n \in Nat /\ d \in Nat
            /\ r = l - n /\ d = g - l /\ i <= r
        BY <1>2, <1>8, <4>0
      <4>6. n + i \in 1..l /\ d + n + i \in 1..g
        <5> HIDE DEF l, g, r, d
        <5> QED BY <4>0, <4>5
      <4>1. n + i \in 1..Len(timestamps) /\ Dropped + n + i \in 1..Len(grants)
        BY <4>6
      <4>2. rest[i] = timestamps[n + i]
        BY <1>1, <3>2
      <4>3. timestamps[n + i] = grants[Dropped + (n + i)]
        BY <4>1 DEF LimiterInv, DequeIsRecentHistory
      <4>4. Dropped + (n + i) = Dropped + n + i /\ Dropped' + i = Dropped + n + i
        BY <1>2, <1>8, <4>0
      <4> QED
        BY <1>4, <1>5, <1>8, <3>2, <4>1, <4>2, <4>3, <4>4
    <3> QED
      BY <1>2, <1>5, <3>1, <3>2
  <2>3. \A i \in 1..Dropped' : now' >= grants'[i] + Period
    <3> SUFFICES ASSUME NEW i \in 1..Dropped'
                 PROVE  now' >= grants'[i] + Period
      OBVIOUS
    <3>1. i \in 1..(Dropped + n)
      BY <1>8
    <3>2. i \in 1..Len(grants)
      BY <1>2, <1>8, <1>10, <3>1
    <3> QED
      BY <1>4, <1>6, <1>9, <3>1, <3>2
  <2>4. \A i \in 1..Len(grants') : grants'[i] <= now'
    <3> SUFFICES ASSUME NEW i \in 1..Len(grants')
                 PROVE  grants'[i] <= now'
      OBVIOUS
    <3>1. i \in 1..Len(grants) \/ i = Len(grants) + 1
      BY <1>2, <1>4
    <3>2. CASE i \in 1..Len(grants)
      BY <1>4, <1>6, <3>2 DEF LimiterInv, DequeIsRecentHistory
    <3>3. CASE i = Len(grants) + 1
      BY <1>2, <1>4, <1>6, <3>3
    <3> QED
      BY <3>1, <3>2, <3>3
  <2>5. \A i, j \in 1..Len(grants') : i <= j => grants'[i] <= grants'[j]
    <3> SUFFICES ASSUME NEW i \in 1..Len(grants'), NEW j \in 1..Len(grants'), i <= j
                 PROVE  grants'[i] <= grants'[j]
      OBVIOUS
    <3>1. CASE j = Len(grants) + 1
      BY <1>4, <1>6, <2>4, <3>1
    <3>2. CASE j \in 1..Len(grants)
      <4>1. i \in 1..Len(grants)
        BY <1>2, <1>4, <3>2
      <4> QED
        BY <1>4, <3>2, <4>1 DEF LimiterInv, DequeIsRecentHistory
    <3> QED
      BY <1>2, <1>4, <3>1, <3>2
  <2> QED
    BY <1>6, <2>1, <2>2, <2>3, <2>4, <2>5 DEF DequeIsRecentHistory
<1>12. WindowLimit'
  <2> SUFFICES ASSUME NEW i \in 1..Len(grants'), i + MaxCalls <= Len(grants')
               PROVE  grants'[i + MaxCalls] - grants'[i] >= Period
    BY DEF WindowLimit
  <2>1. CASE i + MaxCalls <= Len(grants)
    <3>1. i \in 1..Len(grants) /\ i + MaxCalls \in 1..Len(grants)
      BY <1>2, <1>4, <2>1
    <3> QED
      BY <1>4, <2>1, <3>1 DEF LimiterInv, WindowLimit
  <2>2. CASE i + MaxCalls = Len(grants) + 1
    <3>0. i \in Nat /\ 1 <= i /\ Len(rest) < MaxCalls
      BY <1>2, <1>4 DEF rest
    <3>1. i \in 1..(Dropped + n) /\ i \in 1..Len(grants)
      BY <1>2, <1>8, <2>2, <3>0
    <3>2. grants'[i + MaxCalls] = now /\ grants'[i] = grants[i]
      BY <1>4, <2>2, <3>1
    <3>3. now >= grants[i] + Period /\ grants[i] \in Nat
      BY <1>3, <1>9, <3>1
    <3> QED
      BY <1>2, <3>2, <3>3
  <2>3. i + MaxCalls <= Len(grants) + 1 /\ i + MaxCalls \in Nat
    BY <1>2, <1>4
  <2>4. i + MaxCalls <= Len(grants) \/ i + MaxCalls = Len(grants) + 1
    <3>1. \A a, b \in Nat : a <= b + 1 => a <= b \/ a = b + 1
      OBVIOUS
    <3>2. Len(grants) \in Nat
      BY <1>2
    <3> HIDE DEF rest
    <3> QED
      BY <2>3, <3>1, <3>2
  <2> QED
    BY <2>1, <2>2, <2>4
<1> QED
  BY <1>7, <1>11, <1>12 DEF LimiterInv

\* A sleeper whose time is up finds its oldest entry expired, so there is room
\* although the code does not look again.
LEMMA RoomAfterSleep ==
  ASSUME LimiterInv, phase = "sleeping", now >= wakeAt,
         NEW n \in 0..Len(timestamps), Evicts(n)
  PROVE  Len(Without(n)) < MaxCalls
<1>1. /\ now \in Nat /\ timestamps \in Seq(Nat) /\ Len(timestamps) \in Nat
      /\ MaxCalls \in Nat \ {0} /\ Period \in Nat
  BY LenProperties, LimiterAssumption DEF LimiterInv, LimiterTypeOK
<1>2. Len(timestamps) = MaxCalls /\ wakeAt = timestamps[1] + Period
  BY DEF LimiterInv, DequeIsRecentHistory
<1>3. timestamps[1] \in Nat
  BY <1>1, <1>2, ElementOfSeq
<1>4. n # 0
  BY <1>1, <1>2, <1>3 DEF Evicts
<1>5. Len(Without(n)) = Len(timestamps) - n
  BY <1>1, WithoutProperties
<1> QED
  BY <1>1, <1>2, <1>4, <1>5

\* The invariant holds at the start.
LEMMA LimiterInitInv == LimiterInit => LimiterInv
<1> SUFFICES ASSUME LimiterInit PROVE LimiterInv
  OBVIOUS
<1>1. /\ timestamps = <<>> /\ grants = <<>> /\ now = 0 /\ wakeAt = 0 /\ phase = "idle"
      /\ Len(timestamps) = 0 /\ Len(grants) = 0
      /\ timestamps \in Seq(Nat) /\ grants \in Seq(Nat)
  BY EmptySeq DEF LimiterInit
<1>2. MaxCalls \in Nat \ {0}
  BY LimiterAssumption
<1> QED
  BY <1>1, <1>2 DEF LimiterInv, LimiterTypeOK, DequeIsRecentHistory, Dropped, WindowLimit

\* Every step of the limiter, and the clock at any time, keeps the invariant:
\* one case per action.
LEMMA LimiterStepInv ==
  LimiterInv /\ (GrantAtOnce \/ Sleep \/ Wake \/ Tick \/ UNCHANGED limiterVars)
    => LimiterInv'
<1> SUFFICES ASSUME LimiterInv,
                    GrantAtOnce \/ Sleep \/ Wake \/ Tick \/ UNCHANGED limiterVars
             PROVE  LimiterInv'
  OBVIOUS
<1> USE DEF LimiterInv, LimiterTypeOK
<1>0. /\ timestamps \in Seq(Nat) /\ Len(timestamps) \in Nat
      /\ grants \in Seq(Nat) /\ Len(grants) \in Nat
      /\ now \in Nat /\ wakeAt \in Nat
      /\ MaxCalls \in Nat \ {0} /\ Period \in Nat \ {0}
  BY LenProperties, LimiterAssumption
<1>1. CASE GrantAtOnce
  <2>1. PICK n \in 0..Len(timestamps) :
          Evicts(n) /\ Len(Without(n)) < MaxCalls /\ Return(Without(n))
    BY <1>1 DEF GrantAtOnce
  <2> QED
    BY <2>1, ReturnKeepsInv
<1>2. CASE Sleep
  <2>1. PICK n \in 0..Len(timestamps) :
          /\ Evicts(n)
          /\ Len(Without(n)) >= MaxCalls
          /\ timestamps' = Without(n)
          /\ wakeAt' = Without(n)[1] + Period
    BY <1>2 DEF Sleep
  <2>2. /\ Without(n) \in Seq(Nat) /\ Len(Without(n)) = Len(timestamps) - n
        /\ \A i \in 1..Len(Without(n)) : Without(n)[i] = timestamps[n + i]
    BY <1>0, WithoutProperties
  <2>3. Len(timestamps) <= MaxCalls
    BY DEF DequeIsRecentHistory
  <2>4. n = 0 /\ Len(Without(n)) = Len(timestamps) /\ Len(timestamps) = MaxCalls
    BY <1>0, <2>1, <2>2, <2>3
  <2>5. \A i \in 1..Len(timestamps) : Without(n)[i] = timestamps[i]
    BY <1>0, <2>2, <2>4
  <2>6. timestamps' = timestamps
    BY <1>0, <2>1, <2>2, <2>4, <2>5, SeqEqual
  <2>7. /\ phase' = "sleeping" /\ now' = now /\ grants' = grants
        /\ wakeAt' = timestamps[1] + Period /\ timestamps[1] \in Nat
    BY <1>0, <1>2, <2>1, <2>4, <2>6, ElementOfSeq DEF Sleep
  <2>8. LimiterTypeOK' /\ WindowLimit'
    BY <1>0, <2>6, <2>7 DEF WindowLimit
  <2>9. DequeIsRecentHistory'
    BY <2>4, <2>6, <2>7 DEF DequeIsRecentHistory, Dropped
  <2> QED
    BY <2>8, <2>9
<1>3. CASE Wake
  <2>1. PICK n \in 0..Len(timestamps) : Evicts(n) /\ Return(Without(n))
    BY <1>3 DEF Wake
  <2>2. Len(Without(n)) < MaxCalls
    BY <1>3, <2>1, RoomAfterSleep DEF Wake
  <2> QED
    BY <2>1, <2>2, ReturnKeepsInv
<1>4. CASE Tick
  <2>1. now' = now + 1 /\ UNCHANGED <<timestamps, phase, wakeAt, grants>>
    BY <1>4 DEF Tick
  <2>2. LimiterTypeOK' /\ WindowLimit'
    BY <1>0, <2>1 DEF WindowLimit
  <2>3. /\ \A i \in 1..Len(grants) : grants[i] \in Nat
        /\ Dropped \in Nat /\ Dropped <= Len(grants)
    BY <1>0, ElementOfSeq DEF DequeIsRecentHistory, Dropped
  <2>4. \A i \in 1..Len(grants) : grants[i] <= now + 1
    BY <1>0, <2>3 DEF DequeIsRecentHistory
  <2>5. \A i \in 1..Dropped : now + 1 >= grants[i] + Period
    <3> SUFFICES ASSUME NEW i \in 1..Dropped PROVE now + 1 >= grants[i] + Period
      OBVIOUS
    <3>1. now >= grants[i] + Period
      BY DEF DequeIsRecentHistory
    <3>2. grants[i] \in Nat
      BY <1>0, <2>3
    <3> QED
      BY <1>0, <3>1, <3>2
  <2>6. Dropped' = Dropped
    BY <2>1 DEF Dropped
  <2>7. DequeIsRecentHistory'
    BY <2>1, <2>4, <2>5, <2>6 DEF DequeIsRecentHistory
  <2> QED
    BY <2>2, <2>7
<1>5. CASE UNCHANGED limiterVars
  BY <1>5 DEF limiterVars, DequeIsRecentHistory, Dropped, WindowLimit
<1> QED
  BY <1>1, <1>2, <1>3, <1>4, <1>5

LEMMA LimiterNextInv == LimiterInv /\ [LimiterNext]_limiterVars => LimiterInv'
  BY LimiterStepInv DEF LimiterNext, Advance, Done

\* The limiter's state keeps its shape and the deque stays the recent end of
\* the history of calls (_call_timestamps, _evict_expired).
THEOREM LimiterInvariant == LimiterSpec => []LimiterInv
<1> QED
  BY LimiterInitInv, LimiterNextInv, PTL DEF LimiterSpec

\* The class docstring: at most max_calls calls of wait_if_needed return within
\* any window, over the whole history of the process.
THEOREM LimiterWindow == LimiterSpec => [](LimiterTypeOK /\ WindowLimit)
<1>1. LimiterInv => LimiterTypeOK /\ WindowLimit
  BY DEF LimiterInv
<1> QED
  BY <1>1, LimiterInvariant, PTL

\* wait_if_needed blocks a caller only when MaxCalls calls fall in the window
\* that stays open until it wakes.
THEOREM LimiterWaitsForCause == LimiterSpec => []NoNeedlessWait
<1>1. LimiterInv => NoNeedlessWait
  <2> SUFFICES ASSUME LimiterInv, phase = "sleeping" PROVE
          /\ Len(grants) >= MaxCalls
          /\ \A i \in (Len(grants) - MaxCalls + 1)..Len(grants) :
               grants[i] + Period >= wakeAt
    BY DEF NoNeedlessWait
  <2>1. /\ Len(timestamps) = MaxCalls /\ wakeAt = timestamps[1] + Period
        /\ Len(timestamps) <= Len(grants) /\ timestamps[1] = grants[Dropped + 1]
        /\ Len(grants) \in Nat /\ MaxCalls \in Nat \ {0} /\ Period \in Nat
    BY LenProperties, LimiterAssumption
       DEF LimiterInv, LimiterTypeOK, DequeIsRecentHistory
  <2>2. Dropped = Len(grants) - MaxCalls
    BY <2>1 DEF Dropped
  <2> SUFFICES ASSUME NEW i \in (Len(grants) - MaxCalls + 1)..Len(grants)
               PROVE  grants[i] + Period >= wakeAt
    BY <2>1
  <2>3. Dropped + 1 \in 1..Len(grants) /\ i \in 1..Len(grants) /\ Dropped + 1 <= i
    BY <2>1, <2>2
  <2>4. grants[Dropped + 1] <= grants[i]
    BY <2>3 DEF LimiterInv, DequeIsRecentHistory
  <2>5. grants[i] \in Nat /\ grants[Dropped + 1] \in Nat
    BY <2>3, ElementOfSeq DEF LimiterInv, LimiterTypeOK
  <2> QED
    BY <2>1, <2>4, <2>5
<1> QED
  BY <1>1, LimiterInvariant, PTL

\* With fewer than MaxCalls entries left after the eviction, fewer than MaxCalls
\* calls of the whole history lie in the window.
LEMMA RoomInDequeIsRoomInWindow ==
  ASSUME LimiterInv, NEW n \in 0..Len(timestamps), Evicts(n),
         Len(Without(n)) < MaxCalls
  PROVE  Cardinality(Window!Recent) < MaxCalls
<1> DEFINE first == Dropped + n + 1
           kept  == first..Len(grants)
<1>1. /\ now \in Nat /\ Len(timestamps) \in Nat /\ Len(grants) \in Nat /\ n \in Nat
      /\ timestamps \in Seq(Nat) /\ grants \in Seq(Nat)
      /\ Period \in Nat /\ MaxCalls \in Nat \ {0}
  BY LenProperties, LimiterAssumption DEF LimiterInv, LimiterTypeOK
<1>2. Dropped \in Nat /\ Dropped = Len(grants) - Len(timestamps)
  BY <1>1 DEF Dropped, LimiterInv, DequeIsRecentHistory
<1>3. Window!Recent \subseteq kept
  <2> SUFFICES ASSUME NEW i \in Window!Recent PROVE i \in kept
    OBVIOUS
  <2>1. i \in 1..Len(grants) /\ now - grants[i] < Period
    BY DEF Window!Recent
  <2>2. grants[i] \in Nat
    BY <1>1, <2>1, ElementOfSeq
  <2>3. ~(now >= grants[i] + Period)
    BY <1>1, <2>1, <2>2
  <2>4. i \notin 1..(Dropped + n)
    BY <2>3, EvictedLeftWindow
  <2> QED
    BY <1>1, <1>2, <2>1, <2>4
<1>4. IsFiniteSet(kept) /\ Cardinality(kept) =
        IF first > Len(grants) THEN 0 ELSE Len(grants) - first + 1
  <2>1. first \in Int /\ Len(grants) \in Int
    BY <1>1, <1>2
  <2> HIDE DEF first
  <2> QED
    BY <2>1, FS_Interval
<1>5. Len(Without(n)) = Len(timestamps) - n
  BY <1>1, WithoutProperties
<1>6. Cardinality(kept) < MaxCalls
  <2> DEFINE g == Len(grants)
             l == Len(timestamps)
             d == Dropped
             c == Cardinality(kept)
  <2>1. /\ g \in Nat /\ l \in Nat /\ d \in Nat /\ n \in Nat /\ n <= l /\ d = g - l
        /\ l - n < MaxCalls /\ MaxCalls \in Nat
        /\ c = IF d + n + 1 > g THEN 0 ELSE g - (d + n + 1) + 1
    BY <1>1, <1>2, <1>4, <1>5
  <2>2. c < MaxCalls
    <3> HIDE DEF g, l, d, c
    <3> QED BY <1>1, <2>1
  <2> QED
    BY <2>2
<1>7. IsFiniteSet(kept) /\ Window!Recent \in SUBSET kept
  BY <1>3, <1>4
<1>8. IsFiniteSet(Window!Recent) /\ Cardinality(Window!Recent) <= Cardinality(kept)
  <2> HIDE DEF kept
  <2> QED BY <1>7, FS_Subset
<1>9. Cardinality(Window!Recent) \in Nat /\ Cardinality(kept) \in Nat
  BY <1>4, <1>8, FS_CardinalityType
<1> QED
  BY <1>1, <1>6, <1>8, <1>9

\* Every step of the limiter is a step of the sliding window or a stutter: only
\* the return of wait_if_needed is a call, and it finds the window open.
LEMMA LimiterStepSimulation ==
  LimiterInv /\ [LimiterNext]_limiterVars => [Window!Next]_(Window!vars)
<1> SUFFICES ASSUME LimiterInv, [LimiterNext]_limiterVars
             PROVE  [Window!Next]_(Window!vars)
  OBVIOUS
<1>1. ASSUME NEW n \in 0..Len(timestamps), Evicts(n), Len(Without(n)) < MaxCalls,
             Return(Without(n))
      PROVE  Window!Call
  <2>1. Cardinality(Window!Recent) < MaxCalls
    BY <1>1, RoomInDequeIsRoomInWindow
  <2>2. Window!Cardinality(Window!Recent) = Cardinality(Window!Recent)
    BY DEF Cardinality, Window!Cardinality
  <2> QED
    BY <1>1, <2>1, <2>2 DEF Return, Window!Call
<1>2. CASE GrantAtOnce
  BY <1>1, <1>2 DEF GrantAtOnce, Window!Next
<1>3. CASE Wake
  BY <1>1, <1>3, RoomAfterSleep DEF Wake, Window!Next
<1>4. CASE Advance
  BY <1>4 DEF Advance, Tick, Window!Advance, Window!Next
<1>5. CASE Sleep \/ Done \/ UNCHANGED limiterVars
  BY <1>5 DEF Sleep, Done, limiterVars, Window!vars
<1> QED
  BY <1>2, <1>3, <1>4, <1>5 DEF LimiterNext

\* The limiter implements the sliding-window promise its docstring makes.
THEOREM LimiterRefinesWindow == LimiterSpec => ImplementsWindow
<1>1. LimiterInit => Window!Init
  BY DEF LimiterInit, Window!Init
<1> QED
  BY <1>1, LimiterStepSimulation, LimiterInvariant, PTL
     DEF LimiterSpec, ImplementsWindow, Window!Spec

-----------------------------------------------------------------------------
(* The client *)

\* What a step of the client does to the limiter below it.
LEMMA ClientMovesLimiter ==
  ASSUME [Next]_allVars
  PROVE  GrantAtOnce \/ Sleep \/ Wake \/ Tick \/ UNCHANGED limiterVars
BY DEF Next, allVars, StartRequest, LimiterSleeps, LimiterGrants, Arrive,
       ArriveOverdue, NetworkError, Respond, Resume, ClientAdvance, Stop

\* A grant is stamped with the present time and sends the caller off.
LEMMA GrantAppends ==
  ASSUME LimiterInv, GrantAtOnce \/ Wake
  PROVE  /\ grants' = Append(grants, now)
         /\ now' = now /\ phase' = "idle"
         /\ grants \in Seq(Nat) /\ now \in Nat
         /\ Len(grants) \in Nat /\ Len(grants') = Len(grants) + 1
         /\ grants'[Len(grants) + 1] = now
         /\ \A i \in 1..Len(grants) : grants'[i] = grants[i]
<1>1. grants' = Append(grants, now) /\ now' = now /\ phase' = "idle"
  BY DEF GrantAtOnce, Wake, Return
<1>2. grants \in Seq(Nat) /\ now \in Nat
  BY DEF LimiterInv, LimiterTypeOK
<1> QED
  BY <1>1, <1>2, AppendProperties, LenProperties

\* Every other step of the client leaves the history of grants alone.
LEMMA OtherStepsKeepGrants ==
  ASSUME [Next]_allVars, ~LimiterGrants
  PROVE  grants' = grants
BY DEF Next, allVars, limiterVars, StartRequest, LimiterSleeps, Sleep, Arrive,
       ArriveOverdue, NetworkError, Respond, Resume, ClientAdvance, Tick, Stop

LEMMA ClientInitInv == Init => ClientInv
<1> SUFFICES ASSUME Init PROVE ClientInv
  OBVIOUS
<1>1. LimiterInv
  BY LimiterInitInv DEF Init
<1>2. /\ pc = "idle" /\ attempt = 1 /\ resumeAt = 0
      /\ astray = 0 /\ arrivals = <<>> /\ attempts = <<>> /\ grants = <<>> /\ phase = "idle"
      /\ Len(arrivals) = 0 /\ Len(attempts) = 0 /\ Len(grants) = 0
  BY DEF Init, LimiterInit
<1>3. /\ arrivals \in Seq([at : Nat, overdue : BOOLEAN])
      /\ attempts \in Seq(1..MaxAttempts)
  BY <1>2, EmptySeq
<1>4. ClientTypeOK
  BY <1>1, <1>2, <1>3, ClientAssumption DEF ClientTypeOK, LimiterInv
<1>5. RetriesFollowAttempts /\ RetriesAreSpaced
  BY <1>2 DEF RetriesFollowAttempts, RetriesAreSpaced
<1>6. ArrivalsFollowGrants
  <2>1. Timely = {}
    BY <1>2 DEF Timely
  <2>2. [k \in Timely |-> 1] \in [Timely -> 1..Len(grants)]
    BY <2>1
  <2>3. ArrivesBeforeNextGrant([k \in Timely |-> 1])
    BY <1>2, <2>1 DEF ArrivesBeforeNextGrant
  <2> QED
    BY <1>2, <2>2, <2>3 DEF ArrivalsFollowGrants
<1>7. ServerSeesWindow
  BY <1>2 DEF ServerSeesWindow
<1> QED
  BY <1>1, <1>4, <1>5, <1>6, <1>7 DEF ClientInv

\* The numbers the following lemmas are about.
LEMMA ArrivalNumbers ==
  ASSUME LimiterInv, ClientTypeOK, ArrivalsFollowGrants
  PROVE  /\ now \in Nat /\ Len(arrivals) \in Nat /\ Len(grants) \in Nat
         /\ arrivals \in Seq([at : Nat, overdue : BOOLEAN]) /\ grants \in Seq(Nat)
         /\ \A k \in 1..Len(arrivals) :
              arrivals[k].at \in Nat /\ arrivals[k].at <= now
         /\ \A i \in 1..Len(grants) : grants[i] \in Nat /\ grants[i] <= now
         /\ MaxCalls \in Nat \ {0} /\ Period \in Nat \ {0}
<1>1. \A k \in 1..Len(arrivals) : arrivals[k] \in [at : Nat, overdue : BOOLEAN]
  BY ElementOfSeq DEF ClientTypeOK
<1> QED
  BY <1>1, LenProperties, ElementOfSeq, LimiterAssumption
     DEF ClientTypeOK, ArrivalsFollowGrants, LimiterInv, LimiterTypeOK,
         DequeIsRecentHistory

\* One call more has arrived.
LEMMA ArrivalAppends ==
  ASSUME ClientInv, NEW new, new \in [at : Nat, overdue : BOOLEAN],
         arrivals' = Append(arrivals, new)
  PROVE  /\ arrivals' \in Seq([at : Nat, overdue : BOOLEAN])
         /\ Len(arrivals') = Len(arrivals) + 1
         /\ arrivals'[Len(arrivals) + 1] = new
         /\ \A k \in 1..Len(arrivals) : arrivals'[k] = arrivals[k]
         /\ new.overdue => Timely' = Timely
         /\ ~new.overdue => Timely' = Timely \cup {Len(arrivals) + 1}
<1>1. /\ arrivals \in Seq([at : Nat, overdue : BOOLEAN])
      /\ Len(arrivals) \in Nat
  BY ArrivalNumbers DEF ClientInv
<1>2. /\ arrivals' \in Seq([at : Nat, overdue : BOOLEAN])
      /\ Len(arrivals') = Len(arrivals) + 1
      /\ arrivals'[Len(arrivals) + 1] = new
      /\ \A k \in 1..Len(arrivals) : arrivals'[k] = arrivals[k]
  BY <1>1, AppendProperties
<1>3. 1..(Len(arrivals) + 1) = 1..Len(arrivals) \cup {Len(arrivals) + 1}
  BY <1>1
<1>4. Timely' = {k \in 1..Len(arrivals) \cup {Len(arrivals) + 1} : ~arrivals'[k].overdue}
  BY <1>2, <1>3 DEF Timely
<1>5. new.overdue => Timely' = Timely
  BY <1>2, <1>4 DEF Timely
<1>6. ~new.overdue => Timely' = Timely \cup {Len(arrivals) + 1}
  BY <1>2, <1>4 DEF Timely
<1> QED
  BY <1>2, <1>5, <1>6

\* What arrives is stamped with the present time.
LEMMA ArrivalIsNow ==
  ASSUME ClientInv
  PROVE  /\ Arrival(TRUE) \in [at : Nat, overdue : BOOLEAN]
         /\ Arrival(FALSE) \in [at : Nat, overdue : BOOLEAN]
         /\ Arrival(TRUE).at = now /\ Arrival(FALSE).at = now
         /\ Arrival(TRUE).overdue /\ ~Arrival(FALSE).overdue
BY DEF ClientInv, LimiterInv, LimiterTypeOK, Arrival

-----------------------------------------------------------------------------
(* Types *)

LEMMA ClientStepType == ClientInv /\ [Next]_allVars => LimiterInv' /\ ClientTypeOK'
<1> SUFFICES ASSUME ClientInv, [Next]_allVars PROVE LimiterInv' /\ ClientTypeOK'
  OBVIOUS
<1>1. LimiterInv'
  BY ClientMovesLimiter, LimiterStepInv DEF ClientInv
<1>2. /\ pc \in {"idle", "limiter", "sending", "underway", "backoff"}
      /\ attempt \in 1..MaxAttempts /\ resumeAt \in Nat
      /\ astray \in Nat /\ arrivals \in Seq([at : Nat, overdue : BOOLEAN])
      /\ attempts \in Seq(1..MaxAttempts)
      /\ phase = "sleeping" => pc = "limiter"
      /\ phase \in {"idle", "sleeping"} /\ now \in Nat
      /\ MaxAttempts \in Nat \ {0} /\ Backoff \in Nat /\ LimiterInv
  BY ClientAssumption DEF ClientInv, ClientTypeOK, LimiterTypeOK
<1>3. LimiterTypeOK'
  BY <1>1 DEF LimiterInv
<1>4. now + Backoff * attempt \in Nat
  <2>1. now \in Nat /\ Backoff \in Nat /\ attempt \in Nat
    BY <1>2
  <2> QED
    BY <2>1
<1> USE DEF ClientTypeOK
<1>5. CASE StartRequest
  BY <1>1, <1>2, <1>3, <1>5 DEF StartRequest, limiterVars
<1>6. CASE LimiterSleeps
  BY <1>1, <1>2, <1>3, <1>6 DEF LimiterSleeps, clientVars
<1>7. CASE LimiterGrants
  <2>1. attempts' = Append(attempts, attempt)
    BY <1>7 DEF LimiterGrants
  <2>2. attempts' \in Seq(1..MaxAttempts)
    BY <1>2, <2>1, AppendProperties
  <2>3. phase' = "idle"
    BY <1>2, <1>7, GrantAppends DEF LimiterGrants
  <2> QED
    BY <1>1, <1>2, <1>3, <1>7, <2>2, <2>3 DEF LimiterGrants
<1>8. CASE Arrive
  <2>1. arrivals' \in Seq([at : Nat, overdue : BOOLEAN])
    BY <1>8, ArrivalIsNow, ArrivalAppends DEF Arrive
  <2> QED
    BY <1>1, <1>2, <1>3, <1>8, <2>1 DEF Arrive, limiterVars
<1>13. CASE ArriveOverdue
  <2>1. arrivals' \in Seq([at : Nat, overdue : BOOLEAN])
    BY <1>13, ArrivalIsNow, ArrivalAppends DEF ArriveOverdue
  <2>2. astray' \in Nat
    BY <1>2, <1>13 DEF ArriveOverdue
  <2> QED
    BY <1>1, <1>2, <1>3, <1>13, <2>1, <2>2 DEF ArriveOverdue, limiterVars
<1>9. CASE NetworkError \/ Respond
  BY <1>1, <1>2, <1>3, <1>4, <1>9 DEF NetworkError, Respond, BackOff, Finish, limiterVars
<1>10. CASE Resume
  <2>1. attempt < MaxAttempts
    BY <1>2, <1>10 DEF Resume, ClientInv, RetriesFollowAttempts
  <2> QED
    BY <1>1, <1>2, <1>3, <1>10, <2>1 DEF Resume, limiterVars
<1>11. CASE ClientAdvance
  BY <1>1, <1>2, <1>3, <1>11 DEF ClientAdvance, Tick, clientVars
<1>12. CASE Stop \/ UNCHANGED allVars
  BY <1>1, <1>2, <1>3, <1>12 DEF Stop, allVars, clientVars, limiterVars
<1> QED
  BY <1>1, <1>5, <1>6, <1>7, <1>8, <1>9, <1>10, <1>11, <1>12, <1>13 DEF Next

-----------------------------------------------------------------------------
(* The distance of retries *)

\* A grant was made in the past.
LEMMA LastGrantIsPast ==
  ASSUME LimiterInv, grants # <<>>
  PROVE  LastGrant \in Nat /\ LastGrant <= now /\ Len(grants) \in 1..Len(grants)
<1>1. grants \in Seq(Nat) /\ Len(grants) \in Nat /\ Len(grants) # 0
  BY LenProperties, EmptySeq DEF LimiterInv, LimiterTypeOK
<1>2. Len(grants) \in 1..Len(grants)
  BY <1>1
<1> QED
  BY <1>1, <1>2, ElementOfSeq DEF LastGrant, LimiterInv, DequeIsRecentHistory

\* The grant of a retry: what the request has waited is part of the distance.
LEMMA GrantKeepsSpacing ==
  ASSUME ClientInv, LimiterGrants
  PROVE  RetriesFollowAttempts' /\ RetriesAreSpaced'
<1> DEFINE n == Len(grants)
<1>1. /\ LimiterInv /\ pc = "limiter" /\ pc' = "sending"
      /\ attempts' = Append(attempts, attempt) /\ attempt' = attempt
      /\ RetriesFollowAttempts /\ RetriesAreSpaced
      /\ attempts \in Seq(1..MaxAttempts) /\ attempt \in 1..MaxAttempts
      /\ MaxAttempts \in Nat /\ Backoff \in Nat
  BY ClientAssumption DEF LimiterGrants, ClientInv, ClientTypeOK
<1>2. /\ grants \in Seq(Nat) /\ now \in Nat /\ n \in Nat /\ Len(grants') = n + 1
      /\ grants'[n + 1] = now
      /\ \A i \in 1..n : grants'[i] = grants[i]
  BY <1>1, GrantAppends DEF LimiterGrants
<1>3. Len(attempts) = n
  BY <1>1 DEF RetriesFollowAttempts
<1>4. /\ attempts' \in Seq(1..MaxAttempts) /\ Len(attempts') = n + 1
      /\ attempts'[n + 1] = attempt
      /\ \A i \in 1..n : attempts'[i] = attempts[i]
  BY <1>1, <1>3, AppendProperties
<1>5. attempts' # <<>>
  BY <1>2, <1>4, EmptySeq
<1>6. RetriesFollowAttempts'
  BY <1>1, <1>2, <1>4, <1>5 DEF RetriesFollowAttempts
<1>7. ASSUME NEW i \in 1..n, attempts'[i + 1] # 1
      PROVE  /\ attempts'[i + 1] = attempts'[i] + 1
             /\ grants'[i + 1] - grants'[i] >= Backoff * attempts'[i]
  <2>1. CASE i = n
    <3>1. attempt # 1 /\ i \in 1..n /\ attempts'[i] = attempts[n]
      BY <1>2, <1>4, <1>7, <2>1
    <3>2. /\ attempts[n] = attempt - 1
          /\ now >= grants[n] + Backoff * (attempt - 1)
      BY <1>1, <1>3, <3>1 DEF RetriesFollowAttempts, LastGrant
    <3>3. grants'[i] = grants[n] /\ grants[n] \in Nat
      BY <1>2, <2>1, ElementOfSeq
    <3>4. Backoff * (attempt - 1) \in Nat
      BY <1>1
    <3>5. now - grants[n] >= Backoff * (attempt - 1)
      BY <1>2, <3>2, <3>3, <3>4
    <3> QED
      BY <1>1, <1>2, <1>4, <2>1, <3>1, <3>2, <3>3, <3>5
  <2>2. CASE i \in 1..(n - 1)
    <3>1. i \in 1..n /\ i + 1 \in 1..n
      BY <1>2, <2>2
    <3>2. attempts[i + 1] # 1
      BY <1>4, <1>7, <3>1
    <3>3. /\ attempts[i + 1] = attempts[i] + 1
          /\ grants[i + 1] - grants[i] >= Backoff * attempts[i]
      BY <1>1, <1>3, <2>2, <3>2 DEF RetriesAreSpaced
    <3> QED
      BY <1>2, <1>4, <3>1, <3>3
  <2> QED
    BY <1>2, <2>1, <2>2
<1>8. Len(attempts') - 1 = n
  BY <1>2, <1>4
<1> QED
  BY <1>6, <1>7, <1>8 DEF RetriesAreSpaced

LEMMA SpacingStep ==
  ClientInv /\ [Next]_allVars => RetriesFollowAttempts' /\ RetriesAreSpaced'
<1> SUFFICES ASSUME ClientInv, [Next]_allVars
             PROVE  RetriesFollowAttempts' /\ RetriesAreSpaced'
  OBVIOUS
<1>1. CASE LimiterGrants
  BY <1>1, GrantKeepsSpacing
<1>2. CASE ~LimiterGrants
  <2>1. grants' = grants /\ attempts' = attempts
    BY <1>2, OtherStepsKeepGrants
       DEF Next, allVars, clientVars, StartRequest, LimiterSleeps, Arrive,
           ArriveOverdue, NetworkError, Respond, Resume, ClientAdvance, Stop
  <2>2. /\ RetriesAreSpaced /\ RetriesFollowAttempts /\ LimiterInv
        /\ attempt \in 1..MaxAttempts /\ resumeAt \in Nat /\ now \in Nat
        /\ MaxAttempts \in Nat \ {0} /\ Backoff \in Nat
        /\ Len(attempts) = Len(grants)
        /\ attempts \in Seq(1..MaxAttempts) /\ grants \in Seq(Nat)
    BY ClientAssumption DEF ClientInv, ClientTypeOK, RetriesFollowAttempts,
       LimiterInv, LimiterTypeOK
  <2>3. RetriesAreSpaced'
    BY <2>1, <2>2 DEF RetriesAreSpaced
  <2>4. LastGrant' = LastGrant
    BY <2>1 DEF LastGrant
  <2>5. attempts # <<>> => LastGrant \in Nat /\ LastGrant <= now
    BY <2>2, LastGrantIsPast, EmptySeq
  <2>6. Backoff * attempt \in Nat /\ Backoff * (attempt - 1) \in Nat
    BY <2>2
  <2> SUFFICES RetriesFollowAttempts'
    BY <2>3
  <2> USE DEF RetriesFollowAttempts
  <2>7. CASE StartRequest
    BY <2>1, <2>2, <2>7 DEF StartRequest
  <2>8. CASE LimiterSleeps
    BY <2>1, <2>2, <2>4, <2>8 DEF LimiterSleeps, Sleep, clientVars
  <2>9. CASE Arrive \/ ArriveOverdue
    BY <2>1, <2>2, <2>4, <2>9 DEF Arrive, ArriveOverdue, limiterVars
  <2>10. CASE NetworkError \/ Respond
    <3>1. /\ pc' \in {"idle", "backoff"} /\ attempt' = attempt
          /\ attempts # <<>> /\ attempts[Len(attempts)] = attempt
          /\ pc' = "backoff" =>
               attempt < MaxAttempts /\ resumeAt' = now + Backoff * attempt
      BY <2>2, <2>10 DEF NetworkError, Respond, BackOff, Finish
    <3>2. \A wait \in Nat : now + wait >= LastGrant + wait
      BY <2>2, <2>5, <3>1
    <3> QED
      BY <2>1, <2>2, <2>4, <2>6, <3>1, <3>2
  <2>11. CASE Resume
    <3>1. /\ attempts # <<>> /\ attempts[Len(attempts)] = attempt
          /\ resumeAt >= LastGrant + Backoff * attempt /\ now >= resumeAt
          /\ attempt' = attempt + 1 /\ now' = now /\ pc' = "limiter"
      BY <2>2, <2>11 DEF Resume, limiterVars
    <3>2. now >= LastGrant + Backoff * attempt
      BY <2>2, <2>5, <2>6, <3>1
    <3>3. attempt' - 1 = attempt
      BY <2>2, <3>1
    <3> QED
      BY <2>1, <2>2, <2>4, <3>1, <3>2, <3>3
  <2>12. CASE ClientAdvance
    <3>1. now' = now + 1 /\ pc' = pc /\ attempt' = attempt /\ resumeAt' = resumeAt
      BY <2>12 DEF ClientAdvance, Tick, clientVars
    <3>2. attempts # <<>> /\ now >= LastGrant + Backoff * (attempt - 1)
            => now + 1 >= LastGrant + Backoff * (attempt - 1)
      BY <2>2, <2>5, <2>6
    <3> QED
      BY <2>1, <2>2, <2>4, <3>1, <3>2
  <2>13. CASE Stop \/ UNCHANGED allVars
    BY <2>1, <2>2, <2>4, <2>13 DEF Stop, allVars, clientVars, limiterVars
  <2> QED
    BY <1>2, <2>3, <2>7, <2>8, <2>9, <2>10, <2>11, <2>12, <2>13 DEF Next
<1> QED
  BY <1>1, <1>2

-----------------------------------------------------------------------------
(* Arrivals against grants *)

\* A new grant comes after every call that has arrived.
LEMMA GrantKeepsArrivals ==
  ASSUME ClientInv, LimiterGrants
  PROVE  ArrivalsFollowGrants'
<1> DEFINE n == Len(grants)
<1>1. /\ now \in Nat /\ n \in Nat
      /\ \A k \in 1..Len(arrivals) : arrivals[k].at \in Nat /\ arrivals[k].at <= now
      /\ \A k \in Timely : k \in 1..Len(arrivals)
  BY ArrivalNumbers DEF ClientInv, Timely
<1>2. /\ arrivals' = arrivals /\ Timely' = Timely
      /\ now' = now /\ Len(grants') = n + 1
      /\ grants'[n + 1] = now
      /\ \A i \in 1..n : grants'[i] = grants[i]
  BY GrantAppends DEF LimiterGrants, ClientInv, Timely
<1>3. PICK sent \in [Timely -> 1..n] : ArrivesBeforeNextGrant(sent)
  BY DEF ClientInv, ArrivalsFollowGrants
<1>4. sent \in [Timely -> 1..(n + 1)]
  BY <1>1, <1>3
<1>5. \A k \in Timely : sent[k] \in 1..n
  BY <1>3
<1>6. \A k \in Timely : sent[k] < n + 1 => arrivals[k].at <= grants'[sent[k] + 1]
  <2> SUFFICES ASSUME NEW k \in Timely PROVE arrivals[k].at <= grants'[sent[k] + 1]
    OBVIOUS
  <2>1. CASE sent[k] = n
    BY <1>1, <1>2, <2>1
  <2>2. CASE sent[k] < n
    <3>1. arrivals[k].at <= grants[sent[k] + 1]
      BY <1>3, <2>2 DEF ArrivesBeforeNextGrant
    <3>2. sent[k] + 1 \in 1..n
      BY <1>1, <1>5, <2>2
    <3> QED
      BY <1>2, <3>1, <3>2
  <2> QED
    BY <1>1, <1>5, <2>1, <2>2
<1>7. grants' # <<>>
  BY <1>1, <1>2, EmptySeq
<1>8. \A k \in Timely : sent[k] < n + 1
  BY <1>1, <1>5
<1>9. \A k, l \in Timely : k < l => sent[k] < sent[l]
  BY <1>3 DEF ArrivesBeforeNextGrant
<1>10. ArrivesBeforeNextGrant(sent)'
  BY <1>2, <1>6, <1>7, <1>8, <1>9 DEF ArrivesBeforeNextGrant
<1> QED
  BY <1>1, <1>2, <1>4, <1>10 DEF ArrivalsFollowGrants

\* A call arrives with the newest grant as its own.
LEMMA ArrivalKeepsArrivals ==
  ASSUME ClientInv, Arrive
  PROVE  ArrivalsFollowGrants'
<1> DEFINE a == Len(arrivals)
           n == Len(grants)
<1>1. /\ now \in Nat /\ a \in Nat /\ n \in Nat /\ grants \in Seq(Nat)
      /\ \A k \in 1..a : arrivals[k].at \in Nat /\ arrivals[k].at <= now
      /\ \A k \in Timely : k \in 1..a
  BY ArrivalNumbers DEF ClientInv, Timely
<1>2. /\ pc = "sending" /\ pc' = "underway" /\ now' = now /\ grants' = grants
      /\ arrivals' = Append(arrivals, Arrival(FALSE))
  BY DEF Arrive, limiterVars
<1>3. /\ Len(arrivals') = a + 1 /\ arrivals'[a + 1].at = now
      /\ \A k \in 1..a : arrivals'[k] = arrivals[k]
      /\ Timely' = Timely \cup {a + 1}
  BY <1>2, ArrivalIsNow, ArrivalAppends
<1>4. PICK sent \in [Timely -> 1..n] : ArrivesBeforeNextGrant(sent)
  BY DEF ClientInv, ArrivalsFollowGrants
<1>5. /\ n \in 1..n
      /\ \A k \in Timely : sent[k] \in 1..n /\ sent[k] < n
      /\ \A k, l \in Timely : k < l => sent[k] < sent[l]
  <2>1. grants # <<>>
    BY <1>2, <1>4 DEF ArrivesBeforeNextGrant
  <2>2. n # 0
    BY <1>1, <2>1, EmptySeq
  <2>3. n \in 1..n
    BY <1>1, <2>2
  <2> QED
    BY <1>2, <1>4, <2>3 DEF ArrivesBeforeNextGrant
<1>6. a + 1 \notin Timely /\ \A k \in Timely : k < a + 1
  BY <1>1
<1>7. PICK extended \in [Timely \cup {a + 1} -> 1..n] :
        extended[a + 1] = n /\ \A k \in Timely : extended[k] = sent[k]
  <2> DEFINE longer == [k \in Timely \cup {a + 1} |-> IF k = a + 1 THEN n ELSE sent[k]]
  <2>1. /\ longer \in [Timely \cup {a + 1} -> 1..n]
        /\ longer[a + 1] = n /\ \A k \in Timely : longer[k] = sent[k]
    BY <1>5, <1>6
  <2> HIDE DEF longer
  <2> QED
    BY <2>1
<1>8. \A k, l \in Timely \cup {a + 1} : k < l => extended[k] < extended[l]
  <2> SUFFICES ASSUME NEW k \in Timely \cup {a + 1}, NEW l \in Timely \cup {a + 1}, k < l
               PROVE  extended[k] < extended[l]
    OBVIOUS
  <2>1. k \in Timely
    BY <1>1, <1>6
  <2>2. CASE l \in Timely
    BY <1>5, <1>7, <2>1, <2>2
  <2>3. CASE l = a + 1
    BY <1>5, <1>7, <2>1, <2>3
  <2> QED
    BY <2>2, <2>3
<1>9. \A k \in Timely \cup {a + 1} :
        extended[k] < n => arrivals'[k].at <= grants[extended[k] + 1]
  <2> SUFFICES ASSUME NEW k \in Timely \cup {a + 1}, extended[k] < n
               PROVE  arrivals'[k].at <= grants[extended[k] + 1]
    OBVIOUS
  <2>1. k \in Timely
    BY <1>1, <1>7
  <2>2. arrivals[k].at <= grants[sent[k] + 1]
    BY <1>4, <1>7, <2>1 DEF ArrivesBeforeNextGrant
  <2> QED
    BY <1>1, <1>3, <1>7, <2>1, <2>2
<1>10. ArrivesBeforeNextGrant(extended)'
  BY <1>2, <1>3, <1>8, <1>9 DEF ArrivesBeforeNextGrant
<1>11. \A k \in 1..(a + 1) : arrivals'[k].at <= now
  BY <1>1, <1>3
<1> QED
  BY <1>2, <1>3, <1>7, <1>10, <1>11 DEF ArrivalsFollowGrants

\* A call that comes too late concerns none of the others.
LEMMA OverdueKeepsArrivals ==
  ASSUME ClientInv, ArriveOverdue
  PROVE  ArrivalsFollowGrants'
<1> DEFINE a == Len(arrivals)
<1>1. /\ now \in Nat /\ a \in Nat
      /\ \A k \in 1..a : arrivals[k].at \in Nat /\ arrivals[k].at <= now
      /\ \A k \in Timely : k \in 1..a
  BY ArrivalNumbers DEF ClientInv, Timely
<1>2. pc' = pc /\ now' = now /\ grants' = grants
  BY DEF ArriveOverdue, limiterVars
<1>3. /\ Len(arrivals') = a + 1 /\ arrivals'[a + 1].at = now
      /\ \A k \in 1..a : arrivals'[k] = arrivals[k]
      /\ Timely' = Timely
  BY ArrivalIsNow, ArrivalAppends DEF ArriveOverdue
<1>4. PICK sent \in [Timely -> 1..Len(grants)] : ArrivesBeforeNextGrant(sent)
  BY DEF ClientInv, ArrivalsFollowGrants
<1>5. ArrivesBeforeNextGrant(sent)'
  BY <1>1, <1>2, <1>3, <1>4 DEF ArrivesBeforeNextGrant
<1>6. \A k \in 1..(a + 1) : arrivals'[k].at <= now
  BY <1>1, <1>3
<1> QED
  BY <1>2, <1>3, <1>4, <1>5, <1>6 DEF ArrivalsFollowGrants

LEMMA ArrivalsStep == ClientInv /\ [Next]_allVars => ArrivalsFollowGrants'
<1> SUFFICES ASSUME ClientInv, [Next]_allVars PROVE ArrivalsFollowGrants'
  OBVIOUS
<1>1. CASE LimiterGrants
  BY <1>1, GrantKeepsArrivals
<1>2. CASE Arrive
  BY <1>2, ArrivalKeepsArrivals
<1>3. CASE ArriveOverdue
  BY <1>3, OverdueKeepsArrivals
<1>4. CASE ~LimiterGrants /\ ~Arrive /\ ~ArriveOverdue
  <2>1. /\ grants' = grants /\ arrivals' = arrivals /\ Timely' = Timely
        /\ now' = now \/ now' = now + 1
        /\ pc' = "sending" => pc = "sending"
    BY <1>4, OtherStepsKeepGrants
       DEF Next, allVars, clientVars, limiterVars, StartRequest, LimiterSleeps, Sleep,
           NetworkError, Respond, BackOff, Finish, Resume, ClientAdvance, Tick, Stop,
           Timely
  <2>2. PICK sent \in [Timely -> 1..Len(grants)] : ArrivesBeforeNextGrant(sent)
    BY DEF ClientInv, ArrivalsFollowGrants
  <2>3. ArrivesBeforeNextGrant(sent)'
    BY <2>1, <2>2 DEF ArrivesBeforeNextGrant
  <2>4. \A k \in 1..Len(arrivals) : arrivals[k].at <= now'
    BY <2>1, ArrivalNumbers DEF ClientInv
  <2> QED
    BY <2>1, <2>2, <2>3, <2>4 DEF ArrivalsFollowGrants
<1> QED
  BY <1>1, <1>2, <1>3, <1>4

-----------------------------------------------------------------------------
(* What the server sees *)

\* The calls that arrived in the window which ends now while the client waited
\* for them.  They are at most MaxCalls + 1: the grant after the first of them
\* lies in the window too, and so do all grants since.
TimelyRecent == {k \in Timely : now - arrivals[k].at < Period}

LEMMA TimelyFitTheWindow ==
  LimiterInv /\ ClientTypeOK /\ ArrivalsFollowGrants =>
    IsFiniteSet(TimelyRecent) /\ Cardinality(TimelyRecent) <= MaxCalls + 1
<1> SUFFICES ASSUME LimiterInv, ClientTypeOK, ArrivalsFollowGrants
             PROVE  IsFiniteSet(TimelyRecent) /\ Cardinality(TimelyRecent) <= MaxCalls + 1
  OBVIOUS
<1> DEFINE n == Len(grants)
           latest == (n - MaxCalls)..n
<1>1. /\ now \in Nat /\ n \in Nat
      /\ MaxCalls \in Nat \ {0} /\ Period \in Nat \ {0}
      /\ \A k \in Timely : /\ k \in 1..Len(arrivals) /\ k \in Nat
                           /\ arrivals[k].at \in Nat /\ arrivals[k].at <= now
      /\ \A i \in 1..n : grants[i] \in Nat /\ grants[i] <= now
  BY ArrivalNumbers DEF Timely
<1>2. PICK sent \in [Timely -> 1..n] : ArrivesBeforeNextGrant(sent)
  BY DEF ArrivalsFollowGrants
<1>3. \A k \in TimelyRecent : sent[k] \in latest
  <2> SUFFICES ASSUME NEW k \in TimelyRecent PROVE sent[k] \in latest
    OBVIOUS
  <2>1. k \in Timely /\ now - arrivals[k].at < Period /\ sent[k] \in 1..n
    BY <1>2 DEF TimelyRecent
  <2>2. CASE sent[k] = n
    BY <1>1, <2>2
  <2>3. CASE sent[k] < n
    <3> DEFINE first == sent[k] + 1
    <3>1. first \in 1..n /\ arrivals[k].at <= grants[first]
      BY <1>1, <1>2, <2>1, <2>3 DEF ArrivesBeforeNextGrant
    <3>2. now - grants[first] < Period
      BY <1>1, <2>1, <3>1
    <3>3. ~(first + MaxCalls <= n)
      <4> SUFFICES ASSUME first + MaxCalls <= n PROVE FALSE
        OBVIOUS
      <4>1. first + MaxCalls \in 1..n
        BY <1>1, <3>1
      <4>2. grants[first + MaxCalls] - grants[first] >= Period
        BY <3>1 DEF LimiterInv, WindowLimit
      <4>3. grants[first + MaxCalls] <= now
        BY <1>1, <4>1
      <4> HIDE DEF first
      <4> QED
        BY <1>1, <3>1, <3>2, <4>1, <4>2, <4>3
    <3> QED
      BY <1>1, <2>1, <3>3
  <2> QED
    BY <1>1, <2>1, <2>2, <2>3
<1> DEFINE place == [k \in TimelyRecent |-> sent[k]]
<1>4. place \in Injection(TimelyRecent, latest)
  <2>1. place \in [TimelyRecent -> latest]
    BY <1>3
  <2>2. \A k, l \in TimelyRecent : place[k] = place[l] => k = l
    <3> SUFFICES ASSUME NEW k \in TimelyRecent, NEW l \in TimelyRecent, sent[k] = sent[l]
                 PROVE  k = l
      OBVIOUS
    <3>1. /\ k \in Timely /\ l \in Timely /\ k \in Nat /\ l \in Nat
          /\ sent[k] \in 1..n /\ sent[l] \in 1..n
      BY <1>1, <1>2 DEF TimelyRecent
    <3>2. (k < l => sent[k] < sent[l]) /\ (l < k => sent[l] < sent[k])
      BY <1>2, <3>1 DEF ArrivesBeforeNextGrant
    <3> QED
      BY <1>1, <3>1, <3>2
  <2> HIDE DEF latest, place
  <2> QED
    BY <2>1, <2>2 DEF Injection, IsInjective
<1>5. IsFiniteSet(latest) /\ Cardinality(latest) = MaxCalls + 1
  <2>1. n - MaxCalls \in Int /\ n \in Int
    BY <1>1
  <2>2. IsFiniteSet(latest) /\ Cardinality(latest) =
          IF n - MaxCalls > n THEN 0 ELSE n - (n - MaxCalls) + 1
    <3> HIDE DEF n
    <3> QED BY <2>1, FS_Interval
  <2> HIDE DEF latest, n
  <2> QED
    BY <1>1, <2>2
<1> HIDE DEF latest, place
<1> QED
  BY <1>4, <1>5, FS_Injection

\* The window that ends with an earlier arrival is what it was; one that ends
\* with the newest holds timely calls and overdue ones.
LEMMA ServerWindowStep == ClientInv /\ [Next]_allVars => ServerSeesWindow'
<1> SUFFICES ASSUME ClientInv, [Next]_allVars PROVE ServerSeesWindow'
  OBVIOUS
<1> DEFINE a == Len(arrivals)
<1>1. LimiterInv' /\ ClientTypeOK' /\ ArrivalsFollowGrants'
  BY ClientStepType, ArrivalsStep
<1>2. IsFiniteSet(TimelyRecent)' /\ (Cardinality(TimelyRecent) <= MaxCalls + 1)'
  BY <1>1, TimelyFitTheWindow, PTL
<1>3. CASE arrivals' = arrivals
  BY <1>3 DEF ClientInv, ServerSeesWindow, WindowBefore
<1>4. CASE \E new \in {Arrival(TRUE), Arrival(FALSE)} :
             arrivals' = Append(arrivals, new) /\ now' = now
  <2>1. PICK new \in {Arrival(TRUE), Arrival(FALSE)} :
          arrivals' = Append(arrivals, new) /\ now' = now
    BY <1>4
  <2>2. /\ Len(arrivals') = a + 1 /\ a \in Nat /\ arrivals'[a + 1].at = now
        /\ \A k \in 1..a : arrivals'[k] = arrivals[k]
    <3>1. new \in [at : Nat, overdue : BOOLEAN] /\ new.at = now
      BY <2>1, ArrivalIsNow
    <3>2. a \in Nat
      BY ArrivalNumbers DEF ClientInv
    <3> QED
      BY <2>1, <3>1, <3>2, ArrivalAppends
  <2> SUFFICES ASSUME NEW i \in 1..(a + 1)
               PROVE  (Cardinality(WindowBefore(i)) <=
                         MaxCalls + 1
                           + Cardinality({j \in WindowBefore(i) : arrivals[j].overdue}))'
    BY <2>2 DEF ServerSeesWindow
  <2>3. CASE i \in 1..a
    <3>1. \A j \in 1..i : j \in 1..a
      BY <2>2, <2>3
    <3>2. WindowBefore(i)' = WindowBefore(i) /\ WindowBefore(i) \subseteq 1..a
      BY <2>2, <2>3, <3>1 DEF WindowBefore
    <3>3. {j \in WindowBefore(i) : arrivals[j].overdue}'
            = {j \in WindowBefore(i) : arrivals[j].overdue}
      BY <2>2, <3>2
    <3> QED
      BY <2>3, <3>2, <3>3 DEF ClientInv, ServerSeesWindow
  <2>4. CASE i = a + 1
    <3> DEFINE W == WindowBefore(i)'
               O == {j \in W : arrivals'[j].overdue}
               R == TimelyRecent'
    <3>1. W = {j \in 1..(a + 1) : now - arrivals'[j].at < Period}
      BY <2>2, <2>4 DEF WindowBefore
    <3>2. R = {j \in 1..(a + 1) : ~arrivals'[j].overdue /\ now - arrivals'[j].at < Period}
      BY <2>1, <2>2 DEF TimelyRecent, Timely
    <3>3. W = R \cup O
      BY <3>1, <3>2
    <3>4. IsFiniteSet(1..(a + 1)) /\ R \subseteq 1..(a + 1) /\ O \subseteq 1..(a + 1)
      <4>1. a + 1 \in Int /\ 1 \in Int
        BY <2>2
      <4>2. IsFiniteSet(1..(a + 1))
        <5> HIDE DEF a
        <5> QED BY <4>1, FS_Interval
      <4> QED
        BY <3>1, <3>2, <4>2
    <3>5. IsFiniteSet(R) /\ IsFiniteSet(O) /\ IsFiniteSet(R \cap O)
      <4> HIDE DEF R, O, W, a
      <4>1. R \cap O \subseteq 1..(a + 1)
        BY <3>4
      <4> QED
        BY <3>4, <4>1, FS_Subset
    <3>6. /\ Cardinality(R) \in Nat /\ Cardinality(O) \in Nat
          /\ Cardinality(R \cap O) \in Nat
          /\ Cardinality(R \cup O) = Cardinality(R) + Cardinality(O) - Cardinality(R \cap O)
      <4> HIDE DEF R, O, W
      <4> QED
        BY <3>5, FS_Union, FS_CardinalityType
    <3>7. Cardinality(R) <= MaxCalls + 1
      BY <1>2
    <3>8. Cardinality(W) <= MaxCalls + 1 + Cardinality(O)
      <4> HIDE DEF R, O, W
      <4> QED
        BY <3>3, <3>6, <3>7, LimiterAssumption
    <3> QED
      BY <3>8
  <2> QED
    BY <2>2, <2>3, <2>4
<1>5. arrivals' = arrivals \/ \E new \in {Arrival(TRUE), Arrival(FALSE)} :
        arrivals' = Append(arrivals, new) /\ now' = now
  BY DEF Next, allVars, clientVars, limiterVars, StartRequest, LimiterSleeps,
     LimiterGrants, Arrive, ArriveOverdue, NetworkError, Respond, Resume,
     ClientAdvance, Stop
<1> QED
  BY <1>3, <1>4, <1>5

LEMMA ClientNextInv == ClientInv /\ [Next]_allVars => ClientInv'
BY ClientStepType, SpacingStep, ArrivalsStep, ServerWindowStep DEF ClientInv

-----------------------------------------------------------------------------
(* Theorems *)

\* The client's state and its limiter's keep their shapes; a call the client
\* still waits for arrives before the next grant, and each grant is accounted to
\* one attempt.
THEOREM ClientInvariant == Spec => []ClientInv
BY ClientInitInv, ClientNextInv, PTL DEF Spec

\* Shapes of the client's state, for all parameters.
THEOREM ClientTypes == Spec => []ClientTypeOK
<1>1. ClientInv => ClientTypeOK
  BY DEF ClientInv
<1> QED
  BY <1>1, ClientInvariant, PTL

\* RETRY_BACKOFF_SECONDS * attempt: a retry is granted no sooner than its
\* backoff after the attempt before it.
THEOREM RetriesKeepDistance == Spec => []RetriesAreSpaced
<1>1. ClientInv => RetriesAreSpaced
  BY DEF ClientInv
<1> QED
  BY <1>1, ClientInvariant, PTL

\* However slow the calls are and however often they are retried: in every window
\* the server sees at most MaxCalls + 1 calls beside those that reach it after
\* the client has given them up.
THEOREM ServerWindowHolds == Spec => []ServerSeesWindow
<1>1. ClientInv => ServerSeesWindow
  BY DEF ClientInv
<1> QED
  BY <1>1, ClientInvariant, PTL
=============================================================================
