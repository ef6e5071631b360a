---------------------------- MODULE RateLimiter ----------------------------
(***************************************************************************)
(* src/ingestion/rate_limiter.py: the sliding-window limiter each API      *)
(* client owns.  One thread calls wait_if_needed, which may put it to      *)
(* sleep; the call returns when the caller may send its request.           *)
(*                                                                         *)
(* Time is a counter of ticks (time.monotonic never goes back).            *)
(* time.sleep is taken to last at least what was asked, possibly longer.   *)
(***************************************************************************)
EXTENDS Naturals, Sequences, FiniteSets

CONSTANTS MaxCalls,     \* max_calls
          Period,       \* period_seconds, in ticks
          MaxRequests,  \* bound: calls of wait_if_needed in a behaviour
          Horizon       \* bound: nobody idles beyond this tick

ASSUME LimiterAssumption ==
  /\ MaxCalls \in Nat \ {0}
  /\ Period \in Nat \ {0}
  /\ MaxRequests \in Nat
  /\ Horizon \in Nat

VARIABLES now,         \* time.monotonic()
          timestamps,  \* _call_timestamps
          phase,       \* "idle", or "sleeping" inside time.sleep
          wakeAt,      \* earliest end of that sleep
          grants       \* history: when each call of wait_if_needed returned

limiterVars == <<now, timestamps, phase, wakeAt, grants>>

LimiterInit ==
  /\ now = 0
  /\ timestamps = <<>>
  /\ phase = "idle"
  /\ wakeAt = 0
  /\ grants = <<>>

-----------------------------------------------------------------------------
\* Faulty variant: an entry leaves one tick early.
EvictsEarly(n) ==
  /\ \A i \in 1..n : now - timestamps[i] + 1 >= Period
  /\ n < Len(timestamps) => now - timestamps[n + 1] + 1 < Period

\* _evict_expired: the popleft loop stops at the first entry still inside the
\* window, having removed the n entries before it.
Evicts(n) ==
  /\ \A i \in 1..n : now - timestamps[i] >= Period
  /\ n < Len(timestamps) => now - timestamps[n + 1] < Period

\* The deque once its n oldest entries are gone.
Without(n) == SubSeq(timestamps, n + 1, Len(timestamps))

\* The end of wait_if_needed: append(now) and return.
Return(rest) ==
  /\ timestamps' = Append(rest, now)
  /\ grants' = Append(grants, now)
  /\ phase' = "idle"
  /\ UNCHANGED <<now, wakeAt>>

\* Faulty variant: one call too many goes through a full window.
GrantOffByOne ==
  /\ phase = "idle"
  /\ Len(grants) < MaxRequests
  /\ \E n \in 0..Len(timestamps) :
       /\ Evicts(n)
       /\ Len(Without(n)) <= MaxCalls
       /\ Return(Without(n))

\* wait_if_needed finds room in the window.
GrantAtOnce ==
  /\ phase = "idle"
  /\ Len(grants) < MaxRequests
  /\ \E n \in 0..Len(timestamps) :
       /\ Evicts(n)
       /\ Len(Without(n)) < MaxCalls
       /\ Return(Without(n))

\* Faulty variant: the wait is counted from the newest entry.
SleepForNewest ==
  /\ phase = "idle"
  /\ Len(grants) < MaxRequests
  /\ \E n \in 0..Len(timestamps) :
       /\ Evicts(n)
       /\ Len(Without(n)) >= MaxCalls
       /\ timestamps' = Without(n)
       /\ wakeAt' = Without(n)[MaxCalls] + Period
  /\ phase' = "sleeping"
  /\ UNCHANGED <<now, grants>>

\* wait_if_needed finds the window full: sleep until its oldest entry expires.
\* wait_seconds > 0 always, the oldest entry having survived the eviction.
Sleep ==
  /\ phase = "idle"
  /\ Len(grants) < MaxRequests
  /\ \E n \in 0..Len(timestamps) :
       /\ Evicts(n)
       /\ Len(Without(n)) >= MaxCalls
       /\ timestamps' = Without(n)
       /\ wakeAt' = Without(n)[1] + Period
  /\ phase' = "sleeping"
  /\ UNCHANGED <<now, grants>>

\* Faulty variant: a while loop on the length, with no eviction inside.
WakeSpins ==
  /\ phase = "sleeping"
  /\ now >= wakeAt
  /\ IF Len(timestamps) < MaxCalls THEN Return(timestamps) ELSE UNCHANGED limiterVars

\* The sleep is over: evict once more and return without looking at the length.
Wake ==
  /\ phase = "sleeping"
  /\ now >= wakeAt
  /\ \E n \in 0..Len(timestamps) : Evicts(n) /\ Return(Without(n))

Tick ==
  /\ now' = now + 1
  /\ UNCHANGED <<timestamps, phase, wakeAt, grants>>

SleepPending == phase = "sleeping" /\ now < wakeAt

Advance == (now < Horizon \/ SleepPending) /\ Tick

\* The caller has made its last call; it may stop there.
Done ==
  /\ phase = "idle"
  /\ Len(grants) = MaxRequests
  /\ UNCHANGED limiterVars

LimiterNext == GrantAtOnce \/ Sleep \/ Wake \/ Advance \/ Done

LimiterSpec ==
  /\ LimiterInit
  /\ [][LimiterNext]_limiterVars
  /\ WF_limiterVars(Wake)
  /\ WF_limiterVars(Advance)

-----------------------------------------------------------------------------
\* Shapes of the limiter's state.
LimiterTypeOK ==
  /\ now \in Nat
  /\ timestamps \in Seq(Nat)
  /\ phase \in {"idle", "sleeping"}
  /\ wakeAt \in Nat
  /\ grants \in Seq(Nat)

\* The class docstring, over the whole history and not over the deque the code
\* counts: no MaxCalls + 1 calls return within one window.  The length is not
\* looked at after the sleep, and eviction must not lose an entry too early.
WindowLimit ==
  \A i \in 1..Len(grants) :
    i + MaxCalls <= Len(grants) => grants[i + MaxCalls] - grants[i] >= Period

\* The limiter makes nobody wait for nothing: whoever sleeps has MaxCalls calls
\* behind it that all fall in the window that is open until it wakes.
NoNeedlessWait ==
  phase = "sleeping" =>
    /\ Len(grants) >= MaxCalls
    /\ \A i \in (Len(grants) - MaxCalls + 1)..Len(grants) :
         grants[i] + Period >= wakeAt

\* How the deque stands to the history: it is the end of it, what it no longer
\* holds has left the window, and it never holds more than MaxCalls entries;
\* a sleeper waits for exactly its oldest entry.  With the two invariants
\* above and the order of the history this is inductive.
Dropped == Len(grants) - Len(timestamps)

DequeIsRecentHistory ==
  /\ Len(timestamps) <= Len(grants)
  /\ Len(timestamps) <= MaxCalls
  /\ \A i \in 1..Len(timestamps) : timestamps[i] = grants[Dropped + i]
  /\ \A i \in 1..Dropped : now >= grants[i] + Period
  /\ \A i, j \in 1..Len(grants) : i <= j => grants[i] <= grants[j]
  /\ \A i \in 1..Len(grants) : grants[i] <= now
  /\ phase = "sleeping" =>
       Len(timestamps) = MaxCalls /\ wakeAt = timestamps[1] + Period

LimiterInv == LimiterTypeOK /\ DequeIsRecentHistory /\ WindowLimit

\* Whoever is put to sleep is let through.
SleeperIsGranted ==
  \A n \in 0..MaxRequests :
    (phase = "sleeping" /\ Len(grants) = n) ~> (Len(grants) = n + 1)

\* The deque, its evictions and the unconditional append after the sleep
\* implement the sliding-window limit.
Window == INSTANCE SlidingWindow
            WITH Limit <- MaxCalls, Span <- Period, calls <- grants
ImplementsWindow == Window!Spec
=============================================================================
