--------------------------- MODULE SlidingWindow ---------------------------
(***************************************************************************)
(* What a sliding-window limit promises, whatever the data structure that  *)
(* enforces it: a call goes through only while fewer than Limit calls have *)
(* gone through during the last Span ticks.                                *)
(***************************************************************************)
EXTENDS Naturals, Sequences, FiniteSets

CONSTANTS Limit,    \* calls one window may hold
          Span      \* length of the window, in clock ticks

VARIABLES now,      \* the clock
          calls     \* the time of every call so far, in order

vars == <<now, calls>>

Recent == {i \in 1..Len(calls) : now - calls[i] < Span}

Init == now = 0 /\ calls = <<>>

Call ==
  /\ Cardinality(Recent) < Limit
  /\ calls' = Append(calls, now)
  /\ UNCHANGED now

Advance ==
  /\ now' = now + 1
  /\ UNCHANGED calls

Next == Call \/ Advance

Spec == Init /\ [][Next]_vars
=============================================================================
