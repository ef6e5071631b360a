------------------------- MODULE FootballDataClient -------------------------
(***************************************************************************)
(* src/ingestion/football_data_client.py: _request, the retry loop around  *)
(* one HTTP call, over the client's own RateLimiter.  What the limiter     *)
(* lets go at one moment reaches the server at a later one: while          *)
(* _client.get waits for it, or, when httpx has given the call up without  *)
(* knowing what became of it, at any time after that, or never.            *)
(***************************************************************************)
EXTENDS RateLimiter

CONSTANTS MaxAttempts,  \* MAX_ATTEMPTS
          Backoff       \* RETRY_BACKOFF_SECONDS, in ticks

ASSUME ClientAssumption ==
  /\ MaxAttempts \in Nat \ {0}
  /\ Backoff \in Nat

VARIABLES pc,        \* "idle", "limiter", "sending", "underway", "backoff"
          attempt,   \* attempt, within _request
          resumeAt,  \* earliest end of the backoff's sleep
          astray,    \* calls the client has given up and the server may yet get
          arrivals,  \* history: when each call reached the server, and
                     \* whether the client had given it up by then
          attempts   \* history: the attempt each grant was for

clientVars == <<pc, attempt, resumeAt, astray, arrivals, attempts>>
allVars == <<limiterVars, clientVars>>

Transient == {"network error", "5xx"}
Final     == {"payload", "unreadable body", "429", "4xx"}

Init ==
  /\ LimiterInit
  /\ pc = "idle" /\ attempt = 1 /\ resumeAt = 0
  /\ astray = 0 /\ arrivals = <<>> /\ attempts = <<>>

-----------------------------------------------------------------------------
\* get_matches; started only where the bound leaves room for all its attempts.
StartRequest ==
  /\ pc = "idle"
  /\ Len(grants) + MaxAttempts <= MaxRequests
  /\ pc' = "limiter" /\ attempt' = 1
  /\ UNCHANGED <<limiterVars, resumeAt, astray, arrivals, attempts>>

\* rate_limiter.wait_if_needed(), before every attempt.
LimiterSleeps == pc = "limiter" /\ Sleep /\ UNCHANGED clientVars

LimiterGrants ==
  /\ pc = "limiter"
  /\ GrantAtOnce \/ Wake
  /\ pc' = "sending"
  /\ attempts' = Append(attempts, attempt)
  /\ UNCHANGED <<attempt, resumeAt, astray, arrivals>>

Arrival(overdue) == [at |-> now, overdue |-> overdue]

\* _client.get: the call reaches the server.
Arrive ==
  /\ pc = "sending"
  /\ arrivals' = Append(arrivals, Arrival(FALSE))
  /\ pc' = "underway"
  /\ UNCHANGED <<limiterVars, attempt, resumeAt, astray, attempts>>

\* The server gets a call that httpx has given up: nobody waits for the answer.
ArriveOverdue ==
  /\ astray > 0
  /\ astray' = astray - 1
  /\ arrivals' = Append(arrivals, Arrival(TRUE))
  /\ UNCHANGED <<limiterVars, pc, attempt, resumeAt, attempts>>

\* Faulty variant: the attempts are counted from the wrong end.
BackOffOnceMore ==
  /\ attempt <= MaxAttempts
  /\ pc' = "backoff"
  /\ resumeAt' = now + Backoff * attempt

\* Faulty variant: the backoff does not grow.
BackOffConstant ==
  /\ attempt < MaxAttempts
  /\ pc' = "backoff"
  /\ resumeAt' = now + Backoff

\* The except branch and the 5xx branch, with attempts left: sleep and continue.
BackOff ==
  /\ attempt < MaxAttempts
  /\ pc' = "backoff"
  /\ resumeAt' = now + Backoff * attempt

\* Faulty variant: the outcome is caught and looked at again for ever.
FinishSwallowed == UNCHANGED <<pc, resumeAt>>

\* The same branches at the last attempt, and every other answer: _request
\* returns or raises.
Finish == pc' = "idle" /\ UNCHANGED resumeAt

\* _client.get raises RequestError: no connection, or a timeout while writing
\* or reading.  A call that has not arrived by then may never do so.
NetworkError ==
  /\ pc \in {"sending", "underway"}
  /\ BackOff \/ (attempt = MaxAttempts /\ Finish)
  /\ astray' = IF pc = "sending" THEN astray + 1 ELSE astray
  /\ UNCHANGED <<limiterVars, attempt, arrivals, attempts>>

\* _client.get returns a response.
Respond ==
  /\ pc = "underway"
  /\ \E verdict \in {"5xx"} \cup Final :
       \/ verdict = "5xx" /\ BackOff
       \/ verdict = "5xx" /\ attempt = MaxAttempts /\ Finish
       \/ verdict \in Final /\ Finish
  /\ UNCHANGED <<limiterVars, attempt, astray, arrivals, attempts>>

\* Faulty variant: the limiter is asked once per request, before the loop.
ResumeUnlimited ==
  /\ pc = "backoff"
  /\ now >= resumeAt
  /\ attempt' = attempt + 1
  /\ pc' = "sending"
  /\ UNCHANGED <<limiterVars, resumeAt, astray, arrivals, attempts>>

\* time.sleep is over: the loop's next turn.
Resume ==
  /\ pc = "backoff"
  /\ now >= resumeAt
  /\ attempt' = attempt + 1
  /\ pc' = "limiter"
  /\ UNCHANGED <<limiterVars, resumeAt, astray, arrivals, attempts>>

\* Time passes; beyond the horizon only for somebody who sleeps.
ClientAdvance ==
  /\ now < Horizon \/ SleepPending \/ (pc = "backoff" /\ now < resumeAt)
  /\ Tick
  /\ UNCHANGED clientVars

\* The process has sent what it was to send.
Stop ==
  /\ pc = "idle"
  /\ Len(grants) + MaxAttempts > MaxRequests
  /\ UNCHANGED allVars

Next ==
  \/ StartRequest \/ LimiterSleeps \/ LimiterGrants
  \/ Arrive \/ ArriveOverdue \/ NetworkError \/ Respond \/ Resume
  \/ ClientAdvance \/ Stop

\* The clock runs, httpx ends a call within its 30 s timeout, and the loop goes
\* on after a sleep.  Nobody is obliged to start a request, and no call that was
\* given up has to arrive.
Fairness ==
  /\ WF_allVars(ClientAdvance)
  /\ WF_allVars(LimiterSleeps) /\ WF_allVars(LimiterGrants)
  /\ WF_allVars(NetworkError \/ Respond) /\ WF_allVars(Resume)

Spec == Init /\ [][Next]_allVars /\ Fairness

-----------------------------------------------------------------------------
(* Properties *)

\* Shapes of the client's state, and of the limiter's below it.
ClientTypeOK ==
  /\ LimiterTypeOK
  /\ pc \in {"idle", "limiter", "sending", "underway", "backoff"}
  /\ attempt \in 1..MaxAttempts
  /\ resumeAt \in Nat
  /\ astray \in Nat
  /\ arrivals \in Seq([at : Nat, overdue : BOOLEAN])
  /\ attempts \in Seq(1..MaxAttempts)
  /\ phase = "sleeping" => pc = "limiter"

\* The limiter stamps a call before it is sent, so the server may see one call
\* more than MaxCalls in a window, when one is slow and the next ones are not;
\* retries included it never sees two more, unless calls that the client had
\* given up are among them: those no limiter of grants can hold back.
WindowBefore(i) == {j \in 1..i : arrivals[i].at - arrivals[j].at < Period}
ServerSeesWindow ==
  \A i \in 1..Len(arrivals) :
    LET overdue == {j \in WindowBefore(i) : arrivals[j].overdue}
    IN  Cardinality(WindowBefore(i)) <= MaxCalls + 1 + Cardinality(overdue)

\* A retry leaves the limiter no sooner than its backoff after the attempt
\* before it, however the limiter's own sleeps fall.
RetriesAreSpaced ==
  \A i \in 1..(Len(attempts) - 1) :
    attempts[i + 1] # 1 =>
      /\ attempts[i + 1] = attempts[i] + 1
      /\ grants[i + 1] - grants[i] >= Backoff * attempts[i]

\* Why they are: each grant is for one attempt, and what was waited since the
\* last grant of a request is at least what its backoff asked for.
LastGrant == grants[Len(grants)]
RetriesFollowAttempts ==
  /\ Len(attempts) = Len(grants)
  /\ pc \in {"sending", "underway", "backoff"} =>
       attempts # <<>> /\ attempts[Len(attempts)] = attempt
  /\ pc = "backoff" =>
       attempt < MaxAttempts /\ resumeAt >= LastGrant + Backoff * attempt
  /\ pc = "limiter" /\ attempt # 1 =>
       /\ attempts # <<>> /\ attempts[Len(attempts)] = attempt - 1
       /\ now >= LastGrant + Backoff * (attempt - 1)

\* How arrivals stand to grants: those the client still waited for can be given
\* different grants, in order, such that a call has arrived when the grant after
\* its own is made; a call being sent has a grant after all of those.
Timely == {k \in 1..Len(arrivals) : ~arrivals[k].overdue}

ArrivesBeforeNextGrant(sent) ==
  /\ \A k, l \in Timely : k < l => sent[k] < sent[l]
  /\ \A k \in Timely :
       sent[k] < Len(grants) => arrivals[k].at <= grants[sent[k] + 1]
  /\ pc = "sending" =>
       grants # <<>> /\ \A k \in Timely : sent[k] < Len(grants)

ArrivalsFollowGrants ==
  /\ \A k \in 1..Len(arrivals) : arrivals[k].at <= now
  /\ \E sent \in [Timely -> 1..Len(grants)] : ArrivesBeforeNextGrant(sent)

ClientInv ==
  LimiterInv /\ ClientTypeOK /\ RetriesFollowAttempts /\ RetriesAreSpaced
             /\ ArrivalsFollowGrants /\ ServerSeesWindow

\* Every request returns or raises.
RequestEnds == pc # "idle" ~> pc = "idle"
=============================================================================
