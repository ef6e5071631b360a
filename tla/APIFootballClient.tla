-------------------------- MODULE APIFootballClient --------------------------
(***************************************************************************)
(* src/ingestion/api_football_client.py and quota_guard.py: one request    *)
(* after another under the daily quota, as the ingest sends them.  Any     *)
(* exception ends the process; the next one starts with a new guard.       *)
(*                                                                         *)
(* The server counts the calls of a UTC day and reports what is left in a  *)
(* header; a call that httpx has given up it may count later, or never.    *)
(* The per-minute limiter and the backoff only cost time here: midnight    *)
(* may pass while the client is in them (see FootballDataClient).          *)
(***************************************************************************)
EXTENDS Integers, Sequences

CONSTANTS DailyQuota,    \* calls the provider grants a day
          SafetyBuffer,  \* safety_buffer
          MaxAttempts,   \* MAX_ATTEMPTS
          Unknown,          \* no value known, or no header
          HeaderMayMiss, \* may a 2xx response come without the quota header?
          MaxAstray,     \* bound: given-up calls on their way at one time
          LastDay,       \* bound: days in a behaviour
          MaxClients     \* bound: processes in a behaviour

ASSUME QuotaAssumption ==
  /\ DailyQuota \in Nat /\ SafetyBuffer \in Nat /\ SafetyBuffer <= DailyQuota
  /\ MaxAttempts \in Nat \ {0}
  /\ MaxAstray \in Nat /\ LastDay \in Nat /\ MaxClients \in Nat
  /\ Unknown \notin Int
  /\ HeaderMayMiss \in BOOLEAN

VARIABLES day,         \* today, in UTC
          serverLeft,  \* calls the provider still grants today
          astray,      \* calls given up as network errors that it may yet count
          remaining,   \* _remaining
          lastSeen,    \* _last_seen_date
          pc,          \* "idle", "limiter", "answered", "failed"
          attempt,     \* attempt, within _request
          answer,      \* the response or exception under way to the client
          clients,     \* processes started
          verdicts,    \* history: what the calls of this request came to
          below,       \* history: calls made today with less than the buffer left
          allowances,  \* history: processes alive today, and answers without header
          stale        \* history: remaining was issued on an earlier day

guard == <<remaining, lastSeen>>
history == <<below, allowances, stale>>
vars == <<day, serverLeft, astray, guard, pc, attempt, answer, clients, verdicts, history>>

Transient == {"network error", "5xx"}
Refusals  == {"429", "4xx"}
Answers   == {"payload", "application error"}   \* of a 2xx response

Init ==
  /\ day = 0 /\ serverLeft = DailyQuota /\ astray = 0
  /\ remaining = Unknown /\ lastSeen = 0
  /\ pc = "idle" /\ attempt = 1 /\ answer = Unknown
  /\ clients = 1 /\ verdicts = <<>>
  /\ below = 0 /\ allowances = 1 /\ stale = FALSE

-----------------------------------------------------------------------------
(* DailyQuotaGuard *)

\* Faulty variant: the check does not look at the date.
RemainingEver == remaining

\* _maybe_reset_for_new_day: what is known of the quota, had today begun with it.
RemainingToday == IF day # lastSeen THEN Unknown ELSE remaining

\* Faulty variant: the buffer is left out of the comparison.
TooLowIgnoringBuffer == RemainingToday = 0

\* Faulty variant: a request is refused at the buffer already.
TooLowInclusive == RemainingToday # Unknown /\ RemainingToday <= SafetyBuffer

\* check_before_request raises.
TooLow == RemainingToday # Unknown /\ RemainingToday < SafetyBuffer

\* update_from_remaining
Record(left) == remaining' = left /\ lastSeen' = day

-----------------------------------------------------------------------------
(* APIFootballClient._request *)

\* The quota check, once per request.
StartRequest ==
  /\ pc = "idle"
  /\ ~TooLow
  /\ remaining' = RemainingToday /\ lastSeen' = day
  /\ stale' = (stale /\ day = lastSeen)
  /\ pc' = "limiter" /\ attempt' = 1 /\ verdicts' = <<>>
  /\ UNCHANGED <<day, serverLeft, astray, answer, clients, below, allowances>>

\* RateLimitExceededError before any call.
Refuse ==
  /\ pc = "idle"
  /\ TooLow
  /\ pc' = "failed"
  /\ UNCHANGED <<day, serverLeft, astray, guard, attempt, answer, clients, verdicts, history>>

\* What the provider grants after one call more.
OneLess == IF serverLeft > 0 THEN serverLeft - 1 ELSE serverLeft

\* The limiter lets the call through and the server, if it is reached, answers.
\* Whether it counts a call it fails is its own affair; an exhausted quota is
\* answered with 429 or with an application error.
Call ==
  /\ pc = "limiter"
  /\ \E verdict \in Transient \cup Refusals \cup Answers, counted \in BOOLEAN,
        reports \in BOOLEAN :
       LET left == IF counted THEN OneLess ELSE serverLeft IN
       /\ verdict \in Answers => counted
       /\ verdict = "payload" => serverLeft > 0
       /\ reports => verdict \in Answers
       /\ verdict \in Answers => reports \/ HeaderMayMiss
       /\ serverLeft' = left
       /\ astray' = IF verdict = "network error" /\ ~counted /\ astray < MaxAstray
                      THEN astray + 1 ELSE astray
       /\ answer' = [verdict |-> verdict, left |-> IF reports THEN left ELSE Unknown,
                     day |-> day]
       /\ verdicts' = Append(verdicts, verdict)
  /\ below' = IF serverLeft < SafetyBuffer THEN below + 1 ELSE below
  /\ pc' = "answered"
  /\ UNCHANGED <<day, guard, attempt, clients, allowances, stale>>

\* A call that was given up reaches the server after all, and is counted.
CountLate ==
  /\ astray > 0
  /\ astray' = astray - 1
  /\ serverLeft' = OneLess
  /\ UNCHANGED <<day, guard, pc, attempt, answer, clients, verdicts, history>>

\* Faulty variant: one attempt too many.
RetryOnceMore ==
  /\ pc = "answered"
  /\ answer.verdict \in Transient
  /\ attempt <= MaxAttempts
  /\ attempt' = attempt + 1
  /\ pc' = "limiter"
  /\ UNCHANGED <<day, serverLeft, astray, guard, answer, clients, verdicts, history>>

\* Faulty variant: 429 is retried like a 5xx.
RetryRefusals ==
  /\ pc = "answered"
  /\ answer.verdict \in Transient \cup {"429"}
  /\ attempt < MaxAttempts
  /\ attempt' = attempt + 1
  /\ pc' = "limiter"
  /\ UNCHANGED <<day, serverLeft, astray, guard, answer, clients, verdicts, history>>

\* A network error or a 5xx, with attempts left: back off, then the limiter.
Retry ==
  /\ pc = "answered"
  /\ answer.verdict \in Transient
  /\ attempt < MaxAttempts
  /\ attempt' = attempt + 1
  /\ pc' = "limiter"
  /\ UNCHANGED <<day, serverLeft, astray, guard, answer, clients, verdicts, history>>

\* Faulty variant: the refusals are caught and looked at again for ever.
RaiseSwallowed ==
  /\ pc = "answered"
  /\ \/ answer.verdict \in Transient /\ attempt = MaxAttempts
     \/ answer.verdict \in Refusals
  /\ pc' = IF answer.verdict \in Refusals THEN pc ELSE "failed"
  /\ UNCHANGED <<day, serverLeft, astray, guard, attempt, answer, clients, verdicts, history>>

\* The last attempt failed, or the answer is one that is never retried.
Raise ==
  /\ pc = "answered"
  /\ \/ answer.verdict \in Transient /\ attempt = MaxAttempts
     \/ answer.verdict \in Refusals
  /\ pc' = "failed"
  /\ UNCHANGED <<day, serverLeft, astray, guard, attempt, answer, clients, verdicts, history>>

\* A 2xx response: the header first, then the body, which may be an error.
Receive ==
  /\ pc = "answered"
  /\ answer.verdict \in Answers
  /\ IF answer.left = Unknown
       THEN /\ allowances' = allowances + 1
            /\ UNCHANGED <<guard, stale>>
       ELSE /\ Record(answer.left)
            /\ stale' = (answer.day # day)
            /\ UNCHANGED allowances
  /\ pc' = IF answer.verdict = "payload" THEN "idle" ELSE "failed"
  /\ UNCHANGED <<day, serverLeft, astray, attempt, answer, clients, verdicts, below>>

\* The process has ended, failed or was killed, and is started again.
NewClient ==
  /\ clients < MaxClients
  /\ clients' = clients + 1
  /\ allowances' = allowances + 1
  /\ remaining' = Unknown /\ lastSeen' = day /\ stale' = FALSE
  /\ pc' = "idle" /\ attempt' = 1 /\ answer' = Unknown /\ verdicts' = <<>>
  /\ UNCHANGED <<day, serverLeft, astray, below>>

\* 00:00 UTC, whatever the client is doing.
Midnight ==
  /\ day < LastDay
  /\ day' = day + 1
  /\ serverLeft' = DailyQuota
  /\ below' = 0
  /\ allowances' = IF pc = "failed" THEN 0 ELSE 1
  /\ UNCHANGED <<astray, guard, pc, attempt, answer, clients, verdicts, stale>>

Done == pc = "failed" /\ clients = MaxClients /\ day = LastDay /\ UNCHANGED vars

Next ==
  \/ StartRequest \/ Refuse \/ Call \/ CountLate \/ Retry \/ Raise \/ Receive
  \/ NewClient \/ Midnight \/ Done

\* The limiter's sleep, the backoff and httpx's 30 s timeout all end, and the
\* client then goes on; nobody is obliged to send a request.
Fairness == WF_vars(Call) /\ WF_vars(Retry) /\ WF_vars(Raise) /\ WF_vars(Receive)

Spec == Init /\ [][Next]_vars /\ Fairness

-----------------------------------------------------------------------------
(* Properties *)

Left == 0..DailyQuota
Responses == [verdict : Transient \cup Refusals \cup Answers,
              left : Left \cup {Unknown}, day : 0..day]

\* Shapes of the state.
TypeOK ==
  /\ day \in 0..LastDay /\ lastSeen \in 0..day
  /\ serverLeft \in Left /\ astray \in 0..MaxAstray /\ remaining \in Left \cup {Unknown}
  /\ pc \in {"idle", "limiter", "answered", "failed"}
  /\ attempt \in 1..MaxAttempts
  /\ answer \in Responses \cup {Unknown}
  /\ pc = "answered" => answer \in Responses
  /\ clients \in Nat /\ below \in Nat /\ allowances \in Nat /\ stale \in BOOLEAN
  /\ verdicts \in Seq(Transient \cup Refusals \cup Answers)

\* The guard looks once per request, learns nothing from a call that fails and
\* forgets with its process.  What it still guarantees: with less than the
\* buffer left, a day sees at most MaxAttempts calls per process alive that day
\* (and per answer that came without the header).
OvershootBounded == below <= MaxAttempts * allowances

\* Why it is bounded, step by step, and with the next property why refusals are
\* justified.  Ahead is how many more calls the guard can let through without
\* being asked again or learning anything; the allowances of the day cover it.
\* A call below the buffer leaves the server there until midnight, so that a
\* header from above the buffer proves that there was no such call.
Ahead ==
  CASE pc = "idle"     -> IF TooLow THEN 0 ELSE MaxAttempts
    [] pc = "limiter"  -> MaxAttempts - attempt + 1
    [] pc = "answered" -> MaxAttempts - attempt
    [] OTHER           -> 0

AllowancesCoverAhead ==
  /\ below + Ahead <= MaxAttempts * allowances
  /\ pc # "failed" => allowances >= 1
  /\ below > 0 => serverLeft < SafetyBuffer
  /\ pc = "answered" =>
       /\ answer.day # day => below = 0
       /\ answer.day = day /\ answer.left # Unknown =>
            /\ serverLeft <= answer.left
            /\ answer.left >= SafetyBuffer => below = 0

\* What the guard believes of today was true once today, unless it is stale.
BeliefIsOfToday == RemainingToday # Unknown /\ ~stale => serverLeft <= remaining

\* Only a network error or a 5xx is followed by another call of the same
\* request; 429, 4xx and any 2xx end it, and there are at most MaxAttempts.
RetriesOnlyTransient ==
  /\ \A i \in 1..(Len(verdicts) - 1) : verdicts[i] \in Transient
  /\ Len(verdicts) <= MaxAttempts

\* The calls of a request counted against its attempts; inductive, and so the
\* reason for the bound above.
VerdictsFollowAttempts ==
  /\ pc = "limiter" =>
       /\ Len(verdicts) = attempt - 1
       /\ \A i \in 1..Len(verdicts) : verdicts[i] \in Transient
  /\ pc = "answered" =>
       /\ Len(verdicts) = attempt
       /\ verdicts[attempt] = answer.verdict
       /\ \A i \in 1..(attempt - 1) : verdicts[i] \in Transient

QuotaInv == TypeOK /\ AllowancesCoverAhead /\ BeliefIsOfToday
RetryInv == TypeOK /\ VerdictsFollowAttempts /\ RetriesOnlyTransient

\* A request is refused only on today's word: the quota really is below the
\* buffer, unless the word was given yesterday and came in after midnight.
RefusalIsJustified ==
  [][pc = "idle" /\ pc' = "failed" => serverLeft < SafetyBuffer \/ stale]_vars

\* Every request ends, in a payload or in an exception.
RequestEnds == (pc \in {"limiter", "answered"}) ~> (pc \in {"idle", "failed"})

\* quota_guard.py: "refusing to make another call once the remaining quota
\* drops below a safety buffer - before the call happens, not after".
CallsStopBelowBuffer == below = 0

\* quota_guard.py: the cap "resets at 00:00 UTC", so that a full quota is not
\* refused.
RefusesOnlyWhenLow ==
  [][pc = "idle" /\ pc' = "failed" => serverLeft < SafetyBuffer]_vars
=============================================================================
