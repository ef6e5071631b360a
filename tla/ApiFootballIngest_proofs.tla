----------------------- MODULE ApiFootballIngest_proofs -----------------------
(***************************************************************************)
(* Theorems of APIFootballClient, for every quota, buffer and number of    *)
(* attempts: the retry discipline, how far calls can go below the buffer,  *)
(* and when a refusal is justified.  Then those of ApiFootballIngest, which*)
(* runs on it, for every list of teams and every sound database it may     *)
(* find.                                                                   *)
(***************************************************************************)
EXTENDS ApiFootballIngest, CoreSchema_proofs, SequenceTheorems

-----------------------------------------------------------------------------
(* The client alone: types *)

\* The initial state has its types.
LEMMA QuotaInitType == Init => TypeOK
<1> SUFFICES ASSUME Init PROVE TypeOK
  OBVIOUS
<1> USE QuotaAssumption DEF Init
<1>1. verdicts \in Seq(Transient \cup Refusals \cup Answers)
  BY EmptySeq
<1>2. answer \in Responses \cup {Unknown}
  OBVIOUS
<1>3. day \in 0..LastDay /\ lastSeen \in 0..day
  OBVIOUS
<1>4. serverLeft \in Left /\ remaining \in Left \cup {Unknown}
  BY DEF Left
<1>8. astray \in 0..MaxAstray
  OBVIOUS
<1>5. attempt \in 1..MaxAttempts
  OBVIOUS
<1>6. clients \in Nat /\ below \in Nat /\ allowances \in Nat
  OBVIOUS
<1>7. stale \in BOOLEAN
  OBVIOUS
<1> QED
  BY <1>1, <1>2, <1>3, <1>4, <1>5, <1>6, <1>7, <1>8 DEF TypeOK

\* What the provider grants after one call more.
LEMMA OneLessIsLess ==
  ASSUME serverLeft \in Left
  PROVE  /\ OneLess \in Left /\ OneLess \in Nat /\ OneLess <= serverLeft
         /\ serverLeft <= OneLess + 1
BY QuotaAssumption DEF OneLess, Left

\* What a call comes to, for the server and for the client.
LEMMA CallAnswers ==
  ASSUME TypeOK, Call
  PROVE  /\ pc = "limiter" /\ pc' = "answered"
         /\ day' = day /\ guard' = guard /\ attempt' = attempt /\ clients' = clients
         /\ allowances' = allowances /\ stale' = stale
         /\ below' = IF serverLeft < SafetyBuffer THEN below + 1 ELSE below
         /\ \/ serverLeft' = OneLess /\ astray' = astray
            \/ serverLeft' = serverLeft /\ astray' = astray
            \/ serverLeft' = serverLeft /\ astray < MaxAstray /\ astray' = astray + 1
         /\ serverLeft' \in Left /\ serverLeft' <= serverLeft
         /\ \E verdict \in Transient \cup Refusals \cup Answers,
               left \in Left \cup {Unknown} :
              /\ answer' = [verdict |-> verdict, left |-> left, day |-> day]
              /\ left # Unknown => left = serverLeft'
              /\ verdicts' = Append(verdicts, verdict)
<1>1. /\ pc = "limiter" /\ pc' = "answered"
      /\ day' = day /\ guard' = guard /\ attempt' = attempt /\ clients' = clients
      /\ allowances' = allowances /\ stale' = stale
      /\ below' = IF serverLeft < SafetyBuffer THEN below + 1 ELSE below
  BY DEF Call
<1>2. PICK verdict \in Transient \cup Refusals \cup Answers,
           counted \in BOOLEAN, reports \in BOOLEAN :
        /\ serverLeft' = IF counted THEN OneLess ELSE serverLeft
        /\ astray' = IF verdict = "network error" /\ ~counted /\ astray < MaxAstray
                       THEN astray + 1 ELSE astray
        /\ answer' = [verdict |-> verdict,
                      left |-> IF reports
                                 THEN IF counted THEN OneLess ELSE serverLeft
                                 ELSE Unknown,
                      day |-> day]
        /\ verdicts' = Append(verdicts, verdict)
  BY Zenon DEF Call
<1>3. serverLeft \in Left /\ serverLeft \in Nat
  BY QuotaAssumption DEF TypeOK, Left
<1>4. serverLeft' \in Left /\ serverLeft' <= serverLeft
  <2>1. OneLess \in Left /\ OneLess <= serverLeft /\ serverLeft <= serverLeft
    BY <1>3, OneLessIsLess
  <2>2. serverLeft' = OneLess \/ serverLeft' = serverLeft
    BY <1>2
  <2> QED
    BY <1>3, <2>1, <2>2
<1>5. \/ serverLeft' = OneLess /\ astray' = astray
      \/ serverLeft' = serverLeft /\ astray' = astray
      \/ serverLeft' = serverLeft /\ astray < MaxAstray /\ astray' = astray + 1
  BY <1>2
<1> DEFINE left == IF reports THEN serverLeft' ELSE Unknown
<1>6. /\ answer' = [verdict |-> verdict, left |-> left, day |-> day]
      /\ left # Unknown => left = serverLeft'
      /\ left \in Left \cup {Unknown}
  BY <1>2, <1>4
<1> HIDE DEF left
<1> QED
  BY <1>1, <1>2, <1>4, <1>5, <1>6

\* Every step keeps the types: one step of the proof per action.
LEMMA QuotaStepType == TypeOK /\ [Next]_vars => TypeOK'
<1> SUFFICES ASSUME TypeOK, [Next]_vars PROVE TypeOK'
  OBVIOUS
<1> USE QuotaAssumption DEF TypeOK, Left, Responses, guard, history
<1>1. CASE StartRequest
  BY <1>1, EmptySeq DEF StartRequest, RemainingToday
<1>2. CASE Refuse
  BY <1>2 DEF Refuse
<1>3. CASE Call
  <2> PICK verdict \in Transient \cup Refusals \cup Answers,
           left \in Left \cup {Unknown} :
        /\ answer' = [verdict |-> verdict, left |-> left, day |-> day]
        /\ verdicts' = Append(verdicts, verdict)
    BY <1>3, CallAnswers
  <2>1. serverLeft' \in 0..DailyQuota /\ astray' \in 0..MaxAstray /\ below' \in Nat
    BY <1>3, CallAnswers
  <2>2. answer' \in [verdict : Transient \cup Refusals \cup Answers,
                     left : 0..DailyQuota \cup {Unknown}, day : 0..day]
    OBVIOUS
  <2>3. verdicts' \in Seq(Transient \cup Refusals \cup Answers)
    BY AppendProperties
  <2>4. /\ pc' = "answered" /\ day' = day /\ lastSeen' = lastSeen /\ remaining' = remaining
        /\ attempt' = attempt /\ clients' = clients /\ allowances' = allowances
        /\ stale' = stale
    BY <1>3, CallAnswers
  <2> QED
    BY <2>1, <2>2, <2>3, <2>4
<1>4. CASE Retry
  BY <1>4 DEF Retry
<1>5. CASE Raise
  BY <1>5 DEF Raise
<1>6. CASE Receive
  <2>1. answer.left \in Left \cup {Unknown}
    BY <1>6 DEF Receive
  <2>2. CASE answer.left = Unknown
    BY <1>6, <2>2 DEF Receive
  <2>3. CASE answer.left # Unknown
    <3>1. remaining' \in Left \cup {Unknown} /\ lastSeen' \in 0..day' /\ stale' \in BOOLEAN
      BY <1>6, <2>1, <2>3 DEF Receive, Record
    <3> QED
      BY <1>6, <2>3, <3>1 DEF Receive, Record
  <2> QED
    BY <2>2, <2>3
<1>7. CASE NewClient
  <2>1. verdicts' \in Seq(Transient \cup Refusals \cup Answers)
    BY <1>7, EmptySeq DEF NewClient
  <2>2. answer' \in Responses' \cup {Unknown}
    BY <1>7 DEF NewClient
  <2>3. stale' \in BOOLEAN
    BY <1>7 DEF NewClient
  <2>4. lastSeen' \in 0..day' /\ remaining' \in Left \cup {Unknown}
    BY <1>7 DEF NewClient
  <2>5. clients' \in Nat /\ allowances' \in Nat /\ attempt' \in 1..MaxAttempts
    BY <1>7 DEF NewClient
  <2> QED
    BY <1>7, <2>1, <2>2, <2>3, <2>4, <2>5 DEF NewClient
<1>8. CASE Midnight
  <2>1. 0..day \subseteq 0..(day + 1) /\ day + 1 \in 0..LastDay
    BY <1>8 DEF Midnight
  <2> QED
    BY <1>8, <2>1 DEF Midnight
<1>10. CASE CountLate
  <2>1. OneLess \in 0..DailyQuota /\ astray - 1 \in 0..MaxAstray
    BY <1>10, OneLessIsLess DEF CountLate
  <2> QED
    BY <1>10, <2>1 DEF CountLate
<1>9. CASE Done \/ UNCHANGED vars
  BY <1>9 DEF Done, vars
<1> QED
  BY <1>1, <1>2, <1>3, <1>4, <1>5, <1>6, <1>7, <1>8, <1>9, <1>10 DEF Next

\* The state keeps its shape: types of every variable, under every step of
\* the guard, the client, the server and the clock.
THEOREM QuotaTypes == Spec => []TypeOK
BY QuotaInitType, QuotaStepType, PTL DEF Spec

-----------------------------------------------------------------------------
(* The retry discipline *)

\* A request has made one call per attempt, and all but the last one failed in
\* a way that is retried: preserved by every step.
LEMMA RetryStep == RetryInv /\ [Next]_vars => RetryInv'
<1> SUFFICES ASSUME RetryInv, [Next]_vars PROVE RetryInv'
  OBVIOUS
<1>1. TypeOK /\ TypeOK'
  BY QuotaStepType DEF RetryInv
<1>2. /\ verdicts \in Seq(Transient \cup Refusals \cup Answers)
      /\ Len(verdicts) \in Nat
      /\ attempt \in 1..MaxAttempts
      /\ MaxAttempts \in Nat \ {0}
  BY <1>1, QuotaAssumption, LenProperties DEF TypeOK
<1> SUFFICES VerdictsFollowAttempts' /\ RetriesOnlyTransient'
  BY <1>1 DEF RetryInv
<1> USE DEF RetryInv, VerdictsFollowAttempts, RetriesOnlyTransient
<1>3. CASE StartRequest
  <2>1. verdicts' = <<>> /\ pc' = "limiter" /\ attempt' = 1
    BY <1>3 DEF StartRequest
  <2> QED
    BY <2>1, <1>2
<1>4. CASE Refuse
  BY <1>2, <1>4 DEF Refuse
<1>5. CASE Call
  <2> PICK verdict \in Transient \cup Refusals \cup Answers :
        /\ answer'.verdict = verdict
        /\ verdicts' = Append(verdicts, verdict)
    BY <1>1, <1>5, CallAnswers
  <2>1. pc = "limiter" /\ pc' = "answered" /\ attempt' = attempt
    BY <1>1, <1>5, CallAnswers
  <2>2. /\ Len(verdicts') = attempt
        /\ \A i \in 1..(attempt - 1) : verdicts'[i] = verdicts[i]
        /\ verdicts'[attempt] = verdict
    BY <1>2, <2>1, AppendProperties
  <2> QED
    BY <1>2, <2>1, <2>2
<1>6. CASE Retry
  <2>1. /\ pc = "answered" /\ pc' = "limiter" /\ attempt' = attempt + 1
        /\ attempt < MaxAttempts /\ answer.verdict \in Transient
        /\ verdicts' = verdicts
    BY <1>6 DEF Retry, history
  <2>2. \A i \in 1..attempt : verdicts[i] \in Transient
    BY <1>2, <2>1
  <2> QED
    BY <1>2, <2>1, <2>2
<1>7. CASE Raise
  BY <1>2, <1>7 DEF Raise, history
<1>8. CASE Receive
  BY <1>2, <1>8 DEF Receive, history
<1>9. CASE NewClient
  <2>1. verdicts' = <<>> /\ pc' = "idle"
    BY <1>9 DEF NewClient
  <2> QED
    BY <2>1, <1>2
<1>10. CASE Midnight
  BY <1>2, <1>10 DEF Midnight
<1>11. CASE CountLate \/ Done \/ UNCHANGED vars
  BY <1>2, <1>11 DEF CountLate, Done, vars, history
<1> QED
  BY <1>3, <1>4, <1>5, <1>6, <1>7, <1>8, <1>9, <1>10, <1>11 DEF Next

\* Only network errors and 5xx are followed by another call of the request, and
\* no request makes more than MaxAttempts calls.
THEOREM RetryDiscipline == Spec => []RetriesOnlyTransient
<1>1. Init => RetryInv
  <2> SUFFICES ASSUME Init PROVE RetryInv
    OBVIOUS
  <2>1. TypeOK
    BY QuotaInitType
  <2>2. verdicts = <<>> /\ pc = "idle" /\ MaxAttempts \in Nat
    BY QuotaAssumption DEF Init
  <2> QED
    BY <2>1, <2>2 DEF RetryInv, VerdictsFollowAttempts, RetriesOnlyTransient
<1>2. RetryInv => RetriesOnlyTransient
  BY DEF RetryInv
<1> QED
  BY <1>1, <1>2, RetryStep, PTL DEF Spec

-----------------------------------------------------------------------------
(* The quota *)

\* Linear facts about MaxAttempts * k, a product the SMT solver leaves opaque.
LEMMA AllowanceArithmetic ==
  ASSUME NEW k \in Nat
  PROVE  /\ MaxAttempts * k \in Nat
         /\ MaxAttempts * (k + 1) = MaxAttempts * k + MaxAttempts
         /\ MaxAttempts * 0 = 0 /\ MaxAttempts * 1 = MaxAttempts
         /\ k >= 1 => MaxAttempts * k >= MaxAttempts
<1>1. MaxAttempts \in Nat
  BY QuotaAssumption
<1>2. MaxAttempts * (k + 1) = MaxAttempts * k + MaxAttempts
  BY <1>1
<1>3. MaxAttempts * k \in Nat
  BY <1>1
<1>4. MaxAttempts * 0 = 0 /\ MaxAttempts * 1 = MaxAttempts
  BY <1>1
<1>5. ASSUME k >= 1 PROVE MaxAttempts * k >= MaxAttempts
  <2>1. k - 1 \in Nat /\ (k - 1) + 1 = k
    BY <1>5
  <2>2. MaxAttempts * ((k - 1) + 1) = MaxAttempts * (k - 1) + MaxAttempts
    BY <1>1, <2>1
  <2>3. MaxAttempts * (k - 1) \in Nat
    BY <1>1, <2>1
  <2> QED
    BY <1>1, <2>1, <2>2, <2>3
<1> QED
  BY <1>2, <1>3, <1>4, <1>5

\* Numbers are numbers: what the arithmetic below needs of the types.
LEMMA QuotaNumbers ==
  ASSUME TypeOK
  PROVE  /\ serverLeft \in Nat /\ serverLeft \in Left /\ astray \in Nat
         /\ below \in Nat /\ allowances \in Nat
         /\ day \in Nat /\ lastSeen \in Nat /\ lastSeen <= day
         /\ attempt \in Nat /\ 1 <= attempt /\ attempt <= MaxAttempts
         /\ MaxAttempts \in Nat /\ SafetyBuffer \in Nat
         /\ remaining # Unknown => remaining \in Nat
         /\ pc \in {"idle", "limiter", "answered", "failed"}
         /\ pc = "answered" =>
              /\ answer.day \in Nat /\ answer.day <= day
              /\ answer.left # Unknown => answer.left \in Nat
BY QuotaAssumption DEF TypeOK, Left, Responses

\* A fresh process on the first day has one allowance and knows nothing.
LEMMA QuotaInitInv == Init => QuotaInv
<1> SUFFICES ASSUME Init PROVE QuotaInv
  OBVIOUS
<1>1. TypeOK
  BY QuotaInitType
<1>2. ~TooLow /\ RemainingToday = Unknown
  BY DEF Init, TooLow, RemainingToday
<1>3. MaxAttempts \in Nat /\ MaxAttempts * 1 = MaxAttempts
  BY QuotaAssumption, AllowanceArithmetic
<1>4. below = 0 /\ allowances = 1 /\ pc = "idle"
  BY DEF Init
<1>5. Ahead = MaxAttempts
  BY <1>2, <1>4 DEF Ahead
<1>6. AllowancesCoverAhead
  BY <1>3, <1>4, <1>5 DEF AllowancesCoverAhead
<1> QED
  BY <1>1, <1>2, <1>6 DEF QuotaInv, BeliefIsOfToday

\* The allowances of a day cover the calls made below the buffer and those still
\* to come: preserved by every step.
LEMMA AllowancesStep == QuotaInv /\ [Next]_vars => AllowancesCoverAhead'
<1> SUFFICES ASSUME QuotaInv, [Next]_vars PROVE AllowancesCoverAhead'
  OBVIOUS
<1>1. TypeOK /\ TypeOK' /\ AllowancesCoverAhead
  BY QuotaStepType DEF QuotaInv
<1> DEFINE room == MaxAttempts * allowances
<1>2. /\ room \in Nat
      /\ MaxAttempts * (allowances + 1) = room + MaxAttempts
      /\ MaxAttempts * 1 = MaxAttempts /\ MaxAttempts * 0 = 0
      /\ allowances >= 1 => room >= MaxAttempts
  BY <1>1, QuotaNumbers, AllowanceArithmetic
<1>3. below + Ahead <= room
  BY <1>1 DEF AllowancesCoverAhead
<1>4. /\ pc = "idle" /\ ~TooLow => Ahead = MaxAttempts
      /\ pc = "limiter" => Ahead = MaxAttempts - attempt + 1
      /\ pc = "answered" => Ahead = MaxAttempts - attempt
      /\ below <= room
  <2>1. Ahead \in Nat
    BY <1>1, QuotaNumbers DEF Ahead
  <2> QED
    BY <1>1, <1>2, <1>3, <2>1, QuotaNumbers DEF Ahead
<1>5. /\ pc' = "limiter" => Ahead' = MaxAttempts - attempt' + 1
      /\ pc' = "answered" => Ahead' = MaxAttempts - attempt'
      /\ pc' = "failed" => Ahead' = 0
      /\ Ahead' \in Nat /\ Ahead' <= MaxAttempts
      /\ pc' = "idle" /\ TooLow' => Ahead' = 0
  <2>1. attempt' \in 1..MaxAttempts /\ MaxAttempts \in Nat
    BY <1>1, QuotaAssumption DEF TypeOK
  <2>2. pc' \in {"idle", "limiter", "answered", "failed"}
    BY <1>1 DEF TypeOK
  <2> QED
    BY <2>1, <2>2 DEF Ahead
<1> HIDE DEF room
<1>6. CASE StartRequest
  <2>1. /\ pc = "idle" /\ ~TooLow /\ pc' = "limiter" /\ attempt' = 1
        /\ below' = below /\ allowances' = allowances /\ serverLeft' = serverLeft
    BY <1>6 DEF StartRequest
  <2>2. below' + Ahead' <= room
    BY <1>1, <1>2, <1>3, <1>4, <1>5, <2>1, QuotaNumbers
  <2> QED
    BY <1>1, <2>1, <2>2 DEF AllowancesCoverAhead, room
<1>7. CASE Refuse
  <2>1. /\ pc' = "failed" /\ below' = below /\ allowances' = allowances
        /\ serverLeft' = serverLeft
    BY <1>7 DEF Refuse, history
  <2>2. below' + Ahead' <= room
    BY <1>1, <1>2, <1>4, <1>5, <2>1, QuotaNumbers
  <2> QED
    BY <1>1, <2>1, <2>2 DEF AllowancesCoverAhead, room
<1>8. CASE Call
  <2>1. /\ pc = "limiter" /\ pc' = "answered" /\ attempt' = attempt /\ day' = day
        /\ allowances' = allowances
        /\ below' = IF serverLeft < SafetyBuffer THEN below + 1 ELSE below
    BY <1>1, <1>8, CallAnswers
  <2>2. serverLeft' <= serverLeft
    BY <1>1, <1>8, CallAnswers
  <2>3. below' + Ahead' <= room
    BY <1>1, <1>2, <1>3, <1>4, <1>5, <2>1, QuotaNumbers
  <2>4. below' > 0 => serverLeft' < SafetyBuffer
    <3>1. serverLeft' \in Nat
      BY <1>1, QuotaNumbers DEF TypeOK, Left
    <3> QED
      BY <1>1, <2>1, <2>2, <3>1, QuotaNumbers DEF AllowancesCoverAhead
  <2>5. /\ answer'.day = day'
        /\ answer'.left # Unknown => answer'.left = serverLeft' /\ serverLeft' \in Nat
    BY <1>1, <1>8, CallAnswers, QuotaAssumption DEF Left
  <2>6. answer'.left # Unknown /\ answer'.left >= SafetyBuffer => below' = 0
    <3>1. below' \in Nat /\ SafetyBuffer \in Nat
      BY <1>1, <2>1, QuotaNumbers
    <3> QED
      BY <2>4, <2>5, <3>1
  <2> QED
    BY <1>1, <2>1, <2>3, <2>4, <2>5, <2>6 DEF AllowancesCoverAhead, room
<1>9. CASE Retry
  <2>1. /\ pc = "answered" /\ pc' = "limiter" /\ attempt' = attempt + 1
        /\ below' = below /\ allowances' = allowances /\ serverLeft' = serverLeft
    BY <1>9 DEF Retry, history
  <2>2. below' + Ahead' <= room
    BY <1>1, <1>2, <1>3, <1>4, <1>5, <2>1, QuotaNumbers
  <2> QED
    BY <1>1, <2>1, <2>2 DEF AllowancesCoverAhead, room
<1>10. CASE Raise
  <2>1. /\ pc' = "failed" /\ below' = below /\ allowances' = allowances
        /\ serverLeft' = serverLeft
    BY <1>10 DEF Raise, history
  <2>2. below' + Ahead' <= room
    BY <1>1, <1>2, <1>4, <1>5, <2>1, QuotaNumbers
  <2> QED
    BY <1>1, <2>1, <2>2 DEF AllowancesCoverAhead, room
<1>11. CASE Receive
  <2>1. /\ pc = "answered" /\ pc' \in {"idle", "failed"} /\ day' = day
        /\ below' = below /\ serverLeft' = serverLeft
    BY <1>11 DEF Receive
  <2>2. CASE answer.left = Unknown
    <3>1. allowances' = allowances + 1
      BY <1>11, <2>2 DEF Receive
    <3>2. below' + Ahead' <= room + MaxAttempts
      BY <1>1, <1>2, <1>4, <1>5, <2>1, QuotaNumbers
    <3> QED
      BY <1>1, <1>2, <2>1, <3>1, <3>2, QuotaNumbers DEF AllowancesCoverAhead
  <2>3. CASE answer.left # Unknown
    <3>1. allowances' = allowances /\ remaining' = answer.left /\ lastSeen' = day
      BY <1>11, <2>3 DEF Receive, Record
    <3>2. CASE TooLow' \/ pc' = "failed"
      <4>1. below' + Ahead' <= room
        BY <1>1, <1>2, <1>4, <1>5, <2>1, <3>2, QuotaNumbers
      <4> QED
        BY <1>1, <2>1, <3>1, <4>1 DEF AllowancesCoverAhead, room
    <3>3. CASE ~TooLow' /\ pc' = "idle"
      <4>1. answer.left >= SafetyBuffer
        <5>1. RemainingToday' = answer.left
          BY <2>1, <3>1 DEF RemainingToday
        <5>2. ~(answer.left < SafetyBuffer)
          BY <2>3, <3>3, <5>1 DEF TooLow
        <5>3. answer.left \in Nat /\ SafetyBuffer \in Nat
          BY <1>1, <2>1, <2>3, QuotaNumbers
        <5> QED
          BY <5>2, <5>3
      <4>2. below = 0
        BY <1>1, <2>1, <2>3, <4>1 DEF AllowancesCoverAhead
      <4>3. allowances >= 1
        BY <1>1, <2>1 DEF AllowancesCoverAhead
      <4>4. below' + Ahead' <= room
        <5>1. MaxAttempts \in Nat /\ room \in Nat /\ room >= MaxAttempts
          BY <1>1, <1>2, <4>3, QuotaNumbers
        <5>2. below' = 0 /\ Ahead' \in Nat /\ Ahead' <= MaxAttempts
          BY <1>5, <2>1, <4>2
        <5>3. ASSUME NEW b, NEW a \in Nat, b = 0, a <= MaxAttempts
              PROVE  b + a <= room
          BY <5>1, <5>3
        <5> QED
          BY <5>2, <5>3
      <4> QED
        BY <1>1, <2>1, <3>1, <4>3, <4>4 DEF AllowancesCoverAhead, room
    <3> QED
      BY <2>1, <3>2, <3>3
  <2> QED
    BY <2>2, <2>3
<1>12. CASE NewClient
  <2>1. /\ pc' = "idle" /\ below' = below /\ allowances' = allowances + 1
        /\ serverLeft' = serverLeft
    BY <1>12 DEF NewClient
  <2>2. below' + Ahead' <= room + MaxAttempts
    BY <1>1, <1>2, <1>4, <1>5, <2>1, QuotaNumbers
  <2> QED
    BY <1>1, <1>2, <2>1, <2>2, QuotaNumbers DEF AllowancesCoverAhead
<1>13. CASE Midnight
  <2>1. /\ day' = day + 1 /\ below' = 0 /\ pc' = pc /\ answer' = answer
        /\ allowances' = IF pc = "failed" THEN 0 ELSE 1
    BY <1>13 DEF Midnight
  <2>2. MaxAttempts * allowances' = IF pc = "failed" THEN 0 ELSE MaxAttempts
    BY <1>2, <2>1
  <2>3. below' + Ahead' <= MaxAttempts * allowances'
    BY <1>1, <1>5, <2>1, <2>2, QuotaNumbers
  <2>4. pc' = "answered" => answer'.day # day'
    BY <1>1, <2>1, QuotaNumbers
  <2>5. pc' # "failed" => allowances' >= 1
    BY <2>1
  <2> QED
    BY <2>1, <2>3, <2>4, <2>5 DEF AllowancesCoverAhead
<1>15. CASE CountLate
  <2>1. /\ pc' = pc /\ day' = day /\ below' = below /\ allowances' = allowances
        /\ answer' = answer /\ Ahead' = Ahead
        /\ serverLeft' = OneLess
    BY <1>15 DEF CountLate, guard, history, Ahead, TooLow, RemainingToday
  <2>2. serverLeft' \in Nat /\ serverLeft' <= serverLeft
    BY <1>1, <2>1, QuotaNumbers, OneLessIsLess
  <2>3. below > 0 => serverLeft' < SafetyBuffer
    BY <1>1, <2>2, QuotaNumbers DEF AllowancesCoverAhead
  <2>4. pc = "answered" /\ answer.day = day /\ answer.left # Unknown
          => serverLeft' <= answer.left
    BY <1>1, <2>2, QuotaNumbers DEF AllowancesCoverAhead
  <2> QED
    BY <1>1, <2>1, <2>3, <2>4 DEF AllowancesCoverAhead
<1>14. CASE Done \/ UNCHANGED vars
  <2>1. /\ pc' = pc /\ day' = day /\ below' = below /\ allowances' = allowances
        /\ serverLeft' = serverLeft /\ answer' = answer /\ Ahead' = Ahead
    BY <1>14 DEF Done, vars, guard, history, Ahead, TooLow, RemainingToday
  <2> QED
    BY <1>1, <2>1 DEF AllowancesCoverAhead
<1> QED
  BY <1>6, <1>7, <1>8, <1>9, <1>10, <1>11, <1>12, <1>13, <1>14, <1>15 DEF Next

\* What the guard knows is of today, or marked stale: preserved by every step.
LEMMA BeliefStep == QuotaInv /\ [Next]_vars => BeliefIsOfToday'
<1> SUFFICES ASSUME QuotaInv, [Next]_vars, RemainingToday' # Unknown, ~stale'
             PROVE  serverLeft' <= remaining'
  BY DEF BeliefIsOfToday
<1>1. TypeOK /\ BeliefIsOfToday /\ AllowancesCoverAhead
  BY DEF QuotaInv
<1>2. /\ serverLeft \in Nat /\ day \in Nat /\ lastSeen \in Nat /\ lastSeen <= day
      /\ remaining # Unknown => remaining \in Nat
  BY <1>1, QuotaNumbers
<1>3. day' = lastSeen' /\ remaining' # Unknown
  BY DEF RemainingToday
<1>4. ASSUME day = lastSeen, remaining # Unknown, ~stale PROVE serverLeft <= remaining
  BY <1>1, <1>4 DEF BeliefIsOfToday, RemainingToday
<1>5. CASE StartRequest
  BY <1>3, <1>4, <1>5 DEF StartRequest, RemainingToday
<1>6. CASE Refuse \/ Retry \/ Raise \/ Done \/ UNCHANGED vars
  BY <1>3, <1>4, <1>6 DEF Refuse, Retry, Raise, Done, vars, guard, history
<1>7. CASE Call
  <2>1. /\ day' = day /\ lastSeen' = lastSeen /\ remaining' = remaining /\ stale' = stale
        /\ serverLeft' \in Nat /\ serverLeft' <= serverLeft
    BY <1>1, <1>7, CallAnswers, QuotaAssumption DEF Left, guard
  <2>2. remaining \in Nat /\ serverLeft <= remaining
    BY <1>2, <1>3, <1>4, <2>1
  <2> QED
    BY <1>2, <2>1, <2>2
<1>8. CASE Receive
  <2>1. pc = "answered" /\ day' = day /\ serverLeft' = serverLeft
    BY <1>8 DEF Receive
  <2>2. CASE answer.left = Unknown
    BY <1>3, <1>4, <1>8, <2>1, <2>2 DEF Receive, guard
  <2>3. CASE answer.left # Unknown
    <3>1. remaining' = answer.left /\ stale' = (answer.day # day)
      BY <1>8, <2>3 DEF Receive, Record
    <3>2. serverLeft <= answer.left
      BY <1>1, <2>1, <2>3, <3>1 DEF AllowancesCoverAhead
    <3> QED
      BY <1>2, <2>1, <3>1, <3>2
  <2> QED
    BY <2>2, <2>3
<1>9. CASE NewClient
  BY <1>3, <1>9 DEF NewClient
<1>11. CASE CountLate
  <2>1. /\ day' = day /\ lastSeen' = lastSeen /\ remaining' = remaining /\ stale' = stale
        /\ serverLeft' \in Nat /\ serverLeft' <= serverLeft
    BY <1>1, <1>11, QuotaNumbers, OneLessIsLess DEF CountLate, guard, history
  <2>2. remaining \in Nat /\ serverLeft <= remaining
    BY <1>2, <1>3, <1>4, <2>1
  <2> QED
    BY <1>2, <2>1, <2>2
<1>10. CASE Midnight
  <2>1. day' = day + 1 /\ lastSeen' = lastSeen
    BY <1>10 DEF Midnight, guard
  <2>2. day + 1 = lastSeen
    BY <1>3, <2>1
  <2>3. FALSE
    BY <1>2, <2>2
  <2> QED
    BY <2>3
<1> QED
  BY <1>5, <1>6, <1>7, <1>8, <1>9, <1>10, <1>11 DEF Next

\* The inductive invariant of the quota guard.
THEOREM QuotaInvariant == Spec => []QuotaInv
<1>1. QuotaInv /\ [Next]_vars => QuotaInv'
  BY QuotaStepType, AllowancesStep, BeliefStep DEF QuotaInv
<1> QED
  BY <1>1, QuotaInitInv, PTL DEF Spec

\* With less than the buffer left, a day sees at most MaxAttempts calls for
\* every process alive that day and every answer without a header.
THEOREM QuotaOvershoot == Spec => []OvershootBounded
<1>1. QuotaInv => OvershootBounded
  <2> SUFFICES ASSUME QuotaInv PROVE OvershootBounded
    OBVIOUS
  <2>1. TypeOK /\ below + Ahead <= MaxAttempts * allowances
    BY DEF QuotaInv, AllowancesCoverAhead
  <2>2. /\ below \in Nat /\ Ahead \in Nat
        /\ MaxAttempts * allowances \in Nat
    BY <2>1, QuotaNumbers, AllowanceArithmetic DEF Ahead
  <2> QED
    BY <2>1, <2>2 DEF OvershootBounded
<1> QED
  BY <1>1, QuotaInvariant, PTL

\* A request is refused only when the day's quota really is below the buffer, or
\* on a count issued the day before.
THEOREM QuotaRefusals == Spec => RefusalIsJustified
<1>1. QuotaInv /\ [Next]_vars
        => [pc = "idle" /\ pc' = "failed" => serverLeft < SafetyBuffer \/ stale]_vars
  <2> SUFFICES ASSUME QuotaInv, Next, pc = "idle", pc' = "failed"
               PROVE  serverLeft < SafetyBuffer \/ stale
    OBVIOUS
  <2>1. TooLow
    BY DEF Next, StartRequest, Refuse, Call, CountLate, Retry, Raise, Receive, NewClient,
           Midnight, Done, vars
  <2>2. RemainingToday # Unknown /\ RemainingToday < SafetyBuffer /\ remaining = RemainingToday
    BY <2>1 DEF TooLow, RemainingToday
  <2>3. CASE ~stale
    <3>1. serverLeft <= remaining
      BY <2>2, <2>3 DEF QuotaInv, BeliefIsOfToday
    <3>2. serverLeft \in Nat /\ remaining \in Nat /\ SafetyBuffer \in Nat
      BY <2>2, QuotaNumbers DEF QuotaInv
    <3> QED
      BY <2>2, <3>1, <3>2
  <2> QED
    BY <2>3
<1> QED
  BY <1>1, QuotaInvariant, PTL DEF Spec, RefusalIsJustified

-----------------------------------------------------------------------------
(* The client under the ingest *)

\* Whatever the ingest does, its client does a step of its own specification or
\* none: what is proved of the client alone holds of it here.
LEMMA ClientStep == [IngestNext]_ingestVars => [Next]_vars
<1> SUFFICES ASSUME [IngestNext]_ingestVars PROVE [Next]_vars
  OBVIOUS
<1>1. CASE AskTeams \/ AskStatistics
  BY <1>1 DEF AskTeams, AskStatistics, Next
<1>2. CASE OnCall
  BY <1>2 DEF OnCall, Next
<1>3. CASE NoTeams \/ SeasonMissing \/ OpenSession \/ NoStatistics \/ StoreStatistics
  BY <1>3 DEF NoTeams, SeasonMissing, OpenSession, NoStatistics, StoreStatistics,
     Answered, Next
<1>4. CASE NoId \/ FlushRaises \/ CommitRaises
  BY <1>4 DEF NoId, FlushRaises, CommitRaises, Fail
<1>5. CASE Resolve \/ Commit
  BY <1>5 DEF Resolve, Commit
<1>6. CASE Refused \/ RequestFails
  BY <1>6 DEF Refused, RequestFails, Next
<1>7. CASE NewRun \/ MidnightPasses \/ CountedLate
  BY <1>7 DEF NewRun, MidnightPasses, CountedLate, Next
<1>8. CASE AllDone \/ UNCHANGED ingestVars
  BY <1>8 DEF AllDone, ingestVars
<1> QED
  BY <1>1, <1>2, <1>3, <1>4, <1>5, <1>6, <1>7, <1>8 DEF IngestNext, IngestStep

\* The quota of the client, under the ingest.
LEMMA IngestQuota == IngestSpec => []QuotaInv
<1>1. IngestInit => QuotaInv
  BY QuotaInitInv DEF IngestInit
<1>2. QuotaInv /\ [IngestNext]_ingestVars => QuotaInv'
  BY ClientStep, QuotaStepType, AllowancesStep, BeliefStep DEF QuotaInv
<1> QED
  BY <1>1, <1>2, PTL DEF IngestSpec

-----------------------------------------------------------------------------
(* Where a run stands, and what it has spent *)

\* The stages and the client's program point, the list and the entry.
StageHolds ==
  /\ stage \in Stages /\ year \in Years
  /\ listing \in Listings \cup {<<>>}
  /\ entry \in 1..(Len(listing) + 1)
  /\ stage \in {"resolved", "stats"} => entry <= Len(listing)
  /\ stage \in {"teams", "stats"} <=> pc \in {"limiter", "answered"}

LEMMA StageNames ==
  /\ Over = {"refused", "client error", "no season", "key error", "integrity error", "ended"}
  /\ InTransaction = {"entries", "resolved", "stats"}
  /\ Stages = {"refused", "client error", "no season", "key error", "integrity error",
               "ended", "entries", "resolved", "stats", "start", "teams"}
BY DEF Over, Failures, InTransaction, Stages

LEMMA ListingLength ==
  ASSUME IngestAssumption, NEW l \in Listings \cup {<<>>}
  PROVE  Len(l) \in Nat /\ DOMAIN l = 1..Len(l)
BY DEF IngestAssumption

\* A run that ends leaves nothing of its transaction.
LEMMA NothingLeft ==
  ASSUME NoTransaction
  PROVE  listing' \in Listings \cup {<<>>} /\ entry' \in 1..(Len(listing') + 1)
BY DEF NoTransaction

LEMMA StageStep == TypeOK /\ StageHolds /\ [IngestNext]_ingestVars => StageHolds'
<1> SUFFICES ASSUME TypeOK, StageHolds, [IngestNext]_ingestVars PROVE StageHolds'
  OBVIOUS
<1>0. Len(listing) \in Nat /\ entry \in Nat
  <2>1. Len(listing) \in Nat
    BY ListingLength, IngestAssumption DEF StageHolds
  <2> QED
    BY <2>1 DEF StageHolds
<1>1. CASE AskTeams \/ AskStatistics
  BY <1>1, StageNames DEF AskTeams, AskStatistics, StartRequest, StageHolds, transaction
<1>2. CASE OnCall
  BY <1>2, StageNames DEF OnCall, Call, Retry, StageHolds, transaction
<1>3. CASE NoTeams \/ SeasonMissing
  BY <1>3, StageNames DEF NoTeams, SeasonMissing, Answered, Receive, StageHolds, transaction
<1>4. CASE OpenSession
  <2>1. /\ listing' \in Listings /\ entry' = 1 /\ stage' = "entries" /\ pc' = "idle"
        /\ year' = year
    BY <1>4 DEF OpenSession, Answered, Receive
  <2>2. Len(listing') \in Nat
    BY <2>1, ListingLength, IngestAssumption
  <2>3. entry' \in 1..(Len(listing') + 1)
    BY <2>1, <2>2
  <2> QED
    BY <2>1, <2>3, StageNames DEF StageHolds
<1>5. CASE NoStatistics \/ StoreStatistics
  <2>1. /\ listing' = listing /\ entry' = entry + 1 /\ stage' = "entries" /\ pc' = "idle"
        /\ year' = year /\ stage = "stats"
    BY <1>5 DEF NoStatistics, StoreStatistics, Answered, Receive
  <2>2. entry' \in 1..(Len(listing') + 1)
    BY <1>0, <2>1 DEF StageHolds
  <2> QED
    BY <2>1, <2>2, StageNames DEF StageHolds
<1>6. CASE NoId \/ FlushRaises \/ CommitRaises
  <2>1. NoTransaction /\ pc' = pc /\ year' = year
    BY <1>6 DEF NoId, FlushRaises, CommitRaises, Fail, vars
  <2>2. stage = "entries" /\ stage' \in {"key error", "integrity error"}
    BY <1>6 DEF NoId, FlushRaises, CommitRaises, Fail, InLoop
  <2> QED
    BY <2>1, <2>2, NothingLeft, StageNames DEF StageHolds
<1>7. CASE Resolve
  BY <1>0, <1>7, StageNames DEF Resolve, InLoop, StageHolds, vars
<1>8. CASE Commit
  <2>1. NoTransaction /\ pc' = pc /\ year' = year /\ stage = "entries" /\ stage' = "ended"
    BY <1>8 DEF Commit, vars
  <2> QED
    BY <2>1, NothingLeft, StageNames DEF StageHolds
<1>9. CASE Refused \/ RequestFails
  <2>1. NoTransaction /\ pc' = "failed" /\ year' = year /\ stage' \in {"refused", "client error"}
    BY <1>9 DEF Refused, RequestFails, Refuse, Raise, Receive
  <2> QED
    BY <2>1, NothingLeft, StageNames DEF StageHolds
<1>10. CASE NewRun
  <2>1. NoTransaction /\ pc' = "idle" /\ year' \in Years /\ stage' = "start"
    BY <1>10 DEF NewRun, NewClient
  <2> QED
    BY <2>1, NothingLeft, StageNames DEF StageHolds
<1>11. CASE MidnightPasses \/ CountedLate \/ AllDone \/ UNCHANGED ingestVars
  BY <1>11, StageNames DEF MidnightPasses, Midnight, CountedLate, CountLate, AllDone, ingestVars, vars, transaction, StageHolds
<1> QED
  BY <1>1, <1>2, <1>3, <1>4, <1>5, <1>6, <1>7, <1>8, <1>9, <1>10, <1>11
  DEF IngestNext, IngestStep

\* Requests answered since the run began; what the one under way has sent.
RequestsAnswered == IF stage \in {"start", "teams"} THEN 0 ELSE entry
UnderWay == CASE pc = "limiter"  -> attempt - 1
              [] pc = "answered" -> attempt
              [] OTHER           -> 0
Spent == MaxAttempts * RequestsAnswered

\* While the day of its beginning lasts, the quota has lost to a run no more
\* than MaxAttempts calls for each request, those still astray taken as counted,
\* and what the guard knows is no less than what was left when it learned it.
SpentBounded ==
  /\ began.day \in Nat /\ began.day <= day /\ began.left \in Int
  /\ pc = "answered" /\ stage \notin Over => began.day <= answer.day
  /\ stage \notin Over /\ began.day = day =>
       /\ began.left <= (serverLeft - astray) + Spent + UnderWay
       /\ RemainingToday # Unknown => began.left <= remaining + Spent

LEMMA SpentNumbers ==
  ASSUME StageHolds
  PROVE  /\ entry \in Nat /\ RequestsAnswered \in Nat /\ Spent \in Nat
         /\ RequestsAnswered = 0 => Spent = 0
         /\ RequestsAnswered' = RequestsAnswered => Spent' = Spent
         /\ RequestsAnswered' = RequestsAnswered + 1 => Spent' = Spent + MaxAttempts
<1>1. Len(listing) \in Nat
  BY ListingLength, IngestAssumption DEF StageHolds
<1>2. entry \in Nat /\ RequestsAnswered \in Nat
  BY <1>1 DEF StageHolds, RequestsAnswered
<1>3. Spent \in Nat /\ (RequestsAnswered = 0 => Spent = 0)
  BY <1>2, AllowanceArithmetic DEF Spent
<1>4. RequestsAnswered' = RequestsAnswered => Spent' = Spent
  BY DEF Spent
<1>5. MaxAttempts * (RequestsAnswered + 1) = Spent + MaxAttempts
  BY <1>2, AllowanceArithmetic DEF Spent
<1>6. RequestsAnswered' = RequestsAnswered + 1 => Spent' = Spent + MaxAttempts
  BY <1>5 DEF Spent
<1> QED
  BY <1>2, <1>3, <1>4, <1>6

LEMMA SpentStep ==
  QuotaInv /\ StageHolds /\ SpentBounded /\ [IngestNext]_ingestVars => SpentBounded'
<1> SUFFICES ASSUME QuotaInv, StageHolds, SpentBounded, [IngestNext]_ingestVars
             PROVE  SpentBounded'
  OBVIOUS
<1>1. /\ TypeOK /\ AllowancesCoverAhead
      /\ day \in Nat /\ serverLeft \in Nat /\ astray \in Nat /\ attempt \in Nat /\ attempt <= MaxAttempts
      /\ MaxAttempts \in Nat /\ (remaining # Unknown => remaining \in Nat)
  BY QuotaNumbers, QuotaAssumption DEF QuotaInv, TypeOK
<1>2. entry \in Nat /\ RequestsAnswered \in Nat /\ Spent \in Nat
  BY SpentNumbers
<1>3. /\ RequestsAnswered' = RequestsAnswered => Spent' = Spent
      /\ RequestsAnswered' = RequestsAnswered + 1 => Spent' = Spent + MaxAttempts
  BY SpentNumbers
<1>4. began.day \in Nat /\ began.day <= day /\ began.left \in Int
  BY DEF SpentBounded
<1>5. ASSUME began' = began, day' = day, stage \notin Over, RequestsAnswered' = RequestsAnswered,
             serverLeft' = serverLeft, astray' = astray, UnderWay' = UnderWay,
             pc' # "answered",
             RemainingToday' = RemainingToday,
             RemainingToday' # Unknown => remaining' = remaining
      PROVE  SpentBounded'
  <2>1. Spent' = Spent
    BY <1>3, <1>5
  <2> QED
    BY <1>5, <2>1 DEF SpentBounded
<1>6. CASE AskTeams \/ AskStatistics
  <2>1. /\ stage' \in {"teams", "stats"} /\ RequestsAnswered' = RequestsAnswered /\ stage \in {"start", "resolved"}
        /\ StartRequest /\ began' = began
    BY <1>6 DEF AskTeams, AskStatistics, RequestsAnswered, transaction
  <2>2. /\ UnderWay = 0 /\ UnderWay' = 0 /\ serverLeft' = serverLeft /\ day' = day
        /\ astray' = astray
        /\ pc' = "limiter"
    BY <2>1 DEF StartRequest, UnderWay
  <2>3. RemainingToday' = RemainingToday /\ (RemainingToday' # Unknown => remaining' = remaining)
    BY <2>1 DEF StartRequest, RemainingToday
  <2> QED
    BY <1>1, <1>5, <2>1, <2>2, <2>3, StageNames
<1>7. CASE OnCall
  <2>1. /\ stage' = stage /\ stage \in {"teams", "stats"} /\ RequestsAnswered' = RequestsAnswered /\ began' = began
        /\ Call \/ Retry
    BY <1>7 DEF OnCall, RequestsAnswered, transaction
  <2>2. RemainingToday' = RemainingToday /\ (RemainingToday' # Unknown => remaining' = remaining)
    BY <1>1, <2>1, CallAnswers DEF Retry, RemainingToday, guard, history
  <2>3. CASE Call
    <3>1. /\ day' = day /\ pc = "limiter" /\ pc' = "answered" /\ answer'.day = day
          /\ UnderWay = attempt - 1 /\ UnderWay' = attempt
      BY <1>1, <2>3, CallAnswers DEF UnderWay
    <3>2. PICK left \in Int : /\ serverLeft' - astray' = left
                              /\ left + 1 >= serverLeft - astray
      <4>1. OneLess \in Nat /\ serverLeft <= OneLess + 1
        BY <1>1, QuotaNumbers, OneLessIsLess
      <4>2. \/ serverLeft' = OneLess /\ astray' = astray
            \/ serverLeft' = serverLeft /\ astray' \in {astray, astray + 1}
        BY <1>1, <2>3, CallAnswers
      <4> QED
        BY <1>1, <4>1, <4>2
    <3>3. Spent' = Spent /\ stage \notin Over
      BY <1>3, <2>1, StageNames
    <3>4. ASSUME began.day = day
          PROVE  /\ began.left <= left + Spent + attempt
                 /\ RemainingToday # Unknown => began.left <= remaining + Spent
      <4>1. /\ began.left <= (serverLeft - astray) + Spent + (attempt - 1)
            /\ RemainingToday # Unknown => began.left <= remaining + Spent
        BY <3>1, <3>3, <3>4 DEF SpentBounded
      <4>2. began.left <= left + Spent + attempt
        BY <1>1, <1>2, <1>4, <3>2, <4>1
      <4> QED
        BY <4>1, <4>2
    <3> QED
      BY <1>4, <2>1, <2>2, <3>1, <3>2, <3>3, <3>4 DEF SpentBounded
  <2>4. CASE Retry
    <3>1. /\ serverLeft' = serverLeft /\ astray' = astray /\ day' = day /\ pc' = "limiter"
          /\ UnderWay = attempt /\ UnderWay' = attempt
      BY <1>1, <2>4 DEF Retry, UnderWay
    <3> QED
      BY <1>1, <1>5, <2>1, <2>2, <3>1, StageNames
  <2> QED
    BY <2>1, <2>3, <2>4
<1>8. ASSUME Answered, began' = began, stage \in {"teams", "stats"},
             stage' \notin Over, RequestsAnswered' = RequestsAnswered + 1
      PROVE  SpentBounded'
  <2>1. /\ pc = "answered" /\ pc' = "idle" /\ day' = day /\ serverLeft' = serverLeft
        /\ astray' = astray /\ UnderWay = attempt /\ UnderWay' = 0 /\ stage \notin Over
    BY <1>8, StageNames DEF Answered, Receive, UnderWay
  <2>2. ASSUME began.day = day
        PROVE  began.left <= (serverLeft - astray) + Spent + attempt
    BY <2>1, <2>2 DEF SpentBounded
  <2>3. ASSUME began.day = day
        PROVE  began.left <= (serverLeft' - astray') + Spent' + UnderWay'
    <3>1. began.left <= (serverLeft - astray) + (Spent + MaxAttempts) + 0
      BY <1>1, <1>2, <1>4, <2>2, <2>3
    <3> QED
      BY <1>3, <1>8, <2>1, <3>1
  <2>4. ASSUME began.day = day, RemainingToday' # Unknown
        PROVE  began.left <= remaining' + Spent'
    <3>1. CASE answer.left = Unknown
      <4>1. remaining' = remaining /\ lastSeen' = lastSeen
        BY <1>8, <3>1 DEF Answered, Receive, guard
      <4>2. RemainingToday # Unknown /\ remaining \in Nat
        BY <1>1, <2>1, <2>4, <4>1 DEF RemainingToday
      <4>3. began.left <= remaining + Spent
        BY <2>1, <2>4, <4>2 DEF SpentBounded
      <4> QED
        <5>1. began.left <= remaining + (Spent + MaxAttempts)
          BY <1>1, <1>2, <1>4, <4>2, <4>3
        <5> QED
          BY <1>3, <1>8, <4>1, <5>1
    <3>2. CASE answer.left # Unknown
      <4>1. remaining' = answer.left
        BY <1>8, <3>2 DEF Answered, Receive, Record
      <4>2. answer.day = day
        <5>1. answer \in Responses /\ began.day <= answer.day
          BY <1>1, <2>1 DEF TypeOK, SpentBounded
        <5>2. answer.day \in 0..day
          BY <5>1 DEF Responses
        <5> QED
          BY <1>1, <2>4, <5>1, <5>2
      <4>3. serverLeft <= answer.left /\ answer.left \in Nat
        BY <1>1, <2>1, <3>2, <4>2, QuotaNumbers DEF AllowancesCoverAhead
      <4> QED
        <5>1. began.left <= answer.left + (Spent + MaxAttempts)
          BY <1>1, <1>2, <1>4, <2>2, <2>4, <4>3
        <5> QED
          BY <1>3, <1>8, <4>1, <5>1
    <3> QED
      BY <3>1, <3>2
  <2> QED
    BY <1>4, <1>8, <2>1, <2>3, <2>4 DEF SpentBounded
<1>9. CASE OpenSession
  <2>1. /\ Answered /\ began' = began /\ stage = "teams" /\ stage' = "entries" /\ entry' = 1
    BY <1>9 DEF OpenSession
  <2>2. RequestsAnswered = 0 /\ RequestsAnswered' = 1
    BY <2>1 DEF RequestsAnswered
  <2>3. stage' \notin Over
    BY <2>1, StageNames
  <2>5. 0 + 1 = 1
    OBVIOUS
  <2>4. stage \in {"teams", "stats"}
    BY <2>1
  <2> QED
    BY <1>8, <2>1, <2>2, <2>3, <2>4, <2>5
<1>10. CASE NoStatistics \/ StoreStatistics
  BY <1>8, <1>10, StageNames DEF NoStatistics, StoreStatistics, RequestsAnswered
<1>11. ASSUME stage' \in Over, began' = began, day' = day
       PROVE  SpentBounded'
  BY <1>4, <1>11 DEF SpentBounded
<1>12. CASE NoTeams \/ SeasonMissing
  BY <1>11, <1>12, StageNames DEF NoTeams, SeasonMissing, Answered, Receive
<1>13. CASE NoId \/ FlushRaises \/ CommitRaises \/ Commit
  BY <1>11, <1>13, StageNames DEF NoId, FlushRaises, CommitRaises, Fail, Commit, vars
<1>14. CASE Refused \/ RequestFails
  BY <1>11, <1>14, StageNames DEF Refused, RequestFails, Refuse, Raise, Receive
<1>15. CASE Resolve
  <2>1. /\ stage = "entries" /\ stage' = "resolved" /\ entry' = entry /\ began' = began
        /\ UNCHANGED vars
    BY <1>15 DEF Resolve, InLoop
  <2>2. /\ RequestsAnswered' = RequestsAnswered /\ UnderWay' = UnderWay /\ serverLeft' = serverLeft
        /\ astray' = astray /\ RemainingToday' = RemainingToday /\ remaining' = remaining /\ answer' = answer
        /\ day' = day /\ pc' = pc
    BY <2>1 DEF RequestsAnswered, UnderWay, RemainingToday, vars, guard
  <2>3. pc \notin {"limiter", "answered"}
    BY <2>1 DEF StageHolds
  <2>4. UnderWay = 0
    BY <2>3 DEF UnderWay
  <2> QED
    BY <1>1, <1>5, <2>1, <2>2, <2>3, <2>4, StageNames
<1>16. CASE NewRun
  <2>1. /\ began' = [day |-> day, left |-> serverLeft - astray] /\ day' = day
        /\ serverLeft' = serverLeft /\ astray' = astray
        /\ pc' = "idle" /\ remaining' = Unknown /\ stage' = "start"
    BY <1>16 DEF NewRun, NewClient, Beginning
  <2>2. RequestsAnswered' = 0 /\ UnderWay' = 0 /\ RemainingToday' = Unknown
    BY <2>1 DEF RequestsAnswered, UnderWay, RemainingToday
  <2>3. Spent' = 0
    BY <1>1, <2>2, AllowanceArithmetic DEF Spent
  <2> QED
    BY <1>1, <2>1, <2>2, <2>3 DEF SpentBounded
<1>17. CASE MidnightPasses
  <2>1. day' = day + 1 /\ began' = began /\ pc' = pc /\ answer' = answer /\ stage' = stage
    BY <1>17 DEF MidnightPasses, Midnight
  <2>2. began.day # day' /\ began.day <= day'
    BY <1>1, <1>4, <2>1
  <2> QED
    BY <1>4, <2>1, <2>2 DEF SpentBounded
<1>19. CASE CountedLate
  <2>1. /\ Spent' = Spent /\ UnderWay' = UnderWay
        /\ RemainingToday' = RemainingToday /\ remaining' = remaining /\ answer' = answer
        /\ day' = day /\ pc' = pc /\ stage' = stage /\ began' = began
    BY <1>19 DEF CountedLate, CountLate, Spent, RequestsAnswered, UnderWay, RemainingToday,
       guard, transaction
  <2>2. /\ serverLeft' \in Nat /\ astray' \in Nat
        /\ serverLeft' - astray' >= serverLeft - astray
    <3>1. serverLeft' = OneLess /\ astray' = astray - 1 /\ astray > 0
      BY <1>19 DEF CountedLate, CountLate
    <3>2. OneLess \in Nat /\ serverLeft <= OneLess + 1
      BY <1>1, QuotaNumbers, OneLessIsLess
    <3> QED
      BY <1>1, <3>1, <3>2
  <2>3. UnderWay \in Int
    BY <1>1 DEF UnderWay
  <2>4. ASSUME stage \notin Over, began.day = day
        PROVE  began.left <= (serverLeft' - astray') + Spent + UnderWay
    <3>1. began.left <= (serverLeft - astray) + Spent + UnderWay
      BY <2>4 DEF SpentBounded
    <3> DEFINE before == serverLeft - astray
               after == serverLeft' - astray'
    <3>2. before \in Int /\ began.left <= before + Spent + UnderWay
      BY <1>1, <3>1
    <3>4. after \in Int /\ after >= before
      BY <2>2
    <3> HIDE DEF before, after
    <3>3. began.left <= after + Spent + UnderWay
      BY <1>2, <1>4, <2>3, <3>2, <3>4
    <3> QED
      BY <3>3 DEF after
  <2> QED
    BY <2>1, <2>4 DEF SpentBounded
<1>18. CASE AllDone \/ UNCHANGED ingestVars
  <2>1. /\ Spent' = Spent /\ UnderWay' = UnderWay /\ serverLeft' = serverLeft
        /\ astray' = astray /\ RemainingToday' = RemainingToday /\ remaining' = remaining /\ answer' = answer
        /\ day' = day /\ pc' = pc /\ stage' = stage /\ began' = began
    BY <1>18 DEF AllDone, ingestVars, Spent, RequestsAnswered, UnderWay, RemainingToday, vars, guard,
       transaction
  <2> QED
    BY <2>1 DEF SpentBounded
<1> QED
  BY <1>6, <1>7, <1>9, <1>10, <1>12, <1>13, <1>14, <1>15, <1>16, <1>17, <1>18, <1>19
  DEF IngestNext, IngestStep

\* On the day a run began it is refused only if it began with less than the
\* buffer and MaxAttempts calls for each request that was answered.
THEOREM LeaguesFit == IngestSpec => RefusedOnlyWhenShort
<1> DEFINE Inv == QuotaInv /\ StageHolds /\ SpentBounded
<1>1. IngestInit => Inv
  <2> SUFFICES ASSUME IngestInit PROVE StageHolds /\ SpentBounded
    BY QuotaInitInv DEF IngestInit
  <2>1. /\ stage = "start" /\ year \in Years /\ listing = <<>> /\ entry = 1 /\ pc = "idle"
        /\ began.day = 0 /\ began.left = DailyQuota - 0
        /\ day = 0 /\ serverLeft = DailyQuota /\ astray = 0
        /\ remaining = Unknown
    BY DEF IngestInit, Init, Beginning
  <2>2. StageHolds
    <3>1. entry \in 1..(Len(listing) + 1)
      BY <2>1
    <3> QED
      BY <2>1, <3>1, StageNames DEF StageHolds
  <2>3. RequestsAnswered = 0 /\ UnderWay = 0 /\ RemainingToday = Unknown
    BY <2>1 DEF RequestsAnswered, UnderWay, RemainingToday
  <2>4. Spent = 0 /\ DailyQuota \in Nat
    BY <2>2, <2>3, SpentNumbers, QuotaAssumption
  <2> QED
    BY <2>1, <2>2, <2>3, <2>4 DEF SpentBounded
<1>2. Inv /\ [IngestNext]_ingestVars => Inv'
  BY ClientStep, QuotaStepType, AllowancesStep, BeliefStep, StageStep, SpentStep DEF QuotaInv
<1>3. Inv /\ [IngestNext]_ingestVars
        => [stage' = "refused" /\ stage # "refused" /\ day = began.day =>
              began.left < SafetyBuffer +
                MaxAttempts * (IF stage = "start" THEN 0 ELSE entry)]_ingestVars
  <2> SUFFICES ASSUME Inv, IngestNext, stage' = "refused", stage # "refused", day = began.day
               PROVE  began.left < SafetyBuffer + MaxAttempts * (IF stage = "start" THEN 0 ELSE entry)
    OBVIOUS
  <2>1. Refused
    BY DEF IngestNext, IngestStep, AskTeams, OnCall, NoTeams, SeasonMissing, OpenSession, NoId,
       FlushRaises, Resolve, AskStatistics, NoStatistics, StoreStatistics, RequestFails, Commit,
       CommitRaises, Fail, NewRun, MidnightPasses, CountedLate, AllDone, ingestVars
  <2>2. stage \in {"start", "resolved"} /\ TooLow
    BY <2>1 DEF Refused, Refuse
  <2>3. RequestsAnswered = IF stage = "start" THEN 0 ELSE entry
    BY <2>2 DEF RequestsAnswered
  <2>4. RemainingToday # Unknown /\ remaining = RemainingToday /\ remaining < SafetyBuffer
    BY <2>2 DEF TooLow, RemainingToday
  <2>5. began.left <= remaining + Spent /\ began.left \in Int
    BY <2>2, <2>4, StageNames DEF SpentBounded
  <2>6. remaining \in Nat /\ SafetyBuffer \in Nat /\ Spent \in Nat
    BY <2>4, QuotaNumbers, QuotaAssumption, SpentNumbers DEF QuotaInv
  <2>7. began.left < SafetyBuffer + Spent
    BY <2>4, <2>5, <2>6
  <2> QED
    BY <2>3, <2>7 DEF Spent
<1> QED
  BY <1>1, <1>2, <1>3, PTL DEF IngestSpec, RefusedOnlyWhenShort

-----------------------------------------------------------------------------
(* The session *)

IngestFields == Tables \cup {"season", "nextId", "teamByExt", "teamByName", "statsByKey"}

\* The three dictionaries say what the session's own rows say.
DictionariesHold(s) ==
  /\ DOMAIN s.teamByExt = {l.ext : l \in OfSource(s.teamLinks)}
  /\ \A l \in OfSource(s.teamLinks) : s.teamByExt[l.ext] = l.team
  /\ DOMAIN s.teamByName = {Lowered[t.name] : t \in s.teams}
  /\ \A n \in DOMAIN s.teamByName :
       \E t \in s.teams : Lowered[t.name] = n /\ t.id = s.teamByName[n]
  /\ DOMAIN s.statsByKey = {StatsKey(r) : r \in OfSeason(s.stats, s.season)}
  /\ \A r \in OfSeason(s.stats, s.season) : s.statsByKey[StatsKey(r)] = r.id

\* Of the constraints, one may come to be violated: one link for each team.
IngestSchema(s) ==
  /\ SeasonsUnique(s) /\ MatchesUnique(s) /\ MatchLinksUnique(s)
  /\ SeasonTeamsUnique(s) /\ StatsUnique(s) /\ SidesDistinct(s)
  /\ UniqueOn(s.teamLinks, LAMBDA l : <<l.source, l.ext>>)

IngestSessionHolds(s) ==
  /\ DOMAIN s = IngestFields
  /\ IdsBelow(s) /\ \A t \in Tables : UniqueOn(s[t], LAMBDA r : r.id)
  /\ ColumnsHold(s) /\ IngestSchema(s) /\ ReferencesHold(s)
  /\ s.season \in IdsOf(s.seasons)
  /\ DictionariesHold(s)

\* A run begins with the rows and with what they say.
LEMMA IngestOpens ==
  ASSUME NEW d, Sound(d), NEW season \in d.seasons, NEW s \in Sessions(d, season)
  PROVE  /\ IngestSessionHolds(s) /\ s.season = season.id
         /\ \A t \in Tables : s[t] = d[t]
<1> USE TableNames
<1>1. PICK byExt \in LinkedIds(OfSource(d.teamLinks)), byName \in FoldedIds(d.teams),
           stats \in StatsIds(OfSeason(d.stats, season.id)) :
        s = Joined([season |-> season.id, nextId |-> FirstFreeId(d),
                    teamByExt |-> byExt, teamByName |-> byName, statsByKey |-> stats], d)
  BY DEF Sessions
<1>2. DOMAIN d = Tables
  BY DEF Sound
<1>3. DOMAIN s = IngestFields
  BY <1>1, <1>2 DEF Joined, IngestFields
<1>4. /\ s.season = season.id /\ s.nextId = FirstFreeId(d)
      /\ s.teamByExt = byExt /\ s.teamByName = byName /\ s.statsByKey = stats
  BY <1>1, <1>2 DEF Joined
<1>5. \A t \in Tables : s[t] = d[t]
  BY <1>1, <1>2 DEF Joined
<1>6. /\ s.seasons = d.seasons /\ s.teams = d.teams /\ s.teamLinks = d.teamLinks
      /\ s.stats = d.stats
  BY <1>5
<1>7. /\ IdsBelow(s) /\ \A t \in Tables : UniqueOn(s[t], LAMBDA r : r.id)
      /\ ColumnsHold(s) /\ SchemaHolds(s) /\ ReferencesHold(s)
  BY <1>4, <1>5, OpenedIdsHold
<1>8. IngestSchema(s)
  BY <1>7 DEF SchemaHolds, TeamLinksUnique, IngestSchema
<1>9. DictionariesHold(s)
  <2>1. /\ DOMAIN byExt = {l.ext : l \in OfSource(d.teamLinks)}
        /\ \A e \in DOMAIN byExt :
             \E l \in OfSource(d.teamLinks) : l.ext = e /\ l.team = byExt[e]
    BY DEF LinkedIds, DictOf
  <2>2. \A l \in OfSource(d.teamLinks) : byExt[l.ext] = l.team
    BY <1>6, <1>8, <2>1 DEF IngestSchema, UniqueOn, OfSource
  <2>3. /\ DOMAIN byName = {Lowered[t.name] : t \in d.teams}
        /\ \A n \in DOMAIN byName : \E t \in d.teams : Lowered[t.name] = n /\ t.id = byName[n]
    BY DEF FoldedIds, DictOf
  <2> DEFINE Of == OfSeason(d.stats, season.id)
  <2>4. /\ DOMAIN stats = {StatsKey(r) : r \in Of}
        /\ \A k \in DOMAIN stats : \E r \in Of : StatsKey(r) = k /\ r.id = stats[k]
    BY DEF StatsIds, DictOf
  <2>5. \A r \in Of : stats[StatsKey(r)] = r.id
    BY <1>6, <1>8, <2>4 DEF IngestSchema, StatsUnique, UniqueOn, StatsKey, OfSeason
  <2> QED
    BY <1>4, <1>6, <2>1, <2>2, <2>3, <2>4, <2>5 DEF DictionariesHold
<1>10. s.season \in IdsOf(s.seasons)
  BY <1>4, <1>6 DEF IdsOf
<1> QED
  BY <1>3, <1>4, <1>5, <1>7, <1>8, <1>9, <1>10 DEF IngestSessionHolds

\* What _resolve_team does to the rows and the dictionaries, by cases.
LinkOf(s, api, team) ==
  [id |-> s.nextId + 1, team |-> team, source |-> ApiFootball, ext |-> api.id]

Resolved(s, t, api, team) ==
  /\ DOMAIN t = DOMAIN s
  /\ t.nextId = s.nextId + 2
  /\ t.teams = IF IsUnmatched(s, api)
                 THEN s.teams \cup {[id |-> team, name |-> ApiName(api)]} ELSE s.teams
  /\ t.teamLinks = s.teamLinks \cup {LinkOf(s, api, team)}
  /\ t.teamByName = Put(s.teamByName, Lowered[ApiName(api)], team)
  /\ t.teamByExt = Put(s.teamByExt, api.id, team)
  /\ t.seasons = s.seasons /\ t.venues = s.venues /\ t.matches = s.matches
  /\ t.matchLinks = s.matchLinks /\ t.seasonTeams = s.seasonTeams /\ t.stats = s.stats
  /\ t.season = s.season /\ t.statsByKey = s.statsByKey

LEMMA ResolveTeamTouches ==
  ASSUME NEW s, DOMAIN s = IngestFields, NEW api, api.id \notin DOMAIN s.teamByExt
  PROVE  Resolved(s, ResolveTeam(s, api), api,
                  IF IsUnmatched(s, api) THEN s.nextId
                  ELSE s.teamByName[Lowered[ApiName(api)]])
BY TableNames DEF ResolveTeam, Resolved, LinkOf, IngestFields

\* A team is found by name, or added; either way it is linked.
LEMMA ResolveTeamHolds ==
  ASSUME NEW s, IngestSessionHolds(s), NEW api
  PROVE  /\ IngestSessionHolds(ResolveTeam(s, api))
         /\ api.id \in DOMAIN ResolveTeam(s, api).teamByExt
<1> DEFINE t == ResolveTeam(s, api)
           key == Lowered[ApiName(api)]
           team == IF IsUnmatched(s, api) THEN s.nextId ELSE s.teamByName[key]
           link == LinkOf(s, api, team)
           row == [id |-> team, name |-> ApiName(api)]
<1>1. CASE api.id \in DOMAIN s.teamByExt
  BY <1>1 DEF ResolveTeam
<1>2. CASE api.id \notin DOMAIN s.teamByExt
  <2> USE TableNames DEF IngestSessionHolds
  <2>1. Resolved(s, t, api, team)
    BY <1>2, ResolveTeamTouches
  <2>2. /\ link.id = s.nextId + 1 /\ link.team = team /\ link.source = ApiFootball
        /\ link.ext = api.id
    BY DEF LinkOf
  <2>3. row.id = team /\ row.name = ApiName(api)
    OBVIOUS
  <2>4. s.nextId \in Nat
    BY DEF IdsBelow
  <2>5. IsUnmatched(s, api) <=> key \notin DOMAIN s.teamByName
    BY <1>2 DEF IsUnmatched
  <2>6. team = IF IsUnmatched(s, api) THEN s.nextId ELSE s.teamByName[key]
    OBVIOUS
  <2> HIDE DEF t, link, row, team
  <2>7. /\ t.nextId = s.nextId + 2
        /\ t.teams = IF IsUnmatched(s, api) THEN s.teams \cup {row} ELSE s.teams
        /\ t.teamLinks = s.teamLinks \cup {link}
        /\ t.seasons = s.seasons /\ t.venues = s.venues /\ t.matches = s.matches
        /\ t.matchLinks = s.matchLinks /\ t.seasonTeams = s.seasonTeams /\ t.stats = s.stats
        /\ t.season = s.season /\ t.statsByKey = s.statsByKey
    BY <2>1 DEF Resolved, link, row
  <2>8. /\ DOMAIN t.teamByName = DOMAIN s.teamByName \cup {key}
        /\ t.teamByName[key] = team
        /\ \A n \in DOMAIN s.teamByName : n # key => t.teamByName[n] = s.teamByName[n]
    BY <2>1 DEF Resolved, Put
  <2>9. /\ DOMAIN t.teamByExt = DOMAIN s.teamByExt \cup {api.id}
        /\ t.teamByExt[api.id] = team
        /\ \A e \in DOMAIN s.teamByExt : e # api.id => t.teamByExt[e] = s.teamByExt[e]
    BY <2>1 DEF Resolved, Put
  <2>10. RowsAdded(s, t)
    <3>1. t.nextId \in Nat /\ s.nextId <= t.nextId
      BY <2>4, <2>7
    <3>2. IsUnmatched(s, api) => row.id = s.nextId
      BY <2>3, <2>6
    <3>3. \A r \in t.teams \ s.teams : r.id = s.nextId /\ r = row
      BY <2>7, <3>2
    <3>4. \A r \in t.teamLinks \ s.teamLinks : r.id = s.nextId + 1 /\ r = link
      BY <2>2, <2>7
    <3>5. s.teams \subseteq t.teams /\ s.teamLinks \subseteq t.teamLinks
      BY <2>7
    <3>6. s.nextId < t.nextId /\ s.nextId + 1 \in Nat /\ s.nextId <= s.nextId + 1
          /\ s.nextId + 1 < t.nextId
      BY <2>4, <2>7
    <3>7. ASSUME NEW u \in Tables
          PROVE  /\ s[u] \subseteq t[u]
                 /\ \A r \in t[u] \ s[u] : r.id \in Nat /\ s.nextId <= r.id /\ r.id < t.nextId
                 /\ \A q, r \in t[u] \ s[u] : q.id = r.id => q = r
      <4>1. CASE u = "teams"
        BY <2>4, <3>3, <3>5, <3>6, <4>1
      <4>2. CASE u = "teamLinks"
        BY <2>4, <3>4, <3>5, <3>6, <4>2
      <4>3. CASE u \notin {"teams", "teamLinks"}
        <5>1. t[u] = s[u]
          BY <2>7, <4>3
        <5> QED
          BY <5>1
      <4> QED
        BY <4>1, <4>2, <4>3
    <3> QED
      BY <3>1, <3>7 DEF RowsAdded
  <2>11. IdsBelow(t) /\ \A u \in Tables : UniqueOn(t[u], LAMBDA r : r.id)
    BY <2>10, RowsAddedKeepIds
  <2>12. ColumnsHold(t)
    BY <2>7 DEF ColumnsHold
  <2>13. OfSource(t.teamLinks) = OfSource(s.teamLinks) \cup {link}
    BY <2>2, <2>7 DEF OfSource
  <2>14. IngestSchema(t)
    <3>1. \A l \in s.teamLinks : l.source = ApiFootball => l.ext # api.id
      BY <1>2 DEF DictionariesHold, OfSource
    <3>2. UniqueOn(t.teamLinks, LAMBDA l : <<l.source, l.ext>>)
      BY <2>2, <2>7, <3>1 DEF IngestSchema, UniqueOn
    <3> QED
      BY <2>7, <3>2 DEF IngestSchema, SeasonsUnique, MatchesUnique, MatchLinksUnique,
         SeasonTeamsUnique, StatsUnique, SidesDistinct
  <2>15. team \in IdsOf(t.teams)
    <3>1. CASE IsUnmatched(s, api)
      BY <2>3, <2>7, <3>1 DEF IdsOf
    <3>2. CASE ~IsUnmatched(s, api)
      BY <2>5, <2>6, <2>7, <3>2 DEF DictionariesHold, IdsOf
    <3> QED
      BY <3>1, <3>2
  <2>16. ReferencesHold(t)
    <3>1. IdsOf(s.teams) \subseteq IdsOf(t.teams)
      BY <2>7 DEF IdsOf
    <3> QED
      BY <2>2, <2>7, <2>15, <3>1 DEF ReferencesHold
  <2>17. DictionariesHold(t)
    <3>1. DOMAIN t.teamByExt = {l.ext : l \in OfSource(t.teamLinks)}
      BY <2>2, <2>9, <2>13 DEF DictionariesHold
    <3>2. \A l \in OfSource(t.teamLinks) : t.teamByExt[l.ext] = l.team
      BY <1>2, <2>2, <2>9, <2>13 DEF DictionariesHold
    <3>3. DOMAIN t.teamByName = {Lowered[u.name] : u \in t.teams}
      BY <2>3, <2>5, <2>7, <2>8 DEF DictionariesHold
    <3>4. \A n \in DOMAIN t.teamByName :
            \E u \in t.teams : Lowered[u.name] = n /\ u.id = t.teamByName[n]
      BY <2>3, <2>5, <2>6, <2>7, <2>8 DEF DictionariesHold
    <3> QED
      BY <2>7, <3>1, <3>2, <3>3, <3>4 DEF DictionariesHold
  <2>18. DOMAIN t = IngestFields
    BY <2>1 DEF Resolved
  <2> QED
    BY <2>7, <2>9, <2>11, <2>12, <2>14, <2>16, <2>17, <2>18 DEF t
<1> QED
  BY <1>1, <1>2

\* What the statistics of a team do to the rows, by cases.
StatsRow(s, team, payload) ==
  [id |-> s.nextId, team |-> team, season |-> s.season, source |-> ApiFootball,
   payload |-> payload]
Renewed(r, id, payload) == IF r.id = id THEN [r EXCEPT !.payload = payload] ELSE r
RenewedIn(stats, id, payload) == {Renewed(r, id, payload) : r \in stats}

Upserted(s, t, key, payload) ==
  /\ DOMAIN t = DOMAIN s
  /\ t.seasons = s.seasons /\ t.venues = s.venues /\ t.matches = s.matches
  /\ t.matchLinks = s.matchLinks /\ t.seasonTeams = s.seasonTeams
  /\ t.teams = s.teams /\ t.teamLinks = s.teamLinks
  /\ t.season = s.season /\ t.teamByExt = s.teamByExt /\ t.teamByName = s.teamByName
  /\ key \in DOMAIN s.statsByKey =>
       /\ t.stats = RenewedIn(s.stats, s.statsByKey[key], payload)
       /\ t.nextId = s.nextId /\ t.statsByKey = s.statsByKey
  /\ key \notin DOMAIN s.statsByKey =>
       /\ t.stats = s.stats \cup {StatsRow(s, key[1], payload)}
       /\ t.nextId = s.nextId + 1 /\ t.statsByKey = Put(s.statsByKey, key, s.nextId)

LEMMA UpsertStatsTouches ==
  ASSUME NEW s, DOMAIN s = IngestFields, NEW api, NEW payload
  PROVE  Upserted(s, UpsertStats(s, api, payload),
                  <<s.teamByExt[api.id], s.season, ApiFootball>>, payload)
<1> DEFINE team == s.teamByExt[api.id]
           key == <<team, s.season, ApiFootball>>
           t == UpsertStats(s, api, payload)
<1> SUFFICES Upserted(s, t, key, payload)
  OBVIOUS
<1>0. key[1] = team
  OBVIOUS
<1>1. CASE key \in DOMAIN s.statsByKey
  <2>1. t = [s EXCEPT !.stats = RenewedIn(s.stats, s.statsByKey[key], payload)]
    BY <1>1 DEF UpsertStats, RenewedIn, Renewed
  <2> HIDE DEF t, key
  <2> QED
    BY <1>1, <2>1, TableNames DEF Upserted, IngestFields
<1>2. CASE key \notin DOMAIN s.statsByKey
  <2>1. t = [s EXCEPT !.stats = s.stats \cup {StatsRow(s, team, payload)},
                      !.nextId = s.nextId + 1,
                      !.statsByKey = Put(s.statsByKey, key, s.nextId)]
    BY <1>2 DEF UpsertStats, StatsRow
  <2> HIDE DEF t, key, team
  <2> QED
    BY <1>0, <1>2, <2>1, TableNames DEF Upserted, IngestFields
<1> QED
  BY <1>1, <1>2

\* The row of a team's statistics is renewed in place, or added.
LEMMA UpsertStatsHolds ==
  ASSUME NEW s, IngestSessionHolds(s), NEW api, api.id \in DOMAIN s.teamByExt, NEW payload
  PROVE  IngestSessionHolds(UpsertStats(s, api, payload))
<1> DEFINE t == UpsertStats(s, api, payload)
           team == s.teamByExt[api.id]
           key == <<team, s.season, ApiFootball>>
<1>1. Upserted(s, t, key, payload)
  BY UpsertStatsTouches DEF IngestSessionHolds
<1>2. key[1] = team
  OBVIOUS
<1> USE TableNames DEF IngestSessionHolds
<1>3. team \in IdsOf(s.teams)
  BY DEF DictionariesHold, OfSource, ReferencesHold
<1> HIDE DEF t, key
<1>4. /\ DOMAIN t = IngestFields
      /\ t.seasons = s.seasons /\ t.venues = s.venues /\ t.matches = s.matches
      /\ t.matchLinks = s.matchLinks /\ t.seasonTeams = s.seasonTeams
      /\ t.teams = s.teams /\ t.teamLinks = s.teamLinks
      /\ t.season = s.season /\ t.teamByExt = s.teamByExt /\ t.teamByName = s.teamByName
  BY <1>1 DEF Upserted
<1>5. /\ SeasonsUnique(t) /\ MatchesUnique(t) /\ MatchLinksUnique(t)
      /\ SeasonTeamsUnique(t) /\ SidesDistinct(t)
      /\ UniqueOn(t.teamLinks, LAMBDA l : <<l.source, l.ext>>)
  BY <1>4 DEF IngestSchema, SeasonsUnique, MatchesUnique, MatchLinksUnique,
     SeasonTeamsUnique, SidesDistinct
<1> DEFINE StatsHold ==
             /\ IdsBelow(t) /\ \A u \in Tables : UniqueOn(t[u], LAMBDA r : r.id)
             /\ StatsUnique(t)
             /\ \A r \in t.stats :
                  /\ r = [id |-> r.id, team |-> r.team, season |-> r.season,
                          source |-> r.source, payload |-> r.payload]
                  /\ r.season \in IdsOf(s.seasons) /\ r.team \in IdsOf(s.teams)
             /\ DOMAIN t.statsByKey = {StatsKey(r) : r \in OfSeason(t.stats, t.season)}
             /\ \A r \in OfSeason(t.stats, t.season) : t.statsByKey[StatsKey(r)] = r.id
<1>6. ASSUME StatsHold PROVE IngestSessionHolds(t)
  <2>1. ColumnsHold(t)
    BY <1>4, <1>6 DEF ColumnsHold
  <2>2. IngestSchema(t)
    BY <1>5, <1>6 DEF IngestSchema
  <2>3. ReferencesHold(t)
    BY <1>4, <1>6 DEF ReferencesHold
  <2>4. DictionariesHold(t)
    BY <1>4, <1>6 DEF DictionariesHold
  <2> QED
    BY <1>4, <1>6, <2>1, <2>2, <2>3, <2>4
<1>7. ASSUME key \in DOMAIN s.statsByKey PROVE StatsHold
  <2> DEFINE id == s.statsByKey[key]
             Now(r) == Renewed(r, id, payload)
  <2>1. /\ t.stats = {Now(r) : r \in s.stats}
        /\ t.nextId = s.nextId /\ t.statsByKey = s.statsByKey
    BY <1>1, <1>7 DEF Upserted, RenewedIn
  <2>2. ASSUME NEW r \in s.stats
        PROVE  /\ Now(r).id = r.id /\ StatsKey(Now(r)) = StatsKey(r)
               /\ Now(r).season = r.season /\ Now(r).team = r.team
               /\ Now(r) = [id |-> Now(r).id, team |-> Now(r).team, season |-> Now(r).season,
                            source |-> Now(r).source, payload |-> Now(r).payload]
    <3>1. r = [id |-> r.id, team |-> r.team, season |-> r.season,
               source |-> r.source, payload |-> r.payload]
      BY DEF ColumnsHold
    <3>2. CASE r.id = id
      <4>1. Now(r) = [r EXCEPT !.payload = payload]
        BY <3>2 DEF Renewed
      <4>2. Now(r) = [id |-> r.id, team |-> r.team, season |-> r.season,
                      source |-> r.source, payload |-> payload]
        BY <3>1, <4>1
      <4> HIDE DEF Now
      <4> QED
        BY <4>2 DEF StatsKey
    <3>3. CASE r.id # id
      BY <3>1, <3>3 DEF Renewed
    <3> QED
      BY <3>2, <3>3
  <2> HIDE DEF Now, id
  <2>3. IdsBelow(t)
    BY <1>4, <2>1, <2>2 DEF IdsBelow
  <2>4. \A u \in Tables : UniqueOn(t[u], LAMBDA r : r.id)
    BY <1>4, <2>1, <2>2 DEF UniqueOn
  <2>5. StatsUnique(t)
    <3>1. ASSUME NEW q \in s.stats, NEW r \in s.stats, StatsKey(q) = StatsKey(r)
          PROVE  q = r
      BY <3>1 DEF IngestSchema, StatsUnique, UniqueOn, StatsKey
    <3>2. ASSUME NEW q \in t.stats, NEW r \in t.stats, StatsKey(q) = StatsKey(r)
          PROVE  q = r
      BY <2>1, <2>2, <3>1, <3>2
    <3> QED
      BY <3>2 DEF StatsUnique, UniqueOn, StatsKey
  <2>6. \A r \in t.stats :
          /\ r = [id |-> r.id, team |-> r.team, season |-> r.season,
                  source |-> r.source, payload |-> r.payload]
          /\ r.season \in IdsOf(s.seasons) /\ r.team \in IdsOf(s.teams)
    BY <2>1, <2>2 DEF ReferencesHold
  <2>7. DOMAIN t.statsByKey = {StatsKey(r) : r \in OfSeason(t.stats, t.season)}
    BY <1>4, <2>1, <2>2 DEF DictionariesHold, OfSeason
  <2>8. \A r \in OfSeason(t.stats, t.season) : t.statsByKey[StatsKey(r)] = r.id
    BY <1>4, <2>1, <2>2 DEF DictionariesHold, OfSeason
  <2> QED
    BY <2>3, <2>4, <2>5, <2>6, <2>7, <2>8
<1>8. ASSUME key \notin DOMAIN s.statsByKey PROVE StatsHold
  <2> DEFINE new == StatsRow(s, team, payload)
  <2>1. /\ t.stats = s.stats \cup {new}
        /\ t.nextId = s.nextId + 1 /\ t.statsByKey = Put(s.statsByKey, key, s.nextId)
    BY <1>1, <1>2, <1>8 DEF Upserted
  <2>2. /\ new.id = s.nextId /\ new.team = team /\ new.season = s.season
        /\ StatsKey(new) = key
        /\ new = [id |-> new.id, team |-> new.team, season |-> new.season,
                  source |-> new.source, payload |-> new.payload]
    BY DEF StatsRow, StatsKey, key
  <2> HIDE DEF new, team
  <2>3. RowAdded(s, t, "stats", new)
    BY <1>4, <2>1, <2>2 DEF RowAdded
  <2>4. IdsBelow(t) /\ \A u \in Tables : UniqueOn(t[u], LAMBDA r : r.id)
    BY <2>3, RowAddedKeepsIds
  <2>5. /\ DOMAIN t.statsByKey = DOMAIN s.statsByKey \cup {key}
        /\ t.statsByKey[key] = s.nextId
        /\ \A k \in DOMAIN s.statsByKey : k # key => t.statsByKey[k] = s.statsByKey[k]
    BY <2>1 DEF Put
  <2>6. \A r \in s.stats : StatsKey(r) # key
    <3>1. ASSUME NEW r \in s.stats, StatsKey(r) = key PROVE FALSE
      <4>1. r.season = s.season
        BY <3>1 DEF StatsKey, key
      <4> QED
        BY <1>8, <3>1, <4>1 DEF DictionariesHold, OfSeason
    <3> QED
      BY <3>1
  <2>7. StatsUnique(t)
    BY <2>1, <2>2, <2>6 DEF IngestSchema, StatsUnique, UniqueOn, StatsKey
  <2>8. \A r \in t.stats :
          /\ r = [id |-> r.id, team |-> r.team, season |-> r.season,
                  source |-> r.source, payload |-> r.payload]
          /\ r.season \in IdsOf(s.seasons) /\ r.team \in IdsOf(s.teams)
    BY <1>3, <2>1, <2>2 DEF ReferencesHold, ColumnsHold
  <2>9. OfSeason(t.stats, t.season) = OfSeason(s.stats, s.season) \cup {new}
    BY <1>4, <2>1, <2>2 DEF OfSeason
  <2>10. DOMAIN t.statsByKey = {StatsKey(r) : r \in OfSeason(t.stats, t.season)}
    BY <2>2, <2>5, <2>9 DEF DictionariesHold
  <2>11. \A r \in OfSeason(t.stats, t.season) : t.statsByKey[StatsKey(r)] = r.id
    BY <1>8, <2>2, <2>5, <2>9 DEF DictionariesHold
  <2> QED
    BY <2>4, <2>7, <2>8, <2>10, <2>11
<1> QED
  BY <1>6, <1>7, <1>8 DEF t

-----------------------------------------------------------------------------
(* The invariant of a run *)

\* The entries whose team is resolved.
EntriesDone == IF stage = "entries" THEN 1..(entry - 1) ELSE 1..entry

AllLinked(s, list, entries) ==
  \A i \in entries : list[i].id \in DOMAIN s.teamByExt

IngestInv ==
  /\ QuotaInv /\ StageHolds /\ Sound(db)
  /\ stage \notin InTransaction => session = NoSession
  /\ stage \in InTransaction =>
       IngestSessionHolds(session) /\ AllLinked(session, listing, EntriesDone)

\* A transaction opens, takes a turn, waits for an answer, or is over; only a
\* commit changes what is committed.
LEMMA TransactionSteps ==
  ASSUME StageHolds, stage \notin InTransaction => session = NoSession,
         [IngestNext]_ingestVars
  PROVE  \/ OpenSession /\ EntriesDone' = {}
         \/ Resolve /\ EntriesDone' = EntriesDone \cup {entry}
         \/ NoStatistics /\ EntriesDone' = EntriesDone
         \/ StoreStatistics /\ EntriesDone' = EntriesDone
         \/ /\ stage \in InTransaction /\ stage' \in InTransaction
            /\ UNCHANGED <<db, session, listing, entry, fetched>>
            /\ EntriesDone' = EntriesDone
         \/ stage' \notin InTransaction /\ session' = NoSession /\ (db' = db \/ Commit)
<1>1. entry \in Nat
  BY SpentNumbers
<1>2. CASE OpenSession
  <2>1. stage' = "entries" /\ entry' = 1
    BY <1>2 DEF OpenSession
  <2>2. 1..(1 - 1) = {}
    OBVIOUS
  <2> QED
    BY <1>2, <2>1, <2>2 DEF EntriesDone
<1>3. CASE Resolve
  <2>1. stage = "entries" /\ stage' = "resolved" /\ entry' = entry
    BY <1>3 DEF Resolve, InLoop
  <2>2. 1..entry = (1..(entry - 1)) \cup {entry}
    <3>1. entry >= 1
      BY <1>1 DEF StageHolds
    <3> QED
      BY <1>1, <3>1
  <2> QED
    BY <1>3, <2>1, <2>2 DEF EntriesDone
<1>4. CASE NoStatistics \/ StoreStatistics
  <2>1. stage = "stats" /\ stage' = "entries" /\ entry' = entry + 1
    BY <1>4 DEF NoStatistics, StoreStatistics
  <2>2. 1..((entry + 1) - 1) = 1..entry
    BY <1>1
  <2> QED
    BY <1>4, <2>1, <2>2 DEF EntriesDone
<1>5. CASE AskTeams \/ NoTeams \/ SeasonMissing
  BY <1>5, StageNames DEF AskTeams, NoTeams, SeasonMissing, transaction
<1>6. CASE AskStatistics
  <2>1. /\ stage = "resolved" /\ stage' = "stats"
        /\ UNCHANGED <<db, session, listing, entry, fetched>>
    BY <1>6 DEF AskStatistics, transaction
  <2> QED
    BY <2>1, StageNames DEF EntriesDone
<1>7. CASE OnCall \/ MidnightPasses \/ CountedLate \/ AllDone \/ UNCHANGED ingestVars
  <2>1. UNCHANGED <<db, session, listing, entry, fetched, stage>>
    BY <1>7 DEF OnCall, MidnightPasses, CountedLate, AllDone, ingestVars, transaction
  <2> QED
    BY <2>1 DEF EntriesDone
<1>8. CASE NoId \/ FlushRaises \/ CommitRaises \/ Refused \/ RequestFails \/ NewRun
  BY <1>8, StageNames DEF NoId, FlushRaises, CommitRaises, Refused, RequestFails, NewRun,
     Fail, NoTransaction
<1>9. CASE Commit
  BY <1>9, StageNames DEF Commit, NoTransaction
<1> QED
  BY <1>2, <1>3, <1>4, <1>5, <1>6, <1>7, <1>8, <1>9 DEF IngestNext, IngestStep

\* What a run commits, at the end of its list.
LEMMA IngestCommits ==
  ASSUME NEW s, IngestSessionHolds(s), SchemaHolds(s)
  PROVE  Sound(Rows(s)) /\ \A t \in Tables : Rows(s)[t] = s[t]
BY CommittedIsSound DEF IngestSessionHolds, Rows

\* Statistics are asked for of a team that is resolved.
LEMMA StatsEntryIsLinked ==
  ASSUME IngestInv, stage = "stats"
  PROVE  Api.id \in DOMAIN session.teamByExt
<1>1. entry \in EntriesDone
  <2>1. entry \in Nat /\ entry >= 1
    BY SpentNumbers DEF IngestInv, StageHolds
  <2> QED
    BY <2>1 DEF EntriesDone
<1> QED
  BY <1>1, StageNames DEF IngestInv, AllLinked, Api

LEMMA IngestInvStep == IngestInv /\ [IngestNext]_ingestVars => IngestInv'
<1> SUFFICES ASSUME IngestInv, [IngestNext]_ingestVars PROVE IngestInv'
  OBVIOUS
<1>1. QuotaInv' /\ StageHolds'
  BY ClientStep, QuotaStepType, AllowancesStep, BeliefStep, StageStep DEF IngestInv, QuotaInv
<1>2. /\ StageHolds /\ Sound(db)
      /\ stage \notin InTransaction => session = NoSession
  BY DEF IngestInv
<1>3. ASSUME stage \in InTransaction
      PROVE  IngestSessionHolds(session) /\ AllLinked(session, listing, EntriesDone)
  BY <1>3 DEF IngestInv
<1>4. CASE OpenSession /\ EntriesDone' = {}
  <2>1. PICK season \in SeasonRows : session' \in Sessions(db, season)
    BY <1>4 DEF OpenSession
  <2>2. season \in db.seasons
    BY DEF SeasonRows
  <2>3. IngestSessionHolds(session')
    BY <1>2, <2>1, <2>2, IngestOpens
  <2>4. stage' = "entries" /\ db' = db
    BY <1>4 DEF OpenSession
  <2>5. AllLinked(session', listing', EntriesDone')
    BY <1>4 DEF AllLinked
  <2> QED
    BY <1>1, <1>2, <2>3, <2>4, <2>5, StageNames DEF IngestInv
<1>5. CASE Resolve /\ EntriesDone' = EntriesDone \cup {entry}
  <2>1. /\ session' = ResolveTeam(session, Api) /\ stage = "entries" /\ stage' = "resolved"
        /\ listing' = listing /\ db' = db
    BY <1>5 DEF Resolve, InLoop
  <2>2. IngestSessionHolds(session) /\ AllLinked(session, listing, EntriesDone)
    BY <1>3, <2>1, StageNames
  <2>3. IngestSessionHolds(session') /\ Api.id \in DOMAIN session'.teamByExt
    BY <2>1, <2>2, ResolveTeamHolds
  <2>4. DOMAIN session.teamByExt \subseteq DOMAIN session'.teamByExt
    <3>1. CASE Api.id \in DOMAIN session.teamByExt
      BY <2>1, <3>1 DEF ResolveTeam
    <3>2. CASE Api.id \notin DOMAIN session.teamByExt
      <4> DEFINE team == IF IsUnmatched(session, Api) THEN session.nextId
                         ELSE session.teamByName[Lowered[ApiName(Api)]]
      <4>1. DOMAIN session = IngestFields
        BY <2>2 DEF IngestSessionHolds
      <4>2. Resolved(session, ResolveTeam(session, Api), Api, team)
        BY <3>2, <4>1, ResolveTeamTouches
      <4> HIDE DEF team
      <4>3. session'.teamByExt = Put(session.teamByExt, Api.id, team)
        BY <2>1, <4>2 DEF Resolved
      <4> QED
        BY <4>3 DEF Put
    <3> QED
      BY <3>1, <3>2
  <2>5. AllLinked(session', listing', EntriesDone')
    BY <1>5, <2>1, <2>2, <2>3, <2>4 DEF AllLinked, Api
  <2> QED
    BY <1>1, <1>2, <2>1, <2>3, <2>5, StageNames DEF IngestInv
<1>6. CASE NoStatistics /\ EntriesDone' = EntriesDone
  <2>1. /\ session' = session /\ stage = "stats" /\ stage' = "entries"
        /\ listing' = listing /\ db' = db
    BY <1>6 DEF NoStatistics
  <2>2. IngestSessionHolds(session) /\ AllLinked(session, listing, EntriesDone)
    BY <1>3, <2>1, StageNames
  <2>3. IngestSessionHolds(session') /\ AllLinked(session', listing', EntriesDone')
    BY <1>6, <2>1, <2>2
  <2> QED
    BY <1>1, <1>2, <2>1, <2>3, StageNames DEF IngestInv
<1>7. CASE StoreStatistics /\ EntriesDone' = EntriesDone
  <2>1. /\ stage = "stats" /\ stage' = "entries" /\ listing' = listing /\ db' = db
    BY <1>7 DEF StoreStatistics
  <2>2. PICK payload \in Payloads : session' = UpsertStats(session, Api, payload)
    BY <1>7 DEF StoreStatistics
  <2>3. IngestSessionHolds(session) /\ AllLinked(session, listing, EntriesDone)
    BY <1>3, <2>1, StageNames
  <2>4. Api.id \in DOMAIN session.teamByExt
    BY <2>1, StatsEntryIsLinked
  <2>5. IngestSessionHolds(session')
    BY <2>2, <2>3, <2>4, UpsertStatsHolds
  <2>6. session'.teamByExt = session.teamByExt
    <3> DEFINE key == <<session.teamByExt[Api.id], session.season, ApiFootball>>
    <3>1. DOMAIN session = IngestFields
      BY <2>3 DEF IngestSessionHolds
    <3>2. Upserted(session, session', key, payload)
      BY <2>2, <3>1, UpsertStatsTouches
    <3> QED
      BY <3>2 DEF Upserted
  <2>7. AllLinked(session', listing', EntriesDone')
    BY <1>7, <2>1, <2>3, <2>6 DEF AllLinked
  <2> QED
    BY <1>1, <1>2, <2>1, <2>5, <2>7, StageNames DEF IngestInv
<1>8. CASE /\ stage \in InTransaction /\ stage' \in InTransaction
           /\ UNCHANGED <<db, session, listing, entry, fetched>>
           /\ EntriesDone' = EntriesDone
  <2>1. IngestSessionHolds(session') /\ AllLinked(session', listing', EntriesDone')
    BY <1>3, <1>8
  <2> QED
    BY <1>1, <1>2, <1>8, <2>1 DEF IngestInv
<1>9. CASE stage' \notin InTransaction /\ session' = NoSession /\ (db' = db \/ Commit)
  <2>1. Sound(db')
    <3>1. CASE db' = db
      BY <1>2, <3>1
    <3>2. CASE Commit
      <4>1. stage = "entries" /\ SchemaHolds(session) /\ db' = Rows(session)
        BY <3>2 DEF Commit
      <4> QED
        BY <1>3, <4>1, IngestCommits, StageNames
    <3> QED
      BY <1>9, <3>1, <3>2
  <2> QED
    BY <1>1, <1>9, <2>1 DEF IngestInv
<1> QED
  BY <1>2, <1>4, <1>5, <1>6, <1>7, <1>8, <1>9, TransactionSteps

LEMMA IngestInvInit == IngestInit => IngestInv
<1> SUFFICES ASSUME IngestInit PROVE IngestInv
  OBVIOUS
<1>1. QuotaInv
  BY QuotaInitInv DEF IngestInit
<1>2. /\ stage = "start" /\ year \in Years /\ listing = <<>> /\ entry = 1 /\ pc = "idle"
      /\ session = NoSession /\ db \in StartDBs
  BY DEF IngestInit, Init
<1>3. StageHolds
  <2>1. entry \in 1..(Len(listing) + 1)
    BY <1>2
  <2> QED
    BY <1>2, <2>1, StageNames DEF StageHolds
<1>4. Sound(db)
  BY <1>2, IngestAssumption
<1> QED
  BY <1>1, <1>2, <1>3, <1>4, StageNames DEF IngestInv

\* The inductive invariant of the ingest.
THEOREM IngestInvariant == IngestSpec => []IngestInv
BY IngestInvInit, IngestInvStep, PTL DEF IngestSpec

\* Committed data satisfy models.py, and a transaction is open in its stages.
THEOREM IngestTypes == IngestSpec => []IngestTypeOK
<1>1. IngestInv => IngestTypeOK
  <2> SUFFICES ASSUME IngestInv PROVE IngestTypeOK
    OBVIOUS
  <2>1. session # NoSession <=> stage \in InTransaction
    <3>1. ASSUME stage \in InTransaction, session = NoSession PROVE FALSE
      <4>1. DOMAIN session = IngestFields
        BY <3>1 DEF IngestInv, IngestSessionHolds
      <4>2. "teams" \in DOMAIN session
        BY <4>1, TableNames DEF IngestFields
      <4> QED
        BY <3>1, <4>2 DEF NoSession
    <3> QED
      BY <3>1 DEF IngestInv
  <2> QED
    BY <2>1 DEF IngestInv, QuotaInv, StageHolds, IngestTypeOK
<1> QED
  BY <1>1, IngestInvariant, PTL

-----------------------------------------------------------------------------
(* Clubs and their links *)

\* What a run adds to the clubs of the database it has read: no club that was
\* there under its folded name, and no two of one name.
NewTeamsAlone(s, d) ==
  /\ d.teams \subseteq s.teams
  /\ \A t \in s.teams \ d.teams, u \in s.teams : Lowered[t.name] = Lowered[u.name] => t = u

\* An entry whose id has no link in the database, and comes for the first time.
Folded(list, i) == Lowered[ApiName(list[i])]
NewId(d, list, i) ==
  /\ list[i].id \notin {l.ext : l \in OfSource(d.teamLinks)}
  /\ \A j \in 1..(i - 1) : list[j].id # list[i].id

\* The link such an entry is given, to the team its name stands for.
LinkFor(s, list, i, l) ==
  /\ l.source = ApiFootball /\ l.ext = list[i].id
  /\ Folded(list, i) \in DOMAIN s.teamByName /\ l.team = s.teamByName[Folded(list, i)]

\* A run adds these links and no others.
LinksFollow(s, d, list, entries) ==
  /\ d.teamLinks \subseteq s.teamLinks
  /\ \A l \in s.teamLinks \ d.teamLinks :
       \E i \in entries : NewId(d, list, i) /\ LinkFor(s, list, i, l)
  /\ \A i \in entries : NewId(d, list, i) => \E l \in s.teamLinks : LinkFor(s, list, i, l)

\* A new club has a name that was not in the dictionary of names.
LEMMA ResolveAddsNoTwin ==
  ASSUME NEW s, IngestSessionHolds(s), NEW d, NewTeamsAlone(s, d), NEW api
  PROVE  NewTeamsAlone(ResolveTeam(s, api), d)
<1> DEFINE t == ResolveTeam(s, api)
           key == Lowered[ApiName(api)]
           team == IF IsUnmatched(s, api) THEN s.nextId ELSE s.teamByName[key]
           row == [id |-> team, name |-> ApiName(api)]
<1>1. CASE api.id \in DOMAIN s.teamByExt
  BY <1>1 DEF ResolveTeam
<1>2. CASE api.id \notin DOMAIN s.teamByExt
  <2>1. Resolved(s, t, api, team)
    BY <1>2, ResolveTeamTouches DEF IngestSessionHolds
  <2>2. row.name = ApiName(api)
    OBVIOUS
  <2>3. IsUnmatched(s, api) => \A u \in s.teams : Lowered[u.name] # key
    BY DEF IsUnmatched, IngestSessionHolds, DictionariesHold
  <2> HIDE DEF t, team
  <2>4. t.teams = IF IsUnmatched(s, api) THEN s.teams \cup {row} ELSE s.teams
    BY <2>1 DEF Resolved
  <2> HIDE DEF row
  <2>5. NewTeamsAlone(t, d)
    BY <2>2, <2>3, <2>4 DEF NewTeamsAlone
  <2> QED
    BY <2>5 DEF t
<1> QED
  BY <1>1, <1>2

\* An entry is linked when its id is new, and otherwise nothing is.
LEMMA ResolveLinks ==
  ASSUME NEW s, IngestSessionHolds(s), NEW d, NEW list, NEW i \in Nat,
         AllLinked(s, list, 1..(i - 1)), LinksFollow(s, d, list, 1..(i - 1))
  PROVE  LinksFollow(ResolveTeam(s, list[i]), d, list, (1..(i - 1)) \cup {i})
<1> DEFINE api == list[i]
           t == ResolveTeam(s, api)
           key == Lowered[ApiName(api)]
           team == IF IsUnmatched(s, api) THEN s.nextId ELSE s.teamByName[key]
           link == LinkOf(s, api, team)
<1>1. CASE api.id \in DOMAIN s.teamByExt
  <2>1. t = s
    BY <1>1 DEF ResolveTeam
  <2>2. PICK l \in OfSource(s.teamLinks) : l.ext = api.id
    BY <1>1 DEF IngestSessionHolds, DictionariesHold
  <2>3. ~NewId(d, list, i)
    <3>1. CASE l \in d.teamLinks
      BY <2>2, <3>1 DEF NewId, OfSource
    <3>2. CASE l \notin d.teamLinks
      BY <2>2, <3>2 DEF NewId, LinksFollow, LinkFor, OfSource
    <3> QED
      BY <3>1, <3>2
  <2> QED
    BY <2>1, <2>3 DEF LinksFollow
<1>2. CASE api.id \notin DOMAIN s.teamByExt
  <2>1. Resolved(s, t, api, team)
    BY <1>2, ResolveTeamTouches DEF IngestSessionHolds
  <2>2. /\ link.team = team /\ link.source = ApiFootball /\ link.ext = api.id
    BY DEF LinkOf
  <2>3. key \in DOMAIN s.teamByName => team = s.teamByName[key]
    BY DEF IsUnmatched
  <2> HIDE DEF t, team, link
  <2>4. t.teamLinks = s.teamLinks \cup {link}
    BY <2>1 DEF Resolved, link
  <2>5. /\ DOMAIN s.teamByName \subseteq DOMAIN t.teamByName
        /\ key \in DOMAIN t.teamByName /\ t.teamByName[key] = team
        /\ \A n \in DOMAIN s.teamByName : t.teamByName[n] = s.teamByName[n]
    BY <2>1, <2>3 DEF Resolved, Put
  <2>6. \A l, j : LinkFor(s, list, j, l) => LinkFor(t, list, j, l)
    BY <2>5 DEF LinkFor
  <2>7. LinkFor(t, list, i, link)
    BY <2>2, <2>5 DEF LinkFor, Folded
  <2>8. NewId(d, list, i)
    <3>1. \A l \in OfSource(s.teamLinks) : l.ext # api.id
      BY <1>2 DEF IngestSessionHolds, DictionariesHold
    <3>2. \A l \in OfSource(d.teamLinks) : l.ext # api.id
      BY <3>1 DEF LinksFollow, OfSource
    <3>3. \A j \in 1..(i - 1) : list[j].id # api.id
      BY <1>2 DEF AllLinked
    <3> QED
      BY <3>2, <3>3 DEF NewId
  <2> HIDE DEF api, key
  <2>9. LinksFollow(t, d, list, (1..(i - 1)) \cup {i})
    BY <2>4, <2>6, <2>7, <2>8 DEF LinksFollow
  <2> QED
    BY <2>9 DEF t, api
<1> QED
  BY <1>1, <1>2

\* Clubs and links as the run began them, and then step by step.
ClubsInv ==
  stage \in InTransaction =>
    /\ NewTeamsAlone(session, db)
    /\ LinksFollow(session, db, listing, EntriesDone)

LEMMA ClubsStep == IngestInv /\ ClubsInv /\ [IngestNext]_ingestVars => ClubsInv'
<1> SUFFICES ASSUME IngestInv, ClubsInv, [IngestNext]_ingestVars PROVE ClubsInv'
  OBVIOUS
<1>1. /\ StageHolds /\ Sound(db)
      /\ stage \notin InTransaction => session = NoSession
      /\ stage \in InTransaction =>
           IngestSessionHolds(session) /\ AllLinked(session, listing, EntriesDone)
  BY DEF IngestInv
<1>2. stage \in InTransaction =>
        /\ NewTeamsAlone(session, db)
        /\ LinksFollow(session, db, listing, EntriesDone)
  BY DEF ClubsInv
<1>3. CASE OpenSession /\ EntriesDone' = {}
  <2>1. PICK season \in SeasonRows : session' \in Sessions(db, season)
    BY <1>3 DEF OpenSession
  <2>2. season \in db.seasons
    BY DEF SeasonRows
  <2>3. \A t \in Tables : session'[t] = db[t]
    BY <1>1, <2>1, <2>2, IngestOpens
  <2>4. session'.teams = db.teams /\ session'.teamLinks = db.teamLinks
    BY <2>3, TableNames
  <2>5. db' = db
    BY <1>3 DEF OpenSession
  <2>6. NewTeamsAlone(session', db') /\ LinksFollow(session', db', listing', EntriesDone')
    BY <1>3, <2>4, <2>5 DEF NewTeamsAlone, LinksFollow
  <2> QED
    BY <2>6 DEF ClubsInv
<1>4. CASE Resolve /\ EntriesDone' = EntriesDone \cup {entry}
  <2>1. /\ session' = ResolveTeam(session, listing[entry]) /\ stage = "entries"
        /\ listing' = listing /\ db' = db
    BY <1>4 DEF Resolve, InLoop, Api
  <2>2. EntriesDone = 1..(entry - 1) /\ entry \in Nat
    BY <1>1, <2>1, SpentNumbers DEF EntriesDone
  <2>3. NewTeamsAlone(session', db')
    BY <1>1, <1>2, <2>1, StageNames, ResolveAddsNoTwin
  <2>4. LinksFollow(session', db', listing', EntriesDone')
    BY <1>1, <1>2, <1>4, <2>1, <2>2, StageNames, ResolveLinks
  <2> QED
    BY <2>3, <2>4 DEF ClubsInv
<1>5. CASE NoStatistics /\ EntriesDone' = EntriesDone
  <2>1. session' = session /\ stage = "stats" /\ listing' = listing /\ db' = db
    BY <1>5 DEF NoStatistics
  <2>2. NewTeamsAlone(session', db') /\ LinksFollow(session', db', listing', EntriesDone')
    BY <1>2, <1>5, <2>1, StageNames
  <2> QED
    BY <2>2 DEF ClubsInv
<1>6. CASE StoreStatistics /\ EntriesDone' = EntriesDone
  <2>1. stage = "stats" /\ listing' = listing /\ db' = db
    BY <1>6 DEF StoreStatistics
  <2>2. PICK payload \in Payloads : session' = UpsertStats(session, Api, payload)
    BY <1>6 DEF StoreStatistics
  <2>3. /\ IngestSessionHolds(session) /\ NewTeamsAlone(session, db)
        /\ LinksFollow(session, db, listing, EntriesDone)
    BY <1>1, <1>2, <2>1, StageNames
  <2>4. /\ session'.teams = session.teams /\ session'.teamLinks = session.teamLinks
        /\ session'.teamByName = session.teamByName
    <3> DEFINE key == <<session.teamByExt[Api.id], session.season, ApiFootball>>
    <3>1. DOMAIN session = IngestFields
      BY <2>3 DEF IngestSessionHolds
    <3>2. Upserted(session, session', key, payload)
      BY <2>2, <3>1, UpsertStatsTouches
    <3> QED
      BY <3>2 DEF Upserted
  <2>5. NewTeamsAlone(session', db') /\ LinksFollow(session', db', listing', EntriesDone')
    BY <1>6, <2>1, <2>3, <2>4 DEF NewTeamsAlone, LinksFollow, LinkFor
  <2> QED
    BY <2>5 DEF ClubsInv
<1>7. CASE /\ stage \in InTransaction /\ stage' \in InTransaction
           /\ UNCHANGED <<db, session, listing, entry, fetched>>
           /\ EntriesDone' = EntriesDone
  <2>1. NewTeamsAlone(session', db') /\ LinksFollow(session', db', listing', EntriesDone')
    BY <1>2, <1>7
  <2> QED
    BY <2>1 DEF ClubsInv
<1>8. CASE stage' \notin InTransaction
  BY <1>8, StageNames DEF ClubsInv
<1> QED
  BY <1>1, <1>3, <1>4, <1>5, <1>6, <1>7, <1>8, TransactionSteps

LEMMA ClubsInvariant == IngestSpec => [](IngestInv /\ ClubsInv)
<1>1. IngestInit => ClubsInv
  BY StageNames DEF IngestInit, ClubsInv
<1> QED
  BY <1>1, IngestInvInit, IngestInvStep, ClubsStep, PTL DEF IngestSpec

\* The entries of a list are numbered.
LEMMA ListingIsSequence ==
  ASSUME StageHolds
  PROVE  Len(listing) \in Nat /\ DOMAIN listing = 1..Len(listing)
<1>1. listing \in Seq({listing[i] : i \in DOMAIN listing})
  <2>1. CASE listing = <<>>
    BY <2>1
  <2>2. CASE listing \in Listings
    BY <2>2, IngestAssumption
  <2> QED
    BY <2>1, <2>2 DEF StageHolds
<1> QED
  BY <1>1

LEMMA EntriesDoneAreListed ==
  ASSUME StageHolds, stage \in InTransaction
  PROVE  EntriesDone \in SUBSET DOMAIN listing
<1>1. PICK n \in Nat : n = Len(listing) /\ DOMAIN listing = 1..n
  BY ListingIsSequence
<1>2. entry \in 1..(n + 1)
  BY <1>1 DEF StageHolds
<1>3. CASE stage = "entries"
  <2>1. 1..(entry - 1) \subseteq 1..n
    BY <1>1, <1>2
  <2> QED
    BY <1>1, <1>3, <2>1 DEF EntriesDone
<1>4. CASE stage # "entries"
  <2>1. stage \in {"resolved", "stats"}
    BY <1>4, StageNames
  <2>2. entry <= n
    BY <1>1, <2>1 DEF StageHolds
  <2>3. 1..entry \subseteq 1..n
    BY <1>1, <1>2, <2>2
  <2> QED
    BY <1>1, <1>4, <2>3 DEF EntriesDone
<1> QED
  BY <1>3, <1>4

\* What is committed is the view of a run at the end of its list; a step that
\* commits nothing changes nothing.
LEMMA OnlyCommitWrites ==
  ASSUME IngestInv, [IngestNext]_ingestVars
  PROVE  \/ db' = db /\ ~(stage = "entries" /\ stage' = "ended")
         \/ /\ Commit /\ stage \in InTransaction /\ IngestSessionHolds(session)
            /\ TeamLinksUnique(session) /\ \A t \in Tables : db'[t] = session[t]
            /\ entry = Len(listing) + 1 /\ EntriesDone = DOMAIN listing
<1>1. CASE Commit
  <2>1. /\ stage = "entries" /\ entry > Len(listing) /\ SchemaHolds(session)
        /\ db' = Rows(session)
    BY <1>1 DEF Commit
  <2>2. IngestSessionHolds(session) /\ StageHolds
    BY <2>1, StageNames DEF IngestInv
  <2>3. \A t \in Tables : db'[t] = session[t]
    BY <2>1, <2>2, IngestCommits
  <2>4. PICK n \in Nat : n = Len(listing) /\ DOMAIN listing = 1..n
    BY <2>2, ListingIsSequence
  <2>5. entry = n + 1
    BY <2>1, <2>2, <2>4 DEF StageHolds
  <2>6. EntriesDone = DOMAIN listing
    <3>1. entry - 1 = n
      BY <2>4, <2>5
    <3> QED
      BY <2>1, <2>4, <3>1 DEF EntriesDone
  <2> QED
    BY <1>1, <2>1, <2>2, <2>3, <2>4, <2>5, <2>6, StageNames DEF SchemaHolds
<1>2. CASE ~Commit
  <2>1. db' = db
    BY <1>2 DEF IngestNext, IngestStep, AskTeams, OnCall, NoTeams, SeasonMissing, OpenSession,
       NoId, FlushRaises, Resolve, AskStatistics, NoStatistics, StoreStatistics, Refused,
       RequestFails, CommitRaises, Fail, NewRun, MidnightPasses, CountedLate, AllDone, ingestVars
  <2>2. ~(stage = "entries" /\ stage' = "ended")
    BY <1>2 DEF IngestNext, IngestStep, AskTeams, OnCall, NoTeams, SeasonMissing, OpenSession,
       NoId, FlushRaises, Resolve, AskStatistics, NoStatistics, StoreStatistics, Refused,
       RequestFails, CommitRaises, Fail, NewRun, MidnightPasses, CountedLate, AllDone, ingestVars
  <2> QED
    BY <2>1, <2>2
<1> QED
  BY <1>1, <1>2

\* "case-insensitive, trimmed": no run adds a second row for a club on record
\* in some spelling, nor two for one club of its own list.
THEOREM ClubsKeepOneRow == IngestSpec => NoTwinIsAdded
<1>1. IngestInv /\ ClubsInv /\ [IngestNext]_ingestVars =>
        [\A t \in db'.teams \ db.teams, u \in db'.teams :
           Lowered[t.name] = Lowered[u.name] => t = u]_ingestVars
  <2> SUFFICES ASSUME IngestInv, ClubsInv, [IngestNext]_ingestVars
               PROVE  \A t \in db'.teams \ db.teams, u \in db'.teams :
                        Lowered[t.name] = Lowered[u.name] => t = u
    OBVIOUS
  <2>1. CASE db' = db
    BY <2>1
  <2>2. CASE stage \in InTransaction /\ \A t \in Tables : db'[t] = session[t]
    <3>1. db'.teams = session.teams
      BY <2>2, TableNames
    <3> QED
      BY <2>2, <3>1 DEF ClubsInv, NewTeamsAlone
  <2> QED
    BY <2>1, <2>2, OnlyCommitWrites
<1> QED
  BY <1>1, ClubsInvariant, PTL DEF IngestSpec, NoTwinIsAdded

\* Two links of one team come from namesakes, and from nothing else.
LEMMA TornLinksAreNamesakes ==
  ASSUME NEW s, IngestSessionHolds(s), NEW d, Sound(d), NEW list, NEW entries \in SUBSET DOMAIN list,
         LinksFollow(s, d, list, entries), ~TeamLinksUnique(s)
  PROVE  \/ \E i, j \in entries : /\ i # j /\ NewId(d, list, i) /\ NewId(d, list, j)
                                  /\ Folded(list, i) = Folded(list, j)
         \/ \E i \in entries, l \in OfSource(d.teamLinks) :
              /\ NewId(d, list, i) /\ Folded(list, i) \in DOMAIN s.teamByName
              /\ s.teamByName[Folded(list, i)] = l.team
<1>1. PICK l \in s.teamLinks, m \in s.teamLinks : l # m /\ l.team = m.team /\ l.source = m.source
  BY DEF IngestSessionHolds, IngestSchema, TeamLinksUnique, UniqueOn
<1>2. ~(l.source = m.source /\ l.ext = m.ext)
  BY <1>1 DEF IngestSessionHolds, IngestSchema, UniqueOn
<1>3. ~(l \in d.teamLinks /\ m \in d.teamLinks)
  BY <1>1 DEF Sound, SchemaHolds, TeamLinksUnique, UniqueOn
<1>4. ASSUME NEW k \in s.teamLinks, k \notin d.teamLinks
      PROVE  \E i \in entries : NewId(d, list, i) /\ LinkFor(s, list, i, k)
  BY <1>4 DEF LinksFollow
<1>5. ASSUME NEW k \in s.teamLinks, NEW o \in d.teamLinks, k \notin d.teamLinks,
             k.team = o.team, k.source = o.source
      PROVE  \E i \in entries, e \in OfSource(d.teamLinks) :
               /\ NewId(d, list, i) /\ Folded(list, i) \in DOMAIN s.teamByName
               /\ s.teamByName[Folded(list, i)] = e.team
  <2>1. PICK i \in entries : NewId(d, list, i) /\ LinkFor(s, list, i, k)
    BY <1>4, <1>5
  <2>2. o \in OfSource(d.teamLinks)
    BY <1>5, <2>1 DEF OfSource, LinkFor
  <2> QED
    BY <1>5, <2>1, <2>2 DEF LinkFor
<1>6. CASE l \notin d.teamLinks /\ m \notin d.teamLinks
  <2>1. PICK i \in entries : NewId(d, list, i) /\ LinkFor(s, list, i, l)
    BY <1>4, <1>6
  <2>2. PICK j \in entries : NewId(d, list, j) /\ LinkFor(s, list, j, m)
    BY <1>4, <1>6
  <2>3. i # j
    BY <1>1, <1>2, <2>1, <2>2 DEF LinkFor
  <2>4. Folded(list, i) = Folded(list, j)
    <3> DEFINE n == Folded(list, i)
               p == Folded(list, j)
    <3>1. n \in DOMAIN s.teamByName /\ p \in DOMAIN s.teamByName
          /\ s.teamByName[n] = s.teamByName[p]
      BY <1>1, <2>1, <2>2 DEF LinkFor
    <3> HIDE DEF n, p
    <3>2. PICK t \in s.teams : Lowered[t.name] = n /\ t.id = s.teamByName[n]
      BY <3>1 DEF IngestSessionHolds, DictionariesHold
    <3>3. PICK u \in s.teams : Lowered[u.name] = p /\ u.id = s.teamByName[p]
      BY <3>1 DEF IngestSessionHolds, DictionariesHold
    <3>4. t = u
      BY <3>1, <3>2, <3>3, TableNames DEF IngestSessionHolds, UniqueOn
    <3>5. n = p
      BY <3>2, <3>3, <3>4
    <3> QED
      BY <3>5 DEF n, p
  <2> QED
    BY <2>1, <2>2, <2>3, <2>4
<1> QED
  BY <1>1, <1>3, <1>5, <1>6

\* Namesakes tear the links, once all entries are done.
LEMMA NamesakesTearLinks ==
  ASSUME NEW s, NEW d, NEW list, LinksFollow(s, d, list, DOMAIN list), TeamLinksUnique(s)
  PROVE  /\ \A i, j \in DOMAIN list :
              NewId(d, list, i) /\ NewId(d, list, j) /\ Folded(list, i) = Folded(list, j)
                => list[i].id = list[j].id
         /\ \A i \in DOMAIN list, l \in OfSource(d.teamLinks) :
              NewId(d, list, i) => s.teamByName[Folded(list, i)] # l.team
<1>1. \A l, m \in s.teamLinks : l.team = m.team /\ l.source = m.source => l = m
  BY DEF TeamLinksUnique, UniqueOn
<1>2. ASSUME NEW i \in DOMAIN list, NewId(d, list, i)
      PROVE  \E l \in s.teamLinks : LinkFor(s, list, i, l)
  BY <1>2 DEF LinksFollow
<1>3. ASSUME NEW i \in DOMAIN list, NEW j \in DOMAIN list, NewId(d, list, i),
             NewId(d, list, j), Folded(list, i) = Folded(list, j)
      PROVE  list[i].id = list[j].id
  BY <1>1, <1>2, <1>3 DEF LinkFor
<1>4. ASSUME NEW i \in DOMAIN list, NEW o \in OfSource(d.teamLinks), NewId(d, list, i),
             s.teamByName[Folded(list, i)] = o.team
      PROVE  FALSE
  <2>1. PICK l \in s.teamLinks : LinkFor(s, list, i, l)
    BY <1>2, <1>4
  <2>2. o \in s.teamLinks /\ o.source = ApiFootball
    BY DEF LinksFollow, OfSource
  <2>3. l = o
    BY <1>1, <1>4, <2>1, <2>2 DEF LinkFor
  <2> QED
    BY <1>4, <2>1, <2>3 DEF LinkFor, NewId
<1> QED
  BY <1>3, <1>4

LEMMA NamesakesAre ==
  Namesakes <=>
    \/ \E i, j \in DOMAIN listing :
         /\ i # j /\ NewId(db, listing, i) /\ NewId(db, listing, j)
         /\ Folded(listing, i) = Folded(listing, j)
    \/ \E i \in DOMAIN listing, l \in OfSource(db.teamLinks) :
         /\ NewId(db, listing, i) /\ Folded(listing, i) \in DOMAIN session.teamByName
         /\ session.teamByName[Folded(listing, i)] = l.team
BY DEF Namesakes, NewId, Folded

\* The constraints refuse a run for namesakes only, and never let it store them.
THEOREM NamesakesAreRefused == IngestSpec => RefusedOnlyForNamesakes
<1>1. ASSUME IngestInv, ClubsInv, [IngestNext]_ingestVars,
             stage' = "integrity error", stage = "entries"
      PROVE  Namesakes
  <2>1. ~SchemaHolds(session)
    BY <1>1 DEF IngestNext, IngestStep, AskTeams, OnCall, NoTeams, SeasonMissing, OpenSession,
       NoId, FlushRaises, Resolve, AskStatistics, NoStatistics, StoreStatistics, Refused,
       RequestFails, Commit, CommitRaises, Fail, NewRun, MidnightPasses, CountedLate, AllDone, ingestVars
  <2>2. /\ IngestSessionHolds(session) /\ Sound(db)
        /\ LinksFollow(session, db, listing, EntriesDone)
    BY <1>1, StageNames DEF IngestInv, ClubsInv
  <2>3. ~TeamLinksUnique(session)
    BY <2>1, <2>2 DEF SchemaHolds, IngestSessionHolds, IngestSchema
  <2>4. EntriesDone \in SUBSET DOMAIN listing
    BY <1>1, EntriesDoneAreListed, StageNames DEF IngestInv
  <2> QED
    BY <2>2, <2>3, <2>4, TornLinksAreNamesakes, NamesakesAre
<1>2. ASSUME IngestInv, ClubsInv, [IngestNext]_ingestVars, db' # db
      PROVE  ~Namesakes
  <2>1. /\ TeamLinksUnique(session) /\ EntriesDone = DOMAIN listing
        /\ stage \in InTransaction
    BY <1>2, OnlyCommitWrites
  <2>2. LinksFollow(session, db, listing, DOMAIN listing)
    BY <1>2, <2>1 DEF ClubsInv
  <2>3. ASSUME NEW i \in DOMAIN listing, NEW j \in DOMAIN listing, i # j,
               NewId(db, listing, i), NewId(db, listing, j)
        PROVE  listing[i].id # listing[j].id
    <3>1. i \in Nat /\ j \in Nat /\ i >= 1 /\ j >= 1
      BY <1>2, ListingIsSequence DEF IngestInv
    <3>2. i \in 1..(j - 1) \/ j \in 1..(i - 1)
      BY <2>3, <3>1
    <3> QED
      BY <2>3, <3>2 DEF NewId
  <2> QED
    BY <2>1, <2>2, <2>3, NamesakesTearLinks, NamesakesAre
<1>3. IngestInv /\ ClubsInv /\ [IngestNext]_ingestVars =>
        [/\ stage' = "integrity error" /\ stage = "entries" => Namesakes
         /\ db' # db => ~Namesakes]_ingestVars
  BY <1>1, <1>2
<1> QED
  BY <1>3, ClubsInvariant, PTL DEF IngestSpec, RefusedOnlyForNamesakes

-----------------------------------------------------------------------------
(* The statistics *)

\* Statistics are of this provider, and their team is linked to it.
StatsLinked(d) ==
  \A r \in d.stats :
    r.source = ApiFootball /\ \E l \in OfSource(d.teamLinks) : l.team = r.team

\* A row of statistics is as fetched, or as it was.
AsFetched(s, d, f, r, ext) ==
  IF r.season = s.season /\ ext \in DOMAIN f THEN r.payload = f[ext] ELSE r \in d.stats

\* What a run that read d and was answered f has made of the statistics.  Two
\* ids of one team overwrite one another, on the way to a commit that fails.
StatisticsFollow(s, d, f) ==
  /\ d.teamLinks \subseteq s.teamLinks /\ StatsLinked(s)
  /\ \A r \in d.stats : \E q \in s.stats : q.team = r.team /\ q.season = r.season
  /\ DOMAIN f \subseteq DOMAIN s.teamByExt
  /\ \A t \in DOMAIN f : \E q \in s.stats : q.season = s.season /\ q.team = s.teamByExt[t]
  /\ TeamLinksUnique(s) =>
       \A r \in s.stats, l \in OfSource(s.teamLinks) :
         l.team = r.team => AsFetched(s, d, f, r, l.ext)

\* A new link is of no fetched id, and of no team with statistics.
LEMMA ResolveKeepsStatistics ==
  ASSUME NEW s, IngestSessionHolds(s), NEW d, NEW f, StatisticsFollow(s, d, f), NEW api
  PROVE  StatisticsFollow(ResolveTeam(s, api), d, f)
<1> DEFINE t == ResolveTeam(s, api)
           team == IF IsUnmatched(s, api) THEN s.nextId
                   ELSE s.teamByName[Lowered[ApiName(api)]]
           link == LinkOf(s, api, team)
<1>1. CASE api.id \in DOMAIN s.teamByExt
  BY <1>1 DEF ResolveTeam
<1>2. CASE api.id \notin DOMAIN s.teamByExt
  <2>1. Resolved(s, t, api, team)
    BY <1>2, ResolveTeamTouches DEF IngestSessionHolds
  <2>2. /\ link.team = team /\ link.source = ApiFootball /\ link.ext = api.id
    BY DEF LinkOf
  <2> HIDE DEF t, team, link
  <2>3. /\ t.teamLinks = s.teamLinks \cup {link} /\ t.stats = s.stats /\ t.season = s.season
    BY <2>1 DEF Resolved, link
  <2>4. /\ DOMAIN t.teamByExt = DOMAIN s.teamByExt \cup {api.id}
        /\ \A e \in DOMAIN s.teamByExt : t.teamByExt[e] = s.teamByExt[e]
    BY <1>2, <2>1 DEF Resolved, Put
  <2>5. OfSource(t.teamLinks) = OfSource(s.teamLinks) \cup {link}
    BY <2>2, <2>3 DEF OfSource
  <2>6. \A l \in OfSource(s.teamLinks) : l.ext # api.id
    BY <1>2 DEF IngestSessionHolds, DictionariesHold
  <2>7. ASSUME TeamLinksUnique(t), NEW r \in t.stats, NEW l \in OfSource(t.teamLinks),
               l.team = r.team
        PROVE  AsFetched(t, d, f, r, l.ext)
    <3>1. \A m, o \in t.teamLinks : m.team = o.team /\ m.source = o.source => m = o
      BY <2>7 DEF TeamLinksUnique, UniqueOn
    <3>2. l \in OfSource(s.teamLinks)
      <4>1. ASSUME l = link PROVE FALSE
        <5>1. PICK o \in OfSource(s.teamLinks) : o.team = r.team
          BY <2>3 DEF StatisticsFollow, StatsLinked
        <5>2. o \in t.teamLinks /\ l \in t.teamLinks /\ o.source = l.source
          BY <2>2, <2>3, <4>1, <5>1 DEF OfSource
        <5>3. o = link
          BY <2>7, <3>1, <4>1, <5>1, <5>2
        <5> QED
          BY <2>2, <2>6, <5>3
      <4> QED
        BY <2>5, <4>1
    <3>3. TeamLinksUnique(s)
      BY <2>3, <2>7 DEF TeamLinksUnique, UniqueOn
    <3>4. AsFetched(s, d, f, r, l.ext)
      BY <2>3, <2>7, <3>2, <3>3 DEF StatisticsFollow
    <3> QED
      BY <2>3, <3>4 DEF AsFetched
  <2>8. StatsLinked(t)
    BY <2>3, <2>5 DEF StatisticsFollow, StatsLinked
  <2>9. d.teamLinks \subseteq t.teamLinks
    BY <2>3 DEF StatisticsFollow
  <2>10. StatisticsFollow(t, d, f)
    <3>1. \A r \in d.stats : \E q \in t.stats : q.team = r.team /\ q.season = r.season
      BY <2>3 DEF StatisticsFollow
    <3>2. DOMAIN f \subseteq DOMAIN t.teamByExt
      BY <2>4 DEF StatisticsFollow
    <3>3. \A e \in DOMAIN f : \E q \in t.stats : q.season = t.season /\ q.team = t.teamByExt[e]
      BY <2>3, <2>4 DEF StatisticsFollow
    <3> QED
      BY <2>7, <2>8, <2>9, <3>1, <3>2, <3>3 DEF StatisticsFollow
  <2> QED
    BY <2>10 DEF t
<1> QED
  BY <1>1, <1>2

\* The statistics of an answered team are on record as fetched, whatever they
\* were before.
LEMMA UpsertKeepsStatistics ==
  ASSUME NEW s, IngestSessionHolds(s), NEW d, NEW f, StatisticsFollow(s, d, f),
         NEW api, api.id \in DOMAIN s.teamByExt, NEW payload, NEW g,
         g = [t \in DOMAIN f \cup {api.id} |-> IF t = api.id THEN payload ELSE f[t]]
  PROVE  StatisticsFollow(UpsertStats(s, api, payload), d, g)
<1> DEFINE t == UpsertStats(s, api, payload)
           team == s.teamByExt[api.id]
           key == <<team, s.season, ApiFootball>>
<1>1. Upserted(s, t, key, payload)
  BY UpsertStatsTouches DEF IngestSessionHolds
<1>2. key[1] = team
  OBVIOUS
<1>3. PICK link \in OfSource(s.teamLinks) : link.ext = api.id /\ link.team = team
  BY DEF IngestSessionHolds, DictionariesHold
<1>4. \A r \in s.stats : StatsKey(r) = key <=>
        r.team = team /\ r.season = s.season
  BY DEF StatisticsFollow, StatsLinked, StatsKey
<1>5. /\ DOMAIN g = DOMAIN f \cup {api.id} /\ g[api.id] = payload
      /\ \A e \in DOMAIN f : e # api.id => g[e] = f[e]
  OBVIOUS
<1> HIDE DEF t, key
<1>6. /\ t.teamLinks = s.teamLinks /\ t.season = s.season /\ t.teamByExt = s.teamByExt
  BY <1>1 DEF Upserted
\* The rows: one of the team and the season holds the answer, the others stay.
<1>7. /\ \A q \in t.stats :
           \/ /\ q.team = team /\ q.season = s.season /\ q.source = ApiFootball
              /\ q.payload = payload
           \/ q \in s.stats /\ ~(q.team = team /\ q.season = s.season)
      /\ \A r \in s.stats : \E q \in t.stats : q.team = r.team /\ q.season = r.season
      /\ \E q \in t.stats : q.team = team /\ q.season = s.season
  <2>1. CASE key \in DOMAIN s.statsByKey
    <3> DEFINE id == s.statsByKey[key]
               Now(r) == Renewed(r, id, payload)
    <3>1. t.stats = {Now(r) : r \in s.stats}
      BY <1>1, <2>1 DEF Upserted, RenewedIn
    <3>2. PICK old \in OfSeason(s.stats, s.season) : StatsKey(old) = key
      BY <2>1 DEF IngestSessionHolds, DictionariesHold
    <3>3. old \in s.stats /\ old.id = id
      BY <3>2 DEF IngestSessionHolds, DictionariesHold, OfSeason
    <3>4. ASSUME NEW r \in s.stats
          PROVE  IF r = old
                   THEN /\ Now(r).team = team /\ Now(r).season = s.season
                        /\ Now(r).source = ApiFootball /\ Now(r).payload = payload
                   ELSE Now(r) = r /\ ~(r.team = team /\ r.season = s.season)
      <4>1. CASE r = old
        <5>1. r = [id |-> r.id, team |-> r.team, season |-> r.season,
                   source |-> r.source, payload |-> r.payload]
          BY DEF IngestSessionHolds, ColumnsHold
        <5>2. Now(r) = [r EXCEPT !.payload = payload]
          BY <3>3, <4>1 DEF Renewed
        <5>3. Now(r) = [id |-> r.id, team |-> r.team, season |-> r.season,
                        source |-> r.source, payload |-> payload]
          BY <5>1, <5>2
        <5>4. r.team = team /\ r.season = s.season /\ r.source = ApiFootball
          BY <1>4, <3>2, <4>1 DEF StatisticsFollow, StatsLinked
        <5> HIDE DEF Now
        <5> QED
          BY <4>1, <5>3, <5>4
      <4>2. CASE r # old
        <5>1. r.id # id
          BY <3>3, <4>2, TableNames DEF IngestSessionHolds, UniqueOn
        <5>2. StatsKey(r) # StatsKey(old)
          BY <3>3, <4>2 DEF IngestSessionHolds, IngestSchema, StatsUnique, UniqueOn, StatsKey
        <5> QED
          BY <1>4, <3>2, <4>2, <5>1, <5>2 DEF Renewed
      <4> QED
        BY <4>1, <4>2
    <3> HIDE DEF Now, id
    <3>5. \A r \in s.stats : Now(r).team = r.team /\ Now(r).season = r.season
      BY <1>4, <3>2, <3>3, <3>4
    <3> QED
      BY <3>1, <3>3, <3>4, <3>5
  <2>2. CASE key \notin DOMAIN s.statsByKey
    <3> DEFINE new == StatsRow(s, team, payload)
    <3>1. t.stats = s.stats \cup {new}
      BY <1>1, <1>2, <2>2 DEF Upserted
    <3>2. /\ new.team = team /\ new.season = s.season /\ new.source = ApiFootball
          /\ new.payload = payload
      BY DEF StatsRow
    <3>3. \A r \in s.stats : ~(r.team = team /\ r.season = s.season)
      BY <1>4, <2>2 DEF IngestSessionHolds, DictionariesHold, OfSeason
    <3> HIDE DEF new
    <3> QED
      BY <3>1, <3>2, <3>3
  <2> QED
    BY <2>1, <2>2
<1> HIDE DEF team
<1>8. StatsLinked(t)
  BY <1>3, <1>6, <1>7 DEF StatisticsFollow, StatsLinked
<1>9. ASSUME TeamLinksUnique(t), NEW q \in t.stats, NEW l \in OfSource(t.teamLinks),
             l.team = q.team
      PROVE  AsFetched(t, d, g, q, l.ext)
  <2>1. \A m, o \in s.teamLinks : m.team = o.team /\ m.source = o.source => m = o
    BY <1>6, <1>9 DEF TeamLinksUnique, UniqueOn
  <2>2. l \in OfSource(s.teamLinks) /\ TeamLinksUnique(s)
    BY <1>6, <1>9 DEF TeamLinksUnique
  <2>3. CASE /\ q.team = team /\ q.season = s.season /\ q.payload = payload
    <3>1. l = link
      BY <1>3, <1>9, <2>1, <2>2, <2>3 DEF OfSource
    <3> QED
      BY <1>3, <1>5, <1>6, <2>3, <3>1 DEF AsFetched
  <2>4. CASE q \in s.stats /\ ~(q.team = team /\ q.season = s.season)
    <3>1. AsFetched(s, d, f, q, l.ext)
      BY <1>9, <2>2, <2>4 DEF StatisticsFollow
    <3>2. q.season = s.season => l.ext # api.id
      <4>1. l.ext = api.id => l.team = team
        BY <2>2 DEF IngestSessionHolds, DictionariesHold, team
      <4> QED
        BY <1>9, <2>4, <4>1
    <3> QED
      BY <1>5, <1>6, <3>1, <3>2 DEF AsFetched
  <2> QED
    BY <1>7, <2>3, <2>4
<1>10. StatisticsFollow(t, d, g)
  <2>1. d.teamLinks \subseteq t.teamLinks
    BY <1>6 DEF StatisticsFollow
  <2>2. \A r \in d.stats : \E q \in t.stats : q.team = r.team /\ q.season = r.season
    <3>1. ASSUME NEW r \in d.stats
          PROVE  \E q \in t.stats : q.team = r.team /\ q.season = r.season
      <4>1. PICK p \in s.stats : p.team = r.team /\ p.season = r.season
        BY DEF StatisticsFollow
      <4> QED
        BY <1>7, <4>1
    <3> QED
      BY <3>1
  <2>3. DOMAIN g \subseteq DOMAIN t.teamByExt
    BY <1>5, <1>6 DEF StatisticsFollow
  <2>4. ASSUME NEW e \in DOMAIN g
        PROVE  \E q \in t.stats : q.season = t.season /\ q.team = t.teamByExt[e]
    <3>1. CASE e = api.id
      BY <1>6, <1>7, <3>1 DEF team
    <3>2. CASE e # api.id
      <4>1. PICK p \in s.stats : p.season = s.season /\ p.team = s.teamByExt[e]
        BY <1>5, <3>2 DEF StatisticsFollow
      <4> QED
        BY <1>6, <1>7, <4>1
    <3> QED
      BY <3>1, <3>2
  <2> QED
    BY <1>8, <1>9, <2>1, <2>2, <2>3, <2>4 DEF StatisticsFollow
<1> QED
  BY <1>10 DEF t

\* The statistics as the run began them, and then step by step.
StatisticsInv ==
  /\ StatsLinked(db)
  /\ stage \in InTransaction => StatisticsFollow(session, db, fetched)

LEMMA StatisticsStep ==
  IngestInv /\ StatisticsInv /\ [IngestNext]_ingestVars => StatisticsInv'
<1> SUFFICES ASSUME IngestInv, StatisticsInv, [IngestNext]_ingestVars
             PROVE  StatisticsInv'
  OBVIOUS
<1>1. /\ StageHolds /\ Sound(db)
      /\ stage \notin InTransaction => session = NoSession
      /\ stage \in InTransaction =>
           IngestSessionHolds(session) /\ AllLinked(session, listing, EntriesDone)
  BY DEF IngestInv
<1>2. /\ StatsLinked(db)
      /\ stage \in InTransaction => StatisticsFollow(session, db, fetched)
  BY DEF StatisticsInv
<1>3. StatsLinked(db')
  <2>1. CASE stage \in InTransaction /\ \A t \in Tables : db'[t] = session[t]
    <3>1. db'.stats = session.stats /\ db'.teamLinks = session.teamLinks
      BY <2>1, TableNames
    <3>2. StatsLinked(session)
      BY <1>2, <2>1 DEF StatisticsFollow
    <3> QED
      BY <3>1, <3>2 DEF StatsLinked
  <2> QED
    BY <1>2, <2>1, OnlyCommitWrites
<1>4. CASE OpenSession
  <2>1. PICK season \in SeasonRows : session' \in Sessions(db, season)
    BY <1>4 DEF OpenSession
  <2>2. season \in db.seasons
    BY DEF SeasonRows
  <2>3. \A t \in Tables : session'[t] = db[t]
    BY <1>1, <2>1, <2>2, IngestOpens
  <2>4. session'.stats = db.stats /\ session'.teamLinks = db.teamLinks
    BY <2>3, TableNames
  <2>5. db' = db /\ DOMAIN fetched' = {}
    BY <1>4 DEF OpenSession
  <2>6. StatisticsFollow(session', db', fetched')
    BY <1>2, <2>4, <2>5 DEF StatisticsFollow, StatsLinked, AsFetched
  <2> QED
    BY <1>3, <2>6 DEF StatisticsInv
<1>5. CASE Resolve
  <2>1. /\ session' = ResolveTeam(session, Api) /\ stage = "entries"
        /\ fetched' = fetched /\ db' = db
    BY <1>5 DEF Resolve, InLoop
  <2>2. StatisticsFollow(session', db', fetched')
    BY <1>1, <1>2, <2>1, StageNames, ResolveKeepsStatistics
  <2> QED
    BY <1>3, <2>2 DEF StatisticsInv
<1>6. CASE NoStatistics
  <2>1. session' = session /\ stage = "stats" /\ fetched' = fetched /\ db' = db
    BY <1>6 DEF NoStatistics
  <2>2. StatisticsFollow(session', db', fetched')
    BY <1>2, <2>1, StageNames
  <2> QED
    BY <1>3, <2>2 DEF StatisticsInv
<1>7. CASE StoreStatistics
  <2>1. stage = "stats" /\ db' = db
    BY <1>7 DEF StoreStatistics
  <2>2. PICK payload \in Payloads :
          /\ session' = UpsertStats(session, Api, payload)
          /\ fetched' = [t \in DOMAIN fetched \cup {Api.id} |->
                           IF t = Api.id THEN payload ELSE fetched[t]]
    BY <1>7 DEF StoreStatistics
  <2>3. Api.id \in DOMAIN session.teamByExt
    BY <2>1, StatsEntryIsLinked
  <2>4. StatisticsFollow(session', db', fetched')
    BY <1>1, <1>2, <2>1, <2>2, <2>3, StageNames, UpsertKeepsStatistics
  <2> QED
    BY <1>3, <2>4 DEF StatisticsInv
<1>8. CASE stage \in InTransaction /\ UNCHANGED <<db, session, listing, entry, fetched>>
  <2>1. StatisticsFollow(session', db', fetched')
    BY <1>2, <1>8
  <2> QED
    BY <1>3, <2>1 DEF StatisticsInv
<1>9. CASE stage' \notin InTransaction
  BY <1>3, <1>9 DEF StatisticsInv
<1> QED
  BY <1>1, <1>4, <1>5, <1>6, <1>7, <1>8, <1>9, TransactionSteps

\* The provider's id of a team is the id of its link.
LEMMA OwnerIsLinked ==
  ASSUME NEW d, TeamLinksUnique(d), NEW l \in OfSource(d.teamLinks)
  PROVE  Owner(d, l.team) = l.ext
<1> DEFINE o == CHOOSE k \in OfSource(d.teamLinks) : k.team = l.team
<1>1. o \in OfSource(d.teamLinks) /\ o.team = l.team
  OBVIOUS
<1>2. o = l
  BY <1>1 DEF TeamLinksUnique, UniqueOn, OfSource
<1> QED
  BY <1>2 DEF Owner

\* A key of StatsOf leads to one row, and every row has one.
KeyIn(d, r) == <<r.season, Owner(d, r.team)>>

LEMMA StatsOfRows ==
  ASSUME NEW d, TeamLinksUnique(d), StatsUnique(d), StatsLinked(d)
  PROVE  /\ DOMAIN StatsOf(d) = {KeyIn(d, r) : r \in d.stats}
         /\ \A r \in d.stats : StatsOf(d)[KeyIn(d, r)] = r.payload
<1>1. /\ DOMAIN StatsOf(d) = {KeyIn(d, r) : r \in d.stats}
      /\ \A k \in DOMAIN StatsOf(d) :
           StatsOf(d)[k] = (CHOOSE r \in d.stats : KeyIn(d, r) = k).payload
  BY DEF StatsOf, KeyIn
<1>2. ASSUME NEW q \in d.stats, NEW r \in d.stats, KeyIn(d, q) = KeyIn(d, r)
      PROVE  q = r
  <2>1. PICK k \in OfSource(d.teamLinks) : k.team = q.team
    BY DEF StatsLinked
  <2>2. PICK l \in OfSource(d.teamLinks) : l.team = r.team
    BY DEF StatsLinked
  <2>3. k.ext = l.ext /\ q.season = r.season
    BY <1>2, <2>1, <2>2, OwnerIsLinked DEF KeyIn
  <2>4. k = l
    BY <2>3 DEF TeamLinksUnique, UniqueOn, OfSource
  <2> QED
    BY <2>1, <2>2, <2>3, <2>4 DEF StatsUnique, UniqueOn, StatsLinked
<1>3. ASSUME NEW r \in d.stats
      PROVE  StatsOf(d)[KeyIn(d, r)] = r.payload
  <2> DEFINE q == CHOOSE p \in d.stats : KeyIn(d, p) = KeyIn(d, r)
  <2>1. q \in d.stats /\ KeyIn(d, q) = KeyIn(d, r)
    OBVIOUS
  <2>2. q = r
    BY <1>2, <2>1
  <2> QED
    BY <1>1, <2>2
<1> QED
  BY <1>1, <1>3

\* What is committed is what was fetched, over what was on record.
StatsAfter(s, d, f) ==
  [k \in DOMAIN StatsOf(d) \cup {<<s.season, t>> : t \in DOMAIN f} |->
     IF k[1] = s.season /\ k[2] \in DOMAIN f THEN f[k[2]] ELSE StatsOf(d)[k]]

LEMMA StatisticsAreAsFetched ==
  ASSUME NEW s, IngestSessionHolds(s), NEW d, Sound(d), StatsLinked(d), NEW f,
         StatisticsFollow(s, d, f), TeamLinksUnique(s)
  PROVE  StatsOf(s) = StatsAfter(s, d, f)
<1> DEFINE new == {<<s.season, t>> : t \in DOMAIN f}
           After(k) == IF k[1] = s.season /\ k[2] \in DOMAIN f THEN f[k[2]] ELSE StatsOf(d)[k]
<1>1. TeamLinksUnique(d) /\ StatsUnique(d)
  BY DEF Sound, SchemaHolds
<1>2. StatsUnique(s) /\ StatsLinked(s)
  BY DEF IngestSessionHolds, IngestSchema, StatisticsFollow
<1>3. OfSource(d.teamLinks) \subseteq OfSource(s.teamLinks)
  BY DEF StatisticsFollow, OfSource
<1>4. \A l \in OfSource(s.teamLinks) : Owner(s, l.team) = l.ext
  BY OwnerIsLinked
<1>5. /\ DOMAIN StatsOf(d) = {KeyIn(d, r) : r \in d.stats}
      /\ \A r \in d.stats : StatsOf(d)[KeyIn(d, r)] = r.payload
  BY <1>1, StatsOfRows
<1>6. ASSUME NEW r \in d.stats PROVE KeyIn(s, r) = KeyIn(d, r)
  <2>1. PICK l \in OfSource(d.teamLinks) : l.team = r.team
    BY DEF StatsLinked
  <2> QED
    BY <1>1, <1>3, <1>4, <2>1, OwnerIsLinked DEF KeyIn
<1>7. \A e \in DOMAIN f : \E q \in s.stats : KeyIn(s, q) = <<s.season, e>>
  <2>1. ASSUME NEW e \in DOMAIN f PROVE \E q \in s.stats : KeyIn(s, q) = <<s.season, e>>
    <3>1. PICK q \in s.stats : q.season = s.season /\ q.team = s.teamByExt[e]
      BY DEF StatisticsFollow
    <3>2. e \in DOMAIN s.teamByExt
      BY DEF StatisticsFollow
    <3>3. PICK l \in OfSource(s.teamLinks) : l.ext = e
      BY <3>2 DEF IngestSessionHolds, DictionariesHold
    <3>4. l.team = q.team
      BY <3>1, <3>3 DEF IngestSessionHolds, DictionariesHold
    <3>5. Owner(s, q.team) = e
      BY <1>4, <3>3, <3>4
    <3> QED
      BY <3>1, <3>5 DEF KeyIn
  <2> QED
    BY <2>1
<1>8. ASSUME NEW q \in s.stats
      PROVE  /\ KeyIn(s, q) \in DOMAIN StatsOf(d) \cup new
             /\ q.payload = After(KeyIn(s, q))
  <2>1. PICK l \in OfSource(s.teamLinks) : l.team = q.team
    BY <1>2 DEF StatsLinked
  <2>2. KeyIn(s, q) = <<q.season, l.ext>>
    BY <1>4, <2>1 DEF KeyIn
  <2>3. AsFetched(s, d, f, q, l.ext)
    BY <2>1 DEF StatisticsFollow
  <2>4. CASE q.season = s.season /\ l.ext \in DOMAIN f
    BY <2>2, <2>3, <2>4 DEF AsFetched
  <2>5. CASE ~(q.season = s.season /\ l.ext \in DOMAIN f)
    <3>1. q \in d.stats
      BY <2>3, <2>5 DEF AsFetched
    <3>2. KeyIn(s, q) \in DOMAIN StatsOf(d) /\ StatsOf(d)[KeyIn(s, q)] = q.payload
      BY <1>6, <1>5, <3>1
    <3> QED
      BY <2>2, <2>5, <3>2
  <2> QED
    BY <2>4, <2>5
<1>9. \A k \in DOMAIN StatsOf(d) : \E q \in s.stats : KeyIn(s, q) = k
  <2>1. ASSUME NEW r \in d.stats PROVE \E q \in s.stats : KeyIn(s, q) = KeyIn(d, r)
    <3>1. PICK q \in s.stats : q.team = r.team /\ q.season = r.season
      BY DEF StatisticsFollow
    <3> QED
      BY <1>6, <3>1 DEF KeyIn
  <2> QED
    BY <1>5, <2>1
<1>10. /\ DOMAIN StatsOf(s) = {KeyIn(s, q) : q \in s.stats}
       /\ \A q \in s.stats : StatsOf(s)[KeyIn(s, q)] = q.payload
  BY <1>2, StatsOfRows
<1>11. DOMAIN StatsOf(s) = DOMAIN StatsOf(d) \cup new
  BY <1>7, <1>8, <1>9, <1>10
<1>12. \A k \in DOMAIN StatsOf(s) : StatsOf(s)[k] = After(k)
  BY <1>8, <1>10
<1> HIDE DEF After, new
<1>13. StatsOf(s) = [k \in DOMAIN StatsOf(d) \cup new |-> After(k)]
  <2> DEFINE F == StatsOf(s)
             D == DOMAIN StatsOf(d) \cup new
  <2>1. F = [k \in DOMAIN F |-> F[k]]
    BY DEF StatsOf
  <2>2. DOMAIN F = D /\ \A k \in D : F[k] = After(k)
    BY <1>11, <1>12
  <2> HIDE DEF F, D
  <2>3. F = [k \in D |-> After(k)]
    BY <2>1, <2>2
  <2> QED
    BY <2>3 DEF F, D
<1> QED
  BY <1>13 DEF After, new, StatsAfter

\* Statistics are written in one step, in the last answer's form, for all that
\* was answered and for nothing else.  No run has ever written a row without a
\* link, and so the databases of StartDBs have none.
THEOREM RunsStoreWhatTheyFetched ==
  ASSUME \A d \in StartDBs : StatsLinked(d)
  PROVE  IngestSpec => CommitsWhatItFetched
<1>1. IngestInit => StatisticsInv
  BY StageNames DEF IngestInit, StatisticsInv
<1>2. ASSUME IngestInv, StatisticsInv, [IngestNext]_ingestVars,
             db' # db \/ (stage = "entries" /\ stage' = "ended")
      PROVE  /\ entry = Len(listing) + 1
             /\ \A i \in DOMAIN listing :
                  \E l \in OfSource(db'.teamLinks) : l.ext = listing[i].id
             /\ StatsOf(db') =
                  [k \in DOMAIN StatsOf(db) \cup {<<session.season, t>> : t \in DOMAIN fetched} |->
                     IF k[1] = session.season /\ k[2] \in DOMAIN fetched
                       THEN fetched[k[2]] ELSE StatsOf(db)[k]]
  <2>1. /\ stage \in InTransaction /\ IngestSessionHolds(session)
        /\ TeamLinksUnique(session) /\ \A t \in Tables : db'[t] = session[t]
        /\ entry = Len(listing) + 1 /\ EntriesDone = DOMAIN listing
    BY <1>2, OnlyCommitWrites
  <2>2. db'.stats = session.stats /\ db'.teamLinks = session.teamLinks
    BY <2>1, TableNames
  <2>3. StatsOf(db') = StatsOf(session)
    BY <2>2 DEF StatsOf, Owner
  <2>4. \A i \in DOMAIN listing : \E l \in OfSource(session.teamLinks) : l.ext = listing[i].id
    BY <1>2, <2>1 DEF IngestInv, AllLinked, IngestSessionHolds, DictionariesHold
  <2>5. /\ Sound(db) /\ StatsLinked(db) /\ StatisticsFollow(session, db, fetched)
    BY <1>2, <2>1 DEF IngestInv, StatisticsInv
  <2>6. StatsOf(session) = StatsAfter(session, db, fetched)
    BY <2>1, <2>5, StatisticsAreAsFetched
  <2> QED
    BY <2>1, <2>2, <2>3, <2>4, <2>6 DEF StatsAfter
<1>3. IngestInv /\ StatisticsInv /\ [IngestNext]_ingestVars =>
        [db' # db \/ (stage = "entries" /\ stage' = "ended") =>
           /\ entry = Len(listing) + 1
           /\ \A i \in DOMAIN listing :
                \E l \in OfSource(db'.teamLinks) : l.ext = listing[i].id
           /\ StatsOf(db') =
                [k \in DOMAIN StatsOf(db) \cup {<<session.season, t>> : t \in DOMAIN fetched} |->
                   IF k[1] = session.season /\ k[2] \in DOMAIN fetched
                     THEN fetched[k[2]] ELSE StatsOf(db)[k]]]_ingestVars
  BY <1>2
<1> QED
  BY <1>1, <1>3, IngestInvInit, IngestInvStep, StatisticsStep, PTL
     DEF IngestSpec, CommitsWhatItFetched
=============================================================================
