------------------------ MODULE KOReaderServerProofs ------------------------
(***************************************************************************)
(* Two more theorems about KOReader, for any traffic and any AlarmAt: what *)
(* its health says of failed logins, and when a device that is behind may  *)
(* lower the canonical progress.  Both need the counters and the histories *)
(* of the requests, which ServerInv ties to the invariant of               *)
(* KOReaderProofs.                                                         *)
(***************************************************************************)
EXTENDS KOReaderProofs

-----------------------------------------------------------------------------
(* One request, one step.                                                  *)

LEMMA RequestType ==
  ASSUME KOTypeOK, NEW r \in Req
  PROVE  /\ requests[r] \in RequestRecord
         /\ requests \in Seq(RequestRecord) /\ r \in DOMAIN requests
         /\ Req = 1..Len(requests) /\ Len(requests) \in Nat
BY ElementOfSeq, LenProperties DEF KOTypeOK, Req

\* A failed login: below AlarmAt it is answered with the step that counts it.
LEMMA FailureEffect ==
  ASSUME IInv, KOTypeOK, Authenticated, NEW r \in Req, RecordFailure(r)
  PROVE  /\ Is(r, "auth") /\ requests[r].answer = 0
         /\ authFails' = authFails + 1 /\ health' = health
         /\ UNCHANGED vars
         /\ \/ /\ authFails + 1 < AlarmAt
               /\ requests'[r].stage = "answered" /\ requests'[r].answer = 401
            \/ /\ authFails + 1 >= AlarmAt
               /\ requests'[r].stage = "alarm" /\ requests'[r].answer = 0
<1>1. /\ \A stage \in Stage : Goto(r, stage) =>
           /\ requests'[r].stage = stage
           /\ requests'[r].answer = requests[r].answer
      /\ \A code \in Nat : AnswerWith(r, code) =>
           requests'[r].stage = "answered" /\ requests'[r].answer = code
  BY AsideFields
<1>2. Is(r, "auth") /\ requests[r].answer = 0
  BY DEF RecordFailure, Authenticated, Is
<1>3. authFails \in Nat /\ AlarmAt \in Nat
  BY KOReaderAssumption DEF KOTypeOK
<1>4. CASE Alarm(authFails + 1)
  <2>1. Goto(r, "alarm") /\ "alarm" \in Stage
    BY <1>4 DEF RecordFailure, Stage
  <2> QED
    BY <1>1, <1>2, <1>3, <1>4, <2>1 DEF RecordFailure, Alarm, vars
<1>5. CASE ~Alarm(authFails + 1)
  <2>1. AnswerWith(r, 401) /\ 401 \in Nat
    BY <1>5 DEF RecordFailure
  <2> QED
    BY <1>1, <1>2, <1>3, <1>5, <2>1 DEF RecordFailure, Alarm, vars
<1> QED
  BY <1>4, <1>5

LEMMA RaiseEffect ==
  ASSUME KOTypeOK, Authenticated, NEW r \in Req, RaiseAlarm(r)
  PROVE  /\ Is(r, "alarm") /\ requests[r].answer = 0
         /\ authFails' = authFails /\ health' = "needs_user_action"
         /\ UNCHANGED vars
         /\ requests'[r].stage = "answered" /\ requests'[r].answer = 401
<1>1. AnswerWith(r, 401) /\ 401 \in Nat
  BY DEF RaiseAlarm
<1>2. requests'[r].stage = "answered" /\ requests'[r].answer = 401
  BY <1>1, AsideFields
<1> QED
  BY <1>2 DEF RaiseAlarm, Authenticated, Is

\* The steps of a request that has passed authentication.
Onward(r) ==
  \/ ClearFailures(r) \/ SetHealthy(r) \/ CheckPush(r) \/ UpsertDevice(r)
  \/ Pull(r) \/ SubmitPush(r) \/ AnswerPush(r)

\* The step of a check that lets the push go on.
GoesOn(r) ==
  requests' = [requests EXCEPT ![r].stage = "device",
                 ![r].seen = CanonicalEvent(requests[r].push)]

LEMMA GoesOnEffect ==
  ASSUME KOTypeOK, NEW r \in Req, GoesOn(r)
  PROVE  /\ requests'[r].stage = "device"
         /\ requests'[r].answer = requests[r].answer
         /\ requests'[r].seen = CanonicalEvent(requests[r].push)
<1>1. requests[r] \in RequestRecord /\ requests \in Seq(RequestRecord)
      /\ r \in DOMAIN requests
  BY RequestType
<1>2. requests'[r] = [requests[r] EXCEPT !.stage = "device",
                        !.seen = CanonicalEvent(requests[r].push)]
  BY <1>1 DEF GoesOn
<1> QED
  BY <1>1, <1>2 DEF RequestRecord

\* They never go back to authentication, nor say 401 or 429.
LEMMA OnwardEffect ==
  ASSUME IInv, KOTypeOK, Authenticated, NEW r \in Req, Onward(r)
  PROVE  /\ Req' = Req
         /\ \A q \in Req \ {r} : requests'[q] = requests[q]
         /\ requests'[r].key = requests[r].key
         /\ requests[r].key = "right"
         /\ requests[r].stage \notin {"auth", "alarm", "answered"}
         /\ requests[r].answer = 0
         /\ requests'[r].stage \notin {"auth", "alarm"}
         /\ requests'[r].answer \notin {401, 429}
         /\ authFails' = authFails \/ authFails' = 0
         /\ health' = health \/ health' = "ok"
<1>1. CASE SubmitPush(r)
  <2>1. /\ Req' = Req
        /\ \A q \in Req \ {r} : requests'[q] = requests[q]
        /\ requests'[r].key = requests[r].key
        /\ Is(r, "submit") /\ requests'[r].stage = "waiting"
        /\ requests'[r].answer = requests[r].answer
    BY <1>1, SubmitEffect
  <2>2. authFails' = authFails /\ health' = health
    BY <1>1 DEF SubmitPush
  <2> QED
    BY <2>1, <2>2 DEF Authenticated, Is
<1>2. CASE AnswerPush(r)
  <2>1. /\ Req' = Req
        /\ \A q \in Req \ {r} : requests'[q] = requests[q]
        /\ requests'[r].key = requests[r].key
        /\ Is(r, "waiting") /\ requests'[r].stage = "answered"
        /\ requests'[r].answer \in {200, 500}
    BY <1>2, AnswerEffect
  <2>2. authFails' = authFails /\ health' = health
    BY <1>2 DEF AnswerPush
  <2> QED
    BY <2>1, <2>2 DEF Authenticated, Is
<1>3. CASE ClearFailures(r) \/ SetHealthy(r) \/ CheckPush(r) \/ UpsertDevice(r)
           \/ Pull(r)
  <2>1. HandlesAside(r)
    BY <1>3 DEF HandlesAside
  <2>2. /\ Req' = Req
        /\ \A q \in Req \ {r} : requests'[q] = requests[q]
        /\ requests'[r].key = requests[r].key
    BY <2>1, AsideEffect
  <2>3. /\ requests[r].stage \in {"clear", "healthy", "handler", "device"}
        /\ authFails' = authFails \/ authFails' = 0
        /\ health' = health \/ health' = "ok"
    BY <1>3 DEF ClearFailures, SetHealthy, CheckPush, UpsertDevice, Pull, Is
  <2>4. requests[r].answer = 0 /\ requests[r].key = "right"
    BY <2>3 DEF Authenticated, Is
  <2> DEFINE Fine == /\ requests'[r].stage \notin {"auth", "alarm"}
                     /\ requests'[r].answer \notin {401, 429}
  <2>5. \A stage \in Stage \ {"auth", "alarm"} : Goto(r, stage) => Fine
    BY <2>4, AsideFields
  <2>6. \A code \in {200, 400, 412} : AnswerWith(r, code) => Fine
    BY AsideFields
  <2>7. GoesOn(r) => Fine
    BY <2>4, GoesOnEffect
  <2>8. ASSUME Pull(r) PROVE Fine
    <3>1. requests[r] \in RequestRecord /\ requests \in Seq(RequestRecord)
          /\ r \in DOMAIN requests
      BY RequestType
    <3> DEFINE c == [requests[r] EXCEPT !.stage = "answered",
                       !.seen = CanonicalEvent(requests[r].push), !.answer = 200]
    <3>2. c.stage = "answered" /\ c.answer = 200
      BY <3>1 DEF RequestRecord
    <3>3. requests'[r] = c
      BY <2>8, <3>1 DEF Pull
    <3> HIDE DEF c
    <3> QED
      BY <3>2, <3>3
  <2> HIDE DEF Fine
  <2>9. Fine
    BY <1>3, <2>5, <2>6, <2>7, <2>8
       DEF ClearFailures, SetHealthy, CheckPush, UpsertDevice, GoesOn, Stage
  <2> QED
    BY <2>2, <2>3, <2>4, <2>9 DEF Fine
<1> QED
  BY <1>1, <1>2, <1>3 DEF Onward

-----------------------------------------------------------------------------
(* Failed logins.                                                          *)

LEMMA HealthGroups ==
  ASSUME [KONext]_allVars
  PROVE  \/ \E h \in Traffic : Arrive(h)
         \/ \E r \in Req : Accept(r)
         \/ \E r \in Req : RecordFailure(r)
         \/ \E r \in Req : RaiseAlarm(r)
         \/ \E r \in Req : Onward(r)
         \/ RestartService
         \/ Elsewhere
BY DEF KONext, Handle, Onward, Elsewhere

\* An arrival that is answered 401 has no credentials; one that goes on has.
LEMMA ArrivedKey ==
  ASSUME KOTypeOK, NEW h \in Traffic, Arrive(h)
  PROVE  LET new == requests'[Len(requests) + 1] IN
         /\ new.stage = "auth" => new.key # "missing"
         /\ new.answer = 401 => new.key = "missing"
         /\ new.stage = "auth" \/ new.answer \in {401, 429}
         /\ new.stage \in {"auth", "answered"}
<1> DEFINE c == [op |-> h.op, user |-> h.user, key |-> h.key, push |-> h.push,
                 seen |-> 0, call |-> 0,
                 stage |-> IF Limited(h) \/ h.key = "missing" THEN "answered"
                           ELSE "auth",
                 answer |-> IF Limited(h) THEN 429
                            ELSE IF h.key = "missing" THEN 401 ELSE 0,
                 floor |-> {q \in Pushes : requests[q].answer = 200}]
<1>1. /\ c.stage = "auth" => c.key # "missing"
      /\ c.answer = 401 => c.key = "missing"
      /\ c.stage = "auth" \/ c.answer \in {401, 429}
      /\ c.stage \in {"auth", "answered"}
  OBVIOUS
<1>2. requests' = Append(requests, c)
  BY DEF Arrive
<1> HIDE DEF c
<1>3. requests'[Len(requests) + 1] = c
  BY <1>2, AppendProperties DEF KOTypeOK
<1> QED
  BY <1>1, <1>3

\* Refused requests stay refused.
LEMMA RefusedStay ==
  ASSUME IInv, KOTypeOK, Authenticated, [KONext]_allVars
  PROVE  /\ Refused \subseteq Refused'
         /\ IsFiniteSet(Refused') /\ IsFiniteSet(Refused)
         /\ Cardinality(Refused) \in Nat /\ Cardinality(Refused') \in Nat
         /\ Cardinality(Refused) <= Cardinality(Refused')
<1>1. ASSUME NEW r \in Refused PROVE r \in Refused'
  <2>1. r \in Req /\ Is(r, "answered")
    BY DEF Refused, Authenticated
  <2>2. r \in Req' /\ requests'[r] = requests[r]
    BY <2>1, AnsweredKept
  <2> QED
    BY <2>2 DEF Refused
<1>2. IsFiniteSet(Req) /\ IsFiniteSet(Req')
  <2>1. KOTypeOK'
    BY KOTypeNext
  <2>2. /\ Req = 1..Len(requests) /\ Len(requests) \in Nat
        /\ Req' = 1..Len(requests') /\ Len(requests') \in Nat
    BY <2>1, LenProperties DEF KOTypeOK, Req
  <2> QED
    BY <2>2, FS_Interval
<1>3. Refused \subseteq Req /\ Refused' \subseteq Req'
  BY DEF Refused
<1> QED
  BY <1>1, <1>2, <1>3, FS_Subset, FS_CardinalityType

\* Without a fault nothing stops or restarts.
LEMMA FaultsCounted ==
  ASSUME IInv, KOTypeOK, [KONext]_allVars, faults = 0 => loop = "running"
  PROVE  /\ faults' = 0 => faults = 0 /\ loop' = "running"
         /\ faults' = 0 => ~RestartService
<1>1. faults \in Nat
  BY DEF IInv, TypeOK
<1>2. [Next]_vars
  BY StepIsPipelines
<1>3. faults' = 0 => faults = 0 /\ loop' = "running"
  <2>1. \/ faults' = faults /\ loop' = loop
        \/ Reject \/ RollBack \/ Cancel \/ Stop \/ Restart
    BY <1>2 DEF Next, Run, Process, Submit, Send, Return, TimeOut, vars
  <2>2. Reject \/ RollBack \/ Cancel \/ Stop \/ Restart =>
          \/ faults' = faults + 1
          \/ faults' = faults /\ loop' = loop
          \/ faults' = faults /\ loop # "running"
    BY DEF Reject, RollBack, Cancel, Stop, Restart
  <2> QED
    BY <1>1, <2>1, <2>2
<1>4. RestartService /\ faults' = 0 => FALSE
  <2>1. RestartService /\ loop = "running" => faults' = faults + 1
    BY DEF RestartService, Restart
  <2> QED
    BY <1>1, <1>3, <2>1
<1> QED
  BY <1>3, <1>4

\* A step that refuses nobody.
LEMMA CountedBy ==
  ASSUME IInv, KOTypeOK, Authenticated, Counted, [KONext]_allVars,
         \A r \in Req' : requests'[r].stage \in {"auth", "alarm"} =>
                          requests'[r].key # "missing",
         Alarming' \subseteq Alarming,
         authFails' = authFails \/ authFails' = 0,
         health' = health \/ health' = "ok",
         Succeeded' = {} /\ faults' = 0 =>
           /\ Succeeded = {} /\ Refused' = Refused
           /\ authFails' = authFails /\ health' = health
  PROVE  Counted'
<1>1. authFails \in Nat /\ AlarmAt \in Nat
  BY KOReaderAssumption DEF KOTypeOK
<1>2. /\ IsFiniteSet(Refused)
      /\ Cardinality(Refused) \in Nat /\ Cardinality(Refused') \in Nat
      /\ Cardinality(Refused) <= Cardinality(Refused')
  BY RefusedStay
<1>3. /\ \/ authFails' <= Cardinality(Refused')
         \/ Cardinality(Refused') >= AlarmAt - 1
      /\ Alarming' # {} => Cardinality(Refused') >= AlarmAt - 1
      /\ health' = "needs_user_action" => Cardinality(Refused') >= AlarmAt
  BY <1>1, <1>2 DEF Counted
<1>4. faults' = 0 => faults = 0 /\ loop' = "running"
  BY FaultsCounted DEF Counted
<1>5. ASSUME Succeeded' = {}, faults' = 0
      PROVE  /\ Cardinality(Refused' \cup Alarming') <= authFails'
             /\ health' = "ok" => Cardinality(Refused') < AlarmAt
  <2>1. /\ Cardinality(Refused \cup Alarming) <= authFails
        /\ health = "ok" => Cardinality(Refused) < AlarmAt
        /\ Refused' = Refused /\ authFails' = authFails /\ health' = health
    BY <1>4, <1>5 DEF Counted
  <2>2. IsFiniteSet(Alarming)
    <3>1. Req = 1..Len(requests) /\ Len(requests) \in Nat
      BY LenProperties DEF KOTypeOK, Req
    <3>2. IsFiniteSet(Req) /\ Alarming \subseteq Req
      BY <3>1, FS_Interval DEF Alarming
    <3> QED
      BY <3>2, FS_Subset
  <2>3. IsFiniteSet(Refused \cup Alarming)
    BY <1>2, <2>2, FS_Union
  <2>4. Refused' \cup Alarming' \subseteq Refused \cup Alarming
    BY <2>1
  <2>5. /\ Cardinality(Refused' \cup Alarming')
             <= Cardinality(Refused \cup Alarming)
        /\ Cardinality(Refused' \cup Alarming') \in Nat
        /\ Cardinality(Refused \cup Alarming) \in Nat
    BY <2>3, <2>4, FS_Subset, FS_CardinalityType
  <2> QED
    BY <1>1, <2>1, <2>5
<1> QED
  BY <1>3, <1>4, <1>5 DEF Counted

LEMMA ArriveCounted ==
  ASSUME IInv, KOTypeOK, Authenticated, Counted, [KONext]_allVars,
         NEW h \in Traffic, Arrive(h)
  PROVE  Counted'
<1> DEFINE new == Len(requests) + 1
<1>1. /\ Req' = Req \cup {new} /\ new \notin Req
      /\ \A q \in Req : requests'[q] = requests[q]
  BY ArriveEffect
<1>2. /\ requests'[new].stage = "auth" => requests'[new].key # "missing"
      /\ requests'[new].answer = 401 => requests'[new].key = "missing"
      /\ requests'[new].stage = "auth" \/ requests'[new].answer \in {401, 429}
      /\ requests'[new].stage \in {"auth", "answered"}
  BY ArrivedKey
<1>3. authFails' = authFails /\ health' = health /\ faults' = faults
  BY DEF Arrive, vars
<1> HIDE DEF new
<1>4. Refused' = Refused
  BY <1>1, <1>2 DEF Refused
<1>5. Succeeded \subseteq Succeeded'
  BY <1>1 DEF Succeeded
<1>6. Alarming' = Alarming
  BY <1>1, <1>2 DEF Alarming, Is
<1>7. \A r \in Req' : requests'[r].stage \in {"auth", "alarm"} =>
                      requests'[r].key # "missing"
  BY <1>1, <1>2 DEF Counted
<1> QED
  BY <1>3, <1>4, <1>5, <1>6, <1>7, CountedBy

LEMMA AcceptCounted ==
  ASSUME IInv, KOTypeOK, Authenticated, Counted, [KONext]_allVars,
         NEW r \in Req, Accept(r)
  PROVE  Counted'
<1>1. /\ Req' = Req
      /\ \A q \in Req \ {r} : requests'[q] = requests[q]
      /\ requests'[r].key = requests[r].key
  BY AsideEffect DEF HandlesAside
<1>2. requests'[r].stage = "clear" /\ requests'[r].answer = requests[r].answer
  <2>1. Goto(r, "clear") /\ "clear" \in Stage
    BY DEF Accept, Stage
  <2> QED
    BY <2>1, AsideFields
<1>3. requests[r].key = "right" /\ requests[r].answer = 0
  BY DEF Accept, Verified, Authenticated, Is
<1>4. authFails' = authFails /\ health' = health
  BY DEF Accept
<1>5. r \in Succeeded'
  BY <1>1, <1>2, <1>3 DEF Succeeded
<1>6. Alarming' \subseteq Alarming
  BY <1>1, <1>2 DEF Alarming, Is
<1>7. \A q \in Req' : requests'[q].stage \in {"auth", "alarm"} =>
                      requests'[q].key # "missing"
  BY <1>1, <1>2 DEF Counted
<1> QED
  BY <1>4, <1>5, <1>6, <1>7, CountedBy

LEMMA OnwardCounted ==
  ASSUME IInv, KOTypeOK, Authenticated, Counted, [KONext]_allVars,
         NEW r \in Req, Onward(r)
  PROVE  Counted'
<1>1. /\ Req' = Req
      /\ \A q \in Req \ {r} : requests'[q] = requests[q]
      /\ requests'[r].key = "right"
      /\ requests'[r].stage \notin {"auth", "alarm"}
      /\ requests'[r].answer \notin {401, 429}
      /\ authFails' = authFails \/ authFails' = 0
      /\ health' = health \/ health' = "ok"
  BY OnwardEffect
<1>2. r \in Succeeded'
  BY <1>1 DEF Succeeded
<1>3. Alarming' \subseteq Alarming
  BY <1>1 DEF Alarming, Is
<1>4. \A q \in Req' : requests'[q].stage \in {"auth", "alarm"} =>
                      requests'[q].key # "missing"
  BY <1>1 DEF Counted
<1> QED
  BY <1>1, <1>2, <1>3, <1>4, CountedBy

LEMMA RestartCounted ==
  ASSUME IInv, KOTypeOK, Authenticated, Counted, [KONext]_allVars,
         RestartService
  PROVE  Counted'
<1>1. Req' = Req /\ \A r \in Req : requests'[r].stage \in {"answered", "lost"}
  BY RestartEffect
<1>2. authFails' = 0 /\ health' = "ok"
  BY DEF RestartService
<1>3. faults' # 0
  BY FaultsCounted DEF Counted
<1>4. Alarming' \subseteq Alarming
  BY <1>1 DEF Alarming, Is
<1>5. \A q \in Req' : requests'[q].stage \in {"auth", "alarm"} =>
                      requests'[q].key # "missing"
  BY <1>1
<1> QED
  BY <1>2, <1>3, <1>4, <1>5, CountedBy

LEMMA ElsewhereCounted ==
  ASSUME IInv, KOTypeOK, Authenticated, Counted, [KONext]_allVars, Elsewhere
  PROVE  Counted'
<1>1. requests' = requests
  BY ElsewhereFrame
<1>2. authFails' = authFails /\ health' = health
  BY DEF Elsewhere, Register, PipelineStep, SecondPasses, allVars, koVars
<1>3. /\ Req' = Req /\ Refused' = Refused /\ Succeeded' = Succeeded
      /\ Alarming' = Alarming
  BY <1>1 DEF Req, Refused, Succeeded, Alarming, Is
<1>4. \A q \in Req' : requests'[q].stage \in {"auth", "alarm"} =>
                      requests'[q].key # "missing"
  BY <1>1, <1>3 DEF Counted
<1> QED
  BY <1>2, <1>3, <1>4, CountedBy

\* One request more is refused.
LEMMA OneMore ==
  ASSUME NEW S, NEW x, IsFiniteSet(S), x \notin S
  PROVE  Cardinality(S \cup {x}) = Cardinality(S) + 1
BY FS_AddElement

LEMMA OneRefused ==
  ASSUME IInv, KOTypeOK, Authenticated, [KONext]_allVars,
         NEW r \in Req, requests[r].answer = 0, requests[r].key # "missing",
         Req' = Req, \A q \in Req \ {r} : requests'[q] = requests[q],
         requests'[r].key = requests[r].key, requests'[r].answer = 401
  PROVE  /\ Refused' = Refused \cup {r}
         /\ Cardinality(Refused') = Cardinality(Refused) + 1
<1>1. Refused' = Refused \cup {r}
  BY DEF Refused
<1>2. IsFiniteSet(Refused) /\ r \notin Refused
  BY RefusedStay DEF Refused
<1>3. Cardinality(Refused \cup {r}) = Cardinality(Refused) + 1
  BY <1>2, OneMore
<1> QED
  BY <1>1, <1>3

LEMMA SomeFinite ==
  ASSUME KOTypeOK
  PROVE  /\ IsFiniteSet(Req)
         /\ IsFiniteSet(Refused) /\ IsFiniteSet(Alarming)
         /\ IsFiniteSet(Refused \cup Alarming)
         /\ Cardinality(Refused) \in Nat
         /\ Cardinality(Refused \cup Alarming) \in Nat
         /\ Cardinality(Refused) <= Cardinality(Refused \cup Alarming)
<1>1. Req = 1..Len(requests) /\ Len(requests) \in Nat
  BY LenProperties DEF KOTypeOK, Req
<1>2. IsFiniteSet(Req)
  BY <1>1, FS_Interval
<1>3. Refused \subseteq Req /\ Alarming \subseteq Req
  BY DEF Refused, Alarming
<1>4. /\ IsFiniteSet(Refused) /\ IsFiniteSet(Alarming)
      /\ IsFiniteSet(Refused \cup Alarming)
  BY <1>2, <1>3, FS_Subset
<1>5. Cardinality(Refused) <= Cardinality(Refused \cup Alarming)
  BY <1>4, FS_Subset
<1>6. /\ Cardinality(Refused) \in Nat
      /\ Cardinality(Refused \cup Alarming) \in Nat
  BY <1>4, FS_CardinalityType
<1> QED
  BY <1>2, <1>4, <1>5, <1>6

\* A failed login is counted, and refused at once or about to be.
LEMMA FailCounted ==
  ASSUME IInv, KOTypeOK, Authenticated, Counted, [KONext]_allVars,
         NEW r \in Req, RecordFailure(r)
  PROVE  Counted'
<1>0. /\ authFails \in Nat /\ AlarmAt \in Nat /\ Cardinality(Refused) \in Nat
      /\ Cardinality(Refused \cup Alarming) \in Nat
      /\ IsFiniteSet(Refused \cup Alarming)
  BY KOReaderAssumption, SomeFinite DEF KOTypeOK
<1>1. /\ Req' = Req
      /\ \A q \in Req \ {r} : requests'[q] = requests[q]
      /\ requests'[r].key = requests[r].key
  BY AsideEffect DEF HandlesAside
<1>2. /\ Is(r, "auth") /\ requests[r].answer = 0
      /\ authFails' = authFails + 1 /\ health' = health
      /\ UNCHANGED vars
      /\ \/ /\ authFails + 1 < AlarmAt
            /\ requests'[r].stage = "answered" /\ requests'[r].answer = 401
         \/ /\ authFails + 1 >= AlarmAt
            /\ requests'[r].stage = "alarm" /\ requests'[r].answer = 0
  BY FailureEffect
<1>3. requests[r].key # "missing"
  BY <1>2 DEF Counted, Is
<1>4. \A q \in Req' : requests'[q].stage \in {"auth", "alarm"} =>
                      requests'[q].key # "missing"
  BY <1>1, <1>3 DEF Counted
<1>5. Succeeded \subseteq Succeeded'
  BY <1>1, <1>2 DEF Succeeded, Is
<1>6. faults' = faults /\ loop' = loop
  BY <1>2 DEF vars
<1>7. IsFiniteSet((Refused \cup Alarming) \cup {r})
      /\ Cardinality((Refused \cup Alarming) \cup {r})
           <= Cardinality(Refused \cup Alarming) + 1
  BY <1>0, FS_AddElement
<1>8. IsFiniteSet(Req')
  BY <1>1, SomeFinite
<1>9. /\ Cardinality(Refused') \in Nat
      /\ Cardinality(Refused' \cup Alarming') \in Nat
      /\ Cardinality(Refused') <= Cardinality(Refused' \cup Alarming')
  <2>1. Refused' \subseteq Req' /\ Alarming' \subseteq Req'
    BY DEF Refused, Alarming
  <2>2. IsFiniteSet(Refused' \cup Alarming')
    BY <1>8, <2>1, FS_Subset
  <2> QED
    BY <2>2, FS_Subset, FS_CardinalityType
<1>10. Refused' \cup Alarming' \subseteq (Refused \cup Alarming) \cup {r}
  BY <1>1 DEF Refused, Alarming, Is
<1>11. Cardinality(Refused' \cup Alarming')
         <= Cardinality(Refused \cup Alarming) + 1
  <2>1. Cardinality(Refused' \cup Alarming')
          <= Cardinality((Refused \cup Alarming) \cup {r})
    BY <1>7, <1>10, FS_Subset
  <2>2. Cardinality((Refused \cup Alarming) \cup {r}) \in Nat
    BY <1>7, FS_CardinalityType
  <2> QED
    BY <1>0, <1>7, <1>9, <2>1, <2>2
<1>12. CASE requests'[r].answer = 401
  <2>1. Cardinality(Refused') = Cardinality(Refused) + 1
    BY <1>1, <1>2, <1>3, <1>12, OneRefused
  <2>2. Alarming' \subseteq Alarming /\ authFails + 1 < AlarmAt
    BY <1>1, <1>2, <1>12 DEF Alarming, Is
  <2>3. /\ \/ authFails' <= Cardinality(Refused')
           \/ Cardinality(Refused') >= AlarmAt - 1
        /\ Alarming' # {} => Cardinality(Refused') >= AlarmAt - 1
        /\ health' = "needs_user_action" => Cardinality(Refused') >= AlarmAt
    BY <1>0, <1>2, <2>1, <2>2 DEF Counted
  <2>4. Succeeded' = {} /\ faults' = 0 =>
          /\ Cardinality(Refused' \cup Alarming') <= authFails'
          /\ health' = "ok" => Cardinality(Refused') < AlarmAt
    <3>1. Succeeded' = {} /\ faults' = 0 =>
            Cardinality(Refused \cup Alarming) <= authFails
      BY <1>5, <1>6 DEF Counted
    <3> QED
      BY <1>0, <1>2, <1>9, <1>11, <2>2, <3>1
  <2> QED
    BY <1>4, <1>6, <2>3, <2>4 DEF Counted
<1>13. CASE requests'[r].answer = 0
  <2>1. Refused' = Refused
    BY <1>1, <1>2, <1>13 DEF Refused
  <2>2. authFails + 1 >= AlarmAt
    BY <1>2, <1>13
  <2>3. Cardinality(Refused) >= AlarmAt - 1
    BY <1>0, <2>2 DEF Counted
  <2>4. /\ \/ authFails' <= Cardinality(Refused')
           \/ Cardinality(Refused') >= AlarmAt - 1
        /\ Alarming' # {} => Cardinality(Refused') >= AlarmAt - 1
        /\ health' = "needs_user_action" => Cardinality(Refused') >= AlarmAt
    BY <1>2, <2>1, <2>3 DEF Counted
  <2>5. Succeeded' = {} /\ faults' = 0 =>
          /\ Cardinality(Refused' \cup Alarming') <= authFails'
          /\ health' = "ok" => Cardinality(Refused') < AlarmAt
    <3>1. Succeeded' = {} /\ faults' = 0 =>
            /\ Cardinality(Refused \cup Alarming) <= authFails
            /\ health = "ok" => Cardinality(Refused) < AlarmAt
      BY <1>5, <1>6 DEF Counted
    <3>2. Succeeded' = {} /\ faults' = 0 =>
            Cardinality(Refused' \cup Alarming') <= authFails'
      BY <1>0, <1>2, <1>9, <1>11, <3>1
    <3>3. Succeeded' = {} /\ faults' = 0 =>
            (health' = "ok" => Cardinality(Refused') < AlarmAt)
      BY <1>2, <2>1, <3>1
    <3> QED
      BY <3>2, <3>3
  <2> QED
    BY <1>4, <1>6, <2>4, <2>5 DEF Counted
<1> QED
  BY <1>2, <1>12, <1>13

LEMMA RaiseCounted ==
  ASSUME IInv, KOTypeOK, Authenticated, Counted, [KONext]_allVars,
         NEW r \in Req, RaiseAlarm(r)
  PROVE  Counted'
<1>0. authFails \in Nat /\ AlarmAt \in Nat /\ Cardinality(Refused) \in Nat
  BY KOReaderAssumption, SomeFinite DEF KOTypeOK
<1>1. /\ Req' = Req
      /\ \A q \in Req \ {r} : requests'[q] = requests[q]
      /\ requests'[r].key = requests[r].key
  BY AsideEffect DEF HandlesAside
<1>2. /\ Is(r, "alarm") /\ requests[r].answer = 0
      /\ authFails' = authFails /\ health' = "needs_user_action"
      /\ UNCHANGED vars
      /\ requests'[r].stage = "answered" /\ requests'[r].answer = 401
  BY RaiseEffect
<1>3. requests[r].key # "missing" /\ r \in Alarming
  BY <1>2 DEF Counted, Is, Alarming
<1>4. Cardinality(Refused') = Cardinality(Refused) + 1
      /\ Refused' = Refused \cup {r}
  BY <1>1, <1>2, <1>3, OneRefused
<1>5. Cardinality(Refused) >= AlarmAt - 1
  BY <1>3 DEF Counted
<1>6. \A q \in Req' : requests'[q].stage \in {"auth", "alarm"} =>
                      requests'[q].key # "missing"
  BY <1>1, <1>2 DEF Counted
<1>7. Succeeded \subseteq Succeeded'
  BY <1>1, <1>2 DEF Succeeded, Is
<1>8. Refused' \cup Alarming' = Refused \cup Alarming
  <2>1. Alarming' = Alarming \ {r}
    BY <1>1, <1>2 DEF Alarming, Is
  <2> QED
    BY <1>3, <1>4, <2>1
<1>9. faults' = faults /\ loop' = loop
  BY <1>2 DEF vars
<1>10. Succeeded' = {} /\ faults' = 0 =>
         Cardinality(Refused' \cup Alarming') <= authFails'
  <2>1. Succeeded = {} /\ faults = 0 =>
          Cardinality(Refused \cup Alarming) <= authFails
    BY DEF Counted
  <2>2. Cardinality(Refused' \cup Alarming') = Cardinality(Refused \cup Alarming)
    BY <1>8
  <2> QED
    BY <1>2, <1>7, <1>9, <2>1, <2>2
<1>11. Cardinality(Refused') >= AlarmAt
  BY <1>0, <1>4, <1>5
<1>12. faults' = 0 => loop' = "running"
  BY <1>9 DEF Counted
<1>13. health' # "ok"
  BY <1>2
<1>14. Cardinality(Refused') >= AlarmAt - 1
  BY <1>0, <1>4, <1>5
<1> QED
  BY <1>6, <1>10, <1>11, <1>12, <1>13, <1>14 DEF Counted

LEMMA CountedNext ==
  ASSUME IInv, KOTypeOK, Authenticated, Counted, [KONext]_allVars
  PROVE  Counted'
BY HealthGroups, ArriveCounted, AcceptCounted, FailCounted, RaiseCounted,
   OnwardCounted, RestartCounted, ElsewhereCounted

-----------------------------------------------------------------------------
(* Canonical rows seen through a document.                                 *)

\* Whose book a document names.
LEMMA DocumentBook ==
  ASSUME IInv, NEW p \in Push
  PROVE  /\ <<"koreader_doc_hash", p.document>> \in AliasField \X Value
         /\ BookOf(p) = aliases[<<"koreader_doc_hash", p.document>>]
         /\ BookOf(p) = 0 \/ BookOf(p) \in Book
         /\ Book = 1..Len(books) /\ Len(books) \in Nat /\ DOMAIN canon = Book
         /\ CanonicalEvent(p) \in Nat
<1>1. <<"koreader_doc_hash", p.document>> \in AliasField \X Value
  BY KOReaderAssumption DEF PushRequest, AliasField
<1>2. aliases \in [AliasField \X Value -> 0..Len(books)] /\ DOMAIN canon = Book
  BY DEF IInv, TypeOK
<1>3. Book = 1..Len(books) /\ Len(books) \in Nat
  BY LenProperties DEF IInv, TypeOK, Book
<1>4. BookOf(p) = aliases[<<"koreader_doc_hash", p.document>>]
  BY DEF BookOf
<1>5. BookOf(p) = 0 \/ BookOf(p) \in Book
  BY <1>1, <1>2, <1>3, <1>4
<1> QED
  BY <1>1, <1>2, <1>3, <1>4, <1>5, CanonicalType

LEMMA CanonEvent ==
  ASSUME IInv, NEW b \in Book
  PROVE  canon[b].event \in Event /\ Event = 1..Len(events) /\ Len(events) \in Nat
<1>1. canon[b].event \in AcceptedBefore(b, Len(events) + 1)
  BY DEF IInv, CanonCopies
<1>2. Event = 1..Len(events) /\ Len(events) \in Nat
  BY LenProperties DEF IInv, TypeOK, Event
<1> QED
  BY <1>1, <1>2 DEF AcceptedBefore

\* The same after a step.
LEMMA CanonicalNext ==
  ASSUME IInv', NEW p \in Push PROVE CanonicalEvent(p)' \in Nat
<1>1. <<"koreader_doc_hash", p.document>> \in AliasField \X Value
  BY KOReaderAssumption DEF PushRequest, AliasField
<1>2. aliases' \in [AliasField \X Value -> 0..Len(books')]
  BY DEF IInv, TypeOK
<1>3. Book' = 1..Len(books') /\ Len(books') \in Nat
  BY LenProperties DEF IInv, TypeOK, Book
<1>4. \A b \in Book' : canon'[b].event \in Nat
  BY DEF IInv, TypeOK, CanonRow
<1> QED
  BY <1>1, <1>2, <1>3, <1>4 DEF CanonicalEvent, BookOf

\* A step replaces the canonical row that a document names by that of a later
\* event, or leaves it.
LEMMA RowsAdvance ==
  ASSUME IInv, [Next]_vars, NEW p \in Push
  PROVE  \/ CanonicalEvent(p) < CanonicalEvent(p)'
         \/ /\ CanonicalEvent(p)' = CanonicalEvent(p) /\ BookOf(p)' = BookOf(p)
            /\ BookOf(p) # 0 => canon'[BookOf(p)] = canon[BookOf(p)]
<1> DEFINE k == <<"koreader_doc_hash", p.document>>
<1>1. /\ k \in AliasField \X Value
      /\ BookOf(p) = aliases[k] /\ BookOf(p)' = aliases'[k]
      /\ BookOf(p) = 0 \/ BookOf(p) \in Book
      /\ 0 \notin Book /\ CanonicalEvent(p) \in Nat
  BY DocumentBook DEF BookOf
<1>2. /\ CanonicalEvent(p) = IF BookOf(p) = 0 THEN 0 ELSE canon[BookOf(p)].event
      /\ CanonicalEvent(p)' = IF BookOf(p)' = 0 THEN 0
                              ELSE canon'[BookOf(p)'].event
  BY DEF CanonicalEvent
<1> HIDE DEF k
<1>3. CASE ~Process
  <2>1. aliases' = aliases /\ canon' = canon
    BY <1>3 DEF Next, Run, Submit, Send, Return, TimeOut, Reject, RollBack,
                Cancel, Stop, Restart, vars
  <2> QED
    BY <1>1, <1>2, <2>1
<1>4. CASE Process
  <2>1. CASE BookOf(p) = 0 /\ BookOf(p)' = 0
    BY <1>2, <2>1
  <2>2. CASE BookOf(p) = 0 /\ BookOf(p)' # 0
    <3>1. IInv'
      BY NextIInv
    <3>2. BookOf(p)' \in Book'
      <4>1. aliases' \in [AliasField \X Value -> 0..Len(books')]
            /\ Book' = 1..Len(books') /\ Len(books') \in Nat
        BY <3>1, LenProperties DEF IInv, TypeOK, Book
      <4> QED
        BY <1>1, <2>2, <4>1
    <3>3. canon'[BookOf(p)'].event \in AcceptedBefore(BookOf(p), Len(events) + 1)'
      BY <3>1, <3>2 DEF IInv, CanonCopies
    <3>4. canon'[BookOf(p)'].event \in Event'
      BY <3>3 DEF AcceptedBefore
    <3>5. Event' = 1..(Len(events) + 1) /\ Len(events) \in Nat
      BY <1>4, NewEvents
    <3> QED
      BY <1>2, <2>2, <3>4, <3>5
  <2>3. CASE BookOf(p) # 0
    <3>1. BookOf(p)' = BookOf(p) /\ BookOf(p) \in Book
      BY <1>1, <1>4, <2>3, NewAliases
    <3>2. CASE BookOf(p) # NewRow.book \/ Suspicious(In)
      <4>1. canon'[BookOf(p)] = canon[BookOf(p)]
        BY <1>4, <3>1, <3>2, NewCanon
      <4> QED
        BY <1>2, <3>1, <4>1
    <3>3. CASE BookOf(p) = NewRow.book /\ ~Suspicious(In)
      <4>1. canon'[BookOf(p)] = CanonRowOf(Len(events) + 1, NewRow)
        BY <1>4, <3>3, NewCanon
      <4>2. canon'[BookOf(p)].event = Len(events) + 1
        BY <4>1 DEF CanonRowOf
      <4>3. canon[BookOf(p)].event \in 1..Len(events) /\ Len(events) \in Nat
        BY <3>1, CanonEvent
      <4> QED
        BY <1>2, <2>3, <3>1, <4>2, <4>3
    <3> QED
      BY <3>2, <3>3
  <2> QED
    BY <2>1, <2>2, <2>3
<1> QED
  BY <1>3, <1>4

\* A book stays, and becomes recent only with a new canonical row.
LEMMA RecentNext ==
  ASSUME IInv, KOTypeOK, [KONext]_allVars, recent \subseteq Book
  PROVE  /\ recent' \subseteq Book' /\ Book \subseteq Book'
         /\ \A b \in recent' \cap Book : canon'[b] = canon[b] => b \in recent
<1>1. [Next]_vars
  BY StepIsPipelines
<1>2. IInv'
  BY <1>1, NextIInv
<1>3. DOMAIN canon' = Book' /\ DOMAIN canon = Book
  BY <1>2 DEF IInv, TypeOK
<1>4. Book \subseteq Book'
  <2>1. CASE Process
    BY <2>1, NewBooks
  <2>2. CASE ~Process
    <3>1. books' = books
      BY <1>1, <2>2 DEF Next, Run, Submit, Send, Return, TimeOut, Reject,
                        RollBack, Cancel, Stop, Restart, vars
    <3> QED
      BY <3>1 DEF Book
  <2> QED
    BY <2>1, <2>2
<1>5. \/ recent' \subseteq recent
      \/ recent' = recent \cup {b \in DOMAIN canon' :
                                 b \in DOMAIN canon => canon'[b] # canon[b]}
  BY DEF KONext, Register, Arrive, Handle, Accept, RecordFailure, RaiseAlarm,
         ClearFailures, SetHealthy, CheckPush, UpsertDevice, SubmitPush,
         AnswerPush, Pull, PipelineStep, SecondPasses, RestartService, allVars,
         koVars
<1> QED
  BY <1>3, <1>4, <1>5

-----------------------------------------------------------------------------
(* Pushes that went on after the stale check.                              *)

\* Going on and answering leave what a request has seen.
LEMMA SeenKept ==
  ASSUME KOTypeOK, NEW r \in Req
  PROVE  /\ \A stage \in Stage : Goto(r, stage) =>
              requests'[r].seen = requests[r].seen
         /\ \A code \in Nat : AnswerWith(r, code) =>
              requests'[r].seen = requests[r].seen
<1>1. requests[r] \in RequestRecord /\ requests \in Seq(RequestRecord)
      /\ r \in DOMAIN requests
  BY RequestType
<1>2. ASSUME NEW stage \in Stage, Goto(r, stage)
      PROVE  requests'[r].seen = requests[r].seen
  <2>1. requests'[r] = [requests[r] EXCEPT !.stage = stage]
    BY <1>1, <1>2 DEF Goto
  <2> QED
    BY <1>1, <2>1 DEF RequestRecord
<1>3. ASSUME NEW code \in Nat, AnswerWith(r, code)
      PROVE  requests'[r].seen = requests[r].seen
  <2>1. requests'[r] = [requests[r] EXCEPT !.stage = "answered", !.answer = code]
    BY <1>1, <1>3 DEF AnswerWith
  <2> QED
    BY <1>1, <2>1 DEF RequestRecord
<1> QED
  BY <1>2, <1>3

\* Past the check are those that were, as they were, and those that pass it
\* in this step.
LEMMA AsideChecked ==
  ASSUME IInv, KOTypeOK, OwnCalls, NEW r \in Req, HandlesAside(r), Checked(r)'
  PROVE  \/ Checked(r) /\ requests'[r].seen = requests[r].seen
         \/ CheckPush(r) /\ GoesOn(r)
<1>1. /\ requests'[r].op = requests[r].op /\ requests'[r].call = requests[r].call
  BY AsideEffect
<1>2. requests[r].call = 0
  BY AsideEffect DEF OwnCalls
<1>3. requests'[r].stage \in {"device", "submit", "waiting"}
      /\ requests'[r].op = "push"
  BY <1>1, <1>2 DEF Checked
<1>4. /\ \A stage \in Stage : Goto(r, stage) => requests'[r].stage = stage
      /\ \A code \in Nat : AnswerWith(r, code) => requests'[r].stage = "answered"
  BY AsideFields
<1>5. CASE UpsertDevice(r)
  <2>1. Goto(r, "submit") /\ "submit" \in Stage /\ Is(r, "device")
    BY <1>5 DEF UpsertDevice, Stage
  <2> QED
    BY <1>1, <1>3, <2>1, SeenKept DEF Checked, Is
<1>6. CASE CheckPush(r)
  <2>1. AnswerWith(r, 400) \/ AnswerWith(r, 412) \/ GoesOn(r)
    BY <1>6 DEF CheckPush, GoesOn
  <2> QED
    BY <1>3, <1>4, <1>6, <2>1
<1>7. CASE Pull(r)
  BY <1>1, <1>3, <1>7 DEF Pull
<1>8. CASE Accept(r) \/ RecordFailure(r) \/ RaiseAlarm(r) \/ ClearFailures(r)
           \/ SetHealthy(r)
  <2>1. \/ \E stage \in {"clear", "alarm", "healthy", "handler"} : Goto(r, stage)
        \/ \E code \in {200, 401} : AnswerWith(r, code)
    BY <1>8 DEF Accept, RecordFailure, RaiseAlarm, ClearFailures, SetHealthy
  <2>2. {"clear", "alarm", "healthy", "handler"} \subseteq Stage
    BY DEF Stage
  <2> QED
    BY <1>3, <1>4, <2>1, <2>2
<1> QED
  BY <1>5, <1>6, <1>7, <1>8 DEF HandlesAside

LEMMA CheckedFrom ==
  ASSUME IInv, KOTypeOK, OwnCalls, [KONext]_allVars, NEW r \in Req',
         Checked(r)'
  PROVE  /\ r \in Req /\ requests'[r].push = requests[r].push
         /\ \/ Checked(r) /\ requests'[r].seen = requests[r].seen
            \/ CheckPush(r) /\ GoesOn(r)
<1> DEFINE Same == /\ r \in Req /\ requests'[r].push = requests[r].push
                   /\ Checked(r) /\ requests'[r].seen = requests[r].seen
<1>1. ASSUME r \in Req, requests'[r] = requests[r] PROVE Same
  BY <1>1 DEF Checked
<1>2. ASSUME NEW h \in Traffic, Arrive(h) PROVE Same
  <2>1. /\ Req' = Req \cup {Len(requests) + 1}
        /\ \A q \in Req : requests'[q] = requests[q]
        /\ requests'[Len(requests) + 1].call = 0
        /\ requests'[Len(requests) + 1].stage \in {"auth", "answered"}
    BY <1>2, ArriveEffect
  <2>2. r # Len(requests) + 1
    BY <2>1 DEF Checked
  <2> QED
    BY <1>1, <2>1, <2>2
<1>3. ASSUME NEW q \in Req, HandlesAside(q)
      PROVE  \/ Same
             \/ /\ r \in Req /\ requests'[r].push = requests[r].push
                /\ CheckPush(r) /\ GoesOn(r)
  <2>1. /\ Req' = Req /\ requests'[q].push = requests[q].push
        /\ \A x \in Req \ {q} : requests'[x] = requests[x]
    BY <1>3, AsideEffect
  <2>2. CASE r = q
    BY <1>3, <2>1, <2>2, AsideChecked
  <2>3. CASE r # q
    BY <1>1, <2>1, <2>3
  <2> QED
    BY <2>2, <2>3
<1>4. ASSUME NEW q \in Req, SubmitPush(q) PROVE Same
  <2>1. /\ Req' = Req /\ requests'[q].push = requests[q].push
        /\ requests'[q].op = requests[q].op /\ Is(q, "submit")
        /\ requests'[q].seen = requests[q].seen
        /\ \A x \in Req \ {q} : requests'[x] = requests[x]
    BY <1>4, SubmitEffect
  <2>2. CASE r = q
    BY <2>1, <2>2 DEF Checked, Is
  <2>3. CASE r # q
    BY <1>1, <2>1, <2>3
  <2> QED
    BY <2>2, <2>3
<1>5. ASSUME NEW q \in Req, AnswerPush(q) PROVE Same
  <2>1. /\ Req' = Req /\ requests'[q].push = requests[q].push
        /\ requests'[q].op = requests[q].op /\ Is(q, "waiting")
        /\ requests'[q].seen = requests[q].seen
        /\ \A x \in Req \ {q} : requests'[x] = requests[x]
    BY <1>5, AnswerEffect
  <2>2. CASE r = q
    BY <2>1, <2>2 DEF Checked, Is
  <2>3. CASE r # q
    BY <1>1, <2>1, <2>3
  <2> QED
    BY <2>2, <2>3
<1>6. ASSUME RestartService PROVE Same
  <2>1. /\ Req' = Req
        /\ \A x \in Req :
             /\ requests'[x].push = requests[x].push
             /\ requests'[x].op = requests[x].op
             /\ requests'[x].call = requests[x].call
             /\ requests'[x].seen = requests[x].seen
             /\ requests'[x].stage \in {"answered", "lost"}
    BY <1>6, RestartEffect
  <2> QED
    BY <2>1 DEF Checked
<1>7. ASSUME Elsewhere PROVE Same
  BY <1>1, <1>7, ElsewhereFrame DEF Req
<1> QED
  BY <1>2, <1>3, <1>4, <1>5, <1>6, <1>7, KONextGroups

\* A push that was past the check, would still pass it, or has been overtaken.
LEMMA OvertakenNext ==
  ASSUME IInv, KOTypeOK, OwnCalls, Overlaps, [KONext]_allVars,
         NEW r \in Req', Checked(r)', NEW p \in Push, p = requests'[r].push
  PROVE  /\ ~Malformed(p)
         /\ requests'[r].seen <= CanonicalEvent(p)'
         /\ requests'[r].seen = CanonicalEvent(p)' => ~Stale(p)'
<1>1. /\ r \in Req /\ requests'[r].push = requests[r].push
      /\ \/ Checked(r) /\ requests'[r].seen = requests[r].seen
         \/ CheckPush(r) /\ GoesOn(r)
  BY CheckedFrom
<1>2. p = requests[r].push
  BY <1>1
<1>3. /\ BookOf(p) = 0 \/ BookOf(p) \in Book
      /\ CanonicalEvent(p) \in Nat
      /\ 0 \notin Book
  <2>1. /\ BookOf(p) = 0 \/ BookOf(p) \in Book
        /\ Book = 1..Len(books) /\ Len(books) \in Nat
        /\ CanonicalEvent(p) \in Nat
    BY DocumentBook, Zenon
  <2> QED
    BY <2>1
<1>4. CASE CheckPush(r) /\ GoesOn(r)
  <2>1. ~Malformed(p) /\ ~Stale(p)
    <3>1. requests'[r].stage = "device" /\ 400 \in Nat /\ 412 \in Nat
      BY <1>1, <1>4, GoesOnEffect
    <3>2. ~AnswerWith(r, 400) /\ ~AnswerWith(r, 412)
      BY <1>1, <3>1, AsideFields
    <3> QED
      BY <1>2, <1>4, <3>2 DEF CheckPush
  <2>2. requests'[r].seen = CanonicalEvent(p)
    BY <1>1, <1>2, <1>4, GoesOnEffect
  <2>3. canon' = canon /\ aliases' = aliases /\ recent' = recent
    BY <1>4 DEF CheckPush, vars
  <2>4. CanonicalEvent(p)' = CanonicalEvent(p) /\ Stale(p)' = Stale(p)
    BY <2>3 DEF CanonicalEvent, BookOf, Stale
  <2> QED
    BY <1>1, <1>2, <1>3, <2>1, <2>2, <2>4
<1>5. CASE Checked(r) /\ requests'[r].seen = requests[r].seen
  <2>1. /\ ~Malformed(p) /\ requests[r].seen <= CanonicalEvent(p)
        /\ requests[r].seen = CanonicalEvent(p) => ~Stale(p)
    BY <1>1, <1>2, <1>5 DEF Overlaps
  <2>2. requests[r].seen \in Nat
    BY <1>1, RequestType DEF RequestRecord
  <2>3. [Next]_vars
    BY StepIsPipelines
  <2>4. IInv'
    BY <2>3, NextIInv
  <2>5. CanonicalEvent(p)' \in Nat
    BY <2>4, CanonicalNext
  <2>6. CASE CanonicalEvent(p) < CanonicalEvent(p)'
    BY <1>1, <1>2, <1>3, <1>5, <2>1, <2>2, <2>5, <2>6
  <2>7. CASE /\ CanonicalEvent(p)' = CanonicalEvent(p) /\ BookOf(p)' = BookOf(p)
             /\ BookOf(p) # 0 => canon'[BookOf(p)] = canon[BookOf(p)]
    <3>1. Stale(p)' => Stale(p)
      <4>1. /\ recent' \subseteq Book' /\ Book \subseteq Book'
            /\ \A b \in recent' \cap Book : canon'[b] = canon[b] => b \in recent
        BY RecentNext DEF Overlaps
      <4>2. 0 \notin Book'
        <5>1. Book' = 1..Len(books') /\ Len(books') \in Nat
          BY <2>4, LenProperties DEF IInv, TypeOK, Book
        <5> QED
          BY <5>1
      <4> QED
        BY <1>3, <2>7, <4>1, <4>2 DEF Stale
    <3> QED
      BY <1>1, <1>2, <1>3, <1>5, <2>1, <2>2, <2>7, <3>1
  <2> QED
    BY <2>3, <2>6, <2>7, RowsAdvance
<1> QED
  BY <1>1, <1>4, <1>5

\* A call stays with its request.
LEMMA CallStays ==
  ASSUME IInv, KOTypeOK, OwnCalls, [KONext]_allVars, NEW q \in Req,
         requests[q].call # 0
  PROVE  q \in Req' /\ requests'[q].call = requests[q].call
<1>1. ASSUME NEW r \in Req, SubmitPush(r)
      PROVE  q \in Req' /\ requests'[q].call = requests[q].call
  <2>1. Is(r, "submit") /\ Req' = Req
        /\ \A x \in Req \ {r} : requests'[x] = requests[x]
    BY <1>1, SubmitEffect
  <2>2. q # r
    BY <2>1 DEF OwnCalls, Is
  <2> QED
    BY <2>1, <2>2
<1>2. ASSUME NEW r \in Req, HandlesAside(r) \/ AnswerPush(r)
      PROVE  q \in Req' /\ requests'[q].call = requests[q].call
  <2>1. Req' = Req /\ requests'[r].call = requests[r].call
        /\ \A x \in Req \ {r} : requests'[x] = requests[x]
    BY <1>2, AsideEffect, AnswerEffect
  <2> QED
    BY <2>1
<1>3. ASSUME NEW h \in Traffic, Arrive(h)
      PROVE  q \in Req' /\ requests'[q].call = requests[q].call
  BY <1>3, ArriveEffect
<1>4. RestartService => q \in Req' /\ requests'[q].call = requests[q].call
  BY RestartEffect
<1>5. Elsewhere => q \in Req' /\ requests'[q].call = requests[q].call
  BY ElsewhereFrame DEF Req
<1> QED
  BY <1>1, <1>2, <1>3, <1>4, <1>5, KONextGroups

\* Submit is called for pushes only.
LEMMA CallsOwnedNext ==
  ASSUME IInv, KOTypeOK, OwnCalls, Overlaps, [KONext]_allVars, NEW n \in Call'
  PROVE  \E r \in Req' : requests'[r].call = n
<1>0. Call = 1..Len(calls) /\ Len(calls) \in Nat
  BY LenProperties DEF IInv, TypeOK, Call
<1>1. ASSUME n \in Call PROVE \E r \in Req' : requests'[r].call = n
  <2>1. PICK r \in Req : requests[r].call = n
    BY <1>1 DEF Overlaps
  <2>2. requests[r].call # 0
    BY <1>0, <1>1, <2>1
  <2> QED
    BY <2>1, <2>2, CallStays
<1>2. ASSUME NEW r \in Req, SubmitPush(r)
      PROVE  \E q \in Req' : requests'[q].call = n
  <2>1. requests'[r].call = Len(calls) + 1 /\ Req' = Req
    BY <1>2, SubmitEffect
  <2>2. n \in Call \/ n = Len(calls) + 1
    <3>1. PICK c : calls' = Append(calls, c)
      BY <1>2 DEF SubmitPush, Submit
    <3>2. Call' = 1..(Len(calls) + 1)
      <4>1. KOTypeOK /\ IInv'
        BY StepIsPipelines, NextIInv
      <4>2. Call' = 1..Len(calls')
        BY <4>1, LenProperties DEF IInv, TypeOK, Call
      <4>3. Len(calls') = Len(calls) + 1
        BY <3>1 DEF IInv, TypeOK
      <4> QED
        BY <4>2, <4>3
    <3> QED
      BY <1>0, <3>2
  <2> QED
    BY <1>1, <2>1, <2>2
<1>3. CASE ~ \E r \in Req : SubmitPush(r)
  <2>1. Call' = Call
    <3>2. ASSUME PipelineStep PROVE Call' = Call
      <4>1. Process \/ Reject \/ RollBack => DOMAIN calls' = DOMAIN calls
        BY DEF Process, Reject, RollBack, Answer
      <4>2. \A c \in Call :
              Send(c) \/ Return(c) \/ TimeOut(c) => DOMAIN calls' = DOMAIN calls
        BY DEF Send, Return, TimeOut
      <4>3. Cancel \/ Stop => DOMAIN calls' = DOMAIN calls
        BY DEF Cancel, Stop
      <4> QED
        BY <3>2, <4>1, <4>2, <4>3 DEF PipelineStep, Run, Call
    <3>3. RestartService => Call' = Call
      BY DEF RestartService, Restart, Call
    <3>4. PipelineStep \/ RestartService \/ calls' = calls
      BY <1>3 DEF KONext, Register, Arrive, Handle, Accept, RecordFailure,
           RaiseAlarm, ClearFailures, SetHealthy, CheckPush, UpsertDevice,
           AnswerPush, Pull, SecondPasses, vars, allVars
    <3> QED
      BY <3>2, <3>3, <3>4 DEF Call
  <2> QED
    BY <1>1, <2>1
<1> QED
  BY <1>2, <1>3

LEMMA OverlapsNext ==
  ASSUME IInv, KOTypeOK, OwnCalls, Overlaps, [KONext]_allVars
  PROVE  Overlaps'
<1>1. recent' \subseteq Book'
  BY RecentNext DEF Overlaps
<1>2. \A n \in Call' : \E r \in Req' : requests'[r].call = n
  BY CallsOwnedNext
<1>3. KOTypeOK'
  BY KOTypeNext
<1>4. ASSUME NEW r \in Req', Checked(r)'
      PROVE  LET p == requests[r].push IN
             (/\ ~Malformed(p)
              /\ requests[r].seen <= CanonicalEvent(p)
              /\ requests[r].seen = CanonicalEvent(p) => ~Stale(p))'
  <2>1. requests'[r] \in RequestRecord
    BY <1>3, ElementOfSeq, LenProperties DEF KOTypeOK, Req
  <2>2. PICK p \in Push : p = requests'[r].push
    BY <2>1 DEF RequestRecord
  <2>3. /\ ~Malformed(p)
        /\ requests'[r].seen <= CanonicalEvent(p)'
        /\ requests'[r].seen = CanonicalEvent(p)' => ~Stale(p)'
    BY <1>4, <2>2, OvertakenNext
  <2> QED
    BY <2>2, <2>3 DEF Malformed, CanonicalEvent, BookOf, Stale
<1> QED
  BY <1>1, <1>2, <1>4 DEF Overlaps

\* Nothing above a hundred per cent becomes canonical.
LEMMA CanonPercent ==
  ASSUME IInv, KOInv, Overlaps, NEW b \in Book
  PROVE  canon[b].percent \in 0..100
<1>1. canon[b].event \in Event
  BY CanonEvent
<1>2. PICK e \in Event : canon[b] = CanonRowOf(e, events[e])
  <2>1. canon[b] = CanonRowOf(canon[b].event, events[canon[b].event])
    BY DEF IInv, CanonCopies
  <2> QED
    BY <1>1, <2>1
<1>3. canon[b].percent = events[e].percent
  BY <1>2 DEF CanonRowOf
<1>4. events[e].call \in Call /\ Call = 1..Len(calls) /\ Len(calls) \in Nat
  BY LenProperties DEF IInv, Answers, TypeOK, Call
<1>5. PICK r \in Req : requests[r].call = events[e].call
  BY <1>4 DEF Overlaps
<1>6. /\ requests[r].op = "push" /\ requests[r].call # 0
      /\ calls[events[e].call].event = ToAdapterEvent(requests[r].push)
  BY <1>4, <1>5 DEF KOInv, OwnCalls
<1>7. requests[r].push.percent \in 0..101
  BY <1>6 DEF Overlaps, Checked, Malformed
<1>8. calls[events[e].call].event.percent = requests[r].push.percent
  BY <1>6 DEF ToAdapterEvent
<1>9. events[e].percent = IF requests[r].push.percent > 100 THEN 100
                          ELSE requests[r].push.percent
  BY <1>8, Zenon DEF KOInv, StoredAsSent
<1> QED
  BY <1>3, <1>7, <1>9

\* The book of a push that is processed and known is that of its document.
LEMMA FoundByDocument ==
  ASSUME IInv, ingest # <<>>, NEW p \in Push,
         calls[Taken].event = ToAdapterEvent(p), FindBook(In.evidence) # 0
  PROVE  FindBook(In.evidence) = BookOf(p)
<1>1. calls[Taken].event \in AdapterEvent
  BY TakenType DEF IInv
<1>2. In.evidence = ToAdapterEvent(p).evidence /\ In.evidence \in Evidence
  BY <1>1, NormalizedType DEF In
<1> DEFINE ev == In.evidence
           b == FindBook(ev)
<1>3. /\ ev["koreader_doc_hash"] = p.document
      /\ \A f \in Field : Present(f, ev) <=> f = "koreader_doc_hash"
      /\ "koreader_doc_hash" \in AliasField
  BY <1>2, DocumentAlone DEF OnlyKey
<1>4. PICK f \in Field : b \in Matching(f, ev)
  BY <1>2, FindBookFinds DEF IInv
<1>5. f = "koreader_doc_hash"
  BY <1>3, <1>4 DEF Matching
<1>6. b \in {aliases[<<f, ev[f]>>]} \ {0}
  BY <1>3, <1>4, <1>5 DEF Matching
<1>7. b = aliases[<<"koreader_doc_hash", p.document>>]
  BY <1>3, <1>5, <1>6
<1> QED
  BY <1>7 DEF BookOf

LEMMA LoweredStep ==
  ASSUME IInv, KOInv, Overlaps, [KONext]_allVars, NEW b \in recent,
         canon'[b].percent < canon[b].percent
  PROVE  \E r \in Req : /\ requests[r].call = events'[canon'[b].event].call
                        /\ requests[r].seen < canon[b].event
<1>0. /\ b \in Book /\ canon[b].percent \in 0..100
      /\ KOTypeOK /\ OwnCalls
  BY CanonPercent DEF Overlaps, KOInv
<1>1. [Next]_vars
  BY <1>0, StepIsPipelines
<1>2. Process
  <2>1. CASE ~Process
    <3>1. canon' = canon
      BY <1>1, <2>1 DEF Next, Run, Submit, Send, Return, TimeOut, Reject,
                        RollBack, Cancel, Stop, Restart, vars
    <3> QED
      BY <1>0, <3>1
  <2> QED
    BY <2>1
<1>3. ingest # <<>>
  BY <1>2 DEF Process
<1>4. b = NewRow.book /\ canon'[b] = CanonRowOf(Len(events) + 1, NewRow)
  <2>1. canon'[b] # canon[b]
    BY <1>0
  <2> QED
    BY <1>0, <1>2, <2>1, NewCanon
<1>5. /\ canon'[b].event = Len(events) + 1 /\ canon'[b].percent = NewRow.percent
  BY <1>4 DEF CanonRowOf
<1>6. events'[canon'[b].event].call = Taken /\ canon'[b].percent = In.percent
  BY <1>2, <1>3, <1>5, NewEvents, NewRowType
<1>7. Taken \in Call /\ Taken # 0 /\ calls[Taken].event \in AdapterEvent
  <2>1. Call = 1..Len(calls) /\ Len(calls) \in Nat
    BY LenProperties DEF IInv, TypeOK, Call
  <2> QED
    BY <1>3, <2>1, TakenType DEF IInv
<1>8. PICK r \in Req : requests[r].call = Taken
  BY <1>7 DEF Overlaps
<1>9. PICK p \in Push : p = requests[r].push
  BY <1>0, PushType
<1>10. Checked(r) /\ calls[Taken].event = ToAdapterEvent(p)
  BY <1>0, <1>7, <1>8, <1>9 DEF OwnCalls, Checked
<1>11. /\ p.percent \in 0..101 /\ requests[r].seen <= CanonicalEvent(p)
       /\ requests[r].seen = CanonicalEvent(p) => ~Stale(p)
  BY <1>9, <1>10 DEF Overlaps, Malformed
<1>12. In.percent = IF p.percent > 100 THEN 100 ELSE p.percent
  <2>1. calls[Taken].event.percent = p.percent
    BY <1>10 DEF ToAdapterEvent
  <2> QED
    BY <1>7, <2>1 DEF In, Normalized, AdapterEvent
<1>13. BookOf(p) = b
  <2>1. FindBook(In.evidence) # 0 /\ b = FindBook(In.evidence)
    BY <1>0, <1>2, <1>4, NewBooks
  <2> QED
    BY <1>3, <1>10, <2>1, FoundByDocument
<1>14. CanonicalEvent(p) = canon[b].event /\ canon[b].event \in Nat
  <2>1. canon[b].event \in 1..Len(events) /\ Len(events) \in Nat
    BY <1>0, CanonEvent
  <2>2. b # 0
    <3>1. Book = 1..Len(books) /\ Len(books) \in Nat
      BY LenProperties DEF IInv, TypeOK, Book
    <3> QED
      BY <1>0, <3>1
  <2> QED
    BY <1>13, <2>1, <2>2 DEF CanonicalEvent
<1>15. requests[r].seen # CanonicalEvent(p)
  <2>1. PICK x \in 0..100, y \in 0..101 : x = canon[b].percent /\ y = p.percent
    BY <1>0, <1>11
  <2>2. In.percent < x /\ In.percent = IF y > 100 THEN 100 ELSE y
    BY <1>6, <1>12, <2>1
  <2>3. x > y /\ x # Nil
    BY <2>1, <2>2 DEF Nil
  <2>4. Stale(p)
    BY <1>13, <2>1, <2>3 DEF Stale
  <2> QED
    BY <1>11, <2>4
<1>16. requests[r].seen \in Nat
  BY <1>0, RequestType DEF RequestRecord
<1> QED
  BY <1>6, <1>8, <1>11, <1>14, <1>15, <1>16

-----------------------------------------------------------------------------
(* The theorems.                                                           *)

LEMMA InitServerInv == KOInit => Counted /\ Overlaps
<1> SUFFICES ASSUME KOInit PROVE Counted /\ Overlaps
  OBVIOUS
<1>1. /\ requests = <<>> /\ Req = {} /\ authFails = 0 /\ health = "ok"
      /\ recent = {} /\ calls = <<>> /\ Call = {} /\ loop = "running"
      /\ AlarmAt \in Nat \ {0}
  BY KOReaderAssumption DEF KOInit, Init, Req, Call
<1>2. Refused = {} /\ Alarming = {}
  BY <1>1 DEF Refused, Alarming
<1>3. Cardinality(Refused) = 0 /\ Cardinality(Refused \cup Alarming) = 0
  <2>1. Refused \cup Alarming = {}
    BY <1>2
  <2> QED
    BY <1>2, <2>1, FS_EmptySet
<1>4. Counted
  BY <1>1, <1>2, <1>3 DEF Counted
<1>5. Overlaps
  BY <1>1 DEF Overlaps
<1> QED
  BY <1>4, <1>5

\* The whole invariant of the server, beside the pipeline's.
THEOREM ServerInductive == KOSpec => []ServerInv
<1>1. KOInit => IInv /\ ServerInv
  BY InitKOInv, InitServerInv DEF ServerInv
<1>2. IInv /\ ServerInv /\ [KONext]_allVars => (IInv /\ ServerInv)'
  <2> SUFFICES ASSUME IInv, ServerInv, [KONext]_allVars
               PROVE  IInv' /\ ServerInv'
    OBVIOUS
  <2>1. /\ KOInv /\ Counted /\ Overlaps
        /\ KOTypeOK /\ Authenticated /\ OwnCalls
    BY DEF ServerInv, KOInv
  <2>2. IInv' /\ KOInv'
    BY <2>1, NextKOInv
  <2>3. Counted'
    BY <2>1, CountedNext
  <2>4. Overlaps'
    BY <2>1, OverlapsNext
  <2> QED
    BY <2>2, <2>3, <2>4 DEF ServerInv
<1> QED
  BY <1>1, <1>2, PTL DEF KOSpec

\* The user is asked to act only after AlarmAt failed logins, and then as long
\* as nobody logged in and nothing restarted (recordAuthFailure, setHealth).
THEOREM HealthTells == KOSpec => []HealthTellsFailures
<1>1. ServerInv => HealthTellsFailures
  <2> SUFFICES ASSUME ServerInv PROVE HealthTellsFailures
    OBVIOUS
  <2>1. KOTypeOK /\ Counted
    BY DEF ServerInv, KOInv
  <2>2. /\ health \in {"ok", "needs_user_action"}
        /\ Cardinality(Refused) \in Nat /\ AlarmAt \in Nat
    BY <2>1, SomeFinite, KOReaderAssumption DEF KOTypeOK
  <2> QED
    BY <2>1, <2>2 DEF Counted, HealthTellsFailures
<1> QED
  BY <1>1, ServerInductive, PTL

\* Within a second of being written, a canonical row is lowered only by a push
\* that had read the row before that write: handlePush's check and Submit are
\* two steps, and nothing else lets a device that is behind win.
THEOREM OnlyOverlapsLower == KOSpec => LoweredByOverlapOnly
<1>1. IInv /\ ServerInv /\ [KONext]_allVars =>
        [\A b \in recent :
           canon'[b].percent < canon[b].percent =>
             \E r \in Req : /\ requests[r].call = events'[canon'[b].event].call
                            /\ requests[r].seen < canon[b].event]_allVars
  BY LoweredStep DEF ServerInv
<1> QED
  BY <1>1, KOInductive, ServerInductive, PTL DEF KOSpec, LoweredByOverlapOnly
=============================================================================
