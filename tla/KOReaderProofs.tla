--------------------------- MODULE KOReaderProofs ---------------------------
(***************************************************************************)
(* Theorems about KOReader, for any traffic, any number of requests, any   *)
(* capacity of the channel and any faults.  Every step of the server is a  *)
(* step of the pipeline or leaves it alone, so the pipeline's invariant    *)
(* holds behind it; with it KOInv is inductive.                            *)
(***************************************************************************)
EXTENDS KOReader, PipelineProofs

-----------------------------------------------------------------------------
(* The calls of Submit, seen from outside.                                 *)

\* A call keeps its event, and the answer nil.
LEMMA CallsKept ==
  ASSUME IInv, [Next]_vars
  PROVE  /\ Call \subseteq Call'
         /\ \A n \in Call : /\ calls'[n].event = calls[n].event
                            /\ calls[n].phase = "ok" => calls'[n].phase = "ok"
<1> DEFINE Kept == /\ Call \subseteq Call'
                   /\ \A n \in Call :
                        /\ calls'[n].event = calls[n].event
                        /\ calls[n].phase = "ok" => calls'[n].phase = "ok"
<1>0. TypeOK /\ calls \in Seq(CallRecord) /\ Call = 1..Len(calls)
      /\ Len(calls) \in Nat
  BY LenProperties DEF IInv, TypeOK, Call
<1>1. ASSUME NEW in \in Input, Submit(in) PROVE Kept
  <2> DEFINE c == [event |-> in, phase |-> "sending", result |-> "none"]
  <2>1. c \in CallRecord /\ calls' = Append(calls, c)
    BY <1>1 DEF Submit, CallRecord, Phase
  <2> HIDE DEF c
  <2>2. /\ Len(calls') = Len(calls) + 1 /\ calls' \in Seq(CallRecord)
        /\ \A n \in 1..Len(calls) : calls'[n] = calls[n]
    BY <1>0, <2>1, AppendProperties
  <2>3. Call' = 1..Len(calls')
    BY <2>2, LenProperties DEF Call
  <2> QED
    BY <1>0, <2>2, <2>3
<1>2. ASSUME NEW n \in Call, Send(n) \/ Return(n) \/ TimeOut(n) PROVE Kept
  <2>1. calls[n] \in CallRecord
    BY <1>0, ElementOfSeq
  <2>2. PICK p \in Phase : /\ calls' = [calls EXCEPT ![n].phase = p]
                           /\ calls[n].phase # "ok"
    BY <1>2, <2>1 DEF Send, Return, TimeOut, CallRecord, Phase
  <2>3. /\ Call' = Call
        /\ \A m \in Call : /\ calls'[m].event = calls[m].event
                           /\ calls'[m].phase = IF m = n THEN p ELSE calls[m].phase
    <3>1. calls' = [calls EXCEPT ![n].phase = p]
      BY <2>2
    <3>2. TypeOK
      BY <1>0
    <3> QED
      BY <3>1, <3>2, MovedCall
  <2> QED
    BY <2>2, <2>3
<1>3. CASE Process \/ Reject \/ RollBack
  <2>1. PICK result \in {"ok", "error"} : Answer(Taken, result)
    BY <1>3 DEF Process, Reject, RollBack, Taken
  <2>2. ingest # <<>>
    BY <1>3 DEF Process, Reject, RollBack
  <2> QED
    BY <1>0, <2>1, <2>2, AnsweredCalls
<1>4. CASE Restart
  <2>1. calls' = [n \in Call |->
                    IF calls[n].phase \in {"sending", "waiting"}
                    THEN [calls[n] EXCEPT !.phase = "lost"] ELSE calls[n]]
    BY <1>4 DEF Restart
  <2>2. \A n \in Call : calls[n] \in CallRecord
    BY <1>0, ElementOfSeq
  <2>3. \A n \in Call : [calls[n] EXCEPT !.phase = "lost"].event = calls[n].event
    BY <2>2 DEF CallRecord
  <2>4. DOMAIN calls' = Call
    BY <2>1
  <2>5. ASSUME NEW n \in Call
        PROVE  /\ calls'[n].event = calls[n].event
               /\ calls[n].phase = "ok" => calls'[n].phase = "ok"
    <3>1. CASE calls[n].phase \in {"sending", "waiting"}
      <4>1. calls'[n] = [calls[n] EXCEPT !.phase = "lost"]
        BY <2>1, <3>1, Zenon
      <4> QED
        BY <2>3, <3>1, <4>1
    <3>2. CASE calls[n].phase \notin {"sending", "waiting"}
      <4>1. calls'[n] = calls[n]
        BY <2>1, <3>2, Zenon
      <4> QED
        BY <4>1
    <3> QED
      BY <3>1, <3>2
  <2> QED
    BY <2>4, <2>5 DEF Call
<1>5. CASE Cancel \/ Stop \/ UNCHANGED vars
  BY <1>5 DEF Cancel, Stop, vars, Call
<1> QED
  BY <1>1, <1>2, <1>3, <1>4, <1>5 DEF Next, Run

\* A stored event is new, with the clamped percentage of its call, or old.
LEMMA StoredNext ==
  ASSUME IInv, StoredAsSent, [Next]_vars PROVE StoredAsSent'
<1>1. /\ Call \subseteq Call'
      /\ \A n \in Call : calls'[n].event = calls[n].event
  BY CallsKept
<1>2. \A e \in Event : events[e].call \in Call
  BY DEF IInv, Answers
<1>3. CASE Process
  <2>1. /\ Event' = 1..(Len(events) + 1) /\ Event = 1..Len(events)
        /\ Len(events) \in Nat
        /\ \A e \in Event : events'[e] = events[e]
        /\ events'[Len(events) + 1] = NewRow
    BY <1>3, NewEvents
  <2>2. ingest # <<>>
    BY <1>3 DEF Process
  <2>3. NewRow.call = Taken /\ NewRow.percent = In.percent
    BY <2>2, NewRowType
  <2>4. Taken \in Call /\ calls[Taken].event \in AdapterEvent
    BY <2>2, TakenType DEF IInv
  <2>5. In.percent = IF calls[Taken].event.percent > 100 THEN 100
                     ELSE calls[Taken].event.percent
    BY <2>4 DEF In, Normalized, AdapterEvent
  <2> DEFINE new == Len(events) + 1
  <2>6. /\ events'[new].percent = In.percent
        /\ calls'[events'[new].call].event.percent = calls[Taken].event.percent
    BY <1>1, <2>1, <2>3, <2>4
  <2>7. \A e \in Event' : e = new \/ e \in Event
    BY <2>1
  <2> HIDE DEF new
  <2> QED
    BY <1>1, <1>2, <2>1, <2>5, <2>6, <2>7 DEF StoredAsSent
<1>4. CASE ~Process
  <2>1. events' = events
    BY <1>4 DEF Next, Run, Submit, Send, Return, TimeOut, Reject, RollBack,
                Cancel, Stop, Restart, vars
  <2>2. Event' = Event
    BY <2>1 DEF Event
  <2> QED
    BY <1>1, <1>2, <2>1, <2>2 DEF StoredAsSent
<1> QED
  BY <1>3, <1>4

-----------------------------------------------------------------------------
(* The requests.                                                           *)

\* A request that is replaced by another record.
LEMMA ChangedRequest ==
  ASSUME KOTypeOK, NEW r \in Req, NEW c \in RequestRecord,
         requests' = [requests EXCEPT ![r] = c]
  PROVE  /\ requests' \in Seq(RequestRecord) /\ Len(requests') = Len(requests)
         /\ Req' = Req
         /\ requests'[r] = c
         /\ \A q \in Req \ {r} : requests'[q] = requests[q]
<1>1. requests \in Seq(RequestRecord) /\ Req = 1..Len(requests)
      /\ Len(requests) \in Nat
  BY LenProperties DEF KOTypeOK, Req
<1>2. /\ requests' \in Seq(RequestRecord) /\ Len(requests') = Len(requests)
      /\ \A q \in 1..Len(requests) :
           requests'[q] = IF q = r THEN c ELSE requests[q]
  BY <1>1, ExceptSeq
<1>3. Req' = 1..Len(requests')
  BY <1>2, LenProperties DEF Req
<1> QED
  BY <1>1, <1>2, <1>3

\* A request moves on to a stage, with what it has by then.
MovedTo(r, stage, seen, call, answer) ==
  requests' = [requests EXCEPT ![r] =
    [requests[r] EXCEPT !.stage = stage, !.seen = seen, !.call = call,
                        !.answer = answer]]

\* What that does to it, and to the others.
LEMMA MovedRequest ==
  ASSUME KOTypeOK, NEW r \in Req, NEW stage \in Stage, NEW seen \in Nat,
         NEW call \in Nat, NEW answer \in Nat,
         MovedTo(r, stage, seen, call, answer)
  PROVE  /\ requests' \in Seq(RequestRecord) /\ Len(requests') = Len(requests)
         /\ Req' = Req
         /\ \A q \in Req \ {r} : requests'[q] = requests[q]
         /\ requests'[r].op = requests[r].op
         /\ requests'[r].key = requests[r].key
         /\ requests'[r].push = requests[r].push
         /\ requests'[r].stage = stage /\ requests'[r].call = call
         /\ requests'[r].answer = answer /\ requests'[r].seen = seen
         /\ requests'[r].floor = requests[r].floor
<1>1. requests[r] \in RequestRecord
  BY ElementOfSeq, LenProperties DEF KOTypeOK, Req
<1> DEFINE c == [requests[r] EXCEPT !.stage = stage, !.seen = seen,
                                    !.call = call, !.answer = answer]
<1>2. /\ c \in RequestRecord
      /\ c.op = requests[r].op /\ c.key = requests[r].key
      /\ c.push = requests[r].push
      /\ c.stage = stage /\ c.call = call /\ c.answer = answer
      /\ c.seen = seen /\ c.floor = requests[r].floor
  BY <1>1 DEF RequestRecord
<1>3. requests' = [requests EXCEPT ![r] = c]
  BY DEF MovedTo
<1> HIDE DEF c
<1> QED
  BY <1>2, <1>3, ChangedRequest

\* An answer is such a move.
LEMMA AnswerForm ==
  ASSUME KOTypeOK, NEW r \in Req, NEW code \in Nat, AnswerWith(r, code)
  PROVE  MovedTo(r, "answered", requests[r].seen, requests[r].call, code)
<1>1. requests[r] \in RequestRecord
  BY ElementOfSeq, LenProperties DEF KOTypeOK, Req
<1> QED
  BY <1>1 DEF AnswerWith, MovedTo, RequestRecord

\* The document of a push is one of the pipeline's, and so is what is read.
LEMMA CanonicalType ==
  ASSUME IInv, NEW p \in Push PROVE CanonicalEvent(p) \in Nat
<1>1. p \in PushRequest
  BY KOReaderAssumption
<1>2. p.document \in Value /\ "koreader_doc_hash" \in AliasField
  BY <1>1 DEF PushRequest, AliasField
<1>3. aliases \in [AliasField \X Value -> 0..Len(books)]
  BY DEF IInv, TypeOK
<1>4. BookOf(p) \in 0..Len(books)
  BY <1>2, <1>3 DEF BookOf
<1>5. Book = 1..Len(books) /\ Len(books) \in Nat
  BY LenProperties DEF IInv, TypeOK, Book
<1>6. BookOf(p) # 0 => canon[BookOf(p)] \in CanonRow
  BY <1>4, <1>5 DEF IInv, TypeOK
<1> QED
  BY <1>6 DEF CanonicalEvent, CanonRow

\* What a handler's step does to its request, apart from submitting and the
\* answer to a push: it goes on, or answers.
HandlesAside(r) ==
  \/ Accept(r) \/ RecordFailure(r) \/ RaiseAlarm(r) \/ ClearFailures(r)
  \/ SetHealthy(r) \/ CheckPush(r) \/ UpsertDevice(r) \/ Pull(r)

\* Each of those steps, in one form.
LEMMA AsideForm ==
  ASSUME IInv, KOTypeOK, NEW r \in Req, HandlesAside(r)
  PROVE  \E stage \in Stage, seen \in Nat, answer \in Nat :
           MovedTo(r, stage, seen, requests[r].call, answer)
<1> DEFINE Form(stage, seen, answer) ==
             [requests EXCEPT ![r] =
               [requests[r] EXCEPT !.stage = stage, !.seen = seen,
                                   !.call = requests[r].call,
                                   !.answer = answer]]
<1>1. requests[r] \in RequestRecord
  BY ElementOfSeq, LenProperties DEF KOTypeOK, Req
<1>2. requests[r].push \in Push /\ requests[r].seen \in Nat
      /\ requests[r].answer \in Nat
  BY <1>1 DEF RequestRecord
<1>3. CanonicalEvent(requests[r].push) \in Nat
  BY <1>2, CanonicalType
<1>4. ASSUME NEW stage \in Stage, Goto(r, stage)
      PROVE  requests' = Form(stage, requests[r].seen, requests[r].answer)
  BY <1>1, <1>4 DEF Goto, RequestRecord
<1>5. ASSUME NEW code \in Nat, AnswerWith(r, code)
      PROVE  requests' = Form("answered", requests[r].seen, code)
  BY <1>1, <1>5 DEF AnswerWith, RequestRecord
<1>6. ASSUME requests' = [requests EXCEPT ![r].stage = "device",
                            ![r].seen = CanonicalEvent(requests[r].push)]
      PROVE  requests' = Form("device", CanonicalEvent(requests[r].push),
                              requests[r].answer)
  BY <1>1, <1>6 DEF RequestRecord
<1>7. ASSUME requests' = [requests EXCEPT ![r].stage = "answered",
                            ![r].seen = CanonicalEvent(requests[r].push),
                            ![r].answer = 200]
      PROVE  requests' = Form("answered", CanonicalEvent(requests[r].push), 200)
  <2> DEFINE d == [requests[r] EXCEPT !.stage = "answered",
                     !.seen = CanonicalEvent(requests[r].push), !.answer = 200]
             c == [requests[r] EXCEPT !.stage = "answered",
                     !.seen = CanonicalEvent(requests[r].push),
                     !.call = requests[r].call, !.answer = 200]
  <2>1. d = c
    BY <1>1 DEF RequestRecord
  <2>2. requests' = [requests EXCEPT ![r] = d]
    BY <1>7, Zenon
  <2>3. requests' = [requests EXCEPT ![r] = c]
    BY <2>1, <2>2, Zenon
  <2> QED
    BY <2>3, Zenon
<1>8. \/ \E stage \in Stage : Goto(r, stage)
      \/ \E code \in Nat : AnswerWith(r, code)
      \/ requests' = [requests EXCEPT ![r].stage = "device",
                        ![r].seen = CanonicalEvent(requests[r].push)]
      \/ requests' = [requests EXCEPT ![r].stage = "answered",
                        ![r].seen = CanonicalEvent(requests[r].push),
                        ![r].answer = 200]
  BY DEF HandlesAside, Accept, RecordFailure, RaiseAlarm, ClearFailures,
         SetHealthy, CheckPush, UpsertDevice, Pull, Stage
<1> HIDE DEF Form
<1>9. \E stage \in Stage, seen \in Nat, answer \in Nat :
        requests' = Form(stage, seen, answer)
  <2>1. "device" \in Stage /\ "answered" \in Stage /\ 200 \in Nat
    BY DEF Stage
  <2> QED
    BY <1>2, <1>3, <1>4, <1>5, <1>6, <1>7, <1>8, <2>1
<1> QED
  BY <1>9 DEF Form, MovedTo

\* What the four forms of a step say of the request.
LEMMA AsideFields ==
  ASSUME KOTypeOK, NEW r \in Req
  PROVE  /\ \A stage \in Stage : Goto(r, stage) =>
              /\ requests'[r].stage = stage
              /\ requests'[r].answer = requests[r].answer
         /\ \A code \in Nat : AnswerWith(r, code) =>
              requests'[r].stage = "answered" /\ requests'[r].answer = code
<1>1. requests[r] \in RequestRecord
  BY ElementOfSeq, LenProperties DEF KOTypeOK, Req
<1>2. requests \in Seq(RequestRecord) /\ r \in DOMAIN requests
  BY DEF KOTypeOK, Req
<1>3. ASSUME NEW stage \in Stage, Goto(r, stage)
      PROVE  /\ requests'[r].stage = stage
             /\ requests'[r].answer = requests[r].answer
  <2>1. requests'[r] = [requests[r] EXCEPT !.stage = stage]
    BY <1>2, <1>3 DEF Goto
  <2> QED
    BY <1>1, <2>1 DEF RequestRecord
<1>4. ASSUME NEW code \in Nat, AnswerWith(r, code)
      PROVE  requests'[r].stage = "answered" /\ requests'[r].answer = code
  <2>1. requests'[r] = [requests[r] EXCEPT !.stage = "answered", !.answer = code]
    BY <1>2, <1>4 DEF AnswerWith
  <2> QED
    BY <1>1, <2>1 DEF RequestRecord
<1> QED
  BY <1>3, <1>4

\* A request beyond authentication.
Past(stage) == stage \in {"clear", "healthy", "handler", "device", "submit"}

\* A step aside touches no call of Submit, answers no push with 200, and lets
\* nobody past authentication who does not know the key.
LEMMA AsideEffect ==
  ASSUME IInv, KOTypeOK, NEW r \in Req, HandlesAside(r)
  PROVE  /\ requests' \in Seq(RequestRecord) /\ Len(requests') = Len(requests)
         /\ Req' = Req
         /\ \A q \in Req \ {r} : requests'[q] = requests[q]
         /\ requests'[r].op = requests[r].op
         /\ requests'[r].key = requests[r].key
         /\ requests'[r].push = requests[r].push
         /\ requests'[r].floor = requests[r].floor
         /\ requests'[r].call = requests[r].call
         /\ requests'[r].op = "pull" /\ requests'[r].answer = 200 =>
              Pull(r) \/ requests[r].answer = 200
         /\ requests[r].stage \notin {"submit", "waiting", "answered", "lost"}
         /\ \/ /\ requests'[r].stage = "answered"
               /\ requests'[r].answer = 200 =>
                    requests[r].op # "push" /\ Past(requests[r].stage)
            \/ /\ requests'[r].stage = "alarm"
               /\ requests'[r].answer = requests[r].answer
            \/ /\ Past(requests'[r].stage)
               /\ requests'[r].answer = requests[r].answer
               /\ Past(requests[r].stage) \/ requests[r].key = "right"
               /\ requests'[r].stage \in {"device", "submit"} =>
                    requests[r].op = "push" \/ requests[r].stage = "device"
<1>0. requests[r] \in RequestRecord
  BY ElementOfSeq, LenProperties DEF KOTypeOK, Req
<1>1. PICK stage \in Stage, seen \in Nat, answer \in Nat :
        MovedTo(r, stage, seen, requests[r].call, answer)
  BY AsideForm
<1>2. requests[r].call \in Nat
  BY <1>0 DEF RequestRecord
<1>3. /\ requests' \in Seq(RequestRecord) /\ Len(requests') = Len(requests)
      /\ Req' = Req
      /\ \A q \in Req \ {r} : requests'[q] = requests[q]
      /\ requests'[r].op = requests[r].op
      /\ requests'[r].key = requests[r].key
      /\ requests'[r].push = requests[r].push
      /\ requests'[r].floor = requests[r].floor
      /\ requests'[r].call = requests[r].call
  <2> DEFINE call == requests[r].call
  <2>1. call \in Nat /\ MovedTo(r, stage, seen, call, answer)
    BY <1>1, <1>2
  <2> HIDE DEF call
  <2>2. /\ requests' \in Seq(RequestRecord) /\ Len(requests') = Len(requests)
        /\ Req' = Req
        /\ \A q \in Req \ {r} : requests'[q] = requests[q]
        /\ requests'[r].op = requests[r].op
        /\ requests'[r].key = requests[r].key
        /\ requests'[r].push = requests[r].push
        /\ requests'[r].floor = requests[r].floor
        /\ requests'[r].call = call
    BY <2>1, MovedRequest
  <2> QED
    BY <2>2 DEF call
<1> DEFINE Goes(s) == requests'[r].stage = s
                      /\ requests'[r].answer = requests[r].answer
           Ends(code) == requests'[r].stage = "answered"
                         /\ requests'[r].answer = code
<1>4. /\ \A s \in Stage : Goto(r, s) => Goes(s)
      /\ \A code \in Nat : AnswerWith(r, code) => Ends(code)
  BY AsideFields
<1>5. requests \in Seq(RequestRecord) /\ r \in DOMAIN requests
  BY DEF KOTypeOK, Req
<1>6. requests[r].stage \notin {"submit", "waiting", "answered", "lost"}
  BY DEF HandlesAside, Accept, RecordFailure, RaiseAlarm, ClearFailures,
         SetHealthy, CheckPush, UpsertDevice, Pull, Is
<1>7. CheckPush(r) => Ends(400) \/ Ends(412) \/ Goes("device")
  <2>1. requests' = [requests EXCEPT ![r].stage = "device",
                       ![r].seen = CanonicalEvent(requests[r].push)]
          => requests'[r] = [requests[r] EXCEPT !.stage = "device",
                               !.seen = CanonicalEvent(requests[r].push)]
    BY <1>5
  <2>2. requests' = [requests EXCEPT ![r].stage = "device",
                       ![r].seen = CanonicalEvent(requests[r].push)]
          => Goes("device")
    BY <1>0, <2>1 DEF RequestRecord
  <2> HIDE DEF Goes, Ends
  <2> QED
    BY <1>4, <2>2 DEF CheckPush
<1>8. Pull(r) => Ends(200)
  <2>1. Pull(r) =>
          requests'[r] = [requests[r] EXCEPT !.stage = "answered",
                            !.seen = CanonicalEvent(requests[r].push),
                            !.answer = 200]
    BY <1>5 DEF Pull
  <2> QED
    BY <1>0, <2>1 DEF RequestRecord
<1>9. /\ Accept(r) => Goes("clear") /\ requests[r].key = "right"
      /\ RecordFailure(r) => Goes("alarm") \/ Ends(401)
      /\ RaiseAlarm(r) => Ends(401)
      /\ ClearFailures(r) => Goes("healthy") /\ Is(r, "clear")
      /\ SetHealthy(r) => /\ Is(r, "healthy")
                          /\ \/ Goes("handler")
                             \/ Ends(200) /\ requests[r].op = "auth"
      /\ UpsertDevice(r) => Goes("submit") /\ Is(r, "device")
  <2> HIDE DEF Goes, Ends
  <2> QED
    BY <1>4 DEF Accept, Verified, RecordFailure, RaiseAlarm, ClearFailures,
                SetHealthy, UpsertDevice, Stage
<1>10. /\ CheckPush(r) => Is(r, "handler") /\ requests[r].op = "push"
       /\ Pull(r) => Is(r, "handler") /\ requests[r].op = "pull"
  BY DEF CheckPush, Pull
<1>11. \/ /\ requests'[r].stage = "answered"
          /\ requests'[r].answer = 200 =>
               requests[r].op # "push" /\ Past(requests[r].stage)
       \/ /\ requests'[r].stage = "alarm"
          /\ requests'[r].answer = requests[r].answer
       \/ /\ Past(requests'[r].stage)
          /\ requests'[r].answer = requests[r].answer
          /\ Past(requests[r].stage) \/ requests[r].key = "right"
          /\ requests'[r].stage \in {"device", "submit"} =>
               requests[r].op = "push" \/ requests[r].stage = "device"
  BY <1>7, <1>8, <1>9, <1>10 DEF HandlesAside, Is, Past
<1>12. requests'[r].op = "pull" /\ requests'[r].answer = 200 =>
         Pull(r) \/ requests[r].answer = 200
  BY <1>3, <1>7, <1>9, <1>10 DEF HandlesAside
<1> QED
  BY <1>3, <1>6, <1>11, <1>12

\* The call of Submit that a push waits for is a new one.
LEMMA SubmitEffect ==
  ASSUME IInv, KOTypeOK, NEW r \in Req, SubmitPush(r)
  PROVE  /\ requests' \in Seq(RequestRecord) /\ Len(requests') = Len(requests)
         /\ Req' = Req
         /\ \A q \in Req \ {r} : requests'[q] = requests[q]
         /\ requests'[r].op = requests[r].op
         /\ requests'[r].key = requests[r].key
         /\ requests'[r].push = requests[r].push
         /\ requests'[r].floor = requests[r].floor
         /\ requests'[r].answer = requests[r].answer
         /\ requests'[r].seen = requests[r].seen
         /\ Is(r, "submit") /\ requests'[r].stage = "waiting"
         /\ requests'[r].call = Len(calls) + 1
         /\ Len(calls) + 1 \notin Call /\ Len(calls) + 1 \in Call'
         /\ Len(calls) \in Nat
         /\ calls'[Len(calls) + 1].event = ToAdapterEvent(requests[r].push)
         /\ ToAdapterEvent(requests[r].push) \in Input
<1>0. requests[r] \in RequestRecord
  BY ElementOfSeq, LenProperties DEF KOTypeOK, Req
<1>1. calls \in Seq(CallRecord) /\ Len(calls) \in Nat /\ Call = 1..Len(calls)
  BY LenProperties DEF IInv, TypeOK, Call
<1>2. requests[r].push \in Push /\ requests[r].seen \in Nat
      /\ requests[r].answer \in Nat /\ "waiting" \in Stage
  BY <1>0 DEF RequestRecord, Stage
<1>3. ToAdapterEvent(requests[r].push) \in Input
  BY <1>2, KOReaderAssumption
<1> DEFINE d == [requests[r] EXCEPT !.stage = "waiting", !.call = Len(calls) + 1]
           c == [requests[r] EXCEPT !.stage = "waiting",
                   !.seen = requests[r].seen, !.call = Len(calls) + 1,
                   !.answer = requests[r].answer]
<1>4. d = c
  BY <1>0 DEF RequestRecord
<1>5. requests' = [requests EXCEPT ![r] = d]
  BY Zenon DEF SubmitPush
<1>6. requests' = [requests EXCEPT ![r] = c]
  BY <1>4, <1>5, Zenon
<1>7. MovedTo(r, "waiting", requests[r].seen, Len(calls) + 1, requests[r].answer)
  BY <1>6, Zenon DEF MovedTo
<1> HIDE DEF d, c
<1>8. /\ requests' \in Seq(RequestRecord) /\ Len(requests') = Len(requests)
      /\ Req' = Req
      /\ \A q \in Req \ {r} : requests'[q] = requests[q]
      /\ requests'[r].op = requests[r].op
      /\ requests'[r].key = requests[r].key
      /\ requests'[r].push = requests[r].push
      /\ requests'[r].floor = requests[r].floor
      /\ requests'[r].answer = requests[r].answer
      /\ requests'[r].seen = requests[r].seen
      /\ requests'[r].stage = "waiting"
      /\ requests'[r].call = Len(calls) + 1
  BY <1>1, <1>2, <1>7, MovedRequest
<1> DEFINE call == [event |-> ToAdapterEvent(requests[r].push),
                    phase |-> "sending", result |-> "none"]
<1>9. call \in CallRecord /\ calls' = Append(calls, call)
      /\ call.event = ToAdapterEvent(requests[r].push)
  BY <1>3 DEF SubmitPush, Submit, CallRecord, Phase
<1> HIDE DEF call
<1>10. /\ calls' \in Seq(CallRecord) /\ Len(calls') = Len(calls) + 1
       /\ calls'[Len(calls) + 1] = call
  BY <1>1, <1>9, AppendProperties
<1>11. Call' = 1..Len(calls')
  BY <1>10, LenProperties DEF Call
<1>12. Is(r, "submit")
  BY DEF SubmitPush
<1> QED
  BY <1>1, <1>3, <1>8, <1>9, <1>10, <1>11, <1>12

\* An answer to a push is 200 only if its call returned nil.
LEMMA AnswerEffect ==
  ASSUME IInv, KOTypeOK, NEW r \in Req, AnswerPush(r)
  PROVE  /\ requests' \in Seq(RequestRecord) /\ Len(requests') = Len(requests)
         /\ Req' = Req
         /\ \A q \in Req \ {r} : requests'[q] = requests[q]
         /\ requests'[r].op = requests[r].op
         /\ requests'[r].key = requests[r].key
         /\ requests'[r].push = requests[r].push
         /\ requests'[r].floor = requests[r].floor
         /\ requests'[r].call = requests[r].call
         /\ requests'[r].seen = requests[r].seen
         /\ Is(r, "waiting") /\ requests'[r].stage = "answered"
         /\ requests'[r].answer \in {200, 500}
         /\ requests'[r].answer = 200 => calls[requests[r].call].phase = "ok"
<1>0. requests[r] \in RequestRecord
  BY ElementOfSeq, LenProperties DEF KOTypeOK, Req
<1>1. \/ AnswerWith(r, 200) /\ calls[requests[r].call].phase = "ok"
      \/ AnswerWith(r, 500)
  <2>1. CASE calls[requests[r].call].phase = "ok"
    <3>1. StatusOf(calls[requests[r].call].phase) = 200
      BY <2>1 DEF StatusOf
    <3> QED
      BY <2>1, <3>1 DEF AnswerPush
  <2>2. CASE calls[requests[r].call].phase # "ok"
    <3>1. StatusOf(calls[requests[r].call].phase) = 500
      BY <2>2 DEF StatusOf
    <3> QED
      BY <3>1 DEF AnswerPush
  <2> QED
    BY <2>1, <2>2
<1>2. PICK code \in {200, 500} :
        /\ AnswerWith(r, code)
        /\ code = 200 => calls[requests[r].call].phase = "ok"
  BY <1>1
<1>3. requests[r].seen \in Nat /\ requests[r].call \in Nat
      /\ "answered" \in Stage /\ code \in Nat
  BY <1>0 DEF RequestRecord, Stage
<1>4. MovedTo(r, "answered", requests[r].seen, requests[r].call, code)
  BY <1>2, <1>3, AnswerForm
<1>5. /\ requests' \in Seq(RequestRecord) /\ Len(requests') = Len(requests)
      /\ Req' = Req
      /\ \A q \in Req \ {r} : requests'[q] = requests[q]
      /\ requests'[r].op = requests[r].op
      /\ requests'[r].key = requests[r].key
      /\ requests'[r].push = requests[r].push
      /\ requests'[r].floor = requests[r].floor
      /\ requests'[r].call = requests[r].call
      /\ requests'[r].seen = requests[r].seen
      /\ requests'[r].stage = "answered"
      /\ requests'[r].answer = code
  BY <1>3, <1>4, MovedRequest
<1>6. Is(r, "waiting")
  BY DEF AnswerPush
<1> QED
  BY <1>2, <1>5, <1>6

\* A request that arrives is neither past authentication nor answered 200.
LEMMA ArriveEffect ==
  ASSUME KOTypeOK, NEW h \in Traffic, Arrive(h)
  PROVE  /\ requests' \in Seq(RequestRecord) /\ Len(requests') <= MaxRequests
         /\ Req = 1..Len(requests) /\ Len(requests) \in Nat
         /\ Req' = Req \cup {Len(requests) + 1}
         /\ \A q \in Req : requests'[q] = requests[q]
         /\ requests'[Len(requests) + 1].call = 0
         /\ \A q \in requests'[Len(requests) + 1].floor :
              q \in Req /\ requests[q].op = "push" /\ requests[q].answer = 200
         /\ requests'[Len(requests) + 1].stage \in {"auth", "answered"}
         /\ requests'[Len(requests) + 1].answer \in {0, 401, 429}
         /\ requests'[Len(requests) + 1].stage = "auth" =>
              requests'[Len(requests) + 1].answer = 0
<1>0. /\ requests \in Seq(RequestRecord) /\ Len(requests) \in Nat
      /\ Req = 1..Len(requests) /\ Len(requests) < MaxRequests
      /\ MaxRequests \in Nat
  BY LenProperties, KOReaderAssumption DEF KOTypeOK, Req, Arrive
<1>1. h \in HTTPRequest
  BY KOReaderAssumption
<1> DEFINE floor == {q \in Pushes : requests[q].answer = 200}
           c == [op |-> h.op, user |-> h.user, key |-> h.key, push |-> h.push,
                 seen |-> 0, call |-> 0,
                 stage |-> IF Limited(h) \/ h.key = "missing" THEN "answered"
                           ELSE "auth",
                 answer |-> IF Limited(h) THEN 429
                            ELSE IF h.key = "missing" THEN 401 ELSE 0,
                 floor |-> floor]
<1>2. /\ floor \in SUBSET (1..MaxRequests)
      /\ \A q \in floor :
           q \in Req /\ requests[q].op = "push" /\ requests[q].answer = 200
  BY <1>0 DEF Pushes
<1>3. requests' = Append(requests, c)
  BY DEF Arrive
<1> HIDE DEF floor
<1>4. /\ c \in RequestRecord
      /\ c.floor = floor /\ c.call = 0 /\ c.stage \in {"auth", "answered"}
      /\ c.answer \in {0, 401, 429} /\ (c.stage = "auth" => c.answer = 0)
  BY <1>1, <1>2 DEF HTTPRequest, RequestRecord, Stage
<1> HIDE DEF c
<1>5. /\ requests' \in Seq(RequestRecord) /\ Len(requests') = Len(requests) + 1
      /\ \A q \in 1..Len(requests) : requests'[q] = requests[q]
      /\ requests'[Len(requests) + 1] = c
  BY <1>0, <1>3, <1>4, AppendProperties
<1>6. Req' = 1..Len(requests')
  BY <1>5, LenProperties DEF Req
<1>7. \A q \in requests'[Len(requests) + 1].floor :
        q \in Req /\ requests[q].op = "push" /\ requests[q].answer = 200
  <2>1. requests'[Len(requests) + 1].floor = floor
    BY <1>4, <1>5
  <2> QED
    BY <1>2, <2>1
<1> QED
  BY <1>0, <1>4, <1>5, <1>6, <1>7

-----------------------------------------------------------------------------
(* The invariant.                                                          *)

\* Steps that change no request.
Elsewhere ==
  \/ \E u \in User : Register(u)
  \/ PipelineStep
  \/ \E b \in recent : SecondPasses(b)
  \/ UNCHANGED allVars

LEMMA KONextGroups ==
  ASSUME [KONext]_allVars
  PROVE  \/ \E h \in Traffic : Arrive(h)
         \/ \E r \in Req : HandlesAside(r)
         \/ \E r \in Req : SubmitPush(r)
         \/ \E r \in Req : AnswerPush(r)
         \/ RestartService
         \/ Elsewhere
BY DEF KONext, Handle, HandlesAside, Elsewhere

LEMMA ElsewhereFrame ==
  ASSUME Elsewhere PROVE requests' = requests
BY DEF Elsewhere, Register, PipelineStep, SecondPasses, allVars, koVars

\* Every step of the server is one of the pipeline, or leaves it alone.
LEMMA StepIsPipelines ==
  ASSUME IInv, KOTypeOK, [KONext]_allVars PROVE [Next]_vars
<1>1. ASSUME NEW r \in Req, SubmitPush(r) PROVE Next
  <2>1. ToAdapterEvent(requests[r].push) \in Input
    BY <1>1, SubmitEffect
  <2>2. Submit(ToAdapterEvent(requests[r].push))
    BY <1>1 DEF SubmitPush
  <2> QED
    BY <2>1, <2>2 DEF Next
<1>2. RestartService => Next
  BY DEF RestartService, Next
<1>3. Elsewhere => [Next]_vars
  BY DEF Elsewhere, Register, PipelineStep, SecondPasses, allVars, Next
<1>4. ASSUME NEW h \in Traffic, Arrive(h) PROVE UNCHANGED vars
  BY <1>4 DEF Arrive
<1>5. ASSUME NEW r \in Req, HandlesAside(r) \/ AnswerPush(r)
      PROVE  UNCHANGED vars
  BY <1>5 DEF HandlesAside, Accept, RecordFailure, RaiseAlarm, ClearFailures,
              SetHealthy, CheckPush, UpsertDevice, Pull, AnswerPush
<1> QED
  BY <1>1, <1>2, <1>3, <1>4, <1>5, KONextGroups

\* Requests in flight die with the process.
LEMMA RestartEffect ==
  ASSUME KOTypeOK, RestartService
  PROVE  /\ requests' \in Seq(RequestRecord) /\ Len(requests') = Len(requests)
         /\ Req' = Req
         /\ \A r \in Req :
              /\ requests'[r].op = requests[r].op
              /\ requests'[r].key = requests[r].key
              /\ requests'[r].push = requests[r].push
              /\ requests'[r].call = requests[r].call
              /\ requests'[r].seen = requests[r].seen
              /\ requests'[r].answer = requests[r].answer
              /\ requests'[r].floor = requests[r].floor
              /\ Is(r, "answered") => requests'[r] = requests[r]
              /\ \/ Is(r, "answered") /\ requests'[r].stage = "answered"
                 \/ ~Is(r, "answered") /\ requests'[r].stage = "lost"
<1>0. /\ requests \in Seq(RequestRecord) /\ Len(requests) \in Nat
      /\ Req = 1..Len(requests)
  BY LenProperties DEF KOTypeOK, Req
<1>1. requests' = [r \in Req |->
        IF Is(r, "answered") THEN requests[r]
        ELSE [requests[r] EXCEPT !.stage = "lost"]]
  BY DEF RestartService
<1>2. ASSUME NEW r \in Req
      PROVE  /\ requests'[r] \in RequestRecord
             /\ requests'[r].op = requests[r].op
             /\ requests'[r].key = requests[r].key
             /\ requests'[r].push = requests[r].push
             /\ requests'[r].call = requests[r].call
             /\ requests'[r].seen = requests[r].seen
             /\ requests'[r].answer = requests[r].answer
             /\ requests'[r].floor = requests[r].floor
             /\ Is(r, "answered") => requests'[r] = requests[r]
             /\ \/ Is(r, "answered") /\ requests'[r].stage = "answered"
                \/ ~Is(r, "answered") /\ requests'[r].stage = "lost"
  <2> DEFINE c == [requests[r] EXCEPT !.stage = "lost"]
  <2>1. requests[r] \in RequestRecord
    BY <1>0, ElementOfSeq
  <2>2. "lost" \in Stage
    BY DEF Stage
  <2>3. /\ c \in RequestRecord /\ c.op = requests[r].op /\ c.key = requests[r].key
        /\ c.push = requests[r].push /\ c.call = requests[r].call
        /\ c.seen = requests[r].seen
        /\ c.answer = requests[r].answer /\ c.stage = "lost"
        /\ c.floor = requests[r].floor
    BY <2>1, <2>2 DEF RequestRecord
  <2>4. requests'[r] = IF Is(r, "answered") THEN requests[r] ELSE c
    BY <1>1, Zenon
  <2> HIDE DEF c
  <2>5. CASE Is(r, "answered")
    <3>1. requests'[r] = requests[r]
      BY <2>4, <2>5
    <3> QED
      BY <2>1, <2>5, <3>1 DEF Is
  <2>6. CASE ~Is(r, "answered")
    <3>1. requests'[r] = c
      BY <2>4, <2>6
    <3> QED
      BY <2>3, <2>6, <3>1
  <2> QED
    BY <2>5, <2>6
<1>3. DOMAIN requests' = 1..Len(requests)
      /\ requests' = [r \in 1..Len(requests) |-> requests'[r]]
  BY <1>0, <1>1
<1>4. requests' \in [1..Len(requests) -> RequestRecord]
  BY <1>0, <1>2, <1>3
<1>5. requests' \in Seq(RequestRecord)
  BY <1>0, <1>4, SeqDef
<1>6. Len(requests') = Len(requests)
  BY <1>0, <1>3, <1>5, LenProperties
<1> QED
  BY <1>0, <1>2, <1>3, <1>5, <1>6 DEF Req

LEMMA KOTypeNext ==
  ASSUME IInv, KOTypeOK, [KONext]_allVars PROVE KOTypeOK'
<1>0. /\ registered \in SUBSET User /\ DOMAIN lastDevice = User
      /\ authFails \in Nat /\ health \in {"ok", "needs_user_action"}
  BY DEF KOTypeOK
<1>1. registered' \in SUBSET User
  BY <1>0 DEF KONext, Register, CreateUser, Arrive, Handle, Accept,
       RecordFailure, RaiseAlarm, ClearFailures, SetHealthy, CheckPush,
       UpsertDevice, SubmitPush, AnswerPush, Pull, PipelineStep, SecondPasses,
       RestartService, allVars, koVars
<1>2. DOMAIN lastDevice' = User
  BY <1>0 DEF KONext, Register, Arrive, Handle, Accept,
       RecordFailure, RaiseAlarm, ClearFailures, SetHealthy, CheckPush,
       UpsertDevice, SubmitPush, AnswerPush, Pull, PipelineStep, SecondPasses,
       RestartService, allVars, koVars
<1>3. authFails' \in Nat
  <2>1. \A r \in Req : Handle(r) =>
          authFails' = authFails \/ authFails' = authFails + 1 \/ authFails' = 0
    BY DEF Handle, Accept, RecordFailure, RaiseAlarm, ClearFailures,
           SetHealthy, CheckPush, UpsertDevice, SubmitPush, AnswerPush, Pull
  <2>2. ASSUME ~ \E r \in Req : Handle(r)
        PROVE  authFails' = authFails \/ authFails' = 0
    BY <2>2 DEF KONext, Register, Arrive, PipelineStep, SecondPasses,
                RestartService, allVars, koVars
  <2> QED
    BY <1>0, <2>1, <2>2
<1>4. health' \in {"ok", "needs_user_action"}
  BY <1>0 DEF KONext, Register, Arrive, Handle, Accept,
       RecordFailure, RaiseAlarm, ClearFailures, SetHealthy, CheckPush,
       UpsertDevice, SubmitPush, AnswerPush, Pull, PipelineStep, SecondPasses,
       RestartService, allVars, koVars
<1>5. requests' \in Seq(RequestRecord) /\ Len(requests') <= MaxRequests
  <2>0. requests \in Seq(RequestRecord) /\ Len(requests) <= MaxRequests
    BY DEF KOTypeOK
  <2>1. ASSUME NEW h \in Traffic, Arrive(h)
        PROVE  requests' \in Seq(RequestRecord) /\ Len(requests') <= MaxRequests
    BY <2>1, ArriveEffect
  <2>2. ASSUME NEW r \in Req, HandlesAside(r)
        PROVE  requests' \in Seq(RequestRecord) /\ Len(requests') = Len(requests)
    BY <2>2, AsideEffect
  <2>3. ASSUME NEW r \in Req, SubmitPush(r)
        PROVE  requests' \in Seq(RequestRecord) /\ Len(requests') = Len(requests)
    BY <2>3, SubmitEffect
  <2>4. ASSUME NEW r \in Req, AnswerPush(r)
        PROVE  requests' \in Seq(RequestRecord) /\ Len(requests') = Len(requests)
    BY <2>4, AnswerEffect
  <2> QED
    BY <2>0, <2>1, <2>2, <2>3, <2>4, RestartEffect, ElsewhereFrame, KONextGroups
<1> QED
  BY <1>1, <1>2, <1>3, <1>4, <1>5 DEF KOTypeOK

LEMMA AuthenticatedNext ==
  ASSUME IInv, KOTypeOK, Authenticated, [KONext]_allVars PROVE Authenticated'
<1> DEFINE Good(r) ==
      /\ requests[r].stage # "answered" => requests[r].answer = 0
      /\ \/ Past(requests[r].stage) \/ requests[r].stage = "waiting"
         \/ requests[r].answer = 200
         => requests[r].key = "right"
<1>0. \A r \in Req : Good(r)
  BY DEF Authenticated, Past, Is
<1>1. ASSUME NEW h \in Traffic, Arrive(h), NEW r \in Req' PROVE Good(r)'
  <2>1. CASE r = Len(requests) + 1
    BY <1>1, <2>1, ArriveEffect DEF Past
  <2>2. CASE r \in Req
    BY <1>0, <1>1, <2>2, ArriveEffect
  <2> QED
    BY <1>1, <2>1, <2>2, ArriveEffect
<1>2. ASSUME NEW r \in Req, HandlesAside(r), NEW q \in Req' PROVE Good(q)'
  <2>1. CASE q = r
    <3>1. /\ requests[r].answer = 0
          /\ Past(requests[r].stage) => requests[r].key = "right"
      BY <1>0, <1>2, AsideEffect
    <3>2. /\ requests'[r].stage # "answered" => requests'[r].answer = 0
          /\ Past(requests'[r].stage) \/ requests'[r].answer = 200 =>
               Past(requests[r].stage) \/ requests[r].key = "right"
          /\ requests'[r].key = requests[r].key
          /\ requests'[r].stage # "waiting"
      BY <1>2, <3>1, AsideEffect DEF Past
    <3> QED
      BY <2>1, <3>1, <3>2
  <2>2. CASE q # r
    <3>1. q \in Req /\ requests'[q] = requests[q]
      BY <1>2, <2>2, AsideEffect
    <3> QED
      BY <1>0, <3>1
  <2> QED
    BY <2>1, <2>2
<1>3. ASSUME NEW r \in Req, SubmitPush(r), NEW q \in Req' PROVE Good(q)'
  <2>1. CASE q = r
    <3>1. requests[r].stage = "submit"
      BY <1>3, SubmitEffect DEF Is
    <3>2. requests[r].answer = 0 /\ requests[r].key = "right"
      BY <1>0, <3>1 DEF Past
    <3> QED
      BY <1>3, <2>1, <3>2, SubmitEffect
  <2>2. CASE q # r
    <3>1. q \in Req /\ requests'[q] = requests[q]
      BY <1>3, <2>2, SubmitEffect
    <3> QED
      BY <1>0, <3>1
  <2> QED
    BY <2>1, <2>2
<1>4. ASSUME NEW r \in Req, AnswerPush(r), NEW q \in Req' PROVE Good(q)'
  <2>1. CASE q = r
    <3>1. requests[r].stage = "waiting"
      BY <1>4, AnswerEffect DEF Is
    <3>2. requests[r].key = "right"
      BY <1>0, <3>1
    <3> QED
      BY <1>4, <2>1, <3>2, AnswerEffect
  <2>2. CASE q # r
    <3>1. q \in Req /\ requests'[q] = requests[q]
      BY <1>4, <2>2, AnswerEffect
    <3> QED
      BY <1>0, <3>1
  <2> QED
    BY <2>1, <2>2
<1>5. ASSUME RestartService, NEW q \in Req' PROVE Good(q)'
  <2>1. q \in Req
    BY <1>5, RestartEffect
  <2>2. CASE Is(q, "answered")
    BY <1>0, <1>5, <2>1, <2>2, RestartEffect DEF Is, Past
  <2>3. CASE ~Is(q, "answered")
    BY <1>0, <1>5, <2>1, <2>3, RestartEffect DEF Is, Past
  <2> QED
    BY <2>2, <2>3
<1>6. ASSUME Elsewhere, NEW q \in Req' PROVE Good(q)'
  <2>1. requests' = requests
    BY <1>6, ElsewhereFrame
  <2> QED
    BY <1>0, <1>6, <2>1 DEF Req
<1>7. \A q \in Req' : Good(q)'
  <2> HIDE DEF Good
  <2> QED
    BY <1>1, <1>2, <1>3, <1>4, <1>5, <1>6, KONextGroups
<1> QED
  BY <1>7 DEF Authenticated, Past, Is

\* Who has a call has it from submitting on; its call keeps the push, and the
\* answer nil that a 200 was given for.
LEMMA OwnCallsNext ==
  ASSUME IInv, KOTypeOK, Authenticated, OwnCalls, [KONext]_allVars
  PROVE  OwnCalls'
<1> DEFINE
      Placed(r) == requests[r].stage \in {"device", "submit", "waiting"} =>
                     requests[r].op = "push"
      Waits(r) == requests[r].stage = "waiting" => requests[r].call # 0
      Called(r) == requests[r].call # 0 =>
         /\ requests[r].op = "push"
         /\ requests[r].stage \in {"waiting", "answered", "lost"}
         /\ requests[r].answer \in {0, 200, 500}
      Asks(r) == requests[r].call # 0 =>
         /\ requests[r].call \in Call
         /\ calls[requests[r].call].event = ToAdapterEvent(requests[r].push)
         /\ requests[r].answer = 200 => calls[requests[r].call].phase = "ok"
      Told(r) == requests[r].op = "push" /\ requests[r].answer = 200
                   => requests[r].call # 0
      Good(r) == Placed(r) /\ Waits(r) /\ Called(r) /\ Asks(r) /\ Told(r)
<1>0. \A r \in Req : Good(r)
  BY DEF OwnCalls, Is
<1>a. \A r \in Req : requests[r].stage # "answered" => requests[r].answer = 0
  BY DEF Authenticated, Is
<1>c. /\ Call \subseteq Call'
      /\ \A n \in Call : /\ calls'[n].event = calls[n].event
                         /\ calls[n].phase = "ok" => calls'[n].phase = "ok"
  BY StepIsPipelines, CallsKept
\* A request that is left as it was.
<1>s. ASSUME NEW q \in Req, requests'[q] = requests[q]
      PROVE  Good(q)'
  <2>1. Good(q)
    BY <1>0
  <2> QED
    BY <1>c, <1>s, <2>1
<1>1. ASSUME NEW h \in Traffic, Arrive(h), NEW q \in Req'
      PROVE  Good(q)'
  <2>1. CASE q = Len(requests) + 1
    BY <1>1, <2>1, ArriveEffect
  <2>2. CASE q \in Req
    <3>1. requests'[q] = requests[q]
      BY <1>1, <2>2, ArriveEffect
    <3> QED
      BY <1>s, <2>2, <3>1
  <2> QED
    BY <1>1, <2>1, <2>2, ArriveEffect
<1>2. ASSUME NEW r \in Req, HandlesAside(r)
      PROVE  Good(r)'
  <2>1. /\ requests[r].call = 0 /\ requests'[r].call = 0
        /\ requests'[r].op = requests[r].op
    BY <1>0, <1>2, AsideEffect
  <2>2. /\ requests'[r].stage # "waiting"
        /\ requests'[r].stage \in {"device", "submit"} =>
             requests[r].op = "push" \/ requests[r].stage = "device"
        /\ requests'[r].answer = 200 => requests[r].op # "push"
    BY <1>2, <1>a, AsideEffect DEF Past
  <2> QED
    BY <1>0, <2>1, <2>2
<1>3. ASSUME NEW r \in Req, SubmitPush(r)
      PROVE  Good(r)'
  <2>1. requests[r].stage = "submit" /\ requests[r].answer = 0
    BY <1>a, <1>3, SubmitEffect DEF Is
  <2>2. requests[r].op = "push"
    BY <1>0, <2>1
  <2>3. /\ requests'[r].op = "push" /\ requests'[r].stage = "waiting"
        /\ requests'[r].answer = 0 /\ requests'[r].call = Len(calls) + 1
        /\ requests'[r].push = requests[r].push
        /\ Len(calls) + 1 \in Call' /\ Len(calls) + 1 # 0
        /\ calls'[Len(calls) + 1].event = ToAdapterEvent(requests[r].push)
    BY <1>3, <2>1, <2>2, SubmitEffect
  <2> QED
    BY <2>3
<1>4. ASSUME NEW r \in Req, AnswerPush(r)
      PROVE  Good(r)'
  <2>1. requests[r].stage = "waiting"
    BY <1>4, AnswerEffect DEF Is
  <2>2. requests[r].op = "push" /\ requests[r].call # 0 /\ Asks(r)
    BY <1>0, <2>1
  <2>3. /\ requests'[r].op = requests[r].op
        /\ requests'[r].push = requests[r].push
        /\ requests'[r].call = requests[r].call
        /\ requests'[r].stage = "answered" /\ requests'[r].answer \in {200, 500}
        /\ requests'[r].answer = 200 => calls[requests[r].call].phase = "ok"
    BY <1>4, AnswerEffect
  <2> QED
    BY <1>c, <2>2, <2>3
<1>5. ASSUME RestartService, NEW q \in Req
      PROVE  Good(q)'
  <2>1. /\ requests'[q].op = requests[q].op
        /\ requests'[q].push = requests[q].push
        /\ requests'[q].call = requests[q].call
        /\ requests'[q].answer = requests[q].answer
        /\ requests'[q].stage \in {"answered", "lost"}
    BY <1>5, RestartEffect
  <2>2. Called(q) /\ Asks(q) /\ Told(q)
    BY <1>0
  <2> QED
    BY <1>c, <2>1, <2>2
<1> HIDE DEF Good
<1>6. ASSUME NEW r \in Req, HandlesAside(r), NEW q \in Req' PROVE Good(q)'
  <2>1. CASE q = r
    BY <1>2, <1>6, <2>1
  <2>2. CASE q # r
    <3>1. q \in Req /\ requests'[q] = requests[q]
      BY <1>6, <2>2, AsideEffect
    <3> QED
      BY <1>s, <3>1
  <2> QED
    BY <2>1, <2>2
<1>7. ASSUME NEW r \in Req, SubmitPush(r), NEW q \in Req' PROVE Good(q)'
  <2>1. CASE q = r
    BY <1>3, <1>7, <2>1
  <2>2. CASE q # r
    <3>1. q \in Req /\ requests'[q] = requests[q]
      BY <1>7, <2>2, SubmitEffect
    <3> QED
      BY <1>s, <3>1
  <2> QED
    BY <2>1, <2>2
<1>8. ASSUME NEW r \in Req, AnswerPush(r), NEW q \in Req' PROVE Good(q)'
  <2>1. CASE q = r
    BY <1>4, <1>8, <2>1
  <2>2. CASE q # r
    <3>1. q \in Req /\ requests'[q] = requests[q]
      BY <1>8, <2>2, AnswerEffect
    <3> QED
      BY <1>s, <3>1
  <2> QED
    BY <2>1, <2>2
<1>9. ASSUME Elsewhere, NEW q \in Req' PROVE Good(q)'
  <2>1. q \in Req /\ requests'[q] = requests[q]
    BY <1>9, ElsewhereFrame DEF Req
  <2> QED
    BY <1>s, <2>1
<1>10. ASSUME RestartService, NEW q \in Req' PROVE Good(q)'
  BY <1>5, <1>10, RestartEffect
<1>11. \A q \in Req' : Good(q)'
  BY <1>1, <1>6, <1>7, <1>8, <1>9, <1>10, KONextGroups
<1> USE DEF Good
<1> QED
  BY <1>11 DEF OwnCalls, Is

\* The call a push submits is nobody's yet.
LEMMA CallsApartNext ==
  ASSUME IInv, KOTypeOK, OwnCalls, CallsApart, [KONext]_allVars
  PROVE  CallsApart'
<1>0. \A q, r \in Req : requests[q].call = requests[r].call
                        /\ requests[r].call # 0 => q = r
  BY DEF CallsApart
<1>1. \A r \in Req : requests[r].call # 0 => requests[r].call \in Call
  BY DEF OwnCalls
<1>2. CASE \E h \in Traffic : Arrive(h)
  <2>1. PICK h \in Traffic : Arrive(h)
    BY <1>2
  <2>2. /\ Req' = Req \cup {Len(requests) + 1}
        /\ \A q \in Req : requests'[q] = requests[q]
        /\ requests'[Len(requests) + 1].call = 0
    BY <2>1, ArriveEffect
  <2> QED
    BY <1>0, <2>2 DEF CallsApart
<1>3. CASE \E r \in Req : SubmitPush(r)
  <2>1. PICK r \in Req : SubmitPush(r)
    BY <1>3
  <2>2. /\ Req' = Req /\ \A q \in Req \ {r} : requests'[q] = requests[q]
        /\ requests'[r].call = Len(calls) + 1 /\ Len(calls) + 1 \notin Call
    BY <2>1, SubmitEffect
  <2>3. \A q \in Req \ {r} : requests'[q].call # 0 =>
          requests'[q].call = requests[q].call /\ requests'[q].call \in Call
    BY <1>1, <2>2
  <2> QED
    BY <1>0, <2>2, <2>3 DEF CallsApart
<1>4. ASSUME Req' = Req, \A q \in Req : requests'[q].call = requests[q].call
      PROVE  CallsApart'
  BY <1>0, <1>4 DEF CallsApart
<1>5. ASSUME NEW r \in Req, HandlesAside(r) PROVE CallsApart'
  <2>1. /\ Req' = Req /\ \A q \in Req \ {r} : requests'[q] = requests[q]
        /\ requests'[r].call = requests[r].call
    BY <1>5, AsideEffect
  <2> QED
    BY <1>4, <2>1
<1>6. ASSUME NEW r \in Req, AnswerPush(r) PROVE CallsApart'
  <2>1. /\ Req' = Req /\ \A q \in Req \ {r} : requests'[q] = requests[q]
        /\ requests'[r].call = requests[r].call
    BY <1>6, AnswerEffect
  <2> QED
    BY <1>4, <2>1
<1>7. CASE RestartService
  BY <1>4, <1>7, RestartEffect
<1>8. CASE Elsewhere
  BY <1>4, <1>8, ElsewhereFrame DEF Req
<1> QED
  BY <1>2, <1>3, <1>5, <1>6, <1>7, <1>8, KONextGroups

\* An answer is for ever, and so is what a request has to see.
LEMMA AnsweredKept ==
  ASSUME IInv, KOTypeOK, [KONext]_allVars
  PROVE  /\ Req \subseteq Req'
         /\ \A q \in Req : Is(q, "answered") => requests'[q] = requests[q]
         /\ \A q \in Req : requests'[q].floor = requests[q].floor
<1> DEFINE Kept == /\ Req \subseteq Req'
                   /\ \A q \in Req :
                        Is(q, "answered") => requests'[q] = requests[q]
                   /\ \A q \in Req : requests'[q].floor = requests[q].floor
<1>1. ASSUME NEW h \in Traffic, Arrive(h) PROVE Kept
  BY <1>1, ArriveEffect
<1>2. ASSUME NEW r \in Req, HandlesAside(r) PROVE Kept
  <2>1. /\ Req' = Req /\ \A q \in Req \ {r} : requests'[q] = requests[q]
        /\ ~Is(r, "answered") /\ requests'[r].floor = requests[r].floor
    BY <1>2, AsideEffect DEF Is
  <2> QED
    BY <2>1
<1>3. ASSUME NEW r \in Req, SubmitPush(r) PROVE Kept
  <2>1. /\ Req' = Req /\ \A q \in Req \ {r} : requests'[q] = requests[q]
        /\ ~Is(r, "answered") /\ requests'[r].floor = requests[r].floor
    BY <1>3, SubmitEffect DEF Is
  <2> QED
    BY <2>1
<1>4. ASSUME NEW r \in Req, AnswerPush(r) PROVE Kept
  <2>1. /\ Req' = Req /\ \A q \in Req \ {r} : requests'[q] = requests[q]
        /\ ~Is(r, "answered") /\ requests'[r].floor = requests[r].floor
    BY <1>4, AnswerEffect DEF Is
  <2> QED
    BY <2>1
<1>5. RestartService => Kept
  BY RestartEffect
<1>6. Elsewhere => Kept
  BY ElsewhereFrame DEF Req
<1> QED
  BY <1>1, <1>2, <1>3, <1>4, <1>5, <1>6, KONextGroups

LEMMA FloorsNext ==
  ASSUME IInv, KOTypeOK, Authenticated, FloorsAnswered, [KONext]_allVars
  PROVE  FloorsAnswered'
<1>1. \A q \in Req : requests[q].answer = 200 => Is(q, "answered")
  BY DEF Authenticated
<1>2. ASSUME NEW q \in Req, requests[q].op = "push", requests[q].answer = 200
      PROVE  q \in Req' /\ requests'[q].op = "push" /\ requests'[q].answer = 200
  BY <1>1, <1>2, AnsweredKept
<1>3. ASSUME NEW r \in Req, NEW q \in requests'[r].floor
      PROVE  q \in Req' /\ requests'[q].op = "push" /\ requests'[q].answer = 200
  <2>1. q \in requests[r].floor
    BY <1>3, AnsweredKept
  <2> QED
    BY <1>2, <2>1 DEF FloorsAnswered
<1>4. ASSUME NEW h \in Traffic, Arrive(h) PROVE FloorsAnswered'
  BY <1>2, <1>3, <1>4, ArriveEffect DEF FloorsAnswered
<1>5. ASSUME Req' = Req PROVE FloorsAnswered'
  BY <1>3, <1>5 DEF FloorsAnswered
<1>6. \/ \E h \in Traffic : Arrive(h)
      \/ Req' = Req
  BY AsideEffect, SubmitEffect, AnswerEffect, RestartEffect, ElsewhereFrame,
     KONextGroups DEF Req
<1> QED
  BY <1>4, <1>5, <1>6

-----------------------------------------------------------------------------
(* The theorems.                                                           *)

LEMMA InitKOInv == KOInit => IInv /\ KOInv
<1> SUFFICES ASSUME KOInit PROVE IInv /\ KOInv
  OBVIOUS
<1>1. IInv /\ events = <<>>
  BY InitIInv DEF KOInit, Init
<1>2. requests = <<>> /\ Req = {} /\ Event = {}
  BY <1>1 DEF KOInit, Req, Event
<1>3. KOTypeOK
  BY <1>2, EmptySeq, KOReaderAssumption DEF KOInit, KOTypeOK
<1>4. /\ Authenticated /\ OwnCalls /\ CallsApart
      /\ StoredAsSent /\ FloorsAnswered
  BY <1>2 DEF Authenticated, OwnCalls, CallsApart, StoredAsSent, FloorsAnswered
<1> QED
  BY <1>1, <1>3, <1>4 DEF KOInv

LEMMA NextKOInv == IInv /\ KOInv /\ [KONext]_allVars => IInv' /\ KOInv'
<1> SUFFICES ASSUME IInv, KOInv, [KONext]_allVars PROVE IInv' /\ KOInv'
  OBVIOUS
<1>1. /\ KOTypeOK /\ Authenticated /\ OwnCalls /\ CallsApart
      /\ StoredAsSent /\ FloorsAnswered
  BY DEF KOInv
<1>2. [Next]_vars
  BY <1>1, StepIsPipelines
<1>3. IInv'
  BY <1>2, NextIInv
<1> QED
  BY <1>1, <1>2, <1>3, KOTypeNext, AuthenticatedNext, OwnCallsNext,
     CallsApartNext, StoredNext, FloorsNext DEF KOInv

\* The server's invariant holds of every run, beside the pipeline's.
THEOREM KOInductive == KOSpec => [](IInv /\ KOInv)
<1>1. KOInit => IInv /\ KOInv
  BY InitKOInv
<1>2. IInv /\ KOInv /\ [KONext]_allVars => (IInv /\ KOInv)'
  BY NextKOInv
<1> QED
  BY <1>1, <1>2, PTL DEF KOSpec

\* Behind its handlers the server's pipeline is the pipeline: whatever the
\* devices do, what is proved of Pipeline holds here (koreader.go submits
\* through core.Pipeline.Submit alone).
THEOREM ServesThroughPipeline == KOSpec => Spec
<1>1. KOInit => Init
  BY DEF KOInit
<1>2. IInv /\ KOInv /\ [KONext]_allVars => [Next]_vars
  BY StepIsPipelines DEF KOInv
<1> QED
  BY <1>1, <1>2, KOInductive, PTL DEF KOSpec, Spec

\* A push that was answered 200 has one event, with its document and nothing
\* else for evidence.
LEMMA StoredPush ==
  ASSUME IInv, KOInv, NEW r \in Req, requests[r].op = "push",
         requests[r].answer = 200
  PROVE  \E e \in Event :
           /\ EventsOf(r) = {e}
           /\ EvidenceOf(e) = ToAdapterEvent(requests[r].push).evidence
           /\ events[e].percent = IF requests[r].push.percent > 100 THEN 100
                                  ELSE requests[r].push.percent
<1>0. Answers /\ OwnCalls /\ StoredAsSent
  BY DEF KOInv, IInv
<1> DEFINE n == requests[r].call
<1>1. /\ n \in Call /\ calls[n].event = ToAdapterEvent(requests[r].push)
      /\ calls[n].phase = "ok"
  BY <1>0 DEF OwnCalls
<1>2. calls[n].result = "ok"
  BY <1>0, <1>1 DEF Answers
<1>3. PICK e \in Event : events[e].call = n
  BY <1>0, <1>1, <1>2 DEF Answers
<1>4. \A f \in Event : events[f].call = n => f = e
  BY <1>0, <1>3 DEF Answers
<1>5. EventsOf(r) = {e}
  BY <1>3, <1>4 DEF EventsOf
<1>6. EvidenceOf(e) = ToAdapterEvent(requests[r].push).evidence
  BY <1>1, <1>3 DEF EvidenceOf
<1>7. calls[events[e].call].event.percent = requests[r].push.percent
  BY <1>1, <1>3 DEF ToAdapterEvent
<1>8. events[e].percent = IF requests[r].push.percent > 100 THEN 100
                          ELSE requests[r].push.percent
  <2>1. events[e].percent =
          IF calls[events[e].call].event.percent > 100 THEN 100
          ELSE calls[events[e].call].event.percent
    BY <1>0, <1>3, Zenon DEF StoredAsSent
  <2> QED
    BY <1>7, <2>1
<1> QED
  BY <1>5, <1>6, <1>8

LEMMA PushType ==
  ASSUME KOTypeOK, NEW r \in Req PROVE requests[r].push \in Push
<1>1. requests[r] \in RequestRecord
  BY ElementOfSeq, LenProperties DEF KOTypeOK, Req
<1> QED
  BY <1>1 DEF RequestRecord

\* The document is the only evidence of a push.
LEMMA DocumentAlone ==
  ASSUME NEW p \in Push
  PROVE  /\ ToAdapterEvent(p).evidence["koreader_doc_hash"] = p.document
         /\ OnlyKey("koreader_doc_hash", ToAdapterEvent(p).evidence)
         /\ "koreader_doc_hash" \in AliasField
<1>1. p.document \in Value /\ p.document # Absent
  BY KOReaderAssumption, ResolverAssumption DEF PushRequest
<1>2. "koreader_doc_hash" \in AliasField /\ "koreader_doc_hash" \in Field
  BY DEF Field, AliasField
<1> DEFINE ev == ToAdapterEvent(p).evidence
<1>3. ev = [f \in Field |-> IF f = "koreader_doc_hash" THEN p.document
                            ELSE Absent]
  BY DEF ToAdapterEvent
<1> HIDE DEF ev
<1>4. \A f \in Field : ev[f] # Absent <=> f = "koreader_doc_hash"
  BY <1>1, <1>3
<1>5. ev["koreader_doc_hash"] = p.document
  BY <1>2, <1>3
<1> QED
  BY <1>2, <1>4, <1>5, Zenon DEF OnlyKey, Present, ev

\* What a push is told is true (handlePush): 200 means that its progress is
\* recorded, once, as it was sent, and 4xx that nothing was submitted.
THEOREM PushesTold == KOSpec => []PushesAnsweredTruly
<1>1. ASSUME IInv, KOInv PROVE PushesAnsweredTruly
  <2>0. OwnCalls /\ Authenticated /\ KOTypeOK
    BY <1>1 DEF KOInv
  <2>1. ASSUME NEW r \in Req, requests[r].op = "push",
               requests[r].answer = 200
        PROVE  \E e \in EventsOf(r) :
                 /\ EventsOf(r) = {e}
                 /\ EvidenceOf(e)["koreader_doc_hash"] = requests[r].push.document
                 /\ events[e].percent = IF requests[r].push.percent > 100 THEN 100
                                        ELSE requests[r].push.percent
    <3>1. requests[r].push \in Push
      BY <2>0, PushType
    <3>2. PICK e \in Event :
            /\ EventsOf(r) = {e}
            /\ EvidenceOf(e) = ToAdapterEvent(requests[r].push).evidence
            /\ events[e].percent = IF requests[r].push.percent > 100 THEN 100
                                   ELSE requests[r].push.percent
      BY <1>1, <2>1, StoredPush
    <3>3. EvidenceOf(e)["koreader_doc_hash"] = requests[r].push.document
      BY <3>1, <3>2, DocumentAlone
    <3> QED
      BY <3>2, <3>3, Zenon
  <2>2. \A r \in Req : requests[r].answer \in {400, 401, 412, 429}
                         => requests[r].call = 0
    BY <2>0 DEF OwnCalls
  <2>3. \A r \in Req : requests[r].answer = 200 => requests[r].key = "right"
    BY <2>0 DEF Authenticated
  <2> QED
    BY <2>1, <2>2, <2>3, Zenon DEF PushesAnsweredTruly
<1> QED
  BY <1>1, KOInductive, PTL

\* A pull sees the canonical row, which is at least as new as every accepted
\* push of its document that was answered.
LEMMA PullSees ==
  ASSUME IInv, KOInv, NEW q \in Req, requests[q].op = "push",
         requests[q].answer = 200
  PROVE  \E e \in EventsOf(q) :
           events[e].conflict # 0 \/ CanonicalEvent(requests[q].push) >= e
<1>0. requests[q].push \in Push
  BY PushType DEF KOInv
<1>1. PICK e \in Event :
        EventsOf(q) = {e}
        /\ EvidenceOf(e) = ToAdapterEvent(requests[q].push).evidence
  BY StoredPush
<1> DEFINE b == events[e].book
           k == <<"koreader_doc_hash", requests[q].push.document>>
<1>2. aliases[k] = b
  <2>1. /\ OnlyKey("koreader_doc_hash", EvidenceOf(e))
        /\ EvidenceOf(e)["koreader_doc_hash"] = requests[q].push.document
        /\ "koreader_doc_hash" \in AliasField
    BY <1>0, <1>1, DocumentAlone
  <2>2. KeysKnown
    BY DEF IInv
  <2>3. OnlyKey("koreader_doc_hash", EvidenceOf(e)) =>
          aliases[<<"koreader_doc_hash",
                    EvidenceOf(e)["koreader_doc_hash"]>>] = events[e].book
    BY <2>1, <2>2, Zenon DEF KeysKnown
  <2> QED
    BY <2>1, <2>3
<1>3. b \in Book /\ e \in Nat /\ e < Len(events) + 1 /\ b # 0
  <2>1. b \in Book
    BY DEF IInv, Answers
  <2>2. Book = 1..Len(books) /\ Event = 1..Len(events)
    BY LenProperties DEF IInv, TypeOK, Book, Event
  <2>3. Len(books) \in Nat /\ Len(events) \in Nat
    BY LenProperties DEF IInv, TypeOK
  <2> QED
    BY <2>1, <2>2, <2>3
<1>4. CanonicalEvent(requests[q].push) = canon[b].event
  BY <1>2, <1>3 DEF CanonicalEvent, BookOf
<1>5. CASE events[e].conflict = 0
  <2>1. e \in AcceptedBefore(b, Len(events) + 1)
    BY <1>3, <1>5 DEF AcceptedBefore
  <2>2. e <= canon[b].event
    BY <1>3, <2>1 DEF IInv, CanonCopies
  <2>3. canon[b].event \in Nat
    BY <1>3 DEF IInv, TypeOK, CanonRow
  <2> QED
    BY <1>1, <1>3, <1>4, <2>2, <2>3
<1>6. CASE events[e].conflict # 0
  BY <1>1, <1>6
<1> QED
  BY <1>5, <1>6

\* Stored events stay as they are.
LEMMA EventsKept ==
  ASSUME IInv, [Next]_vars
  PROVE  Event \subseteq Event' /\ \A e \in Event : events'[e] = events[e]
<1>1. CASE Process
  BY <1>1, NewEvents
<1>2. CASE ~Process
  <2>1. events' = events
    BY <1>2 DEF Next, Run, Submit, Send, Return, TimeOut, Reject, RollBack,
                Cancel, Stop, Restart, vars
  <2> QED
    BY <2>1 DEF Event
<1> QED
  BY <1>1, <1>2

\* A pull that was just answered saw what is canonical.
LEMMA PullEffect ==
  ASSUME KOTypeOK, NEW r \in Req, Pull(r)
  PROVE  requests'[r].seen = CanonicalEvent(requests[r].push) /\ events' = events
<1>1. requests \in Seq(RequestRecord) /\ r \in DOMAIN requests
  BY DEF KOTypeOK, Req
<1>2. requests[r] \in RequestRecord
  BY ElementOfSeq, LenProperties DEF KOTypeOK, Req
<1>3. requests'[r] = [requests[r] EXCEPT !.stage = "answered",
                        !.seen = CanonicalEvent(requests[r].push),
                        !.answer = 200]
  BY <1>1 DEF Pull
<1>4. events' = events
  BY DEF Pull, vars
<1> QED
  BY <1>2, <1>3, <1>4 DEF RequestRecord

\* Only a pull makes a 200 of a pull.
LEMMA NewlyPulled ==
  ASSUME IInv, KOInv, [KONext]_allVars, NEW r \in Req,
         requests'[r].op = "pull", requests'[r].answer = 200
  PROVE  \/ Is(r, "answered") /\ requests'[r] = requests[r]
         \/ Pull(r) /\ requests'[r].push = requests[r].push
<1>0. KOTypeOK /\ Authenticated /\ OwnCalls
  BY DEF KOInv
<1>1. requests[r].answer = 200 => Is(r, "answered")
  BY <1>0 DEF Authenticated
<1>2. CASE requests[r].answer = 200
  BY <1>0, <1>1, <1>2, AnsweredKept
<1>3. CASE requests[r].answer # 200
  <2>1. requests'[r] # requests[r]
    BY <1>3
  <2>2. ~ \E h \in Traffic : Arrive(h)
    BY <1>0, <2>1, ArriveEffect
  <2>3. ~RestartService
    BY <1>0, <1>3, RestartEffect
  <2>4. ~Elsewhere
    BY <2>1, ElsewhereFrame
  <2>5. ASSUME NEW q \in Req, SubmitPush(q) PROVE FALSE
    <3>1. q = r
      BY <1>0, <2>1, <2>5, SubmitEffect
    <3> QED
      BY <1>0, <1>3, <2>5, <3>1, SubmitEffect
  <2>6. ASSUME NEW q \in Req, AnswerPush(q) PROVE FALSE
    <3>1. q = r
      BY <1>0, <2>1, <2>6, AnswerEffect
    <3>2. requests[r].op = "push"
      BY <1>0, <2>6, <3>1, AnswerEffect DEF OwnCalls, Is
    <3> QED
      BY <1>0, <2>6, <3>1, <3>2, AnswerEffect
  <2>7. PICK q \in Req : HandlesAside(q)
    BY <2>2, <2>3, <2>4, <2>5, <2>6, KONextGroups
  <2>8. q = r
    BY <1>0, <2>1, <2>7, AsideEffect
  <2>9. Pull(r) /\ requests'[r].push = requests[r].push
    BY <1>0, <1>3, <2>7, <2>8, AsideEffect
  <2> QED
    BY <2>9
<1> QED
  BY <1>2, <1>3

LEMMA ReadsNext ==
  ASSUME IInv, KOInv, ReadsItsPushes, [KONext]_allVars PROVE ReadsItsPushes'
<1>0. KOTypeOK /\ Authenticated /\ OwnCalls /\ FloorsAnswered
  BY DEF KOInv
<1>1. Event \subseteq Event' /\ \A e \in Event : events'[e] = events[e]
  BY <1>0, StepIsPipelines, EventsKept
<1>2. ASSUME NEW r \in Req', NEW q \in requests'[r].floor,
             requests'[r].op = "pull", requests'[r].answer = 200,
             requests'[q].push.document = requests'[r].push.document
      PROVE  \E e \in EventsOf(q)' :
               events'[e].conflict # 0 \/ requests'[r].seen >= e
  <2>1. r \in Req
    <3>1. ASSUME NEW h \in Traffic, Arrive(h) PROVE r # Len(requests) + 1
      BY <1>0, <1>2, <3>1, ArriveEffect
    <3>2. ASSUME NEW h \in Traffic, Arrive(h) PROVE r \in Req
      BY <1>0, <3>1, <3>2, ArriveEffect
    <3>3. ~(\E h \in Traffic : Arrive(h)) => Req' = Req
      BY <1>0, AsideEffect, SubmitEffect, AnswerEffect, RestartEffect,
         ElsewhereFrame, KONextGroups DEF Req
    <3> QED
      BY <3>2, <3>3
  <2>2. /\ q \in requests[r].floor
        /\ q \in Req /\ requests[q].op = "push" /\ requests[q].answer = 200
    BY <1>0, <1>2, <2>1, AnsweredKept DEF FloorsAnswered
  <2>3. Is(q, "answered")
    BY <1>0, <2>2 DEF Authenticated
  <2>4. requests'[q] = requests[q]
    BY <1>0, <2>2, <2>3, AnsweredKept
  <2>5. EventsOf(q) \subseteq EventsOf(q)' /\ EventsOf(q) \subseteq Event
    BY <1>1, <2>4 DEF EventsOf
  <2>6. \E e \in EventsOf(q) : events[e].conflict # 0 \/ requests'[r].seen >= e
    <3>1. CASE Is(r, "answered") /\ requests'[r] = requests[r]
      BY <1>2, <2>1, <2>2, <2>4, <3>1 DEF ReadsItsPushes
    <3>2. CASE Pull(r) /\ requests'[r].push = requests[r].push
      <4>1. requests'[r].seen = CanonicalEvent(requests[r].push)
        BY <1>0, <2>1, <3>2, PullEffect
      <4>2. CanonicalEvent(requests[r].push) = CanonicalEvent(requests[q].push)
        BY <1>2, <2>4, <3>2 DEF CanonicalEvent, BookOf
      <4>3. \E e \in EventsOf(q) :
              events[e].conflict # 0 \/ CanonicalEvent(requests[q].push) >= e
        BY <2>2, PullSees
      <4> QED
        BY <4>1, <4>2, <4>3
    <3> QED
      BY <1>2, <2>1, <3>1, <3>2, NewlyPulled
  <2> QED
    BY <1>1, <2>5, <2>6
<1> QED
  BY <1>2, Zenon DEF ReadsItsPushes

\* A device that was told 200 reads its push back, or what came after it,
\* from handlePull, unless that push waits in a conflict.
THEOREM PullsReadPushes == KOSpec => []ReadsItsPushes
<1>1. KOInit => ReadsItsPushes
  BY DEF KOInit, ReadsItsPushes, Req
<1>2. IInv /\ KOInv /\ ReadsItsPushes /\ [KONext]_allVars => ReadsItsPushes'
  BY ReadsNext
<1> QED
  BY <1>1, <1>2, KOInductive, PTL DEF KOSpec
=============================================================================
