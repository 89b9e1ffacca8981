------------------------------ MODULE KOReader ------------------------------
(***************************************************************************)
(* internal/adapters/koreader in front of the pipeline: the KOSync server. *)
(* Requests run concurrently, each in the order of its handler: rate       *)
(* limiter, authentication with its failure counter and the adapter's      *)
(* health, then push or pull.  A push reads the canonical progress to      *)
(* detect that it is stale, notes the device, and waits for Submit; the    *)
(* pipeline moves in between.  Every action of Pipeline is an action here. *)
(***************************************************************************)
EXTENDS Pipeline, FiniteSets

CONSTANTS User,          \* KOSync accounts
          Push,          \* bodies of PUT /syncs/progress, see PushRequest
          Traffic,       \* the requests of the instance, see HTTPRequest
          MaxRequests,   \* bound: requests
          AlarmAt        \* failed logins until the user is asked: 10

\* cfi: the progress string starts with "epubcfi(".
PushRequest == [document : Value, percent : Int, cfi : BOOLEAN,
                device : STRING]

\* A pull reads the document of its push and nothing else of it, a login
\* nothing.  limited: the limiter has no token left for it.
HTTPRequest ==
  [op : {"auth", "push", "pull"}, user : User,
   key : {"right", "wrong", "missing"}, push : Push, limited : BOOLEAN]

VARIABLES
  registered, \* koreader_users
  lastDevice, \* per user the device with the newest last_seen, or "none"
  recent,     \* books whose canonical updated_at is less than a second old
  requests,   \* requests, in order of arrival, see RequestRecord
  authFails,  \* the adapter's counter of failed logins
  health      \* the adapter's health: "ok" or "needs_user_action"

koVars == <<registered, lastDevice, recent, requests, authFails, health>>
allVars == <<vars, koVars>>

\* "auth" is before the credentials are checked, "clear" and "healthy" are the
\* two halves of clearAuthFailures, "alarm" is recordAuthFailure before
\* setHealth; then come the handlers' own steps.
Stage == {"auth", "clear", "healthy", "alarm", "handler", "device", "submit",
          "waiting", "answered", "lost"}

\* seen: the event of the canonical row the handler read, a history; call:
\* its call of Submit; floor: the pushes answered 200 when it arrived, a
\* history.
RequestRecord ==
  [op : {"auth", "push", "pull"}, user : User,
   key : {"right", "wrong", "missing"}, push : Push,
   stage : Stage, seen : Nat, call : Nat, answer : Nat,
   floor : SUBSET (1..MaxRequests)]

Req == DOMAIN requests
Pushes == {r \in Req : requests[r].op = "push"}
Is(r, stage) == requests[r].stage = stage

Goto(r, stage) == requests' = [requests EXCEPT ![r].stage = stage]

AnswerWith(r, code) ==
  requests' = [requests EXCEPT ![r].stage = "answered", ![r].answer = code]

-----------------------------------------------------------------------------
(* Translation.                                                            *)

LocatorType(cfi) == IF cfi THEN "koreader_xpointer" ELSE "percent"

ReadStatusOf(percent) ==
  IF percent >= 100 THEN "finished" ELSE IF percent > 0 THEN "reading"
  ELSE "unknown"

ToAdapterEvent(p) ==
  [evidence |-> [f \in Field |-> IF f = "koreader_doc_hash" THEN p.document
                                 ELSE Absent],
   source |-> "koreader", dated |-> FALSE, percent |-> p.percent,
   pages |-> Nil, locator |-> LocatorType(p.cfi),
   status |-> ReadStatusOf(p.percent)]

ASSUME KOReaderAssumption ==
  /\ Push \subseteq PushRequest
  /\ Traffic \subseteq HTTPRequest
  /\ \A p \in Push : ToAdapterEvent(p) \in Input
  /\ MaxRequests \in Nat
  /\ AlarmAt \in Nat \ {0}

-----------------------------------------------------------------------------
(* Accounts, limiter, authentication.                                      *)

CreateUser(u) == u \notin registered /\ registered' = registered \cup {u}

\* POST /users/create while registration is open; a taken name is 402.
Register(u) ==
  /\ CreateUser(u)
  /\ UNCHANGED <<vars, lastDevice, recent, requests, authFails, health>>

\* The limiter counts logins and registrations per address: five, and then
\* one in six seconds.
Limited(h) == h.op = "auth" /\ h.limited

\* A request passes the limiter, or is answered 429; and without both headers
\* it is answered 401, uncounted.
Arrive(h) ==
  /\ Len(requests) < MaxRequests
  /\ h.op = "push" => Cardinality(Pushes) < MaxCalls       \* bound
  /\ requests' = Append(requests,
       [op |-> h.op, user |-> h.user, key |-> h.key, push |-> h.push,
        seen |-> 0, call |-> 0,
        stage |-> IF Limited(h) \/ h.key = "missing" THEN "answered"
                  ELSE "auth",
        answer |-> IF Limited(h) THEN 429
                   ELSE IF h.key = "missing" THEN 401 ELSE 0,
        floor |-> {q \in Pushes : requests[q].answer = 200}])
  /\ UNCHANGED <<vars, registered, lastDevice, recent, authFails, health>>

VerifiedByName(r) == requests[r].user \in registered   \* Mutant of Verified

Verified(r) == requests[r].user \in registered /\ requests[r].key = "right"

Accept(r) ==
  /\ Is(r, "auth") /\ Verified(r)
  /\ Goto(r, "clear")
  /\ UNCHANGED <<vars, registered, lastDevice, recent, authFails, health>>

AlarmLate(n) == n > AlarmAt             \* Mutant of Alarm

Alarm(n) == n >= AlarmAt

\* recordAuthFailure: the counter, and perhaps the health, one after the
\* other.
RecordFailure(r) ==
  /\ Is(r, "auth") /\ ~Verified(r)
  /\ authFails' = authFails + 1
  /\ IF Alarm(authFails + 1) THEN Goto(r, "alarm") ELSE AnswerWith(r, 401)
  /\ UNCHANGED <<vars, registered, lastDevice, recent, health>>

RaiseAlarm(r) ==
  /\ Is(r, "alarm")
  /\ health' = "needs_user_action"
  /\ AnswerWith(r, 401)
  /\ UNCHANGED <<vars, registered, lastDevice, recent, authFails>>

ClearFailures(r) ==
  /\ Is(r, "clear")
  /\ authFails' = 0
  /\ Goto(r, "healthy")
  /\ UNCHANGED <<vars, registered, lastDevice, recent, health>>

SetHealthy(r) ==
  /\ Is(r, "healthy")
  /\ health' = "ok"
  /\ IF requests[r].op = "auth" THEN AnswerWith(r, 200) ELSE Goto(r, "handler")
  /\ UNCHANGED <<vars, registered, lastDevice, recent, authFails>>

-----------------------------------------------------------------------------
(* PUT and GET /syncs/progress.                                            *)

\* loadCanonicalByDocHash: by the alias of the document.
BookOf(p) == aliases[<<"koreader_doc_hash", p.document>>]
CanonicalEvent(p) == IF BookOf(p) = 0 THEN 0 ELSE canon[BookOf(p)].event

Malformed(p) == p.percent \notin 0..101

StaleNever(p) == FALSE                  \* Mutant of Stale

\* The canonical row is further on, and was written within the last second.
Stale(p) ==
  /\ BookOf(p) \in recent
  /\ canon[BookOf(p)].percent # Nil
  /\ canon[BookOf(p)].percent > p.percent

\* A failed read of the canonical row is only logged, and the push goes on.
CheckPush(r) ==
  LET p == requests[r].push IN
  /\ Is(r, "handler") /\ requests[r].op = "push"
  /\ IF Malformed(p) THEN AnswerWith(r, 400)
     ELSE IF Stale(p) THEN AnswerWith(r, 412)
     ELSE requests' = [requests EXCEPT ![r].stage = "device",
                                       ![r].seen = CanonicalEvent(p)]
  /\ UNCHANGED <<vars, registered, lastDevice, recent, authFails, health>>

UpsertDevice(r) ==
  /\ Is(r, "device")
  /\ lastDevice' = [lastDevice EXCEPT ![requests[r].user] =
                                        requests[r].push.device]
  /\ Goto(r, "submit")
  /\ UNCHANGED <<vars, registered, recent, authFails, health>>

SubmitPush(r) ==
  /\ Is(r, "submit")
  /\ Submit(ToAdapterEvent(requests[r].push))
  /\ requests' = [requests EXCEPT ![r].stage = "waiting",
                                  ![r].call = Len(calls) + 1]
  /\ UNCHANGED <<registered, lastDevice, recent, authFails, health>>

StatusOfUnlessError(phase) ==           \* Mutant of StatusOf
  IF phase = "error" THEN 500 ELSE 200

StatusOf(phase) == IF phase = "ok" THEN 200 ELSE 500

AnswerPush(r) ==
  /\ Is(r, "waiting")
  /\ calls[requests[r].call].phase \in {"ok", "error", "timeout"}
  /\ AnswerWith(r, StatusOf(calls[requests[r].call].phase))
  /\ UNCHANGED <<vars, registered, lastDevice, recent, authFails, health>>

\* The canonical row of the document, and the user's last device, whatever
\* book that was on.
Pull(r) ==
  /\ Is(r, "handler") /\ requests[r].op = "pull"
  /\ requests' = [requests EXCEPT ![r].stage = "answered",
                    ![r].seen = CanonicalEvent(requests[r].push),
                    ![r].answer = 200]
  /\ UNCHANGED <<vars, registered, lastDevice, recent, authFails, health>>

-----------------------------------------------------------------------------
(* The pipeline beside the handlers.                                       *)

\* What Process does to updated_at.
PipelineStep ==
  /\ \/ \E n \in Call : Send(n) \/ Return(n) \/ TimeOut(n)
     \/ Run
     \/ Cancel
     \/ Stop
  /\ recent' = recent \cup {b \in DOMAIN canon' :
                              b \in DOMAIN canon => canon'[b] # canon[b]}
  /\ UNCHANGED <<registered, lastDevice, requests, authFails, health>>

SecondPasses(b) ==
  /\ b \in recent
  /\ recent' = recent \ {b}
  /\ UNCHANGED <<vars, registered, lastDevice, requests, authFails, health>>

\* Handlers in flight die with the process, as do counter and limiter.
RestartService ==
  /\ Restart
  /\ requests' = [r \in Req |->
       IF Is(r, "answered") THEN requests[r]
       ELSE [requests[r] EXCEPT !.stage = "lost"]]
  /\ authFails' = 0
  /\ health' = "ok"
  /\ UNCHANGED <<registered, lastDevice, recent>>

KOInit ==
  /\ Init
  /\ registered = {}
  /\ lastDevice = [u \in User |-> "none"]
  /\ recent = {}
  /\ requests = <<>>
  /\ authFails = 0
  /\ health = "ok"

Handle(r) ==
  \/ Accept(r)
  \/ RecordFailure(r)
  \/ RaiseAlarm(r)
  \/ ClearFailures(r)
  \/ SetHealthy(r)
  \/ CheckPush(r)
  \/ UpsertDevice(r)
  \/ SubmitPush(r)
  \/ AnswerPush(r)
  \/ Pull(r)

KONext ==
  \/ \E u \in User : Register(u)
  \/ \E h \in Traffic : Arrive(h)
  \/ \E r \in Req : Handle(r)
  \/ PipelineStep
  \/ \E b \in recent : SecondPasses(b)
  \/ RestartService

KOSpec == KOInit /\ [][KONext]_allVars

-----------------------------------------------------------------------------
(* Properties.                                                             *)

\* The event of a request's call, if it is stored.
EventsOf(r) == {e \in Event : events[e].call = requests[r].call}

\* What a push is told is true: 200 means its progress is recorded, once, as
\* it was sent; 400, 401, 412 and 429 mean that nothing was submitted.  (500
\* promises nothing: the pipeline may still record it.)
PushesAnsweredTruly ==
  \A r \in Req :
    LET p == requests[r].push IN
    /\ requests[r].op = "push" /\ requests[r].answer = 200 =>
         \E e \in EventsOf(r) :
           /\ EventsOf(r) = {e}
           /\ EvidenceOf(e)["koreader_doc_hash"] = p.document
           /\ events[e].percent = IF p.percent > 100 THEN 100 ELSE p.percent
    /\ requests[r].answer \in {400, 401, 412, 429} => requests[r].call = 0
    /\ requests[r].answer = 200 => requests[r].key = "right"

\* Within a second of being written, a canonical row is lowered only by a
\* push that had checked for staleness before the row was written: a device
\* that is behind is refused, unless the two overlap.
LoweredByOverlapOnly ==
  [][\A b \in recent :
       canon'[b].percent < canon[b].percent =>
         \E r \in Req : /\ requests[r].call = events'[canon'[b].event].call
                        /\ requests[r].seen < canon[b].event]_allVars

Refused == {r \in Req : requests[r].answer = 401
                        /\ requests[r].key # "missing"}
Succeeded == {r \in Req : requests[r].stage \notin {"auth", "alarm"}
                          /\ requests[r].key = "right"
                          /\ requests[r].answer \notin {401, 429}}

\* The user is asked to act only after AlarmAt failed logins; and is, after
\* that many, as long as no login succeeded and no restart forgot them.
HealthTellsFailures ==
  /\ health = "needs_user_action" => Cardinality(Refused) >= AlarmAt
  /\ Cardinality(Refused) >= AlarmAt /\ Succeeded = {} /\ faults = 0
       => health = "needs_user_action"

\* Once a push was answered 200, a pull of that document never answers with
\* an older event, unless the push is in conflict and waits for the user.
ReadsItsPushes ==
  \A r \in Req : \A q \in requests[r].floor :
    requests[r].op = "pull" /\ requests[r].answer = 200
    /\ requests[q].push.document = requests[r].push.document
      => \E e \in EventsOf(q) : events[e].conflict # 0 \/ requests[r].seen >= e

-----------------------------------------------------------------------------
(* What makes the properties inductive: first PushesAnsweredTruly.         *)

KOTypeOK ==
  /\ registered \in SUBSET User
  /\ DOMAIN lastDevice = User
  /\ requests \in Seq(RequestRecord) /\ Len(requests) <= MaxRequests
  /\ authFails \in Nat
  /\ health \in {"ok", "needs_user_action"}

\* Who has no answer yet has none; and nobody gets past authentication, or is
\* answered 200, without the right key.
Authenticated ==
  \A r \in Req :
    /\ ~Is(r, "answered") => requests[r].answer = 0
    /\ \/ requests[r].stage \in {"clear", "healthy", "handler", "device",
                                 "submit", "waiting"}
       \/ requests[r].answer = 200
       => requests[r].key = "right"

\* A request has a call of Submit from the moment it waits, with its own
\* push in it, and only pushes have one; no two have the same.
OwnCalls ==
  \A r \in Req :
    /\ requests[r].stage \in {"device", "submit", "waiting"} =>
         requests[r].op = "push"
    /\ Is(r, "waiting") => requests[r].call # 0
    /\ requests[r].call # 0 =>
         /\ requests[r].op = "push"
         /\ requests[r].stage \in {"waiting", "answered", "lost"}
         /\ requests[r].answer \in {0, 200, 500}
         /\ requests[r].call \in Call
         /\ calls[requests[r].call].event = ToAdapterEvent(requests[r].push)
         /\ requests[r].answer = 200 => calls[requests[r].call].phase = "ok"
    /\ requests[r].op = "push" /\ requests[r].answer = 200
         => requests[r].call # 0

CallsApart ==
  \A q, r \in Req :
    requests[q].call = requests[r].call /\ requests[r].call # 0 => q = r

\* What is stored of a call is its percentage, clamped.
StoredAsSent ==
  \A e \in Event :
    LET sent == calls[events[e].call].event.percent IN
    events[e].percent = IF sent > 100 THEN 100 ELSE sent

\* What a request has to see are pushes that were answered 200.
FloorsAnswered ==
  \A r \in Req : \A q \in requests[r].floor :
    q \in Req /\ requests[q].op = "push" /\ requests[q].answer = 200

\* The inductive invariant of those proofs, beside the pipeline's.
KOInv == /\ KOTypeOK /\ Authenticated /\ OwnCalls /\ CallsApart
         /\ StoredAsSent /\ FloorsAnswered

Alarming == {r \in Req : Is(r, "alarm")}

\* What makes HealthTellsFailures inductive.  Below AlarmAt - 1 the counter
\* counts requests that are answered 401 with the same step, and it is ahead
\* of the answers as long as nobody resets it.
Counted ==
  /\ \A r \in Req : requests[r].stage \in {"auth", "alarm"} =>
                      requests[r].key # "missing"
  /\ \/ authFails <= Cardinality(Refused)
     \/ Cardinality(Refused) >= AlarmAt - 1
  /\ Alarming # {} => Cardinality(Refused) >= AlarmAt - 1
  /\ health = "needs_user_action" => Cardinality(Refused) >= AlarmAt
  /\ faults = 0 => loop = "running"
  /\ Succeeded = {} /\ faults = 0 =>
       /\ Cardinality(Refused \cup Alarming) <= authFails
       /\ health = "ok" => Cardinality(Refused) < AlarmAt

\* A push that went on after the stale check.
Checked(r) ==
  /\ requests[r].op = "push"
  /\ requests[r].stage \in {"device", "submit", "waiting"}
     \/ requests[r].call # 0

\* What makes LoweredByOverlapOnly inductive.  Every call of Submit is that of
\* a push, and a push that went on would pass the check again unless another
\* event has become canonical since.
Overlaps ==
  /\ recent \subseteq Book
  /\ \A n \in Call : \E r \in Req : requests[r].call = n
  /\ \A r \in Req : Checked(r) =>
       LET p == requests[r].push IN
       /\ ~Malformed(p)
       /\ requests[r].seen <= CanonicalEvent(p)
       /\ requests[r].seen = CanonicalEvent(p) => ~Stale(p)

\* All of it.
ServerInv == KOInv /\ Counted /\ Overlaps
=============================================================================
