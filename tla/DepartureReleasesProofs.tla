------------------------ MODULE DepartureReleasesProofs ------------------------
(***************************************************************************)
(* Proofs about DepartureReleases, for any set of possible requests and    *)
(* any bounds.  The inductive invariant ties the three places a request    *)
(* lives in together: the log of the API, the tasks that carry answers,    *)
(* and the message being handled.                                          *)
(***************************************************************************)
EXTENDS DepartureReleases, TLAPS

\* What an event says the API did, it did.
EventsAreTrue ==
    \A n \in 1..Len(events) :
       /\ events[n].type \in Decisions => events[n].type \in decisions[events[n].id]
       /\ events[n].type = "cancelled" => events[n].id \in withdrawn

\* Whatever is published before a request is made concerns older requests.
RequestsComeFirst ==
    \A m, n \in 1..Len(events) :
       m < n /\ events[n].type = "requested" => events[m].id < events[n].id

\* The message under way is the next one of the log.
HandlingIsNext ==
    handling # Nothing =>
       /\ processed < Len(events)
       /\ handling = NextEvent
       /\ handling.type \in Decisions

\* What an answered task asked for, the API did; and the user only asks on the
\* user's own behalf.
AnswersAreTrue ==
    \A t \in tasks :
       /\ t.do = "request" => t.of.from = User
       /\ t.at = "answered" =>
             /\ t.do = "request" => requests[t.id].from = User
             /\ t.do = "cancel" => t.id \in withdrawn
             /\ t.do \in Decisions => t.do \in decisions[t.id]

IInv == TypeOK /\ EventsAreTrue /\ RequestsComeFirst /\ HandlingIsNext /\ AnswersAreTrue

-------------------------------------------------------------------------------
(* The operators on the collection and on one request.                        *)

LEMMA AddFacts ==
    ASSUME NEW c, NEW id
    PROVE  /\ DOMAIN Add(c, id) = DOMAIN c \cup {id}
           /\ \A i \in DOMAIN c : Add(c, id)[i] = c[i]
           /\ id \notin DOMAIN c => Add(c, id)[id] = {}
BY DEF Add

LEMMA RestrictFacts ==
    ASSUME NEW c, NEW S
    PROVE  /\ DOMAIN Restrict(c, S) = S
           /\ \A i \in S : Restrict(c, S)[i] = c[i]
BY DEF Restrict

LEMMA ChangeFacts ==
    ASSUME NEW c, NEW id, NEW marks
    PROVE  /\ DOMAIN Change(c, id, marks) = DOMAIN c
           /\ \A i \in DOMAIN c : Change(c, id, marks)[i] = IF i = id THEN marks ELSE c[i]
BY DEF Change

LEMMA DecideFacts ==
    ASSUME NEW marks \in SUBSET Marks, NEW decision \in Decisions, NEW expires \in BOOLEAN
    PROVE  /\ Decide(marks, decision, expires) \subseteq Marks
           /\ Decide(marks, decision, expires) \cap Decisions
                 = (marks \cap Decisions) \cup {decision}
<1>1. CASE decision = "acknowledged"
    BY <1>1 DEF Decide, Acknowledge, Marks, Decisions
<1>2. CASE decision = "rejected"
    BY <1>2 DEF Decide, Reject, Marks, Decisions
<1>3. CASE decision = "approved"
    BY <1>3 DEF Decide, Approve, Marks, Decisions
<1>. QED BY <1>1, <1>2, <1>3 DEF Decisions

LEMMA SamePairSymmetric == \A i, j : SamePair(i, j) <=> SamePair(j, i)
BY DEF SamePair

LEMMA DeadlineIsMark == \A marks : Deadline(marks) \in Marks
BY DEF Deadline, Marks

LEMMA RemoveOthersFacts ==
    ASSUME NEW c, NEW id
    PROVE  /\ DOMAIN RemoveOthers(c, id) = {i \in DOMAIN c : i = id \/ ~SamePair(i, id)}
           /\ \A i \in DOMAIN RemoveOthers(c, id) : RemoveOthers(c, id)[i] = c[i]
BY RestrictFacts DEF RemoveOthers

-------------------------------------------------------------------------------
(* The API: its log only grows, and what it publishes is what it did.         *)

ApiActs ==
    \/ \E r \in Requests : ApiRequest(r)
    \/ \E id \in Ids, decision \in Decisions, expires \in BOOLEAN :
          ApiDecide(id, decision, expires)
    \/ \E id \in Ids : ApiCancel(id)

LogGrows ==
    /\ Len(requests) <= Len(requests')
    /\ \A id \in Made : requests'[id] = requests[id]
    /\ \A id \in Ids : decisions[id] \subseteq decisions'[id]
    /\ withdrawn \subseteq withdrawn'
    /\ Len(events') = Len(events) + 1
    /\ \A n \in 1..Len(events) : events'[n] = events[n]

ApiTypeOK ==
    /\ requests \in Seq(Requests) /\ Len(requests) <= MaxReleases
    /\ decisions \in [Ids -> SUBSET Decisions]
    /\ withdrawn \subseteq Made
    /\ events \in Seq(Event) /\ Len(events) <= MaxEvents
    /\ \A n \in 1..Len(events) : events[n].id \in Made

LEMMA PublishFacts ==
    ASSUME ApiTypeOK, NEW type \in {"requested", "cancelled"} \cup Decisions,
           NEW id \in Ids, NEW expires \in BOOLEAN, Publish(type, id, expires)
    PROVE  /\ events' \in Seq(Event) /\ Len(events') <= MaxEvents
           /\ Len(events') = Len(events) + 1
           /\ \A n \in 1..Len(events) : events'[n] = events[n]
           /\ events'[Len(events) + 1] = [type |-> type, id |-> id, expires |-> expires]
<1>1. [type |-> type, id |-> id, expires |-> expires] \in Event
    BY DEF Event
<1>2. Len(events) \in Nat /\ MaxEvents \in Nat
    BY BoundsAssumption DEF ApiTypeOK
<1>. QED BY <1>1, <1>2 DEF Publish, ApiTypeOK

LEMMA ApiStep ==
    ASSUME ApiTypeOK, EventsAreTrue, RequestsComeFirst, ApiActs
    PROVE  ApiTypeOK' /\ EventsAreTrue' /\ RequestsComeFirst' /\ LogGrows
<1>0. /\ Len(requests) \in Nat /\ Len(events) \in Nat
      /\ MaxReleases \in Nat
      /\ Made \subseteq Ids
    BY BoundsAssumption DEF ApiTypeOK, Made, Ids
<1>1. ASSUME NEW r \in Requests, ApiRequest(r)
      PROVE  ApiTypeOK' /\ EventsAreTrue' /\ RequestsComeFirst' /\ LogGrows
    <2>. DEFINE new == Len(requests) + 1
    <2>1. /\ requests' \in Seq(Requests)
          /\ Len(requests') = new /\ new \in Ids
          /\ \A id \in Made : requests'[id] = requests[id]
        BY <1>0, <1>1 DEF ApiRequest, ApiTypeOK, Made, Ids
    <2>2. Made' = Made \cup {new} /\ \A id \in Made : id < new
        BY <1>0, <2>1 DEF Made
    <2>3. decisions' = decisions /\ withdrawn' = withdrawn
        BY <1>1 DEF ApiRequest
    <2>4. /\ events' \in Seq(Event) /\ Len(events') <= MaxEvents
          /\ Len(events') = Len(events) + 1
          /\ \A n \in 1..Len(events) : events'[n] = events[n]
          /\ events'[Len(events) + 1] = [type |-> "requested", id |-> new, expires |-> FALSE]
        BY <1>1, <2>1, PublishFacts DEF ApiRequest
    <2>5. ApiTypeOK'
        <3>1. requests' \in Seq(Requests) /\ Len(requests') <= MaxReleases
            BY <2>1 DEF Ids
        <3>2. \A n \in 1..Len(events') : events'[n].id \in Made'
            BY <1>0, <2>2, <2>4 DEF ApiTypeOK
        <3>. QED BY <2>2, <2>3, <2>4, <3>1, <3>2 DEF ApiTypeOK
    <2>6. EventsAreTrue'
        BY <1>0, <2>3, <2>4 DEF EventsAreTrue, Decisions
    <2>7. RequestsComeFirst'
        <3>. SUFFICES ASSUME NEW m \in 1..Len(events'), NEW n \in 1..Len(events'),
                             m < n, events'[n].type = "requested"
                      PROVE  events'[m].id < events'[n].id
            BY DEF RequestsComeFirst
        <3>1. m \in 1..Len(events)
            BY <1>0, <2>4
        <3>2. CASE n \in 1..Len(events)
            BY <2>4, <3>1, <3>2 DEF RequestsComeFirst
        <3>3. CASE n = Len(events) + 1
            BY <2>2, <2>4, <3>1, <3>3 DEF ApiTypeOK
        <3>. QED BY <1>0, <2>4, <3>2, <3>3
    <2>8. LogGrows
        BY <1>0, <2>1, <2>3, <2>4 DEF LogGrows
    <2>. QED BY <2>5, <2>6, <2>7, <2>8
<1>2. ASSUME NEW id \in Ids, NEW decision \in Decisions, NEW expires \in BOOLEAN,
             ApiDecide(id, decision, expires)
      PROVE  ApiTypeOK' /\ EventsAreTrue' /\ RequestsComeFirst' /\ LogGrows
    <2>1. /\ requests' = requests /\ withdrawn' = withdrawn /\ Made' = Made
          /\ id \in Made
        BY <1>2 DEF ApiDecide, Made
    <2>2. /\ decisions' \in [Ids -> SUBSET Decisions]
          /\ \A i \in Ids : decisions[i] \subseteq decisions'[i]
          /\ decision \in decisions'[id]
        BY <1>2 DEF ApiDecide, ApiTypeOK
    <2>3. /\ events' \in Seq(Event) /\ Len(events') <= MaxEvents
          /\ Len(events') = Len(events) + 1
          /\ \A n \in 1..Len(events) : events'[n] = events[n]
          /\ events'[Len(events) + 1] = [type |-> decision, id |-> id, expires |-> expires]
        BY <1>2, PublishFacts DEF ApiDecide
    <2>4. decision # "requested" /\ decision # "cancelled"
        BY DEF Decisions
    <2>5. ApiTypeOK'
        <3>1. \A n \in 1..Len(events') : events'[n].id \in Made'
            BY <1>0, <2>1, <2>3 DEF ApiTypeOK
        <3>. QED BY <2>1, <2>2, <2>3, <3>1 DEF ApiTypeOK
    <2>6. EventsAreTrue'
        <3>. SUFFICES ASSUME NEW n \in 1..Len(events')
                      PROVE  /\ events'[n].type \in Decisions =>
                                   events'[n].type \in decisions'[events'[n].id]
                             /\ events'[n].type = "cancelled" => events'[n].id \in withdrawn'
            BY DEF EventsAreTrue
        <3>1. CASE n \in 1..Len(events)
            <4>1. events[n].id \in Ids
                BY <1>0, <3>1 DEF ApiTypeOK
            <4>. QED BY <2>1, <2>2, <2>3, <3>1, <4>1 DEF EventsAreTrue
        <3>2. CASE n = Len(events) + 1
            BY <2>2, <2>3, <2>4, <3>2
        <3>. QED BY <1>0, <2>3, <3>1, <3>2
    <2>7. RequestsComeFirst'
        BY <1>0, <2>3, <2>4 DEF RequestsComeFirst
    <2>8. LogGrows
        BY <1>0, <2>1, <2>2, <2>3 DEF LogGrows
    <2>. QED BY <2>5, <2>6, <2>7, <2>8
<1>3. ASSUME NEW id \in Ids, ApiCancel(id)
      PROVE  ApiTypeOK' /\ EventsAreTrue' /\ RequestsComeFirst' /\ LogGrows
    <2>1. /\ requests' = requests /\ decisions' = decisions /\ Made' = Made
          /\ id \in Made /\ withdrawn' = withdrawn \cup {id}
        BY <1>3 DEF ApiCancel, Made
    <2>2. /\ events' \in Seq(Event) /\ Len(events') <= MaxEvents
          /\ Len(events') = Len(events) + 1
          /\ \A n \in 1..Len(events) : events'[n] = events[n]
          /\ events'[Len(events) + 1] = [type |-> "cancelled", id |-> id, expires |-> FALSE]
        BY <1>3, PublishFacts DEF ApiCancel
    <2>3. ApiTypeOK'
        BY <1>0, <2>1, <2>2 DEF ApiTypeOK
    <2>4. EventsAreTrue'
        BY <1>0, <2>1, <2>2 DEF EventsAreTrue, Decisions
    <2>5. RequestsComeFirst'
        BY <1>0, <2>2 DEF RequestsComeFirst
    <2>6. LogGrows
        BY <1>0, <2>1, <2>2 DEF LogGrows
    <2>. QED BY <2>3, <2>4, <2>5, <2>6
<1>. QED BY <1>1, <1>2, <1>3 DEF ApiActs
-------------------------------------------------------------------------------
(* The inductive invariant, in the parts the steps disturb one at a time.     *)

HandlerTypeOK ==
    /\ processed \in 0..Len(events)
    /\ handling \in Event \cup {Nothing}
    /\ DOMAIN releaseRequests \subseteq Made
    /\ \A id \in DOMAIN releaseRequests : releaseRequests[id] \subseteq Marks
    /\ window.kind \in {"none", "decision", "cancel"}
    /\ window.kind = "decision" => window.id \in Made /\ window.decision \in Decisions
    /\ crashed \in BOOLEAN
    /\ lapsed \subseteq Made

TaskOK(t) ==
    /\ t \in Task
    /\ t.id = 0 <=> (t.do = "request" /\ t.at = "called")
    /\ t.id <= Len(requests)
    /\ t.do = "request" => t.of.from = User
    /\ t.at = "answered" =>
          /\ t.do = "request" => requests[t.id].from = User
          /\ t.do = "cancel" => t.id \in withdrawn
          /\ t.do \in Decisions => t.do \in decisions[t.id]

LEMMA IInvParts ==
    IInv <=> /\ ApiTypeOK /\ EventsAreTrue /\ RequestsComeFirst
             /\ HandlerTypeOK /\ HandlingIsNext
             /\ \A t \in tasks : TaskOK(t)
BY DEF IInv, TypeOK, ApiTypeOK, HandlerTypeOK, AnswersAreTrue, TaskOK

LEMMA IInvNext ==
    ASSUME ApiTypeOK', EventsAreTrue', RequestsComeFirst', HandlerTypeOK', HandlingIsNext',
           \A t \in tasks' : TaskOK(t)'
    PROVE  IInv'
BY DEF IInv, TypeOK, ApiTypeOK, HandlerTypeOK, AnswersAreTrue, TaskOK

LEMMA MadeFacts ==
    ASSUME ApiTypeOK
    PROVE  /\ Len(requests) \in Nat /\ Len(events) \in Nat /\ MaxReleases \in Nat
           /\ Made \subseteq Ids
           /\ \A id \in Made : requests[id] \in Requests /\ id \in 1..MaxReleases /\ id # 0
           /\ \A n \in 1..Len(events) : events[n] \in Event
BY BoundsAssumption DEF ApiTypeOK, Made, Ids

\* A task that was in order stays so while the API only adds to its log.
LEMMA TaskStaysOK ==
    ASSUME IInv, ApiTypeOK', LogGrows, NEW t \in tasks
    PROVE  TaskOK(t)'
<1>1. TaskOK(t) /\ ApiTypeOK
    BY IInvParts
<1>2. t.id \in Nat /\ t.id <= Len(requests) /\ Len(requests) \in Nat /\ Len(requests') \in Nat
    BY <1>1, MadeFacts DEF TaskOK, Task, ApiTypeOK
<1>3. t.id <= Len(requests')
    BY <1>2 DEF LogGrows
<1>4. CASE t.at = "answered"
    <2>1. t.id \in Made /\ t.id \in Ids
        BY <1>1, <1>2, <1>4, MadeFacts DEF TaskOK, Made
    <2>. QED BY <1>1, <1>3, <1>4, <2>1 DEF TaskOK, LogGrows
<1>5. CASE t.at # "answered"
    BY <1>1, <1>3, <1>5 DEF TaskOK
<1>. QED BY <1>4, <1>5

\* What the handler holds is not disturbed by the API.
LEMMA HandlerStaysOK ==
    ASSUME IInv, ApiTypeOK', LogGrows,
           UNCHANGED <<processed, handling, releaseRequests, window, crashed, lapsed>>
    PROVE  HandlerTypeOK' /\ HandlingIsNext'
<1>1. HandlerTypeOK /\ HandlingIsNext /\ ApiTypeOK
    BY IInvParts
<1>2. /\ Len(requests) \in Nat /\ Len(requests') \in Nat /\ Len(events) \in Nat
      /\ processed \in Nat
    BY <1>1, MadeFacts DEF ApiTypeOK, HandlerTypeOK
<1>3. Made \subseteq Made'
    BY <1>2 DEF LogGrows, Made
<1>4. HandlerTypeOK'
    <2>1. processed' \in 0..Len(events')
        BY <1>1, <1>2 DEF HandlerTypeOK, LogGrows
    <2>2. \A id \in DOMAIN releaseRequests' : releaseRequests'[id] \subseteq Marks
        BY <1>1 DEF HandlerTypeOK
    <2>. QED BY <1>1, <1>3, <2>1, <2>2 DEF HandlerTypeOK
<1>5. HandlingIsNext'
    <2>. SUFFICES ASSUME handling' # Nothing
                  PROVE  /\ processed' < Len(events')
                         /\ handling' = events'[processed' + 1]
                         /\ handling'.type \in Decisions
        BY DEF HandlingIsNext, NextEvent
    <2>1. processed < Len(events) /\ handling = events[processed + 1] /\ handling.type \in Decisions
        BY <1>1 DEF HandlingIsNext, NextEvent
    <2>2. processed + 1 \in 1..Len(events)
        BY <1>2, <2>1
    <2>. QED BY <1>2, <2>1, <2>2 DEF LogGrows
<1>. QED BY <1>4, <1>5

\* A step that leaves the API alone.
LEMMA ApiStays ==
    ASSUME ApiTypeOK, EventsAreTrue, RequestsComeFirst, UNCHANGED apiVars
    PROVE  ApiTypeOK' /\ EventsAreTrue' /\ RequestsComeFirst' /\ Made' = Made
BY DEF ApiTypeOK, EventsAreTrue, RequestsComeFirst, apiVars, Made

LEMMA TasksStay ==
    ASSUME IInv, UNCHANGED apiVars, NEW t \in tasks
    PROVE  TaskOK(t)'
<1>1. TaskOK(t)
    BY IInvParts
<1>. QED BY <1>1 DEF TaskOK, apiVars

LEMMA QueueTaskFacts ==
    ASSUME IInv, UNCHANGED apiVars,
           NEW do \in Commands, NEW r \in Requests, NEW id \in {0} \cup Made,
           NEW expires \in BOOLEAN,
           id = 0 <=> do = "request", do = "request" => r.from = User,
           QueueTask(do, r, id, expires)
    PROVE  \A t \in tasks' : TaskOK(t)'
<1>. DEFINE new == [do |-> do, of |-> r, id |-> id, expires |-> expires, at |-> "called"]
<1>1. ApiTypeOK
    BY IInvParts
<1>2. id \in 0..MaxReleases /\ id <= Len(requests)
    BY <1>1, MadeFacts, BoundsAssumption DEF Made
<1>3. new \in Task
    BY <1>2 DEF Task
<1>4. TaskOK(new)'
    BY <1>2, <1>3 DEF TaskOK, apiVars
<1>5. tasks' = tasks \cup {new}
    BY DEF QueueTask
<1>. QED BY <1>4, <1>5, TasksStay
-------------------------------------------------------------------------------
(* Every action keeps the invariant.                                          *)

LEMMA IInvInit == Init => IInv
<1>. SUFFICES ASSUME Init PROVE IInv
    OBVIOUS
<1>. USE BoundsAssumption
<1>1. ApiTypeOK
    BY DEF Init, ApiTypeOK, Made
<1>2. HandlerTypeOK
    <2>1. processed \in 0..Len(events) /\ Made = {}
        BY DEF Init, Made
    <2>2. window.kind = "none"
        BY DEF Init, NoWindow
    <2>3. DOMAIN releaseRequests = {}
        BY DEF Init
    <2>. QED BY <2>1, <2>2, <2>3 DEF Init, HandlerTypeOK
<1>3. EventsAreTrue /\ RequestsComeFirst /\ HandlingIsNext
    BY DEF Init, EventsAreTrue, RequestsComeFirst, HandlingIsNext
<1>4. \A t \in tasks : TaskOK(t)
    BY DEF Init
<1>. QED BY <1>1, <1>2, <1>3, <1>4, IInvParts

LEMMA OtherControllerStep == IInv /\ OtherController => IInv'
<1>. SUFFICES ASSUME IInv, OtherController PROVE IInv'
    OBVIOUS
<1>1. ApiTypeOK /\ EventsAreTrue /\ RequestsComeFirst
    BY IInvParts
<1>2. ApiActs
    BY <1>1, MadeFacts DEF OtherController, ApiActs
<1>3. ApiTypeOK' /\ EventsAreTrue' /\ RequestsComeFirst' /\ LogGrows
    BY <1>1, <1>2, ApiStep
<1>4. HandlerTypeOK' /\ HandlingIsNext'
    BY <1>3, HandlerStaysOK DEF OtherController
<1>5. \A t \in tasks' : TaskOK(t)'
    BY <1>3, TaskStaysOK DEF OtherController
<1>. QED BY <1>3, <1>4, <1>5, IInvNext

\* A step of the EuroScope thread, or the end of a task, changes neither the API
\* nor the log.
LEMMA LocalStep ==
    ASSUME IInv, UNCHANGED apiVars, HandlerTypeOK', HandlingIsNext',
           \A t \in tasks' : TaskOK(t)'
    PROVE  IInv'
<1>1. ApiTypeOK' /\ EventsAreTrue' /\ RequestsComeFirst'
    BY IInvParts, ApiStays
<1>. QED BY <1>1, IInvNext

LEMMA ProcessPushEventStep == IInv /\ ProcessPushEvent => IInv'
<1>. SUFFICES ASSUME IInv, ProcessPushEvent PROVE IInv'
    OBVIOUS
<1>0. ApiTypeOK /\ HandlerTypeOK /\ HandlingIsNext
    BY IInvParts
<1>1. UNCHANGED apiVars /\ UNCHANGED userVars /\ lapsed' = lapsed /\ Made' = Made
    BY DEF ProcessPushEvent, ProcessDepartureReleaseRequestedMessage, ValidateDecisionMessage,
           ProcessDecisionMessage, ProcessRequestCancelledMessage, apiVars, Made
<1>2. \A t \in tasks' : TaskOK(t)'
    BY <1>1, TasksStay DEF userVars
<1>3. Len(events) \in Nat /\ processed \in Nat /\ processed <= Len(events)
    BY <1>0, MadeFacts DEF HandlerTypeOK
<1>4. processed < Len(events) => NextEvent \in Event /\ NextEvent.id \in Made
    BY <1>0, <1>3, MadeFacts DEF NextEvent, ApiTypeOK
<1>5. CASE ProcessDepartureReleaseRequestedMessage
    <2>. DEFINE id == NextEvent.id
                c  == Add(releaseRequests, id)
    <2>1. /\ processed < Len(events) /\ processed' = processed + 1
          /\ handling' = Nothing /\ crashed' = crashed
          /\ releaseRequests' = RemoveOthers(c, id)
        BY <1>5 DEF ProcessDepartureReleaseRequestedMessage, EuroScopeIdle
    <2>2. /\ DOMAIN releaseRequests' \subseteq DOMAIN releaseRequests \cup {id}
          /\ \A i \in DOMAIN releaseRequests' : releaseRequests'[i] = c[i]
        <3>1. DOMAIN c = DOMAIN releaseRequests \cup {id}
            BY AddFacts
        <3>2. /\ DOMAIN RemoveOthers(c, id) \subseteq DOMAIN c
              /\ \A i \in DOMAIN RemoveOthers(c, id) : RemoveOthers(c, id)[i] = c[i]
            BY RemoveOthersFacts, ZenonT(40)
        <3>. QED BY <2>1, <3>1, <3>2
    <2>3. \A i \in DOMAIN releaseRequests' : releaseRequests'[i] \subseteq Marks
        <3>1. /\ \A i \in DOMAIN releaseRequests : c[i] \subseteq Marks
              /\ id \notin DOMAIN releaseRequests => c[id] \subseteq Marks
            <4>1. /\ \A i \in DOMAIN releaseRequests : c[i] = releaseRequests[i]
                  /\ id \notin DOMAIN releaseRequests => c[id] = {}
                BY AddFacts
            <4>2. \A i \in DOMAIN releaseRequests : releaseRequests[i] \subseteq Marks
                BY <1>0 DEF HandlerTypeOK
            <4>. HIDE DEF c
            <4>. QED BY <4>1, <4>2
        <3>. QED BY <2>2, <3>1
    <2>4. HandlerTypeOK'
        BY <1>0, <1>1, <1>3, <1>4, <2>1, <2>2, <2>3 DEF HandlerTypeOK, apiVars, userVars
    <2>5. HandlingIsNext'
        BY <2>1 DEF HandlingIsNext
    <2>. QED BY <1>1, <1>2, <2>4, <2>5, LocalStep
<1>6. CASE ValidateDecisionMessage
    <2>1. /\ processed < Len(events) /\ NextEvent.type \in Decisions
          /\ \/ handling' = NextEvent /\ processed' = processed
             \/ handling' = Nothing /\ processed' = processed + 1
          /\ releaseRequests' = releaseRequests /\ crashed' = crashed
        BY <1>6 DEF ValidateDecisionMessage, EuroScopeIdle
    <2>2. HandlerTypeOK'
        BY <1>0, <1>1, <1>3, <1>4, <2>1 DEF HandlerTypeOK, apiVars, userVars
    <2>3. HandlingIsNext'
        BY <1>1, <2>1 DEF HandlingIsNext, NextEvent, apiVars
    <2>. QED BY <1>1, <1>2, <2>2, <2>3, LocalStep
<1>7. CASE ProcessDecisionMessage
    <2>1. /\ handling # Nothing /\ processed < Len(events)
          /\ handling = NextEvent /\ handling.type \in Decisions
        BY <1>0, <1>7 DEF ProcessDecisionMessage, HandlingIsNext
    <2>2. CASE Known(handling.id)
        <3>. DEFINE marks == Decide(releaseRequests[handling.id], handling.type, handling.expires)
        <3>1. /\ releaseRequests' = Change(releaseRequests, handling.id, marks)
              /\ processed' = processed + 1 /\ handling' = Nothing /\ crashed' = crashed
            BY <1>7, <2>2 DEF ProcessDecisionMessage
        <3>2. releaseRequests[handling.id] \subseteq Marks /\ handling.expires \in BOOLEAN
            BY <1>0, <1>4, <2>1, <2>2 DEF HandlerTypeOK, Known, Event
        <3>3. marks \subseteq Marks
            BY <2>1, <3>2, DecideFacts
        <3>4. /\ DOMAIN releaseRequests' = DOMAIN releaseRequests
              /\ \A i \in DOMAIN releaseRequests' : releaseRequests'[i] \subseteq Marks
            BY <1>0, <3>1, <3>3, ChangeFacts DEF HandlerTypeOK
        <3>5. HandlerTypeOK'
            BY <1>0, <1>1, <1>3, <2>1, <3>1, <3>4 DEF HandlerTypeOK, apiVars, userVars
        <3>6. HandlingIsNext'
            BY <3>1 DEF HandlingIsNext
        <3>. QED BY <1>1, <1>2, <3>5, <3>6, LocalStep
    <2>3. CASE ~Known(handling.id)
        <3>1. UNCHANGED <<releaseRequests, processed, handling>> /\ crashed' = TRUE
            BY <1>7, <2>3 DEF ProcessDecisionMessage
        <3>2. HandlerTypeOK' /\ HandlingIsNext'
            BY <1>0, <1>1, <3>1 DEF HandlerTypeOK, HandlingIsNext, NextEvent, apiVars, userVars
        <3>. QED BY <1>1, <1>2, <3>2, LocalStep
    <2>. QED BY <2>2, <2>3
<1>8. CASE ProcessRequestCancelledMessage
    <2>1. /\ processed < Len(events) /\ processed' = processed + 1
          /\ handling' = Nothing /\ crashed' = crashed
          /\ releaseRequests' = RemoveByKey(releaseRequests, NextEvent.id)
        BY <1>8 DEF ProcessRequestCancelledMessage, EuroScopeIdle
    <2>2. /\ DOMAIN releaseRequests' \subseteq DOMAIN releaseRequests
          /\ \A i \in DOMAIN releaseRequests' : releaseRequests'[i] = releaseRequests[i]
        BY <2>1, RestrictFacts DEF RemoveByKey
    <2>3. \A i \in DOMAIN releaseRequests' : releaseRequests'[i] \subseteq Marks
        BY <1>0, <2>2 DEF HandlerTypeOK
    <2>4. HandlerTypeOK'
        BY <1>0, <1>1, <1>3, <2>1, <2>2, <2>3 DEF HandlerTypeOK, apiVars, userVars
    <2>5. HandlingIsNext'
        BY <2>1 DEF HandlingIsNext
    <2>. QED BY <1>1, <1>2, <2>4, <2>5, LocalStep
<1>. QED BY <1>5, <1>6, <1>7, <1>8 DEF ProcessPushEvent

\* The timed event and the clock.
LEMMA ClockStep == IInv /\ (TimedEventTrigger \/ TimePasses) => IInv'
<1>. SUFFICES ASSUME IInv, TimedEventTrigger \/ TimePasses PROVE IInv'
    OBVIOUS
<1>0. ApiTypeOK /\ HandlerTypeOK /\ HandlingIsNext
    BY IInvParts
<1>1. UNCHANGED apiVars /\ Made' = Made
      /\ UNCHANGED <<processed, handling, tasks, window, crashed>>
    BY DEF TimedEventTrigger, TimePasses, apiVars, userVars, Made
<1>2. \A t \in tasks' : TaskOK(t)'
    BY <1>1, TasksStay
<1>3. HandlingIsNext'
    BY <1>0, <1>1 DEF HandlingIsNext, NextEvent, apiVars
<1>4. CASE TimedEventTrigger
    <2>. DEFINE over == {id \in DOMAIN releaseRequests :
                            ReleaseShouldBeRemoved(releaseRequests[id])}
    <2>1. /\ releaseRequests' = Restrict(releaseRequests, DOMAIN releaseRequests \ over)
          /\ lapsed' = lapsed \cup over
        BY <1>4 DEF TimedEventTrigger
    <2>2. /\ DOMAIN releaseRequests' = DOMAIN releaseRequests \ over
          /\ \A i \in DOMAIN releaseRequests' : releaseRequests'[i] = releaseRequests[i]
        BY <2>1, RestrictFacts
    <2>3. HandlerTypeOK'
        <3>1. \A i \in DOMAIN releaseRequests' : releaseRequests'[i] \subseteq Marks
            BY <1>0, <2>2 DEF HandlerTypeOK
        <3>2. lapsed' \subseteq Made'
            BY <1>0, <1>1, <2>1 DEF HandlerTypeOK
        <3>. QED BY <1>0, <1>1, <2>2, <3>1, <3>2 DEF HandlerTypeOK, apiVars
    <2>. QED BY <1>1, <1>2, <1>3, <2>3, LocalStep
<1>5. CASE TimePasses
    <2>1. PICK id \in DOMAIN releaseRequests :
             releaseRequests' = [releaseRequests EXCEPT ![id] = @ \cup {Deadline(releaseRequests[id])}]
        BY <1>5 DEF TimePasses
    <2>2. Deadline(releaseRequests[id]) \in Marks
        BY DeadlineIsMark
    <2>3. HandlerTypeOK'
        <3>1. /\ DOMAIN releaseRequests' = DOMAIN releaseRequests
              /\ \A i \in DOMAIN releaseRequests' : releaseRequests'[i] \subseteq Marks
            BY <1>0, <2>1, <2>2 DEF HandlerTypeOK
        <3>2. lapsed' = lapsed
            BY <1>5 DEF TimePasses
        <3>. QED BY <1>0, <1>1, <3>1, <3>2 DEF HandlerTypeOK, apiVars
    <2>. QED BY <1>1, <1>2, <1>3, <2>3, LocalStep
<1>. QED BY <1>4, <1>5

\* The user's commands queue tasks and open windows.
LEMMA UserCommandStep == IInv /\ UserCommand => IInv'
<1>. SUFFICES ASSUME IInv, UserCommand PROVE IInv'
    OBVIOUS
<1>0. ApiTypeOK /\ HandlerTypeOK /\ HandlingIsNext
    BY IInvParts
<1>1. /\ UNCHANGED apiVars /\ Made' = Made
      /\ UNCHANGED <<processed, handling, releaseRequests, crashed, lapsed>>
    BY DEF UserCommand, RequestRelease, ReleaseDecisionMade, ApproveOrRejectRelease,
           SelectReleaseRequestToCancel, RequestCancelled, CloseWindow, apiVars, Made
<1>2. HandlingIsNext'
    BY <1>0, <1>1 DEF HandlingIsNext, NextEvent, apiVars
<1>3. ASSUME window' = window \/ window'.kind \in {"none", "cancel"}
      PROVE  HandlerTypeOK'
    BY <1>0, <1>1, <1>3 DEF HandlerTypeOK, apiVars
<1>4. ASSUME tasks' = tasks PROVE \A t \in tasks' : TaskOK(t)'
    BY <1>1, <1>4, TasksStay
<1>5. \A id \in DOMAIN releaseRequests : id \in Made /\ id # 0 /\ requests[id] \in Requests
    BY <1>0, MadeFacts DEF HandlerTypeOK
<1>6. CASE RequestRelease
    <2>1. PICK r \in Requests : r.from = User /\ QueueTask("request", r, 0, FALSE)
        BY <1>6 DEF RequestRelease
    <2>2. \A t \in tasks' : TaskOK(t)'
        BY <1>1, <2>1, QueueTaskFacts DEF Commands
    <2>3. HandlerTypeOK'
        BY <1>3, <1>6 DEF RequestRelease
    <2>. QED BY <1>1, <1>2, <2>2, <2>3, LocalStep
<1>7. CASE ReleaseDecisionMade
    <2>1. PICK r \in Requests : \E id \in First(AwaitingUser(r.callsign)) :
             \/ /\ \E decision \in {"approved", "rejected"} :
                      window' = [kind |-> "decision", id |-> id, decision |-> decision]
                /\ UNCHANGED tasks
             \/ /\ QueueTask("acknowledged", requests[id], id, FALSE)
                /\ UNCHANGED window
        BY <1>7 DEF ReleaseDecisionMade
    <2>2. PICK id \in First(AwaitingUser(r.callsign)) :
             \/ /\ \E decision \in {"approved", "rejected"} :
                      window' = [kind |-> "decision", id |-> id, decision |-> decision]
                /\ UNCHANGED tasks
             \/ /\ QueueTask("acknowledged", requests[id], id, FALSE)
                /\ UNCHANGED window
        BY <2>1
    <2>3. id \in Made /\ id # 0 /\ requests[id] \in Requests
        BY <1>5 DEF First, AwaitingUser
    <2>4. CASE /\ \E decision \in {"approved", "rejected"} :
                     window' = [kind |-> "decision", id |-> id, decision |-> decision]
               /\ UNCHANGED tasks
        <3>1. window'.kind = "decision" /\ window'.id \in Made' /\ window'.decision \in Decisions
            BY <1>1, <2>3, <2>4 DEF Decisions
        <3>2. HandlerTypeOK'
            BY <1>0, <1>1, <3>1 DEF HandlerTypeOK, apiVars
        <3>. QED BY <1>1, <1>2, <1>4, <2>4, <3>2, LocalStep
    <2>5. CASE QueueTask("acknowledged", requests[id], id, FALSE) /\ UNCHANGED window
        <3>1. \A t \in tasks' : TaskOK(t)'
            BY <1>1, <2>3, <2>5, QueueTaskFacts DEF Commands, Decisions
        <3>. QED BY <1>1, <1>2, <1>3, <2>5, <3>1, LocalStep
    <2>. QED BY <2>2, <2>4, <2>5
<1>8. CASE ApproveOrRejectRelease
    <2>1. window' = NoWindow /\ HandlerTypeOK'
        BY <1>3, <1>8 DEF ApproveOrRejectRelease, NoWindow
    <2>2. CASE Known(window.id)
        <3>1. window.id \in DOMAIN releaseRequests /\ window.decision \in Decisions
            BY <1>0, <1>8, <2>2 DEF ApproveOrRejectRelease, HandlerTypeOK, Known
        <3>2. PICK id \in DOMAIN releaseRequests, decision \in Decisions, expires \in BOOLEAN :
                 QueueTask(decision, requests[id], id, expires)
            BY <1>8, <2>2, <3>1 DEF ApproveOrRejectRelease
        <3>3. decision \in Commands /\ decision # "request"
            BY DEF Commands, Decisions
        <3>4. \A t \in tasks' : TaskOK(t)'
            BY <1>1, <1>5, <3>2, <3>3, QueueTaskFacts
        <3>. QED BY <1>1, <1>2, <2>1, <3>4, LocalStep
    <2>3. CASE ~Known(window.id)
        BY <1>1, <1>2, <1>4, <1>8, <2>1, <2>3, LocalStep DEF ApproveOrRejectRelease
    <2>. QED BY <2>2, <2>3
<1>9. CASE SelectReleaseRequestToCancel
    <2>1. tasks' = tasks /\ window'.kind = "cancel"
        BY <1>9 DEF SelectReleaseRequestToCancel
    <2>. QED BY <1>1, <1>2, <1>3, <1>4, <2>1, LocalStep
<1>10. CASE RequestCancelled
    <2>1. window' = NoWindow /\ HandlerTypeOK'
        BY <1>3, <1>10 DEF RequestCancelled, NoWindow
    <2>2. \/ tasks' = tasks
          \/ \E id \in DOMAIN releaseRequests : QueueTask("cancel", requests[id], id, FALSE)
        BY <1>10 DEF RequestCancelled, First
    <2>3. ASSUME NEW id \in DOMAIN releaseRequests, QueueTask("cancel", requests[id], id, FALSE)
          PROVE  \A t \in tasks' : TaskOK(t)'
        BY <1>1, <1>5, <2>3, QueueTaskFacts DEF Commands
    <2>4. \A t \in tasks' : TaskOK(t)'
        BY <1>4, <2>2, <2>3
    <2>. QED BY <1>1, <1>2, <2>1, <2>4, LocalStep
<1>11. CASE CloseWindow
    BY <1>1, <1>2, <1>3, <1>4, <1>11, LocalStep DEF CloseWindow, NoWindow
<1>. QED BY <1>6, <1>7, <1>8, <1>9, <1>10, <1>11 DEF UserCommand

LEMMA PerformActs ==
    ASSUME IInv, NEW t \in tasks, Perform(t)
    PROVE  ApiActs
<1>1. TaskOK(t) /\ ApiTypeOK
    BY IInvParts
<1>2. t.id # 0 => t.id \in Ids
    BY <1>1, MadeFacts DEF TaskOK, Task, Ids
<1>3. CASE t.do = "request"
    BY <1>1, <1>3 DEF Perform, ApiActs, TaskOK, Task, Decisions
<1>4. CASE t.do = "cancel"
    BY <1>1, <1>2, <1>4 DEF Perform, ApiActs, TaskOK, Decisions
<1>5. CASE t.do \in Decisions
    <2>1. t.do # "request" /\ t.do # "cancel"
        BY <1>5 DEF Decisions
    <2>2. ApiDecide(t.id, t.do, t.expires) /\ t.id \in Ids /\ t.expires \in BOOLEAN
        BY <1>1, <1>2, <1>5, <2>1 DEF Perform, TaskOK, Task
    <2>. QED BY <1>5, <2>2 DEF ApiActs
<1>. QED BY <1>1, <1>3, <1>4, <1>5 DEF TaskOK, Task, Commands

\* The tasks: the call of the API, its failure, a lost answer, and what is done
\* with the answer.
LEMMA RunTaskStep == IInv /\ RunTask => IInv'
<1>. SUFFICES ASSUME IInv, NEW t \in tasks,
                     CallApi(t) \/ AnswerLost(t) \/ ApiException(t) \/ ApplyAnswer(t)
              PROVE  IInv'
    BY DEF RunTask
<1>0. /\ ApiTypeOK /\ EventsAreTrue /\ RequestsComeFirst
      /\ HandlerTypeOK /\ HandlingIsNext /\ TaskOK(t)
    BY IInvParts
<1>1. CASE CallApi(t)
    <2>1. ApiActs
        BY <1>1, PerformActs DEF CallApi
    <2>2. ApiTypeOK' /\ EventsAreTrue' /\ RequestsComeFirst' /\ LogGrows
        BY <1>0, <2>1, ApiStep
    <2>3. HandlerTypeOK' /\ HandlingIsNext'
        BY <1>1, <2>2, HandlerStaysOK DEF CallApi
    <2>a. PICK id : id = IF t.do = "request" THEN Len(requests') ELSE t.id
        OBVIOUS
    <2>b. PICK new : new = [t EXCEPT !.at = "answered", !.id = id]
        OBVIOUS
    <2>4. TaskOK(new)'
        <3>1. /\ Len(requests) \in Nat /\ Len(requests') \in Nat
              /\ Len(requests') <= MaxReleases /\ Len(requests) <= Len(requests')
            BY <1>0, <2>2, MadeFacts DEF ApiTypeOK, LogGrows
        <3>2. t \in Task /\ t.at = "called" /\ t.id <= Len(requests)
            BY <1>0, <1>1 DEF TaskOK, CallApi
        <3>3. id \in 0..MaxReleases
            BY <2>a, <3>1, <3>2, BoundsAssumption DEF Task
        <3>4. /\ new \in Task
              /\ new.do = t.do /\ new.of = t.of /\ new.id = id /\ new.at = "answered"
            BY <2>b, <3>2, <3>3 DEF Task
        <3>5. CASE t.do = "request"
            <4>1. ApiRequest(t.of) /\ t.of \in Requests /\ t.of.from = User
                BY <1>0, <1>1, <3>2, <3>5 DEF CallApi, Perform, Decisions, TaskOK, Task
            <4>2. id = Len(requests) + 1 /\ id = Len(requests') /\ requests'[id] = t.of
                BY <1>0, <2>a, <3>5, <4>1 DEF ApiRequest, ApiTypeOK
            <4>. QED BY <3>1, <3>4, <3>5, <4>1, <4>2 DEF TaskOK, Decisions
        <3>6. CASE t.do # "request"
            <4>1. id = t.id /\ t.id # 0 /\ t.id <= Len(requests') /\ t.id \in Ids
                BY <1>0, <2>a, <3>1, <3>2, <3>6, MadeFacts DEF TaskOK, Task, Ids
            <4>2. ASSUME t.do = "cancel" PROVE t.id \in withdrawn'
                <5>1. ApiCancel(t.id)
                    BY <1>1, <4>2 DEF CallApi, Perform, Decisions
                <5>. QED BY <5>1 DEF ApiCancel
            <4>3. ASSUME t.do \in Decisions PROVE t.do \in decisions'[t.id]
                <5>1. ApiDecide(t.id, t.do, t.expires)
                    BY <1>1, <4>3 DEF CallApi, Perform, Decisions
                <5>. QED BY <1>0, <4>1, <5>1 DEF ApiDecide, ApiTypeOK
            <4>. QED BY <3>4, <3>6, <4>1, <4>2, <4>3 DEF TaskOK
        <3>. QED BY <3>5, <3>6
    <2>5. tasks' = (tasks \ {t}) \cup {new}
        BY <1>1, <2>a, <2>b DEF CallApi
    <2>6. \A u \in tasks : TaskOK(u)'
        BY <2>2, TaskStaysOK
    <2>7. \A u \in tasks' : TaskOK(u)'
        BY <2>4, <2>5, <2>6
    <2>. QED BY <2>2, <2>3, <2>7, IInvNext
<1>2. CASE ApiException(t)
    <2>1. /\ UNCHANGED apiVars /\ Made' = Made /\ tasks' = tasks \ {t}
          /\ UNCHANGED <<processed, handling, releaseRequests, window, crashed, lapsed>>
        BY <1>2 DEF ApiException, apiVars, Made
    <2>2. HandlerTypeOK' /\ HandlingIsNext'
        BY <1>0, <2>1 DEF HandlerTypeOK, HandlingIsNext, NextEvent, apiVars
    <2>3. \A u \in tasks' : TaskOK(u)'
        BY <2>1, TasksStay
    <2>. QED BY <2>1, <2>2, <2>3, LocalStep
<1>3. CASE ApplyAnswer(t)
    <2>1. /\ UNCHANGED apiVars /\ Made' = Made /\ tasks' = tasks \ {t} /\ t.at = "answered"
          /\ UNCHANGED <<processed, handling, window, crashed, lapsed>>
        BY <1>3 DEF ApplyAnswer, apiVars, Made
    <2>2. t.id \in Made /\ t.do \in Commands /\ t.expires \in BOOLEAN
        BY <1>0, <2>1, MadeFacts DEF TaskOK, Task, Made
    <2>3. /\ DOMAIN releaseRequests' \subseteq Made'
          /\ \A i \in DOMAIN releaseRequests' : releaseRequests'[i] \subseteq Marks
        <3>0. \A i \in DOMAIN releaseRequests : i \in Made /\ releaseRequests[i] \subseteq Marks
            BY <1>0 DEF HandlerTypeOK
        <3>1. CASE t.do = "request"
            <4>1. releaseRequests' = Add(releaseRequests, t.id)
                BY <1>3, <3>1 DEF ApplyAnswer, Decisions
            <4>. DEFINE c == Add(releaseRequests, t.id)
            <4>2. /\ DOMAIN c = DOMAIN releaseRequests \cup {t.id}
                  /\ \A i \in DOMAIN releaseRequests : c[i] = releaseRequests[i]
                  /\ t.id \notin DOMAIN releaseRequests => c[t.id] = {}
                BY AddFacts
            <4>. HIDE DEF c
            <4>. QED BY <2>1, <2>2, <3>0, <4>1, <4>2 DEF c
        <3>2. CASE t.do = "cancel"
            <4>1. releaseRequests' = RemoveByKey(releaseRequests, t.id)
                BY <1>3, <3>2 DEF ApplyAnswer, Decisions
            <4>. QED BY <2>1, <3>0, <4>1, RestrictFacts DEF RemoveByKey
        <3>3. CASE t.do \in Decisions /\ Known(t.id)
            <4>. DEFINE marks == Decide(releaseRequests[t.id], t.do, t.expires)
            <4>1. releaseRequests' = Change(releaseRequests, t.id, marks)
                BY <1>3, <3>3 DEF ApplyAnswer, Decisions
            <4>2. marks \subseteq Marks
                BY <2>2, <3>0, <3>3, DecideFacts DEF Known
            <4>. QED BY <2>1, <3>0, <4>1, <4>2, ChangeFacts
        <3>4. CASE t.do \in Decisions /\ ~Known(t.id)
            <4>1. releaseRequests' = releaseRequests
                BY <1>3, <3>4 DEF ApplyAnswer, Decisions
            <4>. QED BY <2>1, <3>0, <4>1
        <3>. QED BY <2>2, <3>1, <3>2, <3>3, <3>4 DEF Commands
    <2>4. HandlerTypeOK' /\ HandlingIsNext'
        BY <1>0, <2>1, <2>3 DEF HandlerTypeOK, HandlingIsNext, NextEvent, apiVars
    <2>5. \A u \in tasks' : TaskOK(u)'
        BY <2>1, TasksStay
    <2>. QED BY <2>1, <2>4, <2>5, LocalStep
<1>4. CASE AnswerLost(t)
    <2>1. ApiActs
        BY <1>4, PerformActs DEF AnswerLost
    <2>2. ApiTypeOK' /\ EventsAreTrue' /\ RequestsComeFirst' /\ LogGrows
        BY <1>0, <2>1, ApiStep
    <2>3. HandlerTypeOK' /\ HandlingIsNext'
        BY <1>4, <2>2, HandlerStaysOK DEF AnswerLost
    <2>4. tasks' = tasks \ {t} /\ \A u \in tasks : TaskOK(u)'
        BY <1>4, <2>2, TaskStaysOK DEF AnswerLost
    <2>. QED BY <2>2, <2>3, <2>4, IInvNext
<1>. QED BY <1>1, <1>2, <1>3, <1>4

LEMMA StutterStep == IInv /\ UNCHANGED vars => IInv'
<1>. SUFFICES ASSUME IInv, UNCHANGED vars PROVE IInv'
    OBVIOUS
<1>1. UNCHANGED apiVars /\ Made' = Made /\ tasks' = tasks
    BY DEF vars, apiVars, Made
<1>2. HandlerTypeOK' /\ HandlingIsNext'
    BY <1>1, IInvParts DEF vars, HandlerTypeOK, HandlingIsNext, NextEvent
<1>. QED BY <1>1, <1>2, TasksStay, LocalStep

LEMMA IInvariant == Spec => []IInv
<1>1. IInv /\ [Next]_vars => IInv'
    BY OtherControllerStep, ProcessPushEventStep, ClockStep, UserCommandStep, RunTaskStep,
       StutterStep DEF Next
<1>. QED BY <1>1, IInvInit, PTL DEF Spec

\* Every variable keeps its type: among other things, whatever refers to a request
\* (an event, a task, an open dialog, the collection) refers to one the API made.
THEOREM TypeCorrect == Spec => []TypeOK
<1>1. IInv => TypeOK
    BY DEF IInv
<1>. QED BY <1>1, IInvariant, PTL
-------------------------------------------------------------------------------
(* What a step can do to the collection.                                      *)

CollectionActs ==
    \/ ProcessDepartureReleaseRequestedMessage
    \/ ProcessDecisionMessage
    \/ ProcessRequestCancelledMessage
    \/ TimedEventTrigger
    \/ TimePasses
    \/ \E t \in tasks : ApplyAnswer(t)

LEMMA StepCases ==
    ASSUME IInv, [Next]_vars
    PROVE  \/ ApiActs /\ LogGrows /\ UNCHANGED <<processed, releaseRequests>>
           \/ /\ UNCHANGED <<apiVars, releaseRequests>>
              /\ \/ processed' = processed
                 \/ ValidateDecisionMessage
           \/ CollectionActs /\ UNCHANGED apiVars
<1>0. ApiTypeOK /\ EventsAreTrue /\ RequestsComeFirst
    BY IInvParts
<1>1. CASE OtherController
    <2>1. ApiActs
        BY <1>0, <1>1, MadeFacts DEF OtherController, ApiActs
    <2>. QED BY <1>0, <1>1, <2>1, ApiStep DEF OtherController
<1>2. CASE ProcessPushEvent
    BY <1>2 DEF ProcessPushEvent, CollectionActs, ProcessDepartureReleaseRequestedMessage,
                ValidateDecisionMessage, ProcessDecisionMessage, ProcessRequestCancelledMessage
<1>3. CASE TimedEventTrigger \/ TimePasses
    BY <1>3 DEF CollectionActs, TimedEventTrigger, TimePasses
<1>4. CASE UserCommand
    BY <1>4 DEF UserCommand, RequestRelease, ReleaseDecisionMade, ApproveOrRejectRelease,
                SelectReleaseRequestToCancel, RequestCancelled, CloseWindow
<1>5. ASSUME NEW t \in tasks, CallApi(t) \/ AnswerLost(t)
      PROVE  ApiActs /\ LogGrows /\ UNCHANGED <<processed, releaseRequests>>
    BY <1>0, <1>5, PerformActs, ApiStep DEF CallApi, AnswerLost
<1>6. ASSUME NEW t \in tasks, ApiException(t)
      PROVE  UNCHANGED <<apiVars, releaseRequests, processed>>
    BY <1>6 DEF ApiException
<1>7. ASSUME NEW t \in tasks, ApplyAnswer(t) PROVE CollectionActs /\ UNCHANGED apiVars
    BY <1>7 DEF CollectionActs, ApplyAnswer
<1>8. CASE UNCHANGED vars
    BY <1>8 DEF vars, apiVars
<1>. QED BY <1>1, <1>2, <1>3, <1>4, <1>5, <1>6, <1>7, <1>8 DEF Next, RunTask

-------------------------------------------------------------------------------
(* No phantom decisions.                                                      *)

\* Each action leaves a request with the decisions it had, or adds one the API
\* holds; a request it adds carries none.
NoNewPhantom ==
    \A id \in DOMAIN releaseRequests' :
       releaseRequests'[id] \cap Decisions
          \subseteq (IF Known(id) THEN releaseRequests[id] \cap Decisions ELSE {})
                        \cup decisions[id]

LEMMA DecisionIsNoPhantom ==
    ASSUME IInv, NEW id \in DOMAIN releaseRequests, NEW decision \in Decisions,
           NEW expires \in BOOLEAN, decision \in decisions[id],
           releaseRequests' = Change(releaseRequests, id,
                                     Decide(releaseRequests[id], decision, expires))
    PROVE  NoNewPhantom
<1>. DEFINE marks == Decide(releaseRequests[id], decision, expires)
<1>1. releaseRequests[id] \in SUBSET Marks
    BY IInvParts DEF HandlerTypeOK
<1>2. marks \cap Decisions = (releaseRequests[id] \cap Decisions) \cup {decision}
    BY <1>1, DecideFacts
<1>3. /\ DOMAIN releaseRequests' = DOMAIN releaseRequests
      /\ \A i \in DOMAIN releaseRequests :
            releaseRequests'[i] = IF i = id THEN marks ELSE releaseRequests[i]
    BY ChangeFacts
<1>. HIDE DEF marks
<1>. QED BY <1>2, <1>3 DEF NoNewPhantom, Known

LEMMA FewerIsNoPhantom ==
    ASSUME DOMAIN releaseRequests' \subseteq DOMAIN releaseRequests,
           \A i \in DOMAIN releaseRequests' : releaseRequests'[i] = releaseRequests[i]
    PROVE  NoNewPhantom
BY DEF NoNewPhantom, Known

LEMMA NoNewPhantomStep ==
    ASSUME IInv, CollectionActs
    PROVE  NoNewPhantom
<1>0. /\ ApiTypeOK /\ EventsAreTrue /\ HandlerTypeOK /\ HandlingIsNext
      /\ \A t \in tasks : TaskOK(t)
    BY IInvParts
<1>1. CASE ProcessDepartureReleaseRequestedMessage
    <2>1. PICK id : id = NextEvent.id
        OBVIOUS
    <2>2. PICK c : c = Add(releaseRequests, id)
        OBVIOUS
    <2>3. /\ DOMAIN c = DOMAIN releaseRequests \cup {id}
          /\ \A i \in DOMAIN releaseRequests : c[i] = releaseRequests[i]
          /\ id \notin DOMAIN releaseRequests => c[id] = {}
        BY <2>2 DEF Add
    <2>4. releaseRequests' = RemoveOthers(c, id)
        BY <1>1, <2>1, <2>2 DEF ProcessDepartureReleaseRequestedMessage
    <2>5. /\ DOMAIN releaseRequests' \subseteq DOMAIN c
          /\ \A i \in DOMAIN releaseRequests' : releaseRequests'[i] = c[i]
        BY <2>4, RemoveOthersFacts
    <2>. QED BY <2>3, <2>5 DEF NoNewPhantom, Known
<1>2. CASE ProcessDecisionMessage
    <2>1. /\ handling # Nothing /\ processed < Len(events)
          /\ handling = NextEvent /\ handling.type \in Decisions
        BY <1>0, <1>2 DEF ProcessDecisionMessage, HandlingIsNext
    <2>2. processed + 1 \in 1..Len(events)
        BY <1>0, <2>1, MadeFacts DEF HandlerTypeOK
    <2>3. NextEvent \in Event /\ NextEvent.type \in decisions[NextEvent.id]
        BY <1>0, <2>1, <2>2, MadeFacts DEF NextEvent, EventsAreTrue
    <2>4. CASE Known(handling.id)
        <3>1. PICK id \in DOMAIN releaseRequests, decision \in Decisions, expires \in BOOLEAN :
                 /\ decision \in decisions[id]
                 /\ releaseRequests' = Change(releaseRequests, id,
                                              Decide(releaseRequests[id], decision, expires))
            <4>1. /\ handling.id \in DOMAIN releaseRequests /\ handling.type \in Decisions
                  /\ handling.expires \in BOOLEAN /\ handling.type \in decisions[handling.id]
                BY <2>1, <2>3, <2>4 DEF Known, Event
            <4>2. releaseRequests' = Change(releaseRequests, handling.id,
                      Decide(releaseRequests[handling.id], handling.type, handling.expires))
                BY <1>2, <2>4 DEF ProcessDecisionMessage
            <4>. QED BY <4>1, <4>2
        <3>. QED BY <3>1, DecisionIsNoPhantom
    <2>5. CASE ~Known(handling.id)
        BY <1>2, <2>5, FewerIsNoPhantom DEF ProcessDecisionMessage
    <2>. QED BY <2>4, <2>5
<1>3. CASE ProcessRequestCancelledMessage
    BY <1>3, RestrictFacts, FewerIsNoPhantom DEF ProcessRequestCancelledMessage, RemoveByKey
<1>4. CASE TimedEventTrigger
    BY <1>4, RestrictFacts, FewerIsNoPhantom DEF TimedEventTrigger
<1>5. CASE TimePasses
    <2>1. PICK id \in DOMAIN releaseRequests :
             releaseRequests' = [releaseRequests EXCEPT ![id] = @ \cup {Deadline(releaseRequests[id])}]
        BY <1>5 DEF TimePasses
    <2>2. Deadline(releaseRequests[id]) \notin Decisions
        BY DEF Deadline, Decisions
    <2>. QED BY <2>1, <2>2 DEF NoNewPhantom, Known
<1>6. ASSUME NEW t \in tasks, ApplyAnswer(t) PROVE NoNewPhantom
    <2>1. t.at = "answered" /\ TaskOK(t)
        BY <1>0, <1>6 DEF ApplyAnswer
    <2>2. CASE t.do = "request"
        <3>1. releaseRequests' = Add(releaseRequests, t.id)
            BY <1>6, <2>2 DEF ApplyAnswer, Decisions
        <3>2. /\ DOMAIN releaseRequests' = DOMAIN releaseRequests \cup {t.id}
              /\ \A i \in DOMAIN releaseRequests : releaseRequests'[i] = releaseRequests[i]
              /\ t.id \notin DOMAIN releaseRequests => releaseRequests'[t.id] = {}
            BY <3>1 DEF Add
        <3>. QED BY <3>2 DEF NoNewPhantom, Known
    <2>3. CASE t.do = "cancel"
        <3>1. releaseRequests' = RemoveByKey(releaseRequests, t.id)
            BY <1>6, <2>3 DEF ApplyAnswer, Decisions
        <3>. QED BY <3>1, RestrictFacts, FewerIsNoPhantom DEF RemoveByKey
    <2>4. CASE t.do \in Decisions /\ Known(t.id)
        <3>1. PICK id \in DOMAIN releaseRequests, decision \in Decisions, expires \in BOOLEAN :
                 /\ decision \in decisions[id]
                 /\ releaseRequests' = Change(releaseRequests, id,
                                              Decide(releaseRequests[id], decision, expires))
            <4>1. /\ t.id \in DOMAIN releaseRequests /\ t.expires \in BOOLEAN
                  /\ t.do \in decisions[t.id]
                BY <2>1, <2>4 DEF Known, TaskOK, Task
            <4>2. releaseRequests' = Change(releaseRequests, t.id,
                      Decide(releaseRequests[t.id], t.do, t.expires))
                BY <1>6, <2>4 DEF ApplyAnswer, Decisions
            <4>. QED BY <2>4, <4>1, <4>2
        <3>. QED BY <3>1, DecisionIsNoPhantom
    <2>5. CASE t.do \in Decisions /\ ~Known(t.id)
        BY <1>6, <2>5, FewerIsNoPhantom DEF ApplyAnswer, Decisions
    <2>. QED BY <2>1, <2>2, <2>3, <2>4, <2>5 DEF TaskOK, Task, Commands
<1>. QED BY <1>1, <1>2, <1>3, <1>4, <1>5, <1>6 DEF CollectionActs

\* The display of one controller never shows a decision that the API does not
\* hold for that very request.
THEOREM NoPhantoms == Spec => []NoPhantomDecision
<1>1. Init => NoPhantomDecision
    BY DEF Init, NoPhantomDecision
<1>2. IInv /\ NoPhantomDecision /\ [Next]_vars => NoPhantomDecision'
    <2>. SUFFICES ASSUME IInv, NoPhantomDecision, [Next]_vars PROVE NoPhantomDecision'
        OBVIOUS
    <2>1. CASE LogGrows /\ UNCHANGED <<processed, releaseRequests>>
        <3>1. \A id \in DOMAIN releaseRequests : id \in Ids
            BY IInvParts, MadeFacts DEF HandlerTypeOK
        <3>. QED BY <2>1, <3>1 DEF LogGrows, NoPhantomDecision
    <2>2. CASE UNCHANGED <<apiVars, releaseRequests>>
        BY <2>2 DEF apiVars, NoPhantomDecision
    <2>3. CASE CollectionActs /\ UNCHANGED apiVars
        BY <2>3, NoNewPhantomStep DEF NoNewPhantom, NoPhantomDecision, apiVars, Known
    <2>. QED BY <2>1, <2>2, <2>3, StepCases
<1>. QED BY <1>1, <1>2, IInvariant, PTL DEF Spec
-------------------------------------------------------------------------------
(* Removals.                                                                  *)

\* Pushed events, answers and the timed event take a request off the display only
\* for a reason: it is withdrawn, overtaken by another of its pair, or over.
THEOREM RemovalsAreJustified == Spec => RemovalJustified
<1>. DEFINE Justified ==
        \A id \in DOMAIN releaseRequests \ DOMAIN releaseRequests' :
           \/ id \in withdrawn
           \/ \E other \in DOMAIN releaseRequests' : other # id /\ SamePair(other, id)
           \/ ReleaseShouldBeRemoved(releaseRequests[id])
<1>1. ASSUME IInv, CollectionActs PROVE Justified
    <2>0. /\ ApiTypeOK /\ EventsAreTrue /\ HandlerTypeOK
          /\ \A t \in tasks : TaskOK(t)
        BY <1>1, IInvParts
    <2>1. CASE ProcessDepartureReleaseRequestedMessage
        <3>1. PICK id : id = NextEvent.id
            OBVIOUS
        <3>2. PICK c : c = Add(releaseRequests, id)
            OBVIOUS
        <3>3. DOMAIN c = DOMAIN releaseRequests \cup {id}
            BY <3>2 DEF Add
        <3>4. releaseRequests' = RemoveOthers(c, id)
            BY <2>1, <3>1, <3>2 DEF ProcessDepartureReleaseRequestedMessage
        <3>5. DOMAIN releaseRequests' = {i \in DOMAIN c : i = id \/ ~SamePair(i, id)}
            BY <3>4, RemoveOthersFacts
        <3>6. \A i \in DOMAIN releaseRequests \ DOMAIN releaseRequests' :
                 id \in DOMAIN releaseRequests' /\ id # i /\ SamePair(id, i)
            BY <3>3, <3>5, SamePairSymmetric
        <3>. QED BY <3>6
    <2>2. CASE ProcessDecisionMessage \/ TimePasses
        <3>1. DOMAIN releaseRequests' = DOMAIN releaseRequests
            BY <2>2, ChangeFacts DEF ProcessDecisionMessage, TimePasses
        <3>. QED BY <3>1
    <2>3. CASE ProcessRequestCancelledMessage
        <3>1. DOMAIN releaseRequests' = DOMAIN releaseRequests \ {NextEvent.id}
            BY <2>3, RestrictFacts DEF ProcessRequestCancelledMessage, RemoveByKey
        <3>2. processed + 1 \in 1..Len(events) /\ NextEvent.type = "cancelled"
            BY <2>0, <2>3, MadeFacts DEF ProcessRequestCancelledMessage, HandlerTypeOK
        <3>3. NextEvent.id \in withdrawn
            BY <2>0, <3>2 DEF EventsAreTrue, NextEvent
        <3>. QED BY <3>1, <3>3
    <2>4. CASE TimedEventTrigger
        <3>1. DOMAIN releaseRequests' = DOMAIN releaseRequests \
                 {id \in DOMAIN releaseRequests : ReleaseShouldBeRemoved(releaseRequests[id])}
            BY <2>4, RestrictFacts DEF TimedEventTrigger
        <3>. QED BY <3>1
    <2>5. ASSUME NEW t \in tasks, ApplyAnswer(t) PROVE Justified
        <3>1. t.at = "answered" /\ TaskOK(t)
            BY <2>0, <2>5 DEF ApplyAnswer
        <3>2. CASE t.do = "cancel"
            <4>1. DOMAIN releaseRequests' = DOMAIN releaseRequests \ {t.id}
                BY <2>5, <3>2, RestrictFacts DEF ApplyAnswer, Decisions, RemoveByKey
            <4>2. t.id \in withdrawn
                BY <3>1, <3>2 DEF TaskOK
            <4>. QED BY <4>1, <4>2
        <3>3. CASE t.do = "request"
            <4>1. releaseRequests' = Add(releaseRequests, t.id)
                BY <2>5, <3>3 DEF ApplyAnswer, Decisions
            <4>2. DOMAIN releaseRequests \subseteq DOMAIN releaseRequests'
                BY <4>1 DEF Add
            <4>. QED BY <4>2
        <3>4. CASE t.do \in Decisions
            <4>1. DOMAIN releaseRequests' = DOMAIN releaseRequests
                BY <2>5, <3>4, ChangeFacts DEF ApplyAnswer, Decisions
            <4>. QED BY <4>1
        <3>. QED BY <3>1, <3>2, <3>3, <3>4 DEF TaskOK, Task, Commands
    <2>. QED BY <1>1, <2>1, <2>2, <2>3, <2>4, <2>5 DEF CollectionActs
<1>2. IInv /\ [Next]_vars => [Justified]_vars
    <2>. SUFFICES ASSUME IInv, [Next]_vars PROVE Justified
        OBVIOUS
    <2>1. CASE UNCHANGED releaseRequests
        BY <2>1
    <2>2. CASE CollectionActs
        BY <1>1, <2>2
    <2>. QED BY <2>1, <2>2, StepCases
<1>. QED BY <1>2, IInvariant, PTL DEF Spec, RemovalJustified

-------------------------------------------------------------------------------
(* Ghosts.                                                                    *)

\* A request that was not there before is the user's own, or the event that
\* announces it is being handled.
LEMMA WhoIsAdded ==
    ASSUME IInv, CollectionActs,
           NEW id \in DOMAIN releaseRequests', id \notin DOMAIN releaseRequests
    PROVE  \/ requests[id].from = User
           \/ ProcessDepartureReleaseRequestedMessage /\ id = NextEvent.id
<1>0. HandlerTypeOK /\ \A t \in tasks : TaskOK(t)
    BY IInvParts
<1>1. CASE ProcessDepartureReleaseRequestedMessage
    <2>1. PICK c : c = Add(releaseRequests, NextEvent.id)
        OBVIOUS
    <2>2. DOMAIN c = DOMAIN releaseRequests \cup {NextEvent.id}
        BY <2>1 DEF Add
    <2>3. releaseRequests' = RemoveOthers(c, NextEvent.id)
        BY <1>1, <2>1 DEF ProcessDepartureReleaseRequestedMessage
    <2>4. DOMAIN releaseRequests' \subseteq DOMAIN c
        BY <2>3 DEF RemoveOthers, Restrict
    <2>. QED BY <1>1, <2>2, <2>4
<1>2. CASE \/ ProcessDecisionMessage \/ ProcessRequestCancelledMessage
           \/ TimedEventTrigger \/ TimePasses
    <2>1. DOMAIN releaseRequests' \subseteq DOMAIN releaseRequests
        BY <1>2, ChangeFacts, RestrictFacts
           DEF ProcessDecisionMessage, ProcessRequestCancelledMessage, TimedEventTrigger,
               TimePasses, RemoveByKey
    <2>. QED BY <2>1
<1>3. ASSUME NEW t \in tasks, ApplyAnswer(t) PROVE requests[id].from = User
    <2>1. t.at = "answered" /\ TaskOK(t)
        BY <1>0, <1>3 DEF ApplyAnswer
    <2>2. CASE t.do = "request"
        <3>1. releaseRequests' = Add(releaseRequests, t.id)
            BY <1>3, <2>2 DEF ApplyAnswer, Decisions
        <3>2. id = t.id
            BY <3>1 DEF Add
        <3>. QED BY <2>1, <2>2, <3>2 DEF TaskOK
    <2>3. CASE t.do # "request"
        <3>1. DOMAIN releaseRequests' \subseteq DOMAIN releaseRequests
            BY <1>3, <2>1, <2>3, ChangeFacts, RestrictFacts
               DEF ApplyAnswer, RemoveByKey, TaskOK, Task, Commands, Decisions
        <3>. QED BY <3>1
    <2>. QED BY <2>2, <2>3
<1>. QED BY <1>1, <1>2, <1>3 DEF CollectionActs

\* What one more handled event can overtake.
LEMMA OvertakenStep ==
    ASSUME processed \in Nat, processed' \in {processed, processed + 1},
           UNCHANGED apiVars, NEW id, Overtaken(id)', ~Overtaken(id)
    PROVE  /\ processed' = processed + 1
           /\ \/ NextEvent.type = "cancelled" /\ NextEvent.id = id
              \/ NextEvent.type = "requested" /\ NextEvent.id > id /\ SamePair(NextEvent.id, id)
BY DEF Overtaken, NextEvent, apiVars, SamePair

\* Nothing handled before a request is announced can have overtaken it.
LEMMA AnnouncedIsNotOvertaken ==
    ASSUME IInv, processed < Len(events), NextEvent.type = "requested"
    PROVE  ~Overtaken(NextEvent.id)
<1>0. ApiTypeOK /\ RequestsComeFirst /\ processed \in Nat /\ Len(events) \in Nat
    BY IInvParts, MadeFacts DEF HandlerTypeOK
<1>1. \A n \in 1..processed : events[n].id < NextEvent.id
    BY <1>0 DEF RequestsComeFirst, NextEvent
<1>2. NextEvent.id \in Nat /\ \A n \in 1..processed : events[n].id \in Nat
    BY <1>0, MadeFacts DEF ApiTypeOK, NextEvent
<1>. QED BY <1>1, <1>2 DEF Overtaken

\* A controller's display keeps a request that cancellation or a later request
\* took away only if it is the user's own.
THEOREM GhostsAreUsersOwn == Spec => []GhostsAreOwn
<1>1. Init => GhostsAreOwn
    BY DEF Init, GhostsAreOwn
<1>2. IInv /\ GhostsAreOwn /\ [Next]_vars => GhostsAreOwn'
    <2>. SUFFICES ASSUME IInv, GhostsAreOwn, [Next]_vars,
                         NEW id \in DOMAIN releaseRequests', Overtaken(id)'
                  PROVE  requests'[id].from = User
        BY DEF GhostsAreOwn
    <2>0. /\ ApiTypeOK /\ HandlerTypeOK
          /\ processed \in Nat /\ processed <= Len(events) /\ Len(events) \in Nat
        BY IInvParts, MadeFacts DEF HandlerTypeOK
    <2>1. CASE LogGrows /\ UNCHANGED <<processed, releaseRequests>>
        <3>1. id \in Made /\ id \in DOMAIN releaseRequests
            BY <2>0, <2>1 DEF HandlerTypeOK
        <3>2. \A n \in 1..processed : events'[n] = events[n] /\ events[n].id \in Made
            BY <2>0, <2>1 DEF LogGrows, ApiTypeOK
        <3>3. \A i \in Made : requests'[i] = requests[i]
            BY <2>1 DEF LogGrows
        <3>4. Overtaken(id)
            BY <2>1, <3>1, <3>2, <3>3 DEF Overtaken, SamePair
        <3>. QED BY <3>1, <3>3, <3>4 DEF GhostsAreOwn
    <2>2. CASE UNCHANGED <<apiVars, releaseRequests>> /\ processed' = processed
        BY <2>2 DEF apiVars, Overtaken, SamePair, GhostsAreOwn
    <2>3. CASE UNCHANGED <<apiVars, releaseRequests>> /\ ValidateDecisionMessage
        <3>1. /\ processed' \in {processed, processed + 1}
              /\ NextEvent.type # "cancelled" /\ NextEvent.type # "requested"
            BY <2>3 DEF ValidateDecisionMessage, Decisions
        <3>2. Overtaken(id)
            BY <2>0, <2>3, <3>1, OvertakenStep
        <3>. QED BY <2>3, <3>2 DEF GhostsAreOwn, apiVars
    <2>4. CASE CollectionActs /\ UNCHANGED apiVars
        <3>0. requests' = requests
            BY <2>4 DEF apiVars
        <3>1. processed' \in {processed, processed + 1}
            BY <2>4 DEF CollectionActs, ProcessDepartureReleaseRequestedMessage,
                        ProcessDecisionMessage, ProcessRequestCancelledMessage,
                        TimedEventTrigger, TimePasses, ApplyAnswer
        <3>2. CASE Overtaken(id) /\ id \in DOMAIN releaseRequests
            BY <3>0, <3>2 DEF GhostsAreOwn
        <3>3. CASE Overtaken(id) /\ id \notin DOMAIN releaseRequests
            <4>1. ~(ProcessDepartureReleaseRequestedMessage /\ id = NextEvent.id)
                BY <3>3, AnnouncedIsNotOvertaken DEF ProcessDepartureReleaseRequestedMessage
            <4>. QED BY <2>4, <3>0, <3>3, <4>1, WhoIsAdded
        <3>4. CASE ~Overtaken(id)
            <4>1. /\ processed' = processed + 1
                  /\ \/ NextEvent.type = "cancelled" /\ NextEvent.id = id
                     \/ /\ NextEvent.type = "requested"
                        /\ NextEvent.id > id /\ SamePair(NextEvent.id, id)
                BY <2>0, <2>4, <3>1, <3>4, OvertakenStep
            <4>2. CASE ProcessRequestCancelledMessage
                <5>1. id \notin DOMAIN releaseRequests \/ id # NextEvent.id
                    BY <4>2, RestrictFacts DEF ProcessRequestCancelledMessage, RemoveByKey
                <5>2. id \in DOMAIN releaseRequests /\ id # NextEvent.id
                    BY <4>2, <5>1, RestrictFacts DEF ProcessRequestCancelledMessage, RemoveByKey
                <5>. QED BY <4>1, <4>2, <5>2 DEF ProcessRequestCancelledMessage
            <4>3. CASE ProcessDepartureReleaseRequestedMessage
                <5>1. id = NextEvent.id \/ ~SamePair(id, NextEvent.id)
                    BY <4>3, RemoveOthersFacts DEF ProcessDepartureReleaseRequestedMessage
                <5>2. NextEvent.id \in Nat
                    BY <2>0, <4>3, MadeFacts
                       DEF ProcessDepartureReleaseRequestedMessage, ApiTypeOK, NextEvent
                <5>. QED BY <4>1, <4>3, <5>1, <5>2, SamePairSymmetric
                         DEF ProcessDepartureReleaseRequestedMessage
            <4>4. CASE ProcessDecisionMessage
                <5>1. NextEvent.type \in Decisions
                    BY <4>1, <4>4, <2>0, IInvParts DEF ProcessDecisionMessage, HandlingIsNext
                <5>. QED BY <4>1, <5>1 DEF Decisions
            <4>5. CASE TimedEventTrigger \/ TimePasses \/ \E t \in tasks : ApplyAnswer(t)
                BY <2>0, <4>1, <4>5 DEF TimedEventTrigger, TimePasses, ApplyAnswer
            <4>. QED BY <2>4, <4>2, <4>3, <4>4, <4>5 DEF CollectionActs
        <3>. QED BY <3>2, <3>3, <3>4
    <2>. QED BY <2>1, <2>2, <2>3, <2>4, StepCases
<1>. QED BY <1>1, <1>2, IInvariant, PTL DEF Spec

-------------------------------------------------------------------------------
(* Live requests are mirrored.                                                *)

\* An event is still to be handled.
Pending(type, id) ==
    \E n \in 1..Len(events) : n > processed /\ events[n].type = type /\ events[n].id = id

\* Whatever the API did, it published.
AllPublished ==
    /\ \A id \in Made : \E n \in 1..Len(events) : events[n].type = "requested" /\ events[n].id = id
    /\ \A id \in Ids : \A d \in decisions[id] :
          id \in Made /\ \E n \in 1..Len(events) : events[n].type = d /\ events[n].id = id

\* A live request is shown, or its event is still to come; and so is each decision on it.
LiveShown == \A id \in Made : Live(id) => Known(id) \/ Pending("requested", id)
LiveDecided ==
    \A id \in Made : Live(id) =>
        \A d \in decisions[id] : (Known(id) /\ d \in releaseRequests[id]) \/ Pending(d, id)

LiveIInv == AllPublished /\ LiveShown /\ LiveDecided

\* Lapsed requests stay so.
LEMMA LapsedGrows ==
    ASSUME [Next]_vars PROVE lapsed \subseteq lapsed'
BY DEF Next, OtherController, ProcessPushEvent, ProcessDepartureReleaseRequestedMessage,
       ValidateDecisionMessage, ProcessDecisionMessage, ProcessRequestCancelledMessage,
       TimedEventTrigger, TimePasses, UserCommand, RequestRelease, ReleaseDecisionMade,
       ApproveOrRejectRelease, SelectReleaseRequestToCancel, RequestCancelled, CloseWindow,
       RunTask, CallApi, AnswerLost, ApiException, ApplyAnswer, vars

\* What is live was live before.
LEMMA LiveBefore ==
    ASSUME ApiTypeOK, LogGrows \/ UNCHANGED apiVars, ApiTypeOK', lapsed \subseteq lapsed',
           NEW id \in Made, Live(id)'
    PROVE  Live(id)
<1>1. Made \subseteq Made' /\ withdrawn \subseteq withdrawn'
      /\ \A i \in Made : requests'[i] = requests[i]
    <2>1. Len(requests) \in Nat /\ Len(requests') \in Nat
        BY DEF ApiTypeOK
    <2>. QED BY <2>1 DEF LogGrows, apiVars, Made
<1>. QED BY <1>1 DEF Live, SamePair

\* An act of the API is the next to come.
LEMMA ApiNews ==
    ASSUME ApiTypeOK, HandlerTypeOK, ApiActs, processed' = processed
    PROVE  /\ \A id \in Made' \ Made : Pending("requested", id)'
           /\ \A id \in Ids : \A d \in decisions'[id] \ decisions[id] : id \in Made /\ Pending(d, id)'
<1>0. /\ Len(requests) \in Nat /\ Len(events) \in Nat /\ processed \in Nat
      /\ processed <= Len(events) /\ Made \subseteq Ids /\ MaxReleases \in Nat
    BY MadeFacts DEF HandlerTypeOK
<1>. PICK last : last = Len(events) + 1
    OBVIOUS
<1>1. ASSUME NEW type \in {"requested", "cancelled"} \cup Decisions, NEW id \in Ids,
             NEW expires \in BOOLEAN, Publish(type, id, expires)
      PROVE  Pending(type, id)'
    <2>1. Len(events') = last /\ events'[last] = [type |-> type, id |-> id, expires |-> expires]
        BY <1>1, PublishFacts
    <2>2. last \in 1..Len(events') /\ last > processed'
        BY <1>0, <2>1
    <2>3. events'[last].type = type /\ events'[last].id = id
        BY <2>1
    <2>. QED BY <2>2, <2>3 DEF Pending
<1>2. ASSUME NEW r \in Requests, ApiRequest(r)
      PROVE  /\ \A id \in Made' \ Made : Pending("requested", id)'
             /\ decisions' = decisions
    <2>. PICK new : new = Len(requests) + 1
        OBVIOUS
    <2>1. Len(requests') = new /\ new \in Ids /\ decisions' = decisions
        <3>1. requests \in Seq(Requests) /\ requests' = Append(requests, r) /\ Len(requests) < MaxReleases
            BY <1>2 DEF ApiRequest, ApiTypeOK
        <3>2. Len(requests') = new
            BY <3>1
        <3>3. new \in 1..MaxReleases
            BY <1>0, <3>1
        <3>. QED BY <1>2, <3>2, <3>3 DEF ApiRequest, Ids
    <2>2. Pending("requested", new)'
        <3>1. Publish("requested", new, FALSE)
            BY <1>2 DEF ApiRequest
        <3>. QED BY <1>1, <2>1, <3>1
    <2>3. \A id \in Made' \ Made : id = new
        BY <1>0, <2>1 DEF Made
    <2>. QED BY <2>1, <2>2, <2>3
<1>3. ASSUME NEW i \in Ids, NEW decision \in Decisions, NEW expires \in BOOLEAN,
             ApiDecide(i, decision, expires)
      PROVE  /\ Made' = Made
             /\ \A id \in Ids : \A d \in decisions'[id] \ decisions[id] : id \in Made /\ Pending(d, id)'
    <2>1. Pending(decision, i)'
        BY <1>1, <1>3 DEF ApiDecide
    <2>2. \A id \in Ids : \A d \in decisions'[id] \ decisions[id] : id = i /\ d = decision
        BY <1>3 DEF ApiDecide, ApiTypeOK
    <2>3. Made' = Made /\ i \in Made
        BY <1>3 DEF ApiDecide, Made
    <2>. QED BY <2>1, <2>2, <2>3
<1>4. ASSUME NEW i \in Ids, ApiCancel(i)
      PROVE  Made' = Made /\ decisions' = decisions
    BY <1>4 DEF ApiCancel, Made
<1>. QED BY <1>2, <1>3, <1>4 DEF ApiActs

LEMMA LiveApiStep ==
    ASSUME IInv, IInv', LiveIInv, [Next]_vars,
           ApiActs, LogGrows, UNCHANGED <<processed, releaseRequests>>
    PROVE  LiveIInv'
<1>0. ApiTypeOK /\ ApiTypeOK' /\ HandlerTypeOK /\ lapsed \subseteq lapsed'
    BY IInvParts, LapsedGrows DEF IInv, TypeOK, ApiTypeOK
<1>1. /\ \A id \in Made' \ Made : Pending("requested", id)'
      /\ \A id \in Ids : \A d \in decisions'[id] \ decisions[id] : id \in Made /\ Pending(d, id)'
    BY <1>0, ApiNews
<1>2. /\ Len(events) \in Nat /\ Len(events') = Len(events) + 1
      /\ \A n \in 1..Len(events) : n \in 1..Len(events') /\ events'[n] = events[n]
      /\ Made \subseteq Made' /\ Made' \subseteq Ids
    <2>1. Len(requests) \in Nat /\ Len(requests') \in Nat /\ Len(events) \in Nat /\ MaxReleases \in Nat
        BY <1>0, BoundsAssumption DEF ApiTypeOK
    <2>. QED BY <1>0, <2>1 DEF LogGrows, Made, ApiTypeOK, Ids
<1>3. ASSUME NEW type, NEW id, Pending(type, id) PROVE Pending(type, id)'
    BY <1>2, <1>3 DEF Pending
<1>4. AllPublished'
    <2>1. ASSUME NEW type, NEW id, Pending(type, id)'
          PROVE  \E n \in 1..Len(events') : events'[n].type = type /\ events'[n].id = id
        BY <2>1 DEF Pending
    <2>2. ASSUME NEW id \in Made'
          PROVE  \E n \in 1..Len(events') : events'[n].type = "requested" /\ events'[n].id = id
        <3>1. CASE id \in Made
            BY <1>2, <3>1 DEF LiveIInv, AllPublished
        <3>2. CASE id \notin Made
            BY <1>1, <2>1, <3>2
        <3>. QED BY <3>1, <3>2
    <2>3. ASSUME NEW id \in Ids, NEW d \in decisions'[id]
          PROVE  id \in Made' /\ \E n \in 1..Len(events') : events'[n].type = d /\ events'[n].id = id
        <3>1. CASE d \in decisions[id]
            BY <1>2, <3>1 DEF LiveIInv, AllPublished
        <3>2. CASE d \notin decisions[id]
            BY <1>1, <1>2, <2>1, <3>2
        <3>. QED BY <3>1, <3>2
    <2>. QED BY <2>2, <2>3 DEF AllPublished, Ids
<1>5. ASSUME NEW id \in Made', Live(id)'
      PROVE  /\ Known(id)' \/ Pending("requested", id)'
             /\ \A d \in decisions'[id] : (Known(id)' /\ d \in releaseRequests'[id]) \/ Pending(d, id)'
    <2>1. CASE id \in Made
        <3>1. Live(id)
            BY <1>0, <1>5, <2>1, LiveBefore
        <3>2. Known(id)' \/ Pending("requested", id)'
            BY <1>3, <2>1, <3>1 DEF LiveIInv, LiveShown, Known
        <3>3. ASSUME NEW d \in decisions'[id]
              PROVE  (Known(id)' /\ d \in releaseRequests'[id]) \/ Pending(d, id)'
            <4>1. CASE d \in decisions[id]
                BY <1>3, <2>1, <3>1, <4>1 DEF LiveIInv, LiveDecided, Known
            <4>2. CASE d \notin decisions[id]
                BY <1>1, <1>2, <4>2
            <4>. QED BY <4>1, <4>2
        <3>. QED BY <3>2, <3>3
    <2>2. CASE id \notin Made
        <3>1. id \in Ids /\ decisions[id] = {}
            BY <1>0, <1>2, <2>2 DEF LiveIInv, AllPublished, ApiTypeOK
        <3>. QED BY <1>1, <2>2, <3>1
    <2>. QED BY <2>1, <2>2
<1>. QED BY <1>4, <1>5 DEF LiveIInv, LiveShown, LiveDecided

\* The order of the log: a request before what is done to it, and an older
\* request of which nothing has come before a newer one.
LEMMA RequestBeforeDecision ==
    ASSUME IInv, NEW n \in 1..Len(events), NEW m \in 1..Len(events),
           events[n].type = "requested", events[m].type \in Decisions, events[m].id = events[n].id
    PROVE  n < m
<1>1. ApiTypeOK /\ RequestsComeFirst /\ Len(events) \in Nat
    BY IInvParts, MadeFacts
<1>2. events[n].id \in Nat
    BY <1>1, MadeFacts DEF ApiTypeOK
<1>3. n # m
    BY DEF Decisions
<1>4. ~(m < n)
    BY <1>1, <1>2 DEF RequestsComeFirst
<1>. QED BY <1>1, <1>3, <1>4

LEMMA NewerLater ==
    ASSUME IInv, LiveIInv, NEW m \in 1..Len(events), events[m].type = "requested",
           NEW id \in Made, events[m].id < id
    PROVE  \E n \in 1..Len(events) : n > m /\ events[n].type = "requested" /\ events[n].id = id
<1>1. ApiTypeOK /\ RequestsComeFirst /\ Len(events) \in Nat
    BY IInvParts, MadeFacts
<1>2. PICK n \in 1..Len(events) : events[n].type = "requested" /\ events[n].id = id
    BY DEF LiveIInv, AllPublished
<1>3. events[m].id \in Nat /\ id \in Nat
    BY <1>1, MadeFacts DEF ApiTypeOK
<1>4. n # m
    BY <1>2, <1>3
<1>5. ~(n < m)
    BY <1>1, <1>2, <1>3 DEF RequestsComeFirst
<1>. QED BY <1>1, <1>2, <1>4, <1>5

\* What is enough for a step of the plugin: it only takes a live request off the
\* display if its event is still to come, and does what the event it handles says.
StaysShown(id) ==
    \/ Known(id)' /\ releaseRequests[id] \cap Decisions \subseteq releaseRequests'[id]
    \/ id \in lapsed'
    \/ Pending("requested", id)'
DoneAsTold(type, id) ==
    /\ type = "requested" => Known(id)'
    /\ type \in Decisions => Known(id)' /\ type \in releaseRequests'[id]

LEMMA LiveLocalStep ==
    ASSUME IInv, LiveIInv, UNCHANGED apiVars, lapsed \subseteq lapsed',
           processed' = processed \/ (processed' = processed + 1 /\ processed < Len(events)),
           \A id \in Made : Live(id) /\ Known(id) => StaysShown(id),
           NEW type, type = NextEvent.type, NEW j, j = NextEvent.id,
           processed' = processed + 1 /\ Live(j) => DoneAsTold(type, j)
    PROVE  LiveIInv'
<1>0. /\ ApiTypeOK /\ HandlerTypeOK /\ processed \in Nat /\ Len(events) \in Nat
      /\ events' = events /\ Made' = Made /\ decisions' = decisions
    BY IInvParts, MadeFacts DEF HandlerTypeOK, apiVars, Made
<1>1. AllPublished'
    BY <1>0 DEF LiveIInv, AllPublished
<1>2. ASSUME NEW id \in Made, Live(id)' PROVE Live(id) /\ id \notin lapsed'
    BY <1>2 DEF Live, Made, SamePair, apiVars
<1>3. ASSUME NEW kind, NEW id, Pending(kind, id), ~Pending(kind, id)'
      PROVE  processed' = processed + 1 /\ type = kind /\ j = id
    <2>1. PICK n \in 1..Len(events) : n > processed /\ events[n].type = kind /\ events[n].id = id
        BY <1>3 DEF Pending
    <2>2. ~(n > processed')
        BY <1>0, <1>3, <2>1 DEF Pending
    <2>3. processed' = processed + 1 /\ n = processed + 1
        BY <1>0, <2>1, <2>2
    <2>. QED BY <2>1, <2>3 DEF NextEvent
<1>4. ASSUME NEW id \in Made, Live(id)'
      PROVE  /\ Known(id)' \/ Pending("requested", id)'
             /\ \A d \in decisions[id] : (Known(id)' /\ d \in releaseRequests'[id]) \/ Pending(d, id)'
    <2>0. Live(id) /\ id \notin lapsed' /\ decisions[id] \subseteq Decisions
        BY <1>0, <1>2, <1>4, MadeFacts DEF ApiTypeOK
    <2>1. ASSUME Known(id) PROVE Known(id)' \/ Pending("requested", id)'
        <3>1. StaysShown(id)
            BY <2>0, <2>1
        <3>. QED BY <2>0, <3>1 DEF StaysShown
    <2>2. ASSUME ~Known(id), ~Pending("requested", id)' PROVE Known(id)'
        <3>1. Pending("requested", id)
            BY <2>0, <2>2 DEF LiveIInv, LiveShown
        <3>2. processed' = processed + 1 /\ type = "requested" /\ j = id
            BY <1>3, <2>2, <3>1
        <3>3. DoneAsTold(type, j)
            BY <2>0, <3>2
        <3>. QED BY <3>2, <3>3 DEF DoneAsTold
    <2>3. ASSUME NEW d \in decisions[id]
          PROVE  (Known(id)' /\ d \in releaseRequests'[id]) \/ Pending(d, id)'
        <3>1. CASE Pending(d, id)
            <4>1. CASE Pending(d, id)'
                BY <4>1
            <4>2. CASE ~Pending(d, id)'
                <5>1. processed' = processed + 1 /\ type = d /\ j = id
                    BY <1>3, <3>1, <4>2
                <5>2. DoneAsTold(type, j) /\ d \in Decisions
                    BY <2>0, <5>1
                <5>. QED BY <5>1, <5>2 DEF DoneAsTold
            <4>. QED BY <4>1, <4>2
        <3>2. CASE ~Pending(d, id)
            <4>1. Known(id) /\ d \in releaseRequests[id]
                BY <2>0, <3>2 DEF LiveIInv, LiveDecided
            <4>2. CASE Pending("requested", id)'
                <5>1. PICK n \in 1..Len(events) :
                         n > processed' /\ events[n].type = "requested" /\ events[n].id = id
                    BY <1>0, <4>2 DEF Pending
                <5>2. PICK m \in 1..Len(events) : events[m].type = d /\ events[m].id = id
                    BY <1>0, MadeFacts DEF LiveIInv, AllPublished
                <5>3. n < m
                    BY <2>0, <5>1, <5>2, RequestBeforeDecision
                <5>4. m > processed'
                    BY <1>0, <5>1, <5>3
                <5>. QED BY <1>0, <5>2, <5>4 DEF Pending
            <4>3. CASE ~Pending("requested", id)'
                <5>1. StaysShown(id) /\ d \in Decisions
                    BY <2>0, <4>1
                <5>. QED BY <2>0, <4>1, <4>3, <5>1 DEF StaysShown
            <4>. QED BY <4>2, <4>3
        <3>. QED BY <3>1, <3>2
    <2>. QED BY <2>1, <2>2, <2>3
<1>. QED BY <1>0, <1>1, <1>4 DEF LiveIInv, LiveShown, LiveDecided

\* A decision made on a request that is shown
LEMMA DecisionShown ==
    ASSUME IInv, NEW i \in DOMAIN releaseRequests, NEW decision \in Decisions, NEW expires \in BOOLEAN,
           releaseRequests' = Change(releaseRequests, i, Decide(releaseRequests[i], decision, expires))
    PROVE  /\ decision \in releaseRequests'[i] /\ Known(i)'
           /\ \A id \in DOMAIN releaseRequests : StaysShown(id)
<1>. DEFINE marks == Decide(releaseRequests[i], decision, expires)
<1>1. releaseRequests[i] \in SUBSET Marks
    BY IInvParts DEF HandlerTypeOK
<1>2. marks \cap Decisions = (releaseRequests[i] \cap Decisions) \cup {decision}
    BY <1>1, DecideFacts
<1>3. /\ DOMAIN releaseRequests' = DOMAIN releaseRequests
      /\ \A id \in DOMAIN releaseRequests :
            releaseRequests'[id] = IF id = i THEN marks ELSE releaseRequests[id]
    BY ChangeFacts
<1>. HIDE DEF marks
<1>. QED BY <1>2, <1>3 DEF StaysShown, Known

LEMMA LiveRequestedStep ==
    ASSUME IInv, LiveIInv, ProcessDepartureReleaseRequestedMessage
    PROVE  LiveIInv'
<1>0. /\ ApiTypeOK /\ HandlerTypeOK /\ processed \in Nat /\ Len(events) \in Nat
      /\ processed < Len(events) /\ NextEvent.type = "requested" /\ processed' = processed + 1
      /\ UNCHANGED apiVars /\ lapsed' = lapsed
    BY IInvParts, MadeFacts DEF HandlerTypeOK, ProcessDepartureReleaseRequestedMessage
<1>1. PICK j : j = NextEvent.id
    OBVIOUS
<1>2. j \in Made /\ processed + 1 \in 1..Len(events)
    BY <1>0, <1>1 DEF NextEvent, ApiTypeOK
<1>3. PICK c : c = Add(releaseRequests, j)
    OBVIOUS
<1>4. /\ DOMAIN c = DOMAIN releaseRequests \cup {j}
      /\ \A i \in DOMAIN releaseRequests : c[i] = releaseRequests[i]
    BY <1>3 DEF Add
<1>5. releaseRequests' = RemoveOthers(c, j)
    BY <1>1, <1>3 DEF ProcessDepartureReleaseRequestedMessage
<1>6. /\ DOMAIN releaseRequests' = {i \in DOMAIN c : i = j \/ ~SamePair(i, j)}
      /\ \A i \in DOMAIN releaseRequests' : releaseRequests'[i] = c[i]
    BY <1>5, RemoveOthersFacts
<1>7. ASSUME NEW id \in Made, Live(id), Known(id) PROVE StaysShown(id)
    <2>1. CASE id = j \/ ~SamePair(id, j)
        BY <1>4, <1>6, <1>7, <2>1 DEF StaysShown, Known
    <2>2. CASE id # j /\ SamePair(id, j)
        <3>1. id \in Nat /\ j \in Nat /\ ~(j > id)
            BY <1>0, <1>2, <1>7, <2>2, MadeFacts, SamePairSymmetric DEF Live
        <3>2. events[processed + 1].id < id /\ events[processed + 1].type = "requested"
            BY <1>0, <1>1, <2>2, <3>1 DEF NextEvent
        <3>3. PICK n \in 1..Len(events) :
                 n > processed + 1 /\ events[n].type = "requested" /\ events[n].id = id
            BY <1>2, <3>2, NewerLater
        <3>4. Pending("requested", id)'
            BY <1>0, <3>3 DEF Pending, apiVars
        <3>. QED BY <3>4 DEF StaysShown
    <2>. QED BY <2>1, <2>2
<1>8. DoneAsTold("requested", j)
    <2>1. j \in DOMAIN releaseRequests'
        BY <1>4, <1>6
    <2>. QED BY <2>1 DEF DoneAsTold, Known, Decisions
<1>. QED BY <1>0, <1>1, <1>7, <1>8, LiveLocalStep

LEMMA LiveValidateStep ==
    ASSUME IInv, LiveIInv, ValidateDecisionMessage
    PROVE  LiveIInv'
<1>0. /\ ApiTypeOK /\ HandlerTypeOK /\ processed \in Nat /\ Len(events) \in Nat
      /\ processed < Len(events) /\ NextEvent.type \in Decisions
      /\ UNCHANGED apiVars /\ lapsed' = lapsed /\ releaseRequests' = releaseRequests
      /\ processed' = IF Known(NextEvent.id) THEN processed ELSE processed + 1
    BY IInvParts, MadeFacts DEF HandlerTypeOK, ValidateDecisionMessage
<1>1. processed + 1 \in 1..Len(events) /\ NextEvent = events[processed + 1] /\ NextEvent.id \in Made
    BY <1>0 DEF NextEvent, ApiTypeOK
<1>2. \A id \in Made : Live(id) /\ Known(id) => StaysShown(id)
    BY <1>0 DEF StaysShown, Known
<1>3. ASSUME processed' = processed + 1, Live(NextEvent.id) PROVE FALSE
    <2>1. ~Known(NextEvent.id)
        BY <1>0, <1>3
    <2>2. Pending("requested", NextEvent.id)
        BY <1>1, <1>3, <2>1 DEF LiveIInv, LiveShown
    <2>3. PICK n \in 1..Len(events) :
             n > processed /\ events[n].type = "requested" /\ events[n].id = NextEvent.id
        BY <2>2 DEF Pending
    <2>4. n < processed + 1
        BY <1>0, <1>1, <2>3, RequestBeforeDecision
    <2>. QED BY <1>0, <2>3, <2>4
<1>. QED BY <1>0, <1>2, <1>3, LiveLocalStep

LEMMA LiveDecisionStep ==
    ASSUME IInv, LiveIInv, ProcessDecisionMessage
    PROVE  LiveIInv'
<1>0. /\ ApiTypeOK /\ HandlerTypeOK /\ processed \in Nat /\ Len(events) \in Nat
      /\ handling # Nothing /\ processed < Len(events) /\ handling = NextEvent
      /\ handling.type \in Decisions /\ UNCHANGED apiVars /\ lapsed' = lapsed
    BY IInvParts, MadeFacts DEF HandlerTypeOK, ProcessDecisionMessage, HandlingIsNext
<1>1. CASE Known(handling.id)
    <2>1. processed + 1 \in 1..Len(events)
        BY <1>0
    <2>2. NextEvent \in Event
        BY <1>0, <2>1, MadeFacts DEF NextEvent
    <2>3. /\ handling.id \in DOMAIN releaseRequests /\ handling.expires \in BOOLEAN
          /\ releaseRequests' = Change(releaseRequests, handling.id,
                  Decide(releaseRequests[handling.id], handling.type, handling.expires))
          /\ processed' = processed + 1
        BY <1>0, <1>1, <2>2 DEF ProcessDecisionMessage, Known, Event
    <2>4. PICK i, decision, expires :
             i = handling.id /\ decision = handling.type /\ expires = handling.expires
        OBVIOUS
    <2>5. /\ decision \in releaseRequests'[i] /\ Known(i)'
          /\ \A id \in DOMAIN releaseRequests : StaysShown(id)
        BY <1>0, <2>3, <2>4, DecisionShown
    <2>6. DoneAsTold(decision, i)
        BY <2>5 DEF DoneAsTold, Known, Decisions
    <2>7. \A id \in Made : Live(id) /\ Known(id) => StaysShown(id)
        BY <2>5 DEF Known
    <2>. QED BY <1>0, <2>3, <2>4, <2>6, <2>7, LiveLocalStep
<1>2. CASE ~Known(handling.id)
    <2>1. releaseRequests' = releaseRequests /\ processed' = processed
        BY <1>2 DEF ProcessDecisionMessage
    <2>2. \A id \in Made : Live(id) /\ Known(id) => StaysShown(id)
        BY <2>1 DEF StaysShown, Known
    <2>. QED BY <1>0, <2>1, <2>2, LiveLocalStep
<1>. QED BY <1>1, <1>2

LEMMA LiveCancelledStep ==
    ASSUME IInv, LiveIInv, ProcessRequestCancelledMessage
    PROVE  LiveIInv'
<1>0. /\ ApiTypeOK /\ HandlerTypeOK /\ EventsAreTrue /\ processed \in Nat /\ Len(events) \in Nat
      /\ processed < Len(events) /\ NextEvent.type = "cancelled" /\ processed' = processed + 1
      /\ UNCHANGED apiVars /\ lapsed' = lapsed
      /\ releaseRequests' = RemoveByKey(releaseRequests, NextEvent.id)
    BY IInvParts, MadeFacts DEF HandlerTypeOK, ProcessRequestCancelledMessage
<1>1. NextEvent.id \in withdrawn
    BY <1>0 DEF EventsAreTrue, NextEvent
<1>2. ~Live(NextEvent.id)
    BY <1>1 DEF Live
<1>3. /\ DOMAIN releaseRequests' = DOMAIN releaseRequests \ {NextEvent.id}
      /\ \A i \in DOMAIN releaseRequests' : releaseRequests'[i] = releaseRequests[i]
    BY <1>0, RestrictFacts DEF RemoveByKey
<1>4. \A id \in Made : Live(id) /\ Known(id) => StaysShown(id)
    BY <1>2, <1>3 DEF StaysShown, Known
<1>. QED BY <1>0, <1>2, <1>4, LiveLocalStep

LEMMA LiveClockStep ==
    ASSUME IInv, LiveIInv, TimedEventTrigger \/ TimePasses
    PROVE  LiveIInv'
<1>1. UNCHANGED apiVars /\ processed' = processed /\ lapsed \subseteq lapsed'
    BY DEF TimedEventTrigger, TimePasses
<1>2. processed \in Nat
    BY IInvParts, MadeFacts DEF HandlerTypeOK
<1>3. ASSUME NEW id \in Made, Known(id) PROVE StaysShown(id)
    <2>1. CASE TimedEventTrigger
        <3>. DEFINE over == {i \in DOMAIN releaseRequests : ReleaseShouldBeRemoved(releaseRequests[i])}
        <3>1. /\ DOMAIN releaseRequests' = DOMAIN releaseRequests \ over
              /\ \A i \in DOMAIN releaseRequests' : releaseRequests'[i] = releaseRequests[i]
              /\ over \subseteq lapsed'
            BY <2>1, RestrictFacts DEF TimedEventTrigger
        <3>. QED BY <1>3, <3>1 DEF StaysShown, Known
    <2>2. CASE TimePasses
        BY <1>3, <2>2 DEF TimePasses, StaysShown, Known
    <2>. QED BY <2>1, <2>2
<1>. QED BY <1>1, <1>2, <1>3, LiveLocalStep

LEMMA LiveAnswerStep ==
    ASSUME IInv, LiveIInv, NEW t \in tasks, ApplyAnswer(t)
    PROVE  LiveIInv'
<1>0. /\ UNCHANGED apiVars /\ processed' = processed /\ lapsed' = lapsed /\ processed \in Nat
      /\ TaskOK(t) /\ t.at = "answered"
    BY IInvParts, MadeFacts DEF HandlerTypeOK, ApplyAnswer
<1>1. CASE t.do = "request"
    <2>1. releaseRequests' = Add(releaseRequests, t.id)
        BY <1>1 DEF ApplyAnswer, Decisions
    <2>2. \A id \in Made : Live(id) /\ Known(id) => StaysShown(id)
        BY <2>1 DEF Add, StaysShown, Known
    <2>. QED BY <1>0, <2>2, LiveLocalStep
<1>2. CASE t.do = "cancel"
    <2>1. releaseRequests' = RemoveByKey(releaseRequests, t.id)
        BY <1>2 DEF ApplyAnswer, Decisions
    <2>2. ~Live(t.id)
        BY <1>0, <1>2 DEF TaskOK, Live
    <2>3. /\ DOMAIN releaseRequests' = DOMAIN releaseRequests \ {t.id}
          /\ \A i \in DOMAIN releaseRequests' : releaseRequests'[i] = releaseRequests[i]
        BY <2>1, RestrictFacts DEF RemoveByKey
    <2>4. \A id \in Made : Live(id) /\ Known(id) => StaysShown(id)
        BY <2>2, <2>3 DEF StaysShown, Known
    <2>. QED BY <1>0, <2>4, LiveLocalStep
<1>3. CASE t.do \in Decisions /\ Known(t.id)
    <2>1. /\ t.id \in DOMAIN releaseRequests /\ t.expires \in BOOLEAN
          /\ releaseRequests' = Change(releaseRequests, t.id,
                  Decide(releaseRequests[t.id], t.do, t.expires))
        BY <1>0, <1>3 DEF ApplyAnswer, Decisions, Known, TaskOK, Task
    <2>2. \A id \in DOMAIN releaseRequests : StaysShown(id)
        BY <1>3, <2>1, DecisionShown
    <2>3. \A id \in Made : Live(id) /\ Known(id) => StaysShown(id)
        BY <2>2 DEF Known
    <2>. QED BY <1>0, <2>3, LiveLocalStep
<1>4. CASE t.do \in Decisions /\ ~Known(t.id)
    <2>1. releaseRequests' = releaseRequests
        BY <1>4 DEF ApplyAnswer, Decisions
    <2>2. \A id \in Made : Live(id) /\ Known(id) => StaysShown(id)
        BY <2>1 DEF StaysShown, Known
    <2>. QED BY <1>0, <2>2, LiveLocalStep
<1>. QED BY <1>0, <1>1, <1>2, <1>3, <1>4 DEF TaskOK, Task, Commands

LEMMA LiveInitially == Init => LiveIInv
<1>. SUFFICES ASSUME Init PROVE LiveIInv
    OBVIOUS
<1>1. Made = {} /\ \A id \in Ids : decisions[id] = {}
    BY DEF Init, Made
<1>. QED BY <1>1 DEF LiveIInv, AllPublished, LiveShown, LiveDecided

LEMMA LiveStep == IInv /\ IInv' /\ LiveIInv /\ [Next]_vars => LiveIInv'
<1>. SUFFICES ASSUME IInv, IInv', LiveIInv, [Next]_vars PROVE LiveIInv'
    OBVIOUS
<1>1. CASE ApiActs /\ LogGrows /\ UNCHANGED <<processed, releaseRequests>>
    BY <1>1, LiveApiStep
<1>2. CASE UNCHANGED <<apiVars, releaseRequests>> /\ processed' = processed
    <2>1. processed \in Nat /\ lapsed \subseteq lapsed'
        BY IInvParts, MadeFacts, LapsedGrows DEF HandlerTypeOK
    <2>2. \A id \in Made : Live(id) /\ Known(id) => StaysShown(id)
        BY <1>2 DEF StaysShown, Known
    <2>. QED BY <1>2, <2>1, <2>2, LiveLocalStep
<1>3. CASE ValidateDecisionMessage
    BY <1>3, LiveValidateStep
<1>4. CASE CollectionActs
    BY <1>4, LiveRequestedStep, LiveDecisionStep, LiveCancelledStep, LiveClockStep, LiveAnswerStep
       DEF CollectionActs
<1>. QED BY <1>1, <1>2, <1>3, <1>4, StepCases

\* However the events, the answers to the user's commands and the timed event
\* interleave, for any number of requests and tasks: when all have been handled,
\* the newest request of each pair, unless cancelled or lapsed, is on display
\* with exactly the decisions the API holds.
THEOREM LiveRequestsMirrored == Spec => []LiveRequestMirrored
<1>1. IInv /\ LiveIInv /\ NoPhantomDecision => LiveRequestMirrored
    <2>. SUFFICES ASSUME IInv, LiveIInv, NoPhantomDecision, Settled, NEW id \in Made, Live(id)
                  PROVE  Known(id) /\ releaseRequests[id] \cap Decisions = decisions[id]
        BY DEF LiveRequestMirrored
    <2>1. ~Pending("requested", id) /\ \A d \in decisions[id] : ~Pending(d, id)
        <3>1. \A n \in 1..Len(events) : ~(n > processed)
            BY IInvParts, MadeFacts DEF Settled
        <3>. QED BY <3>1 DEF Pending
    <2>2. Known(id) /\ decisions[id] \subseteq releaseRequests[id]
        BY <2>1 DEF LiveIInv, LiveShown, LiveDecided
    <2>3. decisions[id] \subseteq Decisions
        BY IInvParts, MadeFacts DEF ApiTypeOK
    <2>. QED BY <2>2, <2>3 DEF NoPhantomDecision, Known
<1>. QED BY <1>1, LiveInitially, LiveStep, IInvariant, NoPhantoms, PTL DEF Spec
-------------------------------------------------------------------------------
(* The request a message is for.                                              *)

\* The request of the message under way is still there, or the API has it as
\* cancelled.
HeldOrWithdrawn == handling # Nothing => Known(handling.id) \/ handling.id \in withdrawn

HeldIInv == HeldOrWithdrawn /\ UnknownOnlyWhenWithdrawn

LEMMA WithdrawnGrows ==
    ASSUME IInv, [Next]_vars
    PROVE  withdrawn \subseteq withdrawn'
BY StepCases DEF LogGrows, apiVars

\* A step that neither begins nor ends a message
LEMMA HeldStays ==
    ASSUME HeldIInv, withdrawn \subseteq withdrawn', UNCHANGED <<handling, crashed>>,
           handling # Nothing /\ Known(handling.id) =>
              Known(handling.id)' \/ handling.id \in withdrawn
    PROVE  HeldIInv'
BY DEF HeldIInv, HeldOrWithdrawn, UnknownOnlyWhenWithdrawn, Known

LEMMA HeldPushStep ==
    ASSUME HeldIInv, ProcessPushEvent
    PROVE  HeldIInv'
<1>1. CASE ProcessDepartureReleaseRequestedMessage \/ ProcessRequestCancelledMessage
    BY <1>1 DEF ProcessDepartureReleaseRequestedMessage, ProcessRequestCancelledMessage,
                EuroScopeIdle, HeldIInv, HeldOrWithdrawn, UnknownOnlyWhenWithdrawn
<1>2. CASE ValidateDecisionMessage
    <2>1. /\ ~crashed' /\ releaseRequests' = releaseRequests
          /\ handling' = Nothing \/ (handling' = NextEvent /\ Known(NextEvent.id))
        BY <1>2 DEF ValidateDecisionMessage, EuroScopeIdle
    <2>. QED BY <2>1 DEF HeldIInv, HeldOrWithdrawn, UnknownOnlyWhenWithdrawn, Known
<1>3. CASE ProcessDecisionMessage
    <2>1. CASE Known(handling.id)
        BY <1>3, <2>1 DEF ProcessDecisionMessage, HeldIInv, HeldOrWithdrawn,
                          UnknownOnlyWhenWithdrawn
    <2>2. CASE ~Known(handling.id)
        <3>1. handling # Nothing /\ handling' = handling /\ withdrawn' = withdrawn
            BY <1>3, <2>2 DEF ProcessDecisionMessage, apiVars
        <3>. QED BY <2>2, <3>1 DEF HeldIInv, HeldOrWithdrawn, UnknownOnlyWhenWithdrawn
    <2>. QED BY <2>1, <2>2
<1>. QED BY <1>1, <1>2, <1>3 DEF ProcessPushEvent

\* Of the steps of the tasks only the answer to a cancellation removes anything.
LEMMA HeldTaskStep ==
    ASSUME IInv, HeldIInv, NEW t \in tasks, ApplyAnswer(t)
    PROVE  HeldIInv'
<1>1. /\ UNCHANGED <<handling, crashed>> /\ withdrawn' = withdrawn
      /\ TaskOK(t) /\ t.at = "answered"
    BY IInvParts DEF ApplyAnswer, apiVars
<1>2. CASE t.do = "request"
    <2>1. releaseRequests' = Add(releaseRequests, t.id)
        BY <1>2 DEF ApplyAnswer, Decisions
    <2>2. DOMAIN releaseRequests \subseteq DOMAIN releaseRequests'
        BY <2>1 DEF Add
    <2>. QED BY <1>1, <2>2, HeldStays DEF Known
<1>3. CASE t.do = "cancel"
    <2>1. releaseRequests' = RemoveByKey(releaseRequests, t.id) /\ t.id \in withdrawn
        BY <1>1, <1>3 DEF ApplyAnswer, Decisions, TaskOK
    <2>2. DOMAIN releaseRequests' = DOMAIN releaseRequests \ {t.id}
        BY <2>1, RestrictFacts DEF RemoveByKey
    <2>. QED BY <1>1, <2>1, <2>2, HeldStays DEF Known
<1>4. CASE t.do \in Decisions
    <2>1. \/ releaseRequests' = releaseRequests
          \/ releaseRequests' = Change(releaseRequests, t.id,
                                       Decide(releaseRequests[t.id], t.do, t.expires))
        BY <1>4 DEF ApplyAnswer, Decisions
    <2>2. DOMAIN releaseRequests' = DOMAIN releaseRequests
        BY <2>1, ChangeFacts
    <2>. QED BY <1>1, <2>2, HeldStays DEF Known
<1>. QED BY <1>1, <1>2, <1>3, <1>4 DEF TaskOK, Task, Commands

LEMMA HeldStep ==
    ASSUME IInv, HeldIInv, [Next]_vars
    PROVE  HeldIInv'
<1>0. withdrawn \subseteq withdrawn'
    BY WithdrawnGrows
<1>1. ASSUME UNCHANGED <<handling, crashed, releaseRequests>> PROVE HeldIInv'
    BY <1>0, <1>1, HeldStays DEF Known
<1>2. CASE OtherController \/ UserCommand \/ UNCHANGED vars
    BY <1>1, <1>2 DEF OtherController, UserCommand, RequestRelease, ReleaseDecisionMade,
       ApproveOrRejectRelease, SelectReleaseRequestToCancel, RequestCancelled, CloseWindow, vars
<1>3. CASE ProcessPushEvent
    BY <1>3, HeldPushStep
<1>4. CASE TimedEventTrigger
    BY <1>4 DEF TimedEventTrigger, EuroScopeIdle, HeldIInv, HeldOrWithdrawn,
                UnknownOnlyWhenWithdrawn
<1>5. CASE TimePasses
    <2>1. /\ UNCHANGED <<handling, crashed>>
          /\ DOMAIN releaseRequests' = DOMAIN releaseRequests
        BY <1>5 DEF TimePasses
    <2>. QED BY <1>0, <2>1, HeldStays DEF Known
<1>6. ASSUME NEW t \in tasks, CallApi(t) \/ AnswerLost(t) \/ ApiException(t)
      PROVE  HeldIInv'
    BY <1>1, <1>6 DEF CallApi, AnswerLost, ApiException
<1>7. ASSUME NEW t \in tasks, ApplyAnswer(t) PROVE HeldIInv'
    BY <1>7, HeldTaskStep
<1>. QED BY <1>2, <1>3, <1>4, <1>5, <1>6, <1>7 DEF Next, RunTask

\* A decision's handler finds no request the second time only after the user's
\* own cancellation of it has been carried out: for any number of requests, tasks
\* and events nothing else comes between the two lookups.
THEOREM UnknownAreWithdrawn == Spec => []UnknownOnlyWhenWithdrawn
<1>1. Init => HeldIInv
    BY DEF Init, HeldIInv, HeldOrWithdrawn, UnknownOnlyWhenWithdrawn
<1>2. HeldIInv => UnknownOnlyWhenWithdrawn
    BY DEF HeldIInv
<1>. QED BY <1>1, <1>2, HeldStep, IInvariant, PTL DEF Spec
-------------------------------------------------------------------------------
(* What the user's cancellation can take.                                     *)

UserAsked(callsign, to) ==
    \E id \in Made : /\ requests[id].from = User
                     /\ requests[id].callsign = callsign
                     /\ requests[id].to = to

MenuIsUsers ==
    window.kind = "cancel" =>
        \A target \in window.targets : UserAsked(window.callsign, target)

TasksAreUsers ==
    \A t \in tasks :
        t.do = "cancel" => UserAsked(requests[t.id].callsign, requests[t.id].to)

CancelIInv == MenuIsUsers /\ TasksAreUsers

LEMMA StillAsked ==
    ASSUME IInv, [Next]_vars
    PROVE  /\ Made \subseteq Made' /\ \A id \in Made : requests'[id] = requests[id]
           /\ \A callsign, to : UserAsked(callsign, to) => UserAsked(callsign, to)'
<1>1. ApiTypeOK
    BY IInvParts
<1>2. Made \subseteq Made' /\ \A id \in Made : requests'[id] = requests[id]
    <2>1. CASE ApiActs /\ LogGrows
        <3>1. ApiTypeOK'
            BY <2>1, ApiStep, IInvParts
        <3>2. Len(requests) \in Nat /\ Len(requests') \in Nat
            BY <1>1, <3>1 DEF ApiTypeOK
        <3>. QED BY <2>1, <3>2 DEF LogGrows, Made
    <2>2. CASE UNCHANGED apiVars
        BY <2>2 DEF apiVars, Made
    <2>. QED BY <2>1, <2>2, StepCases
<1>. QED BY <1>2 DEF UserAsked

LEMMA MadeByTask ==
    ASSUME IInv, NEW t \in tasks, t.do = "cancel"
    PROVE  t.id \in Made
<1>1. TaskOK(t) /\ ApiTypeOK
    BY IInvParts
<1>2. t.id \in Nat /\ t.id # 0 /\ t.id <= Len(requests) /\ Len(requests) \in Nat
    BY <1>1, MadeFacts DEF TaskOK, Task
<1>. QED BY <1>2 DEF Made

\* A step whose new tasks do not cancel, or cancel where the user has asked, and
\* whose new window is no menu, or one of what the user has asked for
LEMMA CancelKept ==
    ASSUME IInv, CancelIInv, [Next]_vars,
           window' = window \/ window'.kind # "cancel" \/ MenuIsUsers',
           \A t \in tasks' : \/ t \in tasks
                             \/ t.do # "cancel"
                             \/ \E u \in tasks : u.do = "cancel" /\ u.id = t.id
                             \/ /\ t.id \in Made
                                /\ UserAsked(requests[t.id].callsign, requests[t.id].to)
    PROVE  CancelIInv'
<1>1. MenuIsUsers'
    BY StillAsked DEF CancelIInv, MenuIsUsers
<1>2. ASSUME NEW t \in tasks', t.do = "cancel"
      PROVE  UserAsked(requests[t.id].callsign, requests[t.id].to)'
    <2>1. t.id \in Made /\ UserAsked(requests[t.id].callsign, requests[t.id].to)
        BY <1>2, MadeByTask DEF CancelIInv, TasksAreUsers
    <2>2. requests'[t.id] = requests[t.id]
        BY <2>1, StillAsked
    <2>3. UserAsked(requests[t.id].callsign, requests[t.id].to) =>
             \E id \in Made' : /\ requests'[id].from = User
                               /\ requests'[id].callsign = requests[t.id].callsign
                               /\ requests'[id].to = requests[t.id].to
        BY StillAsked DEF UserAsked
    <2>. QED BY <2>1, <2>2, <2>3 DEF UserAsked
<1>. QED BY <1>1, <1>2 DEF CancelIInv, TasksAreUsers

LEMMA CancelCommandStep ==
    ASSUME IInv, CancelIInv, UserCommand
    PROVE  CancelIInv'
<1>0. [Next]_vars /\ UNCHANGED apiVars /\ ApiTypeOK /\ HandlerTypeOK
    BY IInvParts DEF Next, UserCommand, RequestRelease, ReleaseDecisionMade,
       ApproveOrRejectRelease, SelectReleaseRequestToCancel, RequestCancelled, CloseWindow
<1>1. NoWindow.kind # "cancel"
    BY DEF NoWindow
<1>2. CASE RequestRelease \/ CloseWindow
    BY <1>0, <1>1, <1>2, CancelKept DEF RequestRelease, CloseWindow, QueueTask
<1>3. CASE ReleaseDecisionMade
    <2>1. window' = window \/ window'.kind = "decision"
        <3>1. \/ window' = window
              \/ \E id, decision : window' = [kind |-> "decision", id |-> id, decision |-> decision]
            BY <1>3, Zenon DEF ReleaseDecisionMade
        <3>. QED BY <3>1
    <2>2. \A t \in tasks' : t \in tasks \/ t.do = "acknowledged"
        BY <1>3 DEF ReleaseDecisionMade, QueueTask
    <2>. QED BY <1>0, <2>1, <2>2, CancelKept
<1>4. CASE ApproveOrRejectRelease
    <2>1. window.decision \in Decisions
        BY <1>0, <1>4 DEF ApproveOrRejectRelease, HandlerTypeOK
    <2>2. \A t \in tasks' : t \in tasks \/ t.do = window.decision
        BY <1>4 DEF ApproveOrRejectRelease, QueueTask
    <2>3. window' = NoWindow
        BY <1>4 DEF ApproveOrRejectRelease
    <2>. QED BY <1>0, <1>1, <2>1, <2>2, <2>3, CancelKept DEF Decisions
<1>5. CASE SelectReleaseRequestToCancel
    <2>1. PICK r \in Requests :
             LET own == {id \in DOMAIN releaseRequests : /\ requests[id].from = User
                                                         /\ requests[id].callsign = r.callsign}
             IN  window' = [kind |-> "cancel", callsign |-> r.callsign,
                            targets |-> {requests[id].to : id \in own}]
        BY <1>5 DEF SelectReleaseRequestToCancel
    <2>2. DOMAIN releaseRequests \subseteq Made /\ UNCHANGED <<requests, Made, tasks>>
        BY <1>0, <1>5 DEF HandlerTypeOK, apiVars, Made, SelectReleaseRequestToCancel
    <2>3. MenuIsUsers'
        BY <2>1, <2>2 DEF MenuIsUsers, UserAsked
    <2>. QED BY <1>0, <2>2, <2>3, CancelKept
<1>6. CASE RequestCancelled
    <2>1. window.kind = "cancel" /\ window' = NoWindow
        BY <1>6 DEF RequestCancelled
    <2>2. PICK target \in window.targets :
             \/ tasks' = tasks
             \/ \E id \in DOMAIN releaseRequests :
                   /\ requests[id].callsign = window.callsign
                   /\ requests[id].to = target
                   /\ QueueTask("cancel", requests[id], id, FALSE)
        BY <1>6 DEF RequestCancelled, First
    <2>3. UserAsked(window.callsign, target)
        BY <2>1 DEF CancelIInv, MenuIsUsers
    <2>4. \A t \in tasks' : \/ t \in tasks
                            \/ /\ t.id \in Made
                               /\ UserAsked(requests[t.id].callsign, requests[t.id].to)
        BY <1>0, <2>2, <2>3 DEF QueueTask, HandlerTypeOK
    <2>. QED BY <1>0, <1>1, <2>1, <2>4, CancelKept
<1>. QED BY <1>2, <1>3, <1>4, <1>5, <1>6 DEF UserCommand

LEMMA CancelStep ==
    ASSUME IInv, CancelIInv, [Next]_vars
    PROVE  CancelIInv'
<1>1. ASSUME window' = window, tasks' \subseteq tasks PROVE CancelIInv'
    BY <1>1, CancelKept
<1>2. CASE OtherController \/ ProcessPushEvent \/ TimedEventTrigger \/ TimePasses \/ UNCHANGED vars
    BY <1>1, <1>2 DEF OtherController, ProcessPushEvent, ProcessDepartureReleaseRequestedMessage,
       ValidateDecisionMessage, ProcessDecisionMessage, ProcessRequestCancelledMessage,
       TimedEventTrigger, TimePasses, userVars, vars
<1>3. CASE UserCommand
    BY <1>3, CancelCommandStep
<1>4. ASSUME NEW t \in tasks, CallApi(t)
      PROVE  CancelIInv'
    <2>1. PICK id : id = IF t.do = "request" THEN Len(requests') ELSE t.id
        OBVIOUS
    <2>2. PICK new : new = [t EXCEPT !.at = "answered", !.id = id]
        OBVIOUS
    <2>3. tasks' = (tasks \ {t}) \cup {new} /\ window' = window
        BY <1>4, <2>1, <2>2 DEF CallApi
    <2>4. t \in Task
        BY IInvParts DEF TaskOK
    <2>5. new.do = t.do /\ (t.do = "cancel" => new.id = t.id)
        BY <2>1, <2>2, <2>4 DEF Task
    <2>. QED BY <2>3, <2>5, CancelKept
<1>5. ASSUME NEW t \in tasks, AnswerLost(t) \/ ApiException(t) \/ ApplyAnswer(t)
      PROVE  CancelIInv'
    BY <1>1, <1>5 DEF AnswerLost, ApiException, ApplyAnswer
<1>. QED BY <1>2, <1>3, <1>4, <1>5 DEF Next, RunTask

\* A cancellation the user sends always takes a request for an aircraft and to a
\* controller the user has asked, though, as CancelsOnlyOwn shows, not always the
\* user's own.
THEOREM CancellationsWhereAsked == Spec => []CancelsWhereUserAsked
<1>1. Init => CancelIInv
    BY DEF Init, CancelIInv, MenuIsUsers, TasksAreUsers, NoWindow
<1>2. CancelIInv => CancelsWhereUserAsked
    BY DEF CancelIInv, TasksAreUsers, CancelsWhereUserAsked, UserAsked, SamePair
<1>. QED BY <1>1, <1>2, CancelStep, IInvariant, PTL DEF Spec

===============================================================================
