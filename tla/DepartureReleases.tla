--------------------------- MODULE DepartureReleases ---------------------------
(***************************************************************************)
(* Departure release requests as one running plugin sees them              *)
(* (src/src/plugin/releases/DepartureReleaseEventHandler.cpp), with the    *)
(* API it talks to.                                                        *)
(*                                                                         *)
(* The collection releaseRequests is changed by two kinds of thread.  The  *)
(* EuroScope thread handles the pushed events, in the order the API        *)
(* published them and once each (that is what PushEvents provides), runs   *)
(* the timed event and the user's commands.  Worker threads run the tasks  *)
(* the commands queue: first a call of the API, then, some time later, the *)
(* local change.  The handlers of pushed events hold releaseMapGuard; of   *)
(* the tasks only AddReleaseRequest takes it.                              *)
(*                                                                         *)
(* Times are abstracted to the deadlines that have passed: each request    *)
(* carries the set of marks that its fields and the clock amount to.       *)
(***************************************************************************)
EXTENDS Naturals, Sequences, FiniteSetsExt

CONSTANTS Requests,      \* what can be requested: [callsign, from, to] records
          User,          \* the controller position of the user of this plugin
          MaxReleases,   \* bound: how many requests are ever made
          MaxEvents,     \* bound: how many events the API ever publishes
          MaxTasks       \* bound: how many tasks are queued or running at a time

ASSUME RequestsAssumption == \A r \in Requests : DOMAIN r = {"callsign", "from", "to"}
ASSUME BoundsAssumption == {MaxReleases, MaxEvents, MaxTasks} \subseteq Nat

Ids       == 1..MaxReleases
Decisions == {"acknowledged", "rejected", "approved"}

\* The fields of a DepartureReleaseRequest, as far as the handler tells them
\* apart: which decisions are recorded in it, whether its releaseExpiresAt is a
\* time ("expires"), and which of its times have passed: requestExpiresAt, and
\* releaseExpiresAt and rejectedAt plus RELEASE_DECISION_MADE_DELETE_AFTER_SECONDS.
Marks == Decisions \cup {"expires", "requestOver", "approvalOver", "rejectionOver"}

Commands == {"request", "cancel"} \cup Decisions

Event == [type : {"requested", "cancelled"} \cup Decisions, id : Ids, expires : BOOLEAN]
Task  == [do : Commands, of : Requests, id : 0..MaxReleases, expires : BOOLEAN,
          at : {"called", "answered"}]

Nothing  == [type |-> "nothing"]
NoWindow == [kind |-> "none"]

VARIABLES requests,         \* the API: the requests made so far, by id
          decisions,        \* the API: the decisions made on each
          withdrawn,        \* the API: the ids of the cancelled ones
          events,           \* the API: the events published so far
          processed,        \* how many of them the handler has dealt with
          handling,         \* the event the handler has validated, not yet used
          releaseRequests,  \* the collection: ids to marks
          tasks,            \* the tasks queued or running
          window,           \* the dialog or popup menu the user has open
          crashed,          \* a null request was dereferenced
          lapsed            \* history: the ids the timed event has removed

apiVars  == <<requests, decisions, withdrawn, events>>
userVars == <<tasks, window>>
vars == <<requests, decisions, withdrawn, events, processed, handling,
          releaseRequests, tasks, window, crashed, lapsed>>
-------------------------------------------------------------------------------
(* Collection.tpp: a map from ids to shared requests.  Each operation holds   *)
(* the mutex of the collection.                                               *)

Known(id) == id \in DOMAIN releaseRequests

\* Add leaves a request that is there alone; a new one carries no marks.
Add(c, id) == [i \in DOMAIN c \cup {id} |-> IF i \in DOMAIN c THEN c[i] ELSE {}]

RemoveByKey(c, id) == Restrict(c, DOMAIN c \ {id})

\* FirstOrDefault among the ids that satisfy its predicate: the map is ordered.
First(ids) == {id \in ids : \A other \in ids : id <= other}

\* A change of a request that some thread holds a shared pointer to.  Nobody
\* else sees it once the request has left the collection.
Change(c, id, marks) == IF id \in DOMAIN c THEN [c EXCEPT ![id] = marks] ELSE c

\* DepartureReleaseRequest.cpp.  Approve without an expiry leaves
\* releaseExpiresAt as it is.
Acknowledge(marks) == marks \cup {"acknowledged"}
Reject(marks)      == (marks \cup {"rejected"}) \ {"rejectionOver"}
Approve(marks, expires) ==
    IF expires THEN (marks \cup {"approved", "expires"}) \ {"approvalOver"}
               ELSE marks \cup {"approved"}

Decide(marks, decision, expires) ==
    CASE decision = "acknowledged" -> Acknowledge(marks)
      [] decision = "rejected"     -> Reject(marks)
      [] decision = "approved"     -> Approve(marks, expires)

RequiresDecision(marks) == marks \cap {"rejected", "requestOver", "approved"} = {}

\* The time after which the timed event removes a request: the first branch that
\* applies decides, and an approval without an expiry stays for good.
Deadline(marks) ==
    IF "approved" \in marks THEN "approvalOver"
    ELSE IF "rejected" \in marks THEN "rejectionOver"
    ELSE "requestOver"

ReleaseShouldBeRemoved(marks) == Deadline(marks) \in marks

\* Two requests to the same controller for the same aircraft.
SamePair(i, j) == /\ requests[i].callsign = requests[j].callsign
                  /\ requests[i].to = requests[j].to

-------------------------------------------------------------------------------

Init == /\ requests = <<>>
        /\ decisions = [id \in Ids |-> {}]
        /\ withdrawn = {}
        /\ events = <<>>
        /\ processed = 0
        /\ handling = Nothing
        /\ releaseRequests = [id \in {} |-> {}]
        /\ tasks = {}
        /\ window = NoWindow
        /\ crashed = FALSE
        /\ lapsed = {}
-------------------------------------------------------------------------------
(* The API.  It accepts any request, and decisions and cancellations of what  *)
(* is not cancelled, and publishes an event for each.                         *)

Made == 1..Len(requests)

Publish(type, id, expires) ==
    /\ Len(events) < MaxEvents
    /\ events' = Append(events, [type |-> type, id |-> id, expires |-> expires])

ApiRequest(r) ==
    /\ Len(requests) < MaxReleases
    /\ requests' = Append(requests, r)
    /\ Publish("requested", Len(requests) + 1, FALSE)
    /\ UNCHANGED <<decisions, withdrawn>>

ApiDecide(id, decision, expires) ==
    /\ id \in Made \ withdrawn
    /\ decisions' = [decisions EXCEPT ![id] = @ \cup {decision}]
    /\ Publish(decision, id, expires)
    /\ UNCHANGED <<requests, withdrawn>>

ApiCancel(id) ==
    /\ id \in Made \ withdrawn
    /\ withdrawn' = withdrawn \cup {id}
    /\ Publish("cancelled", id, FALSE)
    /\ UNCHANGED <<requests, decisions>>

\* Other controllers request, decide what was asked of them and cancel.
OtherController ==
    /\ ~crashed
    /\ \/ \E r \in Requests : r.from # User /\ ApiRequest(r)
       \/ \E id \in Made, decision \in Decisions, expires \in BOOLEAN :
             /\ requests[id].to # User
             /\ decision \notin decisions[id]
             /\ expires => decision = "approved"
             /\ ApiDecide(id, decision, expires)
       \/ \E id \in Made : requests[id].from # User /\ ApiCancel(id)
    /\ UNCHANGED <<processed, handling, releaseRequests, tasks, window, crashed, lapsed>>
-------------------------------------------------------------------------------
(* Pushed events on the EuroScope thread.                                     *)

\* Broken: other work of the thread may come between the two lookups.
EuroScopeBetweenLookups == ~crashed

EuroScopeIdle == ~crashed /\ handling = Nothing

NextEvent == events[processed + 1]

\* Broken: no RemoveWhere; its predicate without the id; without the callsign.
RemoveNoOthers(c, id)   == c
RemoveAllOfPair(c, id)  == Restrict(c, {i \in DOMAIN c : ~SamePair(i, id)})
RemoveSameTarget(c, id) ==
    Restrict(c, {i \in DOMAIN c : i = id \/ requests[i].to # requests[id].to})

\* RemoveWhere in ProcessDepartureReleaseRequestedMessage.
RemoveOthers(c, id) == Restrict(c, {i \in DOMAIN c : i = id \/ ~SamePair(i, id)})

ProcessDepartureReleaseRequestedMessage ==
    /\ EuroScopeIdle
    /\ processed < Len(events)
    /\ NextEvent.type = "requested"
    /\ releaseRequests' = RemoveOthers(Add(releaseRequests, NextEvent.id), NextEvent.id)
    /\ processed' = processed + 1
    /\ UNCHANGED <<apiVars, handling, userVars, crashed, lapsed>>

\* The handlers of the three decisions look the request up twice.  First, to
\* validate the message; an unknown id is logged and the message dropped.
ValidateDecisionMessage ==
    /\ EuroScopeIdle
    /\ processed < Len(events)
    /\ NextEvent.type \in Decisions
    /\ IF Known(NextEvent.id)
       THEN handling' = NextEvent /\ UNCHANGED processed
       ELSE processed' = processed + 1 /\ UNCHANGED handling
    /\ UNCHANGED <<apiVars, releaseRequests, userVars, crashed, lapsed>>

\* And again, to change it, without looking whether it is still there.
ProcessDecisionMessage ==
    /\ ~crashed
    /\ handling # Nothing
    /\ IF Known(handling.id)
       THEN /\ releaseRequests' = Change(releaseRequests, handling.id,
                      Decide(releaseRequests[handling.id], handling.type, handling.expires))
            /\ processed' = processed + 1
            /\ handling' = Nothing
            /\ UNCHANGED crashed
       ELSE /\ crashed' = TRUE
            /\ UNCHANGED <<releaseRequests, processed, handling>>
    /\ UNCHANGED <<apiVars, userVars, lapsed>>

\* An unknown id is dropped here too, which comes to the same.
ProcessRequestCancelledMessage ==
    /\ EuroScopeIdle
    /\ processed < Len(events)
    /\ NextEvent.type = "cancelled"
    /\ releaseRequests' = RemoveByKey(releaseRequests, NextEvent.id)
    /\ processed' = processed + 1
    /\ UNCHANGED <<apiVars, handling, userVars, crashed, lapsed>>

\* TimedEventTrigger, every 15 seconds.
TimedEventTrigger ==
    LET over == {id \in DOMAIN releaseRequests :
                    ReleaseShouldBeRemoved(releaseRequests[id])}
    IN  /\ EuroScopeIdle
        /\ over # {}
        /\ releaseRequests' = Restrict(releaseRequests, DOMAIN releaseRequests \ over)
        /\ lapsed' = lapsed \cup over
        /\ UNCHANGED <<apiVars, processed, handling, userVars, crashed>>

\* The clock passes the deadline of a request.
TimePasses ==
    /\ ~crashed
    /\ \E id \in DOMAIN releaseRequests :
         LET marks == releaseRequests[id] IN
         /\ ~ReleaseShouldBeRemoved(marks)
         /\ Deadline(marks) = "approvalOver" => "expires" \in marks
         /\ releaseRequests' = [releaseRequests EXCEPT ![id] = @ \cup {Deadline(marks)}]
    /\ UNCHANGED <<apiVars, processed, handling, userVars, crashed, lapsed>>
-------------------------------------------------------------------------------
(* The user's commands, on the EuroScope thread.  A dialog is modal and a     *)
(* popup menu is answered or closed before the next command, but pushed       *)
(* events and the timed event are handled while either is open.               *)

MayCommand == EuroScopeIdle /\ window = NoWindow

QueueTask(do, r, id, expires) ==
    /\ Cardinality(tasks) < MaxTasks
    /\ tasks' = tasks \cup
           {[do |-> do, of |-> r, id |-> id, expires |-> expires, at |-> "called"]}

RequestRelease ==
    /\ MayCommand
    /\ \E r \in Requests : r.from = User /\ QueueTask("request", r, 0, FALSE)
    /\ UNCHANGED <<apiVars, processed, handling, releaseRequests, window, crashed, lapsed>>

\* FindReleaseRequiringDecisionForCallsign
AwaitingUser(callsign) ==
    {id \in DOMAIN releaseRequests : /\ requests[id].callsign = callsign
                                     /\ requests[id].to = User
                                     /\ RequiresDecision(releaseRequests[id])}

\* Approve and Reject open a dialog, Acknowledge acts at once.
ReleaseDecisionMade ==
    /\ MayCommand
    /\ \E r \in Requests : \E id \in First(AwaitingUser(r.callsign)) :
         \/ /\ \E decision \in {"approved", "rejected"} :
                  window' = [kind |-> "decision", id |-> id, decision |-> decision]
            /\ UNCHANGED tasks
         \/ /\ QueueTask("acknowledged", requests[id], id, FALSE)
            /\ UNCHANGED window
    /\ UNCHANGED <<apiVars, processed, handling, releaseRequests, crashed, lapsed>>

\* The dialog is confirmed.  ControllerCanMakeReleaseDecision only asks that the
\* request is still there and that the user is its target.
ApproveOrRejectRelease ==
    /\ EuroScopeIdle
    /\ window.kind = "decision"
    /\ IF Known(window.id)
       THEN \E expires \in BOOLEAN :
              /\ expires => window.decision = "approved"
              /\ QueueTask(window.decision, requests[window.id], window.id, expires)
       ELSE UNCHANGED tasks
    /\ window' = NoWindow
    /\ UNCHANGED <<apiVars, processed, handling, releaseRequests, crashed, lapsed>>

\* The menu lists the targets of the user's own requests for the aircraft.
SelectReleaseRequestToCancel ==
    /\ MayCommand
    /\ \E r \in Requests :
         LET own == {id \in DOMAIN releaseRequests : /\ requests[id].from = User
                                                     /\ requests[id].callsign = r.callsign}
         IN  /\ own # {}
             /\ window' = [kind |-> "cancel", callsign |-> r.callsign,
                           targets |-> {requests[id].to : id \in own}]
    /\ UNCHANGED <<apiVars, processed, handling, releaseRequests, tasks, crashed, lapsed>>

\* The callback looks for the first request for the aircraft and the target.
RequestCancelled ==
    /\ EuroScopeIdle
    /\ window.kind = "cancel"
    /\ \E target \in window.targets :
         LET matching == {id \in DOMAIN releaseRequests :
                             /\ requests[id].callsign = window.callsign
                             /\ requests[id].to = target}
         IN  \/ matching = {} /\ UNCHANGED tasks
             \/ \E id \in First(matching) : QueueTask("cancel", requests[id], id, FALSE)
    /\ window' = NoWindow
    /\ UNCHANGED <<apiVars, processed, handling, releaseRequests, crashed, lapsed>>

CloseWindow ==
    /\ EuroScopeIdle
    /\ window # NoWindow
    /\ window' = NoWindow
    /\ UNCHANGED <<apiVars, processed, handling, releaseRequests, tasks, crashed, lapsed>>
-------------------------------------------------------------------------------
(* The tasks on the worker threads.                                           *)

Perform(t) ==
    CASE t.do = "request"   -> ApiRequest(t.of)
      [] t.do = "cancel"    -> ApiCancel(t.id)
      [] t.do \in Decisions -> ApiDecide(t.id, t.do, t.expires)

\* The call reaches the API, which does what is asked and answers.
CallApi(t) ==
    /\ ~crashed
    /\ t.at = "called"
    /\ Perform(t)
    /\ tasks' = (tasks \ {t}) \cup
           {[t EXCEPT !.at = "answered", !.id = IF t.do = "request" THEN Len(requests') ELSE @]}
    /\ UNCHANGED <<processed, handling, releaseRequests, window, crashed, lapsed>>

\* The API does what is asked, but the answer is lost on the way (an ApiException)
\* or, for a request, carries no id.
AnswerLost(t) ==
    /\ ~crashed
    /\ t.at = "called"
    /\ Perform(t)
    /\ tasks' = tasks \ {t}
    /\ UNCHANGED <<processed, handling, releaseRequests, window, crashed, lapsed>>

\* Broken: a decision is recorded although the call failed.
ApiExceptionIgnored(t) ==
    /\ ~crashed
    /\ t.at = "called"
    /\ tasks' = (tasks \ {t}) \cup
           (IF t.do \in Decisions THEN {[t EXCEPT !.at = "answered"]} ELSE {})
    /\ UNCHANGED <<apiVars, processed, handling, releaseRequests, window, crashed, lapsed>>

\* The call fails, the ApiException is logged.
ApiException(t) ==
    /\ ~crashed
    /\ t.at = "called"
    /\ tasks' = tasks \ {t}
    /\ UNCHANGED <<apiVars, processed, handling, releaseRequests, window, crashed, lapsed>>

\* What the task does with the answer.  Only AddReleaseRequest takes
\* releaseMapGuard, which the handler of a decision message holds.
ApplyAnswer(t) ==
    /\ ~crashed
    /\ t.at = "answered"
    /\ t.do = "request" => handling = Nothing
    /\ releaseRequests' =
         CASE t.do = "request"   -> Add(releaseRequests, t.id)
           [] t.do = "cancel"    -> RemoveByKey(releaseRequests, t.id)
           [] t.do \in Decisions ->
                IF Known(t.id)
                THEN Change(releaseRequests, t.id,
                            Decide(releaseRequests[t.id], t.do, t.expires))
                ELSE releaseRequests
    /\ tasks' = tasks \ {t}
    /\ UNCHANGED <<apiVars, processed, handling, window, crashed, lapsed>>
-------------------------------------------------------------------------------

ProcessPushEvent ==
    \/ ProcessDepartureReleaseRequestedMessage
    \/ ValidateDecisionMessage
    \/ ProcessDecisionMessage
    \/ ProcessRequestCancelledMessage

UserCommand ==
    \/ RequestRelease
    \/ ReleaseDecisionMade
    \/ ApproveOrRejectRelease
    \/ SelectReleaseRequestToCancel
    \/ RequestCancelled
    \/ CloseWindow

RunTask == \E t \in tasks :
    CallApi(t) \/ AnswerLost(t) \/ ApiException(t) \/ ApplyAnswer(t)

Next ==
    \/ OtherController
    \/ ProcessPushEvent
    \/ TimedEventTrigger
    \/ TimePasses
    \/ UserCommand
    \/ RunTask

Spec == Init /\ [][Next]_vars
-------------------------------------------------------------------------------

TypeOK ==
    /\ requests \in Seq(Requests) /\ Len(requests) <= MaxReleases
    /\ decisions \in [Ids -> SUBSET Decisions]
    /\ withdrawn \subseteq Made
    /\ events \in Seq(Event) /\ Len(events) <= MaxEvents
    /\ \A n \in 1..Len(events) : events[n].id \in Made
    /\ processed \in 0..Len(events)
    /\ handling \in Event \cup {Nothing}
    /\ DOMAIN releaseRequests \subseteq Made
    /\ \A id \in DOMAIN releaseRequests : releaseRequests[id] \subseteq Marks
    /\ tasks \subseteq Task
    /\ \A t \in tasks : t.id = 0 <=> (t.do = "request" /\ t.at = "called")
    /\ \A t \in tasks : t.id <= Len(requests)
    /\ window.kind \in {"none", "decision", "cancel"}
    /\ window.kind = "decision" => window.id \in Made /\ window.decision \in Decisions
    /\ crashed \in BOOLEAN
    /\ lapsed \subseteq Made

\* A controller is never shown a decision the API does not hold: not by a
\* command that fails, one that is still under way, or one for another request.
NoPhantomDecision ==
    \A id \in DOMAIN releaseRequests : releaseRequests[id] \cap Decisions \subseteq decisions[id]

\* The events that took a request away from the point of view of the API have
\* been handled: it was cancelled, or a later one for the same pair was made.
Overtaken(id) ==
    \E n \in 1..processed : \/ events[n].type = "cancelled" /\ events[n].id = id
                            \/ /\ events[n].type = "requested"
                               /\ events[n].id > id /\ SamePair(events[n].id, id)

\* A request that stays on display although events took it away is one the user
\* made: the task of RequestRelease may add it after those events were handled.
\* No other controller's request ever outlives them.
GhostsAreOwn ==
    \A id \in DOMAIN releaseRequests : Overtaken(id) => requests[id].from = User

\* When every event has been handled and no task is under way, the newest
\* request of each pair is on display with exactly the decisions the API holds,
\* unless it was cancelled or its time ran out: no interleaving of events,
\* answers and commands loses a live request or a decision on it.
Settled == processed = Len(events) /\ handling = Nothing /\ tasks = {} /\ ~crashed

Live(id) == /\ id \notin withdrawn \cup lapsed
            /\ \A later \in Made : later > id => ~SamePair(later, id)

LiveRequestMirrored ==
    Settled => \A id \in Made : Live(id) =>
                   Known(id) /\ releaseRequests[id] \cap Decisions = decisions[id]

\* A request leaves the display only because the API cancelled it, because the
\* display turned to another one for the same pair, or because its time ran out.
RemovalJustified ==
    [][\A id \in DOMAIN releaseRequests \ DOMAIN releaseRequests' :
          \/ id \in withdrawn
          \/ \E other \in DOMAIN releaseRequests' : other # id /\ SamePair(other, id)
          \/ ReleaseShouldBeRemoved(releaseRequests[id])]_vars

\* The message under way can lose its request to one thing only: a task has
\* applied the answer to the user's own cancellation, which the API has carried
\* out.  Neither the timed event nor the answer to a decision nor another
\* message comes between the two lookups of a decision's handler.
UnknownOnlyWhenWithdrawn ==
    crashed => handling # Nothing /\ handling.id \in withdrawn

\* Whatever the user's cancellation takes, it takes it for an aircraft and a
\* controller the user has made a request to: the menu offers nothing else, and
\* the callback, however late, goes by what the menu offered.
CancelsWhereUserAsked ==
    \A t \in tasks : t.do = "cancel" =>
        \E id \in Made : requests[id].from = User /\ SamePair(id, t.id)
-------------------------------------------------------------------------------
(* Statements about the program that it does not live up to.                  *)

\* DepartureReleaseEventHandler.cpp: "An acknowledged message needs an id that we
\* know about."
NeverUsesUnknown == ~crashed

\* DepartureReleases.md: the cancellation menu withdraws "your request".
CancelsOnlyOwn == \A t \in tasks : t.do = "cancel" => requests[t.id].from = User

\* DepartureReleases.md: "For a given aircraft, there may be one "active" release
\* request for a single controller position at any given time", where active is
\* "not rejected or request expired".
Active(id) == releaseRequests[id] \cap {"rejected", "requestOver"} = {}

OneActiveRequest ==
    Settled => \A i, j \in DOMAIN releaseRequests :
                   i # j /\ SamePair(i, j) => ~Active(i) \/ ~Active(j)
===============================================================================
