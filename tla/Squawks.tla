-------------------------------- MODULE Squawks --------------------------------
(***************************************************************************)
(* Squawk assignment (src/src/plugin/squawk) with the part of the stored   *)
(* flightplans it uses (src/src/plugin/flightplan).                        *)
(*                                                                         *)
(* The EuroScope thread starts a request: it enters the callsign in        *)
(* squawkRequests, so that there is one request for an aircraft at a time, *)
(* sets a holding squawk and queues a task.  A worker calls the API, puts  *)
(* the answer in allocationQueue and ends the request.  Some seconds later *)
(* a timed event on the EuroScope thread assigns what is in the queue.  A  *)
(* request ends, therefore, before its answer is applied.                  *)
(*                                                                         *)
(* The rules of SquawkAssignment.cpp look at positions, speeds and         *)
(* ownership, which are outside this module: what depends on them may      *)
(* happen or not.  What depends on the squawk itself is a guard.  An answer *)
(* of the API may be any code, as other controllers' plugins call it too.  *)
(***************************************************************************)
EXTENDS Naturals, Sequences, Functions, FiniteSets

CONSTANTS Aircraft,
          Codes,         \* the squawks the API hands out
          Manual,        \* a squawk the controller types in
          MaxFailures    \* bound: failed deletions waiting for the EuroScope thread

Conspicuity == "7000"    \* also the holding squawk of StartSquawkUpdate
Circuit     == "7010"
NotAllocated == "2200"   \* StoredFlightplan::noSquawkAllocated
Unassigned  == "2000"    \* stands for the other squawks HasAssignedSquawk leaves out
NotStored   == "not stored"
Interrupted == "interrupted"

Fixed   == {Conspicuity, Circuit, Manual}
Squawks == Codes \cup Fixed \cup {Unassigned, NotAllocated}

ASSUME CodesAssumption ==
    /\ Manual \notin Codes
    /\ (Codes \cup {Manual}) \cap
         {Conspicuity, Circuit, Unassigned, NotAllocated, NotStored, Interrupted} = {}
ASSUME BoundAssumption == MaxFailures \in Nat

\* A task is at its next call of the API (GetAssignedSquawk, Create..., Delete...),
\* has an answer to put in the queue, or is about to end the request.  Its squawk
\* is the answer, or the squawk to go back to when a deletion fails.
Task == [of : Aircraft, at : {"lookup", "create", "delete", "answered", "ending"},
         squawk : Squawks]

VARIABLES online,            \* the aircraft whose flightplan EuroScope lists
          squawk,            \* the squawk assigned to each in EuroScope
          stored,            \* StoredFlightplan::assignedSquawk, or NotStored
          expiring,          \* the stored flightplans with a timeout set
          squawkRequests,
          tasks,
          allocationQueue,   \* a std::set ordered by callsign alone: a function
          failedDeletes,     \* the events on the bus for ResetSquawkOnFailedDelete
          due,               \* history: the squawk the last request comes to,
                             \* Interrupted by a disconnection or by somebody else
          calm               \* history: the aircraft whose last request began
                             \* with no answer to an earlier one still waiting

flightplans == <<online, squawk, stored, expiring>>
history   == <<due, calm>>
vars == <<online, squawk, stored, expiring, squawkRequests, tasks,
          allocationQueue, failedDeletes, due, calm>>

HasAssignedSquawk(s) == s \notin {Unassigned, NotAllocated}
HasPreviouslyAssignedSquawk(s) == s \notin {NotStored, NotAllocated}

SetSquawk(a, s) == squawk' = [squawk EXCEPT ![a] = s]

\* SetPreviouslyAssignedSquawk for an aircraft that may not be stored
Remember(store, a, s) == IF store[a] = NotStored THEN store ELSE [store EXCEPT ![a] = s]

\* An answer for the aircraft waits for the EuroScope thread.
Waiting(a) == \/ a \in DOMAIN allocationQueue
              \/ \E event \in Range(failedDeletes) : event.of = a

Init == /\ online = {}
        /\ squawk = [a \in Aircraft |-> Unassigned]
        /\ stored = [a \in Aircraft |-> NotStored]
        /\ expiring = {}
        /\ squawkRequests = {}
        /\ tasks = {}
        /\ allocationQueue = [a \in {} |-> Unassigned]
        /\ failedDeletes = <<>>
        /\ due = [a \in Aircraft |-> Interrupted]
        /\ calm = {}
-------------------------------------------------------------------------------
(* Requests, on the EuroScope thread.                                         *)

\* Broken: the result of Start is not looked at.
StartAlways(a, processSquawk, at) ==
    /\ squawkRequests' = squawkRequests \cup {a}
    /\ SetSquawk(a, processSquawk)
    /\ tasks' = tasks \cup {[of |-> a, at |-> at, squawk |-> squawk[a]]}
    /\ due' = [due EXCEPT ![a] = processSquawk]
    /\ calm' = IF Waiting(a) THEN calm \ {a} ELSE calm \cup {a}

\* StartSquawkUpdate and, if there is no request in progress, the task.
StartSquawkUpdate(a, processSquawk, at) ==
    /\ a \notin squawkRequests
    /\ squawkRequests' = squawkRequests \cup {a}
    /\ SetSquawk(a, processSquawk)
    /\ tasks' = tasks \cup {[of |-> a, at |-> at, squawk |-> squawk[a]]}
    /\ due' = [due EXCEPT ![a] = processSquawk]
    /\ calm' = IF Waiting(a) THEN calm \ {a} ELSE calm \cup {a}

\* ForceGeneralSquawkForAircraft and ForceLocalSquawkForAircraft
ForceSquawkForAircraft(a) ==
    /\ a \in online
    /\ StartSquawkUpdate(a, Conspicuity, "create")
    /\ UNCHANGED <<online, stored, expiring, allocationQueue, failedDeletes>>

DeleteApiSquawkAndSetTo(a, s) ==
    /\ a \in online
    /\ StartSquawkUpdate(a, s, "delete")
    /\ stored' = Remember(stored, a, s)
    /\ UNCHANGED <<online, expiring, allocationQueue, failedDeletes>>

\* AttemptAssignment: circuits, then the previous squawk, then a request, which
\* looks for an assignment first unless the stored flightplan differs from the
\* one that is filed.  All four rules ask that no squawk is assigned.
AttemptAssignment(a, previous, differs) ==
    /\ ~HasAssignedSquawk(squawk[a])
    /\ \/ /\ SetSquawk(a, Circuit)
          /\ UNCHANGED <<squawkRequests, tasks, history>>
       \/ /\ HasPreviouslyAssignedSquawk(previous)
          /\ SetSquawk(a, previous)
          /\ UNCHANGED <<squawkRequests, tasks, history>>
       \/ /\ ~HasPreviouslyAssignedSquawk(previous)
          /\ StartSquawkUpdate(a, Conspicuity, IF differs THEN "create" ELSE "lookup")
    /\ UNCHANGED <<online, allocationQueue, failedDeletes>>

\* SquawkEventHandler::TimedEventTrigger and ActiveCallsignAdded, for one of the
\* aircraft they go through
AttemptAssignSquawks(a) ==
    /\ a \in online
    /\ \/ AttemptAssignment(a, stored[a], FALSE)
       \/ stored[a] # NotStored /\ AttemptAssignment(a, stored[a], TRUE)
    /\ UNCHANGED <<stored, expiring>>

\* The handlers of a flightplan event are called in the order in which they were
\* registered: StoredFlightplanEventHandler comes before SquawkEventHandler.
FlightPlanEvent(a) ==
    LET now == IF HasAssignedSquawk(squawk[a]) THEN squawk[a] ELSE NotAllocated IN
    /\ a \in online
    /\ stored' = [stored EXCEPT ![a] = now]
    /\ expiring' = expiring \ {a}
    /\ \/ AttemptAssignment(a, now, FALSE)
       \/ UNCHANGED <<online, squawk, squawkRequests, tasks, allocationQueue,
                      failedDeletes, history>>
-------------------------------------------------------------------------------
(* The tasks, on worker threads.                                              *)

Proceed(t, at, s) == tasks' = (tasks \ {t}) \cup {[t EXCEPT !.at = at, !.squawk = s]}

Settle(a, s) == due' = IF due[a] = Interrupted THEN due ELSE [due EXCEPT ![a] = s]

\* GetSquawkAssignment without an assignment: not found, or an ApiException.
NothingFound(t) ==
    /\ t.at = "lookup"
    /\ Proceed(t, "create", t.squawk)
    /\ UNCHANGED <<flightplans, squawkRequests, allocationQueue, failedDeletes, history>>

\* GetSquawkAssignment, CreateGeneralSquawkAssignment or CreateLocalSquawkAssignment
ApiAllocates(t) ==
    /\ t.at \in {"lookup", "create"}
    /\ \E s \in Codes : Proceed(t, "answered", s) /\ Settle(t.of, s)
    /\ UNCHANGED <<flightplans, squawkRequests, allocationQueue, failedDeletes, calm>>

\* Broken: the request is not ended when the API throws.
CreateFailsAndReturns(t) ==
    /\ t.at = "create"
    /\ tasks' = tasks \ {t}
    /\ UNCHANGED <<flightplans, squawkRequests, allocationQueue, failedDeletes, history>>

\* An ApiException: the holding squawk stays.
CreateFails(t) ==
    /\ t.at = "create"
    /\ Proceed(t, "ending", t.squawk)
    /\ UNCHANGED <<flightplans, squawkRequests, allocationQueue, failedDeletes, history>>

\* The insertion leaves an element for the same callsign as it is.
AddAllocationToQueue(t) ==
    /\ t.at = "answered"
    /\ allocationQueue' = [a \in DOMAIN allocationQueue \cup {t.of} |->
           IF a \in DOMAIN allocationQueue THEN allocationQueue[a] ELSE t.squawk]
    /\ Proceed(t, "ending", t.squawk)
    /\ UNCHANGED <<flightplans, squawkRequests, failedDeletes, history>>

DeleteSucceeds(t) ==
    /\ t.at = "delete"
    /\ Proceed(t, "ending", t.squawk)
    /\ UNCHANGED <<flightplans, squawkRequests, allocationQueue, failedDeletes, history>>

\* Broken: the squawk to go back to is read when the deletion has failed.
DeleteFailsReadsLate(t) ==
    /\ t.at = "delete"
    /\ Len(failedDeletes) < MaxFailures
    /\ failedDeletes' = Append(failedDeletes, [of |-> t.of, previous |-> squawk[t.of]])
    /\ Settle(t.of, t.squawk)
    /\ Proceed(t, "ending", t.squawk)
    /\ UNCHANGED <<flightplans, squawkRequests, allocationQueue, calm>>

\* An ApiException: an event for the EuroScope thread.
DeleteFails(t) ==
    /\ t.at = "delete"
    /\ Len(failedDeletes) < MaxFailures
    /\ failedDeletes' = Append(failedDeletes, [of |-> t.of, previous |-> t.squawk])
    /\ Settle(t.of, t.squawk)
    /\ Proceed(t, "ending", t.squawk)
    /\ UNCHANGED <<flightplans, squawkRequests, allocationQueue, calm>>

EndSquawkUpdate(t) ==
    /\ t.at = "ending"
    /\ squawkRequests' = squawkRequests \ {t.of}
    /\ tasks' = tasks \ {t}
    /\ UNCHANGED <<flightplans, allocationQueue, failedDeletes, history>>

RunTask(t) ==
    \/ NothingFound(t) \/ ApiAllocates(t) \/ CreateFails(t)
    \/ AddAllocationToQueue(t)
    \/ DeleteSucceeds(t) \/ DeleteFails(t)
    \/ EndSquawkUpdate(t)

TaskOf(a) == \E t \in tasks : t.of = a /\ RunTask(t)
-------------------------------------------------------------------------------
(* Answers, on the EuroScope thread.                                          *)

\* ApiSquawkAllocationHandler::TimedEventTrigger
FlushAllocations ==
    /\ DOMAIN allocationQueue # {}
    /\ squawk' = [a \in Aircraft |-> IF a \in online \cap DOMAIN allocationQueue
                                     THEN allocationQueue[a] ELSE squawk[a]]
    /\ allocationQueue' = [a \in {} |-> Unassigned]
    /\ UNCHANGED <<online, stored, expiring, squawkRequests, tasks, failedDeletes, history>>

\* ResetSquawkOnFailedDelete::OnEvent
ResetSquawkOnFailedDelete ==
    /\ failedDeletes # <<>>
    /\ LET event == Head(failedDeletes) IN
       IF event.of \in online
       THEN /\ SetSquawk(event.of, event.previous)
            /\ stored' = Remember(stored, event.of, event.previous)
       ELSE UNCHANGED <<squawk, stored>>
    /\ failedDeletes' = Tail(failedDeletes)
    /\ UNCHANGED <<online, expiring, squawkRequests, tasks, allocationQueue, history>>
-------------------------------------------------------------------------------
(* EuroScope and the other controllers.                                       *)

\* An aircraft connects with the squawk it had, or with none.
Connect(a) ==
    /\ a \notin online
    /\ online' = online \cup {a}
    /\ SetSquawk(a, Unassigned) \/ UNCHANGED squawk
    /\ UNCHANGED <<stored, expiring, squawkRequests, tasks, allocationQueue, failedDeletes, history>>

Disconnect(a) ==
    /\ a \in online
    /\ online' = online \ {a}
    /\ expiring' = IF stored[a] = NotStored THEN expiring ELSE expiring \cup {a}
    /\ due' = [due EXCEPT ![a] = Interrupted]
    /\ UNCHANGED <<squawk, stored, squawkRequests, tasks, allocationQueue, failedDeletes, calm>>

\* RemoveTimedOutPlans, for one flightplan
RemoveTimedOutPlan(a) ==
    /\ a \in expiring
    /\ stored' = [stored EXCEPT ![a] = NotStored]
    /\ expiring' = expiring \ {a}
    /\ UNCHANGED <<online, squawk, squawkRequests, tasks, allocationQueue, failedDeletes, history>>

\* EuroScope tells of a squawk: one assigned here, or one that another controller
\* assigns or takes away now.
ControllerFlightPlanDataEvent(a) ==
    /\ a \in online
    /\ \/ /\ stored' = Remember(stored, a, squawk[a])
          /\ UNCHANGED <<squawk, due>>
       \/ \E s \in Squawks \ {squawk[a]} :
             /\ SetSquawk(a, s)
             /\ stored' = Remember(stored, a, s)
             /\ due' = [due EXCEPT ![a] = Interrupted]
    /\ UNCHANGED <<online, expiring, squawkRequests, tasks, allocationQueue, failedDeletes, calm>>
-------------------------------------------------------------------------------

UserCommand(a) ==
    \/ ForceSquawkForAircraft(a)
    \/ \E s \in Fixed \cup {Unassigned} : DeleteApiSquawkAndSetTo(a, s)

Next ==
    \/ \E a \in Aircraft : \/ UserCommand(a)
                           \/ AttemptAssignSquawks(a)
                           \/ FlightPlanEvent(a)
                           \/ TaskOf(a)
                           \/ Connect(a) \/ Disconnect(a)
                           \/ RemoveTimedOutPlan(a)
                           \/ ControllerFlightPlanDataEvent(a)
    \/ FlushAllocations
    \/ ResetSquawkOnFailedDelete

\* Workers run their tasks, every HTTP call comes to an end, and EuroScope's
\* timer triggers the timed events.
Fairness ==
    /\ \A a \in Aircraft : WF_vars(TaskOf(a))
    /\ WF_vars(FlushAllocations)
    /\ WF_vars(ResetSquawkOnFailedDelete)

Spec == Init /\ [][Next]_vars /\ Fairness
-------------------------------------------------------------------------------

TypeOK ==
    /\ online \subseteq Aircraft
    /\ squawk \in [Aircraft -> Squawks]
    /\ stored \in [Aircraft -> Squawks \cup {NotStored}]
    /\ expiring \subseteq {a \in Aircraft : stored[a] # NotStored}
    /\ squawkRequests \subseteq Aircraft
    /\ tasks \subseteq Task
    /\ DOMAIN allocationQueue \subseteq Aircraft
    /\ \A a \in DOMAIN allocationQueue : allocationQueue[a] \in Squawks
    /\ failedDeletes \in Seq([of : Aircraft, previous : Squawks])
    /\ due \in [Aircraft -> Squawks \cup {Interrupted}]
    /\ calm \subseteq Aircraft

\* There is exactly one task for an aircraft in squawkRequests and none for any
\* other, so that the API never works on two requests of this plugin for the same
\* aircraft (SquawkGenerator: "to prevent duplicate requests").
OneRequestEach ==
    /\ squawkRequests = {t.of : t \in tasks}
    /\ \A t, u \in tasks : t.of = u.of => t = u

\* Nothing is under way for the aircraft any more.
Quiet(a) == a \notin squawkRequests /\ ~Waiting(a)

\* The last request of the aircraft came to a squawk, and nobody else has
\* touched it: an unassigned squawk is no promise, as the timer replaces it.
Promised(a) == due[a] # Interrupted /\ HasAssignedSquawk(due[a])

\* When all is quiet an aircraft has the squawk its last request came to: the
\* code of the API's answer, the squawk the controller chose, or after a failed
\* deletion the one before.  Stated for requests that began when no answer to an
\* earlier one was waiting for the timer; the others are the subject of
\* ChosenSquawkStands.
OrderlyAnswersStand ==
    \A a \in online \cap calm : Quiet(a) /\ Promised(a) => squawk[a] = due[a]

\* No aircraft is locked out of squawk requests: each request comes to its end,
\* whatever the API answers and whether or not the aircraft stays.
RequestsEnd == \A a \in Aircraft : a \in squawkRequests ~> a \notin squawkRequests
-------------------------------------------------------------------------------
(* Statements about the program that it does not live up to.                  *)

\* SquawkGenerator.cpp, of the squawk a controller chooses: "Removes the API squawk
\* assignment and changes the EuroScope callotion to the provided squawk."  The
\* answer to an earlier request may still wait, and is assigned afterwards.
ChosenSquawkStands ==
    \A a \in online : Quiet(a) /\ due[a] \in {Circuit, Manual} => squawk[a] = due[a]

\* SquawkGenerator.cpp: "If an aircraft has a previously assigned squawk but it's
\* gone somewhere (e.g. disconnect), reassign it."
PreviousSquawkReassigned ==
    [][\A a \in Aircraft :
          stored[a] \in Codes \cup Fixed /\ ~HasAssignedSquawk(squawk[a]) =>
             \A t \in tasks' \ tasks : t.of = a => t.at # "lookup"]_vars
===============================================================================
