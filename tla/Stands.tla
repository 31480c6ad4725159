-------------------------------- MODULE Stands --------------------------------
(***************************************************************************)
(* Stand assignments (src/src/plugin/stands).  The user's edits change the *)
(* map at once and a task tells the API; every change at the API comes     *)
(* back as a push event, in order, to all users.  A stand asked of the API *)
(* is asked on the user's thread, which holds the lock of the map until    *)
(* the answer is written; the list of all assignments, asked for at        *)
(* synchronisation, is written by its task after events of its own time.   *)
(* The transport of the events is an abstract one here: it attaches to the *)
(* log of events once, and delivers what was published after that place.   *)
(***************************************************************************)
EXTENDS Naturals, Sequences, BagsExt, SequencesExt

CONSTANTS StandAircraft, StandIds,
          NoStand,
          MaxStandTasks,    \* bound: tasks at a time
          MaxStandEvents    \* bound: push events on their way

ASSUME StandsAssumption == NoStand \notin StandIds /\ MaxStandTasks \in Nat /\ MaxStandEvents \in Nat

VARIABLES standAssignments,
          standsAtApi,     \* external: the assignments the API holds
          standsAttached,  \* external: the transport of push events has synced
          standEvents,     \* push events that are still to be processed
          standTasks,      \* a bag: the tasks queued or at work
          standsAdrift,    \* history: the aircraft whose entry may have gone
                           \* wrong and was not confirmed by the API since
          standsOvertaken  \* history: the aircraft an event was processed of
                           \* that the list fetched before disagrees with

standsVars == <<standAssignments, standsAtApi, standsAttached, standEvents, standTasks,
               standsAdrift, standsOvertaken>>

Assignments == [StandAircraft -> StandIds \cup {NoStand}]
StandEvent == [of : StandAircraft, stand : StandIds \cup {NoStand}]

\* Tasks about to call the API, and tasks with an answer to write into the map
StandTask ==
    [do : {"tell"}, of : StandAircraft, stand : StandIds \cup {NoStand}]
    \cup [do : {"list"}]
    \cup [do : {"load"}, list : Assignments]

standsHistory == <<standsAdrift, standsOvertaken>>
StandTasks == BagToSet(standTasks)
QueueStandTask(t) == /\ BagCardinality(standTasks) < MaxStandTasks
                     /\ standTasks' = BagAdd(standTasks, t)

\* AssignStandToAircraft and UnassignStandForAircraft
Assign(a, s) == standAssignments' = [standAssignments EXCEPT ![a] = s]

\* The API gives an aircraft a stand or none, and publishes it.
Record(a, s) ==
    /\ Len(standEvents) < MaxStandEvents
    /\ standsAtApi' = [standsAtApi EXCEPT ![a] = s]
    /\ standEvents' = IF standsAttached THEN Append(standEvents, [of |-> a, stand |-> s])
                                        ELSE standEvents
    /\ UNCHANGED standsAttached

standsApiVars == <<standsAtApi, standsAttached, standEvents>>

\* DoStandAssignment with a stand, or AssignStandInApi
AssignStand(a, s) ==
    /\ Assign(a, s)
    /\ QueueStandTask([do |-> "tell", of |-> a, stand |-> s])
    /\ UNCHANGED <<standsApiVars, standsHistory>>

\* DoStandAssignment with no stand, or the integration's unassign_stand
UnassignStand(a) ==
    /\ standAssignments[a] # NoStand
    /\ Assign(a, NoStand)
    /\ QueueStandTask([do |-> "tell", of |-> a, stand |-> NoStand])
    /\ UNCHANGED <<standsApiVars, standsHistory>>

\* RequestStandFromApi: a request and its answer.  An answer that does not come,
\* or names an unknown stand, leaves the map although the API gave a stand.  The
\* departure's request does not return, so that an aircraft between two airfields
\* of the user takes this step twice.
AutoStand(a, s) ==
    /\ Record(a, s)
    /\ UNCHANGED standAssignments \/ Assign(a, s)
    /\ UNCHANGED <<standTasks, standsHistory>>

\* PluginEventsSynced
AskForStands ==
    /\ QueueStandTask([do |-> "list"])
    /\ UNCHANGED <<standAssignments, standsApiVars, standsHistory>>

\* The transport says once that it has synced, after it has.
StandsSynced ==
    /\ standsAttached
    /\ \A t \in StandTasks : t.do \notin {"list", "load"}
    /\ AskForStands

Replace(t, u) == standTasks' = BagAdd(BagRemove(standTasks, t), u)
Finish(t) == standTasks' = BagRemove(standTasks, t)

StandTold(t) ==
    /\ t.do = "tell"
    /\ Record(t.of, t.stand)
    /\ Finish(t)
    /\ UNCHANGED <<standAssignments, standsHistory>>

StandsListed(t) ==
    /\ t.do = "list"
    /\ Replace(t, [do |-> "load", list |-> standsAtApi])
    /\ UNCHANGED <<standAssignments, standsApiVars, standsHistory>>

\* The error is logged; what was written at once is left.
StandCallFailed(t) ==
    /\ t.do \in {"tell", "list"}
    /\ Finish(t)
    /\ standsAdrift' = IF t.do = "tell" THEN standsAdrift \cup {t.of} ELSE standsAdrift
    /\ UNCHANGED <<standAssignments, standsApiVars, standsOvertaken>>

\* The map is cleared and filled again.
LoadAssignedStands(t) ==
    /\ t.do = "load"
    /\ standAssignments' = t.list
    /\ Finish(t)
    /\ standsAdrift' = standsOvertaken
    /\ standsOvertaken' = {}
    /\ UNCHANGED standsApiVars

\* Broken: the event of an aircraft that left its stand is not handled.
ApplyStandEventAssigning(e) ==
    /\ IF e.stand = NoStand THEN UNCHANGED standAssignments ELSE Assign(e.of, e.stand)
    /\ standsAdrift' = standsAdrift \ {e.of}
    /\ UNCHANGED <<standTasks, standsOvertaken>>

\* ProcessPushEvent
ApplyStandEvent(e) ==
    LET passed == \E t \in StandTasks : t.do = "load" /\ t.list[e.of] # e.stand
    IN  /\ Assign(e.of, e.stand)
        /\ standsAdrift' = standsAdrift \ {e.of}
        /\ standsOvertaken' = IF passed THEN standsOvertaken \cup {e.of} ELSE standsOvertaken
        /\ UNCHANGED standTasks

\* The transport delivers the events in order and once each.
ProcessStandEvent ==
    /\ standEvents # <<>>
    /\ ApplyStandEvent(Head(standEvents))
    /\ standEvents' = Tail(standEvents)
    /\ UNCHANGED <<standsAtApi, standsAttached>>

\* The last of the events of an aircraft says what the API holds.
EndWithApi(events) ==
    \A i \in 1..Len(events) :
        (\A j \in 1..Len(events) : j > i => events[j].of # events[i].of)
            => events[i].stand = standsAtApi[events[i].of]

\* The transport finds its place in the log: what was published before is lost,
\* and what was published since is still to come.
StandsAttach ==
    /\ ~standsAttached
    /\ standsAttached' = TRUE
    /\ \E events \in BoundedSeq(StandEvent, MaxStandEvents) :
          EndWithApi(events) /\ standEvents' = events
    /\ UNCHANGED <<standAssignments, standsAtApi, standTasks, standsHistory>>

\* External: another user's edit, or the API's own allocator
OthersAssign(a, s) ==
    /\ standsAtApi[a] # s
    /\ Record(a, s)
    /\ UNCHANGED <<standAssignments, standTasks, standsHistory>>

StandsInit ==
    /\ standAssignments = [a \in StandAircraft |-> NoStand]
    /\ standsAtApi \in Assignments
    /\ standsAttached = FALSE
    /\ standEvents = <<>>
    /\ standTasks = EmptyBag
    /\ standsAdrift = StandAircraft
    /\ standsOvertaken = {}

StandsNext ==
    \/ \E a \in StandAircraft, s \in StandIds : AssignStand(a, s) \/ AutoStand(a, s)
    \/ \E a \in StandAircraft : UnassignStand(a)
    \/ StandsAttach
    \/ StandsSynced
    \/ \E t \in StandTasks : StandTold(t) \/ StandsListed(t) \/ StandCallFailed(t)
    \/ \E t \in StandTasks : LoadAssignedStands(t)
    \/ ProcessStandEvent
    \/ \E a \in StandAircraft, s \in StandIds \cup {NoStand} : OthersAssign(a, s)

StandsSpec == StandsInit /\ [][StandsNext]_standsVars

StandsTypeOK ==
    /\ standAssignments \in Assignments
    /\ standsAtApi \in Assignments
    /\ standsAttached \in BOOLEAN
    /\ standEvents \in Seq(StandEvent)
    /\ StandTasks \subseteq StandTask
    /\ standsAdrift \subseteq StandAircraft
    /\ standsOvertaken \subseteq StandAircraft

StandSettled(a) ==
    /\ \A e \in Range(standEvents) : e.of # a
    /\ \A t \in StandTasks : t.do \notin {"list", "load"} /\ t.of # a

(* Once an aircraft has no task and no event left, the map shows what the  *)
(* API holds.  It may not after a call failed, or after the list was       *)
(* written later than a newer event, and only until the next event.        *)
StandsConverge ==
    \A a \in StandAircraft : StandSettled(a) /\ a \notin standsAdrift =>
        standAssignments[a] = standsAtApi[a]
===============================================================================
