---------------------------- MODULE StandsOverPush ----------------------------
(***************************************************************************)
(* The stands with the transport they really have.  The API writes every   *)
(* change of a stand into its log of events; StandEventHandler is one of   *)
(* the processors PollingPushEventConnection and PushEventProtocolHandler  *)
(* call with what they read from that log, and is told when the task of    *)
(* SyncEvents has set the place to read from.                              *)
(*                                                                         *)
(* Stands has an abstract transport.  The variables it is made of,         *)
(* standsAttached and standEvents, are histories here: no action reads     *)
(* them, and each states what the abstract transport would hold.           *)
(***************************************************************************)
EXTENDS PushEvents, Stands

CONSTANT StandEventHandler   \* the processor

ASSUME HandlerAssumption == StandEventHandler \in Processors
ASSUME RoomAssumption == MaxEventId <= MaxStandEvents

VARIABLES standLog,     \* external: the stand events published, oldest first
          standsUpTo    \* external: how many of them have an id up to each id

logVars == <<standLog, standsUpTo>>
overPushVars == <<vars, standsVars, logVars>>

\* The events on the channel of the stand assignments; the API writes them well.
IsStandEvent(id) == id \in Usable /\ StandEventHandler \in Wants[id]
StandEventWithId(id) == standLog[standsUpTo[id]]

StandsOverPushInit ==
    /\ Init
    /\ StandsInit
    /\ standLog = <<>>
    /\ standsUpTo = [id \in 0..MaxEventId |-> 0]

-------------------------------------------------------------------------------
(* The API.                                                                   *)

\* An event about something else
PublishOther ==
    /\ Publish
    /\ ~IsStandEvent(published')
    /\ standsUpTo' = [standsUpTo EXCEPT ![published'] = Len(standLog)]
    /\ UNCHANGED <<standLog, standsVars>>

\* The change of a stand becomes the newest event.
PublishStand(a, s) ==
    /\ Publish
    /\ IsStandEvent(published')
    /\ standLog' = Append(standLog, [of |-> a, stand |-> s])
    /\ standsUpTo' = [standsUpTo EXCEPT ![published'] = Len(standLog) + 1]

ApiStep ==
    \/ \E t \in StandTasks : t.do = "tell" /\ StandTold(t) /\ PublishStand(t.of, t.stand)
    \/ \E a \in StandAircraft, s \in StandIds \cup {NoStand} :
          OthersAssign(a, s) /\ PublishStand(a, s)
-------------------------------------------------------------------------------
(* The EuroScope thread, which edits no stand while it drains the queue.      *)

EditStep ==
    /\ ~draining
    /\ \/ \E a \in StandAircraft, s \in StandIds : AssignStand(a, s)
       \/ \E a \in StandAircraft : UnassignStand(a)
    /\ UNCHANGED <<vars, logVars>>

AutoStep ==
    /\ ~draining
    /\ \E a \in StandAircraft, s \in StandIds : AutoStand(a, s) /\ PublishStand(a, s)

\* PushEventProcessorCollection::ProcessEvent calls the handler, or does not.
DrainStep ==
    /\ ProcessNextMessage
    /\ IF received'[StandEventHandler] # received[StandEventHandler]
       THEN /\ ApplyStandEvent(StandEventWithId(Last(received'[StandEventHandler])))
            /\ standEvents' = Tail(standEvents)
       ELSE /\ UNCHANGED <<standAssignments, standTasks, standsHistory, standEvents>>
    /\ UNCHANGED <<standsAtApi, standsAttached, logVars>>
-------------------------------------------------------------------------------
(* The workers.                                                               *)

\* The tasks of StandEventHandler
TaskStep ==
    /\ \E t \in StandTasks : StandsListed(t) \/ StandCallFailed(t) \/ LoadAssignedStands(t)
    /\ UNCHANGED <<vars, logVars>>

\* Of the events the log holds those behind the place to read from are to come.
AttachStep ==
    /\ SyncApplied
    /\ standsAttached' = TRUE
    /\ standEvents' = SubSeq(standLog, standsUpTo[syncTask.id] + 1, Len(standLog))
    /\ UNCHANGED <<standAssignments, standsAtApi, standTasks, standsHistory, logVars>>

\* Broken: the processors are told also when the call failed.
SyncedStepOnFailure ==
    /\ SyncFinished \/ SyncFailed
    /\ AskForStands
    /\ UNCHANGED logVars

\* The end of the task of SyncEvents: the processors are told.
SyncedStep ==
    /\ SyncFinished
    /\ AskForStands
    /\ UNCHANGED logVars
-------------------------------------------------------------------------------

\* The transport by itself
PushStep ==
    /\ \/ PollIntervalPasses
       \/ SyncEvents \/ GetLatestEvents
       \/ SyncAnswer \/ FetchAnswer
       \/ PushMessage \/ PushedAll \/ FetchFinished
       \/ StartDraining \/ StopDraining
    /\ UNCHANGED <<standsVars, logVars>>

StandsOverPushNext ==
    \/ PublishOther \/ ApiStep
    \/ EditStep \/ AutoStep \/ DrainStep
    \/ TaskStep \/ AttachStep \/ SyncedStep
    \/ PushStep

StandsOverPushSpec == StandsOverPushInit /\ [][StandsOverPushNext]_overPushVars
-------------------------------------------------------------------------------

StandsOverPushTypeOK ==
    /\ TypeOK
    /\ StandsTypeOK
    /\ standLog \in Seq(StandEvent)
    /\ standsUpTo \in [0..MaxEventId -> 0..MaxEventId]

(* Every stand event after the sync was handed to the handler.             *)
StandsRead ==
    /\ cursor # -1
    /\ \A id \in (cursor + 1)..published : ~IsStandEvent(id)

(* When the plugin has read the log to its end, and no task of an aircraft *)
(* is left, the map shows what the API holds, unless a call failed or the  *)
(* list was written late, and only until the next event.                   *)
StandsMirrorApi ==
    StandsRead =>
        \A a \in StandAircraft \ standsAdrift :
            \/ \E t \in StandTasks : t.do \in {"list", "load"} \/ t.of = a
            \/ standAssignments[a] = standsAtApi[a]
===============================================================================
