------------------------------- MODULE PushEvents -------------------------------
(***************************************************************************)
(* The push event transport of the plugin (src/src/plugin/push), which     *)
(* polls the API for new events.  Two kinds of thread take part.  The      *)
(* EuroScope thread triggers PollingPushEventConnection and                *)
(* PushEventProtocolHandler once a second.  A worker of the TaskRunner     *)
(* runs the task that asks the API where the log is (SyncEvents), and      *)
(* later, one at a time, the tasks that fetch what is new in it            *)
(* (GetLatestEvents).                                                      *)
(*                                                                         *)
(* Event ids are consecutive here: only their order matters to the code.   *)
(***************************************************************************)
EXTENDS Integers, Sequences

CONSTANTS MaxEventId,       \* bound: the id of the last event ever published
          Processors,       \* PushEventProcessorCollection::allEventProcessors
          ByChannel,        \* the processors subscribed to the channel of an event
          ByEvent,          \* the processors subscribed to the name of an event
          ByAll,            \* globalEventProcessors
          Malformed,        \* events PluginEventValid refuses
          Uninterpretable   \* events InterpretPushedEvent turns into invalidMessage

EventIds == 1..MaxEventId

ASSUME BoundAssumption == MaxEventId \in Nat
ASSUME SubscriptionAssumption ==
    /\ ByChannel \in [EventIds -> SUBSET Processors]
    /\ ByEvent \in [EventIds -> SUBSET Processors]
    /\ ByAll \subseteq Processors

Usable == EventIds \ (Malformed \cup Uninterpretable)
Wants  == [e \in EventIds |-> ByChannel[e] \cup ByEvent[e] \cup ByAll]

VARIABLES published,         \* the API: the id of the newest event
          lastEventId,       \* -1 until synced
          syncInProgress,
          updateInProgress,
          polledRecently,    \* now - lastPollTime < pollInterval
          syncTask,          \* the task SyncEvents queued
          fetchTask,         \* the task GetLatestEvents queued
          inboundMessages,
          draining,          \* PushEventProtocolHandler is in its loop
          received,          \* history: the events each processor was given
          cursor             \* history: the last event handed out, or where
                             \* the sync put us before the first one

vars == <<published, lastEventId, syncInProgress, updateInProgress, polledRecently,
          syncTask, fetchTask, inboundMessages, draining, received, cursor>>

\* A task is not there, waits or is inside its HTTP call, or has an answer to
\* work off.
Idle == "idle"
Called == "called"
Answered == "answered"
Pushing == "pushing"     \* fetchTask only: inboundMessageQueueGuard is held
Finishing == "finishing"

NoSync  == [at |-> Idle, id |-> -1]
NoFetch == [at |-> Idle, next |-> 1, upTo |-> 0]

-------------------------------------------------------------------------------

Init == /\ published = 0
        /\ lastEventId = -1
        /\ syncInProgress = FALSE
        /\ updateInProgress = FALSE
        /\ polledRecently = FALSE
        /\ syncTask = NoSync
        /\ fetchTask = NoFetch
        /\ inboundMessages = <<>>
        /\ draining = FALSE
        /\ received = [p \in Processors |-> <<>>]
        /\ cursor = -1

\* Another controller's action, or one of ours, appends an event at the API.
Publish ==
    /\ published < MaxEventId
    /\ published' = published + 1
    /\ UNCHANGED <<lastEventId, syncInProgress, updateInProgress, polledRecently,
                   syncTask, fetchTask, inboundMessages, draining, received, cursor>>

PollIntervalPasses ==
    /\ polledRecently
    /\ polledRecently' = FALSE
    /\ UNCHANGED <<published, lastEventId, syncInProgress, updateInProgress,
                   syncTask, fetchTask, inboundMessages, draining, received, cursor>>
-------------------------------------------------------------------------------
(* PollingPushEventConnection::TimedEventTrigger on the EuroScope thread,     *)
(* which is never inside the loop of PushEventProtocolHandler at the time.    *)

PollDue == ~polledRecently /\ ~draining

SyncEvents ==
    /\ PollDue
    /\ lastEventId = -1
    /\ ~syncInProgress
    /\ syncInProgress' = TRUE
    /\ syncTask' = [NoSync EXCEPT !.at = Called]
    /\ UNCHANGED <<published, lastEventId, updateInProgress, polledRecently,
                   fetchTask, inboundMessages, draining, received, cursor>>

GetLatestEvents ==
    /\ PollDue
    /\ lastEventId # -1
    /\ ~updateInProgress
    /\ updateInProgress' = TRUE
    /\ fetchTask' = [NoFetch EXCEPT !.at = Called]
    /\ UNCHANGED <<published, lastEventId, syncInProgress, polledRecently,
                   syncTask, inboundMessages, draining, received, cursor>>
-------------------------------------------------------------------------------
(* The task of SyncEvents on a worker thread.                                 *)

SyncAnswered ==
    /\ syncTask.at = Called
    /\ syncTask' = [at |-> Answered, id |-> published]
    /\ UNCHANGED <<published, lastEventId, syncInProgress, updateInProgress, polledRecently,
                   fetchTask, inboundMessages, draining, received, cursor>>

\* The answer is not an object with an integer event_id.  The flag that is
\* cleared is updateInProgress.
SyncInvalid ==
    /\ syncTask.at = Called
    /\ polledRecently' = TRUE
    /\ updateInProgress' = FALSE
    /\ syncTask' = NoSync
    /\ UNCHANGED <<published, lastEventId, syncInProgress,
                   fetchTask, inboundMessages, draining, received, cursor>>

\* SyncPluginEvents throws an ApiException.
SyncFailed ==
    /\ syncTask.at = Called
    /\ polledRecently' = TRUE
    /\ syncInProgress' = FALSE
    /\ syncTask' = NoSync
    /\ UNCHANGED <<published, lastEventId, updateInProgress,
                   fetchTask, inboundMessages, draining, received, cursor>>

\* lastEventId is set before the processors hear of it, so from here on the
\* EuroScope thread may fetch while PluginEventsSynced still runs.
SyncApplied ==
    /\ syncTask.at = Answered
    /\ lastEventId' = syncTask.id
    /\ cursor' = syncTask.id
    /\ syncTask' = [syncTask EXCEPT !.at = Finishing]
    /\ UNCHANGED <<published, syncInProgress, updateInProgress, polledRecently,
                   fetchTask, inboundMessages, draining, received>>

SyncFinished ==
    /\ syncTask.at = Finishing
    /\ syncInProgress' = FALSE
    /\ syncTask' = NoSync
    /\ UNCHANGED <<published, lastEventId, updateInProgress, polledRecently,
                   fetchTask, inboundMessages, draining, received, cursor>>
-------------------------------------------------------------------------------
(* The task of GetLatestEvents on a worker thread.                            *)

\* Broken: the last event is asked for once more.
FetchAnsweredInclusive ==
    /\ fetchTask.at = Called
    /\ fetchTask' = [at |-> Pushing, next |-> lastEventId, upTo |-> published]
    /\ UNCHANGED <<published, lastEventId, syncInProgress, updateInProgress, polledRecently,
                   syncTask, inboundMessages, draining, received, cursor>>

\* The API answers with everything after lastEventId, oldest first, and the
\* task takes inboundMessageQueueGuard.
FetchAnswered ==
    /\ fetchTask.at = Called
    /\ fetchTask' = [at |-> Pushing, next |-> lastEventId + 1, upTo |-> published]
    /\ UNCHANGED <<published, lastEventId, syncInProgress, updateInProgress, polledRecently,
                   syncTask, inboundMessages, draining, received, cursor>>

\* Broken: the early return forgets the flag, as the one of the sync does.
FetchInvalidKeepsFlag ==
    /\ fetchTask.at = Called
    /\ polledRecently' = TRUE
    /\ fetchTask' = NoFetch
    /\ UNCHANGED <<published, lastEventId, syncInProgress, updateInProgress,
                   syncTask, inboundMessages, draining, received, cursor>>

\* The answer is not an array: the task has done with it at once.
FetchInvalid ==
    /\ fetchTask.at = Called
    /\ polledRecently' = TRUE
    /\ updateInProgress' = FALSE
    /\ fetchTask' = NoFetch
    /\ UNCHANGED <<published, lastEventId, syncInProgress,
                   syncTask, inboundMessages, draining, received, cursor>>

\* GetLatestPluginEvents throws an ApiException.
FetchFailed ==
    /\ fetchTask.at = Called
    /\ fetchTask' = [NoFetch EXCEPT !.at = Finishing]
    /\ UNCHANGED <<published, lastEventId, syncInProgress, updateInProgress, polledRecently,
                   syncTask, inboundMessages, draining, received, cursor>>

\* One round of the loop over the answer.
PushMessage ==
    LET id == fetchTask.next IN
    /\ fetchTask.at = Pushing
    /\ id <= fetchTask.upTo
    /\ fetchTask' = [fetchTask EXCEPT !.next = id + 1]
    /\ \/ /\ id \in Malformed
          /\ UNCHANGED <<inboundMessages, lastEventId>>
       \/ /\ id \notin Malformed
          /\ inboundMessages' = Append(inboundMessages, id)
          /\ lastEventId' = IF id > lastEventId THEN id ELSE lastEventId
    /\ UNCHANGED <<published, syncInProgress, updateInProgress, polledRecently,
                   syncTask, draining, received, cursor>>

\* The guard is given up at the end of the try block.
PushedAll ==
    /\ fetchTask.at = Pushing
    /\ fetchTask.next > fetchTask.upTo
    /\ fetchTask' = [NoFetch EXCEPT !.at = Finishing]
    /\ UNCHANGED <<published, lastEventId, syncInProgress, updateInProgress, polledRecently,
                   syncTask, inboundMessages, draining, received, cursor>>

FetchFinished ==
    /\ fetchTask.at = Finishing
    /\ polledRecently' = TRUE
    /\ updateInProgress' = FALSE
    /\ fetchTask' = NoFetch
    /\ UNCHANGED <<published, lastEventId, syncInProgress,
                   syncTask, inboundMessages, draining, received, cursor>>
-------------------------------------------------------------------------------
(* PushEventProtocolHandler::TimedEventTrigger on the EuroScope thread.       *)

QueueFree == fetchTask.at # Pushing

StartDraining ==
    /\ ~draining
    /\ draining' = TRUE
    /\ UNCHANGED <<published, lastEventId, syncInProgress, updateInProgress, polledRecently,
                   syncTask, fetchTask, inboundMessages, received, cursor>>

\* GetNextMessage returned noMessage.
StopDraining ==
    /\ draining
    /\ QueueFree
    /\ inboundMessages = <<>>
    /\ draining' = FALSE
    /\ UNCHANGED <<published, lastEventId, syncInProgress, updateInProgress, polledRecently,
                   syncTask, fetchTask, inboundMessages, received, cursor>>

\* Call ProcessPushEvent of each of the processors with the event.
Call(calls, processors, e) ==
    [p \in Processors |-> IF p \in processors THEN Append(calls[p], e) ELSE calls[p]]

\* Broken: calledProcessors is not consulted.
ProcessEventRepeating(calls, e) ==
    Call(Call(Call(calls, ByChannel[e], e), ByEvent[e], e), ByAll, e)

\* PushEventProcessorCollection::ProcessEvent: by channel, then by event, then
\* the global processors, leaving out in each round those called before.
ProcessEvent(calls, e) ==
    LET channel == Call(calls, ByChannel[e], e)
        event   == Call(channel, ByEvent[e] \ ByChannel[e], e)
    IN  Call(event, ByAll \ (ByChannel[e] \cup ByEvent[e]), e)

\* One round of the loop: GetNextMessage, InterpretPushedEvent, ProcessEvent.
ProcessNextMessage ==
    LET e == Head(inboundMessages) IN
    /\ draining
    /\ QueueFree
    /\ inboundMessages # <<>>
    /\ inboundMessages' = Tail(inboundMessages)
    /\ \/ /\ e \in Uninterpretable
          /\ UNCHANGED <<received, cursor>>
       \/ /\ e \notin Uninterpretable
          /\ received' = ProcessEvent(received, e)
          /\ cursor' = e
    /\ UNCHANGED <<published, lastEventId, syncInProgress, updateInProgress, polledRecently,
                   syncTask, fetchTask, draining>>
-------------------------------------------------------------------------------

SyncAnswer  == SyncAnswered \/ SyncInvalid \/ SyncFailed
FetchAnswer == FetchAnswered \/ FetchInvalid \/ FetchFailed

Next ==
    \/ Publish
    \/ PollIntervalPasses
    \/ SyncEvents \/ GetLatestEvents
    \/ SyncAnswer \/ SyncApplied \/ SyncFinished
    \/ FetchAnswer \/ PushMessage \/ PushedAll \/ FetchFinished
    \/ StartDraining \/ StopDraining \/ ProcessNextMessage

\* EuroScope keeps triggering the two timed events, one after the other, so a
\* poll that is due is started although the other event keeps draining in
\* between (strong fairness).  The workers run their tasks and every HTTP call
\* comes to an end.  An API that is asked again and again answers once in a while.
Fairness ==
    /\ WF_vars(PollIntervalPasses)
    /\ SF_vars(SyncEvents) /\ SF_vars(GetLatestEvents)
    /\ WF_vars(SyncAnswer) /\ SF_vars(SyncAnswered)
    /\ WF_vars(SyncApplied) /\ WF_vars(SyncFinished)
    /\ WF_vars(FetchAnswer) /\ SF_vars(FetchAnswered)
    /\ WF_vars(PushMessage) /\ WF_vars(PushedAll) /\ WF_vars(FetchFinished)
    /\ WF_vars(StartDraining) /\ WF_vars(StopDraining) /\ WF_vars(ProcessNextMessage)

SafetySpec == Init /\ [][Next]_vars
Spec == SafetySpec /\ Fairness
-------------------------------------------------------------------------------

TypeOK ==
    /\ published \in 0..MaxEventId
    /\ lastEventId \in -1..MaxEventId
    /\ syncInProgress \in BOOLEAN
    /\ updateInProgress \in BOOLEAN
    /\ polledRecently \in BOOLEAN
    /\ syncTask \in [at : {Idle, Called, Answered, Finishing}, id : -1..MaxEventId]
    /\ fetchTask \in [at : {Idle, Called, Pushing, Finishing},
                      next : 0..(MaxEventId + 1), upTo : 0..MaxEventId]
    /\ inboundMessages \in Seq(EventIds)
    /\ draining \in BOOLEAN
    /\ received \in [Processors -> Seq(EventIds)]
    /\ cursor \in -1..MaxEventId

\* The queue between the two threads holds, oldest first and once each, exactly
\* the events that were fetched and not handed out yet: no poll fetches an event
\* twice or leaves one out, also when the worker fills the queue while the
\* EuroScope thread empties it and when a poll fails half way.
InboundIsBacklog ==
    /\ \A i, j \in 1..Len(inboundMessages) :
          i < j => inboundMessages[i] < inboundMessages[j]
    /\ \A i \in 1..Len(inboundMessages) :
          cursor < inboundMessages[i] /\ inboundMessages[i] <= lastEventId
    /\ \A e \in Usable : (cursor # -1 /\ cursor < e /\ e <= lastEventId) =>
          \E i \in 1..Len(inboundMessages) : inboundMessages[i] = e

\* The transport keeps the promise of EventStream.
Stream == INSTANCE EventStream
              WITH MaxEventId <- MaxEventId, Processors <- Processors, Usable <- Usable,
                   Wants <- Wants, published <- published, cursor <- cursor,
                   received <- received
StreamSpec == Stream!Spec

\* Once synced, a usable event that is published reaches every processor that
\* subscribed to it, whatever answers the API gave in between.
SubscribersHear ==
    \A e \in Usable : \A p \in Wants[e] :
        (cursor # -1 /\ cursor < e /\ e <= published)
            ~> (\E i \in 1..Len(received[p]) : received[p][i] = e)

\* PollingPushEventConnection.h says of syncInProgress: "Whether or not we're
\* currently syncing events".  A sync ends, so the flag should come down.
SyncFlagComesDown == syncInProgress ~> ~syncInProgress
===============================================================================
