---------------------------- MODULE MissedApproaches ----------------------------
(***************************************************************************)
(* Missed approaches (src/src/plugin/missedapproach).  The user triggers   *)
(* one by a task that calls the API and then adds it; the API's event of   *)
(* the same missed approach goes to everybody, the user included, and may  *)
(* be processed first, or while the task adds it.  The events are          *)
(* processed on the EuroScope thread, as is the timer that removes the     *)
(* expired ones.                                                           *)
(***************************************************************************)
EXTENDS Naturals, Sequences, BagsExt, SequencesExt

CONSTANTS MissedIds,            \* identifiers, in the order of the collection
          MissedAircraft,
          NotMissed,
          NoAircraft,
          MaxMissedTasks,       \* bound: tasks at a time
          MaxMissedEvents       \* bound: push events on their way

MissedApproach == [createdByUser : BOOLEAN, acknowledged : BOOLEAN]

ASSUME MissedAssumption ==
    /\ MissedIds \subseteq Nat
    /\ NotMissed \notin MissedApproach
    /\ NoAircraft \notin MissedAircraft
    /\ MaxMissedTasks \in Nat /\ MaxMissedEvents \in Nat

VARIABLES missedApproaches,   \* the collection
          missedExpired,      \* the identifiers whose expiry time has passed
          missedAtApi,        \* external: their state at the API
          missedOf,           \* external: the aircraft they are about
          missedEvents,       \* push events published and not processed yet
          missedChecked,      \* the first of them is of one that CheckForExisting did not find
          missedTasks,        \* a bag: the tasks queued or at work
          missedAlerts,       \* history: how often each was announced
          missedTriggered     \* history: those the user triggered

missedBackend == <<missedAtApi, missedOf>>
missedHistory == <<missedAlerts, missedTriggered>>
missedVars == <<missedApproaches, missedExpired, missedBackend, missedEvents, missedChecked,
                missedTasks, missedHistory>>

MissedEvent == [is : {"created", "acknowledged"}, id : MissedIds]
MissedTask == [do : {"create"}, of : MissedAircraft]
              \cup [do : {"add", "acknowledge", "mark"}, id : MissedIds]

MissedTasks == BagToSet(missedTasks)
QueueMissedTask(t) == /\ BagCardinality(missedTasks) < MaxMissedTasks
                      /\ missedTasks' = BagAdd(missedTasks, t)
ReplaceMissedTask(t, u) == missedTasks' = BagAdd(BagRemove(missedTasks, t), u)
FinishMissedTask(t) == missedTasks' = BagRemove(missedTasks, t)
PublishMissed(is, i) == /\ Len(missedEvents) < MaxMissedEvents
                        /\ missedEvents' = Append(missedEvents, [is |-> is, id |-> i])

Collected(i) == missedApproaches[i] # NotMissed

\* Get(callsign) returns the first, AlreadyActive asks if that one has expired.
AlreadyActive(a) ==
    \E i \in MissedIds : /\ Collected(i) /\ missedOf[i] = a /\ i \notin missedExpired
                         /\ \A j \in MissedIds : Collected(j) /\ missedOf[j] = a => i <= j

\* Broken: the entry it has is replaced.
AddMissedApproachAgain(i, byUser) ==
    /\ missedApproaches' = [missedApproaches EXCEPT
         ![i] = [createdByUser |-> byUser, acknowledged |-> FALSE]]
    /\ missedAlerts' = [missedAlerts EXCEPT ![i] = @ + 1]

\* Add, which keeps an entry it has, then the audio alert and the integration event
AddMissedApproach(i, byUser) ==
    /\ missedApproaches' = [missedApproaches EXCEPT ![i] =
         IF Collected(i) THEN @ ELSE [createdByUser |-> byUser, acknowledged |-> FALSE]]
    /\ missedAlerts' = [missedAlerts EXCEPT ![i] = @ + 1]

MissedAcknowledged(i) ==
    missedApproaches' = [missedApproaches EXCEPT ![i] =
        IF Collected(i) THEN [@ EXCEPT !.acknowledged = TRUE] ELSE @]

-------------------------------------------------------------------------------
(* The EuroScope thread *)

\* The user, or an integration, may trigger; the confirmation comes after the check.
TriggerMissedApproach(a) ==
    /\ ~missedChecked
    /\ ~AlreadyActive(a)
    /\ QueueMissedTask([do |-> "create", of |-> a])
    /\ UNCHANGED <<missedApproaches, missedExpired, missedBackend, missedEvents,
                   missedHistory, missedChecked>>

\* The acknowledgement is for an entry that is neither expired nor the user's.
AcknowledgeMissedApproach(i) ==
    /\ ~missedChecked
    /\ Collected(i)
    /\ missedApproaches[i] = [createdByUser |-> FALSE, acknowledged |-> FALSE]
    /\ i \notin missedExpired
    /\ QueueMissedTask([do |-> "acknowledge", id |-> i])
    /\ UNCHANGED <<missedApproaches, missedExpired, missedBackend, missedEvents,
                   missedHistory, missedChecked>>

RemoveExpiredMissedApproaches ==
    /\ ~missedChecked
    /\ \E i \in missedExpired : Collected(i)
    /\ missedApproaches' = [i \in MissedIds |-> IF i \in missedExpired THEN NotMissed
                                                ELSE missedApproaches[i]]
    /\ UNCHANGED <<missedExpired, missedBackend, missedEvents, missedTasks, missedHistory,
                   missedChecked>>

\* CheckForExisting finds nothing; what it looked for is added in the next step.
CheckMissedEvent ==
    /\ ~missedChecked
    /\ missedEvents # <<>>
    /\ Head(missedEvents).is = "created" /\ ~Collected(Head(missedEvents).id)
    /\ missedChecked' = TRUE
    /\ UNCHANGED <<missedApproaches, missedExpired, missedBackend, missedEvents, missedTasks,
                   missedHistory>>

ProcessMissedEvent ==
    /\ missedEvents # <<>>
    /\ LET e == Head(missedEvents)
       IN  \/ /\ e.is = "created" /\ ~missedChecked /\ Collected(e.id)
              /\ UNCHANGED <<missedApproaches, missedAlerts>>
           \/ /\ e.is = "created" /\ missedChecked
              /\ AddMissedApproach(e.id, FALSE)
           \/ /\ e.is = "acknowledged"
              /\ MissedAcknowledged(e.id)
              /\ UNCHANGED missedAlerts
    /\ missedEvents' = Tail(missedEvents)
    /\ missedChecked' = FALSE
    /\ UNCHANGED <<missedExpired, missedBackend, missedTasks, missedTriggered>>

-------------------------------------------------------------------------------
(* The workers *)

CreateMissedAnswered(t, i) ==
    /\ t.do = "create"
    /\ missedAtApi[i] = "none"
    /\ missedAtApi' = [missedAtApi EXCEPT ![i] = "created"]
    /\ missedOf' = [missedOf EXCEPT ![i] = t.of]
    /\ missedTriggered' = missedTriggered \cup {i}
    /\ PublishMissed("created", i)
    /\ ReplaceMissedTask(t, [do |-> "add", id |-> i])
    /\ UNCHANGED <<missedApproaches, missedExpired, missedAlerts, missedChecked>>

AcknowledgeMissedAnswered(t) ==
    /\ t.do = "acknowledge"
    /\ missedAtApi' = [missedAtApi EXCEPT ![t.id] = "acknowledged"]
    /\ PublishMissed("acknowledged", t.id)
    /\ ReplaceMissedTask(t, [do |-> "mark", id |-> t.id])
    /\ UNCHANGED <<missedApproaches, missedExpired, missedOf, missedHistory, missedChecked>>

MissedCallFailed(t) ==
    /\ t.do \in {"create", "acknowledge"}
    /\ FinishMissedTask(t)
    /\ UNCHANGED <<missedApproaches, missedExpired, missedBackend, missedEvents,
                   missedHistory, missedChecked>>

\* Broken: the user's own is added as somebody else's.
AddTriggeredAsOthers(t) ==
    /\ t.do = "add"
    /\ AddMissedApproach(t.id, FALSE)
    /\ FinishMissedTask(t)
    /\ UNCHANGED <<missedExpired, missedBackend, missedEvents, missedTriggered, missedChecked>>

AddTriggered(t) ==
    /\ t.do = "add"
    /\ AddMissedApproach(t.id, TRUE)
    /\ FinishMissedTask(t)
    /\ UNCHANGED <<missedExpired, missedBackend, missedEvents, missedTriggered, missedChecked>>

MarkMissedAcknowledged(t) ==
    /\ t.do = "mark"
    /\ MissedAcknowledged(t.id)
    /\ FinishMissedTask(t)
    /\ UNCHANGED <<missedExpired, missedBackend, missedEvents, missedHistory, missedChecked>>

-------------------------------------------------------------------------------
(* What happens around the plugin *)

MissedExpires(i) ==
    /\ missedAtApi[i] # "none"
    /\ i \notin missedExpired
    /\ missedExpired' = missedExpired \cup {i}
    /\ UNCHANGED <<missedApproaches, missedBackend, missedEvents, missedTasks,
                   missedHistory, missedChecked>>

OthersMissed(i) ==
    /\ \/ /\ missedAtApi[i] = "none"
          /\ missedAtApi' = [missedAtApi EXCEPT ![i] = "created"]
          /\ \E a \in MissedAircraft : missedOf' = [missedOf EXCEPT ![i] = a]
          /\ PublishMissed("created", i)
       \/ /\ missedAtApi[i] = "created"
          /\ missedAtApi' = [missedAtApi EXCEPT ![i] = "acknowledged"]
          /\ PublishMissed("acknowledged", i)
          /\ UNCHANGED missedOf
    /\ UNCHANGED <<missedApproaches, missedExpired, missedTasks, missedHistory, missedChecked>>

-------------------------------------------------------------------------------

MissedInit ==
    /\ missedApproaches = [i \in MissedIds |-> NotMissed]
    /\ missedExpired = {}
    /\ missedAtApi = [i \in MissedIds |-> "none"]
    /\ missedOf = [i \in MissedIds |-> NoAircraft]
    /\ missedEvents = <<>>
    /\ missedChecked = FALSE
    /\ missedTasks = EmptyBag
    /\ missedAlerts = [i \in MissedIds |-> 0]
    /\ missedTriggered = {}

MissedNext ==
    \/ \E a \in MissedAircraft : TriggerMissedApproach(a)
    \/ \E i \in MissedIds : AcknowledgeMissedApproach(i)
    \/ RemoveExpiredMissedApproaches
    \/ CheckMissedEvent
    \/ ProcessMissedEvent
    \/ \E t \in MissedTasks, i \in MissedIds : CreateMissedAnswered(t, i)
    \/ \E t \in MissedTasks : AcknowledgeMissedAnswered(t)
    \/ \E t \in MissedTasks : MissedCallFailed(t)
    \/ \E t \in MissedTasks : AddTriggered(t)
    \/ \E t \in MissedTasks : MarkMissedAcknowledged(t)
    \/ \E i \in MissedIds : MissedExpires(i)
    \/ \E i \in MissedIds : OthersMissed(i)

MissedSpec == MissedInit /\ [][MissedNext]_missedVars

MissedTypeOK ==
    /\ missedApproaches \in [MissedIds -> MissedApproach \cup {NotMissed}]
    /\ missedExpired \subseteq MissedIds
    /\ missedAtApi \in [MissedIds -> {"none", "created", "acknowledged"}]
    /\ missedOf \in [MissedIds -> MissedAircraft \cup {NoAircraft}]
    /\ missedEvents \in Seq(MissedEvent)
    /\ missedChecked \in BOOLEAN
    /\ MissedTasks \subseteq MissedTask
    /\ missedAlerts \in [MissedIds -> Nat]
    /\ missedTriggered \subseteq MissedIds

MissedSettled(i) ==
    /\ \A e \in Range(missedEvents) : e.id # i
    /\ \A t \in MissedTasks : t.do = "create" \/ t.id # i

(* Once nothing is on its way for a missed approach that has not expired,  *)
(* it is in the collection, acknowledged exactly if it is at the API,      *)
(* whichever of the task and the event came first.                         *)
MissedApproachesConverge ==
    \A i \in MissedIds :
        MissedSettled(i) /\ i \notin missedExpired =>
            IF missedAtApi[i] = "none" THEN ~Collected(i)
            ELSE /\ Collected(i)
                 /\ missedApproaches[i].acknowledged <=> missedAtApi[i] = "acknowledged"

(* A missed approach is announced once.  One the user triggered can be     *)
(* announced twice, when its event is looked up before the task adds it or *)
(* after it expired, and only then is the user's own not marked as his.    *)
MissedApproachesAnnounced ==
    \A i \in MissedIds :
        /\ missedAlerts[i] <= IF i \in missedTriggered THEN 2 ELSE 1
        /\ MissedSettled(i) /\ missedAtApi[i] # "none" => missedAlerts[i] >= 1
        /\ Collected(i) /\ missedAlerts[i] = 1 /\ MissedSettled(i) =>
             (missedApproaches[i].createdByUser <=> i \in missedTriggered)
===============================================================================
