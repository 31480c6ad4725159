---------------------------- MODULE PrenoteMessages ----------------------------
(***************************************************************************)
(* Prenote messages (src/src/plugin/prenote).  The user sends, cancels and *)
(* acknowledges them by tasks that call the API first and change the       *)
(* collection when it has answered.  The push events of the same changes   *)
(* are processed on the EuroScope thread, as are the user's commands and   *)
(* the timer that removes what has expired.  The collection's lock is held *)
(* for one access at a time, so that the workers come between two of them. *)
(***************************************************************************)
EXTENDS Naturals, Sequences, BagsExt, SequencesExt

CONSTANTS PrenoteIds,
          Prenotes,           \* an aircraft, the sending and the target controller
          SentByUser,         \* those the user's position sends
          TargetedToUser,     \* those the user's position receives
          NoPrenote,
          NoLookup,
          MaxPrenoteTasks,    \* bound: tasks at a time
          MaxPrenoteEvents    \* bound: push events on their way

PrenoteEvent == [is : {"received", "acknowledged", "deleted"}, id : PrenoteIds]

\* What a handler's first lookup for its event gave
FirstLookup == [is : {"received", "acknowledged", "deleted"}, id : PrenoteIds, found : BOOLEAN]

ASSUME PrenotesAssumption ==
    /\ SentByUser \subseteq Prenotes /\ TargetedToUser \subseteq Prenotes
    /\ SentByUser \cap TargetedToUser = {}
    /\ NoPrenote \notin Prenotes
    /\ NoLookup \notin FirstLookup
    /\ MaxPrenoteTasks \in Nat /\ MaxPrenoteEvents \in Nat

VARIABLES prenoteMessages,   \* the collection
          prenoteDue,        \* the messages whose time is up
          prenoteLookup,     \* the first lookup of an event whose message is looked up again
          prenotesUp,        \* FALSE: a null pointer was followed
          prenotesAtApi,     \* external: the messages the API knows
          prenoteAbout,      \* external: what they are about
          prenoteEvents,     \* push events published and not processed yet
          prenoteTasks,      \* a bag: the tasks queued or at work
          prenotesTold,      \* history: an acknowledgement or deletion was processed
          prenotesLate       \* history: added by the sending task after that

prenotesBackend == <<prenotesAtApi, prenoteAbout>>
prenotesHistory == <<prenotesTold, prenotesLate>>
prenotesVars == <<prenoteMessages, prenoteDue, prenoteLookup, prenotesUp, prenotesBackend,
                  prenoteEvents, prenoteTasks, prenotesHistory>>

PrenoteTask == [do : {"create"}, about : Prenotes]
               \cup [do : {"add", "delete", "remove", "acknowledge", "mark"}, id : PrenoteIds]

PrenoteTasks == BagToSet(prenoteTasks)
QueuePrenoteTask(t) == /\ BagCardinality(prenoteTasks) < MaxPrenoteTasks
                       /\ prenoteTasks' = BagAdd(prenoteTasks, t)
ReplacePrenoteTask(t, u) == prenoteTasks' = BagAdd(BagRemove(prenoteTasks, t), u)
FinishPrenoteTask(t) == prenoteTasks' = BagRemove(prenoteTasks, t)
PublishPrenote(is, i) == /\ Len(prenoteEvents) < MaxPrenoteEvents
                         /\ prenoteEvents' = Append(prenoteEvents, [is |-> is, id |-> i])

Held(i) == prenoteMessages[i] # "absent"

\* Broken: the message it has is replaced.
AddPrenoteAgain(i) == [prenoteMessages EXCEPT ![i] = "sent"]

\* PrenoteMessageCollection.Add does nothing for a message it has.
AddPrenote(i) == [prenoteMessages EXCEPT ![i] = IF Held(i) THEN @ ELSE "sent"]

\* Broken: acknowledged messages are kept.
RemoveUnacknowledgedPrenotes(is) ==
    [i \in PrenoteIds |-> IF i \in is /\ prenoteMessages[i] = "sent" THEN "absent"
                          ELSE prenoteMessages[i]]

RemovePrenotes(is) == [i \in PrenoteIds |-> IF i \in is THEN "absent" ELSE prenoteMessages[i]]

\* PrenoteMessage.Acknowledge: its time starts again
MarkAcknowledged(i) ==
    /\ prenoteMessages' = [prenoteMessages EXCEPT ![i] = IF Held(i) THEN "acknowledged" ELSE @]
    /\ prenoteDue' = prenoteDue \ {i}

-------------------------------------------------------------------------------
(* The EuroScope thread *)

\* It is not between the two lookups of an event.
PrenotesIdle == prenotesUp /\ prenoteLookup = NoLookup

\* The menu leaves out the targets that have a message; selecting does not look again.
SendPrenote(p) ==
    /\ PrenotesIdle
    /\ p \in SentByUser
    /\ QueuePrenoteTask([do |-> "create", about |-> p])
    /\ UNCHANGED <<prenoteMessages, prenoteDue, prenoteLookup, prenotesUp, prenotesBackend,
                   prenoteEvents, prenotesHistory>>

CancelPrenote(i) ==
    /\ PrenotesIdle
    /\ Held(i)
    /\ prenoteAbout[i] \in SentByUser
    /\ QueuePrenoteTask([do |-> "delete", id |-> i])
    /\ UNCHANGED <<prenoteMessages, prenoteDue, prenoteLookup, prenotesUp, prenotesBackend,
                   prenoteEvents, prenotesHistory>>

\* A message already acknowledged can be acknowledged again.
AcknowledgePrenote(i) ==
    /\ PrenotesIdle
    /\ Held(i)
    /\ prenoteAbout[i] \in TargetedToUser
    /\ QueuePrenoteTask([do |-> "acknowledge", id |-> i])
    /\ UNCHANGED <<prenoteMessages, prenoteDue, prenoteLookup, prenotesUp, prenotesBackend,
                   prenoteEvents, prenotesHistory>>

\* PrenoteMessageTimeout
PrenoteTimeout ==
    /\ PrenotesIdle
    /\ \E i \in prenoteDue : Held(i)
    /\ prenoteMessages' = RemovePrenotes(prenoteDue)
    /\ prenoteDue' = {}
    /\ UNCHANGED <<prenoteLookup, prenotesUp, prenotesBackend, prenoteEvents, prenoteTasks,
                   prenotesHistory>>

\* The first lookup of a new message.  Its result is kept to be used.
FindNewPrenote ==
    /\ PrenotesIdle
    /\ prenoteEvents # <<>>
    /\ LET e == Head(prenoteEvents)
       IN  /\ e.is = "received"
           /\ prenoteLookup' = [is |-> e.is, id |-> e.id, found |-> Held(e.id)]
    /\ prenoteEvents' = Tail(prenoteEvents)
    /\ UNCHANGED <<prenoteMessages, prenoteDue, prenotesUp, prenotesBackend, prenoteTasks,
                   prenotesHistory>>

\* A message the second lookup does not find is added and used.  One it does
\* find leaves the first result in use, which is null if a worker has added
\* the message since.  The second lookup and Add are one step: whatever a
\* worker does to the message in between, Add leaves it as it would be had
\* Add come first.
ProcessNewPrenote ==
    /\ prenotesUp
    /\ prenoteLookup # NoLookup
    /\ prenoteLookup.is = "received"
    /\ LET i == prenoteLookup.id
       IN  \/ /\ Held(i) /\ ~prenoteLookup.found
              /\ prenotesUp' = FALSE
              /\ UNCHANGED <<prenoteMessages, prenoteLookup>>
           \/ /\ ~Held(i) \/ prenoteLookup.found
              /\ prenoteMessages' = AddPrenote(i)
              /\ prenoteLookup' = NoLookup
              /\ UNCHANGED prenotesUp
    /\ UNCHANGED <<prenoteDue, prenotesBackend, prenoteEvents, prenoteTasks, prenotesHistory>>

\* Broken: an unknown message is looked up again.
FindPrenoteUnchecked ==
    /\ PrenotesIdle
    /\ prenoteEvents # <<>>
    /\ LET e == Head(prenoteEvents)
       IN  /\ e.is # "received"
           /\ prenoteLookup' = [is |-> e.is, id |-> e.id, found |-> TRUE]
           /\ prenotesTold' = prenotesTold \cup {e.id}
    /\ prenoteEvents' = Tail(prenoteEvents)
    /\ UNCHANGED <<prenoteMessages, prenoteDue, prenotesUp, prenotesBackend, prenoteTasks,
                   prenotesLate>>

\* MessageValid: an unknown message is not looked up again.
FindPrenoteOfEvent ==
    /\ PrenotesIdle
    /\ prenoteEvents # <<>>
    /\ LET e == Head(prenoteEvents)
       IN  /\ e.is # "received"
           /\ prenoteLookup' = IF Held(e.id) THEN [is |-> e.is, id |-> e.id, found |-> TRUE]
                               ELSE NoLookup
           /\ prenotesTold' = prenotesTold \cup {e.id}
    /\ prenoteEvents' = Tail(prenoteEvents)
    /\ UNCHANGED <<prenoteMessages, prenoteDue, prenotesUp, prenotesBackend, prenoteTasks,
                   prenotesLate>>

\* The second lookup's result is used whatever it is.
ProcessPrenoteEvent ==
    /\ prenotesUp
    /\ prenoteLookup # NoLookup
    /\ prenoteLookup.is # "received"
    /\ LET i == prenoteLookup.id
       IN  \/ /\ ~Held(i)
              /\ prenotesUp' = FALSE
              /\ UNCHANGED <<prenoteMessages, prenoteDue, prenoteLookup>>
           \/ /\ Held(i) /\ prenoteLookup.is = "acknowledged"
              /\ MarkAcknowledged(i)
              /\ prenoteLookup' = NoLookup
              /\ UNCHANGED prenotesUp
           \/ /\ Held(i) /\ prenoteLookup.is = "deleted"
              /\ prenoteMessages' = RemovePrenotes({i})
              /\ prenoteDue' = prenoteDue \ {i}
              /\ prenoteLookup' = NoLookup
              /\ UNCHANGED prenotesUp
    /\ UNCHANGED <<prenotesBackend, prenoteEvents, prenoteTasks, prenotesHistory>>

-------------------------------------------------------------------------------
(* The workers' tasks *)

CreatePrenoteAnswered(t, i) ==
    /\ prenotesUp
    /\ t.do = "create"
    /\ prenotesAtApi[i] = "none"
    /\ prenotesAtApi' = [prenotesAtApi EXCEPT ![i] = "sent"]
    /\ prenoteAbout' = [prenoteAbout EXCEPT ![i] = t.about]
    /\ PublishPrenote("received", i)
    /\ ReplacePrenoteTask(t, [do |-> "add", id |-> i])
    /\ UNCHANGED <<prenoteMessages, prenoteDue, prenoteLookup, prenotesUp, prenotesHistory>>

PrenoteCallAnswered(t) ==
    /\ prenotesUp
    /\ \/ /\ t.do = "delete"
          /\ prenotesAtApi[t.id] \in {"sent", "acknowledged"}
          /\ prenotesAtApi' = [prenotesAtApi EXCEPT ![t.id] = "deleted"]
          /\ PublishPrenote("deleted", t.id)
          /\ ReplacePrenoteTask(t, [do |-> "remove", id |-> t.id])
       \/ /\ t.do = "acknowledge"
          /\ prenotesAtApi[t.id] \in {"sent", "acknowledged"}
          /\ prenotesAtApi' = [prenotesAtApi EXCEPT ![t.id] = "acknowledged"]
          /\ PublishPrenote("acknowledged", t.id)
          /\ ReplacePrenoteTask(t, [do |-> "mark", id |-> t.id])
    /\ UNCHANGED <<prenoteMessages, prenoteDue, prenoteLookup, prenotesUp, prenoteAbout,
                   prenotesHistory>>

PrenoteCallFailed(t) ==
    /\ prenotesUp
    /\ t.do \in {"create", "delete", "acknowledge"}
    /\ FinishPrenoteTask(t)
    /\ UNCHANGED <<prenoteMessages, prenoteDue, prenoteLookup, prenotesUp, prenotesBackend,
                   prenoteEvents, prenotesHistory>>

\* What a task does after the answer
FinishPrenoteCall(t) ==
    /\ prenotesUp
    /\ \/ /\ t.do = "add"
          /\ prenoteMessages' = AddPrenote(t.id)
          /\ prenotesLate' = IF ~Held(t.id) /\ t.id \in prenotesTold
                             THEN prenotesLate \cup {t.id} ELSE prenotesLate
          /\ UNCHANGED prenoteDue
       \/ /\ t.do = "remove"
          /\ prenoteMessages' = RemovePrenotes({t.id})
          /\ prenoteDue' = prenoteDue \ {t.id}
          /\ UNCHANGED prenotesLate
       \/ /\ t.do = "mark"
          /\ MarkAcknowledged(t.id)
          /\ UNCHANGED prenotesLate
    /\ FinishPrenoteTask(t)
    /\ UNCHANGED <<prenoteLookup, prenotesUp, prenotesBackend, prenoteEvents, prenotesTold>>

-------------------------------------------------------------------------------
(* What happens around the plugin *)

\* 300 seconds after it was sent, or 10 minutes after it was acknowledged
PrenoteFallsDue(i) ==
    /\ Held(i)
    /\ i \notin prenoteDue
    /\ prenoteDue' = prenoteDue \cup {i}
    /\ UNCHANGED <<prenoteMessages, prenoteLookup, prenotesUp, prenotesBackend, prenoteEvents,
                   prenoteTasks, prenotesHistory>>

\* Others acknowledge again too what is acknowledged, as the user may.
OthersPrenote(i) ==
    /\ \/ /\ prenotesAtApi[i] = "none"
          /\ \E p \in Prenotes \ SentByUser : prenoteAbout' = [prenoteAbout EXCEPT ![i] = p]
          /\ prenotesAtApi' = [prenotesAtApi EXCEPT ![i] = "sent"]
          /\ PublishPrenote("received", i)
       \/ /\ prenotesAtApi[i] \in {"sent", "acknowledged"} /\ prenoteAbout[i] \notin TargetedToUser
          /\ prenotesAtApi' = [prenotesAtApi EXCEPT ![i] = "acknowledged"]
          /\ PublishPrenote("acknowledged", i)
          /\ UNCHANGED prenoteAbout
       \/ /\ prenotesAtApi[i] \in {"sent", "acknowledged"} /\ prenoteAbout[i] \notin SentByUser
          /\ prenotesAtApi' = [prenotesAtApi EXCEPT ![i] = "deleted"]
          /\ PublishPrenote("deleted", i)
          /\ UNCHANGED prenoteAbout
    /\ UNCHANGED <<prenoteMessages, prenoteDue, prenoteLookup, prenotesUp, prenoteTasks,
                   prenotesHistory>>

-------------------------------------------------------------------------------

PrenotesInit ==
    /\ prenoteMessages = [i \in PrenoteIds |-> "absent"]
    /\ prenoteDue = {}
    /\ prenoteLookup = NoLookup
    /\ prenotesUp = TRUE
    /\ prenotesAtApi = [i \in PrenoteIds |-> "none"]
    /\ prenoteAbout = [i \in PrenoteIds |-> NoPrenote]
    /\ prenoteEvents = <<>>
    /\ prenoteTasks = EmptyBag
    /\ prenotesTold = {}
    /\ prenotesLate = {}

PrenotesNext ==
    \/ \E p \in Prenotes : SendPrenote(p)
    \/ \E i \in PrenoteIds : CancelPrenote(i)
    \/ \E i \in PrenoteIds : AcknowledgePrenote(i)
    \/ PrenoteTimeout
    \/ \E t \in PrenoteTasks, i \in PrenoteIds : CreatePrenoteAnswered(t, i)
    \/ \E t \in PrenoteTasks : PrenoteCallAnswered(t)
    \/ \E t \in PrenoteTasks : PrenoteCallFailed(t)
    \/ \E t \in PrenoteTasks : FinishPrenoteCall(t)
    \/ FindNewPrenote
    \/ ProcessNewPrenote
    \/ FindPrenoteOfEvent
    \/ ProcessPrenoteEvent
    \/ \E i \in PrenoteIds : PrenoteFallsDue(i)
    \/ \E i \in PrenoteIds : OthersPrenote(i)

PrenotesSpec == PrenotesInit /\ [][PrenotesNext]_prenotesVars

PrenotesTypeOK ==
    /\ prenoteMessages \in [PrenoteIds -> {"absent", "sent", "acknowledged"}]
    /\ prenoteDue \subseteq PrenoteIds
    /\ prenoteLookup \in FirstLookup \cup {NoLookup}
    /\ prenotesUp \in BOOLEAN
    /\ prenotesAtApi \in [PrenoteIds -> {"none", "sent", "acknowledged", "deleted"}]
    /\ prenoteAbout \in [PrenoteIds -> Prenotes \cup {NoPrenote}]
    /\ prenoteEvents \in Seq(PrenoteEvent)
    /\ PrenoteTasks \subseteq PrenoteTask
    /\ prenotesTold \subseteq PrenoteIds
    /\ prenotesLate \subseteq PrenoteIds

PrenoteSettled(i) ==
    /\ \A e \in Range(prenoteEvents) \cup ({prenoteLookup} \ {NoLookup}) : e.id # i
    /\ \A t \in PrenoteTasks : t.do = "create" \/ t.id # i

(* Once nothing is on its way for a message, it is shown only if the API   *)
(* still has it, and as acknowledged exactly if it is there.  Only the     *)
(* task that sent it can bring it back, when it adds it after the events   *)
(* of its acknowledgement or deletion.                                     *)
PrenotesConverge ==
    \A i \in PrenoteIds :
        prenotesUp /\ PrenoteSettled(i) /\ Held(i) /\ i \notin prenotesLate =>
            prenoteMessages[i] = prenotesAtApi[i]

(* A null pointer is followed only for a message of the user's own: one    *)
(* whose sending task adds it between the two lookups of the event of its  *)
(* creation, or one that is cancelled, taken out by a worker after the     *)
(* event of its acknowledgement or deletion found it and before the event  *)
(* is applied.                                                             *)
PrenotesFallAboutOwn ==
    ~prenotesUp =>
        /\ prenoteLookup # NoLookup
        /\ prenoteAbout[prenoteLookup.id] \in SentByUser
        /\ IF prenoteLookup.is = "received" THEN ~prenoteLookup.found
           ELSE prenotesAtApi[prenoteLookup.id] = "deleted"

\* An acknowledgement, the user's answered or another's processed, starts
\* the time of a message anew that was up.
PrenoteProlonged(i) ==
    /\ i \in prenoteDue
    /\ i \notin prenoteDue'
    /\ prenoteMessages'[i] = "acknowledged"
    /\ ProcessPrenoteEvent \/ \E t \in PrenoteTasks : FinishPrenoteCall(t)

(* No message stays for ever, not even one brought back, unless it is      *)
(* acknowledged again and again, by the user or by others.                 *)
PrenotesEnd ==
    \A i \in PrenoteIds :
        \/ []<>(~Held(i) \/ ~prenotesUp)
        \/ []<><<PrenoteProlonged(i)>>_prenotesVars

\* The timer comes round again whatever the thread does in between, and the
\* thread goes on from the first lookup to the second.
PrenotesFairness ==
    /\ SF_prenotesVars(PrenoteTimeout)
    /\ WF_prenotesVars(ProcessNewPrenote)
    /\ WF_prenotesVars(ProcessPrenoteEvent)
    /\ \A i \in PrenoteIds : WF_prenotesVars(PrenoteFallsDue(i))
===============================================================================
