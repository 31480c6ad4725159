--------------------------------- MODULE Holds ---------------------------------
(***************************************************************************)
(* Holding aircraft (src/src/plugin/hold).  An aircraft can be assigned to *)
(* a hold and be in the proximity of several navaids; the manager keeps    *)
(* the aircraft it needs and a list of them per hold, for the displays.    *)
(* Each call of the manager holds its mutex.  The EuroScope thread assigns *)
(* holds for the user, measures distances and processes push events;       *)
(* workers tell the API and load what it knew.                             *)
(***************************************************************************)
EXTENDS Naturals, Sequences, BagsExt, SequencesExt

CONSTANTS HoldAircraft, Navaids,
          NoHold,
          NoCheck,
          HoldPlaces,       \* bound: the places aircraft are at
          HoldAreas,        \* bound: the navaids whose areas the API sees aircraft enter
          MaxHoldTasks,     \* bound: tasks at a time
          MaxHoldEvents     \* bound: push events on their way

ASSUME HoldsAssumption ==
    /\ NoHold \notin Navaids
    /\ HoldPlaces \subseteq {<<"away">>, <<"unseen">>} \cup ({"near", "at"} \X Navaids)
    /\ HoldAreas \subseteq Navaids
    /\ MaxHoldTasks \in Nat /\ MaxHoldEvents \in Nat

VARIABLES holdAircraft,     \* HoldManager: the aircraft it keeps
          assignedHold,     \* HoldingAircraft: the hold assigned
          proximityHolds,   \* HoldingAircraft: the navaids near, and if it entered the hold
          holds,            \* HoldManager: the aircraft listed for each hold
          proximityCheck,   \* the entry the sweep of the distances is about to read
          holdsUp,          \* FALSE: the sweep followed a null pointer
          holdPlace,        \* external: where the aircraft are
          holdsAtApi,       \* external: the assignments the API holds
          proximityAtApi,   \* external: the holding areas the API saw aircraft enter
          holdEvents,       \* push events published and not processed yet
          holdTasks,        \* a bag: the tasks queued or at work
          holdsAdrift,      \* history: the aircraft whose assignment may be wrong
          holdsOvertaken    \* history: those for which an event came before a loaded item

manager == <<holdAircraft, assignedHold, proximityHolds, holds>>
holdsBackend == <<holdsAtApi, proximityAtApi>>
holdsHistory == <<holdsAdrift, holdsOvertaken>>
holdsVars == <<manager, proximityCheck, holdsUp, holdPlace, holdsBackend,
               holdEvents, holdTasks, holdsHistory>>

Proximity == {"out", "near", "entered"}
HoldEvent == [of : HoldAircraft, is : {"assigned", "entered", "exited"}, at : Navaids]
             \cup [of : HoldAircraft, is : {"unassigned"}]
HoldTask == [do : {"tell"}, of : HoldAircraft, hold : Navaids \cup {NoHold}]
            \cup [do : {"list", "areas"}]
            \cup [do : {"load"}, items : [HoldAircraft -> Navaids \cup {NoHold}]]
            \cup [do : {"enter"}, items : SUBSET (HoldAircraft \X Navaids)]

HoldTasks == BagToSet(holdTasks)
QueueHoldTask(t) == /\ BagCardinality(holdTasks) < MaxHoldTasks
                    /\ holdTasks' = BagAdd(holdTasks, t)
ReplaceHoldTask(t, u) == holdTasks' = BagAdd(BagRemove(holdTasks, t), u)
FinishHoldTask(t) == holdTasks' = BagRemove(holdTasks, t)
PublishHold(e) == /\ Len(holdEvents) < MaxHoldEvents
              /\ holdEvents' = Append(holdEvents, e)

\* HoldingAircraft: the functions of one aircraft's navaids near and hold assigned
InHold(near, assigned, n) == near[n] # "out" \/ assigned = n
InAnyHold(near, assigned) == assigned # NoHold \/ \E n \in Navaids : near[n] # "out"
IsInHoldProximity(a, n) == proximityHolds[a][n] # "out"

-------------------------------------------------------------------------------
(* HoldManager *)

Keep(a, near, assigned) ==
    holdAircraft' = IF InAnyHold(near, assigned) THEN holdAircraft ELSE holdAircraft \ {a}

\* An entry that is there already is kept: it does not become entered.
AddAircraftToProximityHold(a, n, entry) ==
    /\ holdAircraft' = holdAircraft \cup {a}
    /\ proximityHolds' = [proximityHolds EXCEPT ![a][n] = IF @ = "out" THEN entry ELSE @]
    /\ holds' = [holds EXCEPT ![n] = @ \cup {a}]
    /\ UNCHANGED assignedHold

\* Broken: nothing is done for an aircraft assigned to the hold.
RemoveAircraftFromProximityHoldUnlessAssigned(a, n) ==
    LET near == [proximityHolds[a] EXCEPT ![n] = "out"]
    IN  IF a \notin holdAircraft \/ assignedHold[a] = n THEN UNCHANGED manager
        ELSE /\ proximityHolds' = [proximityHolds EXCEPT ![a] = near]
             /\ holds' = [holds EXCEPT ![n] = @ \ {a}]
             /\ Keep(a, near, assignedHold[a])
             /\ UNCHANGED assignedHold

RemoveAircraftFromProximityHold(a, n) ==
    LET near == [proximityHolds[a] EXCEPT ![n] = "out"]
    IN  IF a \notin holdAircraft THEN UNCHANGED manager
        ELSE /\ proximityHolds' = [proximityHolds EXCEPT ![a] = near]
             /\ holds' = [holds EXCEPT ![n] =
                            IF InHold(near, assignedHold[a], n) THEN @ ELSE @ \ {a}]
             /\ Keep(a, near, assignedHold[a])
             /\ UNCHANGED assignedHold

\* Broken: it is taken from the list although it is still near.
ListsWithoutPreviousAlways(a, new) ==
    [m \in Navaids |-> IF m = assignedHold[a] THEN holds[m] \ {a} ELSE holds[m]]

\* The lists without a in the hold it was assigned to, unless still near it
ListsWithoutPrevious(a, new) ==
    [m \in Navaids |-> IF m = assignedHold[a] /\ ~InHold(proximityHolds[a], new, m)
                       THEN holds[m] \ {a} ELSE holds[m]]

AssignAircraftToHold(a, n) ==
    /\ holdAircraft' = holdAircraft \cup {a}
    /\ assignedHold' = [assignedHold EXCEPT ![a] = n]
    /\ holds' = [ListsWithoutPrevious(a, n) EXCEPT ![n] = @ \cup {a}]
    /\ UNCHANGED proximityHolds

\* Broken: an aircraft still near a navaid keeps its hold.
UnassignAircraftFromHoldWhenGone(a) ==
    IF a \notin holdAircraft \/ \E n \in Navaids : proximityHolds[a][n] # "out"
    THEN UNCHANGED manager
    ELSE /\ assignedHold' = [assignedHold EXCEPT ![a] = NoHold]
         /\ holds' = ListsWithoutPrevious(a, NoHold)
         /\ holdAircraft' = holdAircraft \ {a}
         /\ UNCHANGED proximityHolds

UnassignAircraftFromHold(a) ==
    IF a \notin holdAircraft THEN UNCHANGED manager
    ELSE /\ assignedHold' = [assignedHold EXCEPT ![a] = NoHold]
         /\ holds' = ListsWithoutPrevious(a, NoHold)
         /\ Keep(a, proximityHolds[a], NoHold)
         /\ UNCHANGED proximityHolds

-------------------------------------------------------------------------------
(* The EuroScope thread *)

\* Broken: the thread may do other things in the middle of a sweep.
HoldsIdleInSweep == holdsUp

HoldsIdle == holdsUp /\ proximityCheck = NoCheck

\* The menu does nothing for the hold the aircraft has; the command assigns it again.
AssignHold(a, n, byMenu) ==
    /\ HoldsIdle
    /\ byMenu => assignedHold[a] # n
    /\ AssignAircraftToHold(a, n)
    /\ QueueHoldTask([do |-> "tell", of |-> a, hold |-> n])
    /\ UNCHANGED <<proximityCheck, holdsUp, holdPlace, holdsBackend, holdEvents, holdsHistory>>

\* An aircraft the manager does not keep is not unassigned at the API either.
UnassignHold(a, byMenu) ==
    /\ HoldsIdle
    /\ a \in holdAircraft
    /\ byMenu => assignedHold[a] # NoHold
    /\ UnassignAircraftFromHold(a)
    /\ QueueHoldTask([do |-> "tell", of |-> a, hold |-> NoHold])
    /\ UNCHANGED <<proximityCheck, holdsUp, holdPlace, holdsBackend, holdEvents, holdsHistory>>

\* One step of TimedEventTrigger, for an aircraft with a radar target
CheckProximity(a, n) ==
    /\ HoldsIdle
    /\ holdPlace[a] # <<"unseen">>
    /\ IF holdPlace[a] \in {"near", "at"} \X {n}
       THEN /\ AddAircraftToProximityHold(a, n, "near")
            /\ proximityCheck' = IF holdPlace[a] = <<"at", n>> THEN <<a, n>> ELSE NoCheck
       ELSE /\ RemoveAircraftFromProximityHold(a, n)
            /\ UNCHANGED proximityCheck
    /\ UNCHANGED <<holdsUp, holdPlace, holdsBackend, holdEvents, holdTasks, holdsHistory>>

\* The entry just added is looked up again, without the lock in between, and the
\* result used whatever it is.
EnterProximity ==
    /\ holdsUp
    /\ proximityCheck # NoCheck
    /\ LET a == proximityCheck[1]
           n == proximityCheck[2]
       IN  /\ holdsUp' = IsInHoldProximity(a, n)
           /\ proximityHolds' = IF holdsUp' THEN [proximityHolds EXCEPT ![a][n] = "entered"]
                                ELSE proximityHolds
    /\ proximityCheck' = NoCheck
    /\ UNCHANGED <<holdAircraft, assignedHold, holds, holdPlace, holdsBackend,
                   holdEvents, holdTasks, holdsHistory>>

EventHold(e) == IF e.is = "unassigned" THEN NoHold ELSE e.at

ProcessHoldEvent ==
    /\ HoldsIdle
    /\ holdEvents # <<>>
    /\ holdEvents' = Tail(holdEvents)
    /\ LET e == Head(holdEvents)
       IN  \/ /\ e.is = "assigned"
              /\ AssignAircraftToHold(e.of, e.at)
           \/ /\ e.is = "unassigned"
              /\ UnassignAircraftFromHold(e.of)
           \/ /\ e.is = "entered"
              /\ AddAircraftToProximityHold(e.of, e.at, "entered")
           \/ /\ e.is = "exited"
              /\ RemoveAircraftFromProximityHold(e.of, e.at)
    /\ LET e == Head(holdEvents)
           assigns == e.is \in {"assigned", "unassigned"}
           passed == \E t \in HoldTasks : t.do = "load" /\ t.items[e.of] \notin {NoHold, EventHold(e)}
       IN  /\ holdsAdrift' = IF assigns THEN holdsAdrift \ {e.of} ELSE holdsAdrift
           /\ holdsOvertaken' = IF assigns /\ passed THEN holdsOvertaken \cup {e.of}
                                ELSE holdsOvertaken
    /\ UNCHANGED <<proximityCheck, holdsUp, holdPlace, holdsBackend, holdTasks>>

-------------------------------------------------------------------------------
(* The workers *)

HoldAreasSynced ==
    /\ holdsUp
    /\ \A t \in HoldTasks : t.do \notin {"areas", "enter"}
    /\ QueueHoldTask([do |-> "areas"])
    /\ UNCHANGED <<manager, proximityCheck, holdsUp, holdPlace, holdsBackend,
                   holdEvents, holdsHistory>>

ToldEvent(t) == IF t.hold = NoHold THEN [of |-> t.of, is |-> "unassigned"]
                ELSE [of |-> t.of, is |-> "assigned", at |-> t.hold]

HoldCallAnswered(t) ==
    /\ holdsUp
    /\ \/ /\ t.do = "tell"
          /\ holdsAtApi' = [holdsAtApi EXCEPT ![t.of] = t.hold]
          /\ PublishHold(ToldEvent(t))
          /\ FinishHoldTask(t)
       \/ /\ t.do = "list"
          /\ ReplaceHoldTask(t, [do |-> "load", items |-> holdsAtApi])
          /\ UNCHANGED <<holdsAtApi, holdEvents>>
       \/ /\ t.do = "areas"
          /\ ReplaceHoldTask(t, [do |-> "enter", items |-> proximityAtApi])
          /\ UNCHANGED <<holdsAtApi, holdEvents>>
    /\ UNCHANGED <<manager, proximityCheck, holdsUp, holdPlace, proximityAtApi, holdsHistory>>

HoldCallFailed(t) ==
    /\ holdsUp
    /\ t.do \in {"tell", "list", "areas"}
    /\ FinishHoldTask(t)
    /\ holdsAdrift' = IF t.do = "tell" THEN holdsAdrift \cup {t.of} ELSE holdsAdrift
    /\ UNCHANGED <<manager, proximityCheck, holdsUp, holdPlace, holdsBackend,
                   holdEvents, holdsOvertaken>>

\* One item of the list fetched when the plugin started; nothing is removed.
LoadAssignedHold(t, a) ==
    /\ holdsUp
    /\ t.do = "load"
    /\ t.items[a] # NoHold
    /\ AssignAircraftToHold(a, t.items[a])
    /\ ReplaceHoldTask(t, [t EXCEPT !.items[a] = NoHold])
    /\ holdsAdrift' = IF a \in holdsOvertaken THEN holdsAdrift \cup {a} ELSE holdsAdrift \ {a}
    /\ holdsOvertaken' = holdsOvertaken \ {a}
    /\ UNCHANGED <<proximityCheck, holdsUp, holdPlace, holdsBackend, holdEvents>>

LoadHoldingArea(t, a, n) ==
    /\ holdsUp
    /\ t.do = "enter"
    /\ <<a, n>> \in t.items
    /\ AddAircraftToProximityHold(a, n, "entered")
    /\ ReplaceHoldTask(t, [t EXCEPT !.items = @ \ {<<a, n>>}])
    /\ UNCHANGED <<proximityCheck, holdsUp, holdPlace, holdsBackend, holdEvents, holdsHistory>>

HoldsLoaded(t) ==
    /\ holdsUp
    /\ \/ t.do = "load" /\ t.items = [a \in HoldAircraft |-> NoHold]
       \/ t.do = "enter" /\ t.items = {}
    /\ FinishHoldTask(t)
    /\ UNCHANGED <<manager, proximityCheck, holdsUp, holdPlace, holdsBackend,
                   holdEvents, holdsHistory>>

-------------------------------------------------------------------------------
(* What happens around the plugin *)

HoldAircraftMoves(a, p) ==
    /\ holdPlace' = [holdPlace EXCEPT ![a] = p]
    /\ UNCHANGED <<manager, proximityCheck, holdsUp, holdsBackend, holdEvents, holdTasks,
                   holdsHistory>>

OthersAssignHold(a, h) ==
    /\ holdsAtApi[a] # h
    /\ holdsAtApi' = [holdsAtApi EXCEPT ![a] = h]
    /\ PublishHold(ToldEvent([of |-> a, hold |-> h]))
    /\ UNCHANGED <<manager, proximityCheck, holdsUp, holdPlace, proximityAtApi, holdTasks,
                   holdsHistory>>

ApiSeesArea(a, n) ==
    /\ proximityAtApi' = IF <<a, n>> \in proximityAtApi THEN proximityAtApi \ {<<a, n>>}
                         ELSE proximityAtApi \cup {<<a, n>>}
    /\ PublishHold([of |-> a, is |-> IF <<a, n>> \in proximityAtApi THEN "exited" ELSE "entered",
                at |-> n])
    /\ UNCHANGED <<manager, proximityCheck, holdsUp, holdPlace, holdsAtApi, holdTasks,
                   holdsHistory>>

-------------------------------------------------------------------------------

\* HoldModule queues the task that loads the assignments.
HoldsInit ==
    /\ holdAircraft = {}
    /\ assignedHold = [a \in HoldAircraft |-> NoHold]
    /\ proximityHolds = [a \in HoldAircraft |-> [n \in Navaids |-> "out"]]
    /\ holds = [n \in Navaids |-> {}]
    /\ proximityCheck = NoCheck
    /\ holdsUp = TRUE
    /\ holdPlace \in [HoldAircraft -> HoldPlaces]
    /\ holdsAtApi \in [HoldAircraft -> Navaids \cup {NoHold}]
    /\ proximityAtApi = {}
    /\ holdEvents = <<>>
    /\ holdTasks = SetToBag({[do |-> "list"]})
    /\ holdsAdrift = {a \in HoldAircraft : holdsAtApi[a] # NoHold}
    /\ holdsOvertaken = {}

HoldsNext ==
    \/ \E a \in HoldAircraft, n \in Navaids, byMenu \in BOOLEAN : AssignHold(a, n, byMenu)
    \/ \E a \in HoldAircraft, byMenu \in BOOLEAN : UnassignHold(a, byMenu)
    \/ \E a \in HoldAircraft, n \in Navaids : CheckProximity(a, n)
    \/ EnterProximity
    \/ HoldAreasSynced
    \/ \E t \in HoldTasks : HoldCallAnswered(t)
    \/ \E t \in HoldTasks : HoldCallFailed(t)
    \/ \E t \in HoldTasks, a \in HoldAircraft : LoadAssignedHold(t, a)
    \/ \E t \in HoldTasks, a \in HoldAircraft, n \in Navaids : LoadHoldingArea(t, a, n)
    \/ \E t \in HoldTasks : HoldsLoaded(t)
    \/ ProcessHoldEvent
    \/ \E a \in HoldAircraft, p \in HoldPlaces : HoldAircraftMoves(a, p)
    \/ \E a \in HoldAircraft, h \in Navaids \cup {NoHold} : OthersAssignHold(a, h)
    \/ \E a \in HoldAircraft, n \in HoldAreas : ApiSeesArea(a, n)

HoldsSpec == HoldsInit /\ [][HoldsNext]_holdsVars

HoldsTypeOK ==
    /\ holdAircraft \subseteq HoldAircraft
    /\ assignedHold \in [HoldAircraft -> Navaids \cup {NoHold}]
    /\ proximityHolds \in [HoldAircraft -> [Navaids -> Proximity]]
    /\ holds \in [Navaids -> SUBSET HoldAircraft]
    /\ proximityCheck \in (HoldAircraft \X Navaids) \cup {NoCheck}
    /\ holdsUp \in BOOLEAN
    /\ holdPlace \in [HoldAircraft -> HoldPlaces]
    /\ holdsAtApi \in [HoldAircraft -> Navaids \cup {NoHold}]
    /\ proximityAtApi \subseteq HoldAircraft \X Navaids
    /\ holdEvents \in Seq(HoldEvent)
    /\ HoldTasks \subseteq HoldTask
    /\ holdsAdrift \subseteq HoldAircraft
    /\ holdsOvertaken \subseteq HoldAircraft

(* The lists the displays show hold exactly the aircraft that are assigned *)
(* to the hold or near it, and the manager keeps exactly those in a list,  *)
(* in whatever order assignments, distances and events arrive.             *)
HoldListsAgree ==
    /\ \A a \in HoldAircraft, n \in Navaids : a \in holds[n] <=> InHold(proximityHolds[a], assignedHold[a], n)
    /\ \A a \in HoldAircraft : a \in holdAircraft <=> InAnyHold(proximityHolds[a], assignedHold[a])

HoldSettled(a) ==
    /\ \A e \in Range(holdEvents) : e.is \notin {"assigned", "unassigned"} \/ e.of # a
    /\ \A t \in HoldTasks : CASE t.do = "tell" -> t.of # a
                              [] t.do = "load" -> t.items[a] = NoHold
                              [] OTHER -> TRUE

(* Once nothing is on its way for an aircraft it has the hold the API      *)
(* gives it, but after a call failed, or a newer event was processed       *)
(* before the list loaded at the start.                                    *)
HoldsConverge ==
    \A a \in HoldAircraft : HoldSettled(a) /\ a \notin holdsAdrift =>
        assignedHold[a] = holdsAtApi[a]

(* The sweep finds what it looks up: it gives up the lock between adding   *)
(* an aircraft near a navaid and looking its entry up to mark it entered,  *)
(* and uses the result unseen, but no worker takes an entry away.          *)
SweepFindsItsEntry == holdsUp

(* No aircraft stays listed near a navaid for ever once it is seen         *)
(* elsewhere, even when the synchronisation brings back one that left.     *)
ProximityEnds ==
    \A a \in HoldAircraft, n \in Navaids :
        []<>(\/ ~IsInHoldProximity(a, n)
             \/ holdPlace[a] \in {<<"unseen">>} \cup ({"near", "at"} \X {n}))

HoldsFairness ==
    /\ WF_holdsVars(EnterProximity)
    /\ \A a \in HoldAircraft, n \in Navaids : SF_holdsVars(CheckProximity(a, n))
===============================================================================
