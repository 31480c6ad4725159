---------------------------- MODULE ApproachSequence ----------------------------
(***************************************************************************)
(* The approach sequencer (src/src/plugin/approach): per airfield a list   *)
(* of aircraft that are also linked to each other.  The display walks the  *)
(* links and the spacing is computed along them; adding and moving use the *)
(* list.  All of it happens on the EuroScope thread.                       *)
(***************************************************************************)
EXTENDS Integers, SequencesExt

CONSTANTS SequencedAircraft, SequenceAirfields,
          NoLink,
          MinimumSeparation,   \* of an airfield
          WakeSeparation,      \* of the leading and the following aircraft
          NoWakeInterval,
          WakeMode,
          Targets              \* bound: the distances the user asks for

ASSUME ApproachAssumption ==
    /\ NoLink \notin SequencedAircraft
    /\ MinimumSeparation \in [SequenceAirfields -> Nat]
    /\ WakeSeparation \in [SequencedAircraft -> [SequencedAircraft -> Nat \cup {NoWakeInterval}]]
    /\ NoWakeInterval \notin Nat
    /\ WakeMode \notin Nat
    /\ Targets \subseteq Nat

VARIABLES sequences,       \* the list of each airfield
          nextAircraft, previousAircraft,
          approachMode,    \* WakeMode, or the distance behind the aircraft before
          destinations,    \* external: where the flightplans go
          targetList,      \* whom the open list of targets is about: {} or {<<airfield, aircraft>>}
          approachUp       \* FALSE: a null pointer was followed

popupVars == <<targetList, approachUp>>
approachVars == <<sequences, nextAircraft, previousAircraft, approachMode, destinations, popupVars>>

Link == SequencedAircraft \cup {NoLink}
Sequenced(f) == Range(sequences[f])
InSequences(a) == \E f \in SequenceAirfields : a \in Sequenced(f)
AirfieldForAircraft(a) == CHOOSE f \in SequenceAirfields : a \in Sequenced(f)

\* What an operation changes: the lists and both links
Linked == [lists |-> sequences, next |-> nextAircraft, prev |-> previousAircraft]
Relinked(s) == /\ sequences' = s.lists
              /\ nextAircraft' = s.next
              /\ previousAircraft' = s.prev
\* A link set through a null pointer's owner is not set.
SetLink(links, a, to) == IF a = NoLink THEN links ELSE [links EXCEPT ![a] = to]

PlaceOf(list, a) == SelectInSeq(list, LAMBDA b : b = a)

\* ApproachSequence.RemoveAircraft; the object with its links goes.
RemoveAircraft(s, f, a) ==
    LET next == s.next[a]
        prev == s.prev[a]
    IN  [lists |-> [s.lists EXCEPT ![f] = RemoveFirst(@, a)],
         next  |-> SetLink(SetLink(s.next, prev, next), a, NoLink),
         prev  |-> SetLink(SetLink(s.prev, next, prev), a, NoLink)]

RemoveAircraftFromSequences(s, a) ==
    IF InSequences(a) THEN RemoveAircraft(s, AirfieldForAircraft(a), a) ELSE s

AddLast(s, f, a) ==
    LET last == IF s.lists[f] = <<>> THEN NoLink ELSE Last(s.lists[f])
    IN  [lists |-> [s.lists EXCEPT ![f] = Append(@, a)],
         next  |-> SetLink(SetLink(s.next, a, NoLink), last, a),
         prev  |-> SetLink(s.prev, a, last)]

AddBefore(s, f, a, b) ==
    LET prev == s.prev[b]
    IN  [lists |-> [s.lists EXCEPT ![f] = InsertAt(@, PlaceOf(@, b), a)],
         next  |-> SetLink(SetLink(s.next, prev, a), a, b),
         prev  |-> SetLink(SetLink(s.prev, a, prev), b, a)]

\* Broken: the aircraft behind the two is not told who precedes it now.
SwapForgettingLast(s, f, prev, a) ==
    LET first == s.prev[prev]
        i == PlaceOf(s.lists[f], prev)
    IN  [lists |-> [s.lists EXCEPT ![f] = [@ EXCEPT ![i] = a, ![i + 1] = prev]],
         next  |-> SetLink(SetLink(SetLink(s.next, first, a), a, prev), prev, s.next[a]),
         prev  |-> SetLink(SetLink(s.prev, a, first), prev, a)]

\* a takes the place of the aircraft before it.
Swap(s, f, prev, a) ==
    LET first == s.prev[prev]
        last == s.next[a]
        i == PlaceOf(s.lists[f], prev)
    IN  [lists |-> [s.lists EXCEPT ![f] = [@ EXCEPT ![i] = a, ![i + 1] = prev]],
         next  |-> SetLink(SetLink(SetLink(s.next, first, a), a, prev), prev, last),
         prev  |-> SetLink(SetLink(SetLink(s.prev, a, first), prev, a), last, prev)]

-------------------------------------------------------------------------------

\* Selecting a callsign; the mode is the default of the airfield.
AddAircraftToSequence(f, a, mode) ==
    /\ targetList = {}
    /\ a \notin Sequenced(f)
    /\ destinations[a] = f
    /\ Relinked(AddLast(RemoveAircraftFromSequences(Linked, a), f, a))
    /\ approachMode' = [approachMode EXCEPT ![a] = mode]
    /\ UNCHANGED <<destinations, popupVars>>

\* The operation that inserts before an aircraft appends if it is not there
\* (any more: it may be the aircraft itself).
InsertAircraftInSequence(f, a, b, mode) ==
    LET s == RemoveAircraftFromSequences(Linked, a)
    IN  /\ targetList = {}
        /\ destinations[a] = f
        /\ Relinked(IF b \in Range(s.lists[f]) THEN AddBefore(s, f, a, b) ELSE AddLast(s, f, a))
        /\ approachMode' = [approachMode EXCEPT ![a] = mode]
        /\ UNCHANGED <<destinations, popupVars>>

MoveAircraftUp(f, a) ==
    /\ targetList = {}
    /\ a \in Sequenced(f)
    /\ previousAircraft[a] # NoLink
    /\ Relinked(Swap(Linked, f, previousAircraft[a], a))
    /\ UNCHANGED <<approachMode, destinations, popupVars>>

MoveAircraftDown(f, a) ==
    /\ targetList = {}
    /\ a \in Sequenced(f)
    /\ nextAircraft[a] # NoLink
    /\ Relinked(Swap(Linked, f, a, nextAircraft[a]))
    /\ UNCHANGED <<approachMode, destinations, popupVars>>

\* The display's button, a disconnected flightplan, or an aircraft that has landed
RemoveSequenced(a) ==
    /\ InSequences(a)
    /\ Relinked(RemoveAircraftFromSequences(Linked, a))
    /\ UNCHANGED <<approachMode, destinations, popupVars>>

\* The list of targets has items for an aircraft in the sequence only.
OpenTargetList(f, a) ==
    /\ targetList = {}
    /\ a \in Sequenced(f)
    /\ targetList' = {<<f, a>>}
    /\ UNCHANGED <<sequences, nextAircraft, previousAircraft, approachMode, destinations, approachUp>>

\* The choice is applied to an aircraft that is looked up again, and may
\* have left the sequence since the list was opened.
TargetSelected(f, a, mode) ==
    /\ <<f, a>> \in targetList
    /\ targetList' = {}
    /\ IF a \in Sequenced(f)
       THEN approachMode' = [approachMode EXCEPT ![a] = mode] /\ UNCHANGED approachUp
       ELSE approachUp' = FALSE /\ UNCHANGED approachMode
    /\ UNCHANGED <<sequences, nextAircraft, previousAircraft, destinations>>

\* A click elsewhere closes the list, before anything else is clicked.
CloseTargetList ==
    /\ targetList # {}
    /\ targetList' = {}
    /\ UNCHANGED <<sequences, nextAircraft, previousAircraft, approachMode, destinations, approachUp>>

\* FlightPlanEvent, for a destination that changed
DestinationChanged(a, f) ==
    /\ destinations' = [destinations EXCEPT ![a] = f]
    /\ IF InSequences(a) /\ AirfieldForAircraft(a) # f
       THEN Relinked(RemoveAircraftFromSequences(Linked, a))
       ELSE UNCHANGED <<sequences, nextAircraft, previousAircraft>>
    /\ UNCHANGED <<approachMode, popupVars>>

ApproachInit ==
    /\ sequences = [f \in SequenceAirfields |-> <<>>]
    /\ nextAircraft = [a \in SequencedAircraft |-> NoLink]
    /\ previousAircraft = [a \in SequencedAircraft |-> NoLink]
    /\ approachMode = [a \in SequencedAircraft |-> WakeMode]
    /\ destinations \in [SequencedAircraft -> SequenceAirfields]
    /\ targetList = {}
    /\ approachUp = TRUE

SpacingModes == {WakeMode} \cup Targets

ApproachNext ==
    /\ approachUp
    /\ \/ \E f \in SequenceAirfields, a \in SequencedAircraft, mode \in SpacingModes :
             AddAircraftToSequence(f, a, mode)
       \/ \E f \in SequenceAirfields, a, b \in SequencedAircraft, mode \in SpacingModes :
             InsertAircraftInSequence(f, a, b, mode)
       \/ \E f \in SequenceAirfields, a \in SequencedAircraft : MoveAircraftUp(f, a)
       \/ \E f \in SequenceAirfields, a \in SequencedAircraft : MoveAircraftDown(f, a)
       \/ \E a \in SequencedAircraft : RemoveSequenced(a)
       \/ \E f \in SequenceAirfields, a \in SequencedAircraft : OpenTargetList(f, a)
       \/ \E f \in SequenceAirfields, a \in SequencedAircraft, mode \in SpacingModes :
             TargetSelected(f, a, mode)
       \/ CloseTargetList
       \/ \E a \in SequencedAircraft, f \in SequenceAirfields : DestinationChanged(a, f)

ApproachSpec == ApproachInit /\ [][ApproachNext]_approachVars

ApproachTypeOK ==
    /\ sequences \in [SequenceAirfields -> Seq(SequencedAircraft)]
    /\ nextAircraft \in [SequencedAircraft -> Link]
    /\ previousAircraft \in [SequencedAircraft -> Link]
    /\ approachMode \in [SequencedAircraft -> SpacingModes]
    /\ destinations \in [SequencedAircraft -> SequenceAirfields]
    /\ targetList \subseteq SequenceAirfields \X SequencedAircraft
    /\ approachUp \in BOOLEAN

(* The links tell the order of the list in both directions and end where   *)
(* it ends, an aircraft is in at most one place of one list, that of its   *)
(* destination, and one in no list is linked to nothing.                   *)
SequencesLinked ==
    /\ \A f \in SequenceAirfields :
          LET list == sequences[f]
          IN  /\ \A i, j \in DOMAIN list : list[i] = list[j] => i = j
              /\ \A i \in DOMAIN list :
                    /\ destinations[list[i]] = f
                    /\ nextAircraft[list[i]] = IF i = Len(list) THEN NoLink ELSE list[i + 1]
                    /\ previousAircraft[list[i]] = IF i = 1 THEN NoLink ELSE list[i - 1]
    /\ \A a \in SequencedAircraft :
          ~InSequences(a) => nextAircraft[a] = NoLink /\ previousAircraft[a] = NoLink

\* ApproachSpacingCalculator.Calculate, for aircraft whose data is complete
Spacing(f, a) ==
    LET wake == WakeSeparation[previousAircraft[a]][a]
        larger(x, y) == IF x > y THEN x ELSE y
    IN  IF approachMode[a] = WakeMode
        THEN IF wake # NoWakeInterval THEN wake ELSE MinimumSeparation[f]
        ELSE IF wake # NoWakeInterval /\ wake > approachMode[a]
             THEN larger(wake, MinimumSeparation[f])
             ELSE larger(approachMode[a], MinimumSeparation[f])

(* An aircraft with a target distance is never shown less than the         *)
(* target, the airfield's minimum or the wake separation behind the        *)
(* aircraft that really precedes it in the list.                           *)
SpacingSufficient ==
    \A f \in SequenceAirfields : \A i \in DOMAIN sequences[f] :
        LET a == sequences[f][i]
        IN  i > 1 /\ approachMode[a] # WakeMode =>
              /\ Spacing(f, a) >= approachMode[a]
              /\ Spacing(f, a) >= MinimumSeparation[f]
              /\ WakeSeparation[sequences[f][i - 1]][a] # NoWakeInterval =>
                   Spacing(f, a) >= WakeSeparation[sequences[f][i - 1]][a]

(* However the sequence was edited, the leader, the list and the spacing   *)
(* shown for an aircraft belong together.                                  *)
SequencesSound == SequencesLinked /\ SpacingSufficient
===============================================================================
