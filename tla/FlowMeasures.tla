------------------------------ MODULE FlowMeasures ------------------------------
(***************************************************************************)
(* The flow measures that apply to each aircraft (src/src/plugin/ecfmp,    *)
(* AircraftFlowMeasureMap).  The measures of an aircraft and the aircraft  *)
(* of a measure are two maps that mirror each other; each is looked up     *)
(* with "at" while the other is walked.  Events of the flow measures, of   *)
(* the flightplans and of the user's own callsign change them, all on the  *)
(* EuroScope thread.  To which aircraft a measure applies depends on the   *)
(* flightplan, its position and the user's, and is any set here.           *)
(***************************************************************************)
EXTENDS Functions, FiniteSets

CONSTANTS FlowAircraft, Measures

VARIABLES activeMeasures,     \* flowMeasureIdMap
          measuresOf,         \* callsignFlowMeasureMap
          aircraftUnder       \* flowMeasureCallsignMap

flowVars == <<activeMeasures, measuresOf, aircraftUnder>>

PartialMaps(S, T) == UNION {[D -> SUBSET T] : D \in SUBSET S}
At(map, x) == IF x \in DOMAIN map THEN map[x] ELSE {}

\* [] on the entries of the keys in S: each gets the value v as well
Inserted(map, S, v) ==
    [x \in DOMAIN map \cup S |-> IF x \in S THEN At(map, x) \cup {v} ELSE map[x]]

FlowMeasureActivated(m, aircraft) ==
    /\ m \notin activeMeasures
    /\ activeMeasures' = activeMeasures \cup {m}
    /\ measuresOf' = Inserted(measuresOf, aircraft, m)
    /\ aircraftUnder' = [n \in DOMAIN aircraftUnder \cup {m} |->
                            IF n = m THEN aircraft ELSE aircraftUnder[n]]

\* Broken: its aircraft keep the measure.
RemoveFlowMeasureFromItsMapOnly(m) ==
    /\ m \in activeMeasures
    /\ UNCHANGED measuresOf
    /\ aircraftUnder' = [n \in DOMAIN aircraftUnder \ {m} |-> aircraftUnder[n]]
    /\ activeMeasures' = activeMeasures \ {m}

\* The measure expired or was withdrawn.
RemoveFlowMeasureFromCollection(m) ==
    /\ m \in activeMeasures
    /\ aircraftUnder[m] \subseteq DOMAIN measuresOf
    /\ measuresOf' = [a \in DOMAIN measuresOf |->
                         IF a \in aircraftUnder[m] THEN measuresOf[a] \ {m} ELSE measuresOf[a]]
    /\ aircraftUnder' = [n \in DOMAIN aircraftUnder \ {m} |-> aircraftUnder[n]]
    /\ activeMeasures' = activeMeasures \ {m}

\* RemoveFlightplanFromCollection
WithoutAircraft(a) ==
    [n \in DOMAIN aircraftUnder |->
        IF n \in At(measuresOf, a) THEN aircraftUnder[n] \ {a} ELSE aircraftUnder[n]]

FlowFlightPlanEvent(a, measures) ==
    /\ measures \subseteq activeMeasures
    /\ At(measuresOf, a) \subseteq DOMAIN aircraftUnder
    /\ measuresOf' = IF measures = {} THEN [b \in DOMAIN measuresOf \ {a} |-> measuresOf[b]]
                     ELSE [b \in DOMAIN measuresOf \cup {a} |->
                              IF b = a THEN measures ELSE measuresOf[b]]
    /\ aircraftUnder' = [n \in DOMAIN aircraftUnder \cup measures |->
                            IF n \in measures THEN At(WithoutAircraft(a), n) \cup {a}
                            ELSE WithoutAircraft(a)[n]]
    /\ UNCHANGED activeMeasures

FlowFlightPlanDisconnectEvent(a) == FlowFlightPlanEvent(a, {})

\* ClearMaps, when a callsign of the user is added or removed
UserCallsignChanged ==
    /\ activeMeasures' = {}
    /\ measuresOf' = <<>>
    /\ aircraftUnder' = <<>>

FlowInit ==
    /\ activeMeasures = {}
    /\ measuresOf = <<>>
    /\ aircraftUnder = <<>>

FlowNext ==
    \/ \E m \in Measures, aircraft \in SUBSET FlowAircraft : FlowMeasureActivated(m, aircraft)
    \/ \E m \in Measures : RemoveFlowMeasureFromCollection(m)
    \/ \E a \in FlowAircraft, measures \in SUBSET Measures : FlowFlightPlanEvent(a, measures)
    \/ \E a \in FlowAircraft : FlowFlightPlanDisconnectEvent(a)
    \/ UserCallsignChanged

FlowSpec == FlowInit /\ [][FlowNext]_flowVars

FlowTypeOK ==
    /\ activeMeasures \subseteq Measures
    /\ measuresOf \in PartialMaps(FlowAircraft, Measures)
    /\ aircraftUnder \in PartialMaps(Measures, FlowAircraft)

(* The two maps mirror each other, and a measure has an entry exactly      *)
(* while it is active: whatever is walked in one map is found by "at" in   *)
(* the other, which would throw out of EuroScope's callback otherwise.     *)
FlowMapsMirror ==
    /\ DOMAIN aircraftUnder = activeMeasures
    /\ \A a \in FlowAircraft, m \in Measures :
          m \in At(measuresOf, a) <=> a \in At(aircraftUnder, m)
===============================================================================
