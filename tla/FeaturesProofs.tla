----------------------------- MODULE FeaturesProofs -----------------------------
(***************************************************************************)
(* Theorems about the features that share no state: FlowMeasures,          *)
(* EnrouteReleases, Metars, PrenoteMessages, MissedApproaches and          *)
(* ApproachSequence, one after the other.                                  *)
(***************************************************************************)
EXTENDS FlowMeasures, EnrouteReleases, Metars, PrenoteMessages, MissedApproaches,
        ApproachSequence, SequenceTheorems, TLAPS

-------------------------------------------------------------------------------
(* Flow measures.                                                             *)

LEMMA PartialMapsAre ==
    \A S, T, f : f \in PartialMaps(S, T) <=> DOMAIN f \subseteq S /\ f \in [DOMAIN f -> SUBSET T]
BY DEF PartialMaps

\* The types and the mirror: either is needed for the other to be kept.
FlowIInv == FlowTypeOK /\ FlowMapsMirror

LEMMA FlowInitially == FlowInit => FlowIInv
<1> SUFFICES ASSUME FlowInit PROVE FlowIInv
    OBVIOUS
<1>1. DOMAIN measuresOf = {} /\ DOMAIN aircraftUnder = {}
    BY DEF FlowInit
<1>2. measuresOf = [x \in {} |-> {}] /\ aircraftUnder = [x \in {} |-> {}]
    BY DEF FlowInit
<1>3. FlowTypeOK
    BY <1>1, <1>2, PartialMapsAre, ZenonT(40) DEF FlowInit, FlowTypeOK
<1>4. FlowMapsMirror
    BY <1>1 DEF FlowInit, FlowMapsMirror, At
<1> QED BY <1>3, <1>4 DEF FlowIInv

LEMMA ActivationKeeps ==
    ASSUME FlowIInv, NEW m \in Measures, NEW aircraft \in SUBSET FlowAircraft,
           FlowMeasureActivated(m, aircraft)
    PROVE  FlowIInv'
<1>1. DOMAIN measuresOf \subseteq FlowAircraft /\ measuresOf \in [DOMAIN measuresOf -> SUBSET Measures]
    BY PartialMapsAre DEF FlowIInv, FlowTypeOK
<1>2. DOMAIN aircraftUnder \subseteq Measures
      /\ aircraftUnder \in [DOMAIN aircraftUnder -> SUBSET FlowAircraft]
    BY PartialMapsAre DEF FlowIInv, FlowTypeOK
<1>3. /\ measuresOf' = [x \in DOMAIN measuresOf \cup aircraft |->
                           IF x \in aircraft THEN At(measuresOf, x) \cup {m} ELSE measuresOf[x]]
      /\ aircraftUnder' = [n \in DOMAIN aircraftUnder \cup {m} |->
                              IF n = m THEN aircraft ELSE aircraftUnder[n]]
      /\ activeMeasures' = activeMeasures \cup {m}
    BY DEF FlowMeasureActivated, Inserted
<1>4. \A x : At(measuresOf, x) \subseteq Measures
    BY <1>1 DEF At
<1>5. FlowTypeOK'
  <2>1. DOMAIN measuresOf' \subseteq FlowAircraft /\ measuresOf' \in [DOMAIN measuresOf' -> SUBSET Measures]
      BY <1>1, <1>3, <1>4
  <2>2. DOMAIN aircraftUnder' \subseteq Measures
        /\ aircraftUnder' \in [DOMAIN aircraftUnder' -> SUBSET FlowAircraft]
      BY <1>2, <1>3
  <2>3. activeMeasures' \subseteq Measures
      BY <1>3 DEF FlowIInv, FlowTypeOK
  <2> QED BY <2>1, <2>2, <2>3, PartialMapsAre DEF FlowTypeOK
<1>6. m \notin DOMAIN aircraftUnder
    BY DEF FlowMeasureActivated, FlowIInv, FlowMapsMirror
<1>7. ASSUME NEW a \in FlowAircraft, NEW n \in Measures
      PROVE  n \in At(measuresOf, a)' <=> a \in At(aircraftUnder, n)'
  <2>1. n \in At(measuresOf, a) <=> a \in At(aircraftUnder, n)
      BY DEF FlowIInv, FlowMapsMirror
  <2>2. n \in At(measuresOf, a)' <=> n \in At(measuresOf, a) \/ (a \in aircraft /\ n = m)
      BY <1>3 DEF At
  <2>3. a \in At(aircraftUnder, n)' <=> IF n = m THEN a \in aircraft ELSE a \in At(aircraftUnder, n)
      BY <1>3 DEF At
  <2>4. a \notin At(aircraftUnder, m)
      BY <1>6 DEF At
  <2> QED BY <2>1, <2>2, <2>3, <2>4
<1>8. DOMAIN aircraftUnder' = activeMeasures'
    BY <1>3 DEF FlowIInv, FlowMapsMirror
<1> QED BY <1>5, <1>7, <1>8 DEF FlowIInv, FlowMapsMirror

LEMMA RemovalKeeps ==
    ASSUME FlowIInv, NEW m \in Measures, RemoveFlowMeasureFromCollection(m)
    PROVE  FlowIInv'
<1>1. DOMAIN measuresOf \subseteq FlowAircraft /\ measuresOf \in [DOMAIN measuresOf -> SUBSET Measures]
    BY PartialMapsAre DEF FlowIInv, FlowTypeOK
<1>2. DOMAIN aircraftUnder \subseteq Measures
      /\ aircraftUnder \in [DOMAIN aircraftUnder -> SUBSET FlowAircraft]
    BY PartialMapsAre DEF FlowIInv, FlowTypeOK
<1>3. /\ measuresOf' = [a \in DOMAIN measuresOf |->
                           IF a \in aircraftUnder[m] THEN measuresOf[a] \ {m} ELSE measuresOf[a]]
      /\ aircraftUnder' = [n \in DOMAIN aircraftUnder \ {m} |-> aircraftUnder[n]]
      /\ activeMeasures' = activeMeasures \ {m}
      /\ m \in activeMeasures
    BY DEF RemoveFlowMeasureFromCollection
<1>4. FlowTypeOK'
  <2>1. DOMAIN measuresOf' \subseteq FlowAircraft /\ measuresOf' \in [DOMAIN measuresOf' -> SUBSET Measures]
      BY <1>1, <1>3
  <2>2. DOMAIN aircraftUnder' \subseteq Measures
        /\ aircraftUnder' \in [DOMAIN aircraftUnder' -> SUBSET FlowAircraft]
      BY <1>2, <1>3
  <2>3. activeMeasures' \subseteq Measures
      BY <1>3 DEF FlowIInv, FlowTypeOK
  <2> QED BY <2>1, <2>2, <2>3, PartialMapsAre DEF FlowTypeOK
<1>5. m \in DOMAIN aircraftUnder
    BY <1>3 DEF FlowIInv, FlowMapsMirror
<1>6. ASSUME NEW a \in FlowAircraft, NEW n \in Measures
      PROVE  n \in At(measuresOf, a)' <=> a \in At(aircraftUnder, n)'
  <2>1. /\ n \in At(measuresOf, a) <=> a \in At(aircraftUnder, n)
        /\ m \in At(measuresOf, a) <=> a \in aircraftUnder[m]
      BY <1>5 DEF FlowIInv, FlowMapsMirror, At
  <2>2. n \in At(measuresOf, a)' <=> n \in At(measuresOf, a) /\ (a \notin aircraftUnder[m] \/ n # m)
      BY <1>3 DEF At
  <2>3. a \in At(aircraftUnder, n)' <=> n # m /\ a \in At(aircraftUnder, n)
      BY <1>3 DEF At
  <2> QED BY <2>1, <2>2, <2>3
<1>7. DOMAIN aircraftUnder' = activeMeasures'
    BY <1>3 DEF FlowIInv, FlowMapsMirror
<1> QED BY <1>4, <1>6, <1>7 DEF FlowIInv, FlowMapsMirror

LEMMA FlightPlanKeeps ==
    ASSUME FlowIInv, NEW a \in FlowAircraft, NEW measures \in SUBSET Measures,
           FlowFlightPlanEvent(a, measures)
    PROVE  FlowIInv'
<1>1. DOMAIN measuresOf \subseteq FlowAircraft /\ measuresOf \in [DOMAIN measuresOf -> SUBSET Measures]
    BY PartialMapsAre DEF FlowIInv, FlowTypeOK
<1>2. DOMAIN aircraftUnder \subseteq Measures
      /\ aircraftUnder \in [DOMAIN aircraftUnder -> SUBSET FlowAircraft]
    BY PartialMapsAre DEF FlowIInv, FlowTypeOK
<1>3. DOMAIN aircraftUnder = activeMeasures /\ measures \subseteq activeMeasures
    BY DEF FlowFlightPlanEvent, FlowIInv, FlowMapsMirror
<1>4. /\ DOMAIN WithoutAircraft(a) = DOMAIN aircraftUnder
      /\ \A n \in DOMAIN aircraftUnder : WithoutAircraft(a)[n] \subseteq aircraftUnder[n]
      /\ \A n \in DOMAIN aircraftUnder : \A b : b # a =>
            (b \in WithoutAircraft(a)[n] <=> b \in aircraftUnder[n])
    BY DEF WithoutAircraft
<1>5. \A n \in DOMAIN aircraftUnder : a \notin WithoutAircraft(a)[n]
  <2> SUFFICES ASSUME NEW n \in DOMAIN aircraftUnder PROVE a \notin WithoutAircraft(a)[n]
      OBVIOUS
  <2>1. n \in At(measuresOf, a) <=> a \in aircraftUnder[n]
      BY <1>2 DEF FlowIInv, FlowMapsMirror, At
  <2> QED BY <2>1 DEF WithoutAircraft
<1>6. aircraftUnder' = [n \in DOMAIN aircraftUnder |->
                           IF n \in measures THEN WithoutAircraft(a)[n] \cup {a}
                           ELSE WithoutAircraft(a)[n]]
  <2>1. aircraftUnder' = [n \in DOMAIN aircraftUnder \cup measures |->
                             IF n \in measures THEN At(WithoutAircraft(a), n) \cup {a}
                             ELSE WithoutAircraft(a)[n]]
      BY DEF FlowFlightPlanEvent
  <2>2. DOMAIN aircraftUnder \cup measures = DOMAIN aircraftUnder
      BY <1>3
  <2>3. \A n \in DOMAIN aircraftUnder : At(WithoutAircraft(a), n) = WithoutAircraft(a)[n]
      BY <1>4 DEF At
  <2> QED BY <2>1, <2>2, <2>3
<1>7. /\ DOMAIN measuresOf' \subseteq FlowAircraft
      /\ measuresOf' \in [DOMAIN measuresOf' -> SUBSET Measures]
      /\ At(measuresOf, a)' = measures
      /\ \A b : b # a => At(measuresOf, b)' = At(measuresOf, b)
  <2>1. CASE measures = {}
    <3>1. measuresOf' = [b \in DOMAIN measuresOf \ {a} |-> measuresOf[b]]
        BY <2>1 DEF FlowFlightPlanEvent
    <3> QED BY <1>1, <2>1, <3>1 DEF At
  <2>2. CASE measures # {}
    <3>1. measuresOf' = [b \in DOMAIN measuresOf \cup {a} |->
                            IF b = a THEN measures ELSE measuresOf[b]]
        BY <2>2 DEF FlowFlightPlanEvent
    <3> QED BY <1>1, <3>1 DEF At
  <2> QED BY <2>1, <2>2
<1>8. FlowTypeOK'
  <2>1. DOMAIN aircraftUnder' \subseteq Measures
        /\ aircraftUnder' \in [DOMAIN aircraftUnder' -> SUBSET FlowAircraft]
      BY <1>2, <1>4, <1>6
  <2>2. activeMeasures' \subseteq Measures
      BY DEF FlowFlightPlanEvent, FlowIInv, FlowTypeOK
  <2> QED BY <1>7, <2>1, <2>2, PartialMapsAre DEF FlowTypeOK
<1>9. ASSUME NEW b \in FlowAircraft, NEW n \in Measures
      PROVE  n \in At(measuresOf, b)' <=> b \in At(aircraftUnder, n)'
  <2>1. n \in At(measuresOf, b) <=> b \in At(aircraftUnder, n)
      BY DEF FlowIInv, FlowMapsMirror
  <2>2. b \in At(aircraftUnder, n)' <=>
           n \in DOMAIN aircraftUnder
           /\ (b \in WithoutAircraft(a)[n] \/ (n \in measures /\ b = a))
      BY <1>6 DEF At
  <2>3. CASE b = a
      BY <1>3, <1>5, <1>7, <2>2, <2>3
  <2>4. CASE b # a
    <3>1. b \in At(aircraftUnder, n)' <=> b \in At(aircraftUnder, n)
        BY <1>4, <2>2, <2>4 DEF At
    <3> QED BY <1>7, <2>1, <2>4, <3>1
  <2> QED BY <2>3, <2>4
<1>10. DOMAIN aircraftUnder' = activeMeasures'
    BY <1>3, <1>6 DEF FlowFlightPlanEvent
<1> QED BY <1>8, <1>9, <1>10 DEF FlowIInv, FlowMapsMirror

LEMMA ClearingKeeps == UserCallsignChanged => FlowIInv'
<1> SUFFICES ASSUME UserCallsignChanged PROVE FlowIInv'
    OBVIOUS
<1>1. DOMAIN measuresOf' = {} /\ DOMAIN aircraftUnder' = {}
    BY DEF UserCallsignChanged
<1>2. measuresOf' = [x \in {} |-> {}] /\ aircraftUnder' = [x \in {} |-> {}]
    BY DEF UserCallsignChanged
<1>3. FlowTypeOK'
    BY <1>1, <1>2, PartialMapsAre, ZenonT(40) DEF UserCallsignChanged, FlowTypeOK
<1>4. FlowMapsMirror'
    BY <1>1 DEF UserCallsignChanged, FlowMapsMirror, At
<1> QED BY <1>3, <1>4 DEF FlowIInv

LEMMA FlowKept == FlowIInv /\ [FlowNext]_flowVars => FlowIInv'
<1> SUFFICES ASSUME FlowIInv, [FlowNext]_flowVars PROVE FlowIInv'
    OBVIOUS
<1>1. CASE \E m \in Measures, aircraft \in SUBSET FlowAircraft : FlowMeasureActivated(m, aircraft)
    BY <1>1, ActivationKeeps
<1>2. CASE \E m \in Measures : RemoveFlowMeasureFromCollection(m)
    BY <1>2, RemovalKeeps
<1>3. CASE \E a \in FlowAircraft, measures \in SUBSET Measures : FlowFlightPlanEvent(a, measures)
    BY <1>3, FlightPlanKeeps
<1>4. CASE \E a \in FlowAircraft : FlowFlightPlanDisconnectEvent(a)
  <2>1. {} \in SUBSET Measures
      OBVIOUS
  <2> QED BY <1>4, <2>1, FlightPlanKeeps DEF FlowFlightPlanDisconnectEvent
<1>5. CASE UserCallsignChanged
    BY <1>5, ClearingKeeps
<1>6. CASE UNCHANGED flowVars
    BY <1>6 DEF flowVars, FlowIInv, FlowTypeOK, FlowMapsMirror, At
<1> QED BY <1>1, <1>2, <1>3, <1>4, <1>5, <1>6 DEF FlowNext

(* The measures and the maps have their types, whatever measures come and  *)
(* whichever aircraft they are about.                                      *)
THEOREM FlowTyped == FlowSpec => []FlowTypeOK
<1>1. FlowIInv => FlowTypeOK
    BY DEF FlowIInv
<1> QED BY <1>1, FlowInitially, FlowKept, PTL DEF FlowSpec

(* Whatever flow measures come, apply and go, the two maps mirror each     *)
(* other: nothing walked in one is missing from the other.                 *)
THEOREM FlowMapsMirrored == FlowSpec => []FlowMapsMirror
<1>1. FlowIInv => FlowMapsMirror
    BY DEF FlowIInv
<1> QED BY <1>1, FlowInitially, FlowKept, PTL DEF FlowSpec

-------------------------------------------------------------------------------
(* Enroute releases.  The set-up release and the one sent are typed, and   *)
(* an aircraft has a clear time exactly when its release was sent.         *)

EnrouteIInv ==
    /\ outgoingReleases \in [EnrouteAircraft -> Release \cup {NoRelease}]
    /\ enrouteSent \in [EnrouteAircraft -> ReleaseChoice \cup {NoRelease}]
    /\ SentReleasesClear

\* What SentReleasesClear says of one aircraft, of its release and the one sent
Clears(r, s) == (r # NoRelease /\ r.clear # "never") <=> s # NoRelease

\* Steps change one aircraft: it is enough to look at that one.
LEMMA OneAircraftChanged ==
    ASSUME EnrouteIInv, NEW a \in EnrouteAircraft,
           NEW r \in Release \cup {NoRelease}, NEW s \in ReleaseChoice \cup {NoRelease},
           outgoingReleases' = [outgoingReleases EXCEPT ![a] = r],
           enrouteSent' = [enrouteSent EXCEPT ![a] = s],
           Clears(r, s)
    PROVE  EnrouteIInv'
<1>1. /\ outgoingReleases' \in [EnrouteAircraft -> Release \cup {NoRelease}]
      /\ enrouteSent' \in [EnrouteAircraft -> ReleaseChoice \cup {NoRelease}]
    BY DEF EnrouteIInv
<1>2. ASSUME NEW b \in EnrouteAircraft
      PROVE  Clears(outgoingReleases'[b], enrouteSent'[b])
  <2>1. Clears(outgoingReleases[b], enrouteSent[b])
      BY DEF EnrouteIInv, SentReleasesClear, Clears
  <2>2. CASE b = a
    <3>1. outgoingReleases'[b] = r /\ enrouteSent'[b] = s
        BY <2>2 DEF EnrouteIInv
    <3> QED BY <3>1
  <2>3. CASE b # a
    <3>1. outgoingReleases'[b] = outgoingReleases[b] /\ enrouteSent'[b] = enrouteSent[b]
        BY <2>3 DEF EnrouteIInv
    <3> QED BY <2>1, <3>1
  <2> QED BY <2>2, <2>3
<1> QED BY <1>1, <1>2 DEF EnrouteIInv, SentReleasesClear, Clears

LEMMA EnrouteInitially == EnrouteInit => EnrouteIInv
BY DEF EnrouteInit, EnrouteIInv, SentReleasesClear

LEMMA SelectionKeeps ==
    ASSUME EnrouteIInv, NEW a \in EnrouteAircraft, NEW type \in ReleaseTypes,
           ReleaseTypeSelected(a, type)
    PROVE  EnrouteIInv'
<1>1. PICK r : r = [type |-> type, point |-> NoReleasePoint, clear |-> "never"]
    OBVIOUS
<1>2. r \in Release /\ r.clear = "never"
    BY <1>1 DEF Release
<1>3. /\ outgoingReleases' = [outgoingReleases EXCEPT ![a] = r]
      /\ enrouteSent' = [enrouteSent EXCEPT ![a] = NoRelease]
    BY <1>1 DEF ReleaseTypeSelected, UpdateOutgoingReleaseType
<1>4. Clears(r, NoRelease)
    BY <1>2 DEF Clears
<1> QED BY <1>2, <1>3, <1>4, OneAircraftChanged

LEMMA NoSelectionKeeps ==
    ASSUME EnrouteIInv, NEW a \in EnrouteAircraft, NoReleaseSelected(a)
    PROVE  EnrouteIInv'
<1>1. Clears(NoRelease, NoRelease)
    BY DEF Clears
<1> QED BY <1>1, OneAircraftChanged DEF NoReleaseSelected

LEMMA EditKeeps ==
    ASSUME EnrouteIInv, NEW a \in EnrouteAircraft,
           NEW p \in ReleasePoints \cup {NoReleasePoint}, EditReleasePoint(a, p)
    PROVE  EnrouteIInv'
<1>1. PICK r : r = [outgoingReleases[a] EXCEPT !.point = p]
    OBVIOUS
<1>2. outgoingReleases[a] \in Release
    BY DEF EnrouteIInv, EditReleasePoint
<1>3. r \in Release /\ r.clear = outgoingReleases[a].clear
    BY <1>1, <1>2 DEF Release
<1>4. PICK s : s = enrouteSent[a]
    OBVIOUS
<1>5. /\ outgoingReleases' = [outgoingReleases EXCEPT ![a] = r]
      /\ enrouteSent' = [enrouteSent EXCEPT ![a] = s]
      /\ s \in ReleaseChoice \cup {NoRelease}
    BY <1>1, <1>4 DEF EditReleasePoint, EnrouteIInv
<1>6. Clears(r, s)
    BY <1>2, <1>3, <1>4, EnrouteAssumption DEF Clears, EnrouteIInv, SentReleasesClear
<1> QED BY <1>3, <1>5, <1>6, OneAircraftChanged

LEMMA HandoffKeeps ==
    ASSUME EnrouteIInv, NEW a \in EnrouteAircraft, NEW c \in EnrouteControllers,
           HandoffInitiated(a, c)
    PROVE  EnrouteIInv'
<1>1. PICK r : r = [outgoingReleases[a] EXCEPT !.clear = "later"]
    OBVIOUS
<1>2. PICK s : s = Choice(outgoingReleases[a])
    OBVIOUS
<1>3. outgoingReleases[a] \in Release
    BY DEF EnrouteIInv, HandoffInitiated
<1>4. r \in Release /\ r.clear = "later"
    BY <1>1, <1>3 DEF Release
<1>5. s \in ReleaseChoice
    BY <1>2, <1>3 DEF Release, ReleaseChoice, Choice
<1>6. /\ outgoingReleases' = [outgoingReleases EXCEPT ![a] = r]
      /\ enrouteSent' = [enrouteSent EXCEPT ![a] = s]
    BY <1>1, <1>2 DEF HandoffInitiated
<1>7. Clears(r, s)
    BY <1>4, <1>5, EnrouteAssumption DEF Clears
<1> QED BY <1>4, <1>5, <1>6, <1>7, OneAircraftChanged

LEMMA ClearingDueKeeps ==
    ASSUME EnrouteIInv, ClearEnrouteReleases
    PROVE  EnrouteIInv'
<1>1. /\ outgoingReleases' = [a \in EnrouteAircraft |->
            IF outgoingReleases[a] # NoRelease /\ outgoingReleases[a].clear = "now"
            THEN NoRelease ELSE outgoingReleases[a]]
      /\ enrouteSent' = [a \in EnrouteAircraft |->
            IF outgoingReleases'[a] = NoRelease THEN NoRelease ELSE enrouteSent[a]]
    BY DEF ClearEnrouteReleases, ClearDue
<1>2. /\ outgoingReleases' \in [EnrouteAircraft -> Release \cup {NoRelease}]
      /\ enrouteSent' \in [EnrouteAircraft -> ReleaseChoice \cup {NoRelease}]
    BY <1>1 DEF EnrouteIInv
<1>3. ASSUME NEW b \in EnrouteAircraft
      PROVE  Clears(outgoingReleases'[b], enrouteSent'[b])
  <2>1. Clears(outgoingReleases[b], enrouteSent[b])
      BY DEF EnrouteIInv, SentReleasesClear, Clears
  <2>2. CASE outgoingReleases'[b] = NoRelease
      BY <1>1, <2>2 DEF Clears
  <2>3. CASE outgoingReleases'[b] # NoRelease
      BY <1>1, <2>1, <2>3 DEF Clears
  <2> QED BY <2>2, <2>3
<1> QED BY <1>2, <1>3 DEF EnrouteIInv, SentReleasesClear, Clears

LEMMA TimePassingKeeps ==
    ASSUME EnrouteIInv, NEW a \in EnrouteAircraft, EnrouteTimePasses(a)
    PROVE  EnrouteIInv'
<1>1. CASE UNCHANGED outgoingReleases
    BY <1>1 DEF EnrouteTimePasses, EnrouteIInv, SentReleasesClear
<1>2. CASE ~UNCHANGED outgoingReleases
  <2>1. PICK o : o = outgoingReleases[a]
      OBVIOUS
  <2>2. PICK r : r = IF o # NoRelease /\ o.clear = "later" THEN [o EXCEPT !.clear = "now"] ELSE o
      OBVIOUS
  <2>3. PICK s : s = enrouteSent[a]
      OBVIOUS
  <2>4. /\ outgoingReleases' = [outgoingReleases EXCEPT ![a] = r]
        /\ enrouteSent' = [enrouteSent EXCEPT ![a] = s]
        /\ s \in ReleaseChoice \cup {NoRelease}
        /\ o \in Release \cup {NoRelease}
      BY <1>2, <2>1, <2>2, <2>3 DEF EnrouteTimePasses, EnrouteIInv
  <2>5. Clears(o, s)
      BY <2>1, <2>3 DEF EnrouteIInv, SentReleasesClear, Clears
  <2>6. CASE o # NoRelease /\ o.clear = "later"
    <3>1. r \in Release /\ r.clear = "now"
        BY <2>2, <2>4, <2>6 DEF Release
    <3>2. Clears(r, s)
        BY <2>5, <2>6, <3>1, EnrouteAssumption DEF Clears
    <3> QED BY <2>4, <3>1, <3>2, OneAircraftChanged
  <2>7. CASE ~(o # NoRelease /\ o.clear = "later")
    <3>1. r = o
        BY <2>2, <2>7
    <3> QED BY <2>4, <2>5, <3>1, OneAircraftChanged
  <2> QED BY <2>6, <2>7
<1> QED BY <1>1, <1>2

LEMMA EnrouteKept == EnrouteIInv /\ [EnrouteNext]_enrouteVars => EnrouteIInv'
<1> SUFFICES ASSUME EnrouteIInv, [EnrouteNext]_enrouteVars PROVE EnrouteIInv'
    OBVIOUS
<1>1. CASE \E a \in EnrouteAircraft, type \in ReleaseTypes : ReleaseTypeSelected(a, type)
    BY <1>1, SelectionKeeps
<1>2. CASE \E a \in EnrouteAircraft : NoReleaseSelected(a)
    BY <1>2, NoSelectionKeeps
<1>3. CASE \E a \in EnrouteAircraft, p \in ReleasePoints \cup {NoReleasePoint} : EditReleasePoint(a, p)
    BY <1>3, EditKeeps
<1>4. CASE \E a \in EnrouteAircraft, c \in EnrouteControllers \ {EnrouteUser} : HandoffInitiated(a, c)
    BY <1>4, HandoffKeeps
<1>5. CASE ClearEnrouteReleases
    BY <1>5, ClearingDueKeeps
<1>6. CASE \E a \in EnrouteAircraft : EnrouteTimePasses(a)
    BY <1>6, TimePassingKeeps
<1>7. CASE \/ \E m \in BagToSet(enrouteSends) : EnrouteReleaseSent(m)
           \/ \E m \in BagToSet(enrouteSends) : EnrouteReleaseNotSent(m)
           \/ \E m \in BagToSet(enrouteEvents) : ProcessEnrouteEvent(m)
           \/ \E m \in EnrouteMessage : OthersRelease(m)
           \/ UNCHANGED enrouteVars
  <2>1. UNCHANGED <<outgoingReleases, enrouteSent>>
      BY <1>7 DEF EnrouteReleaseSent, EnrouteReleaseNotSent, ProcessEnrouteEvent, OthersRelease,
                  enrouteVars
  <2> QED BY <2>1 DEF EnrouteIInv, SentReleasesClear
<1> QED BY <1>1, <1>2, <1>3, <1>4, <1>5, <1>6, <1>7 DEF EnrouteNext

(* For any aircraft, controllers, types and points: a release that was     *)
(* sent keeps its clear time until it is cleared or selected anew.         *)
THEOREM SentReleasesCleared == EnrouteSpec => []SentReleasesClear
<1>1. EnrouteIInv => SentReleasesClear
    BY DEF EnrouteIInv
<1> QED BY <1>1, EnrouteInitially, EnrouteKept, PTL DEF EnrouteSpec

\* The releases on their way, and those that came
EnrouteMailTypes ==
    /\ incomingReleases \in [EnrouteAircraft -> Release \cup {NoRelease}]
    /\ BagToSet(enrouteSends) \subseteq EnrouteMessage
    /\ BagToSet(enrouteEvents) \subseteq EnrouteMessage

LEMMA AddedToBag ==
    \A B, x : BagToSet(BagAdd(B, x)) = BagToSet(B) \cup {x}
BY DEF BagToSet, BagAdd

LEMMA RemovedFromBag ==
    \A B, x : BagToSet(BagRemove(B, x)) \subseteq BagToSet(B)
BY DEF BagToSet, BagRemove

\* One case for each action that sends, delivers or clears a release
LEMMA EnrouteMailKept ==
    EnrouteIInv /\ EnrouteMailTypes /\ [EnrouteNext]_enrouteVars => EnrouteMailTypes'
<1> SUFFICES ASSUME EnrouteIInv, EnrouteMailTypes, [EnrouteNext]_enrouteVars
             PROVE  EnrouteMailTypes'
    OBVIOUS
<1>1. ASSUME NEW a \in EnrouteAircraft, NEW c \in EnrouteControllers, HandoffInitiated(a, c)
      PROVE  EnrouteMailTypes'
  <2>1. PICK m : m = [of |-> a, target |-> c, release |-> Choice(outgoingReleases[a])]
      OBVIOUS
  <2>2. outgoingReleases[a] \in Release
      BY <1>1 DEF EnrouteIInv, HandoffInitiated
  <2>3. Choice(outgoingReleases[a]) \in ReleaseChoice
      BY <2>2 DEF Release, ReleaseChoice, Choice
  <2>4. m \in EnrouteMessage
      BY <2>1, <2>3 DEF EnrouteMessage
  <2> QED BY <1>1, <2>1, <2>4, AddedToBag DEF HandoffInitiated, EnrouteMailTypes
<1>2. ASSUME NEW m \in BagToSet(enrouteSends), EnrouteReleaseSent(m) PROVE EnrouteMailTypes'
    BY <1>2, AddedToBag, RemovedFromBag DEF EnrouteReleaseSent, EnrouteMailTypes
<1>3. ASSUME NEW m \in BagToSet(enrouteSends), EnrouteReleaseNotSent(m) PROVE EnrouteMailTypes'
    BY <1>3, RemovedFromBag DEF EnrouteReleaseNotSent, EnrouteMailTypes
<1>4. ASSUME NEW m \in BagToSet(enrouteEvents), ProcessEnrouteEvent(m) PROVE EnrouteMailTypes'
  <2>1. m \in EnrouteMessage
      BY DEF EnrouteMailTypes
  <2>2. [type |-> m.release.type, point |-> m.release.point, clear |-> "later"] \in Release
      BY <2>1 DEF EnrouteMessage, ReleaseChoice, Release
  <2>3. incomingReleases' \in [EnrouteAircraft -> Release \cup {NoRelease}]
      BY <1>4, <2>2 DEF ProcessEnrouteEvent, EnrouteMailTypes
  <2> QED BY <1>4, <2>3, RemovedFromBag DEF ProcessEnrouteEvent, EnrouteMailTypes
<1>5. CASE ClearEnrouteReleases
  <2>1. incomingReleases' \in [EnrouteAircraft -> Release \cup {NoRelease}]
      BY <1>5 DEF ClearEnrouteReleases, ClearDue, EnrouteMailTypes
  <2> QED BY <1>5, <2>1 DEF ClearEnrouteReleases, EnrouteMailTypes
<1>6. ASSUME NEW a \in EnrouteAircraft, EnrouteTimePasses(a) PROVE EnrouteMailTypes'
  <2>1. PICK o : o = incomingReleases[a]
      OBVIOUS
  <2>2. PICK r : r = IF o # NoRelease /\ o.clear = "later" THEN [o EXCEPT !.clear = "now"] ELSE o
      OBVIOUS
  <2>3. r \in Release \cup {NoRelease}
      BY <2>1, <2>2 DEF EnrouteMailTypes, Release
  <2>4. \/ incomingReleases' = [incomingReleases EXCEPT ![a] = r]
        \/ UNCHANGED incomingReleases
      BY <1>6, <2>1, <2>2 DEF EnrouteTimePasses
  <2> QED BY <1>6, <2>3, <2>4 DEF EnrouteTimePasses, EnrouteMailTypes
<1>7. ASSUME NEW m \in EnrouteMessage, OthersRelease(m) PROVE EnrouteMailTypes'
    BY <1>7, AddedToBag DEF OthersRelease, EnrouteMailTypes
<1>8. CASE \/ \E a \in EnrouteAircraft, type \in ReleaseTypes : ReleaseTypeSelected(a, type)
           \/ \E a \in EnrouteAircraft : NoReleaseSelected(a)
           \/ \E a \in EnrouteAircraft, p \in ReleasePoints \cup {NoReleasePoint} :
                 EditReleasePoint(a, p)
           \/ UNCHANGED enrouteVars
    BY <1>8 DEF ReleaseTypeSelected, NoReleaseSelected, EditReleasePoint, enrouteVars,
                EnrouteMailTypes
<1> QED BY <1>1, <1>2, <1>3, <1>4, <1>5, <1>6, <1>7, <1>8 DEF EnrouteNext

(* The releases set up, on their way and shown have their types, for any   *)
(* aircraft, controllers, types and points.                                *)
THEOREM EnrouteTyped == EnrouteSpec => []EnrouteTypeOK
<1>1. EnrouteInit => EnrouteMailTypes
    BY DEF EnrouteInit, EnrouteMailTypes, BagToSet, EmptyBag, SetToBag
<1>2. EnrouteIInv /\ EnrouteMailTypes => EnrouteTypeOK
    BY DEF EnrouteIInv, EnrouteMailTypes, EnrouteTypeOK
<1> QED BY <1>1, <1>2, EnrouteInitially, EnrouteKept, EnrouteMailKept, PTL DEF EnrouteSpec

-------------------------------------------------------------------------------
(* METARs and pressures.                                                     *)

\* No event of the airfield is to come.
NoMetarComing(a) == \A i \in 1..Len(metarEvents) : metarEvents[i].of # a

\* The last event to come of an airfield is its latest METAR.
LastMetarSays(a) ==
    \A i \in 1..Len(metarEvents) :
        /\ metarEvents[i].of = a
        /\ \A j \in 1..Len(metarEvents) : j > i => metarEvents[j].of # a
        => metarEvents[i].metar = metarsAtApi[a]

\* What the task fetched is there only until it ends.
FetchedWhileStoring == metarFetch # "storing" => metarsFetched = NoneFetched

\* An airfield is overtaken only while a METAR of it is in the workers' hands.
OvertakenUnderWay(a) ==
    a \in metarsOvertaken =>
        metarsFetched[a] # NoMetar \/ \E w \in MetarThreads : MetarUnderWay(w, a)

\* Unless a newer one came past, what is fetched or being stored is the latest.
UnderWayRight(a) ==
    NoMetarComing(a) /\ a \notin metarsOvertaken =>
        /\ metarsFetched[a] # NoMetar => metarsFetched[a] = metarsAtApi[a]
        /\ \A w \in MetarThreads : MetarUnderWay(w, a) =>
              metarItem[w].metar = metarsAtApi[a] /\ metars[a] = metarsAtApi[a]

\* And so is what was stored, though the same may still be stored again.
StoredRight(a) ==
    /\ NoMetarComing(a) /\ a \notin metarsOvertaken /\ a \notin metarsCrossed
    /\ \A w \in MetarThreads : ~MetarUnderWay(w, a)
    => /\ metars[a] = metarsAtApi[a]
       /\ metars[a] # NoPressure => pressures[a] = metars[a]

MetarRight(a) ==
    LastMetarSays(a) /\ OvertakenUnderWay(a) /\ UnderWayRight(a) /\ StoredRight(a)
MetarsIInv == MetarsTypeOK /\ FetchedWhileStoring /\ \A a \in MetarAirfields : MetarRight(a)

-------------------------------------------------------------------------------
(* The events.                                                                *)

\* A METAR published is the last event of its airfield, and nobody else's.
LEMMA MetarAppended ==
    ASSUME MetarsTypeOK, NEW b \in MetarAirfields, NEW m \in Metar, MetarPublished(b, m),
           NEW a \in MetarAirfields, LastMetarSays(a)
    PROVE  /\ LastMetarSays(a)'
           /\ a = b => ~NoMetarComing(a)'
           /\ a # b => metarsAtApi'[a] = metarsAtApi[a]
           /\ NoMetarComing(a)' => NoMetarComing(a)
<1>. DEFINE e == [of |-> b, metar |-> m]
            n == Len(metarEvents)
<1>1. e \in MetarOf /\ metarEvents \in Seq(MetarOf) /\ metarEvents' = Append(metarEvents, e)
  BY DEF MetarOf, MetarsTypeOK, MetarPublished
<1>2. /\ n \in Nat /\ Len(metarEvents') = n + 1
      /\ \A i \in 1..n : metarEvents'[i] = metarEvents[i]
      /\ metarEvents'[n + 1] = e
  BY <1>1, AppendProperties, LenProperties
<1>3. metarsAtApi'[b] = m /\ \A c \in MetarAirfields \ {b} : metarsAtApi'[c] = metarsAtApi[c]
  BY DEF MetarsTypeOK, MetarPublished
<1>4. e.of = b /\ e.metar = m
  OBVIOUS
<1>. HIDE DEF e
<1>5. LastMetarSays(a)'
  <2>. SUFFICES ASSUME NEW i \in 1..(n + 1), metarEvents'[i].of = a,
                       \A j \in 1..(n + 1) : j > i => metarEvents'[j].of # a
                PROVE  metarEvents'[i].metar = metarsAtApi'[a]
    BY <1>2 DEF LastMetarSays
  <2>1. CASE i = n + 1
    BY <1>2, <1>3, <1>4, <2>1
  <2>2. CASE i # n + 1
    <3>1. i \in 1..n /\ metarEvents[i].of = a /\ n + 1 > i
      BY <1>2, <2>2
    <3>2. a # b
      BY <1>2, <1>4, <3>1
    <3>3. \A j \in 1..n : j > i => metarEvents[j].of # a
      BY <1>2
    <3>. QED
      BY <1>2, <1>3, <3>1, <3>2, <3>3 DEF LastMetarSays
  <2>. QED
    BY <2>1, <2>2
<1>6. a = b => ~NoMetarComing(a)'
  BY <1>2, <1>4 DEF NoMetarComing
<1>7. NoMetarComing(a)' => NoMetarComing(a)
  BY <1>2 DEF NoMetarComing
<1>. QED
  BY <1>3, <1>5, <1>6, <1>7

\* Processing the first event leaves the rest.
LEMMA MetarTaken ==
    ASSUME MetarsTypeOK, ProcessMetarEvent, NEW a \in MetarAirfields, LastMetarSays(a)
    PROVE  /\ LastMetarSays(a)'
           /\ Head(metarEvents) \in MetarOf
           /\ Head(metarEvents).of # a => (NoMetarComing(a)' => NoMetarComing(a))
           /\ Head(metarEvents).of = a /\ NoMetarComing(a)' =>
                Head(metarEvents).metar = metarsAtApi[a]
<1>1. metarEvents \in Seq(MetarOf) /\ metarEvents # <<>> /\ metarEvents' = Tail(metarEvents)
  BY DEF ProcessMetarEvent, MetarsTypeOK
<1>2. /\ Len(metarEvents) \in Nat /\ Len(metarEvents) >= 1
      /\ Len(metarEvents') = Len(metarEvents) - 1
      /\ \A i \in 1..Len(metarEvents') : metarEvents'[i] = metarEvents[i + 1]
      /\ Head(metarEvents) = metarEvents[1] /\ Head(metarEvents) \in MetarOf
  BY <1>1, HeadTailProperties, LenProperties, EmptySeq
<1>3. metarsAtApi' = metarsAtApi
  BY DEF ProcessMetarEvent, UpdateMetar
<1>4. LastMetarSays(a)'
  <2>. SUFFICES ASSUME NEW i \in 1..Len(metarEvents'), metarEvents'[i].of = a,
                       \A j \in 1..Len(metarEvents') : j > i => metarEvents'[j].of # a
                PROVE  metarEvents'[i].metar = metarsAtApi'[a]
    BY DEF LastMetarSays
  <2>1. i + 1 \in 1..Len(metarEvents) /\ metarEvents[i + 1].of = a
    BY <1>2
  <2>2. ASSUME NEW j \in 1..Len(metarEvents), j > i + 1 PROVE metarEvents[j].of # a
    <3>1. j - 1 \in 1..Len(metarEvents') /\ j - 1 > i /\ (j - 1) + 1 = j
      BY <2>2, <1>2
    <3>. QED
      BY <3>1, <1>2
  <2>. QED
    BY <2>1, <2>2, <1>2, <1>3 DEF LastMetarSays
<1>5. ASSUME NoMetarComing(a)', NEW j \in 1..Len(metarEvents), j > 1
      PROVE  metarEvents[j].of # a
  <2>1. j - 1 \in 1..Len(metarEvents') /\ (j - 1) + 1 = j
    BY <1>5, <1>2
  <2>. QED
    BY <1>5, <2>1, <1>2 DEF NoMetarComing
<1>6. Head(metarEvents).of # a => (NoMetarComing(a)' => NoMetarComing(a))
  BY <1>2, <1>5 DEF NoMetarComing
<1>7. Head(metarEvents).of = a /\ NoMetarComing(a)' => Head(metarEvents).metar = metarsAtApi[a]
  BY <1>2, <1>5 DEF LastMetarSays
<1>. QED
  BY <1>2, <1>4, <1>6, <1>7

-------------------------------------------------------------------------------
(* Types.                                                                     *)

LEMMA UpdateMetarTyped ==
    ASSUME MetarsTypeOK, NEW w \in MetarThreads, NEW item \in MetarOf, UpdateMetar(w, item)
    PROVE  /\ metars' \in [MetarAirfields -> Metar \cup {NoMetar}]
           /\ metarItem' \in [MetarThreads -> MetarOf \cup {NoItem}]
           /\ metars'[item.of] = item.metar
           /\ \A b \in MetarAirfields \ {item.of} : metars'[b] = metars[b]
           /\ metarItem[w] = NoItem /\ metarItem'[w] = item
           /\ \A v \in MetarThreads \ {w} : metarItem'[v] = metarItem[v]
           /\ item.of \in MetarAirfields /\ item.metar \in Metar
           /\ UNCHANGED <<pressures, pressureToldOf, metarsAtApi>>
<1>1. item.of \in MetarAirfields /\ item.metar \in Metar
  BY DEF MetarOf
<1>. QED
  BY <1>1 DEF UpdateMetar, MetarsTypeOK

LEMMA MetarTypesKept == MetarsTypeOK /\ [MetarsNext]_metarsVars => MetarsTypeOK'
<1>. SUFFICES ASSUME MetarsTypeOK, [MetarsNext]_metarsVars PROVE MetarsTypeOK'
  OBVIOUS
<1>1. CASE ProcessMetarEvent
  <2>1. metarEvents \in Seq(MetarOf) /\ metarEvents # <<>>
    BY <1>1 DEF ProcessMetarEvent, MetarsTypeOK
  <2>2. Head(metarEvents) \in MetarOf /\ metarEvents' \in Seq(MetarOf)
    BY <1>1, <2>1, HeadTailProperties DEF ProcessMetarEvent
  <2>3. "push" \in MetarThreads
    BY DEF MetarThreads
  <2>4. UpdateMetar("push", Head(metarEvents))
    BY <1>1 DEF ProcessMetarEvent
  <2>5. metarsOvertaken' \subseteq MetarAirfields
    BY <1>1, <2>2 DEF ProcessMetarEvent, MetarsTypeOK, MetarOf
  <2>. QED
    BY <1>1, <2>2, <2>3, <2>4, <2>5, UpdateMetarTyped DEF ProcessMetarEvent, MetarsTypeOK
<1>2. ASSUME NEW a \in MetarAirfields, StoreFetchedMetar(a) PROVE MetarsTypeOK'
  <2>1. metarsFetched[a] \in Metar /\ "sync" \in MetarThreads
    BY <1>2 DEF StoreFetchedMetar, MetarsTypeOK, MetarThreads
  <2>2. [of |-> a, metar |-> metarsFetched[a]] \in MetarOf
    BY <2>1 DEF MetarOf
  <2>3. UpdateMetar("sync", [of |-> a, metar |-> metarsFetched[a]])
    BY <1>2 DEF StoreFetchedMetar
  <2>. QED
    BY <1>2, <2>1, <2>2, <2>3, UpdateMetarTyped DEF StoreFetchedMetar, MetarsTypeOK
<1>3. ASSUME NEW w \in MetarThreads, NEW wanted \in BOOLEAN, MetarUpdated(w, wanted)
      PROVE  MetarsTypeOK'
  <2>1. metarItem[w] \in MetarOf
    BY <1>3 DEF MetarUpdated, MetarsTypeOK
  <2>2. metarItem[w].of \in MetarAirfields /\ metarItem[w].metar \in Metar
    BY <2>1 DEF MetarOf
  <2>. QED
    BY <1>3, <2>2 DEF MetarUpdated, MetarsTypeOK
<1>4. CASE MetarsSynced \/ GetAllMetarsAnswered \/ MetarTaskEnds
  BY <1>4 DEF MetarsSynced, GetAllMetarsAnswered, MetarTaskEnds, MetarsTypeOK, metarsHistory
<1>5. ASSUME NEW a \in MetarAirfields, NEW m \in Metar, MetarPublished(a, m)
      PROVE  MetarsTypeOK'
  <2>1. metarEvents' \in Seq(MetarOf)
    BY <1>5, AppendProperties DEF MetarPublished, MetarsTypeOK, MetarOf
  <2>. QED
    BY <1>5, <2>1 DEF MetarPublished, MetarsTypeOK, metarsHistory
<1>6. CASE UNCHANGED metarsVars
  BY <1>6 DEF metarsVars, metarsHistory, MetarsTypeOK
<1>. QED
  BY <1>1, <1>2, <1>3, <1>4, <1>5, <1>6 DEF MetarsNext

LEMMA MetarTypesAtStart == MetarsInit => MetarsTypeOK
  BY DEF MetarsInit, MetarsTypeOK, NoneFetched, Metar, MetarThreads

-------------------------------------------------------------------------------
(* The invariant.                                                             *)

\* What is neither of the airfield nor of what is fetched changes nothing for it.
LEMMA MetarUntouched ==
    ASSUME NEW a \in MetarAirfields, MetarRight(a), LastMetarSays(a)',
           NoMetarComing(a)' => NoMetarComing(a),
           metarsAtApi'[a] = metarsAtApi[a], metars'[a] = metars[a],
           pressures'[a] = pressures[a], metarsFetched'[a] = metarsFetched[a],
           a \in metarsOvertaken' <=> a \in metarsOvertaken,
           a \in metarsCrossed' <=> a \in metarsCrossed,
           \A w \in MetarThreads : MetarUnderWay(w, a)' <=> MetarUnderWay(w, a),
           \A w \in MetarThreads : MetarUnderWay(w, a) => metarItem'[w] = metarItem[w]
    PROVE  MetarRight(a)'
  BY DEF MetarRight, OvertakenUnderWay, UnderWayRight, StoredRight

LEMMA MetarEventKeeps ==
    ASSUME MetarsIInv, ProcessMetarEvent, NEW a \in MetarAirfields
    PROVE  MetarRight(a)'
<1>. DEFINE e == Head(metarEvents)
<1>1. MetarsTypeOK /\ MetarRight(a) /\ LastMetarSays(a)
  BY DEF MetarsIInv, MetarRight
<1>2. /\ LastMetarSays(a)' /\ e \in MetarOf
      /\ e.of # a => (NoMetarComing(a)' => NoMetarComing(a))
      /\ e.of = a /\ NoMetarComing(a)' => e.metar = metarsAtApi[a]
  BY <1>1, MetarTaken
<1>. HIDE DEF e
<1>3. "push" \in MetarThreads /\ "sync" \in MetarThreads /\ \A w \in MetarThreads : w \in {"push", "sync"}
  BY DEF MetarThreads
<1>4. /\ metars'[e.of] = e.metar
      /\ \A b \in MetarAirfields \ {e.of} : metars'[b] = metars[b]
      /\ metarItem["push"] = NoItem /\ metarItem'["push"] = e
      /\ metarItem'["sync"] = metarItem["sync"]
      /\ UNCHANGED <<pressures, pressureToldOf, metarsAtApi>>
  BY <1>1, <1>2, <1>3, UpdateMetarTyped DEF ProcessMetarEvent, e
<1>5. /\ metarsOvertaken' = IF metarsFetched[e.of] # NoMetar \/ MetarUnderWay("sync", e.of)
                            THEN metarsOvertaken \cup {e.of} ELSE metarsOvertaken
      /\ UNCHANGED <<metarFetch, metarsFetched, metarsCrossed>>
  BY DEF ProcessMetarEvent, e
<1>6. e # NoItem
  BY <1>2, MetarsAssumption
<1>7. CASE e.of # a
  <2>1. \A w \in MetarThreads : MetarUnderWay(w, a)' <=> MetarUnderWay(w, a)
    BY <1>3, <1>4, <1>7 DEF MetarUnderWay
  <2>2. \A w \in MetarThreads : MetarUnderWay(w, a) => metarItem'[w] = metarItem[w]
    BY <1>3, <1>4 DEF MetarUnderWay
  <2>3. a \in metarsOvertaken' <=> a \in metarsOvertaken
    BY <1>5, <1>7
  <2>. QED
    BY <1>1, <1>2, <1>4, <1>5, <1>7, <2>1, <2>2, <2>3, MetarUntouched
<1>8. CASE e.of = a
  <2>1. MetarUnderWay("push", a)'
    BY <1>4, <1>6, <1>8 DEF MetarUnderWay
  <2>2. a \notin metarsOvertaken' => metarsFetched'[a] = NoMetar /\ ~MetarUnderWay("sync", a)'
    BY <1>4, <1>5, <1>8 DEF MetarUnderWay
  <2>3. UnderWayRight(a)'
    BY <1>2, <1>3, <1>4, <1>8, <2>2 DEF UnderWayRight
  <2>. QED
    BY <1>2, <1>3, <2>1, <2>3 DEF MetarRight, OvertakenUnderWay, StoredRight
<1>. QED
  BY <1>7, <1>8

LEMMA FetchedStoreKeeps ==
    ASSUME MetarsIInv, NEW b \in MetarAirfields, StoreFetchedMetar(b), NEW a \in MetarAirfields
    PROVE  MetarRight(a)'
<1>. DEFINE e == [of |-> b, metar |-> metarsFetched[b]]
<1>1. MetarsTypeOK /\ MetarRight(a) /\ LastMetarSays(a)
  BY DEF MetarsIInv, MetarRight
<1>2. metarsFetched[b] \in Metar /\ metarsFetched[b] # NoMetar
  BY <1>1 DEF StoreFetchedMetar, MetarsTypeOK
<1>3. e \in MetarOf /\ e.of = b /\ e.metar = metarsFetched[b]
  BY <1>2 DEF MetarOf
<1>4. "push" \in MetarThreads /\ "sync" \in MetarThreads /\ \A w \in MetarThreads : w \in {"push", "sync"}
  BY DEF MetarThreads
<1>5. UpdateMetar("sync", e)
  BY DEF StoreFetchedMetar
<1>. HIDE DEF e
<1>6. /\ metars'[b] = metarsFetched[b]
      /\ \A c \in MetarAirfields \ {b} : metars'[c] = metars[c]
      /\ metarItem["sync"] = NoItem /\ metarItem'["sync"] = e
      /\ metarItem'["push"] = metarItem["push"]
      /\ UNCHANGED <<pressures, pressureToldOf, metarsAtApi>>
  BY <1>1, <1>3, <1>4, <1>5, UpdateMetarTyped
<1>7. /\ metarsOvertaken' = IF MetarUnderWay("push", b) THEN metarsOvertaken \cup {b}
                            ELSE metarsOvertaken
      /\ UNCHANGED <<metarEvents, metarFetch, metarsCrossed>>
      /\ metarsFetched'[b] = NoMetar
      /\ \A c \in MetarAirfields \ {b} : metarsFetched'[c] = metarsFetched[c]
  BY <1>1 DEF StoreFetchedMetar, MetarsTypeOK
<1>8. e # NoItem
  BY <1>3, MetarsAssumption
<1>9. LastMetarSays(a)' /\ (NoMetarComing(a)' <=> NoMetarComing(a))
  BY <1>1, <1>6, <1>7 DEF LastMetarSays, NoMetarComing
<1>10. CASE b # a
  <2>1. \A w \in MetarThreads : MetarUnderWay(w, a)' <=> MetarUnderWay(w, a)
    BY <1>3, <1>4, <1>6, <1>10 DEF MetarUnderWay
  <2>2. \A w \in MetarThreads : MetarUnderWay(w, a) => metarItem'[w] = metarItem[w]
    BY <1>4, <1>6 DEF MetarUnderWay
  <2>. QED
    BY <1>1, <1>6, <1>7, <1>9, <1>10, <2>1, <2>2, MetarUntouched
<1>11. CASE b = a
  <2>1. MetarUnderWay("sync", a)'
    BY <1>3, <1>6, <1>8, <1>11 DEF MetarUnderWay
  <2>2. a \notin metarsOvertaken' => a \notin metarsOvertaken /\ ~MetarUnderWay("push", a)'
    BY <1>6, <1>7, <1>11 DEF MetarUnderWay
  <2>3. NoMetarComing(a) /\ a \notin metarsOvertaken => metarsFetched[a] = metarsAtApi[a]
    BY <1>1, <1>2, <1>11 DEF MetarRight, UnderWayRight
  <2>4. UnderWayRight(a)'
    BY <1>3, <1>4, <1>6, <1>7, <1>9, <1>11, <2>2, <2>3 DEF UnderWayRight
  <2>. QED
    BY <1>4, <1>9, <2>1, <2>4 DEF MetarRight, OvertakenUnderWay, StoredRight
<1>. QED
  BY <1>10, <1>11

LEMMA MonitorKeeps ==
    ASSUME MetarsIInv, NEW w \in MetarThreads, NEW wanted \in BOOLEAN, MetarUpdated(w, wanted),
           NEW a \in MetarAirfields
    PROVE  MetarRight(a)'
<1>. DEFINE b == metarItem[w].of
            p == metarItem[w].metar
<1>1. MetarsTypeOK /\ MetarRight(a) /\ LastMetarSays(a)
  BY DEF MetarsIInv, MetarRight
<1>2. metarItem[w] \in MetarOf /\ metarItem[w] # NoItem
  BY <1>1 DEF MetarUpdated, MetarsTypeOK
<1>3. b \in MetarAirfields /\ p \in Metar
  BY <1>2 DEF MetarOf
<1>4. /\ \A c \in MetarAirfields \ {b} : pressures'[c] = pressures[c]
      /\ p # NoPressure => pressures'[b] = p
      /\ metarsCrossed' = IF b \in metarsOvertaken THEN metarsCrossed \cup {b}
                          ELSE metarsCrossed \ {b}
      /\ metarsOvertaken' =
           IF metarsFetched[b] # NoMetar \/ \E v \in MetarThreads \ {w} : MetarUnderWay(v, b)
           THEN metarsOvertaken ELSE metarsOvertaken \ {b}
      /\ metarItem'[w] = NoItem
      /\ \A v \in MetarThreads \ {w} : metarItem'[v] = metarItem[v]
      /\ UNCHANGED <<metars, metarsAtApi, metarEvents, metarFetch, metarsFetched>>
  BY <1>1, <1>3 DEF MetarUpdated, MetarsTypeOK
<1>5. MetarUnderWay(w, b)
  BY <1>2 DEF MetarUnderWay
<1>. HIDE DEF b, p
<1>6. LastMetarSays(a)' /\ (NoMetarComing(a)' <=> NoMetarComing(a))
  BY <1>1, <1>4 DEF LastMetarSays, NoMetarComing
<1>7. CASE b # a
  <2>1. \A v \in MetarThreads : MetarUnderWay(v, a)' <=> MetarUnderWay(v, a)
    BY <1>4, <1>7 DEF MetarUnderWay, b
  <2>2. \A v \in MetarThreads : MetarUnderWay(v, a) => metarItem'[v] = metarItem[v]
    BY <1>4, <1>7 DEF MetarUnderWay, b
  <2>. QED
    BY <1>1, <1>4, <1>6, <1>7, <2>1, <2>2, MetarUntouched
<1>8. CASE b = a
  <2>1. \A v \in MetarThreads : MetarUnderWay(v, a)' <=> v # w /\ MetarUnderWay(v, a)
    BY <1>4 DEF MetarUnderWay
  <2>2. OvertakenUnderWay(a)'
    BY <1>1, <1>4, <1>8, <2>1 DEF OvertakenUnderWay, MetarRight
  <2>3. CASE a \in metarsOvertaken
    <3>1. a \in metarsCrossed'
      BY <1>4, <1>8, <2>3
    <3>2. a \notin metarsOvertaken' =>
             metarsFetched'[a] = NoMetar /\ \A v \in MetarThreads : ~MetarUnderWay(v, a)'
      BY <1>4, <1>8, <2>1, <2>3
    <3>. QED
      BY <1>6, <2>2, <3>1, <3>2 DEF MetarRight, UnderWayRight, StoredRight
  <2>4. CASE a \notin metarsOvertaken
    <3>1. a \notin metarsOvertaken'
      BY <1>4, <2>4
    <3>2. NoMetarComing(a) => p = metarsAtApi[a] /\ metars[a] = metarsAtApi[a]
      BY <1>1, <1>5, <1>8, <2>4 DEF MetarRight, UnderWayRight, p
    <3>3. UnderWayRight(a)'
      BY <1>1, <1>4, <1>6, <2>1, <2>4 DEF MetarRight, UnderWayRight
    <3>4. StoredRight(a)'
      BY <1>4, <1>6, <1>8, <3>2 DEF StoredRight
    <3>. QED
      BY <1>6, <2>2, <3>3, <3>4 DEF MetarRight
  <2>. QED
    BY <2>3, <2>4
<1>. QED
  BY <1>7, <1>8

LEMMA MetarsKept == MetarsIInv /\ [MetarsNext]_metarsVars => MetarsIInv'
<1>. SUFFICES ASSUME MetarsIInv, [MetarsNext]_metarsVars PROVE MetarsIInv'
  OBVIOUS
<1>1. MetarsTypeOK /\ MetarsTypeOK' /\ FetchedWhileStoring
  BY MetarTypesKept DEF MetarsIInv
<1>2. FetchedWhileStoring'
  <2>1. ASSUME NEW b \in MetarAirfields, StoreFetchedMetar(b) PROVE FetchedWhileStoring'
    <3>1. metarsFetched # NoneFetched
      BY <2>1 DEF StoreFetchedMetar, NoneFetched
    <3>. QED
      BY <1>1, <2>1, <3>1 DEF FetchedWhileStoring, StoreFetchedMetar
  <2>2. CASE \/ ProcessMetarEvent
             \/ \E w \in MetarThreads, wanted \in BOOLEAN : MetarUpdated(w, wanted)
             \/ MetarsSynced \/ GetAllMetarsAnswered \/ MetarTaskEnds
             \/ \E b \in MetarAirfields, m \in Metar : MetarPublished(b, m)
             \/ UNCHANGED metarsVars
    BY <1>1, <2>2 DEF FetchedWhileStoring, ProcessMetarEvent, MetarUpdated, MetarsSynced,
                     GetAllMetarsAnswered, MetarTaskEnds, MetarPublished, metarsVars, NoneFetched
  <2>. QED
    BY <2>1, <2>2 DEF MetarsNext
<1>3. ASSUME NEW a \in MetarAirfields PROVE MetarRight(a)'
  <2>0. MetarRight(a) /\ LastMetarSays(a)
    BY DEF MetarsIInv, MetarRight
  <2>1. CASE ProcessMetarEvent
    BY <2>1, MetarEventKeeps
  <2>2. CASE \E b \in MetarAirfields : StoreFetchedMetar(b)
    BY <2>2, FetchedStoreKeeps
  <2>3. CASE \E w \in MetarThreads, wanted \in BOOLEAN : MetarUpdated(w, wanted)
    BY <2>3, MonitorKeeps
  <2>4. CASE MetarsSynced \/ MetarTaskEnds \/ UNCHANGED metarsVars
    <3>1. UNCHANGED <<metars, pressures, metarsAtApi, metarEvents, metarsFetched, metarItem,
                      metarsOvertaken, metarsCrossed>>
      BY <2>4 DEF MetarsSynced, MetarTaskEnds, metarsVars, metarsHistory
    <3>. QED
      BY <2>0, <3>1 DEF MetarRight, LastMetarSays, NoMetarComing, OvertakenUnderWay,
                       UnderWayRight, StoredRight, MetarUnderWay
  <2>5. CASE GetAllMetarsAnswered
    <3>1. /\ metarsFetched' = metarsAtApi /\ metarsFetched[a] = NoMetar
          /\ UNCHANGED <<metars, pressures, metarsAtApi, metarEvents, metarItem,
                         metarsOvertaken, metarsCrossed>>
      BY <1>1, <2>5 DEF GetAllMetarsAnswered, metarsHistory, FetchedWhileStoring, NoneFetched
    <3>. QED
      BY <2>0, <3>1 DEF MetarRight, LastMetarSays, NoMetarComing, OvertakenUnderWay,
                       UnderWayRight, StoredRight, MetarUnderWay
  <2>6. ASSUME NEW b \in MetarAirfields, NEW m \in Metar, MetarPublished(b, m)
        PROVE  MetarRight(a)'
    <3>1. /\ LastMetarSays(a)'
          /\ a = b => ~NoMetarComing(a)'
          /\ a # b => metarsAtApi'[a] = metarsAtApi[a]
          /\ NoMetarComing(a)' => NoMetarComing(a)
      BY <1>1, <2>0, <2>6, MetarAppended
    <3>2. UNCHANGED <<metars, pressures, metarsFetched, metarItem, metarsOvertaken, metarsCrossed>>
      BY <2>6 DEF MetarPublished, metarsHistory
    <3>. QED
      BY <2>0, <3>1, <3>2 DEF MetarRight, OvertakenUnderWay, UnderWayRight, StoredRight,
                              MetarUnderWay
  <2>. QED
    BY <2>1, <2>2, <2>3, <2>4, <2>5, <2>6 DEF MetarsNext
<1>. QED
  BY <1>1, <1>2, <1>3 DEF MetarsIInv

LEMMA MetarsAtStart == MetarsInit => MetarsIInv
<1>. SUFFICES ASSUME MetarsInit PROVE MetarsIInv
  OBVIOUS
<1>1. MetarsTypeOK
  BY MetarTypesAtStart
<1>2. Len(metarEvents) = 0 /\ metarsOvertaken = {} /\ metarsCrossed = MetarAirfields
  BY DEF MetarsInit
<1>3. ASSUME NEW a \in MetarAirfields PROVE MetarRight(a)
  BY <1>2 DEF MetarsInit, MetarRight, LastMetarSays, OvertakenUnderWay, UnderWayRight,
              StoredRight, MetarUnderWay, NoneFetched
<1>. QED
  BY <1>1, <1>3 DEF MetarsIInv, FetchedWhileStoring, MetarsInit

-------------------------------------------------------------------------------
(* The theorems.                                                              *)

\* Whatever METARs and pressures come by synchronisation and by event, the maps
\* and the tasks between them hold what MetarEventHandler and the MinStack manager
\* can make of them.
THEOREM MetarsTyped == MetarsSpec => []MetarsTypeOK
  BY MetarTypesAtStart, MetarTypesKept, PTL DEF MetarsSpec

\* However the refreshes of MetarModule and the push events interleave, for any
\* number of airfields and workers: once all of an airfield has been processed
\* and no fetch crossed an event, the METAR and the pressure kept are the
\* latest ones of the API.
THEOREM MetarsConverged == MetarsSpec => []MetarsConverge
<1>1. MetarsIInv => MetarsConverge
  <2>. SUFFICES ASSUME MetarsIInv, NEW a \in MetarAirfields, MetarSettled(a), a \notin metarsCrossed
                PROVE  metars[a] = metarsAtApi[a] /\ (metars[a] # NoPressure => pressures[a] = metars[a])
    BY DEF MetarsConverge
  <2>1. NoMetarComing(a)
    BY DEF MetarSettled, NoMetarComing, Range, MetarsIInv, MetarsTypeOK
  <2>2. a \notin metarsOvertaken
    BY DEF MetarsIInv, MetarRight, OvertakenUnderWay, MetarSettled
  <2>. QED
    BY <2>1, <2>2 DEF MetarsIInv, MetarRight, StoredRight, MetarSettled
<1>. QED
  BY <1>1, MetarsAtStart, MetarsKept, PTL DEF MetarsSpec

-------------------------------------------------------------------------------
(* Queues of events that say what they are and of which message.              *)

Coming(queue, i, is) == \E k \in 1..Len(queue) : queue[k] = [is |-> is, id |-> i]
NoneComing(queue, i) == \A k \in 1..Len(queue) : queue[k].id # i

\* An event of this kind is the first of its message, so there is one at most.
ComesFirst(queue, i, is) ==
    \A k \in 1..Len(queue) : queue[k] = [is |-> is, id |-> i] =>
        \A l \in 1..Len(queue) : l < k => queue[l].id # i

\* An event appended is the last of its message, and nobody else's.
LEMMA EventAppended ==
    ASSUME NEW E, NEW queue \in Seq(E), NEW e \in E,
           NEW longer, longer = Append(queue, e)
    PROVE  /\ longer \in Seq(E)
           /\ \A i : NoneComing(longer, i) <=> NoneComing(queue, i) /\ e.id # i
           /\ \A i, x :
                /\ Coming(longer, i, x) <=> Coming(queue, i, x) \/ e = [is |-> x, id |-> i]
                /\ ComesFirst(queue, i, x) /\ (e = [is |-> x, id |-> i] => NoneComing(queue, i)) =>
                      ComesFirst(longer, i, x)
<1>. DEFINE n == Len(queue)
<1>2. /\ n \in Nat /\ Len(longer) = n + 1 /\ longer \in Seq(E)
      /\ \A k \in 1..n : longer[k] = queue[k]
      /\ longer[n + 1] = e
  BY AppendProperties, LenProperties
<1>5. ASSUME NEW i PROVE NoneComing(longer, i) <=> NoneComing(queue, i) /\ e.id # i
  BY <1>2 DEF NoneComing
<1>6. ASSUME NEW i, NEW x
      PROVE  Coming(longer, i, x) <=> Coming(queue, i, x) \/ e = [is |-> x, id |-> i]
  <2>1. ASSUME Coming(longer, i, x) PROVE Coming(queue, i, x) \/ e = [is |-> x, id |-> i]
    <3>1. PICK k \in 1..(n + 1) : longer[k] = [is |-> x, id |-> i]
      BY <1>2, <2>1 DEF Coming
    <3>2. CASE k = n + 1
      BY <1>2, <3>1, <3>2
    <3>3. CASE k # n + 1
      <4>1. k \in 1..n
        BY <1>2, <3>3
      <4>. QED
        BY <1>2, <3>1, <4>1 DEF Coming
    <3>. QED
      BY <3>2, <3>3
  <2>2. Coming(queue, i, x) \/ e = [is |-> x, id |-> i] => Coming(longer, i, x)
    BY <1>2 DEF Coming
  <2>. QED
    BY <2>1, <2>2
<1>7. ASSUME NEW i, NEW x, ComesFirst(queue, i, x),
             e = [is |-> x, id |-> i] => NoneComing(queue, i)
      PROVE  ComesFirst(longer, i, x)
  <2>. SUFFICES ASSUME NEW k \in 1..(n + 1), longer[k] = [is |-> x, id |-> i]
                PROVE  \A l \in 1..(n + 1) : l < k => longer[l].id # i
    BY <1>2 DEF ComesFirst
  <2>1. CASE k = n + 1
    BY <1>2, <1>7, <2>1 DEF NoneComing
  <2>2. CASE k # n + 1
    <3>1. k \in 1..n /\ \A l \in 1..(n + 1) : l < k => l \in 1..n
      BY <1>2, <2>2
    <3>. QED
      BY <1>2, <1>7, <3>1 DEF ComesFirst
  <2>. QED
    BY <2>1, <2>2
<1>. QED
  BY <1>2, <1>5, <1>6, <1>7

\* Taking the first event leaves the others; one that comes first came once.
LEMMA EventTaken ==
    ASSUME NEW E, NEW queue \in Seq(E), queue # <<>>,
           NEW rest, rest = Tail(queue)
    PROVE  /\ rest \in Seq(E) /\ Head(queue) \in E
           /\ \A i : NoneComing(queue, i) => NoneComing(rest, i) /\ Head(queue).id # i
           /\ \A i, x :
                /\ Coming(rest, i, x) => Coming(queue, i, x)
                /\ Coming(queue, i, x) => Coming(rest, i, x) \/ Head(queue) = [is |-> x, id |-> i]
                /\ Head(queue) = [is |-> x, id |-> i] => Coming(queue, i, x)
                /\ ComesFirst(queue, i, x) =>
                      /\ ComesFirst(rest, i, x)
                      /\ Head(queue).id = i => ~Coming(rest, i, x)
<1>1. /\ Len(queue) \in Nat /\ Len(queue) >= 1
      /\ Len(rest) = Len(queue) - 1
      /\ \A k \in 1..Len(rest) : rest[k] = queue[k + 1]
      /\ Head(queue) = queue[1] /\ Head(queue) \in E
      /\ rest \in Seq(E)
  BY HeadTailProperties, LenProperties, EmptySeq
<1>2. \A k \in 1..Len(queue) : k = 1 \/ (k - 1 \in 1..Len(rest) /\ (k - 1) + 1 = k)
  BY <1>1
<1>3. 1 \in 1..Len(queue) /\ \A k \in 1..Len(rest) : k + 1 \in 1..Len(queue) /\ 1 < k + 1
  BY <1>1
<1>4. ASSUME NEW i, NoneComing(queue, i)
      PROVE  NoneComing(rest, i) /\ Head(queue).id # i
  <2>1. NoneComing(rest, i)
    BY <1>1, <1>3, <1>4 DEF NoneComing
  <2>2. queue[1].id # i
    BY <1>3, <1>4 DEF NoneComing
  <2>. QED
    BY <1>1, <2>1, <2>2
<1>5. ASSUME NEW i, NEW x
      PROVE  /\ Coming(rest, i, x) => Coming(queue, i, x)
             /\ Coming(queue, i, x) => Coming(rest, i, x) \/ Head(queue) = [is |-> x, id |-> i]
             /\ Head(queue) = [is |-> x, id |-> i] => Coming(queue, i, x)
  <2>1. Coming(rest, i, x) => Coming(queue, i, x)
    BY <1>1, <1>3 DEF Coming
  <2>2. Coming(queue, i, x) => Coming(rest, i, x) \/ Head(queue) = [is |-> x, id |-> i]
    BY <1>1, <1>2 DEF Coming
  <2>3. Head(queue) = [is |-> x, id |-> i] => Coming(queue, i, x)
    BY <1>1, <1>3 DEF Coming
  <2>. QED
    BY <2>1, <2>2, <2>3
<1>6. ASSUME NEW i, NEW x, ComesFirst(queue, i, x)
      PROVE  ComesFirst(rest, i, x) /\ (Head(queue).id = i => ~Coming(rest, i, x))
  <2>1. ASSUME NEW k \in 1..Len(rest), rest[k] = [is |-> x, id |-> i]
        PROVE  \A l \in 1..Len(queue) : l < k + 1 => queue[l].id # i
    <3>1. queue[k + 1] = [is |-> x, id |-> i] /\ k + 1 \in 1..Len(queue)
      BY <1>1, <1>3, <2>1
    <3>. QED
      BY <1>6, <3>1 DEF ComesFirst
  <2>2. Head(queue).id = i => ~Coming(rest, i, x)
    BY <1>1, <1>3, <2>1 DEF Coming
  <2>3. ASSUME NEW k \in 1..Len(rest), rest[k] = [is |-> x, id |-> i],
               NEW l \in 1..Len(rest), l < k
        PROVE  rest[l].id # i
    <3>1. l + 1 \in 1..Len(queue) /\ l + 1 < k + 1
      BY <1>1, <2>3
    <3>. QED
      BY <1>1, <2>1, <2>3, <3>1
  <2>. QED
    BY <2>2, <2>3 DEF ComesFirst
<1>. QED
  BY <1>1, <1>4, <1>5, <1>6

-------------------------------------------------------------------------------
(* Prenote messages.                                                          *)

\* An event of message i is to come.
PrenoteComing(i, is) == Coming(prenoteEvents, i, is)
NoPrenoteComing(i) == NoneComing(prenoteEvents, i)

\* Its handler is between the two lookups of an event of message i.
PrenoteFound(i, is) == prenoteLookup # NoLookup /\ prenoteLookup.is = is /\ prenoteLookup.id = i

\* Somebody is still to tell the collection: the event, or the task of the user's call.
PrenotePending(i, is, do) ==
    \/ PrenoteComing(i, is)
    \/ PrenoteFound(i, is)
    \/ [do |-> do, id |-> i] \in PrenoteTasks

\* Nothing is known of a message the API has not made.
UnmadeUnknown(i) ==
    prenotesAtApi[i] = "none" =>
        /\ prenoteMessages[i] = "absent" /\ i \notin prenotesTold
        /\ NoPrenoteComing(i)
        /\ \A do \in {"add", "delete", "remove", "acknowledge", "mark"} :
              [do |-> do, id |-> i] \notin PrenoteTasks

\* Nobody acknowledges what the API does not have as acknowledged.
AcknowledgedAtApi(i) ==
    \/ prenoteMessages[i] = "acknowledged"
    \/ PrenotePending(i, "acknowledged", "mark")
    => prenotesAtApi[i] \in {"acknowledged", "deleted"}

\* The events of a message come after the one that brought it.
ReceivedFirst(i) ==
    /\ ComesFirst(prenoteEvents, i, "received")
    /\ PrenoteComing(i, "received") => i \notin prenotesTold

\* What no event has told of is still to be told.
UntoldComing(i) ==
    i \notin prenotesTold =>
        /\ prenotesAtApi[i] = "acknowledged" => PrenoteComing(i, "acknowledged")
        /\ prenotesAtApi[i] = "deleted" => PrenoteComing(i, "deleted")

\* A message behind the API is going to be put right.
BehindPending(i) ==
    i \notin prenotesLate =>
        /\ prenotesAtApi[i] = "acknowledged" /\ prenoteMessages[i] = "sent" =>
              PrenotePending(i, "acknowledged", "mark")
        /\ prenotesAtApi[i] = "deleted" /\ Held(i) => PrenotePending(i, "deleted", "remove")

\* What a handler looks up the API has made; if it is new, no other event was before.
LookupFirst(i) ==
    /\ \A is \in {"received", "acknowledged", "deleted"} : PrenoteFound(i, is) => prenotesAtApi[i] # "none"
    /\ PrenoteFound(i, "received") => i \notin prenotesTold

PrenoteRight(i) ==
    /\ UnmadeUnknown(i) /\ AcknowledgedAtApi(i) /\ ReceivedFirst(i) /\ UntoldComing(i) /\ BehindPending(i)
    /\ LookupFirst(i)
PrenotesIInv == PrenotesTypeOK /\ \A i \in PrenoteIds : PrenoteRight(i)

-------------------------------------------------------------------------------
(* The events and the tasks.                                                  *)

\* An event published is the last of its message, and nobody else's.
LEMMA PrenotePublished ==
    ASSUME PrenotesTypeOK, NEW is \in {"received", "acknowledged", "deleted"},
           NEW j \in PrenoteIds, PublishPrenote(is, j), UNCHANGED prenotesTold
    PROVE  /\ prenoteEvents' \in Seq(PrenoteEvent)
           /\ PrenoteComing(j, is)'
           /\ \A i \in PrenoteIds :
                /\ NoPrenoteComing(i)' <=> NoPrenoteComing(i) /\ i # j
                /\ \A x \in {"received", "acknowledged", "deleted"} :
                      PrenoteComing(i, x)' <=> PrenoteComing(i, x) \/ (i = j /\ x = is)
                /\ ReceivedFirst(i) =>
                      \/ ReceivedFirst(i)'
                      \/ i = j /\ is = "received" /\ ~(NoPrenoteComing(i) /\ i \notin prenotesTold)
<1>. DEFINE e == [is |-> is, id |-> j]
<1>1. /\ prenoteEvents \in Seq(PrenoteEvent) /\ e \in PrenoteEvent
      /\ prenoteEvents' = Append(prenoteEvents, e)
  BY DEF PrenoteEvent, PrenotesTypeOK, PublishPrenote
<1>2. e.id = j /\ \A i, x : e = [is |-> x, id |-> i] <=> i = j /\ x = is
  OBVIOUS
<1>. HIDE DEF e
<1>3. /\ prenoteEvents' \in Seq(PrenoteEvent)
      /\ \A i : NoneComing(prenoteEvents', i) <=> NoneComing(prenoteEvents, i) /\ e.id # i
      /\ \A i, x :
           /\ Coming(prenoteEvents', i, x) <=> Coming(prenoteEvents, i, x) \/ e = [is |-> x, id |-> i]
           /\ ComesFirst(prenoteEvents, i, x) /\ (e = [is |-> x, id |-> i] => NoneComing(prenoteEvents, i)) =>
                 ComesFirst(prenoteEvents', i, x)
  BY <1>1, EventAppended
<1>4. ASSUME NEW i \in PrenoteIds, ReceivedFirst(i)
      PROVE  \/ ReceivedFirst(i)'
             \/ i = j /\ is = "received" /\ ~(NoPrenoteComing(i) /\ i \notin prenotesTold)
  BY <1>2, <1>3, <1>4 DEF ReceivedFirst, PrenoteComing, NoPrenoteComing
<1>. QED
  BY <1>2, <1>3, <1>4 DEF PrenoteComing, NoPrenoteComing

\* Taking the first event leaves the rest; it is no second news of a message.
LEMMA PrenoteTaken ==
    ASSUME PrenotesTypeOK, prenoteEvents # <<>>, prenoteEvents' = Tail(prenoteEvents)
    PROVE  /\ prenoteEvents' \in Seq(PrenoteEvent) /\ Head(prenoteEvents) \in PrenoteEvent
           /\ \A i \in PrenoteIds :
                /\ NoPrenoteComing(i) => NoPrenoteComing(i)' /\ Head(prenoteEvents).id # i
                /\ \A x \in {"received", "acknowledged", "deleted"} :
                     /\ PrenoteComing(i, x)' => PrenoteComing(i, x)
                     /\ PrenoteComing(i, x) =>
                           PrenoteComing(i, x)' \/ Head(prenoteEvents) = [is |-> x, id |-> i]
                     /\ Head(prenoteEvents) = [is |-> x, id |-> i] => PrenoteComing(i, x)
                /\ ReceivedFirst(i) /\ Head(prenoteEvents) = [is |-> "received", id |-> i] =>
                     i \notin prenotesTold
                /\ ReceivedFirst(i) =>
                     ReceivedFirst(i)' \/ (Head(prenoteEvents).id # i /\ i \in prenotesTold' \ prenotesTold)
<1>. DEFINE e == Head(prenoteEvents)
<1>1. prenoteEvents \in Seq(PrenoteEvent)
  BY DEF PrenotesTypeOK
<1>3. /\ prenoteEvents' \in Seq(PrenoteEvent) /\ e \in PrenoteEvent
      /\ \A i : NoneComing(prenoteEvents, i) => NoneComing(prenoteEvents', i) /\ e.id # i
      /\ \A i, x :
           /\ Coming(prenoteEvents', i, x) => Coming(prenoteEvents, i, x)
           /\ Coming(prenoteEvents, i, x) => Coming(prenoteEvents', i, x) \/ e = [is |-> x, id |-> i]
           /\ e = [is |-> x, id |-> i] => Coming(prenoteEvents, i, x)
           /\ ComesFirst(prenoteEvents, i, x) =>
                 /\ ComesFirst(prenoteEvents', i, x)
                 /\ e.id = i => ~Coming(prenoteEvents', i, x)
  BY <1>1, EventTaken
<1>. HIDE DEF e
<1>4. ASSUME NEW i \in PrenoteIds, ReceivedFirst(i), e = [is |-> "received", id |-> i]
      PROVE  i \notin prenotesTold
  BY <1>3, <1>4 DEF ReceivedFirst, PrenoteComing
<1>5. ASSUME NEW i \in PrenoteIds, ReceivedFirst(i)
      PROVE  ReceivedFirst(i)' \/ (e.id # i /\ i \in prenotesTold' \ prenotesTold)
  BY <1>3, <1>5 DEF ReceivedFirst, PrenoteComing
<1>. QED
  BY <1>3, <1>4, <1>5 DEF PrenoteComing, NoPrenoteComing, e

\* What becomes of the tasks, as a set.
LEMMA PrenoteQueued ==
    ASSUME NEW t, QueuePrenoteTask(t)
    PROVE  PrenoteTasks' = PrenoteTasks \cup {t}
  BY DEF QueuePrenoteTask, PrenoteTasks, BagToSet, BagAdd

LEMMA PrenoteFinished ==
    ASSUME NEW t \in PrenoteTasks, FinishPrenoteTask(t)
    PROVE  PrenoteTasks' \subseteq PrenoteTasks /\ PrenoteTasks \ {t} \subseteq PrenoteTasks'
  BY DEF FinishPrenoteTask, PrenoteTasks, BagToSet, BagRemove

LEMMA PrenoteReplaced ==
    ASSUME NEW t \in PrenoteTasks, NEW u, ReplacePrenoteTask(t, u)
    PROVE  /\ PrenoteTasks' \subseteq PrenoteTasks \cup {u}
           /\ (PrenoteTasks \ {t}) \cup {u} \subseteq PrenoteTasks'
<1>1. PICK left : left = BagRemove(prenoteTasks, t)
  OBVIOUS
<1>2. DOMAIN left \subseteq PrenoteTasks /\ PrenoteTasks \ {t} \subseteq DOMAIN left
  BY <1>1 DEF PrenoteTasks, BagToSet, BagRemove
<1>3. DOMAIN prenoteTasks' = DOMAIN left \cup {u}
  BY <1>1 DEF ReplacePrenoteTask, BagAdd
<1>. QED
  BY <1>2, <1>3 DEF PrenoteTasks, BagToSet

-------------------------------------------------------------------------------
(* Types.                                                                     *)

LEMMA PrenoteTypesKept == PrenotesTypeOK /\ [PrenotesNext]_prenotesVars => PrenotesTypeOK'
<1>. SUFFICES ASSUME PrenotesTypeOK, [PrenotesNext]_prenotesVars PROVE PrenotesTypeOK'
  OBVIOUS
<1>0. PrenoteTasks \subseteq PrenoteTask
  BY DEF PrenotesTypeOK
<1>1. ASSUME NEW p \in Prenotes, SendPrenote(p) PROVE PrenotesTypeOK'
  <2>1. PrenoteTasks' \subseteq PrenoteTask
    BY <1>0, <1>1, PrenoteQueued DEF SendPrenote, PrenoteTask
  <2>. QED
    BY <1>1, <2>1 DEF SendPrenote, PrenotesTypeOK, prenotesBackend, prenotesHistory
<1>2. ASSUME NEW i \in PrenoteIds, CancelPrenote(i) PROVE PrenotesTypeOK'
  <2>1. PrenoteTasks' \subseteq PrenoteTask
    BY <1>0, <1>2, PrenoteQueued DEF CancelPrenote, PrenoteTask
  <2>. QED
    BY <1>2, <2>1 DEF CancelPrenote, PrenotesTypeOK, prenotesBackend, prenotesHistory
<1>3. ASSUME NEW i \in PrenoteIds, AcknowledgePrenote(i) PROVE PrenotesTypeOK'
  <2>1. PrenoteTasks' \subseteq PrenoteTask
    BY <1>0, <1>3, PrenoteQueued DEF AcknowledgePrenote, PrenoteTask
  <2>. QED
    BY <1>3, <2>1 DEF AcknowledgePrenote, PrenotesTypeOK, prenotesBackend, prenotesHistory
<1>4. CASE PrenoteTimeout
  BY <1>4 DEF PrenoteTimeout, RemovePrenotes, PrenotesTypeOK, prenotesBackend, prenotesHistory,
              PrenoteTasks
<1>5. ASSUME NEW t \in PrenoteTasks, NEW i \in PrenoteIds, CreatePrenoteAnswered(t, i)
      PROVE  PrenotesTypeOK'
  <2>1. PrenoteTasks' \subseteq PrenoteTask
    BY <1>0, <1>5, PrenoteReplaced DEF CreatePrenoteAnswered, PrenoteTask
  <2>2. t.about \in Prenotes
    BY <1>0, <1>5 DEF CreatePrenoteAnswered, PrenoteTask
  <2>3. prenoteEvents' \in Seq(PrenoteEvent)
    BY <1>5, PrenotePublished DEF CreatePrenoteAnswered, prenotesHistory
  <2>. QED
    BY <1>5, <2>1, <2>2, <2>3 DEF CreatePrenoteAnswered, PrenotesTypeOK, prenotesHistory
<1>6. ASSUME NEW t \in PrenoteTasks, PrenoteCallAnswered(t) PROVE PrenotesTypeOK'
  <2>1. t.id \in PrenoteIds
    BY <1>0, <1>6 DEF PrenoteCallAnswered, PrenoteTask
  <2>2. PrenoteTasks' \subseteq PrenoteTask
    BY <1>0, <1>6, <2>1, PrenoteReplaced DEF PrenoteCallAnswered, PrenoteTask
  <2>3. prenoteEvents' \in Seq(PrenoteEvent)
    BY <1>6, <2>1, PrenotePublished DEF PrenoteCallAnswered, prenotesHistory
  <2>. QED
    BY <1>6, <2>1, <2>2, <2>3 DEF PrenoteCallAnswered, PrenotesTypeOK, prenotesHistory
<1>7. ASSUME NEW t \in PrenoteTasks, PrenoteCallFailed(t) PROVE PrenotesTypeOK'
  <2>1. PrenoteTasks' \subseteq PrenoteTask
    BY <1>0, <1>7, PrenoteFinished DEF PrenoteCallFailed
  <2>. QED
    BY <1>7, <2>1 DEF PrenoteCallFailed, PrenotesTypeOK, prenotesBackend, prenotesHistory
<1>8. ASSUME NEW t \in PrenoteTasks, FinishPrenoteCall(t) PROVE PrenotesTypeOK'
  <2>1. PrenoteTasks' \subseteq PrenoteTask
    BY <1>0, <1>8, PrenoteFinished DEF FinishPrenoteCall
  <2>2. t.id \in PrenoteIds
    BY <1>0, <1>8 DEF FinishPrenoteCall, PrenoteTask
  <2>3. /\ prenoteMessages' \in [PrenoteIds -> {"absent", "sent", "acknowledged"}]
        /\ prenoteDue' \subseteq PrenoteIds /\ prenotesLate' \subseteq PrenoteIds
    BY <1>8, <2>2 DEF FinishPrenoteCall, AddPrenote, RemovePrenotes, MarkAcknowledged, PrenotesTypeOK
  <2>. QED
    BY <1>8, <2>1, <2>3 DEF FinishPrenoteCall, PrenotesTypeOK, prenotesBackend
<1>9. CASE FindNewPrenote
  <2>1. prenoteEvents' \in Seq(PrenoteEvent) /\ Head(prenoteEvents) \in PrenoteEvent
    BY <1>9, PrenoteTaken DEF FindNewPrenote
  <2>2. prenoteLookup' \in FirstLookup
    BY <1>9, <2>1 DEF FindNewPrenote, FirstLookup, PrenoteEvent, Held
  <2>. QED
    BY <1>9, <2>1, <2>2 DEF FindNewPrenote, PrenotesTypeOK, prenotesBackend, prenotesHistory,
                           PrenoteTasks
<1>15. CASE ProcessNewPrenote
  <2>1. prenoteLookup.id \in PrenoteIds
    BY <1>15 DEF ProcessNewPrenote, PrenotesTypeOK, FirstLookup
  <2>2. /\ prenoteMessages' \in [PrenoteIds -> {"absent", "sent", "acknowledged"}]
        /\ prenotesUp' \in BOOLEAN
    BY <1>15, <2>1 DEF ProcessNewPrenote, AddPrenote, PrenotesTypeOK
  <2>. QED
    BY <1>15, <2>2 DEF ProcessNewPrenote, PrenotesTypeOK, prenotesBackend, prenotesHistory,
                      PrenoteTasks
<1>10. CASE FindPrenoteOfEvent
  <2>1. prenoteEvents' \in Seq(PrenoteEvent) /\ Head(prenoteEvents) \in PrenoteEvent
    BY <1>10, PrenoteTaken DEF FindPrenoteOfEvent
  <2>2. Head(prenoteEvents).id \in PrenoteIds
    BY <2>1 DEF PrenoteEvent
  <2>3. /\ prenoteLookup' \in FirstLookup \cup {NoLookup}
        /\ prenotesTold' \subseteq PrenoteIds
    BY <1>10, <2>1, <2>2 DEF FindPrenoteOfEvent, PrenotesTypeOK, FirstLookup, PrenoteEvent
  <2>. QED
    BY <1>10, <2>1, <2>3 DEF FindPrenoteOfEvent, PrenotesTypeOK, prenotesBackend, PrenoteTasks
<1>11. CASE ProcessPrenoteEvent
  <2>1. prenoteLookup.id \in PrenoteIds
    BY <1>11 DEF ProcessPrenoteEvent, PrenotesTypeOK, FirstLookup
  <2>2. /\ prenoteMessages' \in [PrenoteIds -> {"absent", "sent", "acknowledged"}]
        /\ prenoteDue' \subseteq PrenoteIds /\ prenotesUp' \in BOOLEAN
    BY <1>11, <2>1 DEF ProcessPrenoteEvent, RemovePrenotes, MarkAcknowledged, PrenotesTypeOK
  <2>. QED
    BY <1>11, <2>2 DEF ProcessPrenoteEvent, PrenotesTypeOK, prenotesBackend, prenotesHistory,
                      PrenoteTasks
<1>12. ASSUME NEW i \in PrenoteIds, PrenoteFallsDue(i) PROVE PrenotesTypeOK'
  BY <1>12 DEF PrenoteFallsDue, PrenotesTypeOK, prenotesBackend, prenotesHistory, PrenoteTasks
<1>13. ASSUME NEW i \in PrenoteIds, OthersPrenote(i) PROVE PrenotesTypeOK'
  <2>1. prenoteEvents' \in Seq(PrenoteEvent)
    BY <1>13, PrenotePublished DEF OthersPrenote, prenotesHistory
  <2>. QED
    BY <1>13, <2>1 DEF OthersPrenote, PrenotesTypeOK, prenotesHistory, PrenoteTasks
<1>14. CASE UNCHANGED prenotesVars
  BY <1>14 DEF prenotesVars, prenotesBackend, prenotesHistory, PrenotesTypeOK, PrenoteTasks
<1>. QED
  BY <1>1, <1>2, <1>3, <1>4, <1>5, <1>6, <1>7, <1>8, <1>9, <1>10, <1>11, <1>12, <1>13, <1>14, <1>15
  DEF PrenotesNext

LEMMA PrenoteTypesAtStart == PrenotesInit => PrenotesTypeOK
  BY DEF PrenotesInit, PrenotesTypeOK, PrenoteTasks, BagToSet, EmptyBag, SetToBag

-------------------------------------------------------------------------------
(* The invariant.                                                             *)

\* The tasks of message i are those there were.
SamePrenoteTasks(i) ==
    \A do \in {"add", "delete", "remove", "acknowledge", "mark"} :
        [do |-> do, id |-> i] \in PrenoteTasks' <=> [do |-> do, id |-> i] \in PrenoteTasks
\* And the events.
SamePrenoteEvents(i) ==
    /\ NoPrenoteComing(i)' <=> NoPrenoteComing(i)
    /\ \A is \in {"received", "acknowledged", "deleted"} :
          PrenoteComing(i, is)' <=> PrenoteComing(i, is)
SamePrenoteLookup(i) ==
    \A is \in {"received", "acknowledged", "deleted"} : PrenoteFound(i, is)' <=> PrenoteFound(i, is)

\* A step that is about other messages, or only removes this one, keeps it right.
LEMMA PrenoteUntouched ==
    ASSUME NEW i \in PrenoteIds, PrenoteRight(i), ReceivedFirst(i)',
           SamePrenoteTasks(i), SamePrenoteEvents(i), SamePrenoteLookup(i),
           prenoteMessages'[i] = prenoteMessages[i] \/ prenoteMessages'[i] = "absent",
           prenotesAtApi'[i] = prenotesAtApi[i],
           i \in prenotesTold' <=> i \in prenotesTold,
           i \in prenotesLate' <=> i \in prenotesLate
    PROVE  PrenoteRight(i)'
<1>1. \A is, do : is \in {"acknowledged", "deleted"} /\ do \in {"mark", "remove"} =>
         (PrenotePending(i, is, do)' <=> PrenotePending(i, is, do))
  BY DEF SamePrenoteTasks, SamePrenoteEvents, SamePrenoteLookup, PrenotePending
<1>2. UnmadeUnknown(i)'
  BY DEF PrenoteRight, UnmadeUnknown, SamePrenoteEvents, SamePrenoteTasks
<1>3. AcknowledgedAtApi(i)'
  BY <1>1 DEF PrenoteRight, AcknowledgedAtApi
<1>4. UntoldComing(i)'
  BY DEF PrenoteRight, UntoldComing, SamePrenoteEvents
<1>5. BehindPending(i)'
  BY <1>1 DEF PrenoteRight, BehindPending, Held
<1>6. LookupFirst(i)'
  BY DEF PrenoteRight, LookupFirst, SamePrenoteLookup
<1>. QED
  BY <1>2, <1>3, <1>4, <1>5, <1>6 DEF PrenoteRight

\* Nor does the handler's lookup change with what the API does to a message it has.
LEMMA PrenoteLookupSame ==
    ASSUME NEW i \in PrenoteIds, UNCHANGED prenoteLookup
    PROVE  /\ SamePrenoteLookup(i)
           /\ \A is : PrenoteFound(i, is)' <=> PrenoteFound(i, is)
           /\ PrenoteRight(i) /\ (prenotesAtApi[i] # "none" => prenotesAtApi'[i] # "none")
                 /\ UNCHANGED prenotesTold => LookupFirst(i)'
  BY DEF SamePrenoteLookup, PrenoteFound, PrenoteRight, LookupFirst

LEMMA PrenoteEventsSame ==
    ASSUME UNCHANGED <<prenoteEvents, prenotesTold>>, NEW i \in PrenoteIds
    PROVE  SamePrenoteEvents(i) /\ (ReceivedFirst(i) => ReceivedFirst(i)')
  BY DEF SamePrenoteEvents, ReceivedFirst, NoPrenoteComing, PrenoteComing

\* Queueing a call to make about a message the user sees.
LEMMA PrenoteAskedKeeps ==
    ASSUME PrenotesIInv, NEW i \in PrenoteIds,
           \/ \E p \in Prenotes : SendPrenote(p)
           \/ \E j \in PrenoteIds : CancelPrenote(j) \/ AcknowledgePrenote(j)
    PROVE  PrenoteRight(i)'
<1>1. /\ UNCHANGED <<prenoteMessages, prenoteLookup, prenotesAtApi, prenoteEvents, prenotesTold, prenotesLate>>
      /\ \E t : /\ PrenoteTasks' = PrenoteTasks \cup {t}
                /\ \/ t.do = "create"
                   \/ \E j \in PrenoteIds : Held(j) /\ t \in {[do |-> "delete", id |-> j], [do |-> "acknowledge", id |-> j]}
  <2>1. ASSUME NEW p \in Prenotes, SendPrenote(p)
        PROVE  PrenoteTasks' = PrenoteTasks \cup {[do |-> "create", about |-> p]}
    BY <2>1, PrenoteQueued DEF SendPrenote
  <2>2. ASSUME NEW j \in PrenoteIds, CancelPrenote(j)
        PROVE  PrenoteTasks' = PrenoteTasks \cup {[do |-> "delete", id |-> j]} /\ Held(j)
    BY <2>2, PrenoteQueued DEF CancelPrenote
  <2>3. ASSUME NEW j \in PrenoteIds, AcknowledgePrenote(j)
        PROVE  PrenoteTasks' = PrenoteTasks \cup {[do |-> "acknowledge", id |-> j]} /\ Held(j)
    BY <2>3, PrenoteQueued DEF AcknowledgePrenote
  <2>. QED
    BY <2>1, <2>2, <2>3 DEF SendPrenote, CancelPrenote, AcknowledgePrenote, prenotesBackend,
       prenotesHistory
<1>2. PICK t : /\ PrenoteTasks' = PrenoteTasks \cup {t}
               /\ \/ t.do = "create"
                  \/ \E j \in PrenoteIds : Held(j) /\ t \in {[do |-> "delete", id |-> j], [do |-> "acknowledge", id |-> j]}
  BY <1>1
<1>3. /\ SamePrenoteEvents(i) /\ ReceivedFirst(i)' /\ PrenoteRight(i)
      /\ SamePrenoteLookup(i) /\ LookupFirst(i)'
  BY <1>1, PrenoteEventsSame, PrenoteLookupSame DEF PrenotesIInv, PrenoteRight
<1>4. CASE \A do \in {"add", "delete", "remove", "acknowledge", "mark"} : t # [do |-> do, id |-> i]
  BY <1>1, <1>2, <1>3, <1>4, PrenoteUntouched DEF SamePrenoteTasks
<1>5. CASE Held(i) /\ t \in {[do |-> "delete", id |-> i], [do |-> "acknowledge", id |-> i]}
  <2>1. prenotesAtApi'[i] # "none"
    BY <1>1, <1>3, <1>5 DEF PrenoteRight, UnmadeUnknown, Held
  <2>2. t # [do |-> "mark", id |-> i] /\ t # [do |-> "remove", id |-> i]
    BY <1>5
  <2>3. \A is, do : is \in {"acknowledged", "deleted"} /\ do \in {"mark", "remove"} =>
           (PrenotePending(i, is, do)' <=> PrenotePending(i, is, do))
    BY <1>1, <1>2, <1>3, <2>2 DEF PrenotePending, SamePrenoteEvents, SamePrenoteLookup
  <2>. QED
    BY <1>1, <1>3, <2>1, <2>3 DEF PrenoteRight, UnmadeUnknown, AcknowledgedAtApi, UntoldComing,
                                  BehindPending, Held, SamePrenoteEvents
<1>6. \A do \in {"add", "delete", "remove", "acknowledge", "mark"} : t = [do |-> do, id |-> i] =>
         Held(i) /\ t \in {[do |-> "delete", id |-> i], [do |-> "acknowledge", id |-> i]}
  <2>. SUFFICES ASSUME NEW do \in {"add", "delete", "remove", "acknowledge", "mark"},
                       t = [do |-> do, id |-> i]
                PROVE  Held(i) /\ t \in {[do |-> "delete", id |-> i], [do |-> "acknowledge", id |-> i]}
    OBVIOUS
  <2>1. t.do # "create" /\ t.id = i
    OBVIOUS
  <2>. QED
    BY <1>2, <2>1
<1>. QED
  BY <1>4, <1>5, <1>6

\* The API's answer to a task that does not do anything more, and what is late.
LEMMA PrenoteEndedKeeps ==
    ASSUME PrenotesIInv, NEW i \in PrenoteIds, NEW t \in PrenoteTasks, PrenoteCallFailed(t)
    PROVE  PrenoteRight(i)'
<1>1. /\ UNCHANGED <<prenoteMessages, prenoteLookup, prenotesAtApi, prenoteEvents, prenotesTold, prenotesLate>>
      /\ PrenoteTasks' \subseteq PrenoteTasks /\ PrenoteTasks \ {t} \subseteq PrenoteTasks'
      /\ t.do \in {"create", "delete", "acknowledge"}
  BY PrenoteFinished DEF PrenoteCallFailed, prenotesBackend, prenotesHistory
<1>2. /\ SamePrenoteEvents(i) /\ ReceivedFirst(i)' /\ PrenoteRight(i)
      /\ SamePrenoteLookup(i) /\ LookupFirst(i)'
  BY <1>1, PrenoteEventsSame, PrenoteLookupSame DEF PrenotesIInv, PrenoteRight
<1>3. t # [do |-> "mark", id |-> i] /\ t # [do |-> "remove", id |-> i]
  BY <1>1
<1>4. \A is, do : is \in {"acknowledged", "deleted"} /\ do \in {"mark", "remove"} =>
         (PrenotePending(i, is, do)' <=> PrenotePending(i, is, do))
  BY <1>1, <1>2, <1>3 DEF PrenotePending, SamePrenoteEvents, SamePrenoteLookup
<1>. QED
  BY <1>1, <1>2, <1>4 DEF PrenoteRight, UnmadeUnknown, AcknowledgedAtApi, UntoldComing,
                          BehindPending, Held, SamePrenoteEvents

\* A message made at the API is new to everybody.
LEMMA PrenoteMadeKeeps ==
    ASSUME PrenotesIInv, NEW j \in PrenoteIds, prenotesAtApi[j] = "none",
           prenotesAtApi' = [prenotesAtApi EXCEPT ![j] = "sent"], PublishPrenote("received", j),
           UNCHANGED <<prenoteMessages, prenoteLookup, prenotesTold, prenotesLate>>,
           \A d \in {"add", "delete", "remove", "acknowledge", "mark"}, k \in PrenoteIds :
              ~(d = "add" /\ k = j) =>
                 ([do |-> d, id |-> k] \in PrenoteTasks' <=> [do |-> d, id |-> k] \in PrenoteTasks),
           NEW i \in PrenoteIds
    PROVE  PrenoteRight(i)'
<1>1. PrenoteRight(i) /\ PrenotesTypeOK
  BY DEF PrenotesIInv
<1>2. /\ NoPrenoteComing(i)' <=> NoPrenoteComing(i) /\ i # j
      /\ \A x \in {"received", "acknowledged", "deleted"} :
            PrenoteComing(i, x)' <=> PrenoteComing(i, x) \/ (i = j /\ x = "received")
      /\ ReceivedFirst(i)' \/ (i = j /\ ~(NoPrenoteComing(i) /\ i \notin prenotesTold))
  BY <1>1, PrenotePublished DEF PrenoteRight
<1>3. SamePrenoteLookup(i)
  BY PrenoteLookupSame
<1>4. CASE i # j
  <2>1. SamePrenoteEvents(i) /\ SamePrenoteTasks(i) /\ ReceivedFirst(i)'
    BY <1>2, <1>4 DEF SamePrenoteEvents, SamePrenoteTasks
  <2>. QED
    BY <1>1, <1>3, <1>4, <2>1, PrenoteUntouched
<1>5. CASE i = j
  <2>1. ReceivedFirst(i)' /\ prenoteMessages[i] = "absent"
    BY <1>1, <1>2, <1>5 DEF PrenoteRight, UnmadeUnknown
  <2>2. prenotesAtApi'[i] = "sent"
    BY <1>1, <1>5 DEF PrenotesTypeOK
  <2>3. ~PrenotePending(i, "acknowledged", "mark")
    BY <1>1, <1>5 DEF PrenoteRight, AcknowledgedAtApi
  <2>4. ~PrenotePending(i, "acknowledged", "mark")'
    BY <1>2, <1>3, <2>3 DEF PrenotePending, SamePrenoteLookup
  <2>5. LookupFirst(i)'
    BY <1>1, <1>3, <1>5 DEF PrenoteRight, LookupFirst, SamePrenoteLookup
  <2>. QED
    BY <2>1, <2>2, <2>4, <2>5 DEF PrenoteRight, UnmadeUnknown, AcknowledgedAtApi, UntoldComing, BehindPending
<1>. QED
  BY <1>4, <1>5

\* What the API does to a message it has is published at once.
LEMMA PrenoteChangedKeeps ==
    ASSUME PrenotesIInv, NEW j \in PrenoteIds, prenotesAtApi[j] \in {"sent", "acknowledged"},
           NEW is \in {"acknowledged", "deleted"},
           prenotesAtApi' = [prenotesAtApi EXCEPT ![j] = is], PublishPrenote(is, j),
           UNCHANGED <<prenoteMessages, prenoteLookup, prenotesTold, prenotesLate>>,
           NEW do \in {"mark", "remove"}, do = "mark" <=> is = "acknowledged",
           \A d \in {"add", "delete", "remove", "acknowledge", "mark"}, k \in PrenoteIds :
              k # j \/ d \in {"add", "mark", "remove"} \ {do} =>
                 ([do |-> d, id |-> k] \in PrenoteTasks' <=> [do |-> d, id |-> k] \in PrenoteTasks),
           NEW i \in PrenoteIds
    PROVE  PrenoteRight(i)'
<1>1. PrenoteRight(i) /\ PrenotesTypeOK
  BY DEF PrenotesIInv
<1>2. /\ NoPrenoteComing(i)' <=> NoPrenoteComing(i) /\ i # j
      /\ \A x \in {"received", "acknowledged", "deleted"} :
            PrenoteComing(i, x)' <=> PrenoteComing(i, x) \/ (i = j /\ x = is)
      /\ ReceivedFirst(i)'
  BY <1>1, PrenotePublished DEF PrenoteRight
<1>3. SamePrenoteLookup(i)
  BY PrenoteLookupSame
<1>4. CASE i # j
  <2>1. SamePrenoteEvents(i) /\ SamePrenoteTasks(i)
    BY <1>2, <1>4 DEF SamePrenoteEvents, SamePrenoteTasks
  <2>. QED
    BY <1>1, <1>2, <1>3, <1>4, <2>1, PrenoteUntouched
<1>5. CASE i = j
  <2>1. prenotesAtApi'[i] = is /\ PrenoteComing(i, is)'
    BY <1>1, <1>2, <1>5 DEF PrenotesTypeOK
  <2>2. prenoteMessages[i] # "acknowledged" \/ prenotesAtApi[i] = "acknowledged"
    BY <1>1, <1>5 DEF PrenoteRight, AcknowledgedAtApi
  <2>3. LookupFirst(i)'
    BY <1>1, <2>1, PrenoteLookupSame
  <2>. QED
    BY <1>1, <1>2, <1>3, <2>1, <2>2, <2>3 DEF PrenoteRight, UnmadeUnknown, AcknowledgedAtApi, UntoldComing,
       BehindPending, PrenotePending, SamePrenoteLookup
<1>. QED
  BY <1>4, <1>5

\* The last part of a call about message j: what it was to tell, it tells.
LEMMA PrenoteCallKeeps ==
    ASSUME PrenotesIInv, NEW t \in PrenoteTasks, FinishPrenoteCall(t), NEW i \in PrenoteIds
    PROVE  PrenoteRight(i)'
<1>1. PrenoteRight(i) /\ PrenotesTypeOK /\ t \in PrenoteTask
  BY DEF PrenotesIInv, PrenotesTypeOK
<1>2. /\ UNCHANGED <<prenoteLookup, prenotesAtApi, prenoteEvents, prenotesTold>>
      /\ PrenoteTasks' \subseteq PrenoteTasks /\ PrenoteTasks \ {t} \subseteq PrenoteTasks'
  BY PrenoteFinished DEF FinishPrenoteCall, prenotesBackend
<1>3. SamePrenoteEvents(i) /\ ReceivedFirst(i)' /\ SamePrenoteLookup(i) /\ LookupFirst(i)'
  BY <1>1, <1>2, PrenoteEventsSame, PrenoteLookupSame DEF PrenoteRight
<1>4. /\ t.do \in {"add", "remove", "mark"} /\ t.id \in PrenoteIds
      /\ t = [do |-> t.do, id |-> t.id]
  BY <1>1 DEF FinishPrenoteCall, PrenoteTask
<1>5. CASE t.id # i
  <2>1. SamePrenoteTasks(i)
    BY <1>2, <1>5 DEF SamePrenoteTasks
  <2>2. prenoteMessages'[i] = prenoteMessages[i] /\ (i \in prenotesLate' <=> i \in prenotesLate)
    BY <1>1, <1>5 DEF FinishPrenoteCall, AddPrenote, RemovePrenotes, MarkAcknowledged, PrenotesTypeOK
  <2>. QED
    BY <1>1, <1>2, <1>3, <2>1, <2>2, PrenoteUntouched
<1>6. CASE t.id = i
  <2>1. prenotesAtApi[i] # "none"
    BY <1>1, <1>4, <1>6 DEF PrenoteRight, UnmadeUnknown
  <2>2. \A is \in {"acknowledged", "deleted"}, do \in {"mark", "remove"} :
           /\ PrenotePending(i, is, do)' => PrenotePending(i, is, do)
           /\ t.do # do => (PrenotePending(i, is, do) => PrenotePending(i, is, do)')
    BY <1>2, <1>3, <1>4 DEF PrenotePending, SamePrenoteEvents, SamePrenoteLookup
  <2>3. UnmadeUnknown(i)' /\ UntoldComing(i)'
    BY <1>1, <1>2, <1>3, <2>1 DEF PrenoteRight, UnmadeUnknown, UntoldComing, SamePrenoteEvents
  <2>4. CASE t.do = "add"
    <3>1. /\ prenoteMessages'[i] = IF Held(i) THEN prenoteMessages[i] ELSE "sent"
          /\ prenotesLate' = IF ~Held(i) /\ i \in prenotesTold THEN prenotesLate \cup {i} ELSE prenotesLate
      BY <1>1, <1>6, <2>4 DEF FinishPrenoteCall, AddPrenote, PrenotesTypeOK
    <3>2. AcknowledgedAtApi(i)'
      BY <1>1, <1>2, <2>2, <3>1 DEF PrenoteRight, AcknowledgedAtApi
    <3>3. /\ PrenotePending(i, "acknowledged", "mark") => PrenotePending(i, "acknowledged", "mark")'
          /\ PrenotePending(i, "deleted", "remove") => PrenotePending(i, "deleted", "remove")'
      BY <2>2, <2>4
    <3>4. CASE Held(i)
      BY <1>1, <1>2, <1>3, <2>3, <3>1, <3>2, <3>3, <3>4 DEF PrenoteRight, BehindPending, Held
    <3>5. CASE ~Held(i) /\ i \in prenotesTold
      BY <1>3, <2>3, <3>1, <3>2, <3>5 DEF PrenoteRight, BehindPending
    <3>6. CASE ~Held(i) /\ i \notin prenotesTold
      <4>1. /\ prenotesAtApi[i] = "acknowledged" => PrenotePending(i, "acknowledged", "mark")
            /\ prenotesAtApi[i] = "deleted" => PrenotePending(i, "deleted", "remove")
        BY <1>1, <3>6 DEF PrenoteRight, UntoldComing, PrenotePending
      <4>. QED
        BY <1>2, <1>3, <2>3, <3>2, <3>3, <4>1 DEF PrenoteRight, BehindPending
    <3>. QED
      BY <3>4, <3>5, <3>6
  <2>5. CASE t.do = "remove"
    <3>1. prenoteMessages'[i] = "absent" /\ prenotesLate' = prenotesLate
      BY <1>1, <1>6, <2>5 DEF FinishPrenoteCall, RemovePrenotes
    <3>. QED
      BY <1>1, <1>2, <1>3, <2>2, <2>3, <3>1 DEF PrenoteRight, AcknowledgedAtApi, BehindPending, Held
  <2>6. CASE t.do = "mark"
    <3>1. /\ prenoteMessages'[i] = IF Held(i) THEN "acknowledged" ELSE prenoteMessages[i]
          /\ prenotesLate' = prenotesLate
      BY <1>1, <1>6, <2>6 DEF FinishPrenoteCall, MarkAcknowledged, PrenotesTypeOK
    <3>2. PrenotePending(i, "acknowledged", "mark")
      BY <1>4, <1>6, <2>6 DEF PrenotePending
    <3>3. prenotesAtApi[i] \in {"acknowledged", "deleted"}
      BY <1>1, <3>2 DEF PrenoteRight, AcknowledgedAtApi
    <3>4. PrenotePending(i, "deleted", "remove") => PrenotePending(i, "deleted", "remove")'
      BY <2>2, <2>6
    <3>. QED
      BY <1>1, <1>2, <1>3, <2>3, <3>1, <3>3, <3>4 DEF PrenoteRight, AcknowledgedAtApi, BehindPending,
         Held
  <2>. QED
    BY <1>4, <2>4, <2>5, <2>6
<1>. QED
  BY <1>5, <1>6

\* The event that brings a message is the first anybody hears of it; its handler goes on with it.
LEMMA PrenoteNewsFoundKeeps ==
    ASSUME PrenotesIInv, FindNewPrenote, NEW i \in PrenoteIds
    PROVE  PrenoteRight(i)'
<1>. DEFINE e == Head(prenoteEvents)
<1>1. PrenoteRight(i) /\ PrenotesTypeOK
  BY DEF PrenotesIInv
<1>2. /\ e \in PrenoteEvent
      /\ NoPrenoteComing(i) => NoPrenoteComing(i)' /\ e.id # i
      /\ \A x \in {"received", "acknowledged", "deleted"} :
            /\ PrenoteComing(i, x)' => PrenoteComing(i, x)
            /\ PrenoteComing(i, x) => PrenoteComing(i, x)' \/ e = [is |-> x, id |-> i]
      /\ e = [is |-> "received", id |-> i] => i \notin prenotesTold
      /\ ReceivedFirst(i)'
  BY <1>1, PrenoteTaken DEF FindNewPrenote, PrenoteRight, prenotesHistory
<1>3. /\ e.is = "received"
      /\ prenoteLookup = NoLookup
      /\ prenoteLookup'.is = "received" /\ prenoteLookup'.id = e.id
      /\ UNCHANGED <<prenoteMessages, prenotesAtApi, prenotesTold, prenotesLate>>
      /\ PrenoteTasks' = PrenoteTasks
  BY DEF FindNewPrenote, PrenotesIdle, prenotesBackend, prenotesHistory, PrenoteTasks
<1>. HIDE DEF e
<1>4. e.id = i => e = [is |-> "received", id |-> i]
  BY <1>2, <1>3 DEF PrenoteEvent
<1>5. \A x \in {"acknowledged", "deleted"} : PrenoteComing(i, x)' <=> PrenoteComing(i, x)
  BY <1>2, <1>3
<1>6. \A is \in {"acknowledged", "deleted"}, do \in {"mark", "remove"} :
         PrenotePending(i, is, do)' <=> PrenotePending(i, is, do)
  BY <1>3, <1>5 DEF PrenotePending, PrenoteFound
<1>7. LookupFirst(i)'
  <2>1. \A is : PrenoteFound(i, is)' => is = "received" /\ e.id = i
    BY <1>3 DEF PrenoteFound
  <2>2. e.id = i => prenotesAtApi[i] # "none" /\ i \notin prenotesTold
    BY <1>1, <1>2, <1>4 DEF PrenoteRight, UnmadeUnknown
  <2>. QED
    BY <1>3, <2>1, <2>2 DEF LookupFirst
<1>. QED
  BY <1>1, <1>2, <1>3, <1>5, <1>6, <1>7
     DEF PrenoteRight, UnmadeUnknown, AcknowledgedAtApi, UntoldComing, BehindPending, Held

\* Adding it then leaves nothing untold: no other event of it has been before.
LEMMA PrenoteReceivedKeeps ==
    ASSUME PrenotesIInv, ProcessNewPrenote, NEW i \in PrenoteIds
    PROVE  PrenoteRight(i)'
<1>1. PrenoteRight(i) /\ PrenotesTypeOK
  BY DEF PrenotesIInv
<1>2. /\ prenoteLookup # NoLookup /\ prenoteLookup.is = "received" /\ prenoteLookup.id \in PrenoteIds
      /\ UNCHANGED <<prenotesAtApi, prenoteEvents, prenotesTold, prenotesLate>>
      /\ PrenoteTasks' = PrenoteTasks
      /\ \/ UNCHANGED <<prenoteMessages, prenoteLookup>>
         \/ prenoteMessages' = AddPrenote(prenoteLookup.id) /\ prenoteLookup' = NoLookup
  BY <1>1 DEF ProcessNewPrenote, prenotesBackend, prenotesHistory, PrenoteTasks, PrenotesTypeOK,
     FirstLookup
<1>3. SamePrenoteEvents(i) /\ ReceivedFirst(i)' /\ SamePrenoteTasks(i)
  BY <1>1, <1>2, PrenoteEventsSame DEF PrenoteRight, SamePrenoteTasks
<1>4. CASE UNCHANGED <<prenoteMessages, prenoteLookup>>
  BY <1>1, <1>2, <1>3, <1>4, PrenoteLookupSame, PrenoteUntouched
<1>5. CASE prenoteMessages' = AddPrenote(prenoteLookup.id) /\ prenoteLookup' = NoLookup
  <2>1. /\ \A is : ~PrenoteFound(i, is)'
        /\ \A is \in {"acknowledged", "deleted"} : ~PrenoteFound(i, is)
        /\ PrenoteFound(i, "received") <=> prenoteLookup.id = i
    BY <1>2, <1>5 DEF PrenoteFound
  <2>2. \A is \in {"acknowledged", "deleted"}, do \in {"mark", "remove"} :
           PrenotePending(i, is, do)' <=> PrenotePending(i, is, do)
    BY <1>2, <1>3, <2>1 DEF PrenotePending, SamePrenoteEvents
  <2>3. prenoteMessages'[i] = IF prenoteLookup.id = i /\ ~Held(i) THEN "sent" ELSE prenoteMessages[i]
    BY <1>1, <1>2, <1>5 DEF AddPrenote, PrenotesTypeOK
  <2>4. prenoteLookup.id = i => prenotesAtApi[i] # "none" /\ i \notin prenotesTold
    BY <1>1, <2>1 DEF PrenoteRight, LookupFirst
  <2>5. /\ UnmadeUnknown(i)' /\ UntoldComing(i)'
    BY <1>1, <1>2, <1>3, <2>3, <2>4 DEF PrenoteRight, UnmadeUnknown, UntoldComing, SamePrenoteEvents
  <2>6. AcknowledgedAtApi(i)'
    BY <1>1, <1>2, <2>2, <2>3 DEF PrenoteRight, AcknowledgedAtApi
  <2>7. LookupFirst(i)'
    BY <2>1 DEF LookupFirst
  <2>8. BehindPending(i)'
    <3>1. CASE prenoteLookup.id = i /\ ~Held(i)
      <4>1. /\ prenotesAtApi[i] = "acknowledged" => PrenotePending(i, "acknowledged", "mark")
            /\ prenotesAtApi[i] = "deleted" => PrenotePending(i, "deleted", "remove")
        BY <1>1, <2>4, <3>1 DEF PrenoteRight, UntoldComing, PrenotePending
      <4>. QED
        BY <1>2, <2>2, <4>1 DEF BehindPending
    <3>2. CASE ~(prenoteLookup.id = i /\ ~Held(i))
      BY <1>1, <1>2, <2>2, <2>3, <3>2 DEF PrenoteRight, BehindPending, Held
    <3>. QED
      BY <3>1, <3>2
  <2>. QED
    BY <1>3, <2>5, <2>6, <2>7, <2>8 DEF PrenoteRight
<1>. QED
  BY <1>2, <1>4, <1>5

\* The first lookup of another event: it passes from the queue to the handler, if its message is there.
LEMMA PrenoteFoundKeeps ==
    ASSUME PrenotesIInv, FindPrenoteOfEvent, NEW i \in PrenoteIds
    PROVE  PrenoteRight(i)'
<1>. DEFINE e == Head(prenoteEvents)
<1>1. PrenoteRight(i) /\ PrenotesTypeOK
  BY DEF PrenotesIInv
<1>2. /\ e \in PrenoteEvent /\ e.is # "received"
      /\ prenoteLookup = NoLookup
      /\ prenoteLookup' = IF Held(e.id) THEN [is |-> e.is, id |-> e.id, found |-> TRUE] ELSE NoLookup
      /\ prenotesTold' = prenotesTold \cup {e.id}
      /\ UNCHANGED <<prenoteMessages, prenotesAtApi, prenotesLate>>
      /\ PrenoteTasks' = PrenoteTasks
  BY PrenoteTaken, <1>1 DEF FindPrenoteOfEvent, PrenotesIdle, prenotesBackend, PrenoteTasks
<1>3. /\ NoPrenoteComing(i) => NoPrenoteComing(i)' /\ e.id # i
      /\ \A x \in {"received", "acknowledged", "deleted"} :
            /\ PrenoteComing(i, x)' => PrenoteComing(i, x)
            /\ PrenoteComing(i, x) => PrenoteComing(i, x)' \/ e = [is |-> x, id |-> i]
            /\ e = [is |-> x, id |-> i] => PrenoteComing(i, x)
      /\ ReceivedFirst(i)'
  BY <1>1, <1>2, PrenoteTaken DEF FindPrenoteOfEvent, PrenoteRight
<1>. HIDE DEF e
<1>4. e.id \in PrenoteIds /\ e = [is |-> e.is, id |-> e.id]
      /\ e.is \in {"acknowledged", "deleted"}
  BY <1>2 DEF PrenoteEvent
<1>5. /\ \A is : ~PrenoteFound(i, is)
      /\ \A is : PrenoteFound(i, is)' => e.is = is /\ e.id = i
      /\ \A is : Held(i) /\ e.id = i /\ e.is = is => PrenoteFound(i, is)'
  <2>. DEFINE found == [is |-> e.is, id |-> e.id, found |-> TRUE]
  <2>1. found \in FirstLookup /\ found.is = e.is /\ found.id = e.id
    BY <1>4 DEF FirstLookup
  <2>2. found # NoLookup
    BY <2>1, PrenotesAssumption
  <2>3. prenoteLookup' = IF Held(e.id) THEN found ELSE NoLookup
    BY <1>2
  <2>. HIDE DEF found
  <2>4. \A is : ~PrenoteFound(i, is)
    BY <1>2 DEF PrenoteFound
  <2>5. \A is : PrenoteFound(i, is)' => e.is = is /\ e.id = i
    BY <2>1, <2>3 DEF PrenoteFound
  <2>6. ASSUME NEW is, Held(i), e.id = i, e.is = is PROVE PrenoteFound(i, is)'
    <3>1. prenoteLookup' = found
      BY <2>3, <2>6
    <3>. QED
      BY <2>1, <2>2, <2>6, <3>1 DEF PrenoteFound
  <2>. QED
    BY <2>4, <2>5, <2>6
<1>9. LookupFirst(i)'
  <2>1. e.id = i => prenotesAtApi[i] # "none"
    BY <1>1, <1>3 DEF PrenoteRight, UnmadeUnknown
  <2>. QED
    BY <1>2, <1>4, <1>5, <2>1 DEF LookupFirst
<1>6. \A is \in {"acknowledged", "deleted"}, do \in {"mark", "remove"} :
         /\ PrenotePending(i, is, do)' => PrenotePending(i, is, do)
         /\ Held(i) /\ PrenotePending(i, is, do) => PrenotePending(i, is, do)'
  BY <1>2, <1>3, <1>4, <1>5 DEF PrenotePending
<1>7. CASE e.id = i
  <2>1. prenotesAtApi'[i] # "none" /\ i \in prenotesTold'
    BY <1>1, <1>2, <1>3, <1>7 DEF PrenoteRight, UnmadeUnknown
  <2>. QED
    BY <1>1, <1>2, <1>3, <1>6, <1>9, <2>1 DEF PrenoteRight, UnmadeUnknown, AcknowledgedAtApi, UntoldComing,
                                        BehindPending, Held
<1>8. CASE e.id # i
  <2>1. \A x \in {"acknowledged", "deleted"} : PrenoteComing(i, x)' <=> PrenoteComing(i, x)
    BY <1>3, <1>4, <1>8
  <2>. QED
    BY <1>1, <1>2, <1>3, <1>6, <1>8, <1>9, <2>1 DEF PrenoteRight, UnmadeUnknown, AcknowledgedAtApi,
       UntoldComing,
                                        BehindPending, Held
<1>. QED
  BY <1>7, <1>8

\* The second lookup.
LEMMA PrenoteEventKeeps ==
    ASSUME PrenotesIInv, ProcessPrenoteEvent, NEW i \in PrenoteIds
    PROVE  PrenoteRight(i)'
<1>1. PrenoteRight(i) /\ PrenotesTypeOK
  BY DEF PrenotesIInv
<1>2. /\ prenoteLookup \in FirstLookup /\ prenoteLookup.is # "received"
      /\ prenoteLookup' = IF Held(prenoteLookup.id) THEN NoLookup ELSE prenoteLookup
      /\ UNCHANGED <<prenotesAtApi, prenoteEvents, prenotesTold, prenotesLate>>
      /\ PrenoteTasks' = PrenoteTasks
  BY <1>1 DEF ProcessPrenoteEvent, prenotesBackend, prenotesHistory, PrenoteTasks, PrenotesTypeOK
<1>3. /\ prenoteLookup.id \in PrenoteIds
      /\ prenoteLookup.is \in {"acknowledged", "deleted"}
      /\ prenoteLookup # NoLookup
  BY <1>2, PrenotesAssumption DEF FirstLookup
<1>4. SamePrenoteEvents(i) /\ ReceivedFirst(i)' /\ SamePrenoteTasks(i)
  BY <1>1, <1>2, PrenoteEventsSame DEF PrenoteRight, SamePrenoteTasks
<1>5. CASE ~Held(prenoteLookup.id)
  <2>1. UNCHANGED <<prenoteMessages, prenoteLookup>>
    BY <1>2, <1>5 DEF ProcessPrenoteEvent
  <2>. QED
    BY <1>1, <1>2, <1>4, <2>1, PrenoteLookupSame, PrenoteUntouched
<1>6. CASE Held(prenoteLookup.id)
  <2>0. prenoteLookup' = NoLookup
    BY <1>2, <1>6
  <2>1. \A is \in {"acknowledged", "deleted"}, do \in {"mark", "remove"} :
           /\ PrenotePending(i, is, do)' => PrenotePending(i, is, do)
           /\ PrenotePending(i, is, do) /\ ~PrenoteFound(i, is) => PrenotePending(i, is, do)'
    BY <1>3, <1>4, <2>0 DEF PrenotePending, PrenoteFound, SamePrenoteEvents, SamePrenoteTasks
  <2>5. LookupFirst(i)'
    BY <2>0 DEF LookupFirst, PrenoteFound
  <2>2. CASE prenoteLookup.id # i
    <3>1. prenoteMessages'[i] = prenoteMessages[i]
      BY <1>1, <1>3, <2>2 DEF ProcessPrenoteEvent, RemovePrenotes, MarkAcknowledged, PrenotesTypeOK
    <3>3. SamePrenoteLookup(i)
      BY <2>0, <2>2 DEF SamePrenoteLookup, PrenoteFound
    <3>. QED
      BY <1>1, <1>2, <1>4, <3>1, <3>3, PrenoteUntouched
  <2>3. CASE prenoteLookup.id = i /\ prenoteLookup.is = "deleted"
    <3>1. prenoteMessages'[i] = "absent"
      BY <1>1, <1>6, <2>3 DEF ProcessPrenoteEvent, RemovePrenotes, Held
    <3>. QED
      BY <1>1, <1>2, <1>4, <2>1, <2>5, <3>1
         DEF PrenoteRight, UnmadeUnknown, AcknowledgedAtApi, UntoldComing, BehindPending,
             Held, SamePrenoteEvents
  <2>4. CASE prenoteLookup.id = i /\ prenoteLookup.is # "deleted"
    <3>1. prenoteLookup.is = "acknowledged" /\ prenoteMessages'[i] = "acknowledged"
      BY <1>1, <1>6, <2>4 DEF ProcessPrenoteEvent, MarkAcknowledged, PrenotesTypeOK, Held
    <3>2. prenotesAtApi[i] \in {"acknowledged", "deleted"}
      BY <1>1, <1>3, <2>4, <3>1 DEF PrenoteRight, AcknowledgedAtApi, PrenotePending, PrenoteFound
    <3>3. PrenotePending(i, "deleted", "remove") => PrenotePending(i, "deleted", "remove")'
      BY <2>1, <3>1 DEF PrenoteFound
    <3>. QED
      BY <1>1, <1>2, <1>4, <1>6, <2>4, <2>5, <3>1, <3>2, <3>3
         DEF PrenoteRight, UnmadeUnknown, AcknowledgedAtApi, UntoldComing, BehindPending, Held, SamePrenoteEvents
  <2>. QED
    BY <2>2, <2>3, <2>4
<1>. QED
  BY <1>5, <1>6

LEMMA PrenotesKept == PrenotesIInv /\ [PrenotesNext]_prenotesVars => PrenotesIInv'
<1>. SUFFICES ASSUME PrenotesIInv, [PrenotesNext]_prenotesVars, NEW i \in PrenoteIds
              PROVE  PrenoteRight(i)'
  BY PrenoteTypesKept DEF PrenotesIInv
<1>0. PrenoteRight(i) /\ PrenotesTypeOK
  BY DEF PrenotesIInv
<1>1. CASE \/ \E p \in Prenotes : SendPrenote(p)
           \/ \E j \in PrenoteIds : CancelPrenote(j) \/ AcknowledgePrenote(j)
  BY <1>1, PrenoteAskedKeeps
<1>2. CASE PrenoteTimeout \/ (\E j \in PrenoteIds : PrenoteFallsDue(j)) \/ UNCHANGED prenotesVars
  <2>1. /\ UNCHANGED <<prenoteLookup, prenotesAtApi, prenoteEvents, prenoteTasks, prenotesTold, prenotesLate>>
        /\ prenoteMessages'[i] = prenoteMessages[i] \/ prenoteMessages'[i] = "absent"
    BY <1>0, <1>2 DEF PrenoteTimeout, RemovePrenotes, PrenoteFallsDue, prenotesVars, prenotesBackend,
                     prenotesHistory, PrenotesTypeOK
  <2>2. SamePrenoteEvents(i) /\ ReceivedFirst(i)'
    BY <1>0, <2>1, PrenoteEventsSame DEF PrenoteRight
  <2>3. SamePrenoteTasks(i) /\ SamePrenoteLookup(i)
    BY <2>1, PrenoteLookupSame DEF SamePrenoteTasks, PrenoteTasks
  <2>. QED
    BY <1>0, <2>1, <2>2, <2>3, PrenoteUntouched
<1>3. ASSUME NEW t \in PrenoteTasks, NEW j \in PrenoteIds, CreatePrenoteAnswered(t, j)
      PROVE  PrenoteRight(i)'
  <2>1. /\ PrenoteTasks' \subseteq PrenoteTasks \cup {[do |-> "add", id |-> j]}
        /\ PrenoteTasks \ {t} \subseteq PrenoteTasks'
        /\ t.do = "create"
    BY <1>3, PrenoteReplaced DEF CreatePrenoteAnswered
  <2>2. \A d \in {"add", "delete", "remove", "acknowledge", "mark"}, k \in PrenoteIds :
           ~(d = "add" /\ k = j) =>
              ([do |-> d, id |-> k] \in PrenoteTasks' <=> [do |-> d, id |-> k] \in PrenoteTasks)
    BY <2>1
  <2>3. /\ prenotesAtApi[j] = "none" /\ prenotesAtApi' = [prenotesAtApi EXCEPT ![j] = "sent"]
        /\ PublishPrenote("received", j)
        /\ UNCHANGED <<prenoteMessages, prenoteLookup, prenotesTold, prenotesLate>>
    BY <1>3 DEF CreatePrenoteAnswered, prenotesHistory
  <2>. QED
    BY <2>2, <2>3, PrenoteMadeKeeps
<1>4. ASSUME NEW t \in PrenoteTasks, PrenoteCallAnswered(t)
      PROVE  PrenoteRight(i)'
  <2>0. /\ t \in PrenoteTask
        /\ UNCHANGED <<prenoteMessages, prenoteLookup, prenotesTold, prenotesLate>>
    BY <1>0, <1>4 DEF PrenotesTypeOK, PrenoteCallAnswered, prenotesHistory
  <2>1. ASSUME NEW is \in {"acknowledged", "deleted"}, NEW do \in {"mark", "remove"},
               do = "mark" <=> is = "acknowledged",
               t.do \in {"delete", "acknowledge"},
               prenotesAtApi[t.id] \in {"sent", "acknowledged"},
               prenotesAtApi' = [prenotesAtApi EXCEPT ![t.id] = is], PublishPrenote(is, t.id),
               ReplacePrenoteTask(t, [do |-> do, id |-> t.id])
        PROVE  PrenoteRight(i)'
    <3>1. t.id \in PrenoteIds
      BY <2>0, <2>1 DEF PrenoteTask
    <3>2. /\ PrenoteTasks' \subseteq PrenoteTasks \cup {[do |-> do, id |-> t.id]}
          /\ PrenoteTasks \ {t} \subseteq PrenoteTasks'
      BY <2>1, PrenoteReplaced
    <3>3. \A d \in {"add", "delete", "remove", "acknowledge", "mark"}, k \in PrenoteIds :
             k # t.id \/ d \in {"add", "mark", "remove"} \ {do} =>
                ([do |-> d, id |-> k] \in PrenoteTasks' <=> [do |-> d, id |-> k] \in PrenoteTasks)
      BY <2>1, <3>2
    <3>. QED
      BY <2>0, <2>1, <3>1, <3>3, PrenoteChangedKeeps, ZenonT(40)
  <2>. QED
    BY <1>4, <2>1 DEF PrenoteCallAnswered
<1>5. ASSUME NEW t \in PrenoteTasks, PrenoteCallFailed(t) PROVE PrenoteRight(i)'
  BY <1>5, PrenoteEndedKeeps
<1>6. ASSUME NEW t \in PrenoteTasks, FinishPrenoteCall(t) PROVE PrenoteRight(i)'
  BY <1>6, PrenoteCallKeeps
<1>7. CASE FindNewPrenote
  BY <1>7, PrenoteNewsFoundKeeps
<1>11. CASE ProcessNewPrenote
  BY <1>11, PrenoteReceivedKeeps
<1>8. CASE FindPrenoteOfEvent
  BY <1>8, PrenoteFoundKeeps
<1>9. CASE ProcessPrenoteEvent
  BY <1>9, PrenoteEventKeeps
<1>10. ASSUME NEW j \in PrenoteIds, OthersPrenote(j) PROVE PrenoteRight(i)'
  <2>1. /\ UNCHANGED <<prenoteMessages, prenoteLookup, prenotesTold, prenotesLate>>
        /\ PrenoteTasks' = PrenoteTasks
    BY <1>10 DEF OthersPrenote, prenotesHistory, PrenoteTasks
  <2>2. CASE /\ prenotesAtApi[j] = "none" /\ prenotesAtApi' = [prenotesAtApi EXCEPT ![j] = "sent"]
             /\ PublishPrenote("received", j)
    BY <2>1, <2>2, PrenoteMadeKeeps
  <2>3. CASE \E is \in {"acknowledged", "deleted"} :
                /\ prenotesAtApi[j] \in {"sent", "acknowledged"}
                /\ prenotesAtApi' = [prenotesAtApi EXCEPT ![j] = is] /\ PublishPrenote(is, j)
    <3>1. PICK is \in {"acknowledged", "deleted"} :
                /\ prenotesAtApi[j] \in {"sent", "acknowledged"}
                /\ prenotesAtApi' = [prenotesAtApi EXCEPT ![j] = is] /\ PublishPrenote(is, j)
      BY <2>3
    <3>2. PICK do \in {"mark", "remove"} : do = "mark" <=> is = "acknowledged"
      OBVIOUS
    <3>. QED
      BY <2>1, <3>1, <3>2, PrenoteChangedKeeps
  <2>. QED
    BY <1>10, <2>2, <2>3 DEF OthersPrenote
<1>. QED
  BY <1>1, <1>2, <1>3, <1>4, <1>5, <1>6, <1>7, <1>8, <1>9, <1>10, <1>11 DEF PrenotesNext

LEMMA PrenotesAtStart == PrenotesInit => PrenotesIInv
<1>. SUFFICES ASSUME PrenotesInit PROVE PrenotesIInv
  OBVIOUS
<1>1. PrenotesTypeOK
  BY PrenoteTypesAtStart
<1>2. Len(prenoteEvents) = 0 /\ PrenoteTasks = {} /\ prenotesTold = {}
  BY DEF PrenotesInit, PrenoteTasks, BagToSet, EmptyBag, SetToBag
<1>3. \A is, i : ~PrenoteFound(i, is)
  BY DEF PrenotesInit, PrenoteFound
<1>4. ASSUME NEW i \in PrenoteIds PROVE PrenoteRight(i)
  <2>1. ~PrenotePending(i, "acknowledged", "mark")
    BY <1>2, <1>3 DEF PrenotePending, PrenoteComing, Coming
  <2>2. prenotesAtApi[i] = "none" /\ prenoteMessages[i] = "absent"
    BY DEF PrenotesInit
  <2>. QED
    BY <1>2, <1>3, <2>1, <2>2 DEF PrenoteRight, UnmadeUnknown, AcknowledgedAtApi, ReceivedFirst, UntoldComing,
                BehindPending, LookupFirst, NoPrenoteComing, PrenoteComing, Coming, NoneComing, ComesFirst
<1>. QED
  BY <1>1, <1>4 DEF PrenotesIInv

\* The collection, the calls under way and the events are ones
\* PrenoteMessageModule and its handlers can hold.
THEOREM PrenotesTyped == PrenotesSpec => []PrenotesTypeOK
  BY PrenoteTypesAtStart, PrenoteTypesKept, PTL DEF PrenotesSpec

\* However the user's calls, their answers and the events of other controllers
\* overtake one another, a prenote message that is still held when nothing more
\* is to come about it is as the API has it, unless its own creation answered
\* after the events about it.
THEOREM PrenotesConverged == PrenotesSpec => []PrenotesConverge
<1>1. PrenotesIInv => PrenotesConverge
  <2>. SUFFICES ASSUME PrenotesIInv, NEW i \in PrenoteIds, PrenoteSettled(i), Held(i),
                       i \notin prenotesLate
                PROVE  prenoteMessages[i] = prenotesAtApi[i]
    BY DEF PrenotesConverge
  <2>1. PrenoteRight(i) /\ PrenotesTypeOK
    BY DEF PrenotesIInv
  <2>2. prenoteMessages[i] \in {"sent", "acknowledged"} /\ prenotesAtApi[i] \in {"none", "sent", "acknowledged", "deleted"}
    BY <2>1 DEF PrenotesTypeOK, Held
  <2>3. \A is : ~PrenoteComing(i, is)
    <3>1. \A k \in 1..Len(prenoteEvents) : prenoteEvents[k].id # i
      BY <2>1 DEF PrenoteSettled, Range, PrenotesTypeOK
    <3>. QED
      BY <3>1 DEF PrenoteComing, Coming
  <2>4. \A is : ~PrenoteFound(i, is)
    BY DEF PrenoteSettled, PrenoteFound
  <2>5. \A do \in {"mark", "remove"} : [do |-> do, id |-> i] \notin PrenoteTasks
    BY DEF PrenoteSettled
  <2>6. ~PrenotePending(i, "acknowledged", "mark") /\ ~PrenotePending(i, "deleted", "remove")
    BY <2>3, <2>4, <2>5 DEF PrenotePending
  <2>. QED
    BY <2>1, <2>2, <2>6 DEF PrenoteRight, UnmadeUnknown, AcknowledgedAtApi, BehindPending, Held
<1>. QED
  BY <1>1, PrenotesAtStart, PrenotesKept, PTL DEF PrenotesSpec

\* A message of the user's own that the API has deleted.
OwnCancelled(i) == prenotesAtApi[i] = "deleted" /\ prenoteAbout[i] \in SentByUser

\* The user cancels only what his position sent.
OwnToCancel(i) ==
    /\ [do |-> "delete", id |-> i] \in PrenoteTasks => prenoteAbout[i] \in SentByUser
    /\ [do |-> "remove", id |-> i] \in PrenoteTasks => OwnCancelled(i)
CancelsOwn == \A i \in PrenoteIds : OwnToCancel(i)

\* He sends, and his tasks add, only what is his position's.
OwnToAdd(i) == [do |-> "add", id |-> i] \in PrenoteTasks => prenoteAbout[i] \in SentByUser
AddsOwn ==
    /\ \A p : [do |-> "create", about |-> p] \in PrenoteTasks => p \in SentByUser
    /\ \A i \in PrenoteIds : OwnToAdd(i)

\* What the first lookup found is there, or the user cancelled it; what it did
\* not find is not there, or is the user's own.
LookupRight ==
    /\ prenoteLookup # NoLookup =>
          IF prenoteLookup.is = "received"
          THEN prenoteLookup.found \/ ~Held(prenoteLookup.id) \/ prenoteAbout[prenoteLookup.id] \in SentByUser
          ELSE Held(prenoteLookup.id) \/ OwnCancelled(prenoteLookup.id)
    /\ ~prenotesUp =>
          /\ prenoteLookup # NoLookup
          /\ IF prenoteLookup.is = "received" THEN Held(prenoteLookup.id) /\ ~prenoteLookup.found
             ELSE ~Held(prenoteLookup.id)

LookupIInv == PrenotesIInv /\ CancelsOwn /\ AddsOwn /\ LookupRight

\* What a message is about is settled when the API makes it, and a deletion is for good.
LEMMA OwnCancelledStays ==
    ASSUME PrenotesIInv, [PrenotesNext]_prenotesVars, NEW i \in PrenoteIds, prenotesAtApi[i] # "none"
    PROVE  prenoteAbout'[i] = prenoteAbout[i] /\ (OwnCancelled(i) => OwnCancelled(i)')
<1>1. PrenotesTypeOK
  BY DEF PrenotesIInv
<1>2. ASSUME NEW t \in PrenoteTasks, NEW j \in PrenoteIds, CreatePrenoteAnswered(t, j)
      PROVE  prenoteAbout'[i] = prenoteAbout[i] /\ prenotesAtApi'[i] = prenotesAtApi[i]
  BY <1>1, <1>2 DEF CreatePrenoteAnswered, PrenotesTypeOK
<1>3. ASSUME NEW t \in PrenoteTasks, PrenoteCallAnswered(t)
      PROVE  /\ prenoteAbout'[i] = prenoteAbout[i]
             /\ prenotesAtApi[i] = "deleted" => prenotesAtApi'[i] = "deleted"
  BY <1>1, <1>3 DEF PrenoteCallAnswered, PrenotesTypeOK
<1>4. ASSUME NEW j \in PrenoteIds, OthersPrenote(j)
      PROVE  /\ prenoteAbout'[i] = prenoteAbout[i]
             /\ prenotesAtApi[i] = "deleted" => prenotesAtApi'[i] = "deleted"
  BY <1>1, <1>4 DEF OthersPrenote, PrenotesTypeOK
<1>5. ASSUME UNCHANGED prenotesBackend
      PROVE  prenoteAbout'[i] = prenoteAbout[i] /\ prenotesAtApi'[i] = prenotesAtApi[i]
  BY <1>5 DEF prenotesBackend
<1>6. \/ UNCHANGED prenotesBackend
      \/ \E t \in PrenoteTasks, j \in PrenoteIds : CreatePrenoteAnswered(t, j)
      \/ \E t \in PrenoteTasks : PrenoteCallAnswered(t)
      \/ \E j \in PrenoteIds : OthersPrenote(j)
  BY DEF PrenotesNext, prenotesVars, SendPrenote, CancelPrenote, AcknowledgePrenote, PrenoteTimeout,
     PrenoteCallFailed, FinishPrenoteCall, FindNewPrenote, ProcessNewPrenote, FindPrenoteOfEvent,
     ProcessPrenoteEvent, PrenoteFallsDue
<1>. QED
  BY <1>2, <1>3, <1>4, <1>5, <1>6 DEF OwnCancelled

LEMMA CancelsOwnKept ==
    ASSUME PrenotesIInv, CancelsOwn, [PrenotesNext]_prenotesVars
    PROVE  CancelsOwn'
<1>. SUFFICES ASSUME NEW i \in PrenoteIds
              PROVE  OwnToCancel(i)'
  BY DEF CancelsOwn
<1>. DEFINE deletes == [do |-> "delete", id |-> i]
            removes == [do |-> "remove", id |-> i]
<1>1. PrenotesTypeOK /\ UnmadeUnknown(i)
  BY DEF PrenotesIInv, PrenoteRight
<1>2. /\ deletes \in PrenoteTasks \/ removes \in PrenoteTasks => prenotesAtApi[i] # "none"
      /\ Held(i) => prenotesAtApi[i] # "none"
  BY <1>1 DEF UnmadeUnknown, Held
<1>3. /\ deletes \in PrenoteTasks => prenoteAbout'[i] \in SentByUser
      /\ removes \in PrenoteTasks => OwnCancelled(i)'
  BY <1>2, OwnCancelledStays DEF CancelsOwn, OwnToCancel
<1>4. ASSUME NEW p \in Prenotes, SendPrenote(p)
      PROVE  PrenoteTasks' = PrenoteTasks \cup {[do |-> "create", about |-> p]}
  BY <1>4, PrenoteQueued DEF SendPrenote
<1>5. ASSUME NEW j \in PrenoteIds, CancelPrenote(j)
      PROVE  /\ deletes \in PrenoteTasks' => prenoteAbout'[i] \in SentByUser
             /\ removes \in PrenoteTasks' => removes \in PrenoteTasks
  <2>1. /\ PrenoteTasks' = PrenoteTasks \cup {[do |-> "delete", id |-> j]}
        /\ prenoteAbout[j] \in SentByUser /\ UNCHANGED prenoteAbout
    BY <1>5, PrenoteQueued DEF CancelPrenote, prenotesBackend
  <2>2. removes # [do |-> "delete", id |-> j] /\ (deletes = [do |-> "delete", id |-> j] => i = j)
    OBVIOUS
  <2>. QED
    BY <1>3, <2>1, <2>2
<1>6. ASSUME NEW j \in PrenoteIds, AcknowledgePrenote(j)
      PROVE  PrenoteTasks' = PrenoteTasks \cup {[do |-> "acknowledge", id |-> j]}
  BY <1>6, PrenoteQueued DEF AcknowledgePrenote
<1>7. ASSUME NEW t \in PrenoteTasks, NEW j \in PrenoteIds, CreatePrenoteAnswered(t, j)
      PROVE  PrenoteTasks' \subseteq PrenoteTasks \cup {[do |-> "add", id |-> j]}
  BY <1>7, PrenoteReplaced DEF CreatePrenoteAnswered
<1>8. ASSUME NEW t \in PrenoteTasks, PrenoteCallAnswered(t)
      PROVE  /\ deletes \in PrenoteTasks' => deletes \in PrenoteTasks
             /\ removes \in PrenoteTasks' => OwnCancelled(i)'
  <2>1. t.do = "acknowledge" => PrenoteTasks' \subseteq PrenoteTasks \cup {[do |-> "mark", id |-> t.id]}
    BY <1>8, PrenoteReplaced DEF PrenoteCallAnswered
  <2>2. ASSUME t.do = "delete"
        PROVE  /\ PrenoteTasks' \subseteq PrenoteTasks \cup {[do |-> "remove", id |-> t.id]}
               /\ t.id \in PrenoteIds /\ t = [do |-> "delete", id |-> t.id]
               /\ prenotesAtApi'[t.id] = "deleted" /\ UNCHANGED prenoteAbout
    <3>1. t.id \in PrenoteIds /\ t = [do |-> "delete", id |-> t.id]
      BY <1>1, <2>2 DEF PrenotesTypeOK, PrenoteTask
    <3>. QED
      BY <1>1, <1>8, <2>2, <3>1, PrenoteReplaced DEF PrenoteCallAnswered, PrenotesTypeOK
  <2>3. t.do \in {"delete", "acknowledge"}
    BY <1>8 DEF PrenoteCallAnswered
  <2>4. /\ \A d, j : deletes = [do |-> d, id |-> j] => d = "delete"
        /\ \A d, j : removes = [do |-> d, id |-> j] => d = "remove" /\ i = j
    OBVIOUS
  <2>. QED
    BY <1>3, <2>1, <2>2, <2>3, <2>4 DEF CancelsOwn, OwnToCancel, OwnCancelled
<1>9. ASSUME NEW t \in PrenoteTasks, PrenoteCallFailed(t) \/ FinishPrenoteCall(t)
      PROVE  PrenoteTasks' \subseteq PrenoteTasks
  BY <1>9, PrenoteFinished DEF PrenoteCallFailed, FinishPrenoteCall
<1>10. CASE \/ PrenoteTimeout \/ FindNewPrenote \/ ProcessNewPrenote \/ FindPrenoteOfEvent \/ ProcessPrenoteEvent
            \/ (\E j \in PrenoteIds : PrenoteFallsDue(j) \/ OthersPrenote(j)) \/ UNCHANGED prenotesVars
  <2>1. PrenoteTasks' = PrenoteTasks
    BY <1>10 DEF PrenoteTimeout, FindNewPrenote, ProcessNewPrenote, FindPrenoteOfEvent, ProcessPrenoteEvent,
       PrenoteFallsDue, OthersPrenote, prenotesVars, PrenoteTasks
  <2>. QED
    BY <1>3, <2>1 DEF OwnToCancel
<1>11. ASSUME NEW x
       PROVE  deletes # [do |-> "create", about |-> x] /\ removes # [do |-> "create", about |-> x]
  <2>1. deletes.do # "create" /\ removes.do # "create" /\ [do |-> "create", about |-> x].do = "create"
    OBVIOUS
  <2>. QED
    BY <2>1
<1>12. \A d, x : d \in {"add", "acknowledge"} => deletes # [do |-> d, id |-> x] /\ removes # [do |-> d, id |-> x]
  OBVIOUS
<1>. QED
  BY <1>3, <1>4, <1>5, <1>6, <1>7, <1>8, <1>9, <1>10, <1>11, <1>12
     DEF PrenotesNext, OwnToCancel

LEMMA AddsOwnKept ==
    ASSUME PrenotesIInv, AddsOwn, [PrenotesNext]_prenotesVars
    PROVE  AddsOwn'
<1>1. PrenotesTypeOK
  BY DEF PrenotesIInv
<1>. DEFINE created(p) == [do |-> "create", about |-> p]
            added(i) == [do |-> "add", id |-> i]
\* What a step adds to the tasks is of neither kind, or right.
<1>2. ASSUME NEW p \in Prenotes, SendPrenote(p)
      PROVE  PrenoteTasks' = PrenoteTasks \cup {created(p)} /\ p \in SentByUser
  BY <1>2, PrenoteQueued DEF SendPrenote
<1>3. ASSUME NEW t \in PrenoteTasks, NEW j \in PrenoteIds, CreatePrenoteAnswered(t, j)
      PROVE  /\ PrenoteTasks' \subseteq PrenoteTasks \cup {added(j)}
             /\ prenoteAbout'[j] \in SentByUser
  <2>1. t = created(t.about)
    BY <1>1, <1>3 DEF CreatePrenoteAnswered, PrenotesTypeOK, PrenoteTask
  <2>. QED
    BY <1>1, <1>3, <2>1, PrenoteReplaced DEF CreatePrenoteAnswered, AddsOwn, PrenotesTypeOK
<1>4. ASSUME \/ \E j \in PrenoteIds : CancelPrenote(j) \/ AcknowledgePrenote(j)
             \/ \E t \in PrenoteTasks : PrenoteCallAnswered(t) \/ PrenoteCallFailed(t) \/ FinishPrenoteCall(t)
             \/ PrenoteTimeout \/ FindNewPrenote \/ ProcessNewPrenote \/ FindPrenoteOfEvent \/ ProcessPrenoteEvent
             \/ \E j \in PrenoteIds : PrenoteFallsDue(j) \/ OthersPrenote(j)
             \/ UNCHANGED prenotesVars
      PROVE  \E d, k : PrenoteTasks' \subseteq PrenoteTasks \cup {[do |-> d, id |-> k]} /\ d # "add"
  <2>1. ASSUME NEW j \in PrenoteIds, CancelPrenote(j)
        PROVE  PrenoteTasks' = PrenoteTasks \cup {[do |-> "delete", id |-> j]}
    BY <2>1, PrenoteQueued DEF CancelPrenote
  <2>2. ASSUME NEW j \in PrenoteIds, AcknowledgePrenote(j)
        PROVE  PrenoteTasks' = PrenoteTasks \cup {[do |-> "acknowledge", id |-> j]}
    BY <2>2, PrenoteQueued DEF AcknowledgePrenote
  <2>3. ASSUME NEW t \in PrenoteTasks, PrenoteCallAnswered(t)
        PROVE  \/ PrenoteTasks' \subseteq PrenoteTasks \cup {[do |-> "remove", id |-> t.id]}
               \/ PrenoteTasks' \subseteq PrenoteTasks \cup {[do |-> "mark", id |-> t.id]}
    BY <2>3, PrenoteReplaced DEF PrenoteCallAnswered
  <2>4. ASSUME NEW t \in PrenoteTasks, PrenoteCallFailed(t) \/ FinishPrenoteCall(t)
        PROVE  PrenoteTasks' \subseteq PrenoteTasks
    BY <2>4, PrenoteFinished DEF PrenoteCallFailed, FinishPrenoteCall
  <2>5. ASSUME \/ PrenoteTimeout \/ FindNewPrenote \/ ProcessNewPrenote \/ FindPrenoteOfEvent \/ ProcessPrenoteEvent
               \/ (\E j \in PrenoteIds : PrenoteFallsDue(j) \/ OthersPrenote(j)) \/ UNCHANGED prenotesVars
        PROVE  PrenoteTasks' = PrenoteTasks
    BY <2>5 DEF PrenoteTimeout, FindNewPrenote, ProcessNewPrenote, FindPrenoteOfEvent, ProcessPrenoteEvent,
       PrenoteFallsDue, OthersPrenote, prenotesVars, PrenoteTasks
  <2>. QED
    BY <1>4, <2>1, <2>2, <2>3, <2>4, <2>5
<1>5. \E x : /\ PrenoteTasks' \subseteq PrenoteTasks \cup {x}
             /\ \A p : x = created(p) => p \in SentByUser
             /\ \A i : x = added(i) => prenoteAbout'[i] \in SentByUser
  <2>1. /\ \A p, d, k : created(p) # [do |-> d, id |-> k]
        /\ \A p, q : created(p) = created(q) => p = q
        /\ \A i, d, k : added(i) = [do |-> d, id |-> k] => d = "add" /\ i = k
    <3>1. \A p, d, k : "about" \in DOMAIN created(p) /\ "about" \notin DOMAIN [do |-> d, id |-> k]
      OBVIOUS
    <3>. QED
      BY <3>1
  <2>2. ASSUME NEW p \in Prenotes, SendPrenote(p)
        PROVE  /\ PrenoteTasks' \subseteq PrenoteTasks \cup {created(p)} /\ p \in SentByUser
               /\ \A q : created(p) = created(q) => q \in SentByUser
               /\ \A i : created(p) # added(i)
    BY <1>2, <2>1, <2>2
  <2>3. ASSUME NEW t \in PrenoteTasks, NEW j \in PrenoteIds, CreatePrenoteAnswered(t, j)
        PROVE  /\ PrenoteTasks' \subseteq PrenoteTasks \cup {added(j)}
               /\ \A q : added(j) # created(q)
               /\ \A i : added(j) = added(i) => prenoteAbout'[i] \in SentByUser
    BY <1>3, <2>1, <2>3
  <2>4. ASSUME NEW d, NEW k, PrenoteTasks' \subseteq PrenoteTasks \cup {[do |-> d, id |-> k]}, d # "add"
        PROVE  /\ \A q : [do |-> d, id |-> k] # created(q)
               /\ \A i : [do |-> d, id |-> k] # added(i)
    BY <2>1, <2>4
  <2>. HIDE DEF created, added
  <2>. DEFINE Right(x) == /\ PrenoteTasks' \subseteq PrenoteTasks \cup {x}
                          /\ \A p : x = created(p) => p \in SentByUser
                          /\ \A i : x = added(i) => prenoteAbout'[i] \in SentByUser
  <2>5. ASSUME NEW p \in Prenotes, SendPrenote(p) PROVE \E x : Right(x)
    <3>1. Right(created(p))
      BY <2>2, <2>5
    <3>. QED
      BY <3>1
  <2>6. ASSUME NEW t \in PrenoteTasks, NEW j \in PrenoteIds, CreatePrenoteAnswered(t, j)
        PROVE  \E x : Right(x)
    <3>1. Right(added(j))
      BY <2>3, <2>6
    <3>. QED
      BY <3>1
  <2>7. ASSUME NEW d, NEW k, PrenoteTasks' \subseteq PrenoteTasks \cup {[do |-> d, id |-> k]}, d # "add"
        PROVE  \E x : Right(x)
    <3>1. Right([do |-> d, id |-> k])
      BY <2>4, <2>7
    <3>. QED
      BY <3>1
  <2>. QED
    BY <1>4, <2>5, <2>6, <2>7 DEF PrenotesNext
<1>6. ASSUME NEW i \in PrenoteIds, added(i) \in PrenoteTasks
      PROVE  prenoteAbout'[i] \in SentByUser
  <2>1. prenotesAtApi[i] # "none"
    BY <1>6 DEF PrenotesIInv, PrenoteRight, UnmadeUnknown
  <2>. QED
    BY <1>6, <2>1, OwnCancelledStays DEF AddsOwn, OwnToAdd
<1>. QED
  BY <1>5, <1>6 DEF AddsOwn, OwnToAdd

LEMMA LookupRightKept ==
    ASSUME PrenotesIInv, CancelsOwn, AddsOwn, LookupRight, [PrenotesNext]_prenotesVars
    PROVE  LookupRight'
<1>0. PICK i : i = prenoteLookup.id
  OBVIOUS
<1>1. PrenotesTypeOK
  BY DEF PrenotesIInv
<1>2. ASSUME prenoteLookup # NoLookup
      PROVE  i \in PrenoteIds /\ prenotesAtApi[i] # "none"
  <2>1. i \in PrenoteIds /\ PrenoteFound(i, prenoteLookup.is)
    BY <1>0, <1>1, <1>2 DEF PrenotesTypeOK, FirstLookup, PrenoteFound
  <2>2. prenoteLookup.is \in {"received", "acknowledged", "deleted"}
    BY <1>1, <1>2 DEF PrenotesTypeOK, FirstLookup
  <2>. QED
    BY <2>1, <2>2 DEF PrenotesIInv, PrenoteRight, LookupFirst
<1>3. ASSUME prenoteLookup # NoLookup
      PROVE  prenoteAbout'[i] = prenoteAbout[i] /\ (OwnCancelled(i) => OwnCancelled(i)')
  BY <1>2, <1>3, OwnCancelledStays
<1>4. CASE \/ (\E p \in Prenotes : SendPrenote(p)) \/ PrenoteTimeout
           \/ \E j \in PrenoteIds : CancelPrenote(j) \/ AcknowledgePrenote(j)
  BY <1>4 DEF SendPrenote, CancelPrenote, AcknowledgePrenote, PrenoteTimeout, PrenotesIdle, LookupRight
<1>5. CASE FindNewPrenote
  <2>1. /\ prenotesUp' = TRUE /\ UNCHANGED prenoteMessages
        /\ \E e : prenoteLookup' = [is |-> "received", id |-> e, found |-> Held(e)]
    BY <1>1, <1>5 DEF FindNewPrenote, PrenotesIdle, PrenotesTypeOK
  <2>2. PICK e : prenoteLookup' = [is |-> "received", id |-> e, found |-> Held(e)]
    BY <2>1
  <2>3. /\ prenoteLookup'.is = "received" /\ prenoteLookup'.id = e
        /\ Held(e)' <=> Held(e)
        /\ prenoteLookup'.found = Held(e)
    BY <2>1, <2>2 DEF Held
  <2>4. prenoteLookup'.found \/ ~Held(e)'
    BY <2>3
  <2>. QED
    BY <2>1, <2>3, <2>4 DEF LookupRight
<1>10. CASE FindPrenoteOfEvent
  BY <1>10 DEF FindPrenoteOfEvent, PrenotesIdle, LookupRight, Held
<1>6. CASE ProcessPrenoteEvent
  BY <1>0, <1>3, <1>6 DEF ProcessPrenoteEvent, LookupRight, Held
<1>9. CASE ProcessNewPrenote
  <2>1. CASE Held(i) /\ ~prenoteLookup.found
    <3>1. /\ UNCHANGED <<prenoteMessages, prenoteLookup>> /\ prenoteLookup # NoLookup
          /\ prenoteLookup.is = "received"
      BY <1>0, <1>9, <2>1 DEF ProcessNewPrenote
    <3>2. prenoteAbout[i] \in SentByUser
      BY <1>0, <2>1, <3>1 DEF LookupRight
    <3>. QED
      BY <1>0, <1>3, <2>1, <3>1, <3>2 DEF LookupRight, Held
  <2>2. CASE ~Held(i) \/ prenoteLookup.found
    <3>1. prenoteLookup' = NoLookup /\ prenotesUp' /\ prenotesUp
      BY <1>0, <1>9, <2>2 DEF ProcessNewPrenote
    <3>. QED
      BY <3>1 DEF LookupRight
  <2>. QED
    BY <2>1, <2>2
<1>7. ASSUME NEW t \in PrenoteTasks, FinishPrenoteCall(t) PROVE LookupRight'
  <2>1. t.do \in {"add", "remove", "mark"} /\ prenotesUp /\ UNCHANGED <<prenoteLookup, prenotesUp, prenotesBackend>>
    BY <1>7 DEF FinishPrenoteCall
  <2>2. t.id \in PrenoteIds /\ t = [do |-> t.do, id |-> t.id]
    BY <1>1, <2>1 DEF PrenotesTypeOK, PrenoteTask
  <2>3. CASE prenoteLookup = NoLookup
    BY <2>1, <2>3 DEF LookupRight
  <2>4. CASE prenoteLookup # NoLookup /\ Held(i) /\ ~Held(i)'
    <3>1. t.do = "remove" /\ t.id = i
      BY <1>1, <1>2, <1>7, <2>2, <2>4
         DEF FinishPrenoteCall, AddPrenote, RemovePrenotes, MarkAcknowledged, Held, PrenotesTypeOK
    <3>2. OwnCancelled(i)
      BY <2>2, <3>1 DEF CancelsOwn, OwnToCancel
    <3>. QED
      BY <1>0, <1>3, <2>1, <2>4, <3>2 DEF LookupRight
  <2>5. CASE prenoteLookup # NoLookup /\ ~Held(i) /\ Held(i)'
    <3>1. t.do = "add" /\ t.id = i
      BY <1>1, <1>2, <1>7, <2>2, <2>5
         DEF FinishPrenoteCall, AddPrenote, RemovePrenotes, MarkAcknowledged, Held, PrenotesTypeOK
    <3>2. prenoteAbout[i] \in SentByUser
      BY <2>2, <3>1 DEF AddsOwn, OwnToAdd
    <3>. QED
      BY <1>0, <1>3, <2>1, <2>5, <3>2 DEF LookupRight
  <2>6. CASE prenoteLookup # NoLookup /\ (Held(i)' <=> Held(i))
    BY <1>0, <1>3, <2>1, <2>6 DEF LookupRight
  <2>. QED
    BY <2>3, <2>4, <2>5, <2>6
<1>8. CASE \/ \E t \in PrenoteTasks, j \in PrenoteIds : CreatePrenoteAnswered(t, j)
           \/ \E t \in PrenoteTasks : PrenoteCallAnswered(t) \/ PrenoteCallFailed(t)
           \/ \E j \in PrenoteIds : PrenoteFallsDue(j) \/ OthersPrenote(j)
           \/ UNCHANGED prenotesVars
  <2>1. UNCHANGED <<prenoteMessages, prenoteLookup, prenotesUp>>
    BY <1>8 DEF CreatePrenoteAnswered, PrenoteCallAnswered, PrenoteCallFailed, PrenoteFallsDue,
       OthersPrenote, prenotesVars
  <2>. QED
    BY <1>0, <1>3, <2>1 DEF LookupRight, Held
<1>. QED
  BY <1>4, <1>5, <1>6, <1>7, <1>8, <1>9, <1>10 DEF PrenotesNext

\* The null pointers of the handlers are followed only for a message the user's
\* own position sent: one its task adds between the two lookups of the event of
\* its creation, or one the user cancelled.  It is not so for the messages of
\* others, and not because the timer removed one.
THEOREM PrenotesFall == PrenotesSpec => []PrenotesFallAboutOwn
<1>1. PrenotesInit => LookupIInv
  <2>. SUFFICES ASSUME PrenotesInit PROVE CancelsOwn /\ AddsOwn /\ LookupRight
    BY PrenotesAtStart DEF LookupIInv
  <2>1. PrenoteTasks = {} /\ prenoteLookup = NoLookup /\ prenotesUp
    BY DEF PrenotesInit, PrenoteTasks, BagToSet, EmptyBag, SetToBag
  <2>. QED
    BY <2>1 DEF CancelsOwn, OwnToCancel, AddsOwn, OwnToAdd, LookupRight
<1>2. LookupIInv /\ [PrenotesNext]_prenotesVars => LookupIInv'
  BY PrenotesKept, CancelsOwnKept, AddsOwnKept, LookupRightKept DEF LookupIInv
<1>3. LookupIInv => PrenotesFallAboutOwn
  BY DEF LookupIInv, LookupRight, OwnCancelled, PrenotesFallAboutOwn
<1>. QED
  BY <1>1, <1>2, <1>3, PTL DEF PrenotesSpec

-------------------------------------------------------------------------------
(* Missed approaches.                                                         *)

\* An event of missed approach i is to come.
MissedComing(i, is) == Coming(missedEvents, i, is)
NoMissedComing(i) == NoneComing(missedEvents, i)
AddComing(i) == [do |-> "add", id |-> i] \in MissedTasks

\* Nothing is known of a missed approach the API has not made.
MissedUnmade(i) ==
    missedAtApi[i] = "none" =>
        /\ ~Collected(i) /\ missedAlerts[i] = 0 /\ i \notin missedTriggered
        /\ NoMissedComing(i)
        /\ \A do \in {"add", "acknowledge", "mark"} : [do |-> do, id |-> i] \notin MissedTasks

\* Its events come after the one that brought it, which comes once.
MissedCreatedFirst(i) == ComesFirst(missedEvents, i, "created")

\* Nobody acknowledges what is not acknowledged at the API.
MissedAcknowledgedAtApi(i) ==
    \/ Collected(i) /\ missedApproaches[i].acknowledged
    \/ MissedComing(i, "acknowledged")
    \/ [do |-> "mark", id |-> i] \in MissedTasks
    => missedAtApi[i] = "acknowledged"

\* Until it expires, it is there or comes, and so does its acknowledgement.
MissedKept(i) ==
    i \notin missedExpired =>
        /\ missedAtApi[i] # "none" => Collected(i) \/ MissedComing(i, "created")
        /\ missedAtApi[i] = "acknowledged" =>
              MissedComing(i, "acknowledged") \/ (Collected(i) /\ missedApproaches[i].acknowledged)

\* The user's own is added by one task, the entry shows who made it.
MissedOwn(i) ==
    /\ AddComing(i) => i \in missedTriggered /\ missedTasks[[do |-> "add", id |-> i]] = 1
    /\ Collected(i) => missedAlerts[i] >= 1
    /\ missedAtApi[i] # "none" => missedAlerts[i] >= 1 \/ MissedComing(i, "created")
    /\ i \in missedTriggered => missedAlerts[i] >= 1 \/ AddComing(i)
    /\ Collected(i) /\ missedApproaches[i].createdByUser => i \in missedTriggered
    /\ Collected(i) /\ ~missedApproaches[i].createdByUser /\ i \in missedTriggered =>
          missedAlerts[i] >= 2 \/ AddComing(i)

\* What is to come announces it once each.
MissedToAnnounce(i) ==
    (IF MissedComing(i, "created") THEN 1 ELSE 0) + (IF AddComing(i) THEN 1 ELSE 0)
MissedCounted(i) ==
    missedAlerts[i] + MissedToAnnounce(i) <= IF i \in missedTriggered THEN 2 ELSE 1

MissedRight(i) ==
    /\ MissedUnmade(i) /\ MissedCreatedFirst(i) /\ MissedAcknowledgedAtApi(i)
    /\ MissedKept(i) /\ MissedOwn(i) /\ MissedCounted(i)
MissedIInv == MissedTypeOK /\ \A i \in MissedIds : MissedRight(i)

-------------------------------------------------------------------------------
(* The events and the tasks.                                                  *)

LEMMA MissedPublished ==
    ASSUME MissedTypeOK, NEW is \in {"created", "acknowledged"},
           NEW j \in MissedIds, PublishMissed(is, j)
    PROVE  /\ missedEvents' \in Seq(MissedEvent)
           /\ MissedComing(j, is)'
           /\ \A i \in MissedIds :
                /\ NoMissedComing(i)' <=> NoMissedComing(i) /\ i # j
                /\ \A x : MissedComing(i, x)' <=> MissedComing(i, x) \/ (i = j /\ x = is)
                /\ MissedCreatedFirst(i) /\ (i = j /\ is = "created" => NoMissedComing(i)) =>
                      MissedCreatedFirst(i)'
<1>. DEFINE e == [is |-> is, id |-> j]
<1>1. /\ missedEvents \in Seq(MissedEvent) /\ e \in MissedEvent
      /\ missedEvents' = Append(missedEvents, e)
  BY DEF MissedEvent, MissedTypeOK, PublishMissed
<1>2. e.id = j /\ \A i, x : e = [is |-> x, id |-> i] <=> i = j /\ x = is
  OBVIOUS
<1>. HIDE DEF e
<1>3. /\ missedEvents' \in Seq(MissedEvent)
      /\ \A i : NoneComing(missedEvents', i) <=> NoneComing(missedEvents, i) /\ e.id # i
      /\ \A i, x :
           /\ Coming(missedEvents', i, x) <=> Coming(missedEvents, i, x) \/ e = [is |-> x, id |-> i]
           /\ ComesFirst(missedEvents, i, x) /\ (e = [is |-> x, id |-> i] => NoneComing(missedEvents, i)) =>
                 ComesFirst(missedEvents', i, x)
  BY <1>1, EventAppended
<1>4. MissedComing(j, is)'
  BY <1>2, <1>3 DEF MissedComing
<1>5. ASSUME NEW i \in MissedIds
      PROVE  /\ NoMissedComing(i)' <=> NoMissedComing(i) /\ i # j
             /\ \A x : MissedComing(i, x)' <=> MissedComing(i, x) \/ (i = j /\ x = is)
  BY <1>2, <1>3 DEF MissedComing, NoMissedComing
<1>6. ASSUME NEW i \in MissedIds, MissedCreatedFirst(i), i = j /\ is = "created" => NoMissedComing(i)
      PROVE  MissedCreatedFirst(i)'
  BY <1>2, <1>3, <1>6 DEF NoMissedComing, MissedCreatedFirst
<1>. QED
  BY <1>3, <1>4, <1>5, <1>6

LEMMA MissedTaken ==
    ASSUME MissedTypeOK, missedEvents # <<>>, missedEvents' = Tail(missedEvents)
    PROVE  /\ missedEvents' \in Seq(MissedEvent) /\ Head(missedEvents) \in MissedEvent
           /\ \A i \in MissedIds :
                /\ NoMissedComing(i) => NoMissedComing(i)' /\ Head(missedEvents).id # i
                /\ \A x :
                     /\ MissedComing(i, x)' => MissedComing(i, x)
                     /\ MissedComing(i, x) =>
                           MissedComing(i, x)' \/ Head(missedEvents) = [is |-> x, id |-> i]
                     /\ Head(missedEvents) = [is |-> x, id |-> i] => MissedComing(i, x)
                /\ MissedCreatedFirst(i) =>
                     /\ MissedCreatedFirst(i)'
                     /\ Head(missedEvents).id = i => ~MissedComing(i, "created")'
<1>. DEFINE e == Head(missedEvents)
<1>1. missedEvents \in Seq(MissedEvent)
  BY DEF MissedTypeOK
<1>2. /\ missedEvents' \in Seq(MissedEvent) /\ e \in MissedEvent
      /\ \A i : NoneComing(missedEvents, i) => NoneComing(missedEvents', i) /\ e.id # i
      /\ \A i, x :
           /\ Coming(missedEvents', i, x) => Coming(missedEvents, i, x)
           /\ Coming(missedEvents, i, x) => Coming(missedEvents', i, x) \/ e = [is |-> x, id |-> i]
           /\ e = [is |-> x, id |-> i] => Coming(missedEvents, i, x)
           /\ ComesFirst(missedEvents, i, x) =>
                 /\ ComesFirst(missedEvents', i, x)
                 /\ e.id = i => ~Coming(missedEvents', i, x)
  BY <1>1, EventTaken
<1>. HIDE DEF e
<1>. QED
  BY <1>2 DEF MissedComing, NoMissedComing, MissedCreatedFirst, e

\* What becomes of the tasks, and of how many there are of each.
LEMMA MissedQueued ==
    ASSUME NEW t, QueueMissedTask(t)
    PROVE  /\ MissedTasks' = MissedTasks \cup {t}
           /\ \A u \in MissedTasks : u # t => missedTasks'[u] = missedTasks[u]
  BY DEF QueueMissedTask, MissedTasks, BagToSet, BagAdd

LEMMA MissedFinished ==
    ASSUME NEW t \in MissedTasks, FinishMissedTask(t)
    PROVE  /\ MissedTasks' \subseteq MissedTasks /\ MissedTasks \ {t} \subseteq MissedTasks'
           /\ missedTasks[t] = 1 => t \notin MissedTasks'
           /\ \A u \in MissedTasks : u # t => missedTasks'[u] = missedTasks[u]
  BY DEF FinishMissedTask, MissedTasks, BagToSet, BagRemove

LEMMA MissedReplaced ==
    ASSUME NEW t \in MissedTasks, NEW v, v # t, ReplaceMissedTask(t, v)
    PROVE  /\ MissedTasks' \subseteq MissedTasks \cup {v}
           /\ (MissedTasks \ {t}) \cup {v} \subseteq MissedTasks'
           /\ v \notin MissedTasks => missedTasks'[v] = 1
           /\ \A u \in MissedTasks \ {t, v} : missedTasks'[u] = missedTasks[u]
<1>1. PICK left : left = BagRemove(missedTasks, t)
  OBVIOUS
<1>2. /\ DOMAIN left \subseteq MissedTasks /\ MissedTasks \ {t} \subseteq DOMAIN left
      /\ \A u \in MissedTasks \ {t} : left[u] = missedTasks[u]
  BY <1>1 DEF MissedTasks, BagToSet, BagRemove
<1>3. missedTasks' = BagAdd(left, v)
  BY <1>1 DEF ReplaceMissedTask
<1>4. /\ DOMAIN missedTasks' = DOMAIN left \cup {v}
      /\ v \notin DOMAIN left => missedTasks'[v] = 1
      /\ \A u \in DOMAIN left : u # v => missedTasks'[u] = left[u]
  BY <1>3 DEF BagAdd
<1>. QED
  BY <1>2, <1>4 DEF MissedTasks, BagToSet

-------------------------------------------------------------------------------
(* Types.                                                                     *)

LEMMA NewMissedEntry ==
    ASSUME NEW byUser \in BOOLEAN
    PROVE  /\ [createdByUser |-> byUser, acknowledged |-> FALSE] \in MissedApproach
           /\ [createdByUser |-> byUser, acknowledged |-> FALSE] # NotMissed
<1>1. [createdByUser |-> byUser, acknowledged |-> FALSE] \in MissedApproach
  BY DEF MissedApproach
<1>. QED
  BY <1>1, MissedAssumption

LEMMA AddMissedTyped ==
    ASSUME MissedTypeOK, NEW i \in MissedIds, NEW byUser \in BOOLEAN, AddMissedApproach(i, byUser)
    PROVE  /\ missedApproaches' \in [MissedIds -> MissedApproach \cup {NotMissed}]
           /\ missedAlerts' \in [MissedIds -> Nat]
           /\ missedAlerts'[i] = missedAlerts[i] + 1
           /\ Collected(i) => missedApproaches'[i] = missedApproaches[i]
           /\ ~Collected(i) => missedApproaches'[i] = [createdByUser |-> byUser, acknowledged |-> FALSE]
           /\ Collected(i)'
           /\ \A k \in MissedIds \ {i} :
                 missedApproaches'[k] = missedApproaches[k] /\ missedAlerts'[k] = missedAlerts[k]
<1>1. /\ [createdByUser |-> byUser, acknowledged |-> FALSE] \in MissedApproach
      /\ [createdByUser |-> byUser, acknowledged |-> FALSE] # NotMissed
  BY NewMissedEntry
<1>. QED
  BY <1>1 DEF MissedTypeOK, AddMissedApproach, Collected

LEMMA AcknowledgedTyped ==
    ASSUME MissedTypeOK, NEW i \in MissedIds, MissedAcknowledged(i)
    PROVE  /\ missedApproaches' \in [MissedIds -> MissedApproach \cup {NotMissed}]
           /\ ~Collected(i) => ~Collected(i)'
           /\ Collected(i) => /\ Collected(i)' /\ missedApproaches'[i].acknowledged
                              /\ missedApproaches'[i].createdByUser = missedApproaches[i].createdByUser
           /\ \A k \in MissedIds \ {i} : missedApproaches'[k] = missedApproaches[k]
<1>1. CASE Collected(i)
  <2>1. missedApproaches[i] \in MissedApproach
    BY <1>1 DEF Collected, MissedTypeOK
  <2>2. [missedApproaches[i] EXCEPT !.acknowledged = TRUE] \in MissedApproach
    BY <2>1 DEF MissedApproach
  <2>3. /\ [missedApproaches[i] EXCEPT !.acknowledged = TRUE].acknowledged
        /\ [missedApproaches[i] EXCEPT !.acknowledged = TRUE].createdByUser = missedApproaches[i].createdByUser
    BY <2>1 DEF MissedApproach
  <2>. QED
    BY <1>1, <2>2, <2>3, MissedAssumption DEF MissedTypeOK, MissedAcknowledged, Collected
<1>2. CASE ~Collected(i)
  BY <1>2 DEF MissedTypeOK, MissedAcknowledged, Collected
<1>. QED
  BY <1>1, <1>2

LEMMA MissedTypesKept == MissedTypeOK /\ [MissedNext]_missedVars => MissedTypeOK'
<1>. SUFFICES ASSUME MissedTypeOK, [MissedNext]_missedVars PROVE MissedTypeOK'
  OBVIOUS
<1>0. MissedTasks \subseteq MissedTask
  BY DEF MissedTypeOK
<1>1. ASSUME NEW a \in MissedAircraft, TriggerMissedApproach(a) PROVE MissedTypeOK'
  <2>1. MissedTasks' \subseteq MissedTask
    BY <1>0, <1>1, MissedQueued DEF TriggerMissedApproach, MissedTask
  <2>. QED
    BY <1>1, <2>1 DEF TriggerMissedApproach, MissedTypeOK, missedBackend, missedHistory
<1>2. ASSUME NEW i \in MissedIds, AcknowledgeMissedApproach(i) PROVE MissedTypeOK'
  <2>1. MissedTasks' \subseteq MissedTask
    BY <1>0, <1>2, MissedQueued DEF AcknowledgeMissedApproach, MissedTask
  <2>. QED
    BY <1>2, <2>1 DEF AcknowledgeMissedApproach, MissedTypeOK, missedBackend, missedHistory
<1>3. CASE RemoveExpiredMissedApproaches
  BY <1>3 DEF RemoveExpiredMissedApproaches, MissedTypeOK, missedBackend, missedHistory, MissedTasks
<1>4. ASSUME NEW t \in MissedTasks, NEW i \in MissedIds, CreateMissedAnswered(t, i) PROVE MissedTypeOK'
  <2>1. t.of \in MissedAircraft
    BY <1>0, <1>4 DEF CreateMissedAnswered, MissedTask
  <2>2. MissedTasks' \subseteq MissedTask
    BY <1>0, <1>4, MissedReplaced DEF CreateMissedAnswered, MissedTask
  <2>3. missedEvents' \in Seq(MissedEvent)
    BY <1>4, MissedPublished DEF CreateMissedAnswered
  <2>. QED
    BY <1>4, <2>1, <2>2, <2>3 DEF CreateMissedAnswered, MissedTypeOK
<1>5. ASSUME NEW t \in MissedTasks, AcknowledgeMissedAnswered(t) PROVE MissedTypeOK'
  <2>1. t.id \in MissedIds
    BY <1>0, <1>5 DEF AcknowledgeMissedAnswered, MissedTask
  <2>2. MissedTasks' \subseteq MissedTask
    BY <1>0, <1>5, <2>1, MissedReplaced DEF AcknowledgeMissedAnswered, MissedTask
  <2>3. missedEvents' \in Seq(MissedEvent)
    BY <1>5, <2>1, MissedPublished DEF AcknowledgeMissedAnswered
  <2>. QED
    BY <1>5, <2>1, <2>2, <2>3 DEF AcknowledgeMissedAnswered, MissedTypeOK, missedHistory
<1>6. ASSUME NEW t \in MissedTasks, MissedCallFailed(t) PROVE MissedTypeOK'
  <2>1. MissedTasks' \subseteq MissedTask
    BY <1>0, <1>6, MissedFinished DEF MissedCallFailed
  <2>. QED
    BY <1>6, <2>1 DEF MissedCallFailed, MissedTypeOK, missedBackend, missedHistory
<1>7. ASSUME NEW t \in MissedTasks, AddTriggered(t) PROVE MissedTypeOK'
  <2>1. t.id \in MissedIds
    BY <1>0, <1>7 DEF AddTriggered, MissedTask
  <2>2. MissedTasks' \subseteq MissedTask
    BY <1>0, <1>7, MissedFinished DEF AddTriggered
  <2>3. /\ missedApproaches' \in [MissedIds -> MissedApproach \cup {NotMissed}]
        /\ missedAlerts' \in [MissedIds -> Nat]
    BY <1>7, <2>1, AddMissedTyped DEF AddTriggered
  <2>. QED
    BY <1>7, <2>2, <2>3 DEF AddTriggered, MissedTypeOK, missedBackend
<1>8. ASSUME NEW t \in MissedTasks, MarkMissedAcknowledged(t) PROVE MissedTypeOK'
  <2>1. t.id \in MissedIds
    BY <1>0, <1>8 DEF MarkMissedAcknowledged, MissedTask
  <2>2. MissedTasks' \subseteq MissedTask
    BY <1>0, <1>8, MissedFinished DEF MarkMissedAcknowledged
  <2>3. missedApproaches' \in [MissedIds -> MissedApproach \cup {NotMissed}]
    BY <1>8, <2>1, AcknowledgedTyped DEF MarkMissedAcknowledged
  <2>. QED
    BY <1>8, <2>2, <2>3 DEF MarkMissedAcknowledged, MissedTypeOK, missedBackend, missedHistory
<1>9. CASE ProcessMissedEvent
  <2>1. missedEvents' \in Seq(MissedEvent) /\ Head(missedEvents) \in MissedEvent
    BY <1>9, MissedTaken DEF ProcessMissedEvent
  <2>2. Head(missedEvents).id \in MissedIds
    BY <2>1 DEF MissedEvent
  <2>3. /\ missedApproaches' \in [MissedIds -> MissedApproach \cup {NotMissed}]
        /\ missedAlerts' \in [MissedIds -> Nat]
    BY <1>9, <2>2, AddMissedTyped, AcknowledgedTyped DEF ProcessMissedEvent, MissedTypeOK
  <2>. QED
    BY <1>9, <2>1, <2>3 DEF ProcessMissedEvent, MissedTypeOK, missedBackend, MissedTasks
<1>10. CASE CheckMissedEvent
  BY <1>10 DEF CheckMissedEvent, MissedTypeOK, missedBackend, missedHistory, MissedTasks
<1>11. ASSUME NEW i \in MissedIds, MissedExpires(i) PROVE MissedTypeOK'
  BY <1>11 DEF MissedExpires, MissedTypeOK, missedBackend, missedHistory, MissedTasks
<1>12. ASSUME NEW i \in MissedIds, OthersMissed(i) PROVE MissedTypeOK'
  <2>1. missedEvents' \in Seq(MissedEvent)
    BY <1>12, MissedPublished DEF OthersMissed
  <2>. QED
    BY <1>12, <2>1 DEF OthersMissed, MissedTypeOK, missedHistory, MissedTasks
<1>13. CASE UNCHANGED missedVars
  BY <1>13 DEF missedVars, missedBackend, missedHistory, MissedTypeOK, MissedTasks
<1>. QED
  BY <1>1, <1>2, <1>3, <1>4, <1>5, <1>6, <1>7, <1>8, <1>9, <1>10, <1>11, <1>12, <1>13 DEF MissedNext

LEMMA MissedTypesAtStart == MissedInit => MissedTypeOK
<1>. SUFFICES ASSUME MissedInit PROVE MissedTypeOK
  OBVIOUS
<1>1. MissedTasks = {} /\ missedEvents = <<>> /\ missedChecked \in BOOLEAN
  BY DEF MissedInit, MissedTasks, BagToSet, EmptyBag, SetToBag
<1>. QED
  BY <1>1 DEF MissedInit, MissedTypeOK

-------------------------------------------------------------------------------
(* The invariant.                                                             *)

\* The tasks that add it or mark it acknowledged are those there were.
SameMissedTasks(i) ==
    /\ \A do \in {"add", "mark"} : [do |-> do, id |-> i] \in MissedTasks' <=> [do |-> do, id |-> i] \in MissedTasks
    /\ AddComing(i) => missedTasks'[[do |-> "add", id |-> i]] = missedTasks[[do |-> "add", id |-> i]]
SameMissedEvents(i) ==
    /\ NoMissedComing(i)' <=> NoMissedComing(i)
    /\ MissedCreatedFirst(i)' <=> MissedCreatedFirst(i)
    /\ \A is : MissedComing(i, is)' <=> MissedComing(i, is)

LEMMA MissedEventsSame ==
    ASSUME UNCHANGED missedEvents, NEW i PROVE SameMissedEvents(i)
  BY DEF SameMissedEvents, MissedComing, NoMissedComing, MissedCreatedFirst

\* A step that is about others, or only lets it expire, keeps it right.
LEMMA MissedUntouched ==
    ASSUME NEW i \in MissedIds, MissedRight(i), SameMissedTasks(i), SameMissedEvents(i),
           \/ missedAtApi[i] # "none"
           \/ [do |-> "acknowledge", id |-> i] \in MissedTasks
           \/ [do |-> "acknowledge", id |-> i] \notin MissedTasks',
           missedApproaches'[i] = missedApproaches[i] \/ (missedApproaches'[i] = NotMissed /\ i \in missedExpired),
           missedAtApi'[i] = missedAtApi[i], missedAlerts'[i] = missedAlerts[i],
           i \in missedExpired => i \in missedExpired',
           i \in missedTriggered' <=> i \in missedTriggered
    PROVE  MissedRight(i)'
<1>1. AddComing(i)' <=> AddComing(i)
  BY DEF SameMissedTasks, AddComing
<1>2. Collected(i)' => Collected(i) /\ missedApproaches'[i] = missedApproaches[i]
  BY DEF Collected
<1>3. MissedUnmade(i)'
  BY <1>2 DEF MissedRight, MissedUnmade, SameMissedEvents, SameMissedTasks
<1>4. MissedAcknowledgedAtApi(i)'
  BY <1>2 DEF MissedRight, MissedAcknowledgedAtApi, SameMissedEvents, SameMissedTasks
<1>5. MissedKept(i)'
  BY DEF MissedRight, MissedKept, SameMissedEvents, Collected
<1>6. MissedOwn(i)'
  BY <1>1, <1>2 DEF MissedRight, MissedOwn, SameMissedEvents, SameMissedTasks
<1>7. MissedCounted(i)'
  BY <1>1 DEF MissedRight, MissedCounted, MissedToAnnounce, SameMissedEvents
<1>. QED
  BY <1>3, <1>4, <1>5, <1>6, <1>7 DEF MissedRight, SameMissedEvents

\* One made at the API is new to everybody; the task of the user's own adds it.
LEMMA MissedMadeKeeps ==
    ASSUME MissedIInv, NEW j \in MissedIds, missedAtApi[j] = "none",
           missedAtApi' = [missedAtApi EXCEPT ![j] = "created"], PublishMissed("created", j),
           UNCHANGED <<missedApproaches, missedExpired, missedAlerts>>,
           \A i \in MissedIds : i # j => SameMissedTasks(i) /\ (i \in missedTriggered' <=> i \in missedTriggered),
           \A i \in MissedIds : i # j =>
              ([do |-> "acknowledge", id |-> i] \in MissedTasks' => [do |-> "acknowledge", id |-> i] \in MissedTasks),
           [do |-> "mark", id |-> j] \notin MissedTasks',
           AddComing(j)' <=> j \in missedTriggered',
           AddComing(j)' => missedTasks'[[do |-> "add", id |-> j]] = 1,
           NEW i \in MissedIds
    PROVE  MissedRight(i)'
<1>1. MissedRight(i) /\ MissedTypeOK
  BY DEF MissedIInv
<1>2. /\ MissedComing(j, "created")'
      /\ NoMissedComing(i)' <=> NoMissedComing(i) /\ i # j
      /\ \A x : MissedComing(i, x)' <=> MissedComing(i, x) \/ (i = j /\ x = "created")
      /\ MissedCreatedFirst(i) /\ (i = j => NoMissedComing(i)) => MissedCreatedFirst(i)'
  BY <1>1, MissedPublished
<1>3. CASE i # j
  <2>1. SameMissedEvents(i)
    BY <1>1, <1>2, <1>3 DEF SameMissedEvents, MissedRight
  <2>2. missedAtApi'[i] = missedAtApi[i]
    BY <1>1, <1>3 DEF MissedTypeOK
  <2>3. SameMissedTasks(i)
    BY <1>3
  <2>4. [do |-> "acknowledge", id |-> i] \in MissedTasks' => [do |-> "acknowledge", id |-> i] \in MissedTasks
    BY <1>3
  <2>. QED
    BY <1>1, <1>3, <2>1, <2>2, <2>3, <2>4, MissedUntouched
<1>4. CASE i = j
  <2>1. /\ ~Collected(i) /\ missedAlerts[i] = 0 /\ NoMissedComing(i) /\ ~MissedComing(i, "acknowledged")
    BY <1>1, <1>4 DEF MissedRight, MissedUnmade, MissedAcknowledgedAtApi
  <2>2. missedAtApi'[i] = "created" /\ ~Collected(i)' /\ missedAlerts'[i] = 0
    BY <1>1, <1>4, <2>1 DEF MissedTypeOK, Collected
  <2>3. MissedCreatedFirst(i)' /\ MissedComing(i, "created")' /\ ~MissedComing(i, "acknowledged")'
    BY <1>1, <1>2, <1>4, <2>1 DEF MissedRight
  <2>4. MissedUnmade(i)' /\ MissedAcknowledgedAtApi(i)' /\ MissedKept(i)'
    BY <1>4, <2>2, <2>3 DEF MissedUnmade, MissedAcknowledgedAtApi, MissedKept
  <2>5. MissedOwn(i)'
    BY <1>4, <2>2, <2>3 DEF MissedOwn
  <2>6. MissedCounted(i)'
    BY <1>4, <2>2, <2>3 DEF MissedCounted, MissedToAnnounce
  <2>. QED
    BY <2>3, <2>4, <2>5, <2>6 DEF MissedRight
<1>. QED
  BY <1>3, <1>4

\* One acknowledged at the API, where it may have been so already.
LEMMA MissedAcknowledgedKeeps ==
    ASSUME MissedIInv, NEW j \in MissedIds, missedAtApi[j] # "none",
           missedAtApi' = [missedAtApi EXCEPT ![j] = "acknowledged"], PublishMissed("acknowledged", j),
           UNCHANGED <<missedApproaches, missedExpired, missedAlerts, missedTriggered>>,
           \A i \in MissedIds :
              /\ i # j => SameMissedTasks(i)
              /\ AddComing(i)' <=> AddComing(i)
              /\ AddComing(i) => missedTasks'[[do |-> "add", id |-> i]] = missedTasks[[do |-> "add", id |-> i]]
              /\ i # j => ([do |-> "acknowledge", id |-> i] \in MissedTasks' =>
                              [do |-> "acknowledge", id |-> i] \in MissedTasks),
           NEW i \in MissedIds
    PROVE  MissedRight(i)'
<1>1. MissedRight(i) /\ MissedTypeOK
  BY DEF MissedIInv
<1>2. /\ MissedComing(j, "acknowledged")'
      /\ NoMissedComing(i)' <=> NoMissedComing(i) /\ i # j
      /\ \A x : MissedComing(i, x)' <=> MissedComing(i, x) \/ (i = j /\ x = "acknowledged")
      /\ MissedCreatedFirst(i) => MissedCreatedFirst(i)'
  BY <1>1, MissedPublished
<1>3. CASE i # j
  <2>1. SameMissedEvents(i)
    BY <1>1, <1>2, <1>3 DEF SameMissedEvents, MissedRight
  <2>2. missedAtApi'[i] = missedAtApi[i]
    BY <1>1, <1>3 DEF MissedTypeOK
  <2>3. SameMissedTasks(i)
    BY <1>3
  <2>4. [do |-> "acknowledge", id |-> i] \in MissedTasks' => [do |-> "acknowledge", id |-> i] \in MissedTasks
    BY <1>3
  <2>. QED
    BY <1>1, <1>3, <2>1, <2>2, <2>3, <2>4, MissedUntouched
<1>4. CASE i = j
  <2>0. missedAtApi'[i] = "acknowledged" /\ (Collected(i)' <=> Collected(i))
    BY <1>1, <1>4 DEF MissedTypeOK, Collected
  <2>1. /\ missedAtApi'[i] = "acknowledged" /\ (Collected(i)' <=> Collected(i))
        /\ MissedComing(i, "acknowledged")'
        /\ MissedComing(i, "created")' <=> MissedComing(i, "created")
        /\ AddComing(i)' <=> AddComing(i)
    <3>1. MissedComing(i, "created")' <=> MissedComing(i, "created")
      <4>1. "created" # "acknowledged"
        OBVIOUS
      <4>. QED
        BY <1>2, <4>1
    <3>. QED
      BY <1>2, <1>4, <2>0, <3>1
  <2>2. MissedUnmade(i)' /\ MissedAcknowledgedAtApi(i)'
    BY <2>1 DEF MissedUnmade, MissedAcknowledgedAtApi
  <2>3. MissedKept(i)'
    BY <1>1, <1>4, <2>1 DEF MissedRight, MissedKept
  <2>4. MissedOwn(i)'
    BY <1>1, <1>4, <2>1 DEF MissedRight, MissedOwn
  <2>5. MissedCounted(i)'
    BY <1>1, <2>1 DEF MissedRight, MissedCounted, MissedToAnnounce
  <2>. QED
    BY <1>1, <1>2, <2>2, <2>3, <2>4, <2>5 DEF MissedRight
<1>. QED
  BY <1>3, <1>4

\* The task adds the user's own, to which the event may have come first.
LEMMA MissedAddKeeps ==
    ASSUME MissedIInv, NEW t \in MissedTasks, AddTriggered(t), NEW i \in MissedIds
    PROVE  MissedRight(i)'
<1>1. MissedRight(i) /\ MissedTypeOK /\ t \in MissedTask
  BY DEF MissedIInv, MissedTypeOK
<1>2. t.do = "add" /\ t.id \in MissedIds /\ t = [do |-> "add", id |-> t.id]
  BY <1>1 DEF AddTriggered, MissedTask
<1>3. /\ MissedTasks' \subseteq MissedTasks /\ MissedTasks \ {t} \subseteq MissedTasks'
      /\ missedTasks[t] = 1 => t \notin MissedTasks'
      /\ \A u \in MissedTasks : u # t => missedTasks'[u] = missedTasks[u]
      /\ UNCHANGED <<missedExpired, missedAtApi, missedEvents, missedTriggered>>
  BY MissedFinished DEF AddTriggered, missedBackend
<1>4. /\ missedAlerts'[t.id] = missedAlerts[t.id] + 1 /\ Collected(t.id)'
      /\ Collected(t.id) => missedApproaches'[t.id] = missedApproaches[t.id]
      /\ ~Collected(t.id) => missedApproaches'[t.id] = [createdByUser |-> TRUE, acknowledged |-> FALSE]
      /\ \A k \in MissedIds \ {t.id} :
            missedApproaches'[k] = missedApproaches[k] /\ missedAlerts'[k] = missedAlerts[k]
  BY <1>1, <1>2, AddMissedTyped DEF AddTriggered
<1>5. SameMissedEvents(i)
  BY <1>3, MissedEventsSame
<1>6. CASE t.id # i
  <2>1. SameMissedTasks(i)
    BY <1>3, <1>6 DEF SameMissedTasks, AddComing
  <2>. QED
    BY <1>1, <1>3, <1>4, <1>5, <1>6, <2>1, MissedUntouched
<1>7. CASE t.id = i
  <2>1. AddComing(i) /\ ~AddComing(i)' /\ i \in missedTriggered
    BY <1>1, <1>2, <1>3, <1>7 DEF MissedRight, MissedOwn, AddComing
  <2>2. Collected(i)' /\ missedAlerts[i] \in Nat /\ missedAlerts'[i] = missedAlerts[i] + 1
    BY <1>1, <1>4, <1>7 DEF MissedTypeOK
  <2>3. missedAtApi[i] # "none"
    BY <1>1, <1>2, <1>7 DEF MissedRight, MissedUnmade
  <2>4. MissedUnmade(i)'
    BY <1>3, <2>3 DEF MissedUnmade
  <2>5. [do |-> "mark", id |-> i] \in MissedTasks' => [do |-> "mark", id |-> i] \in MissedTasks
    BY <1>3
  <2>6. MissedAcknowledgedAtApi(i)'
    BY <1>1, <1>3, <1>4, <1>5, <1>7, <2>5 DEF MissedRight, MissedAcknowledgedAtApi, SameMissedEvents,
       Collected
  <2>7. MissedKept(i)'
    BY <1>1, <1>3, <1>4, <1>5, <1>7, <2>2 DEF MissedRight, MissedKept, SameMissedEvents, Collected
  <2>8. MissedOwn(i)'
    BY <1>1, <1>3, <1>4, <1>5, <1>7, <2>1, <2>2 DEF MissedRight, MissedOwn, SameMissedEvents
  <2>9. MissedCounted(i)'
    BY <1>1, <1>3, <1>5, <2>1, <2>2 DEF MissedRight, MissedCounted, MissedToAnnounce, SameMissedEvents
  <2>. QED
    BY <1>1, <1>5, <2>4, <2>6, <2>7, <2>8, <2>9 DEF MissedRight, SameMissedEvents
<1>. QED
  BY <1>6, <1>7

\* An entry acknowledged, by the task or by the event.
LEMMA MissedMarked ==
    ASSUME MissedIInv, NEW i \in MissedIds, MissedAcknowledged(i), missedAtApi[i] = "acknowledged",
           UNCHANGED <<missedExpired, missedAtApi, missedAlerts, missedTriggered>>,
           MissedCreatedFirst(i)', AddComing(i)' <=> AddComing(i),
           AddComing(i) => missedTasks'[[do |-> "add", id |-> i]] = missedTasks[[do |-> "add", id |-> i]],
           MissedComing(i, "created")' <=> MissedComing(i, "created"),
           Collected(i) \/ i \in missedExpired
             \/ (MissedComing(i, "acknowledged")' <=> MissedComing(i, "acknowledged"))
    PROVE  MissedRight(i)'
<1>1. MissedRight(i) /\ MissedTypeOK
  BY DEF MissedIInv
<1>2. /\ ~Collected(i) => ~Collected(i)'
      /\ Collected(i) => /\ Collected(i)' /\ missedApproaches'[i].acknowledged
                         /\ missedApproaches'[i].createdByUser = missedApproaches[i].createdByUser
  BY <1>1, AcknowledgedTyped
<1>3. MissedUnmade(i)' /\ MissedAcknowledgedAtApi(i)'
  BY DEF MissedUnmade, MissedAcknowledgedAtApi
<1>4. MissedKept(i)'
  BY <1>1, <1>2 DEF MissedRight, MissedKept
<1>5. MissedOwn(i)'
  BY <1>1, <1>2 DEF MissedRight, MissedOwn
<1>6. MissedCounted(i)'
  BY <1>1 DEF MissedRight, MissedCounted, MissedToAnnounce
<1>. QED
  BY <1>3, <1>4, <1>5, <1>6 DEF MissedRight

LEMMA MissedMarkKeeps ==
    ASSUME MissedIInv, NEW t \in MissedTasks, MarkMissedAcknowledged(t), NEW i \in MissedIds
    PROVE  MissedRight(i)'
<1>1. MissedRight(i) /\ MissedTypeOK /\ t \in MissedTask
  BY DEF MissedIInv, MissedTypeOK
<1>2. t.do = "mark" /\ t.id \in MissedIds /\ t = [do |-> "mark", id |-> t.id]
  BY <1>1 DEF MarkMissedAcknowledged, MissedTask
<1>3. /\ MissedTasks' \subseteq MissedTasks /\ MissedTasks \ {t} \subseteq MissedTasks'
      /\ \A u \in MissedTasks : u # t => missedTasks'[u] = missedTasks[u]
      /\ UNCHANGED <<missedExpired, missedAtApi, missedEvents, missedAlerts, missedTriggered>>
  BY MissedFinished DEF MarkMissedAcknowledged, missedBackend, missedHistory
<1>4. SameMissedEvents(i)
  BY <1>3, MissedEventsSame
<1>5. \A do : do # "mark" \/ t.id # i => t # [do |-> do, id |-> i]
  BY <1>2
<1>6. CASE t.id # i
  <2>1. SameMissedTasks(i)
    BY <1>3, <1>5, <1>6 DEF SameMissedTasks, AddComing
  <2>2. missedApproaches'[i] = missedApproaches[i]
    BY <1>1, <1>2, <1>6, AcknowledgedTyped DEF MarkMissedAcknowledged
  <2>. QED
    BY <1>1, <1>3, <1>4, <2>1, <2>2, MissedUntouched
<1>7. CASE t.id = i
  <2>1. missedAtApi[i] = "acknowledged"
    BY <1>1, <1>2, <1>7 DEF MissedRight, MissedAcknowledgedAtApi
  <2>2. MissedAcknowledged(i)
    BY <1>7 DEF MarkMissedAcknowledged
  <2>3. AddComing(i)' <=> AddComing(i)
    BY <1>3, <1>5 DEF AddComing
  <2>4. AddComing(i) => missedTasks'[[do |-> "add", id |-> i]] = missedTasks[[do |-> "add", id |-> i]]
    BY <1>3, <1>5 DEF AddComing
  <2>. QED
    BY <1>1, <1>3, <1>4, <2>1, <2>2, <2>3, <2>4, MissedMarked DEF SameMissedEvents, MissedRight
<1>. QED
  BY <1>6, <1>7

\* The event: an entry there is stays as it is, one that is not is announced.
LEMMA MissedEventKeeps ==
    ASSUME MissedIInv, ProcessMissedEvent, NEW i \in MissedIds
    PROVE  MissedRight(i)'
<1>. DEFINE e == Head(missedEvents)
<1>1. MissedRight(i) /\ MissedTypeOK
  BY DEF MissedIInv
<1>2. /\ e \in MissedEvent
      /\ NoMissedComing(i) => NoMissedComing(i)' /\ e.id # i
      /\ \A x :
           /\ MissedComing(i, x)' => MissedComing(i, x)
           /\ MissedComing(i, x) => MissedComing(i, x)' \/ e = [is |-> x, id |-> i]
           /\ e = [is |-> x, id |-> i] => MissedComing(i, x)
      /\ MissedCreatedFirst(i)'
      /\ e.id = i => ~MissedComing(i, "created")'
  BY <1>1, MissedTaken DEF ProcessMissedEvent, MissedRight
<1>3. /\ \/ /\ e.is = "created" /\ ~missedChecked /\ Collected(e.id)
            /\ UNCHANGED <<missedApproaches, missedAlerts>>
         \/ e.is = "created" /\ missedChecked /\ AddMissedApproach(e.id, FALSE)
         \/ e.is = "acknowledged" /\ MissedAcknowledged(e.id) /\ UNCHANGED missedAlerts
      /\ UNCHANGED <<missedExpired, missedAtApi, missedTasks, missedTriggered>>
  BY DEF ProcessMissedEvent, missedBackend
<1>. HIDE DEF e
<1>4. /\ e.id \in MissedIds /\ e = [is |-> e.is, id |-> e.id] /\ MissedTasks' = MissedTasks
      /\ AddComing(i)' <=> AddComing(i)
  BY <1>2, <1>3 DEF MissedEvent, MissedTasks, AddComing
<1>5. CASE e.id # i
  <2>1. missedApproaches'[i] = missedApproaches[i] /\ missedAlerts'[i] = missedAlerts[i]
    BY <1>1, <1>3, <1>4, <1>5, AddMissedTyped, AcknowledgedTyped
  <2>2. \A x : MissedComing(i, x)' <=> MissedComing(i, x)
    BY <1>2, <1>5
  <2>3. \A x : e # [is |-> x, id |-> i]
    BY <1>5
  <2>4. MissedUnmade(i)'
    BY <1>1, <1>2, <1>3, <1>4, <2>1 DEF MissedRight, MissedUnmade, Collected
  <2>5. MissedAcknowledgedAtApi(i)' /\ MissedKept(i)'
    BY <1>1, <1>3, <1>4, <2>1, <2>2 DEF MissedRight, MissedAcknowledgedAtApi, MissedKept, Collected
  <2>6. MissedOwn(i)' /\ MissedCounted(i)'
    BY <1>1, <1>3, <1>4, <2>1, <2>2 DEF MissedRight, MissedOwn, MissedCounted, MissedToAnnounce,
       Collected
  <2>. QED
    BY <1>2, <2>4, <2>5, <2>6 DEF MissedRight
<1>6. CASE e.id = i /\ e.is = "acknowledged"
  <2>0. e = [is |-> "acknowledged", id |-> i] /\ "acknowledged" # "created" /\ e # [is |-> "created", id |-> i]
    BY <1>4, <1>6
  <2>1. missedAtApi[i] = "acknowledged"
    BY <1>1, <1>2, <2>0 DEF MissedRight, MissedAcknowledgedAtApi
  <2>2. MissedComing(i, "created")' <=> MissedComing(i, "created")
    BY <1>2, <2>0
  <2>3. Collected(i) \/ i \in missedExpired
    BY <1>1, <1>2, <1>6, <2>1, <2>2 DEF MissedRight, MissedKept
  <2>. QED
    BY <1>2, <1>3, <1>4, <1>6, <2>0, <2>1, <2>2, <2>3, MissedMarked
<1>7. CASE e.id = i /\ e.is = "created"
  <2>1. e = [is |-> "created", id |-> i] /\ e # [is |-> "acknowledged", id |-> i]
    BY <1>4, <1>7
  <2>2. /\ MissedComing(i, "created") /\ ~MissedComing(i, "created")'
        /\ MissedComing(i, "acknowledged")' <=> MissedComing(i, "acknowledged")
        /\ missedAtApi[i] # "none"
    BY <1>1, <1>2, <1>7, <2>1 DEF MissedRight, MissedUnmade
  <2>3. MissedUnmade(i)'
    BY <1>3, <2>2 DEF MissedUnmade
  <2>4. CASE ~missedChecked
    <3>1. /\ missedApproaches'[i] = missedApproaches[i] /\ missedAlerts'[i] = missedAlerts[i]
          /\ Collected(i) /\ Collected(i)'
      BY <1>3, <1>7, <2>4 DEF Collected
    <3>2. MissedAcknowledgedAtApi(i)' /\ MissedKept(i)'
      BY <1>1, <1>3, <1>4, <2>2, <3>1 DEF MissedRight, MissedAcknowledgedAtApi, MissedKept
    <3>3. MissedOwn(i)'
      BY <1>1, <1>3, <1>4, <3>1 DEF MissedRight, MissedOwn
    <3>4. MissedCounted(i)'
      BY <1>1, <1>3, <1>4, <2>2, <3>1 DEF MissedRight, MissedCounted, MissedToAnnounce, MissedTypeOK
    <3>. QED
      BY <1>2, <2>3, <3>2, <3>3, <3>4 DEF MissedRight
  <2>5. CASE missedChecked
    <3>0. AddMissedApproach(i, FALSE)
      BY <1>3, <1>7, <2>5
    <3>1. /\ missedAlerts'[i] = missedAlerts[i] + 1 /\ missedAlerts[i] \in Nat /\ Collected(i)'
          /\ Collected(i) => missedApproaches'[i] = missedApproaches[i]
          /\ ~Collected(i) =>
                missedApproaches'[i] = [createdByUser |-> FALSE, acknowledged |-> FALSE]
      BY <1>1, <3>0, AddMissedTyped DEF MissedTypeOK
    <3>2. ~Collected(i) => ~missedApproaches'[i].acknowledged /\ ~missedApproaches'[i].createdByUser
      BY <3>1
    <3>3. MissedAcknowledgedAtApi(i)' /\ MissedKept(i)'
      BY <1>1, <1>3, <1>4, <2>2, <3>1, <3>2 DEF MissedRight, MissedAcknowledgedAtApi, MissedKept
    <3>4. MissedOwn(i)'
      BY <1>1, <1>3, <1>4, <3>1, <3>2 DEF MissedRight, MissedOwn
    <3>5. MissedCounted(i)'
      BY <1>1, <1>3, <1>4, <2>2, <3>1 DEF MissedRight, MissedCounted, MissedToAnnounce
    <3>. QED
      BY <1>2, <2>3, <3>3, <3>4, <3>5 DEF MissedRight
  <2>. QED
    BY <2>4, <2>5
<1>. QED
  BY <1>3, <1>5, <1>6, <1>7

LEMMA MissedKeptRight == MissedIInv /\ [MissedNext]_missedVars => MissedIInv'
<1>. SUFFICES ASSUME MissedIInv, [MissedNext]_missedVars, NEW i \in MissedIds
              PROVE  MissedRight(i)'
  BY MissedTypesKept DEF MissedIInv
<1>0. MissedRight(i) /\ MissedTypeOK /\ MissedTasks \subseteq MissedTask
  BY DEF MissedIInv, MissedTypeOK
<1>1. ASSUME NEW t, t.do \in {"create", "acknowledge"}, NEW do \in {"add", "mark"}
      PROVE  t # [do |-> do, id |-> i]
  BY <1>1
<1>2. ASSUME NEW a \in MissedAircraft, TriggerMissedApproach(a) PROVE MissedRight(i)'
  <2>1. /\ MissedTasks' = MissedTasks \cup {[do |-> "create", of |-> a]}
        /\ \A u \in MissedTasks : u # [do |-> "create", of |-> a] => missedTasks'[u] = missedTasks[u]
    BY <1>2, MissedQueued DEF TriggerMissedApproach
  <2>2. \A do \in {"add", "mark", "acknowledge"} : [do |-> "create", of |-> a] # [do |-> do, id |-> i]
    <3>. SUFFICES ASSUME NEW do \in {"add", "mark", "acknowledge"} PROVE "create" # do
      OBVIOUS
    <3>. QED
      OBVIOUS
  <2>3. SameMissedTasks(i) /\ SameMissedEvents(i)
    BY <1>2, <2>1, <2>2, MissedEventsSame DEF TriggerMissedApproach, SameMissedTasks, AddComing
  <2>. QED
    BY <1>0, <1>2, <2>1, <2>2, <2>3, MissedUntouched DEF TriggerMissedApproach, missedBackend,
       missedHistory
<1>3. ASSUME NEW j \in MissedIds, AcknowledgeMissedApproach(j) PROVE MissedRight(i)'
  <2>1. /\ MissedTasks' = MissedTasks \cup {[do |-> "acknowledge", id |-> j]}
        /\ \A u \in MissedTasks : u # [do |-> "acknowledge", id |-> j] => missedTasks'[u] = missedTasks[u]
    BY <1>3, MissedQueued DEF AcknowledgeMissedApproach
  <2>2. \A do \in {"add", "mark"} : [do |-> "acknowledge", id |-> j] # [do |-> do, id |-> i]
    OBVIOUS
  <2>3. SameMissedTasks(i) /\ SameMissedEvents(i)
    BY <1>3, <2>1, <2>2, MissedEventsSame DEF AcknowledgeMissedApproach, SameMissedTasks, AddComing
  <2>4. i = j => missedAtApi[i] # "none"
    BY <1>0, <1>3 DEF AcknowledgeMissedApproach, MissedRight, MissedUnmade
  <2>5. i # j /\ [do |-> "acknowledge", id |-> i] \in MissedTasks' => [do |-> "acknowledge", id |-> i] \in MissedTasks
    BY <2>1
  <2>. QED
    BY <1>0, <1>3, <2>3, <2>4, <2>5, MissedUntouched DEF AcknowledgeMissedApproach, missedBackend,
       missedHistory
<1>4. CASE \/ RemoveExpiredMissedApproaches \/ CheckMissedEvent
           \/ (\E j \in MissedIds : MissedExpires(j)) \/ UNCHANGED missedVars
  <2>1. /\ UNCHANGED <<missedAtApi, missedEvents, missedTasks, missedAlerts, missedTriggered>>
        /\ missedExpired \subseteq missedExpired' /\ MissedTasks' = MissedTasks
    BY <1>4 DEF RemoveExpiredMissedApproaches, CheckMissedEvent, MissedExpires, missedVars,
               missedBackend, missedHistory, MissedTasks
  <2>2. missedApproaches'[i] = missedApproaches[i] \/ (missedApproaches'[i] = NotMissed /\ i \in missedExpired)
    BY <1>4 DEF RemoveExpiredMissedApproaches, CheckMissedEvent, MissedExpires, missedVars
  <2>3. SameMissedTasks(i) /\ SameMissedEvents(i)
    BY <2>1, MissedEventsSame DEF SameMissedTasks
  <2>. QED
    BY <1>0, <2>1, <2>2, <2>3, MissedUntouched
<1>5. ASSUME NEW t \in MissedTasks, NEW j \in MissedIds, CreateMissedAnswered(t, j)
      PROVE  MissedRight(i)'
  <2>. DEFINE v == [do |-> "add", id |-> j]
  <2>1. /\ t.do = "create" /\ missedAtApi[j] = "none"
        /\ missedAtApi' = [missedAtApi EXCEPT ![j] = "created"] /\ PublishMissed("created", j)
        /\ UNCHANGED <<missedApproaches, missedExpired, missedAlerts>>
        /\ missedTriggered' = missedTriggered \cup {j} /\ ReplaceMissedTask(t, v)
    BY <1>5 DEF CreateMissedAnswered
  <2>2. v # t /\ v \notin MissedTasks /\ [do |-> "mark", id |-> j] \notin MissedTasks /\ j \notin missedTriggered
    BY <2>1 DEF MissedIInv, MissedRight, MissedUnmade
  <2>3. /\ MissedTasks' \subseteq MissedTasks \cup {v} /\ (MissedTasks \ {t}) \cup {v} \subseteq MissedTasks'
        /\ missedTasks'[v] = 1
        /\ \A u \in MissedTasks \ {t, v} : missedTasks'[u] = missedTasks[u]
    BY <2>1, <2>2, MissedReplaced
  <2>4. \A k \in MissedIds, do \in {"add", "mark", "acknowledge"} : t # [do |-> do, id |-> k]
    BY <2>1
  <2>5. \A k \in MissedIds, do \in {"add", "mark", "acknowledge"} :
           ~(do = "add" /\ k = j) => v # [do |-> do, id |-> k]
    OBVIOUS
  <2>6. ASSUME NEW k \in MissedIds, k # j
        PROVE  /\ SameMissedTasks(k) /\ (k \in missedTriggered' <=> k \in missedTriggered)
               /\ [do |-> "acknowledge", id |-> k] \in MissedTasks' => [do |-> "acknowledge", id |-> k] \in MissedTasks
    BY <2>1, <2>3, <2>4, <2>5, <2>6 DEF SameMissedTasks, AddComing
  <2>7. [do |-> "mark", id |-> j] \notin MissedTasks' /\ AddComing(j)' /\ j \in missedTriggered'
    BY <2>1, <2>2, <2>3, <2>5 DEF AddComing
  <2>. QED
    BY <2>1, <2>3, <2>6, <2>7, MissedMadeKeeps
<1>6. ASSUME NEW t \in MissedTasks, AcknowledgeMissedAnswered(t) PROVE MissedRight(i)'
  <2>. DEFINE v == [do |-> "mark", id |-> t.id]
  <2>1. /\ t.do = "acknowledge"
        /\ missedAtApi' = [missedAtApi EXCEPT ![t.id] = "acknowledged"] /\ PublishMissed("acknowledged", t.id)
        /\ UNCHANGED <<missedApproaches, missedExpired, missedAlerts, missedTriggered>>
        /\ ReplaceMissedTask(t, v)
    BY <1>6 DEF AcknowledgeMissedAnswered, missedHistory
  <2>2. t.id \in MissedIds /\ t = [do |-> "acknowledge", id |-> t.id]
    BY <1>0, <2>1 DEF MissedTask
  <2>3. missedAtApi[t.id] # "none"
    BY <2>2 DEF MissedIInv, MissedRight, MissedUnmade
  <2>4. /\ v # t
        /\ MissedTasks' \subseteq MissedTasks \cup {v} /\ (MissedTasks \ {t}) \cup {v} \subseteq MissedTasks'
        /\ \A u \in MissedTasks \ {t, v} : missedTasks'[u] = missedTasks[u]
    BY <2>1, MissedReplaced
  <2>5. ASSUME NEW k \in MissedIds
        PROVE  /\ \A do \in {"add", "mark"} : t # [do |-> do, id |-> k]
               /\ \A do : do # "mark" => v # [do |-> do, id |-> k]
               /\ k # t.id => v # [do |-> "mark", id |-> k]
    BY <2>1
  <2>6. ASSUME NEW k \in MissedIds
        PROVE  /\ k # t.id => SameMissedTasks(k)
               /\ AddComing(k)' <=> AddComing(k)
               /\ AddComing(k) => missedTasks'[[do |-> "add", id |-> k]] = missedTasks[[do |-> "add", id |-> k]]
               /\ [do |-> "acknowledge", id |-> k] \in MissedTasks' => [do |-> "acknowledge", id |-> k] \in MissedTasks
    BY <2>4, <2>5 DEF SameMissedTasks, AddComing
  <2>. QED
    BY <2>1, <2>2, <2>3, <2>6, MissedAcknowledgedKeeps
<1>7. ASSUME NEW t \in MissedTasks, MissedCallFailed(t) PROVE MissedRight(i)'
  <2>1. /\ MissedTasks' \subseteq MissedTasks /\ MissedTasks \ {t} \subseteq MissedTasks'
        /\ \A u \in MissedTasks : u # t => missedTasks'[u] = missedTasks[u]
    BY <1>7, MissedFinished DEF MissedCallFailed
  <2>2. \A do \in {"add", "mark"} : t # [do |-> do, id |-> i]
    BY <1>1, <1>7 DEF MissedCallFailed
  <2>3. SameMissedTasks(i) /\ SameMissedEvents(i)
    BY <1>7, <2>1, <2>2, MissedEventsSame DEF MissedCallFailed, SameMissedTasks, AddComing
  <2>. QED
    BY <1>0, <1>7, <2>1, <2>3, MissedUntouched DEF MissedCallFailed, missedBackend, missedHistory
<1>8. ASSUME NEW t \in MissedTasks, AddTriggered(t) PROVE MissedRight(i)'
  BY <1>8, MissedAddKeeps
<1>9. ASSUME NEW t \in MissedTasks, MarkMissedAcknowledged(t) PROVE MissedRight(i)'
  BY <1>9, MissedMarkKeeps
<1>10. CASE ProcessMissedEvent
  BY <1>10, MissedEventKeeps
<1>11. ASSUME NEW j \in MissedIds, OthersMissed(j) PROVE MissedRight(i)'
  <2>1. /\ UNCHANGED <<missedApproaches, missedExpired, missedTasks, missedAlerts, missedTriggered>>
        /\ MissedTasks' = MissedTasks
        /\ \A k : SameMissedTasks(k) /\ (AddComing(k)' <=> AddComing(k))
    BY <1>11 DEF OthersMissed, missedHistory, MissedTasks, SameMissedTasks, AddComing
  <2>2. CASE /\ missedAtApi[j] = "none" /\ missedAtApi' = [missedAtApi EXCEPT ![j] = "created"]
             /\ PublishMissed("created", j)
    <3>1. [do |-> "mark", id |-> j] \notin MissedTasks' /\ ~AddComing(j)' /\ j \notin missedTriggered'
      BY <2>1, <2>2 DEF MissedIInv, MissedRight, MissedUnmade, AddComing
    <3>. QED
      BY <2>1, <2>2, <3>1, MissedMadeKeeps
  <2>3. CASE /\ missedAtApi[j] = "created" /\ missedAtApi' = [missedAtApi EXCEPT ![j] = "acknowledged"]
             /\ PublishMissed("acknowledged", j)
    BY <2>1, <2>3, MissedAcknowledgedKeeps
  <2>. QED
    BY <1>11, <2>2, <2>3 DEF OthersMissed
<1>. QED
  BY <1>2, <1>3, <1>4, <1>5, <1>6, <1>7, <1>8, <1>9, <1>10, <1>11 DEF MissedNext

LEMMA MissedAtStart == MissedInit => MissedIInv
<1>. SUFFICES ASSUME MissedInit PROVE MissedIInv
  OBVIOUS
<1>1. Len(missedEvents) = 0 /\ MissedTasks = {} /\ missedTriggered = {}
  BY DEF MissedInit, MissedTasks, BagToSet, EmptyBag, SetToBag
<1>2. ASSUME NEW i \in MissedIds PROVE MissedRight(i)
  <2>1. missedAtApi[i] = "none" /\ ~Collected(i) /\ missedAlerts[i] = 0
    BY DEF MissedInit, Collected
  <2>2. MissedUnmade(i) /\ MissedCreatedFirst(i) /\ (\A is : ~MissedComing(i, is)) /\ ~AddComing(i)
    BY <1>1, <2>1 DEF MissedUnmade, MissedCreatedFirst, MissedComing, NoMissedComing, NoneComing, Coming,
                      ComesFirst, AddComing
  <2>3. MissedAcknowledgedAtApi(i) /\ MissedKept(i) /\ MissedOwn(i)
    BY <1>1, <2>1, <2>2 DEF MissedAcknowledgedAtApi, MissedKept, MissedOwn
  <2>4. MissedCounted(i)
    BY <2>1, <2>2 DEF MissedCounted, MissedToAnnounce
  <2>. QED
    BY <2>2, <2>3, <2>4 DEF MissedRight
<1>. QED
  BY <1>2, MissedTypesAtStart DEF MissedIInv

\* What is settled has nothing to come.
LEMMA MissedSettledMeans ==
    ASSUME MissedTypeOK, NEW i \in MissedIds, MissedSettled(i)
    PROVE  (\A is : ~MissedComing(i, is)) /\ ~AddComing(i)
<1>1. \A k \in 1..Len(missedEvents) : missedEvents[k].id # i
  BY DEF MissedSettled, Range, MissedTypeOK
<1>2. \A is : ~MissedComing(i, is)
  BY <1>1 DEF MissedComing, Coming
<1>3. ~AddComing(i)
  <2>. SUFFICES ASSUME AddComing(i) PROVE FALSE
    OBVIOUS
  <2>1. [do |-> "add", id |-> i].do # "create" /\ [do |-> "add", id |-> i].id = i
    OBVIOUS
  <2>. QED
    BY <2>1 DEF AddComing, MissedSettled
<1>. QED
  BY <1>2, <1>3

\* The collection, the calls under way and the events are ones the missed approach
\* handlers can hold, and an entry has the user's mark or has not.
THEOREM MissedTyped == MissedSpec => []MissedTypeOK
  BY MissedTypesAtStart, MissedTypesKept, PTL DEF MissedSpec

\* Once nothing is to come about a missed approach that has not expired, the
\* collection has it exactly if the API does, acknowledged exactly if it is there:
\* no interleaving of the answer to the user's call and the event loses it.
THEOREM MissedConverged == MissedSpec => []MissedApproachesConverge
<1>1. MissedIInv => MissedApproachesConverge
  <2>. SUFFICES ASSUME MissedIInv, NEW i \in MissedIds, MissedSettled(i), i \notin missedExpired
                PROVE  IF missedAtApi[i] = "none" THEN ~Collected(i)
                       ELSE /\ Collected(i)
                            /\ missedApproaches[i].acknowledged <=> missedAtApi[i] = "acknowledged"
    BY DEF MissedApproachesConverge
  <2>1. MissedRight(i) /\ (\A is : ~MissedComing(i, is))
    BY MissedSettledMeans DEF MissedIInv
  <2>. QED
    BY <2>1 DEF MissedRight, MissedUnmade, MissedKept, MissedAcknowledgedAtApi
<1>. QED
  BY <1>1, MissedAtStart, MissedKeptRight, PTL DEF MissedSpec

\* The audio alert and the message log are told of a missed approach exactly
\* once, or at most twice if the user triggered it; one told of once and still
\* there is marked as the user's own exactly if the user triggered it.
THEOREM MissedAnnounced == MissedSpec => []MissedApproachesAnnounced
<1>1. MissedIInv => MissedApproachesAnnounced
  <2>. SUFFICES ASSUME MissedIInv, NEW i \in MissedIds
                PROVE  /\ missedAlerts[i] <= IF i \in missedTriggered THEN 2 ELSE 1
                       /\ MissedSettled(i) /\ missedAtApi[i] # "none" => missedAlerts[i] >= 1
                       /\ Collected(i) /\ missedAlerts[i] = 1 /\ MissedSettled(i) =>
                            (missedApproaches[i].createdByUser <=> i \in missedTriggered)
    BY DEF MissedApproachesAnnounced
  <2>1. MissedRight(i) /\ MissedTypeOK /\ missedAlerts[i] \in Nat
    BY DEF MissedIInv, MissedTypeOK
  <2>2. missedAlerts[i] <= IF i \in missedTriggered THEN 2 ELSE 1
    BY <2>1 DEF MissedRight, MissedCounted, MissedToAnnounce
  <2>3. ASSUME MissedSettled(i) PROVE (\A is : ~MissedComing(i, is)) /\ ~AddComing(i)
    BY <2>1, <2>3, MissedSettledMeans
  <2>4. MissedSettled(i) /\ missedAtApi[i] # "none" => missedAlerts[i] >= 1
    BY <2>1, <2>3 DEF MissedRight, MissedOwn
  <2>5. ASSUME Collected(i), missedAlerts[i] = 1, MissedSettled(i)
        PROVE  missedApproaches[i].createdByUser <=> i \in missedTriggered
    <3>1. missedApproaches[i].createdByUser \in BOOLEAN
      BY <2>1, <2>5 DEF MissedTypeOK, Collected, MissedApproach
    <3>. QED
      BY <2>1, <2>3, <2>5, <3>1 DEF MissedRight, MissedOwn
  <2>. QED
    BY <2>2, <2>4, <2>5
<1>. QED
  BY <1>1, MissedAtStart, MissedKeptRight, PTL DEF MissedSpec

-------------------------------------------------------------------------------
(* The approach sequences.                                                    *)

\* What a list says of the aircraft behind and before its i-th.
NextIn(list, i) == IF i = Len(list) THEN NoLink ELSE list[i + 1]
PrevIn(list, i) == IF i = 1 THEN NoLink ELSE list[i - 1]

LinksTyped(s) ==
    /\ s.lists \in [SequenceAirfields -> Seq(SequencedAircraft)]
    /\ s.next \in [SequencedAircraft -> Link] /\ s.prev \in [SequencedAircraft -> Link]

\* An aircraft of no list.
NotIn(list, a) == \A i \in 1..Len(list) : list[i] # a
Apart(s, a) == \A f \in SequenceAirfields : NotIn(s.lists[f], a)

\* SequencesLinked, of any lists and links and destinations
ListLinked(list, next, prev, d, f) ==
    /\ \A i, j \in 1..Len(list) : list[i] = list[j] => i = j
    /\ \A i \in 1..Len(list) :
          d[list[i]] = f /\ next[list[i]] = NextIn(list, i) /\ prev[list[i]] = PrevIn(list, i)
WellLinked(s, d) ==
    /\ LinksTyped(s)
    /\ \A f \in SequenceAirfields : ListLinked(s.lists[f], s.next, s.prev, d, f)
    /\ \A a \in SequencedAircraft : Apart(s, a) => s.next[a] = NoLink /\ s.prev[a] = NoLink

\* An operation on one list, that leaves what is not in it alone
LEMMA OneListRelinked ==
    ASSUME NEW d, NEW s, WellLinked(s, d), NEW f \in SequenceAirfields,
           NEW r, LinksTyped(r),
           \A g \in SequenceAirfields \ {f} : r.lists[g] = s.lists[g],
           ListLinked(r.lists[f], r.next, r.prev, d, f),
           \A x \in SequencedAircraft :
              NotIn(r.lists[f], x) =>
                 IF NotIn(s.lists[f], x) THEN r.next[x] = s.next[x] /\ r.prev[x] = s.prev[x]
                 ELSE r.next[x] = NoLink /\ r.prev[x] = NoLink
    PROVE  WellLinked(r, d)
<1>1. ASSUME NEW g \in SequenceAirfields PROVE ListLinked(r.lists[g], r.next, r.prev, d, g)
  <2>1. CASE g = f
    BY <2>1
  <2>2. CASE g # f
    <3>. DEFINE list == s.lists[g]
    <3>1. r.lists[g] = list /\ list \in Seq(SequencedAircraft) /\ ListLinked(list, s.next, s.prev, d, g)
      BY <2>2 DEF WellLinked, LinksTyped
    <3>. HIDE DEF list
    <3>2. ASSUME NEW i \in 1..Len(list)
          PROVE  r.next[list[i]] = s.next[list[i]] /\ r.prev[list[i]] = s.prev[list[i]]
      <4>1. d[list[i]] = g /\ list[i] \in SequencedAircraft
        BY <3>1, ElementOfSeq DEF ListLinked
      <4>2. NotIn(r.lists[f], list[i])
        BY <2>2, <4>1 DEF ListLinked, NotIn
      <4>3. NotIn(s.lists[f], list[i])
        BY <2>2, <4>1 DEF WellLinked, ListLinked, NotIn
      <4>. QED
        BY <4>1, <4>2, <4>3
    <3>. QED
      BY <3>1, <3>2 DEF ListLinked
  <2>. QED
    BY <2>1, <2>2
<1>2. ASSUME NEW a \in SequencedAircraft, Apart(r, a)
      PROVE  r.next[a] = NoLink /\ r.prev[a] = NoLink
  <2>1. NotIn(r.lists[f], a)
    BY <1>2 DEF Apart
  <2>2. ASSUME NotIn(s.lists[f], a) PROVE Apart(s, a)
    BY <1>2, <2>2 DEF Apart
  <2>. QED
    BY <2>1, <2>2 DEF WellLinked
<1>. QED
  BY <1>1, <1>2 DEF WellLinked

LEMMA LinkTyped ==
    ASSUME NEW links \in [SequencedAircraft -> Link], NEW a \in Link, NEW to \in Link
    PROVE  SetLink(links, a, to) \in [SequencedAircraft -> Link]
  BY ApproachAssumption DEF SetLink, Link

\* The place of an aircraft that is in the list once.
LEMMA PlaceFound ==
    ASSUME NEW list \in Seq(SequencedAircraft), NEW p \in 1..Len(list),
           \A i \in 1..Len(list) : list[i] = list[p] => i = p
    PROVE  PlaceOf(list, list[p]) = p
<1>1. {i \in 1..Len(list) : list[i] = list[p]} = {p}
  OBVIOUS
<1>2. Min({p}) = p
  BY DEF Min
<1>. QED
  BY <1>1, <1>2 DEF PlaceOf, SelectInSeq

\* A list without its p-th.
LEMMA ListWithout ==
    ASSUME NEW list \in Seq(SequencedAircraft), NEW p \in 1..Len(list)
    PROVE  /\ RemoveAt(list, p) \in Seq(SequencedAircraft)
           /\ Len(RemoveAt(list, p)) = Len(list) - 1
           /\ \A i \in 1..(Len(list) - 1) :
                 RemoveAt(list, p)[i] = IF i < p THEN list[i] ELSE list[i + 1]
<1>. DEFINE n == Len(list)
            before == SubSeq(list, 1, p - 1)
            after == SubSeq(list, p + 1, n)
<1>1. n \in Nat /\ p \in 1..n /\ \A i \in 1..n : list[i] \in SequencedAircraft
  BY LenProperties, ElementOfSeq
<1>2. /\ before \in Seq(SequencedAircraft) /\ Len(before) = p - 1
      /\ \A i \in 1..(p - 1) : before[i] = list[i]
  BY <1>1, SubSeqProperties
<1>3. /\ after \in Seq(SequencedAircraft) /\ Len(after) = n - p
      /\ \A i \in 1..(n - p) : after[i] = list[p + i]
  BY <1>1, SubSeqProperties
<1>. HIDE DEF before, after
<1>4. /\ before \o after \in Seq(SequencedAircraft) /\ Len(before \o after) = n - 1
      /\ \A i \in 1..(n - 1) :
            (before \o after)[i] = IF i < p THEN before[i] ELSE after[i - (p - 1)]
  <2>1. /\ before \o after \in Seq(SequencedAircraft) /\ Len(before \o after) = Len(before) + Len(after)
        /\ \A i \in 1..(Len(before) + Len(after)) :
              (before \o after)[i] = IF i <= Len(before) THEN before[i] ELSE after[i - Len(before)]
    BY <1>2, <1>3, ConcatProperties
  <2>2. Len(before) + Len(after) = n - 1 /\ \A i \in 1..(n - 1) : i <= p - 1 <=> i < p
    BY <1>1, <1>2, <1>3
  <2>. QED
    BY <1>2, <2>1, <2>2
<1>5. ASSUME NEW i \in 1..(n - 1), ~(i < p) PROVE after[i - (p - 1)] = list[i + 1]
  <2>1. i - (p - 1) \in 1..(n - p) /\ p + (i - (p - 1)) = i + 1
    BY <1>1, <1>5
  <2>. QED
    BY <1>3, <2>1
<1>6. ASSUME NEW i \in 1..(n - 1), i < p PROVE before[i] = list[i]
  BY <1>1, <1>2, <1>6
<1>7. RemoveAt(list, p) = before \o after
  BY DEF RemoveAt, before, after
<1>. QED
  BY <1>4, <1>5, <1>6, <1>7

\* RemoveAircraft: the list closes up, and the aircraft is in no list.
LEMMA SequencedRemoved ==
    ASSUME NEW d, NEW s, WellLinked(s, d), NEW f \in SequenceAirfields, NEW a \in SequencedAircraft,
           ~NotIn(s.lists[f], a)
    PROVE  WellLinked(RemoveAircraft(s, f, a), d) /\ Apart(RemoveAircraft(s, f, a), a)
<1>. DEFINE list == s.lists[f]
            n == Len(list)
            r == RemoveAircraft(s, f, a)
<1>1. PICK p \in 1..n : list[p] = a
  BY DEF NotIn
<1>2. /\ list \in Seq(SequencedAircraft) /\ n \in Nat /\ LinksTyped(s)
      /\ ListLinked(list, s.next, s.prev, d, f)
      /\ \A i \in 1..n : list[i] \in SequencedAircraft
  BY LenProperties, ElementOfSeq DEF WellLinked, LinksTyped
<1>3. PlaceOf(list, a) = p
  BY <1>1, <1>2, PlaceFound DEF ListLinked
<1>. DEFINE rest == RemoveAt(list, p)
<1>4. RemoveFirst(list, a) = rest
  BY <1>1, <1>3 DEF RemoveFirst, PlaceOf
<1>5. /\ rest \in Seq(SequencedAircraft) /\ Len(rest) = n - 1
      /\ \A i \in 1..(n - 1) : rest[i] = IF i < p THEN list[i] ELSE list[i + 1]
  BY <1>1, <1>2, ListWithout
<1>6. s.next[a] = NextIn(list, p) /\ s.prev[a] = PrevIn(list, p) /\ s.next[a] \in Link /\ s.prev[a] \in Link
  BY <1>1, <1>2 DEF ListLinked, LinksTyped
<1>7. r = [lists |-> [s.lists EXCEPT ![f] = RemoveFirst(list, a)],
           next  |-> SetLink(SetLink(s.next, s.prev[a], s.next[a]), a, NoLink),
           prev  |-> SetLink(SetLink(s.prev, s.next[a], s.prev[a]), a, NoLink)]
  BY DEF RemoveAircraft
<1>. HIDE DEF r
<1>8. LinksTyped(r) /\ r.lists[f] = rest /\ \A g \in SequenceAirfields \ {f} : r.lists[g] = s.lists[g]
  BY <1>2, <1>4, <1>5, <1>6, <1>7, LinkTyped DEF LinksTyped, Link
<1>9. ASSUME NEW x \in SequencedAircraft
      PROVE  /\ r.next[x] = IF x = a THEN NoLink ELSE IF x = s.prev[a] THEN s.next[a] ELSE s.next[x]
             /\ r.prev[x] = IF x = a THEN NoLink ELSE IF x = s.next[a] THEN s.prev[a] ELSE s.prev[x]
  <2>. DEFINE next == s.next
              prev == s.prev
              behind == s.next[a]
              ahead == s.prev[a]
  <2>1. /\ a \in Link /\ NoLink \in Link /\ behind \in Link /\ ahead \in Link
        /\ next \in [SequencedAircraft -> Link] /\ prev \in [SequencedAircraft -> Link]
    BY <1>2, <1>6 DEF LinksTyped, Link
  <2>2. /\ r.next = SetLink(SetLink(next, ahead, behind), a, NoLink)
        /\ r.prev = SetLink(SetLink(prev, behind, ahead), a, NoLink)
    BY <1>7
  <2>. HIDE DEF next, prev, behind, ahead
  <2>3. r.next[x] = IF x = a THEN NoLink ELSE IF x = ahead THEN behind ELSE next[x]
    <3>1. SetLink(SetLink(next, ahead, behind), a, NoLink)[x] =
             IF x = a THEN NoLink ELSE IF x = ahead THEN behind ELSE next[x]
      BY <2>1, ApproachAssumption DEF SetLink, Link
    <3>. QED
      BY <2>2, <3>1
  <2>4. r.prev[x] = IF x = a THEN NoLink ELSE IF x = behind THEN ahead ELSE prev[x]
    <3>1. SetLink(SetLink(prev, behind, ahead), a, NoLink)[x] =
             IF x = a THEN NoLink ELSE IF x = behind THEN ahead ELSE prev[x]
      BY <2>1, ApproachAssumption DEF SetLink, Link
    <3>. QED
      BY <2>2, <3>1
  <2>. QED
    BY <2>3, <2>4 DEF next, prev, behind, ahead
<1>. HIDE DEF rest, list
<1>10. NoLink \notin SequencedAircraft
  BY ApproachAssumption
<1>11. \A i, j \in 1..n : list[i] = list[j] => i = j
  BY <1>2 DEF ListLinked
<1>12. ASSUME NEW k \in 1..n, k # p
       PROVE  /\ r.next[list[k]] = IF k = p - 1 THEN NextIn(list, p) ELSE NextIn(list, k)
              /\ r.prev[list[k]] = IF k = p + 1 THEN PrevIn(list, p) ELSE PrevIn(list, k)
  <2>1. list[k] \in SequencedAircraft /\ list[k] # a
        /\ s.next[list[k]] = NextIn(list, k) /\ s.prev[list[k]] = PrevIn(list, k)
    BY <1>1, <1>2, <1>11, <1>12 DEF ListLinked
  <2>2. list[k] = s.prev[a] <=> k = p - 1
    <3>1. CASE p = 1
      BY <1>2, <1>6, <1>10, <2>1, <3>1 DEF PrevIn
    <3>2. CASE p # 1
      <4>1. p - 1 \in 1..n
        BY <1>2, <3>2
      <4>2. s.prev[a] = list[p - 1]
        BY <1>6, <3>2 DEF PrevIn
      <4>. QED
        BY <1>11, <4>1, <4>2
    <3>. QED
      BY <3>1, <3>2
  <2>3. list[k] = s.next[a] <=> k = p + 1
    <3>1. CASE p = n
      BY <1>2, <1>6, <1>10, <2>1, <3>1 DEF NextIn
    <3>2. CASE p # n
      <4>1. p + 1 \in 1..n
        BY <1>2, <3>2
      <4>2. s.next[a] = list[p + 1]
        BY <1>6, <3>2 DEF NextIn
      <4>. QED
        BY <1>11, <4>1, <4>2
    <3>. QED
      BY <3>1, <3>2
  <2>. QED
    BY <1>6, <1>9, <2>1, <2>2, <2>3
<1>13. ASSUME NEW i \in 1..(n - 1)
       PROVE  d[rest[i]] = f /\ r.next[rest[i]] = NextIn(rest, i) /\ r.prev[rest[i]] = PrevIn(rest, i)
  <2>1. CASE i < p
    <3>1. i \in 1..n /\ i # p /\ i # p + 1 /\ rest[i] = list[i]
      BY <1>1, <1>2, <1>5, <2>1
    <3>2. NextIn(rest, i) = IF i = p - 1 THEN NextIn(list, p) ELSE NextIn(list, i)
      BY <1>1, <1>2, <1>5, <2>1 DEF NextIn
    <3>3. PrevIn(rest, i) = PrevIn(list, i)
      BY <1>1, <1>2, <1>5, <2>1 DEF PrevIn
    <3>4. /\ r.next[list[i]] = IF i = p - 1 THEN NextIn(list, p) ELSE NextIn(list, i)
          /\ r.prev[list[i]] = PrevIn(list, i)
      BY <1>12, <3>1
    <3>5. d[list[i]] = f
      BY <1>2, <3>1 DEF ListLinked
    <3>. QED
      BY <3>1, <3>2, <3>3, <3>4, <3>5
  <2>2. CASE ~(i < p)
    <3>1. i + 1 \in 1..n /\ i + 1 # p /\ i + 1 # p - 1 /\ rest[i] = list[i + 1]
      BY <1>1, <1>2, <1>5, <2>2
    <3>2. NextIn(rest, i) = NextIn(list, i + 1)
      BY <1>1, <1>2, <1>5, <2>2 DEF NextIn
    <3>3. IF i + 1 = p + 1 THEN PrevIn(rest, i) = PrevIn(list, p) ELSE PrevIn(rest, i) = PrevIn(list, i + 1)
      BY <1>1, <1>2, <1>5, <2>2 DEF PrevIn
    <3>4. /\ r.next[list[i + 1]] = NextIn(list, i + 1)
          /\ r.prev[list[i + 1]] = IF i + 1 = p + 1 THEN PrevIn(list, p) ELSE PrevIn(list, i + 1)
      BY <1>12, <3>1
    <3>5. d[list[i + 1]] = f
      BY <1>2, <3>1 DEF ListLinked
    <3>. QED
      BY <3>1, <3>2, <3>3, <3>4, <3>5
  <2>. QED
    BY <2>1, <2>2
<1>14. ASSUME NEW i \in 1..(n - 1), NEW j \in 1..(n - 1), rest[i] = rest[j] PROVE i = j
  <2>. DEFINE q(k) == IF k < p THEN k ELSE k + 1
  <2>1. q(i) \in 1..n /\ q(j) \in 1..n /\ (q(i) = q(j) => i = j)
    BY <1>2
  <2>2. rest[i] = list[q(i)] /\ rest[j] = list[q(j)]
    BY <1>5
  <2>. HIDE DEF q
  <2>. QED
    BY <1>11, <1>14, <2>1, <2>2
<1>15. ListLinked(rest, r.next, r.prev, d, f)
  BY <1>5, <1>13, <1>14 DEF ListLinked
<1>16. \A i \in 1..(n - 1) : rest[i] # a
  BY <1>1, <1>2, <1>5, <1>11
<1>17. ASSUME NEW x \in SequencedAircraft, NotIn(rest, x), x # a
       PROVE  NotIn(list, x) /\ r.next[x] = s.next[x] /\ r.prev[x] = s.prev[x]
  <2>1. NotIn(list, x)
    <3>. SUFFICES ASSUME NEW k \in 1..n, list[k] = x PROVE FALSE
      BY DEF NotIn
    <3>1. k # p
      BY <1>1, <1>17
    <3>2. CASE k < p
      <4>1. k \in 1..(n - 1)
        BY <1>2, <3>2
      <4>2. rest[k] = list[k]
        BY <1>5, <3>2, <4>1
      <4>. QED
        BY <1>5, <1>17, <4>1, <4>2 DEF NotIn
    <3>3. CASE k > p
      <4>1. k - 1 \in 1..(n - 1) /\ ~(k - 1 < p) /\ (k - 1) + 1 = k
        BY <1>2, <3>3
      <4>2. rest[k - 1] = list[k]
        BY <1>5, <4>1
      <4>. QED
        BY <1>5, <1>17, <4>1, <4>2 DEF NotIn
    <3>. QED
      BY <1>2, <3>1, <3>2, <3>3
  <2>2. x # s.next[a] /\ x # s.prev[a]
    BY <1>1, <1>2, <1>6, <1>10, <2>1 DEF NextIn, PrevIn, NotIn
  <2>. QED
    BY <1>9, <1>17, <2>1, <2>2
<1>18. r.next[a] = NoLink /\ r.prev[a] = NoLink /\ ~NotIn(list, a)
  BY <1>1, <1>9 DEF NotIn
<1>19. WellLinked(r, d)
  <2>1. \A x \in SequencedAircraft :
           NotIn(r.lists[f], x) =>
              IF NotIn(s.lists[f], x) THEN r.next[x] = s.next[x] /\ r.prev[x] = s.prev[x]
              ELSE r.next[x] = NoLink /\ r.prev[x] = NoLink
    BY <1>8, <1>17, <1>18 DEF list
  <2>. QED
    BY <1>8, <1>15, <2>1, OneListRelinked
<1>20. Apart(r, a)
  <2>1. NotIn(rest, a)
    BY <1>5, <1>16 DEF NotIn
  <2>2. d[a] = f
    BY <1>1, <1>2 DEF ListLinked
  <2>3. ASSUME NEW g \in SequenceAirfields, g # f PROVE NotIn(s.lists[g], a)
    BY <2>2, <2>3 DEF NotIn, WellLinked, ListLinked
  <2>. QED
    BY <1>8, <2>1, <2>3 DEF Apart
<1>. QED
  BY <1>19, <1>20 DEF r

\* An aircraft takes the p-th place of a list.
InsertedAt(s, r, f, a, p) ==
    LET list == s.lists[f]
        n == Len(list)
        before == IF p = 1 THEN NoLink ELSE list[p - 1]
        after == IF p = n + 1 THEN NoLink ELSE list[p]
    IN  /\ LinksTyped(r)
        /\ \A g \in SequenceAirfields \ {f} : r.lists[g] = s.lists[g]
        /\ Len(r.lists[f]) = n + 1
        /\ \A i \in 1..(n + 1) :
              r.lists[f][i] = IF i < p THEN list[i] ELSE IF i = p THEN a ELSE list[i - 1]
        /\ \A x \in SequencedAircraft :
              /\ r.next[x] = IF x = a THEN after ELSE IF x = before THEN a ELSE s.next[x]
              /\ r.prev[x] = IF x = a THEN before ELSE IF x = after THEN a ELSE s.prev[x]

\* One of no list, in its destination's
LEMMA SequencedInserted ==
    ASSUME NEW d, NEW s, WellLinked(s, d), NEW f \in SequenceAirfields, NEW a \in SequencedAircraft,
           Apart(s, a), d[a] = f,
           NEW n \in Nat, n = Len(s.lists[f]), NEW p \in 1..(n + 1), NEW r, InsertedAt(s, r, f, a, p)
    PROVE  WellLinked(r, d)
<1>. DEFINE before == IF p = 1 THEN NoLink ELSE s.lists[f][p - 1]
            after == IF p = n + 1 THEN NoLink ELSE s.lists[f][p]
<1>0. /\ LinksTyped(r) /\ \A g \in SequenceAirfields \ {f} : r.lists[g] = s.lists[g]
      /\ Len(r.lists[f]) = n + 1
      /\ \A i \in 1..(n + 1) :
            r.lists[f][i] = IF i < p THEN s.lists[f][i] ELSE IF i = p THEN a ELSE s.lists[f][i - 1]
      /\ \A x \in SequencedAircraft :
            /\ r.next[x] = IF x = a THEN after ELSE IF x = before THEN a ELSE s.next[x]
            /\ r.prev[x] = IF x = a THEN before ELSE IF x = after THEN a ELSE s.prev[x]
  BY DEF InsertedAt
<1>. DEFINE list == s.lists[f]
            more == r.lists[f]
<1>1. /\ list \in Seq(SequencedAircraft) /\ LinksTyped(s)
      /\ ListLinked(list, s.next, s.prev, d, f)
      /\ \A i \in 1..n : list[i] \in SequencedAircraft
      /\ NotIn(list, a)
  BY LenProperties, ElementOfSeq DEF WellLinked, LinksTyped, Apart
<1>2. /\ Len(more) = n + 1 /\ Len(list) = n
      /\ \A i \in 1..(n + 1) : more[i] = IF i < p THEN list[i] ELSE IF i = p THEN a ELSE list[i - 1]
      /\ before = IF p = 1 THEN NoLink ELSE list[p - 1]
      /\ after = IF p = n + 1 THEN NoLink ELSE list[p]
  BY <1>0
<1>3. NoLink \notin SequencedAircraft
  BY ApproachAssumption
<1>. HIDE DEF list, more, before, after
<1>4. /\ \A i, j \in 1..n : list[i] = list[j] => i = j
      /\ \A i \in 1..n : /\ d[list[i]] = f /\ list[i] # a
                         /\ s.next[list[i]] = NextIn(list, i) /\ s.prev[list[i]] = PrevIn(list, i)
  BY <1>1, <1>2 DEF ListLinked, NotIn
<1>5. ASSUME NEW k \in 1..n
      PROVE  /\ r.next[list[k]] = IF k = p - 1 THEN a ELSE NextIn(list, k)
             /\ r.prev[list[k]] = IF k = p THEN a ELSE PrevIn(list, k)
  <2>1. list[k] = before <=> k = p - 1
    <3>1. CASE p = 1
      BY <1>1, <1>2, <1>3, <3>1
    <3>2. CASE p # 1
      <4>1. p - 1 \in 1..n /\ before = list[p - 1]
        BY <1>2, <3>2
      <4>. QED
        BY <1>4, <4>1
    <3>. QED
      BY <3>1, <3>2
  <2>2. list[k] = after <=> k = p
    <3>1. CASE p = n + 1
      BY <1>1, <1>2, <1>3, <3>1
    <3>2. CASE p # n + 1
      <4>1. p \in 1..n /\ after = list[p]
        BY <1>2, <3>2
      <4>. QED
        BY <1>4, <4>1
    <3>. QED
      BY <3>1, <3>2
  <2>. QED
    BY <1>0, <1>1, <1>4, <2>1, <2>2
<1>6. ASSUME NEW i \in 1..(n + 1)
      PROVE  d[more[i]] = f /\ r.next[more[i]] = NextIn(more, i) /\ r.prev[more[i]] = PrevIn(more, i)
  <2>1. CASE i < p
    <3>1. i \in 1..n /\ i # p /\ more[i] = list[i]
      BY <1>2, <2>1
    <3>2. NextIn(more, i) = IF i = p - 1 THEN a ELSE NextIn(list, i)
      BY <1>2, <2>1 DEF NextIn
    <3>3. PrevIn(more, i) = PrevIn(list, i)
      BY <1>2, <2>1 DEF PrevIn
    <3>4. /\ r.next[list[i]] = IF i = p - 1 THEN a ELSE NextIn(list, i)
          /\ r.prev[list[i]] = PrevIn(list, i) /\ d[list[i]] = f
      BY <1>4, <1>5, <3>1
    <3>. QED
      BY <3>1, <3>2, <3>3, <3>4
  <2>2. CASE i = p
    <3>1. more[i] = a /\ r.next[a] = after /\ r.prev[a] = before
      BY <1>0, <1>2, <2>2
    <3>2. NextIn(more, i) = after
      <4>1. CASE p = n + 1
        BY <1>2, <2>2, <4>1 DEF NextIn
      <4>2. CASE p # n + 1
        <5>1. p + 1 \in 1..(n + 1) /\ ~(p + 1 < p) /\ p + 1 # p /\ (p + 1) - 1 = p
          BY <4>2
        <5>2. more[p + 1] = list[p]
          BY <1>2, <5>1
        <5>. QED
          BY <1>2, <2>2, <4>2, <5>2 DEF NextIn
      <4>. QED
        BY <4>1, <4>2
    <3>3. PrevIn(more, i) = before
      <4>1. CASE p = 1
        BY <1>2, <2>2, <4>1 DEF PrevIn
      <4>2. CASE p # 1
        <5>1. p - 1 \in 1..(n + 1) /\ p - 1 < p
          BY <4>2
        <5>2. more[p - 1] = list[p - 1]
          BY <1>2, <5>1
        <5>. QED
          BY <1>2, <2>2, <4>2, <5>2 DEF PrevIn
      <4>. QED
        BY <4>1, <4>2
    <3>. QED
      BY <3>1, <3>2, <3>3
  <2>3. CASE i > p
    <3>1. i - 1 \in 1..n /\ i - 1 # p - 1 /\ more[i] = list[i - 1]
      BY <1>2, <2>3
    <3>2. NextIn(more, i) = NextIn(list, i - 1)
      <4>1. CASE i = n + 1
        BY <1>2, <4>1 DEF NextIn
      <4>2. CASE i # n + 1
        <5>1. i + 1 \in 1..(n + 1) /\ ~(i + 1 < p) /\ i + 1 # p /\ (i + 1) - 1 = (i - 1) + 1 /\ i - 1 # n
          BY <2>3, <4>2
        <5>2. more[i + 1] = list[(i - 1) + 1]
          BY <1>2, <5>1
        <5>. QED
          BY <1>2, <4>2, <5>1, <5>2 DEF NextIn
      <4>. QED
        BY <4>1, <4>2
    <3>3. PrevIn(more, i) = IF i - 1 = p THEN a ELSE PrevIn(list, i - 1)
      <4>1. i - 1 \in 1..(n + 1) /\ ~(i - 1 < p) /\ i # 1 /\ (i - 1 # p => i - 1 # 1)
        BY <2>3
      <4>2. more[i - 1] = IF i - 1 = p THEN a ELSE list[(i - 1) - 1]
        BY <1>2, <4>1
      <4>. QED
        BY <4>1, <4>2 DEF PrevIn
    <3>4. /\ r.next[list[i - 1]] = NextIn(list, i - 1)
          /\ r.prev[list[i - 1]] = IF i - 1 = p THEN a ELSE PrevIn(list, i - 1)
          /\ d[list[i - 1]] = f
      BY <1>4, <1>5, <3>1
    <3>. QED
      BY <3>1, <3>2, <3>3, <3>4
  <2>. QED
    BY <2>1, <2>2, <2>3
<1>7. ASSUME NEW i \in 1..(n + 1), NEW j \in 1..(n + 1), more[i] = more[j] PROVE i = j
  <2>. DEFINE q(k) == IF k < p THEN k ELSE k - 1
  <2>1. /\ i # p => q(i) \in 1..n
        /\ j # p => q(j) \in 1..n
        /\ i # p /\ j # p /\ q(i) = q(j) => i = j
    OBVIOUS
  <2>2. /\ more[i] = IF i = p THEN a ELSE list[q(i)]
        /\ more[j] = IF j = p THEN a ELSE list[q(j)]
    BY <1>2
  <2>3. (i # p => list[q(i)] # a) /\ (j # p => list[q(j)] # a)
    BY <1>4, <2>1
  <2>4. CASE i = p \/ j = p
    BY <1>7, <2>2, <2>3, <2>4
  <2>5. CASE i # p /\ j # p
    <3>1. list[q(i)] = list[q(j)] => q(i) = q(j)
      BY <1>4, <2>1, <2>5
    <3>. QED
      BY <1>7, <2>1, <2>2, <2>5, <3>1
  <2>. QED
    BY <2>4, <2>5
<1>8. ListLinked(more, r.next, r.prev, d, f)
  BY <1>2, <1>6, <1>7 DEF ListLinked
<1>9. ASSUME NEW x \in SequencedAircraft, NotIn(more, x)
      PROVE  NotIn(list, x) /\ x # a /\ r.next[x] = s.next[x] /\ r.prev[x] = s.prev[x]
  <2>1. x # a
    <3>1. more[p] = a
      BY <1>2
    <3>. QED
      BY <1>2, <1>9, <3>1 DEF NotIn
  <2>2. ASSUME NEW k \in 1..n PROVE list[k] # x
    <3>1. CASE k < p
      <4>1. k \in 1..(n + 1) /\ more[k] = list[k]
        BY <1>2, <3>1
      <4>. QED
        BY <1>2, <1>9, <4>1 DEF NotIn
    <3>2. CASE ~(k < p)
      <4>1. k + 1 \in 1..(n + 1) /\ ~(k + 1 < p) /\ k + 1 # p /\ (k + 1) - 1 = k
        BY <3>2
      <4>2. more[k + 1] = list[k]
        BY <1>2, <4>1
      <4>. QED
        BY <1>2, <1>9, <4>1, <4>2 DEF NotIn
    <3>. QED
      BY <3>1, <3>2
  <2>3. NotIn(list, x)
    BY <1>2, <2>2 DEF NotIn
  <2>4. x # before
    <3>1. CASE p = 1
      BY <1>2, <1>3, <3>1
    <3>2. CASE p # 1
      <4>1. p - 1 \in 1..n /\ before = list[p - 1]
        BY <1>2, <3>2
      <4>. QED
        BY <2>2, <4>1
    <3>. QED
      BY <3>1, <3>2
  <2>5. x # after
    <3>1. CASE p = n + 1
      BY <1>2, <1>3, <3>1
    <3>2. CASE p # n + 1
      <4>1. p \in 1..n /\ after = list[p]
        BY <1>2, <3>2
      <4>. QED
        BY <2>2, <4>1
    <3>. QED
      BY <3>1, <3>2
  <2>. QED
    BY <1>0, <2>1, <2>3, <2>4, <2>5
<1>10. \A x \in SequencedAircraft :
         NotIn(r.lists[f], x) =>
            IF NotIn(s.lists[f], x) THEN r.next[x] = s.next[x] /\ r.prev[x] = s.prev[x]
            ELSE r.next[x] = NoLink /\ r.prev[x] = NoLink
  BY <1>9 DEF list, more
<1>11. ListLinked(r.lists[f], r.next, r.prev, d, f)
  BY <1>8 DEF more
<1>. QED
  BY <1>0, <1>10, <1>11, OneListRelinked

\* AddAircraftToSequence's own part
LEMMA SequencedLast ==
    ASSUME NEW d, NEW s, WellLinked(s, d), NEW f \in SequenceAirfields, NEW a \in SequencedAircraft,
           Apart(s, a), d[a] = f
    PROVE  WellLinked(AddLast(s, f, a), d)
<1>. DEFINE list == s.lists[f]
            r == AddLast(s, f, a)
            next == s.next
            prev == s.prev
<1>1. /\ list \in Seq(SequencedAircraft) /\ Len(list) \in Nat /\ LinksTyped(s)
      /\ \A i \in 1..Len(list) : list[i] \in SequencedAircraft
  BY LenProperties, ElementOfSeq DEF WellLinked, LinksTyped
<1>. PICK n \in Nat : n = Len(list)
  BY <1>1
<1>. DEFINE last == IF n = 0 THEN NoLink ELSE list[n]
<1>2. last = IF list = <<>> THEN NoLink ELSE Last(list)
  BY <1>1, EmptySeq DEF Last
<1>3. last \in Link /\ a \in Link /\ NoLink \in Link
  BY <1>1 DEF Link
<1>4. r = [lists |-> [s.lists EXCEPT ![f] = Append(list, a)],
           next  |-> SetLink(SetLink(next, a, NoLink), last, a),
           prev  |-> SetLink(prev, a, last)]
  BY <1>2 DEF AddLast
<1>5. /\ Append(list, a) \in Seq(SequencedAircraft) /\ Len(Append(list, a)) = n + 1
      /\ \A i \in 1..(n + 1) : Append(list, a)[i] = IF i < n + 1 THEN list[i] ELSE a
  BY <1>1, AppendProperties
<1>6. next \in [SequencedAircraft -> Link] /\ prev \in [SequencedAircraft -> Link]
      /\ s.lists \in [SequenceAirfields -> Seq(SequencedAircraft)]
  BY <1>1 DEF LinksTyped
<1>. DEFINE more == Append(list, a)
<1>. HIDE DEF r, last, next, prev, more
<1>7. LinksTyped(r)
  BY <1>3, <1>4, <1>5, <1>6, LinkTyped DEF LinksTyped, more
<1>8. r.lists[f] = more /\ \A g \in SequenceAirfields \ {f} : r.lists[g] = s.lists[g]
  BY <1>4, <1>6 DEF more
<1>9. \A i \in 1..(n + 1) : more[i] = IF i < n + 1 THEN list[i] ELSE IF i = n + 1 THEN a ELSE list[i - 1]
  BY <1>5 DEF more
<1>10. ASSUME NEW x \in SequencedAircraft
       PROVE  /\ r.next[x] = IF x = a THEN NoLink ELSE IF x = last THEN a ELSE next[x]
              /\ r.prev[x] = IF x = a THEN last ELSE IF x = NoLink THEN a ELSE prev[x]
  <2>1. NotIn(list, a) /\ (n > 0 => n \in 1..Len(list))
    BY DEF Apart
  <2>2. a # last
    BY <1>1, <2>1, ApproachAssumption DEF NotIn, last
  <2>3. SetLink(SetLink(next, a, NoLink), last, a)[x] = IF x = a THEN NoLink ELSE IF x = last THEN a ELSE next[x]
    BY <1>3, <1>6, <2>2, ApproachAssumption DEF SetLink, Link
  <2>4. SetLink(prev, a, last)[x] = IF x = a THEN last ELSE prev[x]
    BY <1>3, <1>6, ApproachAssumption DEF SetLink, Link
  <2>. QED
    BY <1>4, <2>3, <2>4, ApproachAssumption
<1>11. last = IF n + 1 = 1 THEN NoLink ELSE list[(n + 1) - 1]
  BY DEF last
<1>12. /\ NoLink = IF n + 1 = n + 1 THEN NoLink ELSE list[n + 1]
       /\ Len(r.lists[f]) = n + 1
  BY <1>5, <1>8 DEF more
<1>13. \A i \in 1..(n + 1) :
          r.lists[f][i] = IF i < n + 1 THEN list[i] ELSE IF i = n + 1 THEN a ELSE list[i - 1]
  BY <1>8, <1>9
<1>14. InsertedAt(s, r, f, a, n + 1)
  BY <1>7, <1>8, <1>10, <1>11, <1>12, <1>13 DEF InsertedAt, next, prev
<1>15. n + 1 \in 1..(n + 1)
  OBVIOUS
<1>. QED
  BY <1>14, <1>15, SequencedInserted DEF r

\* A list with an element before its p-th
LEMMA ListWith ==
    ASSUME NEW list \in Seq(SequencedAircraft), NEW p \in 1..Len(list), NEW a \in SequencedAircraft
    PROVE  /\ InsertAt(list, p, a) \in Seq(SequencedAircraft)
           /\ Len(InsertAt(list, p, a)) = Len(list) + 1
           /\ \A i \in 1..(Len(list) + 1) :
                 InsertAt(list, p, a)[i] = IF i < p THEN list[i] ELSE IF i = p THEN a ELSE list[i - 1]
<1>. PICK n \in Nat : n = Len(list)
  BY LenProperties
<1>0. p \in 1..n
  OBVIOUS
<1>. DEFINE before == SubSeq(list, 1, p - 1)
            one == <<a>>
            after == SubSeq(list, p, n)
            front == before \o one
<1>1. \A i \in 1..n : list[i] \in SequencedAircraft
  BY ElementOfSeq
<1>2. /\ before \in Seq(SequencedAircraft) /\ Len(before) = p - 1
      /\ \A i \in 1..(p - 1) : before[i] = list[i]
  BY <1>0, <1>1, SubSeqProperties
<1>3. /\ after \in Seq(SequencedAircraft) /\ Len(after) = n - p + 1
      /\ \A i \in 1..(n - p + 1) : after[i] = list[p + i - 1]
  BY <1>0, <1>1, SubSeqProperties
<1>4. one \in Seq(SequencedAircraft) /\ Len(one) = 1 /\ one[1] = a
  OBVIOUS
<1>5. InsertAt(list, p, a) = front \o after
  BY DEF InsertAt
<1>. HIDE DEF before, one, after
<1>6. /\ front \in Seq(SequencedAircraft) /\ Len(front) = p
      /\ \A i \in 1..p : front[i] = IF i < p THEN list[i] ELSE a
  <2>1. /\ front \in Seq(SequencedAircraft) /\ Len(front) = Len(before) + Len(one)
        /\ \A i \in 1..(Len(before) + Len(one)) :
              front[i] = IF i <= Len(before) THEN before[i] ELSE one[i - Len(before)]
    BY <1>2, <1>4, ConcatProperties
  <2>2. Len(before) + Len(one) = p
    BY <1>2, <1>4
  <2>3. ASSUME NEW i \in 1..p PROVE front[i] = IF i < p THEN list[i] ELSE a
    <3>1. CASE i < p
      BY <1>2, <2>1, <2>2, <3>1
    <3>2. CASE i = p
      <4>1. ~(i <= Len(before)) /\ i - Len(before) = 1 /\ i \in 1..(Len(before) + Len(one))
        BY <1>2, <1>4, <3>2
      <4>2. front[i] = one[i - Len(before)]
        BY <2>1, <4>1
      <4>. QED
        BY <1>4, <3>2, <4>1, <4>2
    <3>3. i < p \/ i = p
      OBVIOUS
    <3>. QED
      BY <3>1, <3>2, <3>3, Zenon
  <2>. QED
    BY <2>1, <2>2, <2>3
<1>. HIDE DEF front
<1>7. /\ front \o after \in Seq(SequencedAircraft) /\ Len(front \o after) = Len(front) + Len(after)
      /\ \A i \in 1..(Len(front) + Len(after)) :
            (front \o after)[i] = IF i <= Len(front) THEN front[i] ELSE after[i - Len(front)]
  BY <1>3, <1>6, ConcatProperties
<1>8. Len(front) + Len(after) = n + 1
  BY <1>3, <1>6
<1>9. ASSUME NEW i \in 1..(n + 1), i > p PROVE after[i - p] = list[i - 1]
  <2>1. i - p \in 1..(n - p + 1) /\ p + (i - p) - 1 = i - 1
    BY <1>9
  <2>. QED
    BY <1>3, <2>1
<1>10. ASSUME NEW i \in 1..(n + 1)
       PROVE  (front \o after)[i] = IF i < p THEN list[i] ELSE IF i = p THEN a ELSE list[i - 1]
  <2>0. (front \o after)[i] = IF i <= p THEN front[i] ELSE after[i - p]
    BY <1>6, <1>7, <1>8
  <2>1. CASE i <= p
    BY <1>6, <2>0, <2>1
  <2>2. CASE i > p
    BY <1>9, <2>0, <2>2
  <2>3. i <= p \/ i > p
    OBVIOUS
  <2>. QED
    BY <2>1, <2>2, <2>3, Zenon
<1>. QED
  BY <1>5, <1>7, <1>8, <1>10

\* AddAircraftToSequence before another
LEMMA SequencedBefore ==
    ASSUME NEW d, NEW s, WellLinked(s, d), NEW f \in SequenceAirfields, NEW a \in SequencedAircraft,
           Apart(s, a), d[a] = f, NEW b, ~NotIn(s.lists[f], b)
    PROVE  WellLinked(AddBefore(s, f, a, b), d)
<1>. DEFINE list == s.lists[f]
            r == AddBefore(s, f, a, b)
            next == s.next
            prev == s.prev
<1>1. /\ list \in Seq(SequencedAircraft) /\ Len(list) \in Nat /\ LinksTyped(s)
      /\ \A i \in 1..Len(list) : list[i] \in SequencedAircraft
      /\ ListLinked(list, next, prev, d, f)
  BY LenProperties, ElementOfSeq DEF WellLinked, LinksTyped
<1>. PICK n \in Nat : n = Len(list)
  BY <1>1
<1>2. PICK p \in 1..n : list[p] = b
  BY DEF NotIn
<1>3. PlaceOf(list, b) = p
  BY <1>1, <1>2, PlaceFound DEF ListLinked
<1>. DEFINE before == IF p = 1 THEN NoLink ELSE list[p - 1]
            more == InsertAt(list, p, a)
<1>4. prev[b] = before /\ b \in SequencedAircraft
  BY <1>1, <1>2 DEF ListLinked, PrevIn
<1>5. before \in Link /\ a \in Link /\ b \in Link
  <2>1. CASE p = 1
    BY <1>4, <2>1 DEF Link
  <2>2. CASE p # 1
    <3>1. p - 1 \in 1..n
      BY <2>2
    <3>. QED
      BY <1>1, <1>4, <2>2, <3>1 DEF Link
  <2>. QED
    BY <2>1, <2>2
<1>6. r = [lists |-> [s.lists EXCEPT ![f] = more],
           next  |-> SetLink(SetLink(next, before, a), a, b),
           prev  |-> SetLink(SetLink(prev, a, before), b, a)]
  BY <1>3, <1>4 DEF AddBefore
<1>. HIDE DEF r, before, next, prev, list
<1>7. /\ more \in Seq(SequencedAircraft) /\ Len(more) = n + 1
      /\ \A i \in 1..(n + 1) : more[i] = IF i < p THEN list[i] ELSE IF i = p THEN a ELSE list[i - 1]
  <2>1. list \in Seq(SequencedAircraft) /\ p \in 1..Len(list)
    BY <1>1
  <2>2. /\ InsertAt(list, p, a) \in Seq(SequencedAircraft)
        /\ Len(InsertAt(list, p, a)) = Len(list) + 1
        /\ \A i \in 1..(Len(list) + 1) :
              InsertAt(list, p, a)[i] = IF i < p THEN list[i] ELSE IF i = p THEN a ELSE list[i - 1]
    BY <2>1, ListWith, ZenonT(40)
  <2>. QED
    BY <2>2
<1>. HIDE DEF more
<1>8. next \in [SequencedAircraft -> Link] /\ prev \in [SequencedAircraft -> Link]
      /\ s.lists \in [SequenceAirfields -> Seq(SequencedAircraft)]
  BY <1>1 DEF LinksTyped, next, prev
<1>9. a # b
  BY <1>1, <1>2 DEF Apart, NotIn, list
<1>10. LinksTyped(r)
  BY <1>5, <1>6, <1>7, <1>8, LinkTyped DEF LinksTyped
<1>11. r.lists[f] = more /\ \A g \in SequenceAirfields \ {f} : r.lists[g] = s.lists[g]
  BY <1>6, <1>8
<1>12. ASSUME NEW x \in SequencedAircraft
       PROVE  /\ r.next[x] = IF x = a THEN b ELSE IF x = before THEN a ELSE next[x]
              /\ r.prev[x] = IF x = a THEN before ELSE IF x = b THEN a ELSE prev[x]
  <2>1. SetLink(SetLink(next, before, a), a, b)[x] = IF x = a THEN b ELSE IF x = before THEN a ELSE next[x]
    BY <1>5, <1>8, ApproachAssumption DEF SetLink, Link
  <2>2. SetLink(SetLink(prev, a, before), b, a)[x] = IF x = a THEN before ELSE IF x = b THEN a ELSE prev[x]
    BY <1>5, <1>8, <1>9, ApproachAssumption DEF SetLink, Link
  <2>. QED
    BY <1>6, <2>1, <2>2
<1>13. p \in 1..(n + 1) /\ b = IF p = n + 1 THEN NoLink ELSE list[p]
  BY <1>2
<1>14. before = IF p = 1 THEN NoLink ELSE list[p - 1]
  BY DEF before
<1>15. InsertedAt(s, r, f, a, p)
  BY <1>7, <1>10, <1>11, <1>12, <1>13, <1>14 DEF InsertedAt, next, prev, list
<1>. QED
  BY <1>13, <1>15, SequencedInserted DEF r, list

\* MoveAircraftUp and MoveAircraftDown: two neighbours change places.
LEMMA SequencedSwapped ==
    ASSUME NEW d, NEW s, WellLinked(s, d), NEW f \in SequenceAirfields,
           NEW p \in 1..(Len(s.lists[f]) - 1)
    PROVE  WellLinked(Swap(s, f, s.lists[f][p], s.lists[f][p + 1]), d)
<1>. DEFINE list == s.lists[f]
            b == list[p]
            a == list[p + 1]
            r == Swap(s, f, b, a)
            next == s.next
            prev == s.prev
<1>1. /\ list \in Seq(SequencedAircraft) /\ Len(list) \in Nat
      /\ next \in [SequencedAircraft -> Link] /\ prev \in [SequencedAircraft -> Link]
      /\ s.lists \in [SequenceAirfields -> Seq(SequencedAircraft)]
      /\ ListLinked(list, next, prev, d, f)
  BY LenProperties DEF WellLinked, LinksTyped
<1>. PICK n \in Nat : n = Len(list)
  BY <1>1
<1>. DEFINE first == IF p = 1 THEN NoLink ELSE list[p - 1]
            last == IF p + 1 = n THEN NoLink ELSE list[p + 2]
            m == [list EXCEPT ![p] = a, ![p + 1] = b]
<1>2. p \in 1..n /\ p + 1 \in 1..n /\ p + 1 <= n
  OBVIOUS
<1>. HIDE DEF list
<1>3. /\ \A i \in 1..n : list[i] \in SequencedAircraft
      /\ \A i, j \in 1..n : list[i] = list[j] => i = j
      /\ \A i \in 1..n : d[list[i]] = f /\ next[list[i]] = NextIn(list, i) /\ prev[list[i]] = PrevIn(list, i)
  BY <1>1, ElementOfSeq DEF ListLinked
<1>4. PlaceOf(list, b) = p
  BY <1>1, <1>2, <1>3, PlaceFound
<1>5. prev[b] = first /\ next[a] = last
  <2>1. (p + 1) + 1 = p + 2
    OBVIOUS
  <2>. QED
    BY <1>2, <1>3, <2>1 DEF NextIn, PrevIn
<1>6. r = [lists |-> [s.lists EXCEPT ![f] = m],
           next  |-> SetLink(SetLink(SetLink(next, first, a), a, b), b, last),
           prev  |-> SetLink(SetLink(SetLink(prev, a, first), b, a), last, b)]
  BY <1>4, <1>5 DEF Swap, list
<1>7. /\ m \in Seq(SequencedAircraft) /\ Len(m) = n
      /\ \A i \in 1..n : m[i] = IF i = p THEN a ELSE IF i = p + 1 THEN b ELSE list[i]
  <2>. DEFINE once == [list EXCEPT ![p] = a]
  <2>1. /\ once \in Seq(SequencedAircraft) /\ Len(once) = n
        /\ \A j \in 1..n : once[j] = IF j = p THEN a ELSE list[j]
    BY <1>1, <1>2, <1>3, ExceptSeq
  <2>. HIDE DEF once
  <2>2. /\ [once EXCEPT ![p + 1] = b] \in Seq(SequencedAircraft) /\ Len([once EXCEPT ![p + 1] = b]) = n
        /\ \A j \in 1..n : [once EXCEPT ![p + 1] = b][j] = IF j = p + 1 THEN b ELSE once[j]
    BY <1>2, <1>3, <2>1, ExceptSeq
  <2>3. p # p + 1
    OBVIOUS
  <2>. QED
    BY <2>1, <2>2, <2>3 DEF once
<1>8. NoLink \notin SequencedAircraft /\ a \in SequencedAircraft /\ b \in SequencedAircraft
      /\ a # b /\ NoLink # a /\ NoLink # b
  BY <1>2, <1>3, ApproachAssumption
<1>80. /\ p = 1 => first = NoLink
       /\ p # 1 => p - 1 \in 1..n /\ first = list[p - 1]
       /\ p + 1 = n => last = NoLink
       /\ p + 1 # n => p + 2 \in 1..n /\ last = list[p + 2]
  <2>1. p # 1 => p - 1 \in 1..n
    BY <1>2
  <2>2. p + 1 # n => p + 2 \in 1..n
    BY <1>2
  <2>. QED
    BY <2>1, <2>2
<1>. HIDE DEF first, last
<1>9. first \in Link /\ last \in Link /\ a \in Link /\ b \in Link
  <2>1. first \in Link
    <3>1. CASE p = 1
      BY <1>80, <3>1 DEF Link
    <3>2. CASE p # 1
      BY <1>3, <1>80, <3>2 DEF Link
    <3>. QED
      BY <3>1, <3>2
  <2>2. last \in Link
    <3>1. CASE p + 1 = n
      BY <1>80, <3>1 DEF Link
    <3>2. CASE p + 1 # n
      BY <1>3, <1>80, <3>2 DEF Link
    <3>. QED
      BY <3>1, <3>2
  <2>. QED
    BY <1>8, <2>1, <2>2 DEF Link
<1>10. ASSUME NEW k \in 1..n
       PROVE  /\ list[k] = first <=> k = p - 1
              /\ list[k] = last <=> k = p + 2
  <2>1. list[k] \in SequencedAircraft /\ list[k] # NoLink
    BY <1>3, <1>8
  <2>2. list[k] = first <=> k = p - 1
    <3>1. CASE p = 1
      BY <1>80, <2>1, <3>1
    <3>2. CASE p # 1
      BY <1>3, <1>80, <3>2
    <3>. QED
      BY <3>1, <3>2
  <2>3. list[k] = last <=> k = p + 2
    <3>1. CASE p + 1 = n
      BY <1>80, <2>1, <3>1
    <3>2. CASE p + 1 # n
      BY <1>3, <1>80, <3>2
    <3>. QED
      BY <3>1, <3>2
  <2>. QED
    BY <2>2, <2>3
<1>11. first # a /\ first # b /\ last # a /\ last # b
  BY <1>2, <1>10
<1>. HIDE DEF r, m, first, last, next, prev
<1>12. LinksTyped(r)
  BY <1>1, <1>6, <1>7, <1>9, LinkTyped DEF LinksTyped
<1>13. r.lists[f] = m /\ \A g \in SequenceAirfields \ {f} : r.lists[g] = s.lists[g]
  BY <1>1, <1>6
<1>. HIDE DEF a, b
<1>14. ASSUME NEW x \in SequencedAircraft
       PROVE  /\ r.next[x] = IF x = b THEN last ELSE IF x = a THEN b ELSE IF x = first THEN a ELSE next[x]
              /\ r.prev[x] = IF x = last THEN b ELSE IF x = b THEN a ELSE IF x = a THEN first ELSE prev[x]
  <2>1. SetLink(SetLink(SetLink(next, first, a), a, b), b, last)[x] =
           IF x = b THEN last ELSE IF x = a THEN b ELSE IF x = first THEN a ELSE next[x]
    BY <1>1, <1>8, <1>9 DEF SetLink, Link
  <2>2. SetLink(SetLink(SetLink(prev, a, first), b, a), last, b)[x] =
           IF x = last THEN b ELSE IF x = b THEN a ELSE IF x = a THEN first ELSE prev[x]
    BY <1>1, <1>8, <1>9 DEF SetLink, Link
  <2>. QED
    BY <1>6, <2>1, <2>2
<1>15. ASSUME NEW k \in 1..n
       PROVE  /\ list[k] \in SequencedAircraft /\ d[list[k]] = f
              /\ (list[k] = b <=> k = p) /\ (list[k] = a <=> k = p + 1)
  BY <1>2, <1>3 DEF a, b
<1>16. ASSUME NEW k \in 1..n
       PROVE  /\ r.next[list[k]] = IF k = p THEN last ELSE IF k = p + 1 THEN b
                                   ELSE IF k = p - 1 THEN a ELSE NextIn(list, k)
              /\ r.prev[list[k]] = IF k = p + 2 THEN b ELSE IF k = p THEN a
                                   ELSE IF k = p + 1 THEN first ELSE PrevIn(list, k)
  <2>1. next[list[k]] = NextIn(list, k) /\ prev[list[k]] = PrevIn(list, k)
    BY <1>3
  <2>2. (list[k] = first <=> k = p - 1) /\ (list[k] = last <=> k = p + 2)
    BY <1>10
  <2>3. /\ list[k] \in SequencedAircraft
        /\ (list[k] = b <=> k = p) /\ (list[k] = a <=> k = p + 1)
    BY <1>15
  <2>. QED
    BY <1>14, <2>1, <2>2, <2>3
<1>17. ASSUME NEW i \in 1..n
       PROVE  d[m[i]] = f /\ r.next[m[i]] = NextIn(m, i) /\ r.prev[m[i]] = PrevIn(m, i)
  <2>0. p \in Int /\ n \in Int /\ p >= 1 /\ p + 1 <= n
    BY <1>2
  <2>1. CASE i = p
    <3>1. m[i] = a /\ m[p + 1] = b /\ a = list[p + 1]
      BY <1>2, <1>7, <2>1 DEF a
    <3>2. r.next[a] = b /\ r.prev[a] = first /\ d[a] = f
      BY <1>2, <1>15, <1>16, <3>1
    <3>3. NextIn(m, i) = b
      BY <1>2, <1>7, <2>1, <3>1 DEF NextIn
    <3>4. PrevIn(m, i) = first
      <4>1. CASE p = 1
        BY <2>1, <4>1 DEF PrevIn, first
      <4>2. CASE p # 1
        <5>1. p - 1 \in 1..n /\ p - 1 # p /\ p - 1 # p + 1
          BY <1>2, <4>2
        <5>2. m[p - 1] = list[p - 1]
          BY <1>7, <5>1
        <5>. QED
          BY <2>1, <4>2, <5>2 DEF PrevIn, first
      <4>. QED
        BY <4>1, <4>2
    <3>. QED
      BY <3>1, <3>2, <3>3, <3>4
  <2>2. CASE i = p + 1
    <3>1. m[i] = b /\ m[p] = a /\ b = list[p] /\ p + 1 # p
      BY <1>2, <1>7, <2>2 DEF b
    <3>2. r.next[b] = last /\ r.prev[b] = a /\ d[b] = f
      BY <1>2, <1>15, <1>16, <3>1
    <3>3. PrevIn(m, i) = a
      <4>1. i # 1 /\ i - 1 = p
        BY <2>0, <2>2
      <4>. QED
        BY <3>1, <4>1 DEF PrevIn
    <3>4. NextIn(m, i) = last
      <4>1. CASE p + 1 = n
        BY <1>7, <2>2, <4>1 DEF NextIn, last
      <4>2. CASE p + 1 # n
        <5>1. p + 2 \in 1..n /\ p + 2 # p /\ p + 2 # p + 1 /\ i + 1 = p + 2 /\ i # n
          BY <1>2, <2>2, <4>2
        <5>2. m[p + 2] = list[p + 2]
          BY <1>7, <5>1
        <5>. QED
          BY <1>7, <4>2, <5>1, <5>2 DEF NextIn, last
      <4>. QED
        BY <4>1, <4>2
    <3>. QED
      BY <3>1, <3>2, <3>3, <3>4
  <2>3. CASE i # p /\ i # p + 1
    <3>1. m[i] = list[i] /\ d[list[i]] = f
      BY <1>7, <1>15, <2>3
    <3>2. /\ r.next[list[i]] = IF i = p - 1 THEN a ELSE NextIn(list, i)
          /\ r.prev[list[i]] = IF i = p + 2 THEN b ELSE PrevIn(list, i)
      BY <1>16, <2>3
    <3>3. NextIn(m, i) = IF i = p - 1 THEN a ELSE NextIn(list, i)
      <4>1. CASE i = n
        <5>1. i # p - 1
          BY <2>0, <4>1
        <5>. QED
          BY <1>7, <4>1, <5>1 DEF NextIn
      <4>2. CASE i # n
        <5>1. i + 1 \in 1..n /\ i + 1 # p + 1 /\ (i + 1 = p <=> i = p - 1)
          BY <2>0, <2>3, <4>2
        <5>2. m[i + 1] = IF i = p - 1 THEN a ELSE list[i + 1]
          BY <1>7, <5>1
        <5>. QED
          BY <1>7, <4>2, <5>2 DEF NextIn
      <4>. QED
        BY <4>1, <4>2
    <3>4. PrevIn(m, i) = IF i = p + 2 THEN b ELSE PrevIn(list, i)
      <4>1. CASE i = 1
        <5>1. i # p + 2
          BY <2>0, <4>1
        <5>. QED
          BY <4>1, <5>1 DEF PrevIn
      <4>2. CASE i # 1
        <5>1. i - 1 \in 1..n /\ i - 1 # p /\ (i - 1 = p + 1 <=> i = p + 2)
          BY <2>0, <2>3, <4>2
        <5>2. m[i - 1] = IF i = p + 2 THEN b ELSE list[i - 1]
          BY <1>7, <5>1
        <5>. QED
          BY <4>2, <5>2 DEF PrevIn
      <4>. QED
        BY <4>1, <4>2
    <3>. QED
      BY <3>1, <3>2, <3>3, <3>4
  <2>. QED
    BY <2>1, <2>2, <2>3
<1>18. ASSUME NEW i \in 1..n, NEW j \in 1..n, m[i] = m[j] PROVE i = j
  <2>. DEFINE q(k) == IF k = p THEN p + 1 ELSE IF k = p + 1 THEN p ELSE k
  <2>1. q(i) \in 1..n /\ q(j) \in 1..n /\ (q(i) = q(j) => i = j)
    BY <1>2
  <2>2. m[i] = list[q(i)] /\ m[j] = list[q(j)]
    BY <1>7 DEF a, b
  <2>3. list[q(i)] = list[q(j)] => q(i) = q(j)
    BY <1>3, <2>1
  <2>. QED
    BY <1>18, <2>1, <2>2, <2>3
<1>19. ListLinked(m, r.next, r.prev, d, f)
  BY <1>7, <1>17, <1>18 DEF ListLinked
<1>20. ASSUME NEW x \in SequencedAircraft, NotIn(m, x)
       PROVE  NotIn(list, x) /\ r.next[x] = s.next[x] /\ r.prev[x] = s.prev[x]
  <2>1. ASSUME NEW k \in 1..n PROVE list[k] # x
    <3>1. m[p + 1] = b /\ m[p] = a
      BY <1>2, <1>7
    <3>2. x # a /\ x # b
      BY <1>2, <1>7, <1>20, <3>1 DEF NotIn
    <3>3. CASE k = p \/ k = p + 1
      BY <3>2, <3>3 DEF a, b
    <3>4. CASE k # p /\ k # p + 1
      BY <1>7, <1>20, <3>4 DEF NotIn
    <3>. QED
      BY <3>3, <3>4
  <2>2. x # a /\ x # b
    BY <1>2, <2>1 DEF a, b
  <2>3. x # first
    <3>1. CASE p = 1
      BY <1>8, <3>1 DEF first
    <3>2. CASE p # 1
      <4>1. p - 1 \in 1..n
        BY <1>2, <3>2
      <4>. QED
        BY <2>1, <3>2, <4>1 DEF first
    <3>. QED
      BY <3>1, <3>2
  <2>4. x # last
    <3>1. CASE p + 1 = n
      BY <1>8, <3>1 DEF last
    <3>2. CASE p + 1 # n
      <4>1. p + 2 \in 1..n
        BY <1>2, <3>2
      <4>. QED
        BY <2>1, <3>2, <4>1 DEF last
    <3>. QED
      BY <3>1, <3>2
  <2>. QED
    BY <1>14, <2>1, <2>2, <2>3, <2>4 DEF NotIn, next, prev
<1>21. \A x \in SequencedAircraft :
          NotIn(r.lists[f], x) =>
             IF NotIn(s.lists[f], x) THEN r.next[x] = s.next[x] /\ r.prev[x] = s.prev[x]
             ELSE r.next[x] = NoLink /\ r.prev[x] = NoLink
  BY <1>13, <1>20 DEF list
<1>22. WellLinked(r, d)
  BY <1>12, <1>13, <1>19, <1>21, OneListRelinked
<1>. QED
  BY <1>22 DEF r, a, b, list

\* The list of an aircraft
LEMMA SequencedSomewhere ==
    ASSUME ApproachTypeOK, NEW a \in SequencedAircraft
    PROVE  /\ \A f \in SequenceAirfields : a \in Sequenced(f) <=> ~NotIn(sequences[f], a)
           /\ InSequences(a) <=> ~Apart(Linked, a)
           /\ InSequences(a) => /\ AirfieldForAircraft(a) \in SequenceAirfields
                                /\ a \in Sequenced(AirfieldForAircraft(a))
<1>1. ASSUME NEW f \in SequenceAirfields PROVE a \in Sequenced(f) <=> ~NotIn(sequences[f], a)
  <2>1. DOMAIN sequences[f] = 1..Len(sequences[f])
    BY LenProperties DEF ApproachTypeOK
  <2>. QED
    BY <2>1 DEF Sequenced, Range, NotIn
<1>2. InSequences(a) <=> ~Apart(Linked, a)
  BY <1>1 DEF InSequences, Apart, Linked
<1>3. InSequences(a) => /\ AirfieldForAircraft(a) \in SequenceAirfields
                        /\ a \in Sequenced(AirfieldForAircraft(a))
  BY DEF InSequences, AirfieldForAircraft
<1>. QED
  BY <1>1, <1>2, <1>3

LEMMA SequencesWellLinked ==
    ASSUME ApproachTypeOK
    PROVE  SequencesLinked <=> WellLinked(Linked, destinations)
<1>1. LinksTyped(Linked)
  BY DEF ApproachTypeOK, LinksTyped, Linked
<1>2. ASSUME NEW f \in SequenceAirfields
      PROVE  ListLinked(Linked.lists[f], Linked.next, Linked.prev, destinations, f) <=>
                /\ \A i, j \in DOMAIN sequences[f] : sequences[f][i] = sequences[f][j] => i = j
                /\ \A i \in DOMAIN sequences[f] :
                      /\ destinations[sequences[f][i]] = f
                      /\ nextAircraft[sequences[f][i]] =
                            IF i = Len(sequences[f]) THEN NoLink ELSE sequences[f][i + 1]
                      /\ previousAircraft[sequences[f][i]] =
                            IF i = 1 THEN NoLink ELSE sequences[f][i - 1]
  <2>1. DOMAIN sequences[f] = 1..Len(sequences[f])
    BY LenProperties DEF ApproachTypeOK
  <2>. QED
    BY <2>1, SMTT(30) DEF ListLinked, Linked, NextIn, PrevIn
<1>3. ASSUME NEW a \in SequencedAircraft
      PROVE  (Apart(Linked, a) => Linked.next[a] = NoLink /\ Linked.prev[a] = NoLink) <=>
             (~InSequences(a) => nextAircraft[a] = NoLink /\ previousAircraft[a] = NoLink)
  BY SequencedSomewhere DEF Linked
<1>. QED
  BY <1>1, <1>2, <1>3 DEF SequencesLinked, WellLinked

\* RemoveAircraftFromSequences
LEMMA RemovedFromSequences ==
    ASSUME ApproachTypeOK, WellLinked(Linked, destinations), NEW a \in SequencedAircraft
    PROVE  /\ WellLinked(RemoveAircraftFromSequences(Linked, a), destinations)
           /\ Apart(RemoveAircraftFromSequences(Linked, a), a)
<1>1. CASE InSequences(a)
  <2>1. /\ AirfieldForAircraft(a) \in SequenceAirfields
        /\ ~NotIn(Linked.lists[AirfieldForAircraft(a)], a)
    BY <1>1, SequencedSomewhere DEF Linked
  <2>. QED
    BY <1>1, <2>1, SequencedRemoved DEF RemoveAircraftFromSequences
<1>2. CASE ~InSequences(a)
  BY <1>2, SequencedSomewhere DEF RemoveAircraftFromSequences
<1>. QED
  BY <1>1, <1>2

\* Where an aircraft of no list goes matters to none.
LEMMA DestinationFree ==
    ASSUME NEW d \in [SequencedAircraft -> SequenceAirfields], NEW s, WellLinked(s, d),
           NEW a \in SequencedAircraft, Apart(s, a), NEW f \in SequenceAirfields
    PROVE  WellLinked(s, [d EXCEPT ![a] = f])
<1>1. ASSUME NEW g \in SequenceAirfields
      PROVE  ListLinked(s.lists[g], s.next, s.prev, [d EXCEPT ![a] = f], g)
  <2>1. s.lists[g] \in Seq(SequencedAircraft) /\ ListLinked(s.lists[g], s.next, s.prev, d, g)
        /\ NotIn(s.lists[g], a)
    BY DEF WellLinked, LinksTyped, Apart
  <2>2. \A i \in 1..Len(s.lists[g]) : s.lists[g][i] \in SequencedAircraft
    BY <2>1, ElementOfSeq
  <2>. QED
    BY <2>1, <2>2 DEF ListLinked, NotIn
<1>. QED
  BY <1>1 DEF WellLinked

LEMMA RelinkedWell ==
    ASSUME NEW s, Relinked(s), WellLinked(s, destinations')
    PROVE  WellLinked(Linked', destinations') /\ LinksTyped(Linked')
  BY DEF Relinked, Linked, WellLinked, LinksTyped, Apart

ApproachIInv == ApproachTypeOK /\ SequencesLinked

AllWellLinked == WellLinked(Linked, destinations)

LEMMA SequencesWellLinkedNext ==
    ApproachTypeOK' => (SequencesLinked' <=> WellLinked(Linked', destinations'))
<1>1. ApproachTypeOK => (SequencesLinked <=> AllWellLinked)
  BY SequencesWellLinked DEF AllWellLinked
<1>2. ApproachTypeOK' => (SequencesLinked' <=> AllWellLinked')
  BY <1>1, PTL
<1>. QED
  BY <1>2 DEF AllWellLinked

\* The list of targets is about an aircraft at an airfield, if it is open.
PopupTyped == /\ targetList \subseteq SequenceAirfields \X SequencedAircraft
              /\ approachUp \in BOOLEAN

LEMMA PopupKept ==
    ASSUME ApproachTypeOK, [ApproachNext]_approachVars
    PROVE  PopupTyped'
<1>1. PopupTyped
  BY DEF ApproachTypeOK, PopupTyped
<1>2. CASE UNCHANGED popupVars
  BY <1>1, <1>2 DEF PopupTyped, popupVars
<1>3. ASSUME NEW f \in SequenceAirfields, NEW a \in SequencedAircraft, OpenTargetList(f, a)
      PROVE  PopupTyped'
  BY <1>1, <1>3 DEF PopupTyped, OpenTargetList
<1>4. ASSUME NEW f \in SequenceAirfields, NEW a \in SequencedAircraft, NEW mode \in SpacingModes,
             TargetSelected(f, a, mode)
      PROVE  PopupTyped'
  BY <1>1, <1>4 DEF PopupTyped, TargetSelected
<1>5. ASSUME CloseTargetList PROVE PopupTyped'
  BY <1>1, <1>5 DEF PopupTyped, CloseTargetList
<1>. QED
  BY <1>2, <1>3, <1>4, <1>5 DEF ApproachNext, approachVars, AddAircraftToSequence, InsertAircraftInSequence,
     MoveAircraftUp, MoveAircraftDown, RemoveSequenced, DestinationChanged

\* The links after a step that keeps the modes, destinations and the popup typed
LEMMA ApproachKept ==
    ASSUME PopupTyped',
           WellLinked(Linked', destinations'),
           approachMode' \in [SequencedAircraft -> SpacingModes],
           destinations' \in [SequencedAircraft -> SequenceAirfields]
    PROVE  ApproachIInv'
<1>1. ApproachTypeOK'
  BY DEF WellLinked, LinksTyped, Linked, ApproachTypeOK, PopupTyped, SpacingModes
<1>2. ApproachTypeOK' => (SequencesLinked' <=> WellLinked(Linked', destinations'))
  BY SequencesWellLinkedNext
<1>. QED
  BY <1>1, <1>2 DEF ApproachIInv

LEMMA ApproachInitially == ApproachInit => ApproachIInv
<1>. SUFFICES ASSUME ApproachInit PROVE ApproachIInv
  OBVIOUS
<1>1. ApproachTypeOK
  BY DEF ApproachInit, ApproachTypeOK, Link, SpacingModes
<1>2. ASSUME NEW f \in SequenceAirfields
      PROVE ListLinked(Linked.lists[f], Linked.next, Linked.prev, destinations, f)
  <2>1. Linked.lists[f] = <<>> /\ Len(<<>>) = 0
    BY DEF ApproachInit, Linked
  <2>2. 1..0 = {}
    OBVIOUS
  <2>. QED
    BY <2>1, <2>2 DEF ListLinked
<1>3. LinksTyped(Linked)
  BY <1>1 DEF ApproachTypeOK, LinksTyped, Linked
<1>4. WellLinked(Linked, destinations)
  BY <1>2, <1>3 DEF WellLinked, Linked, ApproachInit
<1>. QED
  BY <1>1, <1>4, SequencesWellLinked DEF ApproachIInv

LEMMA ApproachStep ==
    ASSUME ApproachIInv, [ApproachNext]_approachVars
    PROVE  ApproachIInv'
<1>1. ApproachTypeOK /\ WellLinked(Linked, destinations)
  BY SequencesWellLinked DEF ApproachIInv
<1>0. PopupTyped'
  BY <1>1, PopupKept
<1>2. approachMode \in [SequencedAircraft -> SpacingModes]
      /\ destinations \in [SequencedAircraft -> SequenceAirfields]
  BY <1>1 DEF ApproachTypeOK
<1>3. ASSUME NEW a \in SequencedAircraft, NEW mode \in SpacingModes,
             approachMode' = [approachMode EXCEPT ![a] = mode]
      PROVE  approachMode' \in [SequencedAircraft -> SpacingModes]
  BY <1>2, <1>3
<1>4. ASSUME NEW f \in SequenceAirfields, NEW a \in SequencedAircraft, NEW mode \in SpacingModes,
             AddAircraftToSequence(f, a, mode)
      PROVE  ApproachIInv'
  <2>. DEFINE s == RemoveAircraftFromSequences(Linked, a)
  <2>1. WellLinked(s, destinations) /\ Apart(s, a) /\ destinations[a] = f
    BY <1>1, <1>4, RemovedFromSequences DEF AddAircraftToSequence
  <2>. HIDE DEF s
  <2>2. WellLinked(AddLast(s, f, a), destinations)
    BY <2>1, SequencedLast
  <2>3. Relinked(AddLast(s, f, a)) /\ destinations' = destinations
    BY <1>4 DEF AddAircraftToSequence, s
  <2>4. approachMode' \in [SequencedAircraft -> SpacingModes]
    BY <1>3, <1>4 DEF AddAircraftToSequence
  <2>. QED
    BY <1>0, <1>2, <2>2, <2>3, <2>4, RelinkedWell, ApproachKept
<1>5. ASSUME NEW f \in SequenceAirfields, NEW a \in SequencedAircraft, NEW b \in SequencedAircraft,
             NEW mode \in SpacingModes, InsertAircraftInSequence(f, a, b, mode)
      PROVE  ApproachIInv'
  <2>. DEFINE s == RemoveAircraftFromSequences(Linked, a)
  <2>1. WellLinked(s, destinations) /\ Apart(s, a) /\ destinations[a] = f
    BY <1>1, <1>5, RemovedFromSequences DEF InsertAircraftInSequence
  <2>2. /\ Relinked(IF b \in Range(s.lists[f]) THEN AddBefore(s, f, a, b) ELSE AddLast(s, f, a))
        /\ destinations' = destinations
    BY <1>5 DEF InsertAircraftInSequence
  <2>3. approachMode' \in [SequencedAircraft -> SpacingModes]
    BY <1>3, <1>5 DEF InsertAircraftInSequence
  <2>. HIDE DEF s
  <2>4. b \in Range(s.lists[f]) => ~NotIn(s.lists[f], b)
    <3>1. DOMAIN s.lists[f] = 1..Len(s.lists[f])
      BY <2>1, LenProperties DEF WellLinked, LinksTyped
    <3>. QED
      BY <3>1 DEF Range, NotIn
  <2>5. CASE b \in Range(s.lists[f])
    <3>1. WellLinked(AddBefore(s, f, a, b), destinations)
      BY <2>1, <2>4, <2>5, SequencedBefore
    <3>. QED
      BY <1>0, <1>2, <2>2, <2>3, <2>5, <3>1, RelinkedWell, ApproachKept
  <2>6. CASE b \notin Range(s.lists[f])
    <3>1. WellLinked(AddLast(s, f, a), destinations)
      BY <2>1, SequencedLast
    <3>. QED
      BY <1>0, <1>2, <2>2, <2>3, <2>6, <3>1, RelinkedWell, ApproachKept
  <2>. QED
    BY <2>5, <2>6
<1>6. ASSUME NEW f \in SequenceAirfields, NEW a \in SequencedAircraft, MoveAircraftUp(f, a)
      PROVE  ApproachIInv'
  <2>. DEFINE list == sequences[f]
  <2>1. PICK i \in 1..Len(list) : list[i] = a
    BY <1>1, <1>6, SequencedSomewhere DEF MoveAircraftUp, NotIn
  <2>2. previousAircraft[a] = PrevIn(list, i)
    BY <1>1, <2>1 DEF WellLinked, ListLinked, Linked
  <2>3. i - 1 \in 1..(Len(list) - 1) /\ previousAircraft[a] = list[i - 1] /\ (i - 1) + 1 = i
    <3>1. Len(list) \in Nat
      BY <1>1, LenProperties DEF ApproachTypeOK
    <3>. QED
      BY <1>6, <2>2, <3>1 DEF MoveAircraftUp, PrevIn
  <2>4. WellLinked(Swap(Linked, f, previousAircraft[a], a), destinations)
    <3>1. Linked.lists[f] = list
      BY DEF Linked
    <3>2. WellLinked(Swap(Linked, f, list[i - 1], list[(i - 1) + 1]), destinations)
      <4>. HIDE DEF list
      <4>. QED
        BY <1>1, <2>3, <3>1, SequencedSwapped
    <3>. QED
      BY <2>1, <2>3, <3>2
  <2>. QED
    BY <1>0, <1>2, <1>6, <2>4, RelinkedWell, ApproachKept DEF MoveAircraftUp
<1>7. ASSUME NEW f \in SequenceAirfields, NEW a \in SequencedAircraft, MoveAircraftDown(f, a)
      PROVE  ApproachIInv'
  <2>. DEFINE list == sequences[f]
  <2>1. PICK i \in 1..Len(list) : list[i] = a
    BY <1>1, <1>7, SequencedSomewhere DEF MoveAircraftDown, NotIn
  <2>2. nextAircraft[a] = NextIn(list, i)
    BY <1>1, <2>1 DEF WellLinked, ListLinked, Linked
  <2>3. i \in 1..(Len(list) - 1) /\ nextAircraft[a] = list[i + 1]
    <3>1. Len(list) \in Nat
      BY <1>1, LenProperties DEF ApproachTypeOK
    <3>. QED
      BY <1>7, <2>2, <3>1 DEF MoveAircraftDown, NextIn
  <2>4. WellLinked(Swap(Linked, f, a, nextAircraft[a]), destinations)
    BY <1>1, <2>1, <2>3, SequencedSwapped DEF Linked
  <2>. QED
    BY <1>0, <1>2, <1>7, <2>4, RelinkedWell, ApproachKept DEF MoveAircraftDown
<1>8. ASSUME NEW a \in SequencedAircraft, RemoveSequenced(a)
      PROVE  ApproachIInv'
  <2>1. WellLinked(RemoveAircraftFromSequences(Linked, a), destinations)
    BY <1>1, RemovedFromSequences
  <2>. QED
    BY <1>0, <1>2, <1>8, <2>1, RelinkedWell, ApproachKept DEF RemoveSequenced
<1>9. ASSUME NEW f \in SequenceAirfields, NEW a \in SequencedAircraft, NEW mode \in SpacingModes,
             TargetSelected(f, a, mode)
      PROVE  ApproachIInv'
  <2>1. approachMode' \in [SequencedAircraft -> SpacingModes]
    BY <1>2, <1>3, <1>9 DEF TargetSelected
  <2>2. WellLinked(Linked', destinations') /\ destinations' = destinations
    BY <1>1, <1>9 DEF TargetSelected, Linked
  <2>. QED
    BY <1>0, <1>2, <2>1, <2>2, ApproachKept
<1>10. ASSUME NEW a \in SequencedAircraft, NEW f \in SequenceAirfields, DestinationChanged(a, f)
       PROVE  ApproachIInv'
  <2>1. destinations' = [destinations EXCEPT ![a] = f] /\ approachMode' = approachMode
    BY <1>10 DEF DestinationChanged
  <2>2. destinations' \in [SequencedAircraft -> SequenceAirfields]
    BY <1>2, <2>1
  <2>3. WellLinked(Linked', destinations')
    <3>1. CASE InSequences(a) /\ AirfieldForAircraft(a) # f
      <4>1. WellLinked(RemoveAircraftFromSequences(Linked, a), destinations')
        BY <1>1, <1>2, <2>1, RemovedFromSequences, DestinationFree
      <4>. QED
        BY <1>10, <3>1, <4>1, RelinkedWell DEF DestinationChanged
    <3>2. CASE InSequences(a) /\ AirfieldForAircraft(a) = f
      <4>1. PICK i \in 1..Len(sequences[f]) : sequences[f][i] = a
        BY <1>1, <3>2, SequencedSomewhere DEF NotIn
      <4>2. destinations[a] = f
        BY <1>1, <4>1 DEF WellLinked, ListLinked, Linked
      <4>3. destinations' = destinations /\ Linked' = Linked
        BY <1>2, <1>10, <2>1, <3>2, <4>2 DEF DestinationChanged, Linked
      <4>. QED
        BY <1>1, <4>3
    <3>3. CASE ~InSequences(a)
      <4>1. Apart(Linked, a)
        BY <1>1, <3>3, SequencedSomewhere
      <4>2. WellLinked(Linked, destinations')
        BY <1>1, <1>2, <2>1, <4>1, DestinationFree
      <4>3. Linked' = Linked
        BY <1>10, <3>3 DEF DestinationChanged, Linked
      <4>. QED
        BY <4>2, <4>3
    <3>. QED
      BY <3>1, <3>2, <3>3
  <2>. QED
    BY <1>0, <1>2, <2>1, <2>2, <2>3, ApproachKept
<1>12. ASSUME NEW f \in SequenceAirfields, NEW a \in SequencedAircraft, OpenTargetList(f, a)
       PROVE  ApproachIInv'
  <2>1. WellLinked(Linked', destinations') /\ destinations' = destinations /\ approachMode' = approachMode
    BY <1>1, <1>12 DEF OpenTargetList, Linked
  <2>. QED
    BY <1>0, <1>2, <2>1, ApproachKept
<1>13. CASE CloseTargetList
  <2>1. WellLinked(Linked', destinations') /\ destinations' = destinations /\ approachMode' = approachMode
    BY <1>1, <1>13 DEF CloseTargetList, Linked
  <2>. QED
    BY <1>0, <1>2, <2>1, ApproachKept
<1>11. CASE UNCHANGED approachVars
  BY <1>0, <1>1, <1>2, <1>11, ApproachKept DEF approachVars, Linked
<1>. QED
  BY <1>4, <1>5, <1>6, <1>7, <1>8, <1>9, <1>10, <1>11, <1>12, <1>13 DEF ApproachNext

\* The distance between two aircraft belongs to the pair the list makes.
LEMMA SequencedSpacing == ApproachIInv => SpacingSufficient
<1>. SUFFICES ASSUME ApproachIInv, NEW f \in SequenceAirfields, NEW i \in DOMAIN sequences[f],
                     i > 1, approachMode[sequences[f][i]] # WakeMode
              PROVE  /\ Spacing(f, sequences[f][i]) >= approachMode[sequences[f][i]]
                     /\ Spacing(f, sequences[f][i]) >= MinimumSeparation[f]
                     /\ WakeSeparation[sequences[f][i - 1]][sequences[f][i]] # NoWakeInterval =>
                          Spacing(f, sequences[f][i]) >= WakeSeparation[sequences[f][i - 1]][sequences[f][i]]
  BY DEF SpacingSufficient
<1>. DEFINE list == sequences[f]
            a == list[i]
            leader == list[i - 1]
<1>1. /\ list \in Seq(SequencedAircraft) /\ Len(list) \in Nat /\ DOMAIN list = 1..Len(list)
      /\ \A k \in 1..Len(list) : list[k] \in SequencedAircraft
  BY LenProperties, ElementOfSeq DEF ApproachIInv, ApproachTypeOK
<1>2. i \in 1..Len(list) /\ i - 1 \in 1..Len(list)
  BY <1>1
<1>3. a \in SequencedAircraft /\ leader \in SequencedAircraft
  BY <1>1, <1>2
<1>4. previousAircraft[a] = leader
  <2>1. previousAircraft[list[i]] = IF i = 1 THEN NoLink ELSE list[i - 1]
    BY <1>1, <1>2 DEF ApproachIInv, SequencesLinked
  <2>2. i # 1
    BY <1>2
  <2>. QED
    BY <2>1, <2>2
<1>5. approachMode[a] \in Nat
  BY <1>3, ApproachAssumption DEF ApproachIInv, ApproachTypeOK, SpacingModes
<1>6. MinimumSeparation[f] \in Nat
  BY ApproachAssumption
<1>7. WakeSeparation[leader][a] \in Nat \cup {NoWakeInterval}
  BY <1>3, ApproachAssumption
<1>8. approachMode[a] # WakeMode
  OBVIOUS
<1>. HIDE DEF list, a, leader
<1>9. Spacing(f, a) = IF WakeSeparation[leader][a] # NoWakeInterval /\ WakeSeparation[leader][a] > approachMode[a]
                      THEN IF WakeSeparation[leader][a] > MinimumSeparation[f]
                           THEN WakeSeparation[leader][a] ELSE MinimumSeparation[f]
                      ELSE IF approachMode[a] > MinimumSeparation[f]
                           THEN approachMode[a] ELSE MinimumSeparation[f]
  BY <1>4, <1>8 DEF Spacing
<1>10. CASE WakeSeparation[leader][a] = NoWakeInterval
  BY <1>5, <1>6, <1>9, <1>10 DEF list, a, leader
<1>11. CASE WakeSeparation[leader][a] \in Nat
  <2>1. WakeSeparation[leader][a] # NoWakeInterval
    BY <1>11, ApproachAssumption
  <2>. QED
    BY <1>5, <1>6, <1>9, <1>11, <2>1 DEF list, a, leader
<1>. QED
  BY <1>7, <1>10, <1>11

\* The lists, the links, the modes and the destinations are ones the program
\* can hold, however a sequence was edited (ApproachSequence, SequencedAircraft).
THEOREM ApproachTyped == ApproachSpec => []ApproachTypeOK
<1>1. ApproachIInv => ApproachTypeOK
  BY DEF ApproachIInv
<1>. QED
  BY <1>1, ApproachInitially, ApproachStep, PTL DEF ApproachSpec

\* Any number of aircraft, airfields, insertions, swaps and removals leave the
\* list and the two links of an approach sequence telling one order, and the
\* distance ApproachSpacingCalculator shows is never less than the target, the
\* airfield's minimum or the wake separation behind the aircraft that really
\* precedes it.
THEOREM SequencesAlwaysSound == ApproachSpec => []SequencesSound
<1>1. ApproachIInv => SequencesSound
  BY SequencedSpacing DEF ApproachIInv, SequencesSound
<1>. QED
  BY <1>1, ApproachInitially, ApproachStep, PTL DEF ApproachSpec
===============================================================================
