---------------------------- MODULE InitialAltitude ----------------------------
(***************************************************************************)
(* Initial altitudes (src/src/plugin/initialaltitude): assigned by itself  *)
(* when the user delivers at the origin, once for each SID, and taken away *)
(* when an aircraft leaves with nobody to hand it to.  The departure       *)
(* monitor (src/src/plugin/departure) decides the latter from the owners   *)
(* of the airfield and from the cached handoff.                            *)
(***************************************************************************)
EXTENDS AirfieldOwnership, Handoffs

CONSTANT NoRoute

ASSUME OriginAssumption == Origin \in [Routes -> Airfields]

VARIABLES alreadySet,      \* alreadySetMap: the route whose SID has had its level
          alreadyDeparted  \* DepartureMonitor: the flightplans seen to depart

\* login: HasAssigned needs GetLoginStatus and GetSecondsLoggedIn >= 5
MayAssign(f, fl, set, ow) ==
    LET r == fl.route[f]
    IN  /\ set[f] # r
        /\ fl.stage[f] = "parked"
        /\ fl.cleared[f] = NoLevel
        /\ DeliveryByUser(ow, Origin[r])
        /\ SidLevel[r] # NoLevel
        /\ r \notin LowCruise

WithLevel(fl, fs) ==
    [fl EXCEPT !.cleared = [f \in Flightplans |->
        IF f \in fs THEN SidLevel[fl.route[f]] ELSE fl.cleared[f]]]
WithSet(set, fl, fs) ==
    [f \in Flightplans |-> IF f \in fs THEN fl.route[f] ELSE set[f]]

ProvidedByUser(ow, a, service) == \E s \in ow[a] : s.service = service /\ s.user

UserIsResponsibleForClearingData(ow, a) ==
    \/ ProvidedByUser(ow, a, "Tower")
    \/ ~Provided(ow[a], "Tower") /\ ProvidedByUser(ow, a, "Ground")
    \/ /\ ~Provided(ow[a], "Tower") /\ ~Provided(ow[a], "Ground")
       /\ ProvidedByUser(ow, a, "Delivery")

\* UserShouldClearDepartureDataMonitor, then ClearInitialAltitude, once the
\* handoff of the flightplan is resolved
ShouldClear(f, fl, ho, ow) ==
    LET r == fl.route[f]
    IN  /\ ho[f].to = Unicom
        /\ ~ProvidedByUser(ow, Origin[r], "Approach")
        /\ UserIsResponsibleForClearingData(ow, Origin[r])
ClearsLevel(f, fl) ==
    /\ fl.stage[f] = "departing"
    /\ SidLevel[fl.route[f]] # NoLevel
    /\ fl.cleared[f] = SidLevel[fl.route[f]]
===============================================================================
