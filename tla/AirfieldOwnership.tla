--------------------------- MODULE AirfieldOwnership ---------------------------
(***************************************************************************)
(* Who provides which service at each airfield (src/src/plugin/ownership). *)
(* The providers are worked out from the active positions in the airfield's *)
(* top-down order and stored with copies of the lead callsigns; they are   *)
(* worked out again only for the airfields in the top-down list of a       *)
(* position whose callsigns changed.                                       *)
(***************************************************************************)
EXTENDS ActiveCallsigns, SequencesExt

CONSTANTS Airfields,
          TopDownOrder,   \* the positions that cover each airfield, first first
          TopDown,        \* the airfields in each position's own list
          TypeOf          \* DEL, GND, TWR, APP, CTR or FSS

\* The two lists come from one set of dependency data and agree.
ASSUME TopDownAssumption ==
    /\ TopDownOrder \in [Airfields -> Seq(Positions)]
    /\ TopDown \in [Positions -> SUBSET Airfields]
    /\ \A a \in Airfields : \A p \in Positions :
          p \in Range(TopDownOrder[a]) => a \in TopDown[p]

VARIABLE owners           \* AirfieldServiceProviderCollection

ProvidesApproachServices(p) == TypeOf[p] \in {"APP", "CTR"}
ProvidesTowerServices(p)    == TypeOf[p] \in {"TWR", "APP", "CTR"}
ProvidesGroundServices(p)   == TypeOf[p] \in {"GND", "TWR", "APP", "CTR"}

Services == {"Delivery", "Ground", "Tower", "FinalApproach", "Approach"}

\* GetActiveControllersInAirfieldTopdownOrder: the active positions of an
\* airfield, each with its lead callsign
ActiveControllers(cs, a) ==
    [p \in {q \in Range(TopDownOrder[a]) : PositionActive(cs, q)} |->
        [callsign |-> Lead(cs, p), user |-> UserLeads(cs, p)]]

\* A provision with the copy of the lead callsign made for it
Provision == [service : Services, callsign : Callsigns, user : BOOLEAN]
ProvidedBy(active, p, service) ==
    [service |-> service, callsign |-> active[p].callsign, user |-> active[p].user]

Provided(providers, service) == \E s \in providers : s.service = service

\* Broken: everybody who can gives final approach and approach.
ServicesOfEverybody(p, providers) ==
    {service \in Services :
        CASE service = "Delivery" -> providers = {}
          [] service = "Ground" ->
                ProvidesGroundServices(p) /\ (TypeOf[p] = "GND" \/ ~Provided(providers, "Ground"))
          [] service = "Tower" ->
                ProvidesTowerServices(p) /\ (TypeOf[p] = "TWR" \/ ~Provided(providers, "Tower"))
          [] OTHER -> ProvidesApproachServices(p)}

\* The services a controller adds to those of the controllers before it
ServicesOf(p, providers) ==
    {service \in Services :
        CASE service = "Delivery" -> providers = {}
          [] service = "Ground" ->
                /\ ProvidesGroundServices(p)
                /\ TypeOf[p] = "GND" \/ ~Provided(providers, "Ground")
          [] service = "Tower" ->
                /\ ProvidesTowerServices(p)
                /\ TypeOf[p] = "TWR" \/ ~Provided(providers, "Tower")
          [] service = "FinalApproach" ->
                /\ ProvidesApproachServices(p)
                /\ ~Provided(providers, "FinalApproach")
          [] service = "Approach" ->
                /\ ProvidesApproachServices(p)
                /\ TypeOf[p] = "APP" \/ ~Provided(providers, "Approach")}

\* What the first n in the top-down order add
ServiceProvidersAtAirfield(active, a) ==
    LET order == TopDownOrder[a]
        providers[n \in 0..Len(order)] ==
            IF n = 0 THEN {}
            ELSE LET p == order[n]
                     before == providers[n - 1]
                 IN  IF p \notin DOMAIN active THEN before
                     ELSE before \cup {ProvidedBy(active, p, s) : s \in ServicesOf(p, before)}
    IN  providers[Len(order)]

\* RefreshOwner
GetServiceProviders(cs, a) ==
    IF ~\E p \in Range(TopDownOrder[a]) : PositionActive(cs, p) THEN {}
    ELSE ServiceProvidersAtAirfield(ActiveControllers(cs, a), a)

\* Broken: the providers the airfield had are not flushed.
RefreshOwnersUnflushed(ow, cs, p) ==
    [a \in Airfields |-> IF a \in TopDown[p] THEN ow[a] \cup GetServiceProviders(cs, a) ELSE ow[a]]

\* ProcessAffectedAirfields, with RefreshOwner for each airfield
RefreshOwners(ow, cs, p) ==
    [a \in Airfields |-> IF a \in TopDown[p] THEN GetServiceProviders(cs, a) ELSE ow[a]]

NoOwners == [a \in Airfields |-> {}]

DeliveryByUser(ow, a) == \E s \in ow[a] : s.service = "Delivery" /\ s.user
===============================================================================
