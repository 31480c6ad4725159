------------------------------- MODULE MCFeatures -------------------------------
(***************************************************************************)
(* The features beside one another, for TLC.  They share no state, so that *)
(* a behaviour of all of them is one of each: the part that moves is       *)
(* chosen in the initial state and the others stay as they were, in one    *)
(* fixed initial state.  Each part is explored in full, and the number of  *)
(* states is the sum over the parts and not the product.                   *)
(*                                                                         *)
(* The stands move twice: by themselves, with the transport Stands assumes *)
(* of the push events, and over the push events, with the one they have.   *)
(***************************************************************************)
EXTENDS MCControllers, StandsOverPush, Holds, PrenoteMessages, MissedApproaches, EnrouteReleases,
        ApproachSequence, Metars, FlowMeasures, Integrations

CONSTANTS n1, n2,                            \* navaids
          stands, releases,                  \* processors of push events
          mapper,                            \* a program that connects
          heavy                              \* an aircraft with wake behind it

VARIABLE moving

mcHoldPlaces == {<<"away">>, <<"unseen">>, <<"at", n1>>}

\* Of the three events the second is not about stands.
mcProcessors == {stands, releases}
mcByChannel == [e \in EventIds |-> IF e = 2 THEN {releases} ELSE {stands}]
mcByEvent == [e \in EventIds |-> {}]

mcMinimumSeparation == (EGLL :> 3) @@ (EGKK :> 7)
mcSubscriptions == mapper :> {"state", "notice"}
mcWakeSeparation ==
    [a \in SequencedAircraft |-> [b \in SequencedAircraft |->
        IF a = heavy THEN 6 ELSE NoWakeInterval]]

Parts == {"controllers", "stands", "stands over push", "holds", "prenotes", "missed approaches",
          "enroute releases", "approach sequence", "metars",
          "flow measures", "integrations"}

FeaturesInit ==
    /\ moving \in Parts
    /\ ControllersInit
    /\ StandsOverPushInit
    /\ moving \notin {"stands", "stands over push"} =>
         standsAtApi = [a \in StandAircraft |-> NoStand]
    /\ HoldsInit
    /\ moving # "holds" =>
         /\ holdPlace = [a \in HoldAircraft |-> <<"away">>]
         /\ holdsAtApi = [a \in HoldAircraft |-> NoHold]
    /\ PrenotesInit
    /\ MissedInit
    /\ EnrouteInit
    /\ ApproachInit
    /\ moving # "approach sequence" => destinations = [a \in SequencedAircraft |-> EGLL]
    /\ FlowInit
    /\ IntegrationsInit
    /\ MetarsInit /\ (moving # "metars" => metarsAtApi = [a \in MetarAirfields |-> NoMetar])

FeaturesNext ==
    \/ /\ moving = "controllers" /\ ControllersNext
       /\ UNCHANGED <<moving, overPushVars, holdsVars, prenotesVars, missedVars,
                      enrouteVars, approachVars, metarsVars, flowVars, integrationVars>>
    \/ /\ moving = "stands" /\ StandsNext
       /\ UNCHANGED <<moving, vars, logVars, controllersVars, holdsVars,
                      prenotesVars, missedVars, enrouteVars, approachVars, metarsVars,
                      flowVars, integrationVars>>
    \/ /\ moving = "stands over push" /\ StandsOverPushNext
       /\ UNCHANGED <<moving, controllersVars, holdsVars, prenotesVars,
                      missedVars, enrouteVars, approachVars, metarsVars,
                      flowVars, integrationVars>>
    \/ /\ moving = "holds" /\ HoldsNext
       /\ UNCHANGED <<moving, controllersVars, overPushVars, prenotesVars,
                      missedVars, enrouteVars, approachVars, metarsVars,
                      flowVars, integrationVars>>
    \/ /\ moving = "prenotes" /\ PrenotesNext
       /\ UNCHANGED <<moving, controllersVars, overPushVars, holdsVars,
                      missedVars, enrouteVars, approachVars, metarsVars,
                      flowVars, integrationVars>>
    \/ /\ moving = "missed approaches" /\ MissedNext
       /\ UNCHANGED <<moving, controllersVars, overPushVars, holdsVars,
                      prenotesVars, enrouteVars, approachVars, metarsVars,
                      flowVars, integrationVars>>
    \/ /\ moving = "enroute releases" /\ EnrouteNext
       /\ UNCHANGED <<moving, controllersVars, overPushVars, holdsVars,
                      prenotesVars, missedVars, approachVars, metarsVars,
                      flowVars, integrationVars>>
    \/ /\ moving = "approach sequence" /\ ApproachNext
       /\ UNCHANGED <<moving, controllersVars, overPushVars, holdsVars,
                      prenotesVars, missedVars, enrouteVars, metarsVars,
                      flowVars, integrationVars>>
    \/ /\ moving = "metars" /\ MetarsNext
       /\ UNCHANGED <<moving, controllersVars, overPushVars, holdsVars,
                      prenotesVars, missedVars, enrouteVars, approachVars,
                      flowVars, integrationVars>>
    \/ /\ moving = "flow measures" /\ FlowNext
       /\ UNCHANGED <<moving, controllersVars, overPushVars, holdsVars,
                      prenotesVars, missedVars, enrouteVars, approachVars,
                      metarsVars, integrationVars>>
    \/ /\ moving = "integrations" /\ IntegrationsNext
       /\ UNCHANGED <<moving, controllersVars, overPushVars, holdsVars,
                      prenotesVars, missedVars, enrouteVars, approachVars,
                      metarsVars, flowVars>>

featuresVars == <<moving, controllersVars, overPushVars, holdsVars, prenotesVars,
                  missedVars, enrouteVars, approachVars, metarsVars, flowVars, integrationVars>>

FeaturesSpec == FeaturesInit /\ [][FeaturesNext]_featuresVars

\* None of the steps that must happen can happen in the initial state of a
\* part that does not move, so that their fairness asks nothing of it.
FeaturesFairness == ControllersFairness /\ HoldsFairness /\ PrenotesFairness
FeaturesFairSpec == FeaturesSpec /\ FeaturesFairness
===============================================================================
