------------------------------ MODULE Departures ------------------------------
(***************************************************************************)
(* The flightplans EuroScope lists, as far as the handling of departures   *)
(* looks at them.  What a flightplan says of its SID, origin and cruising  *)
(* level is its route.  Positions, heights and trackers come down to a     *)
(* stage: "parked" meets the conditions for an automatic assignment (on    *)
(* the ground near its origin, slow, tracked by nobody); "departing" is    *)
(* climbing away untracked or tracked by the user, "handed" is the same    *)
(* but tracked by somebody else; "away" is everything else.                *)
(***************************************************************************)
EXTENDS Naturals, Functions

CONSTANTS Flightplans,
          Routes,
          Origin,          \* the airfield a route starts from
          SidLevel,        \* the initial altitude of its SID, NoLevel if no SID matches
          LowCruise,       \* the routes cruising below their initial altitude
          NoLevel,
          OtherLevel       \* a level a controller typed in

ASSUME LevelsAssumption ==
    /\ DOMAIN SidLevel = Routes
    /\ OtherLevel # NoLevel /\ OtherLevel \notin Range(SidLevel)

VARIABLE flightplans

NotOnline == "not online"
Stages == {"away", "parked", "departing", "handed"}
Levels == Range(SidLevel) \cup {NoLevel, OtherLevel}

Listed == [route   : [Flightplans -> Routes \cup {NotOnline}],
           stage   : [Flightplans -> Stages],
           cleared : [Flightplans -> Levels]]

Online(fl) == {f \in Flightplans : fl.route[f] # NotOnline}
===============================================================================
