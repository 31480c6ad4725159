-------------------------- MODULE MCDepartureReleases --------------------------
(***************************************************************************)
(* The user (a tower) and another tower ask the same radar controller for  *)
(* the same aircraft, the other tower also for another aircraft, and the   *)
(* radar controller asks the user.                                         *)
(***************************************************************************)
EXTENDS DepartureReleases

CONSTANTS tower, otherTower, radar, aircraft, otherAircraft

Asks(from, to, callsign) == [callsign |-> callsign, from |-> from, to |-> to]

MCRequests == {Asks(tower, radar, aircraft), Asks(otherTower, radar, aircraft),
               Asks(otherTower, radar, otherAircraft), Asks(radar, tower, aircraft)}
===============================================================================
