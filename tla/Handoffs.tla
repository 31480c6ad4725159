-------------------------------- MODULE Handoffs --------------------------------
(***************************************************************************)
(* The controller a departure is handed to (src/src/plugin/handoff).  The   *)
(* answer for a flightplan is kept in a cache.  It is dropped, and found     *)
(* again, when the flightplan or the runways change, and when a callsign    *)
(* comes or goes that is thought to matter for it.                          *)
(***************************************************************************)
EXTENDS ActiveCallsigns, Departures, SequencesExt

CONSTANTS SidOrder,        \* the hierarchy of positions for the SID of a route
          AirfieldOrder,   \* the hierarchy for its airfield
          Unicom

ASSUME OrdersAssumption ==
    /\ SidOrder \in [Routes -> Seq(Positions)]
    /\ AirfieldOrder \in [Routes -> Seq(Positions)]
    /\ Unicom \notin Positions \cup {NoPosition}

VARIABLE handoffs          \* DefaultDepartureHandoffResolver::cache

NotCached == [to |-> NoPosition]
Resolved == [to : Positions \cup {Unicom}, sid : {SidOrder[r] : r \in Routes},
             airfield : {AirfieldOrder[r] : r \in Routes}]

\* ResolveController: the first active position, unicom if that is the user,
\* NoPosition if none is active
ResolveController(cs, order) ==
    LET first == SelectInSeq(order, LAMBDA p : PositionActive(cs, p))
    IN  IF first = 0 THEN NoPosition
        ELSE IF UserLeads(cs, order[first]) THEN Unicom ELSE order[first]

\* DefaultDepartureHandoffResolutionStrategy::Resolve
NextController(cs, route) ==
    LET sid == ResolveController(cs, SidOrder[route])
        airfield == ResolveController(cs, AirfieldOrder[route])
    IN  IF sid # NoPosition THEN sid
        ELSE IF airfield # NoPosition THEN airfield ELSE Unicom

Handoff(cs, route) == [to |-> NextController(cs, route), sid |-> SidOrder[route],
                       airfield |-> AirfieldOrder[route]]

\* The resolver's Resolve, for what is (or is not) cached
Resolve(cs, route, cached) == IF cached = NotCached THEN Handoff(cs, route) ELSE cached

PositionPreceeds(order, p, q) ==
    LET first == SelectInSeq(order, LAMBDA r : r \in {p, q})
    IN  first # 0 /\ order[first] = p

\* Broken: the hierarchies are read from the wrong end.
ShouldInvalidateOnLowerAdded(h, p) ==
    IF h.to \in Range(h.sid) THEN PositionPreceeds(h.sid, h.to, p)
    ELSE \/ p \in Range(h.sid)
         \/ IF h.to \in Range(h.airfield) THEN PositionPreceeds(h.airfield, h.to, p)
            ELSE p \in Range(h.airfield)

ShouldInvalidateOnCallsignAdded(h, p) ==
    IF h.to \in Range(h.sid) THEN PositionPreceeds(h.sid, p, h.to)
    ELSE \/ p \in Range(h.sid)
         \/ IF h.to \in Range(h.airfield) THEN PositionPreceeds(h.airfield, p, h.to)
            ELSE p \in Range(h.airfield)

\* Every flightplan online is resolved, and again if what it had may be wrong.
HandoffsRechecked(ho, cs, fl, Wrong(_)) ==
    [f \in Flightplans |->
        IF f \notin Online(fl) THEN ho[f]
        ELSE LET h == Resolve(cs, fl.route[f], ho[f])
             IN  IF Wrong(h) THEN Handoff(cs, fl.route[f]) ELSE h]

HandoffsOnAdded(ho, cs, fl, p) ==
    HandoffsRechecked(ho, cs, fl, LAMBDA h : ShouldInvalidateOnCallsignAdded(h, p))
HandoffsOnRemoved(ho, cs, fl, p) == HandoffsRechecked(ho, cs, fl, LAMBDA h : h.to = p)
HandoffsOnRunways(ho, cs, fl) == HandoffsRechecked(ho, cs, fl, LAMBDA h : TRUE)

HandoffsOnFlush(ho, fl) ==
    [f \in Flightplans |-> IF f \in Online(fl) THEN NotCached ELSE ho[f]]
===============================================================================
