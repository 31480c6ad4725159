---------------------------- MODULE EnrouteReleases ----------------------------
(***************************************************************************)
(* Enroute releases (src/src/plugin/releases, EnrouteRelease).  The user   *)
(* sets up an outgoing release for an aircraft he tracks, and the handoff  *)
(* sends it; the target of the handoff shows it as an incoming release.    *)
(* Both kinds are cleared by a timer three minutes later.                  *)
(***************************************************************************)
EXTENDS Naturals, Bags, BagsExt

CONSTANTS EnrouteAircraft, EnrouteControllers,
          EnrouteUser,         \* the user's callsign
          ReleaseTypes,
          ReleasePoints,
          NoReleasePoint,
          NoRelease,
          MaxEnrouteSends      \* bound: sends queued or on their way

ReleaseChoice == [type : ReleaseTypes, point : ReleasePoints \cup {NoReleasePoint}]
Release == [type : ReleaseTypes, point : ReleasePoints \cup {NoReleasePoint},
            clear : {"never", "later", "now"}]

ASSUME EnrouteAssumption ==
    /\ EnrouteUser \in EnrouteControllers
    /\ NoReleasePoint \notin ReleasePoints
    /\ NoRelease \notin Release \cup ReleaseChoice
    /\ MaxEnrouteSends \in Nat

VARIABLES outgoingReleases, incomingReleases,
          enrouteSends,        \* a bag: the tasks that send releases
          enrouteEvents,       \* a bag: releases broadcast and not processed yet
          enrouteSent          \* history: the release last sent since the user set it up

enrouteVars == <<outgoingReleases, incomingReleases, enrouteSends, enrouteEvents, enrouteSent>>

EnrouteMessage == [of : EnrouteAircraft, target : EnrouteControllers, release : ReleaseChoice]
Choice(r) == [type |-> r.type, point |-> r.point]

\* UpdateOutgoingReleaseType looks for an aircraft whose callsign is "callsign",
\* so that a new type always replaces the whole release.
UpdateOutgoingReleaseType(a, type) ==
    outgoingReleases' = [outgoingReleases EXCEPT
        ![a] = [type |-> type, point |-> NoReleasePoint, clear |-> "never"]]

ReleaseTypeSelected(a, type) ==
    /\ UpdateOutgoingReleaseType(a, type)
    /\ enrouteSent' = [enrouteSent EXCEPT ![a] = NoRelease]
    /\ UNCHANGED <<incomingReleases, enrouteSends, enrouteEvents>>

NoReleaseSelected(a) ==
    /\ outgoingReleases' = [outgoingReleases EXCEPT ![a] = NoRelease]
    /\ enrouteSent' = [enrouteSent EXCEPT ![a] = NoRelease]
    /\ UNCHANGED <<incomingReleases, enrouteSends, enrouteEvents>>

\* Broken: the release is made anew, as for a new type.
EditReleasePointAnew(a, point) ==
    /\ outgoingReleases[a] # NoRelease
    /\ outgoingReleases' = [outgoingReleases EXCEPT
         ![a] = [type |-> @.type, point |-> point, clear |-> "never"]]
    /\ UNCHANGED <<incomingReleases, enrouteSends, enrouteEvents, enrouteSent>>

\* A release point without a release is not taken.
EditReleasePoint(a, point) ==
    /\ outgoingReleases[a] # NoRelease
    /\ outgoingReleases' = [outgoingReleases EXCEPT ![a].point = point]
    /\ UNCHANGED <<incomingReleases, enrouteSends, enrouteEvents, enrouteSent>>

\* The user starts the transfer of an aircraft.
HandoffInitiated(a, target) ==
    /\ outgoingReleases[a] # NoRelease
    /\ BagCardinality(enrouteSends) + BagCardinality(enrouteEvents) < MaxEnrouteSends
    /\ enrouteSends' = BagAdd(enrouteSends, [of |-> a, target |-> target,
                                             release |-> Choice(outgoingReleases[a])])
    /\ outgoingReleases' = [outgoingReleases EXCEPT ![a].clear = "later"]
    /\ enrouteSent' = [enrouteSent EXCEPT ![a] = Choice(outgoingReleases[a])]
    /\ UNCHANGED <<incomingReleases, enrouteEvents>>

EnrouteReleaseSent(m) ==
    /\ enrouteSends' = BagRemove(enrouteSends, m)
    /\ enrouteEvents' = BagAdd(enrouteEvents, m)
    /\ UNCHANGED <<outgoingReleases, incomingReleases, enrouteSent>>

EnrouteReleaseNotSent(m) ==
    /\ enrouteSends' = BagRemove(enrouteSends, m)
    /\ UNCHANGED <<outgoingReleases, incomingReleases, enrouteEvents, enrouteSent>>

\* Only the target takes the release.
ProcessEnrouteEvent(m) ==
    /\ enrouteEvents' = BagRemove(enrouteEvents, m)
    /\ incomingReleases' = IF m.target # EnrouteUser THEN incomingReleases
                           ELSE [incomingReleases EXCEPT ![m.of] =
                                  [type |-> m.release.type, point |-> m.release.point,
                                   clear |-> "later"]]
    /\ UNCHANGED <<outgoingReleases, enrouteSends, enrouteSent>>

ClearDue(releases) ==
    [a \in EnrouteAircraft |-> IF releases[a] # NoRelease /\ releases[a].clear = "now"
                               THEN NoRelease ELSE releases[a]]

\* TimedEventTrigger
ClearEnrouteReleases ==
    /\ outgoingReleases' = ClearDue(outgoingReleases)
    /\ incomingReleases' = ClearDue(incomingReleases)
    /\ enrouteSent' = [a \in EnrouteAircraft |->
         IF outgoingReleases'[a] = NoRelease THEN NoRelease ELSE enrouteSent[a]]
    /\ UNCHANGED <<enrouteSends, enrouteEvents>>

\* Three minutes have passed since the clear time of the aircraft's releases was set.
EnrouteTimePasses(a) ==
    LET Due(r) == IF r # NoRelease /\ r.clear = "later" THEN [r EXCEPT !.clear = "now"] ELSE r
    IN  /\ \/ /\ outgoingReleases' = [outgoingReleases EXCEPT ![a] = Due(@)]
              /\ UNCHANGED incomingReleases
           \/ /\ incomingReleases' = [incomingReleases EXCEPT ![a] = Due(@)]
              /\ UNCHANGED outgoingReleases
        /\ UNCHANGED <<enrouteSends, enrouteEvents, enrouteSent>>

\* External: another controller hands an aircraft over with a release
OthersRelease(m) ==
    /\ BagCardinality(enrouteSends) + BagCardinality(enrouteEvents) < MaxEnrouteSends
    /\ enrouteEvents' = BagAdd(enrouteEvents, m)
    /\ UNCHANGED <<outgoingReleases, incomingReleases, enrouteSends, enrouteSent>>

EnrouteInit ==
    /\ outgoingReleases = [a \in EnrouteAircraft |-> NoRelease]
    /\ incomingReleases = [a \in EnrouteAircraft |-> NoRelease]
    /\ enrouteSends = EmptyBag
    /\ enrouteEvents = EmptyBag
    /\ enrouteSent = [a \in EnrouteAircraft |-> NoRelease]

EnrouteNext ==
    \/ \E a \in EnrouteAircraft, type \in ReleaseTypes : ReleaseTypeSelected(a, type)
    \/ \E a \in EnrouteAircraft : NoReleaseSelected(a)
    \/ \E a \in EnrouteAircraft, p \in ReleasePoints \cup {NoReleasePoint} : EditReleasePoint(a, p)
    \/ \E a \in EnrouteAircraft, c \in EnrouteControllers \ {EnrouteUser} : HandoffInitiated(a, c)
    \/ \E m \in BagToSet(enrouteSends) : EnrouteReleaseSent(m)
    \/ \E m \in BagToSet(enrouteSends) : EnrouteReleaseNotSent(m)
    \/ \E m \in BagToSet(enrouteEvents) : ProcessEnrouteEvent(m)
    \/ ClearEnrouteReleases
    \/ \E a \in EnrouteAircraft : EnrouteTimePasses(a)
    \/ \E m \in EnrouteMessage : OthersRelease(m)

EnrouteSpec == EnrouteInit /\ [][EnrouteNext]_enrouteVars

EnrouteTypeOK ==
    /\ outgoingReleases \in [EnrouteAircraft -> Release \cup {NoRelease}]
    /\ incomingReleases \in [EnrouteAircraft -> Release \cup {NoRelease}]
    /\ BagToSet(enrouteSends) \cup BagToSet(enrouteEvents) \subseteq EnrouteMessage
    /\ enrouteSent \in [EnrouteAircraft -> ReleaseChoice \cup {NoRelease}]

(* A release that was sent goes away by itself: whatever the user edits    *)
(* after the handoff, it keeps its time unless a type is selected anew,    *)
(* and one that was not sent is never cleared by the timer.                *)
SentReleasesClear ==
    \A a \in EnrouteAircraft :
        (outgoingReleases[a] # NoRelease /\ outgoingReleases[a].clear # "never")
            <=> enrouteSent[a] # NoRelease
===============================================================================
