------------------------------ MODULE Controllers ------------------------------
(***************************************************************************)
(* The controllers online and what the plugin derives from them, all on    *)
(* the EuroScope thread.  EuroScope reports a controller; the monitor      *)
(* changes the active callsigns; the collection calls its handlers in the  *)
(* order they were registered (ownership, initial altitudes, handoffs);    *)
(* and for the user's own report Login then looks at the connection, and   *)
(* empties the collection if the user has logged out.  One action is one   *)
(* call of EuroScope, with all of this.  A world holds what such a call    *)
(* changes, and the operators below are the steps of the call.             *)
(***************************************************************************)
EXTENDS InitialAltitude

CONSTANTS Unset,         \* a report without an active primary frequency
          Unmatched,     \* a frequency no position of the callsign has
          Automatic,     \* the user's setting userAutomaticAssignmentsAllowed
          Kinds,         \* bound: the connection types used
          Typed          \* bound: the levels a controller types in

ASSUME EnvironmentAssumption ==
    /\ {Unset, Unmatched} \cap (Positions \cup {NoPosition}) = {}
    /\ Automatic \in BOOLEAN
    /\ Kinds \subseteq {"playback", "proxy", "direct"}
    /\ Typed \subseteq {NoLevel, OtherLevel}

VARIABLES connection,    \* EuroScope's connection type
          me,            \* the user's callsign while connected
          login,         \* Login: the status seen, and how long ago the login was
          dangling       \* handlers have been called with a destroyed callsign

world == <<callsigns, owners, handoffs, flightplans, alreadySet, dangling>>
controllersVars == <<world, alreadyDeparted, connection, me, login>>

Connections == Kinds \cup {"none"}
NotDeparted == "not departed"

\* Broken: only at exactly that many seconds.
SettledOnce == {"five"}

Settled == {"five", "ten"}       \* at least that many seconds
Login == [seen : Connections, since : {"out", "new"} \cup Settled]

LoggedIn(lg) == lg.seen = "direct"

Now == [cs |-> callsigns, ow |-> owners, ho |-> handoffs, fl |-> flightplans,
        set |-> alreadySet, bad |-> dangling]
Becomes(w) ==
    /\ callsigns' = w.cs   /\ owners' = w.ow       /\ handoffs' = w.ho
    /\ flightplans' = w.fl /\ alreadySet' = w.set  /\ dangling' = w.bad

\* InitialAltitudeEventHandler::FlightPlanEvent for each of the flightplans
Assigned(w, lg, fs) ==
    LET due == {f \in fs \cap Online(w.fl) : /\ Automatic /\ LoggedIn(lg)
                                             /\ lg.since \in Settled
                                             /\ MayAssign(f, w.fl, w.set, w.ow)}
    IN  [w EXCEPT !.fl = WithLevel(@, due), !.set = WithSet(@, w.fl, due)]

\* AddCallsign and AddUserCallsign, from the insertion on
Joined(w, c, p, isUser, lg) ==
    LET cs == AddCallsign(w.cs, c, p, isUser)
        owned == [w EXCEPT !.cs = cs, !.ow = RefreshOwners(@, cs, p)]
        levelled == IF isUser THEN Assigned(owned, lg, Flightplans) ELSE owned
    IN  [levelled EXCEPT !.ho = HandoffsOnAdded(@, cs, w.fl, p)]

\* RemoveCallsign, the handlers being told that position `told' is left
Left(w, c, told) ==
    LET cs == RemoveCallsign(w.cs, c)
    IN  [w EXCEPT !.cs = cs,
                  !.ow = IF told = NoPosition THEN @ ELSE RefreshOwners(@, cs, told),
                  !.ho = HandoffsOnRemoved(@, cs, w.fl, told)]

Flushed(w) == [w EXCEPT !.cs = NoneActive, !.ow = NoOwners,
                        !.ho = HandoffsOnFlush(@, w.fl)]

\* AddUserCallsign first removes the user's old callsign through a reference
\* into the entry it destroys: the handlers read the old position, or anything.
Replaced(w) ==
    LET old == w.cs.user
    IN  IF old = NoCallsign THEN {w}
        ELSE {[Left(w, old, told) EXCEPT !.bad = TRUE] :
                 told \in {w.cs.covering[old], NoPosition}}

\* Login::TimedEventTrigger
Seen(lg) ==
    [seen |-> connection,
     since |-> IF lg.seen # "direct" /\ connection = "direct" THEN "new"
               ELSE IF lg.seen = "direct" /\ connection # "direct" THEN "out"
               ELSE lg.since]
LoginChecked(w, lg) ==
    IF lg.seen = "direct" /\ connection # "direct" THEN Flushed(w) ELSE w

\* The collection once ControllerUpdateEvent has dealt with the report f of c
Reported(w, c, f, isUser) ==
    LET known == CallsignActive(w.cs, c)
        gone == IF known /\ f # w.cs.covering[c] THEN Left(w, c, w.cs.covering[c]) ELSE w
    IN  IF f \notin Positions \/ (known /\ f = w.cs.covering[c]) THEN {gone}
        ELSE IF isUser THEN {Joined(r, c, f, TRUE, login) : r \in Replaced(gone)}
        ELSE {Joined(gone, c, f, FALSE, login)}

ControllerUpdateEvent(c, f) ==
    /\ connection # "none"
    /\ \E w \in Reported(Now, c, f, c = me) :
          IF c = me THEN /\ Becomes(LoginChecked(w, login))
                         /\ login' = Seen(login)
          ELSE Becomes(w) /\ UNCHANGED login
    /\ UNCHANGED <<alreadyDeparted, connection, me>>

\* EuroScope never reports the user's own disconnection.
ControllerDisconnectEvent(c) ==
    /\ connection # "none"
    /\ c # me
    /\ CallsignActive(callsigns, c)
    /\ Becomes(Left(Now, c, callsigns.covering[c]))
    /\ UNCHANGED <<alreadyDeparted, connection, me, login>>

LoginTick ==
    /\ login.seen # connection
    /\ Becomes(LoginChecked(Now, login))
    /\ login' = Seen(login)
    /\ UNCHANGED <<alreadyDeparted, connection, me>>

\* InitialAltitudeEventHandler::TimedEventTrigger
AssignmentTick ==
    /\ callsigns.user # NoCallsign
    /\ Assigned(Now, login, Flightplans) # Now
    /\ Becomes(Assigned(Now, login, Flightplans))
    /\ UNCHANGED <<alreadyDeparted, connection, me, login>>

HasDeparted(f) == /\ flightplans.stage[f] \in {"departing", "handed"}
                  /\ alreadyDeparted[f] = NotDeparted

\* DepartureMonitor::TimedEventTrigger, with the events it raises
DepartureTick ==
    LET fl == flightplans
        leaving == {f \in Online(fl) : HasDeparted(f)}
        resolved == [f \in Flightplans |->
                       IF f \in leaving THEN Resolve(callsigns, fl.route[f], handoffs[f])
                       ELSE handoffs[f]]
        emptied == {f \in leaving : ShouldClear(f, fl, resolved, owners) /\ ClearsLevel(f, fl)}
    IN  /\ login.since = "ten"
        /\ leaving # {}
        /\ alreadyDeparted' = [f \in Flightplans |->
             IF f \in leaving THEN Origin[fl.route[f]] ELSE alreadyDeparted[f]]
        /\ handoffs' = resolved
        /\ flightplans' = [fl EXCEPT !.cleared = [f \in Flightplans |->
             IF f \in emptied THEN NoLevel ELSE fl.cleared[f]]]
        /\ UNCHANGED <<callsigns, owners, alreadySet, dangling,
                       connection, me, login>>

\* The flightplan handlers, in their order: initial altitudes, handoffs, departures
FlightPlanEvent(f, r) ==
    LET filed == [Now EXCEPT !.fl.route[f] = r]
        w == Assigned(filed, login, {f})
    IN  /\ connection # "none"
        /\ Becomes([w EXCEPT !.ho[f] = Handoff(callsigns, r)])
        /\ alreadyDeparted' = [alreadyDeparted EXCEPT ![f] =
             IF @ = Origin[r] THEN @ ELSE NotDeparted]
        /\ UNCHANGED <<connection, me, login>>

FlightPlanDisconnectEvent(f) ==
    /\ f \in Online(flightplans)
    /\ flightplans' = [flightplans EXCEPT !.route[f] = NotOnline, !.stage[f] = "away",
                                         !.cleared[f] = NoLevel]
    /\ alreadySet' = [alreadySet EXCEPT ![f] = NoRoute]
    /\ handoffs' = [handoffs EXCEPT ![f] = NotCached]
    /\ alreadyDeparted' = [alreadyDeparted EXCEPT ![f] = NotDeparted]
    /\ UNCHANGED <<callsigns, owners, dangling, connection, me, login>>

\* The tag item of the next controller is drawn.
SetTagItemData(f) ==
    /\ f \in Online(flightplans)
    /\ handoffs' = [handoffs EXCEPT ![f] = Resolve(callsigns, flightplans.route[f], @)]
    /\ UNCHANGED <<callsigns, owners, flightplans, alreadySet, dangling,
                   alreadyDeparted, connection, me, login>>

\* The runways in use decide the SIDs of flightplans that name none: the routes
\* change without a flightplan event.
RunwayDialogSaved(routes) ==
    LET fl == [flightplans EXCEPT !.route = routes]
    IN  /\ \A f \in Flightplans :
             IF f \in Online(flightplans)
             THEN routes[f] # NotOnline /\ Origin[routes[f]] = Origin[flightplans.route[f]]
             ELSE routes[f] = NotOnline
        /\ flightplans' = fl
        /\ handoffs' = HandoffsOnRunways(handoffs, callsigns, fl)
        /\ UNCHANGED <<callsigns, owners, alreadySet, dangling,
                       alreadyDeparted, connection, me, login>>

RecycleInitialAltitude(f) ==
    LET r == flightplans.route[f]
    IN  /\ f \in Online(flightplans)
        /\ flightplans.stage[f] \in {"parked", "departing"}
        /\ SidLevel[r] # NoLevel
        /\ flightplans' = [flightplans EXCEPT !.cleared[f] = SidLevel[r]]
        /\ alreadySet' = [alreadySet EXCEPT ![f] = r]
        /\ UNCHANGED <<callsigns, owners, handoffs, dangling,
                       alreadyDeparted, connection, me, login>>

-------------------------------------------------------------------------------
(* What happens around the plugin *)

Connect(kind, c) ==
    /\ connection = "none"
    /\ connection' = kind
    /\ me' = IF kind = "playback" THEN NoCallsign ELSE c
    /\ UNCHANGED <<world, alreadyDeparted, login>>

Disconnect ==
    /\ connection # "none"
    /\ connection' = "none"
    /\ me' = NoCallsign
    /\ UNCHANGED <<world, alreadyDeparted, login>>

TimePasses ==
    /\ login.since \in {"new", "five"}
    /\ login' = [login EXCEPT !.since = IF @ = "new" THEN "five" ELSE "ten"]
    /\ UNCHANGED <<world, alreadyDeparted, connection, me>>

\* An aircraft moves on, or a controller types another level.
Moves(f, stage, level) ==
    /\ f \in Online(flightplans)
    /\ level \in Typed \cup {flightplans.cleared[f]}
    /\ flightplans' = [flightplans EXCEPT !.stage[f] = stage, !.cleared[f] = level]
    /\ UNCHANGED <<callsigns, owners, handoffs, alreadySet, dangling,
                   alreadyDeparted, connection, me, login>>

-------------------------------------------------------------------------------

ControllersInit ==
    /\ callsigns = NoneActive
    /\ owners = NoOwners
    /\ handoffs = [f \in Flightplans |-> NotCached]
    /\ flightplans = [route   |-> [f \in Flightplans |-> NotOnline],
                      stage   |-> [f \in Flightplans |-> "away"],
                      cleared |-> [f \in Flightplans |-> NoLevel]]
    /\ alreadySet = [f \in Flightplans |-> NoRoute]
    /\ alreadyDeparted = [f \in Flightplans |-> NotDeparted]
    /\ connection = "none"
    /\ me = NoCallsign
    /\ login = [seen |-> "none", since |-> "out"]
    /\ dangling = FALSE

ControllersNext ==
    \/ \E c \in Callsigns, f \in Positions \cup {Unset, Unmatched} : ControllerUpdateEvent(c, f)
    \/ \E c \in Callsigns : ControllerDisconnectEvent(c)
    \/ LoginTick
    \/ AssignmentTick
    \/ DepartureTick
    \/ \E f \in Flightplans, r \in Routes : FlightPlanEvent(f, r)
    \/ \E f \in Flightplans : FlightPlanDisconnectEvent(f)
    \/ \E f \in Flightplans : SetTagItemData(f)
    \/ \E routes \in [Flightplans -> Routes \cup {NotOnline}] : RunwayDialogSaved(routes)
    \/ \E f \in Flightplans : RecycleInitialAltitude(f)
    \/ \E kind \in Kinds, c \in Callsigns : Connect(kind, c)
    \/ Disconnect
    \/ TimePasses
    \/ \E f \in Flightplans, stage \in Stages, level \in Levels : Moves(f, stage, level)

ControllersSpec == ControllersInit /\ [][ControllersNext]_controllersVars

-------------------------------------------------------------------------------

ControllersTypeOK ==
    /\ callsigns \in Collection
    /\ owners \in [Airfields -> SUBSET Provision]
    /\ handoffs \in [Flightplans -> Resolved \cup {NotCached}]
    /\ flightplans \in Listed
    /\ alreadySet \in [Flightplans -> Routes \cup {NoRoute}]
    /\ alreadyDeparted \in [Flightplans -> Airfields \cup {NotDeparted}]
    /\ connection \in Connections
    /\ me \in Callsigns \cup {NoCallsign}
    /\ login \in Login
    /\ dangling \in BOOLEAN

(* The indexes of the collection agree: a callsign is at the position it   *)
(* covers and at no other, and the iterator to the user's entry refers to  *)
(* the one active entry that is marked as the user's.                      *)
CallsignsAgree ==
    /\ \A c \in Callsigns, p \in Positions :
          c \in callsigns.at[p] <=> callsigns.covering[c] = p
    /\ callsigns.flagged = {callsigns.user} \ {NoCallsign}
    /\ \A c \in callsigns.flagged : CallsignActive(callsigns, c)

(* The providers stored for an airfield, lead callsigns and user flags     *)
(* included, are those the controllers online now would be given, however  *)
(* many came and went, as long as no handler was given a destroyed         *)
(* callsign.                                                               *)
OwnersFollowCallsigns ==
    dangling \/ \A a \in Airfields : owners[a] = GetServiceProviders(callsigns, a)

\* p is the first of the active positions that can.
FirstWho(Can(_), p, active, a) ==
    LET first == SelectInSeq(TopDownOrder[a], LAMBDA q : q \in DOMAIN active /\ Can(q))
    IN  first # 0 /\ p = TopDownOrder[a][first]

TypeOnline(type, active) == \E q \in DOMAIN active : TypeOf[q] = type

\* What the comment above GetServiceProvidersAtAirfield says of a controller:
\* each service is for those of its type if one is online, of approach
\* controllers the first alone being the final one, and for the first who
\* can in their absence.
DocumentedServices(p, active, a) ==
    {s \in Services :
        CASE s = "Delivery" -> FirstWho(LAMBDA q : TRUE, p, active, a)
          [] s = "Ground" -> IF TypeOnline("GND", active) THEN TypeOf[p] = "GND"
                             ELSE FirstWho(ProvidesGroundServices, p, active, a)
          [] s = "Tower" -> IF TypeOnline("TWR", active) THEN TypeOf[p] = "TWR"
                            ELSE FirstWho(ProvidesTowerServices, p, active, a)
          [] s = "FinalApproach" ->
                IF TypeOnline("APP", active) THEN FirstWho(LAMBDA q : TypeOf[q] = "APP", p, active, a)
                ELSE FirstWho(ProvidesApproachServices, p, active, a)
          [] s = "Approach" -> IF TypeOnline("APP", active) THEN TypeOf[p] = "APP"
                               ELSE FirstWho(ProvidesApproachServices, p, active, a)}

Height == [DEL |-> 1, GND |-> 2, TWR |-> 3, APP |-> 4, CTR |-> 5, FSS |-> 6]
LowestFirst(active, a) ==
    LET order == TopDownOrder[a]
    IN  \A m, n \in 1..Len(order) :
            order[m] \in DOMAIN active /\ order[n] \in DOMAIN active /\ m < n =>
                Height[TypeOf[order[m]]] <= Height[TypeOf[order[n]]]

(* The services stored for an airfield are those the comment describes,    *)
(* and no others, unless one of those online stands before another of a    *)
(* lower type in the airfield's order.  Then the code keeps to the order   *)
(* and not to the comment: an enroute controller who comes before the only *)
(* approach one provides final approach.                                   *)
ServicesAsDocumented ==
    dangling \/ \A a \in Airfields :
        LET active == ActiveControllers(callsigns, a)
        IN  LowestFirst(active, a) =>
               owners[a] = UNION {{ProvidedBy(active, p, s) : s \in DocumentedServices(p, active, a)} :
                                  p \in DOMAIN active}

(* A cached handoff to a controller is the one that would be found now.    *)
(* Only "unicom" can be out of date: it is not looked at again when the    *)
(* user, who hands over to himself, leaves the position it stood for.      *)
HandoffsToControllersCurrent ==
    dangling \/ \A f \in Online(flightplans) :
        handoffs[f] # NotCached =>
            handoffs[f].to \in {NextController(callsigns, flightplans.route[f]), Unicom}

(* UserShouldClearDepartureDataMonitor: "dont do it if there's a handoff   *)
(* currently present".  A departing aircraft keeps its level when a        *)
(* controller is online to hand it to.                                     *)
LevelKeptForNextController ==
    [][DepartureTick /\ ~dangling => \A f \in Flightplans :
          flightplans'.cleared[f] # flightplans.cleared[f] =>
              NextController(callsigns, flightplans.route[f]) = Unicom]_controllersVars

\* The conditions of an automatic assignment, as they are in truth
Assignable(f) ==
    /\ f \in Online(flightplans)
    /\ connection = "direct"
    /\ callsigns.user # NoCallsign
    /\ MayAssign(f, flightplans, alreadySet, owners)

(* Assignments put off because the user has only just logged in are made   *)
(* up for: no aircraft stays due for its initial altitude for ever.        *)
InitialAltitudesAssigned == \A f \in Flightplans : []<>~Assignable(f)

ControllersFairness ==
    /\ WF_controllersVars(LoginTick)
    /\ WF_controllersVars(TimePasses)
    /\ WF_controllersVars(AssignmentTick)

ControllersFairSpec == ControllersSpec /\ ControllersFairness
===============================================================================
