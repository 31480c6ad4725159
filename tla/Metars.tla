--------------------------------- MODULE Metars ---------------------------------
(***************************************************************************)
(* METARs and pressures (src/src/plugin/metar).  The EuroScope thread,     *)
(* which processes the push events, and the worker that fetches all METARs *)
(* after synchronisation both store one METAR at a time and then tell the  *)
(* pressure monitor of it; the collection is locked for each access, the   *)
(* monitor not at all.  A METAR is represented by its pressure.            *)
(***************************************************************************)
EXTENDS Naturals, Sequences, SequencesExt

CONSTANTS MetarAirfields, Pressures,
          NoPressure,           \* a METAR whose pressure cannot be read
          NoMetar, NoItem,
          MaxMetarEvents        \* bound: push events on their way

Metar == Pressures \cup {NoPressure}
MetarOf == [of : MetarAirfields, metar : Metar]

ASSUME MetarsAssumption ==
    /\ NoPressure \notin Pressures
    /\ NoMetar \notin Metar
    /\ NoItem \notin MetarOf
    /\ MaxMetarEvents \in Nat

VARIABLES metars,            \* ParsedMetarCollection
          pressures,         \* PressureMonitor
          pressureToldOf,    \* the pressure the user was last told of
          metarsAtApi,       \* external: the latest METARs
          metarEvents,       \* push events not processed yet
          metarFetch,        \* the task of the synchronisation
          metarsFetched,     \* the METARs it has still to store
          metarItem,         \* per thread, the METAR stored and not yet told the monitor
          metarsOvertaken,   \* history: a newer METAR came before a fetched one
          metarsCrossed      \* history: nothing since put right what may be old

metarsHistory == <<metarsOvertaken, metarsCrossed>>
metarsVars == <<metars, pressures, pressureToldOf, metarsAtApi, metarEvents, metarFetch,
                metarsFetched, metarItem, metarsHistory>>

MetarThreads == {"push", "sync"}
NoneFetched == [a \in MetarAirfields |-> NoMetar]
MetarUnderWay(w, a) == metarItem[w] # NoItem /\ metarItem[w].of = a

\* The first half of ProcessMetarsUpdatedJson, for one METAR
UpdateMetar(w, item) ==
    /\ metarItem[w] = NoItem
    /\ metars' = [metars EXCEPT ![item.of] = item.metar]
    /\ metarItem' = [metarItem EXCEPT ![w] = item]
    /\ UNCHANGED <<pressures, pressureToldOf, metarsAtApi>>

ProcessMetarEvent ==
    /\ metarEvents # <<>>
    /\ UpdateMetar("push", Head(metarEvents))
    /\ metarEvents' = Tail(metarEvents)
    /\ LET a == Head(metarEvents).of
       IN  metarsOvertaken' = IF metarsFetched[a] # NoMetar \/ MetarUnderWay("sync", a)
                              THEN metarsOvertaken \cup {a} ELSE metarsOvertaken
    /\ UNCHANGED <<metarFetch, metarsFetched, metarsCrossed>>

StoreFetchedMetar(a) ==
    /\ metarsFetched[a] # NoMetar
    /\ UpdateMetar("sync", [of |-> a, metar |-> metarsFetched[a]])
    /\ metarsFetched' = [metarsFetched EXCEPT ![a] = NoMetar]
    /\ metarsOvertaken' = IF MetarUnderWay("push", a) THEN metarsOvertaken \cup {a}
                          ELSE metarsOvertaken
    /\ UNCHANGED <<metarEvents, metarFetch, metarsCrossed>>

\* Broken: the pressure is kept only if the user wants to be told.
MetarUpdatedIfWanted(w, wanted) ==
    /\ metarItem[w] # NoItem
    /\ LET a == metarItem[w].of
           p == metarItem[w].metar
       IN  /\ pressures' = IF p = NoPressure \/ ~wanted THEN pressures
                           ELSE [pressures EXCEPT ![a] = p]
           /\ pressureToldOf' = IF wanted /\ p # NoPressure /\ pressures[a] \notin {NoPressure, p}
                                THEN [pressureToldOf EXCEPT ![a] = p] ELSE pressureToldOf
           /\ metarsCrossed' = IF a \in metarsOvertaken THEN metarsCrossed \cup {a}
                               ELSE metarsCrossed \ {a}
    /\ metarItem' = [metarItem EXCEPT ![w] = NoItem]
    /\ UNCHANGED <<metars, metarsAtApi, metarEvents, metarFetch, metarsFetched, metarsOvertaken>>

\* PressureMonitor.MetarUpdated: a METAR without a pressure changes nothing.
MetarUpdated(w, wanted) ==
    /\ metarItem[w] # NoItem
    /\ LET a == metarItem[w].of
           p == metarItem[w].metar
       IN  /\ pressures' = IF p = NoPressure THEN pressures ELSE [pressures EXCEPT ![a] = p]
           /\ pressureToldOf' = IF wanted /\ p # NoPressure /\ pressures[a] \notin {NoPressure, p}
                                THEN [pressureToldOf EXCEPT ![a] = p] ELSE pressureToldOf
           /\ metarsCrossed' = IF a \in metarsOvertaken THEN metarsCrossed \cup {a}
                               ELSE metarsCrossed \ {a}
           /\ metarsOvertaken' =
                IF \/ metarsFetched[a] # NoMetar
                   \/ \E v \in MetarThreads \ {w} : MetarUnderWay(v, a)
                THEN metarsOvertaken ELSE metarsOvertaken \ {a}
    /\ metarItem' = [metarItem EXCEPT ![w] = NoItem]
    /\ UNCHANGED <<metars, metarsAtApi, metarEvents, metarFetch, metarsFetched>>

MetarsSynced ==
    /\ metarFetch = "none"
    /\ metarFetch' = "asked"
    /\ UNCHANGED <<metars, pressures, pressureToldOf, metarsAtApi, metarEvents, metarsFetched,
                   metarItem, metarsHistory>>

GetAllMetarsAnswered ==
    /\ metarFetch = "asked"
    /\ metarFetch' = "storing"
    /\ metarsFetched' = metarsAtApi
    /\ UNCHANGED <<metars, pressures, pressureToldOf, metarsAtApi, metarEvents, metarItem,
                   metarsHistory>>

\* All stored, or the call failed
MetarTaskEnds ==
    /\ \/ metarFetch = "asked"
       \/ metarFetch = "storing" /\ metarsFetched = NoneFetched /\ metarItem["sync"] = NoItem
    /\ metarFetch' = "none"
    /\ UNCHANGED <<metars, pressures, pressureToldOf, metarsAtApi, metarEvents, metarsFetched,
                   metarItem, metarsHistory>>

\* External
MetarPublished(a, m) ==
    /\ Len(metarEvents) < MaxMetarEvents
    /\ metarsAtApi' = [metarsAtApi EXCEPT ![a] = m]
    /\ metarEvents' = Append(metarEvents, [of |-> a, metar |-> m])
    /\ UNCHANGED <<metars, pressures, pressureToldOf, metarFetch, metarsFetched, metarItem,
                   metarsHistory>>

MetarsInit ==
    /\ metars = NoneFetched
    /\ pressures = [a \in MetarAirfields |-> NoPressure]
    /\ pressureToldOf = [a \in MetarAirfields |-> NoPressure]
    /\ metarsAtApi \in [MetarAirfields -> Metar \cup {NoMetar}]
    /\ metarEvents = <<>>
    /\ metarFetch = "none"
    /\ metarsFetched = NoneFetched
    /\ metarItem = [w \in MetarThreads |-> NoItem]
    /\ metarsOvertaken = {}
    /\ metarsCrossed = MetarAirfields

MetarsNext ==
    \/ ProcessMetarEvent
    \/ \E a \in MetarAirfields : StoreFetchedMetar(a)
    \/ \E w \in MetarThreads, wanted \in BOOLEAN : MetarUpdated(w, wanted)
    \/ MetarsSynced
    \/ GetAllMetarsAnswered
    \/ MetarTaskEnds
    \/ \E a \in MetarAirfields, m \in Metar : MetarPublished(a, m)

MetarsSpec == MetarsInit /\ [][MetarsNext]_metarsVars

MetarsTypeOK ==
    /\ metars \in [MetarAirfields -> Metar \cup {NoMetar}]
    /\ pressures \in [MetarAirfields -> Metar]
    /\ pressureToldOf \in [MetarAirfields -> Metar]
    /\ metarsAtApi \in [MetarAirfields -> Metar \cup {NoMetar}]
    /\ metarEvents \in Seq(MetarOf)
    /\ metarFetch \in {"none", "asked", "storing"}
    /\ metarsFetched \in [MetarAirfields -> Metar \cup {NoMetar}]
    /\ metarItem \in [MetarThreads -> MetarOf \cup {NoItem}]
    /\ metarsOvertaken \subseteq MetarAirfields
    /\ metarsCrossed \subseteq MetarAirfields

MetarSettled(a) ==
    /\ \A e \in Range(metarEvents) : e.of # a
    /\ metarsFetched[a] = NoMetar
    /\ \A w \in MetarThreads : ~MetarUnderWay(w, a)

(* Once nothing is on its way for an airfield its METAR is the latest, and *)
(* the pressure the monitor compares with is that METAR's, unless the two  *)
(* threads met at this airfield and no METAR has come since.               *)
MetarsConverge ==
    \A a \in MetarAirfields : MetarSettled(a) /\ a \notin metarsCrossed =>
        /\ metars[a] = metarsAtApi[a]
        /\ metars[a] # NoPressure => pressures[a] = metars[a]
===============================================================================
