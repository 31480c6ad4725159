------------------------------- MODULE PushProxy -------------------------------
(***************************************************************************)
(* Push events by proxy (src/src/plugin/push/PushEventProxy*,              *)
(* ProxyPushDataSync).  Of several instances of the plugin on a machine    *)
(* only the first polls the API.  It passes each event on to the hidden    *)
(* windows of the others, which queue it for their own                     *)
(* PushEventProtocolHandler and fetch by themselves, once, what the API    *)
(* held before.  A window's messages and the timed events of its instance  *)
(* are handled by one thread, so the events queued are handed out together.*)
(***************************************************************************)
EXTENDS PushEvents, SequencesExt

CONSTANTS Proxies,        \* the instances that do not poll
          ProxyHandler    \* the processor PushEventProxyHandler of the first

ASSUME ProxyAssumption == ProxyHandler \in ByAll

VARIABLES proxyOpen,      \* the instances whose hidden window exists
          proxySynced,    \* ProxyPushDataSync::synced
          proxyLoaded,    \* history: the last event the API knew when it
                          \* answered the fetches of the sync, -1 before
          proxyMessages,  \* PushEventProxyConnection::messages
          proxyReceived,  \* history: what was handed to an instance's processors
          attachedAt      \* history: the event id the first instance began after

proxyVars == <<proxyOpen, proxySynced, proxyLoaded, proxyMessages, proxyReceived>>
allVars == <<vars, proxyVars, attachedAt>>

ProxyInit ==
    /\ Init
    /\ proxyOpen = {}
    /\ proxySynced = {}
    /\ proxyLoaded = [q \in Proxies |-> -1]
    /\ proxyMessages = [q \in Proxies |-> <<>>]
    /\ proxyReceived = [q \in Proxies |-> <<>>]
    /\ attachedAt = -1

\* PushEventProxyHandler::ProcessPushEvent, if it is called in this step, writes
\* to every window that EnumerateWindows finds by its name.
SendToWindows ==
    proxyMessages' =
        [q \in Proxies |->
            IF q \in proxyOpen /\ received'[ProxyHandler] # received[ProxyHandler]
            THEN Append(proxyMessages[q], Last(received'[ProxyHandler]))
            ELSE proxyMessages[q]]

\* A step of the first instance or the API
MainStep ==
    /\ Next
    /\ SendToWindows
    /\ attachedAt' = IF cursor = -1 THEN cursor' ELSE attachedAt
    /\ UNCHANGED <<proxyOpen, proxySynced, proxyLoaded, proxyReceived>>

\* PushEventProxyConnection()
ProxyStarts(q) ==
    /\ q \notin proxyOpen
    /\ proxyOpen' = proxyOpen \cup {q}
    /\ UNCHANGED <<vars, proxySynced, proxyLoaded, proxyMessages, proxyReceived, attachedAt>>

\* ~PushEventProxyConnection, with its instance
ProxyCloses(q) ==
    /\ q \in proxyOpen
    /\ proxyOpen' = proxyOpen \ {q}
    /\ proxySynced' = proxySynced \ {q}
    /\ proxyLoaded' = [proxyLoaded EXCEPT ![q] = -1]
    /\ proxyMessages' = [proxyMessages EXCEPT ![q] = <<>>]
    /\ proxyReceived' = [proxyReceived EXCEPT ![q] = <<>>]
    /\ UNCHANGED <<vars, attachedAt>>

\* ProxyPushDataSync::TimedEventTrigger: the processors queue their fetches.
SyncProxy(q) ==
    /\ q \in proxyOpen \ proxySynced
    /\ proxySynced' = proxySynced \cup {q}
    /\ UNCHANGED <<vars, proxyOpen, proxyLoaded, proxyMessages, proxyReceived, attachedAt>>

\* The API answers the fetches.  When it does not nobody asks again.
LoadProxy(q) ==
    /\ q \in proxySynced
    /\ proxyLoaded[q] = -1
    /\ proxyLoaded' = [proxyLoaded EXCEPT ![q] = published]
    /\ UNCHANGED <<vars, proxyOpen, proxySynced, proxyMessages, proxyReceived, attachedAt>>

\* Broken: GetNextMessage takes from the end the queue grows at.
DrainProxyNewestFirst(q) ==
    /\ proxyMessages[q] # <<>>
    /\ proxyReceived' = [proxyReceived EXCEPT ![q] = @ \o Reverse(proxyMessages[q])]
    /\ proxyMessages' = [proxyMessages EXCEPT ![q] = <<>>]
    /\ UNCHANGED <<vars, proxyOpen, proxySynced, proxyLoaded, attachedAt>>

\* PushEventProtocolHandler::TimedEventTrigger of the instance
DrainProxy(q) ==
    /\ proxyMessages[q] # <<>>
    /\ proxyReceived' = [proxyReceived EXCEPT ![q] = @ \o proxyMessages[q]]
    /\ proxyMessages' = [proxyMessages EXCEPT ![q] = <<>>]
    /\ UNCHANGED <<vars, proxyOpen, proxySynced, proxyLoaded, attachedAt>>

ProxyNext ==
    \/ MainStep
    \/ \E q \in Proxies : \/ ProxyStarts(q) \/ ProxyCloses(q)
                          \/ SyncProxy(q) \/ LoadProxy(q) \/ DrainProxy(q)

ProxySpec == ProxyInit /\ [][ProxyNext]_allVars /\ Fairness
-------------------------------------------------------------------------------

(* ProxyPushDataSync.h: "When proxy connections are created, we need to    *)
(* make sure their data is synced (more or less) with the API".  An        *)
(* instance that was answered gets, in order and once each, every event    *)
(* the first one handed out since, whenever it started, and only the       *)
(* events published before the first one began to poll escape it.          *)
ProxiesMissNothing ==
    \A q \in proxyOpen :
        LET got == proxyReceived[q] \o proxyMessages[q]
        IN  /\ \A i, j \in 1..Len(got) : i < j => got[i] < got[j]
            /\ \A e \in Usable :
                  /\ proxyLoaded[q] # -1 /\ proxyLoaded[q] < e
                  /\ attachedAt # -1 /\ attachedAt < e
                  /\ e <= cursor
                  => e \in Range(got)
===============================================================================
