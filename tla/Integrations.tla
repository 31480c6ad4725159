------------------------------ MODULE Integrations ------------------------------
(***************************************************************************)
(* The integration server (src/src/plugin/integration): programs connect   *)
(* over TCP, initialise with the events they subscribe to, send actions    *)
(* and hear events.  Each connection has a thread that reads, one that     *)
(* writes, and a stream for each under a lock; everything else runs on     *)
(* the EuroScope thread, but workers send events too (stands, missed       *)
(* approaches), also while a client is being initialised.                  *)
(*                                                                         *)
(* TCP cuts messages in pieces; here each arrives as two, of which the     *)
(* second ends with the delimiter.  Two kinds of event are told apart: the *)
(* state of a cached resolution (departure handoffs, intention codes),     *)
(* which a new client is brought up to date with, and notices, which are   *)
(* numbered.  What an action does is the business of its component: an     *)
(* "assignment" sends a notice before it is answered, an "action" does     *)
(* not.  No processor exists for "initialise" and "unknown"; "garbage" is  *)
(* no JSON.                                                                *)
(***************************************************************************)
EXTENDS Naturals, Functions, SequencesExt

CONSTANTS Sockets, NoSocket,
          Subscriptions,      \* what each asks for, of {"state", "notice"}
          MessageKinds,       \* the kinds of message the programs send here
          MaxMessages,        \* bound: messages a program sends
          MaxChanges,         \* bound: changes of what is resolved
          MaxNotices          \* bound: events sent by workers

ASSUME SocketsAssumption ==
    /\ NoSocket \notin Sockets
    /\ MaxMessages \in Nat /\ MaxChanges \in Nat /\ MaxNotices \in Nat

VARIABLES link,               \* "none", "waiting", "client" or "dropped"
          overdue,            \* INITIALISATION_TIMEOUT has passed
          active,             \* of the SocketWrapper
          kinds,              \* of the messages the program has begun to send
          begun,              \* the last of them has not ended
          readStream,         \* of the SocketWrapper
          incomingData,       \* of the SocketConnection
          writeStream,        \* of the SocketWrapper
          heard,              \* what the program has received
          initialising,       \* the connection between UpgradeToClient and success
          request,            \* the initialise message it came with
          source,             \* what a resolution would come to now, a number
          cached,             \* the cached resolution
          notices,            \* how many notices have been sent
          joined              \* of each client: notices at AddClient

serverVars == <<link, overdue, initialising, request, joined>>
socketVars == <<active, kinds, begun, readStream, incomingData, heard>>
eventVars == <<source, cached, notices>>
integrationVars == <<serverVars, socketVars, writeStream, eventVars>>

Uncached == 0
EuroScopeThreadFree == initialising = NoSocket

clients == {c \in Sockets : link[c] = "client"}

-------------------------------------------------------------------------------
(* Messages in and out                                                     *)

Pieces == [of : 1..MaxMessages, ends : BOOLEAN]
Sorts == {"initialisation_failure", "initialisation_success", "answer", "notice", "state"}
Outbound == Sorts \X Nat
Answer(sort, i) == <<sort, i>>
Notice(n) == <<"notice", n>>
State(v) == <<"state", v>>

\* SendEvent, to the streams as they are
SendEvent(streams, topic, message) ==
    [c \in Sockets |-> IF c \in clients /\ topic \in Subscriptions[c]
                           THEN Append(streams[c], message) ELSE streams[c]]

\* A message is whole when its piece with the end follows the one without.
Ends(data, k) == data[k].ends
Whole(data, k) == k > 1 /\ data[k - 1] = [of |-> data[k].of, ends |-> FALSE]

\* Broken: an incomplete message is not put back.
RemainderLost(data) == <<>>

\* What ProcessReceivedData puts back on the stream
Remainder(data) ==
    LET last == IF \E k \in DOMAIN data : Ends(data, k)
                THEN CHOOSE k \in DOMAIN data :
                        Ends(data, k) /\ \A j \in DOMAIN data : Ends(data, j) => j <= k
                ELSE 0
    IN SubSeq(data, last + 1, Len(data))

\* The messages IntegrationConnection::Receive returns
Received(c) ==
    LET data == incomingData[c] \o readStream[c]
        among[k \in 0..Len(data)] ==   \* the first k pieces
            IF k = 0 THEN <<>>
            ELSE IF Ends(data, k) /\ Whole(data, k) /\ kinds[c][data[k].of] # "garbage"
                 THEN Append(among[k - 1], data[k].of)
                 ELSE among[k - 1]
    IN among[Len(data)]

Receive(c) ==
    /\ readStream' = [readStream EXCEPT ![c] = <<>>]
    /\ incomingData' = [incomingData EXCEPT ![c] = Remainder(incomingData[c] \o readStream[c])]

-------------------------------------------------------------------------------
(* The sockets                                                             *)

AddConnection(c) ==
    /\ link[c] = "none"
    /\ link' = [link EXCEPT ![c] = "waiting"]
    /\ active' = [active EXCEPT ![c] = TRUE]
    /\ UNCHANGED <<overdue, initialising, request, joined, kinds, begun, readStream,
                   incomingData, heard, writeStream, eventVars>>

\* The program begins a message, and ReadLoop reads the piece.
ReadBeginning(c, kind) ==
    /\ active[c] /\ ~begun[c]
    /\ Len(kinds[c]) < MaxMessages
    /\ kinds' = [kinds EXCEPT ![c] = Append(@, kind)]
    /\ begun' = [begun EXCEPT ![c] = TRUE]
    /\ readStream' = [readStream EXCEPT ![c] = Append(@, [of |-> Len(kinds'[c]), ends |-> FALSE])]
    /\ UNCHANGED <<serverVars, active, incomingData, heard, writeStream, eventVars>>

\* The program ends the message it has begun.
ReadEnd(c) ==
    /\ active[c] /\ begun[c]
    /\ begun' = [begun EXCEPT ![c] = FALSE]
    /\ readStream' = [readStream EXCEPT ![c] = Append(@, [of |-> Len(kinds[c]), ends |-> TRUE])]
    /\ UNCHANGED <<serverVars, active, kinds, incomingData, heard, writeStream, eventVars>>

\* recv returns 0 or an error.
ReadEnds(c) ==
    /\ active[c]
    /\ active' = [active EXCEPT ![c] = FALSE]
    /\ UNCHANGED <<serverVars, kinds, begun, readStream, incomingData, heard, writeStream, eventVars>>

WriteLoop(c) ==
    /\ active[c]
    /\ writeStream[c] # <<>>
    /\ writeStream' = [writeStream EXCEPT ![c] = <<>>]
    /\ \/ heard' = [heard EXCEPT ![c] = @ \o writeStream[c]] /\ UNCHANGED active
       \/ active' = [active EXCEPT ![c] = FALSE] /\ UNCHANGED heard
    /\ UNCHANGED <<serverVars, kinds, begun, readStream, incomingData, eventVars>>

-------------------------------------------------------------------------------
(* Events.  The resolution's cache is emptied when what it comes from      *)
(* changes, and filled, with an event, when it is next asked for.          *)

ResolutionChanges ==
    /\ EuroScopeThreadFree
    /\ source <= MaxChanges
    /\ source' = source + 1
    /\ cached' = Uncached
    /\ UNCHANGED <<notices, serverVars, socketVars, writeStream>>

ResolveCached ==
    /\ cached' = IF cached = Uncached THEN source ELSE cached
    /\ UNCHANGED source

\* The streams after ResolveCached
StreamsResolved(streams) ==
    IF cached = Uncached THEN SendEvent(streams, "state", State(source)) ELSE streams

TagItemShown ==
    /\ EuroScopeThreadFree
    /\ ResolveCached
    /\ writeStream' = StreamsResolved(writeStream)
    /\ UNCHANGED <<notices, serverVars, socketVars>>

WorkerSendsEvent ==
    /\ notices < MaxNotices
    /\ notices' = notices + 1
    /\ writeStream' = SendEvent(writeStream, "notice", Notice(notices + 1))
    /\ UNCHANGED <<source, cached, serverVars, socketVars>>

-------------------------------------------------------------------------------
(* The server                                                              *)

InitialisationTimeout(c) ==
    /\ link[c] = "waiting"
    /\ ~overdue[c]
    /\ overdue' = [overdue EXCEPT ![c] = TRUE]
    /\ UNCHANGED <<link, initialising, request, joined, socketVars, writeStream, eventVars>>

\* ClientInitialisationManager::TimedEventTrigger, for an overdue connection.
\* The destructor of its socket closes it.
DropConnection(c) ==
    /\ EuroScopeThreadFree
    /\ link[c] = "waiting" /\ overdue[c]
    /\ link' = [link EXCEPT ![c] = "dropped"]
    /\ active' = [active EXCEPT ![c] = FALSE]
    /\ UNCHANGED <<overdue, initialising, request, joined, kinds, begun, readStream,
                   incomingData, heard, writeStream, eventVars>>

Failures(messages) == [j \in DOMAIN messages |-> Answer("initialisation_failure", messages[j])]

\* No message of those received is a valid initialisation.
RefuseInitialisation(c) ==
    LET messages == Received(c)
    IN /\ EuroScopeThreadFree
       /\ link[c] = "waiting" /\ ~overdue[c]
       /\ \A j \in DOMAIN messages : kinds[c][messages[j]] # "initialise"
       /\ Receive(c)
       /\ writeStream' = [writeStream EXCEPT ![c] = @ \o Failures(messages)]
       /\ UNCHANGED <<serverVars, active, kinds, begun, heard, eventVars>>

\* Up to the first valid initialisation each message fails; the rest of what
\* was received with it is dropped.
UpgradeToClient(c) ==
    LET messages == Received(c)
    IN /\ EuroScopeThreadFree
       /\ link[c] = "waiting" /\ ~overdue[c]
       /\ \E k \in DOMAIN messages :
             /\ kinds[c][messages[k]] = "initialise"
             /\ \A j \in 1..(k - 1) : kinds[c][messages[j]] # "initialise"
             /\ writeStream' =
                   [writeStream EXCEPT ![c] = @ \o Failures(SubSeq(messages, 1, k - 1))]
             /\ request' = messages[k]
       /\ Receive(c)
       /\ link' = [link EXCEPT ![c] = "client"]
       /\ initialising' = c
       /\ joined' = [joined EXCEPT ![c] = notices]
       /\ UNCHANGED <<overdue, active, kinds, begun, heard, eventVars>>

\* Broken: what is not resolved yet is left to the event.
InitialiseClientIfCached(c, streams) ==
    IF "state" \in Subscriptions[c] /\ cached = source
    THEN [streams EXCEPT ![c] = Append(@, State(source))] ELSE streams

\* IntegrationDataInitialisers::InitialiseClient: it resolves, which may send
\* an event, and sends to the client what it resolved.
InitialiseClient(c, streams) ==
    IF "state" \in Subscriptions[c]
    THEN [StreamsResolved(streams) EXCEPT ![c] =
             Append(@, State(IF cached = Uncached THEN source ELSE cached))]
    ELSE streams

SendInitialisationSuccess ==
    LET c == initialising
    IN /\ c # NoSocket
       /\ writeStream' = InitialiseClient(c,
             [writeStream EXCEPT ![c] = Append(@, Answer("initialisation_success", request))])
       /\ IF "state" \in Subscriptions[c] THEN ResolveCached ELSE UNCHANGED <<cached, source>>
       /\ initialising' = NoSocket
       /\ UNCHANGED <<link, overdue, request, joined, socketVars, notices>>

\* One message of those received for c
Processed(c, so, i) ==
    LET answered(streams) == [streams EXCEPT ![c] = Append(@, Answer("answer", i))]
    IN CASE kinds[c][i] = "action" ->
              [streams |-> answered(so.streams), notices |-> so.notices]
         [] kinds[c][i] = "assignment" ->
              [streams |-> answered(SendEvent(so.streams, "notice", Notice(so.notices + 1))),
               notices |-> so.notices + 1]
         [] OTHER -> so

ProcessInboundMessagesForClient(c) ==
    /\ EuroScopeThreadFree
    /\ link[c] = "client"
    /\ LET messages == Received(c)
           after[k \in 0..Len(messages)] ==   \* the first k messages
               IF k = 0 THEN [streams |-> writeStream, notices |-> notices]
               ELSE Processed(c, after[k - 1], messages[k])
           done == after[Len(messages)]
       IN writeStream' = done.streams /\ notices' = done.notices
    /\ Receive(c)
    /\ UNCHANGED <<serverVars, active, kinds, begun, heard, source, cached>>

RemoveInactiveClient(c) ==
    /\ EuroScopeThreadFree
    /\ link[c] = "client" /\ ~active[c]
    /\ link' = [link EXCEPT ![c] = "dropped"]
    /\ UNCHANGED <<overdue, initialising, request, joined, socketVars, writeStream, eventVars>>

-------------------------------------------------------------------------------
IntegrationsInit ==
    /\ link = [c \in Sockets |-> "none"]
    /\ overdue = [c \in Sockets |-> FALSE]
    /\ active = [c \in Sockets |-> FALSE]
    /\ kinds = [c \in Sockets |-> <<>>]
    /\ begun = [c \in Sockets |-> FALSE]
    /\ readStream = [c \in Sockets |-> <<>>]
    /\ incomingData = [c \in Sockets |-> <<>>]
    /\ writeStream = [c \in Sockets |-> <<>>]
    /\ heard = [c \in Sockets |-> <<>>]
    /\ initialising = NoSocket
    /\ request = 0
    /\ source = 1
    /\ cached = Uncached
    /\ notices = 0
    /\ joined = [c \in Sockets |-> 0]

IntegrationsNext ==
    \/ \E c \in Sockets :
          \/ AddConnection(c)
          \/ \E kind \in MessageKinds : ReadBeginning(c, kind)
          \/ ReadEnd(c)
          \/ ReadEnds(c)
          \/ WriteLoop(c)
          \/ InitialisationTimeout(c)
          \/ DropConnection(c)
          \/ RefuseInitialisation(c)
          \/ UpgradeToClient(c)
          \/ ProcessInboundMessagesForClient(c)
          \/ RemoveInactiveClient(c)
    \/ ResolutionChanges
    \/ TagItemShown
    \/ WorkerSendsEvent
    \/ SendInitialisationSuccess

IntegrationsSpec == IntegrationsInit /\ [][IntegrationsNext]_integrationVars

-------------------------------------------------------------------------------
(* Properties                                                              *)

IntegrationsTypeOK ==
    /\ link \in [Sockets -> {"none", "waiting", "client", "dropped"}]
    /\ overdue \in [Sockets -> BOOLEAN]
    /\ active \in [Sockets -> BOOLEAN]
    /\ kinds \in [Sockets -> Seq(MessageKinds)]
    /\ begun \in [Sockets -> BOOLEAN]
    /\ readStream \in [Sockets -> Seq(Pieces)]
    /\ incomingData \in [Sockets -> Seq(Pieces)]
    /\ writeStream \in [Sockets -> Seq(Outbound)]
    /\ heard \in [Sockets -> Seq(Outbound)]
    /\ initialising \in Sockets \cup {NoSocket}
    /\ request \in 0..MaxMessages
    /\ source \in 1..(MaxChanges + 1) /\ cached \in 0..(MaxChanges + 1)
    /\ notices \in Nat
    /\ joined \in [Sockets -> Nat]

Sent(c) == heard[c] \o writeStream[c]
PlacesOf(s, sorts) == {k \in DOMAIN s : s[k][1] \in sorts}
Numbers(s, sort) == {s[k][2] : k \in PlacesOf(s, {sort})}
Increasing(s, sorts) == \A j, k \in PlacesOf(s, sorts) : j < k => s[j][2] < s[k][2]
Answers == {"initialisation_failure", "initialisation_success", "answer"}

\* The messages of c that ended, are no garbage and have been received
Consumed(c) ==
    {i \in DOMAIN kinds[c] :
        /\ kinds[c][i] # "garbage"
        /\ i = Len(kinds[c]) => ~begun[c]
        /\ [of |-> i, ends |-> TRUE] \notin ToSet(readStream[c])}

(* However messages are cut into pieces and read: a message is answered at *)
(* most once, in the order sent; until one initialises, each read in full  *)
(* is answered with a failure, and success is for a message that asks for  *)
(* it; from the first action that is answered on, so is each that was read.*)
AnswersInOrder ==
    \A c \in Sockets : active[c] /\ c # initialising =>
        LET For(sort) == Numbers(Sent(c), sort)
        IN /\ Increasing(Sent(c), Answers)
           /\ \A i \in For("initialisation_success") : kinds[c][i] = "initialise"
           /\ link[c] = "waiting" => For("initialisation_failure") = Consumed(c)
           /\ link[c] = "client" =>
                 /\ \E i \in DOMAIN kinds[c] : For("initialisation_success") = {i}
                 /\ \A i \in For("answer"), j \in Consumed(c) :
                       i < j /\ kinds[c][j] \in {"action", "assignment"} => j \in For("answer")

(* What a client has been sent of the cached resolution last is what the   *)
(* cache holds, and the notices it has been sent are all those since it    *)
(* became a client, in order, though workers send them at any time.        *)
ClientsUpToDate ==
    \A c \in clients : active[c] /\ c # initialising =>
        LET sent == Sent(c)
            states == PlacesOf(sent, {"state"})
        IN /\ "state" \in Subscriptions[c] /\ cached # Uncached =>
                 \E k \in states : sent[k] = State(cached) /\ \A j \in states : j <= k
           /\ "notice" \in Subscriptions[c] =>
                 /\ Numbers(sent, "notice") = (joined[c] + 1)..notices
                 /\ Increasing(sent, {"notice"})
===============================================================================
