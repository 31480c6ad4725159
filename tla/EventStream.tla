------------------------------ MODULE EventStream ------------------------------
(***************************************************************************)
(* What the push event transport promises to the rest of the plugin: after *)
(* it has attached to the log of events at some point, every usable event  *)
(* published after that point reaches every processor subscribed to it     *)
(* exactly once, in the order of publication, and nothing else does.       *)
(***************************************************************************)
EXTENDS Integers, Sequences

CONSTANTS MaxEventId,   \* bound: the id of the last event ever published
          Processors,   \* the push event processors of the plugin
          Usable,       \* the ids of the events that are well formed
          Wants         \* the processors subscribed to each event

VARIABLES published,    \* the id of the newest event, 0 before the first
          cursor,       \* the id everything up to which has been dealt with,
                        \* -1 before the transport attaches to the log
          received      \* the ids each processor has been given

vars == <<published, cursor, received>>

Init == /\ published = 0
        /\ cursor = -1
        /\ received = [p \in Processors |-> <<>>]

Publish ==
    /\ published < MaxEventId
    /\ published' = published + 1
    /\ UNCHANGED <<cursor, received>>

Attach ==
    /\ cursor = -1
    /\ cursor' \in 0..published
    /\ UNCHANGED <<published, received>>

Deliver(e) ==
    /\ cursor # -1
    /\ e \in Usable
    /\ cursor < e /\ e <= published
    /\ \A skipped \in (cursor + 1)..(e - 1) : skipped \notin Usable
    /\ cursor' = e
    /\ received' = [p \in Processors |->
                       IF p \in Wants[e] THEN Append(received[p], e) ELSE received[p]]
    /\ UNCHANGED published

Next == Publish \/ Attach \/ \E e \in 1..MaxEventId : Deliver(e)

Spec == Init /\ [][Next]_vars
===============================================================================
