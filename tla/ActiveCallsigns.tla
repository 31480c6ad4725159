---------------------------- MODULE ActiveCallsigns ----------------------------
(***************************************************************************)
(* The controllers known to be online (src/src/plugin/controller,          *)
(* ActiveCallsignCollection): which callsign covers which position, the    *)
(* callsigns at each position in their order, and which one is the user.   *)
(* The three are kept side by side and changed together.  The operators    *)
(* take a collection and return the next one; module Controllers applies   *)
(* them and then calls the handlers the collection calls.                  *)
(***************************************************************************)
EXTENDS Integers, Sequences, FiniteSets

CONSTANTS Callsigns,     \* numbers, in the order of the callsigns' text
          Positions,
          NoCallsign,
          NoPosition

ASSUME CallsignsAssumption ==
    /\ Callsigns \subseteq Nat
    /\ NoCallsign \notin Callsigns
    /\ NoPosition \notin Positions

VARIABLE callsigns       \* ActiveCallsignCollection

\* covering: the normalised position of each active callsign (activeCallsigns);
\* at: the callsigns at each position (activePositions); flagged: the entries
\* made with isUser; user: userCallsign, or NoCallsign when userActive is unset.
Collection == [covering : [Callsigns -> Positions \cup {NoPosition}],
               at       : [Positions -> SUBSET Callsigns],
               flagged  : SUBSET Callsigns,
               user     : Callsigns \cup {NoCallsign}]

NoneActive == [covering |-> [c \in Callsigns |-> NoPosition],
               at       |-> [p \in Positions |-> {}],
               flagged  |-> {},
               user     |-> NoCallsign]

CallsignActive(cs, c) == cs.covering[c] # NoPosition
PositionActive(cs, p) == cs.at[p] # {}

\* GetLeadCallsignForPosition: the first of the position's ordered set
Lead(cs, p) == CHOOSE c \in cs.at[p] : \A d \in cs.at[p] : c <= d
UserLeads(cs, p) == Lead(cs, p) \in cs.flagged

AddCallsign(cs, c, p, isUser) ==
    [covering |-> [cs.covering EXCEPT ![c] = p],
     at       |-> [cs.at EXCEPT ![p] = @ \cup {c}],
     flagged  |-> IF isUser THEN cs.flagged \cup {c} ELSE cs.flagged,
     user     |-> IF isUser THEN c ELSE cs.user]

\* Broken: the position keeps the callsign.
RemoveCallsignNotFromPosition(cs, c) ==
    [cs EXCEPT !.covering[c] = NoPosition, !.flagged = @ \ {c},
               !.user = IF @ = c THEN NoCallsign ELSE @]

RemoveCallsign(cs, c) ==
    [covering |-> [cs.covering EXCEPT ![c] = NoPosition],
     at       |-> [cs.at EXCEPT ![cs.covering[c]] = @ \ {c}],
     flagged  |-> cs.flagged \ {c},
     user     |-> IF cs.user = c THEN NoCallsign ELSE cs.user]
===============================================================================
