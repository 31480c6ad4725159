----------------------------- MODULE MCControllers -----------------------------
(***************************************************************************)
(* Three positions, for TLC.  At EGLL all are in the order, the lowest     *)
(* first; at EGKK the enroute position comes before the approach one.  Of  *)
(* two routes, both from EGLL, one has a SID with a level.                 *)
(***************************************************************************)
EXTENDS Controllers

CONSTANTS twr, app, ctr, EGLL, EGKK, r1, r2    \* positions, airfields, routes

mcPositions == {twr, app, ctr}
mcTopDownOrder == (EGLL :> <<twr, app, ctr>>) @@ (EGKK :> <<ctr, app>>)
mcTopDown == (twr :> {EGLL}) @@ (app :> {EGLL, EGKK}) @@ (ctr :> {EGLL, EGKK})
mcTypeOf == (twr :> "TWR") @@ (app :> "APP") @@ (ctr :> "CTR")
mcOrigin == [r \in {r1, r2} |-> EGLL]
mcSidLevel == (r1 :> 60) @@ (r2 :> 0)
mcSidOrder == (r1 :> <<ctr>>) @@ (r2 :> <<>>)
mcAirfieldOrder == (r1 :> <<app>>) @@ (r2 :> <<app, ctr>>)
===============================================================================
