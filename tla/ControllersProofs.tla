---------------------------- MODULE ControllersProofs ----------------------------
(***************************************************************************)
(* Theorems about Controllers, for any positions, airfields, routes,        *)
(* hierarchies and callsigns, whatever EuroScope reports: the indexes of    *)
(* the active callsigns agree, the owners stored are those of the           *)
(* controllers online, with the services documented, and a cached handoff   *)
(* to a controller is to the one who would be found now.                    *)
(*                                                                         *)
(* The invariant is stated of a world, so that it can be followed through   *)
(* the steps within one callback, in which a report may remove the user's   *)
(* old callsign, add the new one and, after a logout, empty the collection  *)
(* again.  It holds because a callsign that comes or goes matters only at   *)
(* its own position (SameBut): the airfields outside the top-down order of  *)
(* that position and the handoffs that are not looked at again would be     *)
(* found the same.                                                          *)
(***************************************************************************)
EXTENDS Controllers, WellFoundedInduction, TLAPS

Agrees(cs) ==
    /\ cs \in Collection
    /\ \A c \in Callsigns, p \in Positions : c \in cs.at[p] <=> cs.covering[c] = p
    /\ cs.flagged = {cs.user} \ {NoCallsign}
    /\ \A c \in cs.flagged : CallsignActive(cs, c)

LEMMA NoneActiveAgrees == Agrees(NoneActive)
BY CallsignsAssumption DEF Agrees, NoneActive, Collection, CallsignActive

LEMMA AddingAgrees ==
    ASSUME NEW cs, Agrees(cs), NEW c \in Callsigns, NEW p \in Positions, NEW isUser \in BOOLEAN,
           ~CallsignActive(cs, c), isUser => cs.user = NoCallsign
    PROVE  Agrees(AddCallsign(cs, c, p, isUser))
<1>1. PICK new : new = AddCallsign(cs, c, p, isUser)
    OBVIOUS
<1>2. /\ cs.covering \in [Callsigns -> Positions \cup {NoPosition}]
      /\ cs.at \in [Positions -> SUBSET Callsigns]
      /\ cs.flagged \in SUBSET Callsigns
      /\ cs.user \in Callsigns \cup {NoCallsign}
    BY DEF Agrees, Collection
<1>3. /\ new.covering = [cs.covering EXCEPT ![c] = p]
      /\ new.at = [cs.at EXCEPT ![p] = @ \cup {c}]
      /\ new.flagged = IF isUser THEN cs.flagged \cup {c} ELSE cs.flagged
      /\ new.user = IF isUser THEN c ELSE cs.user
    BY <1>1 DEF AddCallsign
<1>4. new \in Collection
  <2>1. new.covering \in [Callsigns -> Positions \cup {NoPosition}]
      BY <1>2, <1>3
  <2>2. new.at \in [Positions -> SUBSET Callsigns]
      BY <1>2, <1>3
  <2>3. new.flagged \in SUBSET Callsigns /\ new.user \in Callsigns \cup {NoCallsign}
      BY <1>2, <1>3
  <2> QED BY <1>1, <2>1, <2>2, <2>3 DEF Collection, AddCallsign
<1>5. cs.covering[c] = NoPosition
    BY DEF CallsignActive
<1>6. ASSUME NEW d \in Callsigns, NEW q \in Positions
      PROVE  d \in new.at[q] <=> new.covering[d] = q
  <2>1. d \in cs.at[q] <=> cs.covering[d] = q
      BY DEF Agrees
  <2>2. d \in new.at[q] <=> d \in cs.at[q] \/ (d = c /\ q = p)
      BY <1>2, <1>3
  <2>3. CASE d = c
      BY <1>2, <1>3, <1>5, <2>1, <2>2, <2>3, CallsignsAssumption
  <2>4. CASE d # c
      BY <1>2, <1>3, <2>1, <2>2, <2>4
  <2> QED BY <2>3, <2>4
<1>7. new.flagged = {new.user} \ {NoCallsign}
    BY <1>2, <1>3, CallsignsAssumption DEF Agrees
<1>8. \A d \in new.flagged : CallsignActive(new, d)
  <2> SUFFICES ASSUME NEW d \in new.flagged PROVE new.covering[d] # NoPosition
      BY DEF CallsignActive
  <2>1. CASE d = c
      BY <1>2, <1>3, <2>1, CallsignsAssumption
  <2>2. CASE d # c
    <3>1. d \in cs.flagged /\ d \in Callsigns
        BY <1>2, <1>3, <2>2
    <3>2. cs.covering[d] # NoPosition
        BY <3>1 DEF Agrees, CallsignActive
    <3> QED BY <1>2, <1>3, <2>2, <3>1, <3>2
  <2> QED BY <2>1, <2>2
<1> QED BY <1>1, <1>4, <1>6, <1>7, <1>8 DEF Agrees

LEMMA RemovingAgrees ==
    ASSUME NEW cs, Agrees(cs), NEW c \in Callsigns, CallsignActive(cs, c)
    PROVE  /\ Agrees(RemoveCallsign(cs, c))
           /\ ~CallsignActive(RemoveCallsign(cs, c), c)
           /\ cs.user = c => RemoveCallsign(cs, c).user = NoCallsign
           /\ \A d \in Callsigns \ {c} :
                 CallsignActive(RemoveCallsign(cs, c), d) <=> CallsignActive(cs, d)
<1>1. PICK new : new = RemoveCallsign(cs, c)
    OBVIOUS
<1>2. /\ cs.covering \in [Callsigns -> Positions \cup {NoPosition}]
      /\ cs.at \in [Positions -> SUBSET Callsigns]
      /\ cs.flagged \in SUBSET Callsigns
      /\ cs.user \in Callsigns \cup {NoCallsign}
    BY DEF Agrees, Collection
<1>3. /\ new.covering = [cs.covering EXCEPT ![c] = NoPosition]
      /\ new.at = [cs.at EXCEPT ![cs.covering[c]] = @ \ {c}]
      /\ new.flagged = cs.flagged \ {c}
      /\ new.user = IF cs.user = c THEN NoCallsign ELSE cs.user
    BY <1>1 DEF RemoveCallsign
<1>4. cs.covering[c] \in Positions
    BY <1>2 DEF CallsignActive
<1>5. new \in Collection
  <2>1. new.covering \in [Callsigns -> Positions \cup {NoPosition}]
      BY <1>2, <1>3
  <2>2. new.at \in [Positions -> SUBSET Callsigns]
      BY <1>2, <1>3, <1>4
  <2>3. new.flagged \in SUBSET Callsigns /\ new.user \in Callsigns \cup {NoCallsign}
      BY <1>2, <1>3
  <2> QED BY <1>1, <2>1, <2>2, <2>3 DEF Collection, RemoveCallsign
<1>6. ASSUME NEW d \in Callsigns, NEW q \in Positions
      PROVE  d \in new.at[q] <=> new.covering[d] = q
  <2>1. d \in cs.at[q] <=> cs.covering[d] = q
      BY DEF Agrees
  <2>2. d \in new.at[q] <=> d \in cs.at[q] /\ ~(d = c /\ q = cs.covering[c])
      BY <1>2, <1>3, <1>4
  <2>3. CASE d = c
    <3>1. new.covering[d] = NoPosition
        BY <1>2, <1>3, <2>3
    <3> QED BY <2>1, <2>2, <2>3, <3>1, CallsignsAssumption
  <2>4. CASE d # c
    <3>1. new.covering[d] = cs.covering[d]
        BY <1>2, <1>3, <2>4
    <3> QED BY <2>1, <2>2, <2>4, <3>1
  <2> QED BY <2>3, <2>4
<1>7. new.flagged = {new.user} \ {NoCallsign}
    BY <1>2, <1>3, CallsignsAssumption DEF Agrees
<1>8. new.covering[c] = NoPosition /\ \A d \in Callsigns \ {c} : new.covering[d] = cs.covering[d]
    BY <1>2, <1>3
<1>9. \A d \in new.flagged : CallsignActive(new, d)
  <2> SUFFICES ASSUME NEW d \in new.flagged PROVE new.covering[d] # NoPosition
      BY DEF CallsignActive
  <2>1. d \in cs.flagged /\ d \in Callsigns \ {c}
      BY <1>2, <1>3
  <2>2. cs.covering[d] # NoPosition
      BY <2>1 DEF Agrees, CallsignActive
  <2> QED BY <1>8, <2>1, <2>2
<1>10. Agrees(new)
    BY <1>5, <1>6, <1>7, <1>9 DEF Agrees
<1> QED BY <1>1, <1>3, <1>8, <1>10 DEF CallsignActive

-------------------------------------------------------------------------------
(* Least numbers: what an order of precedence is found by                   *)

LEMMA LeastNumber ==
    ASSUME NEW T \in SUBSET Nat, T # {}
    PROVE  \E n \in T : \A m \in T : n <= m
<1>1. PICK R : R = OpToRel(<, Nat)
    BY Zenon
<1>2. IsWellFoundedOn(R, Nat)
    BY <1>1, NatLessThanWellFounded, Zenon
<1>3. PICK n \in T : \A m \in T : ~(<<m, n>> \in R)
    BY <1>2, WFMin, Zenon
<1>4. \A m \in T : ~(m < n)
    BY <1>1, <1>3 DEF OpToRel
<1> QED BY <1>3, <1>4

LEMMA MinFacts ==
    ASSUME NEW T \in SUBSET Nat, T # {}
    PROVE  Min(T) \in T /\ \A m \in T : Min(T) <= m
BY LeastNumber DEF Min

LEMMA LeadFacts ==
    ASSUME NEW cs, cs.at \in [Positions -> SUBSET Callsigns], NEW p \in Positions, PositionActive(cs, p)
    PROVE  Lead(cs, p) \in cs.at[p]
<1>1. cs.at[p] \in SUBSET Nat /\ cs.at[p] # {}
    BY CallsignsAssumption DEF PositionActive
<1>2. \E c \in cs.at[p] : \A d \in cs.at[p] : c <= d
    BY <1>1, LeastNumber
<1> QED BY <1>2 DEF Lead

-------------------------------------------------------------------------------
(* A callsign that comes or goes matters at its position only.             *)

SameBut(cs, new, p) ==
    \A q \in Positions \ {p} :
        /\ new.at[q] = cs.at[q]
        /\ PositionActive(cs, q) => (UserLeads(new, q) = UserLeads(cs, q))

LEMMA LeadersSame ==
    ASSUME NEW cs, NEW new, NEW c \in Callsigns, NEW p \in Positions,
           cs.at \in [Positions -> SUBSET Callsigns],
           \A q \in Positions \ {p} : c \notin cs.at[q] /\ new.at[q] = cs.at[q],
           \A d \in Callsigns \ {c} : d \in new.flagged <=> d \in cs.flagged
    PROVE  SameBut(cs, new, p)
<1> SUFFICES ASSUME NEW q \in Positions \ {p}, PositionActive(cs, q)
             PROVE  UserLeads(new, q) = UserLeads(cs, q)
    BY DEF SameBut
<1>1. Lead(new, q) = Lead(cs, q)
    BY DEF Lead
<1>2. Lead(cs, q) \in Callsigns \ {c}
    BY LeadFacts
<1> QED BY <1>1, <1>2 DEF UserLeads

LEMMA AddingMattersThere ==
    ASSUME NEW cs, Agrees(cs), NEW c \in Callsigns, NEW p \in Positions, NEW isUser \in BOOLEAN,
           ~CallsignActive(cs, c), NEW new, new = AddCallsign(cs, c, p, isUser)
    PROVE  SameBut(cs, new, p) /\ PositionActive(new, p)
<1>1. cs.at \in [Positions -> SUBSET Callsigns] /\ cs.flagged \in SUBSET Callsigns
    BY DEF Agrees, Collection
<1>2. /\ new.at = [cs.at EXCEPT ![p] = @ \cup {c}]
      /\ new.flagged = IF isUser THEN cs.flagged \cup {c} ELSE cs.flagged
    BY DEF AddCallsign
<1>3. \A q \in Positions \ {p} : c \notin cs.at[q] /\ new.at[q] = cs.at[q]
    BY <1>1, <1>2, CallsignsAssumption DEF Agrees, CallsignActive
<1>4. \A d \in Callsigns \ {c} : d \in new.flagged <=> d \in cs.flagged
    BY <1>2
<1>5. PositionActive(new, p)
    BY <1>1, <1>2 DEF PositionActive
<1> QED BY <1>1, <1>3, <1>4, <1>5, LeadersSame

LEMMA RemovingMattersThere ==
    ASSUME NEW cs, Agrees(cs), NEW c \in Callsigns, CallsignActive(cs, c),
           NEW new, new = RemoveCallsign(cs, c), NEW p, p = cs.covering[c]
    PROVE  p \in Positions /\ SameBut(cs, new, p) /\ new.at[p] \subseteq cs.at[p]
<1>1. /\ cs.at \in [Positions -> SUBSET Callsigns] /\ cs.flagged \in SUBSET Callsigns
      /\ p \in Positions
    BY DEF Agrees, Collection, CallsignActive
<1>2. new.at = [cs.at EXCEPT ![p] = @ \ {c}] /\ new.flagged = cs.flagged \ {c}
    BY DEF RemoveCallsign
<1>3. \A q \in Positions \ {p} : c \notin cs.at[q] /\ new.at[q] = cs.at[q]
    BY <1>1, <1>2 DEF Agrees
<1>4. \A d \in Callsigns \ {c} : d \in new.flagged <=> d \in cs.flagged
    BY <1>2
<1> QED BY <1>1, <1>2, <1>3, <1>4, LeadersSame

-------------------------------------------------------------------------------
(* The owners of the airfields                                             *)

OwnersRight(cs, ow) == \A a \in Airfields : ow[a] = GetServiceProviders(cs, a)

LEMMA ProvidersSame ==
    ASSUME NEW cs, NEW new, NEW p, SameBut(cs, new, p), NEW a \in Airfields,
           p \notin Range(TopDownOrder[a])
    PROVE  GetServiceProviders(new, a) = GetServiceProviders(cs, a)
<1>1. Range(TopDownOrder[a]) \subseteq Positions \ {p}
    BY TopDownAssumption DEF Range
<1>2. \A q \in Range(TopDownOrder[a]) : PositionActive(new, q) = PositionActive(cs, q)
    BY <1>1 DEF SameBut, PositionActive
<1>3. \A q \in Range(TopDownOrder[a]) :
          PositionActive(cs, q) => Lead(new, q) = Lead(cs, q) /\ UserLeads(new, q) = UserLeads(cs, q)
    BY <1>1 DEF SameBut, Lead
<1>4. ActiveControllers(new, a) = ActiveControllers(cs, a)
    BY <1>2, <1>3, Zenon DEF ActiveControllers
<1> QED BY <1>2, <1>4 DEF GetServiceProviders

LEMMA RefreshingRight ==
    ASSUME NEW cs, NEW new, NEW p \in Positions, SameBut(cs, new, p),
           NEW ow \in [Airfields -> SUBSET Provision], OwnersRight(cs, ow)
    PROVE  OwnersRight(new, RefreshOwners(ow, new, p))
<1> SUFFICES ASSUME NEW a \in Airfields
             PROVE  RefreshOwners(ow, new, p)[a] = GetServiceProviders(new, a)
    BY DEF OwnersRight
<1>1. CASE a \in TopDown[p]
    BY <1>1 DEF RefreshOwners
<1>2. CASE a \notin TopDown[p]
  <2>1. p \notin Range(TopDownOrder[a])
      BY <1>2, TopDownAssumption
  <2>2. GetServiceProviders(new, a) = GetServiceProviders(cs, a)
      BY <2>1, ProvidersSame
  <2>3. RefreshOwners(ow, new, p)[a] = ow[a]
      BY <1>2 DEF RefreshOwners
  <2> QED BY <2>2, <2>3 DEF OwnersRight
<1> QED BY <1>1, <1>2

LEMMA NoneActiveRight == OwnersRight(NoneActive, NoOwners)
<1> SUFFICES ASSUME NEW a \in Airfields PROVE GetServiceProviders(NoneActive, a) = {}
    BY DEF OwnersRight, NoOwners
<1>1. Range(TopDownOrder[a]) \subseteq Positions
    BY TopDownAssumption DEF Range
<1> QED BY <1>1 DEF GetServiceProviders, NoneActive, PositionActive

-------------------------------------------------------------------------------
(* The cached handoffs                                                     *)

\* The first in an order that Test is true of
LEMMA ResolveFacts ==
    ASSUME NEW cs, NEW order \in Seq(Positions)
    PROVE  \/ /\ \A n \in 1..Len(order) : ~PositionActive(cs, order[n])
              /\ ResolveController(cs, order) = NoPosition
           \/ \E n \in 1..Len(order) :
                 /\ PositionActive(cs, order[n])
                 /\ \A m \in 1..(n - 1) : ~PositionActive(cs, order[m])
                 /\ ResolveController(cs, order) =
                       IF UserLeads(cs, order[n]) THEN Unicom ELSE order[n]
<1>1. PICK I : I = {i \in 1..Len(order) : PositionActive(cs, order[i])}
    OBVIOUS
<1>2. PICK first : first = SelectInSeq(order, LAMBDA p : PositionActive(cs, p))
    OBVIOUS
<1>3. first = IF I # {} THEN Min(I) ELSE 0
    BY <1>1, <1>2 DEF SelectInSeq
<1>4. ResolveController(cs, order) =
         IF first = 0 THEN NoPosition ELSE IF UserLeads(cs, order[first]) THEN Unicom ELSE order[first]
    BY <1>2 DEF ResolveController
<1>5. CASE I = {}
    BY <1>1, <1>3, <1>4, <1>5
<1>6. CASE I # {}
  <2>1. first \in I /\ \A m \in I : first <= m
      BY <1>1, <1>3, <1>6, MinFacts
  <2>2. first \in 1..Len(order) /\ PositionActive(cs, order[first])
      BY <1>1, <2>1
  <2>3. \A m \in 1..(first - 1) : ~PositionActive(cs, order[m])
      BY <1>1, <2>1, <2>2
  <2> QED BY <1>4, <2>2, <2>3
<1> QED BY <1>5, <1>6

LEMMA PreceedsFacts ==
    ASSUME NEW order \in Seq(Positions), NEW q \in Range(order)
    PROVE  /\ PositionPreceeds(order, q, q)
           /\ \A n \in 1..Len(order) :
                 PositionPreceeds(order, order[n], q) \/ \E i \in 1..(n - 1) : order[i] = q
<1> DEFINE First(p) == SelectInSeq(order, LAMBDA r : r \in {p, q})
<1>1. ASSUME NEW p
      PROVE  PositionPreceeds(order, p, q) <=> First(p) # 0 /\ order[First(p)] = p
    BY DEF PositionPreceeds
<1>2. ASSUME NEW p
      PROVE  /\ First(p) \in 1..Len(order) /\ order[First(p)] \in {p, q}
             /\ \A n \in 1..Len(order) : order[n] \in {p, q} => First(p) <= n
  <2>1. PICK I : I = {i \in 1..Len(order) : order[i] \in {p, q}}
      OBVIOUS
  <2>2. I \in SUBSET Nat /\ I # {}
      BY <2>1 DEF Range
  <2>3. First(p) = Min(I)
      BY <2>1, <2>2 DEF SelectInSeq
  <2> HIDE DEF First
  <2>4. First(p) \in I /\ \A n \in I : First(p) <= n
      BY <2>2, <2>3, MinFacts
  <2> QED BY <2>1, <2>4
<1> HIDE DEF First
<1>3. PositionPreceeds(order, q, q)
    BY <1>1, <1>2
<1>4. ASSUME NEW n \in 1..Len(order), ~PositionPreceeds(order, order[n], q)
      PROVE  \E i \in 1..(n - 1) : order[i] = q
  <2>1. PICK first : first = First(order[n])
      OBVIOUS
  <2>2. first \in 1..Len(order) /\ order[first] \in {order[n], q} /\ first <= n
      BY <1>2, <2>1
  <2>3. order[first] # order[n]
      BY <1>1, <1>4, <2>1, <2>2
  <2>4. first \in 1..(n - 1) /\ order[first] = q
      BY <2>2, <2>3
  <2> QED BY <2>4
<1> QED BY <1>3, <1>4

\* A controller who is the first of an order stays it when p joins behind him, or leaves.
LEMMA StillFirst ==
    ASSUME NEW cs, NEW new, NEW p \in Positions, SameBut(cs, new, p), NEW order \in Seq(Positions),
           ResolveController(cs, order) \in Positions, ResolveController(cs, order) # p,
           \/ new.at[p] \subseteq cs.at[p]
           \/ ~PositionPreceeds(order, p, ResolveController(cs, order))
    PROVE  ResolveController(new, order) = ResolveController(cs, order)
<1>1. PICK q : q = ResolveController(cs, order)
    OBVIOUS
<1>2. PICK n \in 1..Len(order) :
         /\ PositionActive(cs, order[n]) /\ order[n] = q /\ ~UserLeads(cs, q)
         /\ \A m \in 1..(n - 1) : ~PositionActive(cs, order[m])
    BY <1>1, ResolveFacts, OrdersAssumption, CallsignsAssumption
<1>3. \A i \in Positions \ {p} : PositionActive(new, i) <=> PositionActive(cs, i)
    BY DEF SameBut, PositionActive
<1>4. q \in Positions \ {p} /\ PositionActive(new, q) /\ ~UserLeads(new, q)
    BY <1>1, <1>2, <1>3 DEF SameBut
<1>5. \A m \in 1..(n - 1) : order[m] \in Positions /\ ~PositionActive(new, order[m])
  <2> TAKE m \in 1..(n - 1)
  <2>1. order[m] \in Positions /\ ~PositionActive(cs, order[m])
      BY <1>2
  <2>2. CASE new.at[p] \subseteq cs.at[p]
      BY <1>3, <2>1, <2>2 DEF PositionActive
  <2>3. CASE ~PositionPreceeds(order, p, q)
    <3>1. q \in Range(order) /\ m \in 1..Len(order)
        BY <1>2 DEF Range
    <3>2. \A i \in 1..(m - 1) : order[i] # q
        BY <1>2
    <3>3. order[m] # p
        BY <2>3, <3>1, <3>2, PreceedsFacts
    <3> QED BY <1>3, <2>1, <3>3
  <2> QED BY <1>1, <2>2, <2>3
<1>6. PICK k \in 1..Len(order) :
         /\ PositionActive(new, order[k])
         /\ \A m \in 1..(k - 1) : ~PositionActive(new, order[m])
         /\ ResolveController(new, order) = IF UserLeads(new, order[k]) THEN Unicom ELSE order[k]
    BY <1>2, <1>4, ResolveFacts
<1>7. k = n
    BY <1>2, <1>4, <1>5, <1>6
<1> QED BY <1>1, <1>2, <1>4, <1>6, <1>7

\* Nobody is still nobody when a position outside the order joins, or one leaves.
LEMMA StillNobody ==
    ASSUME NEW cs, NEW new, NEW p \in Positions, SameBut(cs, new, p), NEW order \in Seq(Positions),
           ResolveController(cs, order) = NoPosition,
           new.at[p] \subseteq cs.at[p] \/ p \notin Range(order)
    PROVE  ResolveController(new, order) = NoPosition
<1>1. \A n \in 1..Len(order) : order[n] \in Positions /\ ~PositionActive(cs, order[n])
    BY ResolveFacts, OrdersAssumption, CallsignsAssumption
<1>2. \A n \in 1..Len(order) : order[n] \in Range(order)
    BY DEF Range
<1>3. \A n \in 1..Len(order) : ~PositionActive(new, order[n])
    BY <1>1, <1>2 DEF SameBut, PositionActive
<1> QED BY <1>3, ResolveFacts

\* Whoever an order resolves to is in it.
LEMMA ResolvedInOrder ==
    ASSUME NEW cs, NEW order \in Seq(Positions)
    PROVE  /\ ResolveController(cs, order) \in Positions \cup {NoPosition, Unicom}
           /\ ResolveController(cs, order) \in Positions =>
                 /\ ResolveController(cs, order) \in Range(order)
                 /\ PositionActive(cs, ResolveController(cs, order))
<1>1. \A n \in 1..Len(order) : order[n] \in Range(order) /\ order[n] \in Positions
    BY DEF Range
<1> QED BY <1>1, ResolveFacts, OrdersAssumption, CallsignsAssumption, ZenonT(40)

\* A cached handoff is of the flightplan's route, and to whom it would be now;
\* or to unicom, which may be out of date.
HandoffRight(cs, r, h) ==
    \/ h = NotCached
    \/ /\ h \in Resolved /\ h.sid = SidOrder[r] /\ h.airfield = AirfieldOrder[r]
       /\ h.to \in {NextController(cs, r), Unicom}

HandoffsRight(cs, fl, ho) == \A f \in Online(fl) : HandoffRight(cs, fl.route[f], ho[f])

LEMMA HandoffFacts ==
    ASSUME NEW cs, NEW r \in Routes
    PROVE  Handoff(cs, r) \in Resolved /\ HandoffRight(cs, r, Handoff(cs, r))
<1>1. SidOrder[r] \in Seq(Positions) /\ AirfieldOrder[r] \in Seq(Positions)
    BY OrdersAssumption
<1>2. NextController(cs, r) \in Positions \cup {Unicom}
    BY <1>1, ResolvedInOrder, OrdersAssumption, CallsignsAssumption DEF NextController
<1>3. Handoff(cs, r) \in Resolved
    BY <1>2 DEF Handoff, Resolved
<1> QED BY <1>3 DEF Handoff, HandoffRight

\* A handoff that need not be looked at again
LEMMA HandoffStaysRight ==
    ASSUME NEW cs, NEW new, NEW p \in Positions, SameBut(cs, new, p),
           NEW r \in Routes, NEW h \in Resolved, HandoffRight(cs, r, h),
           \/ new.at[p] \subseteq cs.at[p] /\ h.to # p
           \/ ~ShouldInvalidateOnCallsignAdded(h, p)
    PROVE  HandoffRight(new, r, h)
<1>0. h # NotCached /\ h.to # NoPosition
    BY OrdersAssumption, CallsignsAssumption DEF Resolved, NotCached
<1>1. /\ SidOrder[r] \in Seq(Positions) /\ AirfieldOrder[r] \in Seq(Positions)
      /\ h.sid = SidOrder[r] /\ h.airfield = AirfieldOrder[r]
      /\ h.to \in {NextController(cs, r), Unicom} /\ h.to \in Positions \cup {Unicom}
    BY <1>0, OrdersAssumption DEF HandoffRight, Resolved
<1>2. PICK q, sid, airfield : q = h.to /\ sid = SidOrder[r] /\ airfield = AirfieldOrder[r]
    OBVIOUS
<1>3. CASE q = Unicom
    BY <1>1, <1>2, <1>3 DEF HandoffRight
<1>4. CASE q # Unicom
  <2>1. q \in Positions /\ q = NextController(cs, r)
      BY <1>1, <1>2, <1>4
  <2>2. CASE ResolveController(cs, sid) # NoPosition
    <3>1. q = ResolveController(cs, sid) /\ q \in Range(sid)
        BY <1>1, <1>2, <2>1, <2>2, ResolvedInOrder DEF NextController
    <3>2. q # p /\ (new.at[p] \subseteq cs.at[p] \/ ~PositionPreceeds(sid, p, q))
      <4>1. CASE ~ShouldInvalidateOnCallsignAdded(h, p)
        <5>1. ~PositionPreceeds(sid, p, q)
            BY <1>1, <1>2, <3>1, <4>1 DEF ShouldInvalidateOnCallsignAdded
        <5> QED BY <1>1, <1>2, <3>1, <5>1, PreceedsFacts
      <4> QED BY <1>2, <4>1
    <3>3. ResolveController(new, sid) = q
        BY <1>1, <1>2, <2>1, <3>1, <3>2, StillFirst
    <3>4. NextController(new, r) = q
        BY <1>2, <2>1, <3>3, CallsignsAssumption DEF NextController
    <3> QED BY <1>1, <1>2, <3>4 DEF HandoffRight
  <2>3. CASE ResolveController(cs, sid) = NoPosition
    <3>1. q = ResolveController(cs, airfield) /\ q \in Range(airfield) /\ PositionActive(cs, q)
        BY <1>1, <1>2, <1>4, <2>1, <2>3, ResolvedInOrder DEF NextController
    <3>2. q \notin Range(sid)
      <4>0. sid \in Seq(Positions) /\ \A n \in 1..Len(sid) : sid[n] \in Positions
          BY <1>1, <1>2
      <4>1. \A n \in 1..Len(sid) : ~PositionActive(cs, sid[n])
          BY <2>3, <4>0, ResolveFacts, OrdersAssumption, CallsignsAssumption
      <4> QED BY <1>1, <1>2, <3>1, <4>1 DEF Range
    <3>3. /\ q # p
          /\ new.at[p] \subseteq cs.at[p] \/ p \notin Range(sid)
          /\ new.at[p] \subseteq cs.at[p] \/ ~PositionPreceeds(airfield, p, q)
      <4>1. CASE ~ShouldInvalidateOnCallsignAdded(h, p)
        <5>1. p \notin Range(sid) /\ ~PositionPreceeds(airfield, p, q)
            BY <1>1, <1>2, <3>1, <3>2, <4>1 DEF ShouldInvalidateOnCallsignAdded
        <5> QED BY <1>1, <1>2, <3>1, <5>1, PreceedsFacts
      <4> QED BY <1>2, <4>1
    <3>4. ResolveController(new, airfield) = q
        BY <1>1, <1>2, <2>1, <3>1, <3>3, StillFirst
    <3>5. ResolveController(new, sid) = NoPosition
        BY <1>1, <1>2, <2>3, <3>3, StillNobody
    <3>6. NextController(new, r) = q
        BY <1>2, <2>1, <3>4, <3>5, CallsignsAssumption DEF NextController
    <3> QED BY <1>1, <1>2, <3>6 DEF HandoffRight
  <2> QED BY <2>2, <2>3
<1> QED BY <1>3, <1>4

-------------------------------------------------------------------------------
(* The services at an airfield.  They are found position by position in    *)
(* the top-down order; what the first n add is followed by induction on n, *)
(* in the form that a set of numbers with no least member is empty.        *)

AddedBy(active, a, n, before) ==
    LET p == TopDownOrder[a][n]
    IN  IF p \notin DOMAIN active THEN before
        ELSE before \cup {ProvidedBy(active, p, s) : s \in ServicesOf(p, before)}

\* f[n] is what the first n add.
Accumulates(f, active, a, N) ==
    f = [n \in 0..N |-> IF n = 0 THEN {} ELSE AddedBy(active, a, n, f[n - 1])]

LEMMA AccumulationExists ==
    ASSUME NEW active, NEW a, NEW N \in Nat
    PROVE  \E f : Accumulates(f, active, a, N)
<1> DEFINE Exists(n) == \E f : Accumulates(f, active, a, n)
           T == {n \in Nat : ~Exists(n)}
<1>1. Exists(0)
  <2>1. PICK f : f = [n \in 0..0 |-> {}]
      OBVIOUS
  <2>2. Accumulates(f, active, a, 0)
      BY <2>1 DEF Accumulates
  <2> QED BY <2>2
<1>2. ASSUME NEW n \in Nat \ {0}, Exists(n - 1)
      PROVE  Exists(n)
  <2>1. PICK g : Accumulates(g, active, a, n - 1)
      BY <1>2
  <2>2. PICK f : f = [i \in 0..n |-> IF i = n THEN AddedBy(active, a, n, g[n - 1]) ELSE g[i]]
      OBVIOUS
  <2>3. \A i \in 0..(n - 1) : f[i] = g[i]
      BY <2>2
  <2>4. ASSUME NEW i \in 0..n
        PROVE  f[i] = IF i = 0 THEN {} ELSE AddedBy(active, a, i, f[i - 1])
    <3>1. CASE i = n
      <4>1. f[i] = AddedBy(active, a, i, g[i - 1]) /\ g[i - 1] = f[i - 1]
          BY <2>2, <2>3, <3>1
      <4> QED BY <3>1, <4>1
    <3>2. CASE i # n
      <4>1. i \in 0..(n - 1) /\ f[i] = g[i] /\ (i # 0 => f[i - 1] = g[i - 1])
          BY <2>3, <3>2
      <4>2. g[i] = IF i = 0 THEN {} ELSE AddedBy(active, a, i, g[i - 1])
          BY <2>1, <4>1 DEF Accumulates
      <4> QED BY <4>1, <4>2
    <3> QED BY <3>1, <3>2
  <2>5. f = [i \in 0..n |-> IF i = 0 THEN {} ELSE AddedBy(active, a, i, f[i - 1])]
      BY <2>2, <2>4
  <2> QED BY <2>5 DEF Accumulates
<1>3. T = {}
  <2> SUFFICES ASSUME T # {} PROVE FALSE
      OBVIOUS
  <2>1. T \in SUBSET Nat
      OBVIOUS
  <2>2. \A n \in Nat : n \in T <=> ~Exists(n)
      OBVIOUS
  <2> HIDE DEF T, Exists
  <2>3. PICK n \in T : \A m \in T : n <= m
      BY <2>1, LeastNumber
  <2>4. n \in Nat \ {0} /\ n - 1 \in Nat /\ n - 1 \notin T
      BY <1>1, <2>1, <2>2, <2>3
  <2> QED BY <1>2, <2>2, <2>4
<1> QED BY <1>3

LEMMA ProvidersAccumulate ==
    ASSUME NEW active, NEW a \in Airfields
    PROVE  \E f : /\ Accumulates(f, active, a, Len(TopDownOrder[a]))
                  /\ ServiceProvidersAtAirfield(active, a) = f[Len(TopDownOrder[a])]
<1>0. Len(TopDownOrder[a]) \in Nat
    BY TopDownAssumption
<1>1. PICK f : f = CHOOSE g : Accumulates(g, active, a, Len(TopDownOrder[a]))
    OBVIOUS
<1>2. ServiceProvidersAtAirfield(active, a) = f[Len(TopDownOrder[a])]
    BY <1>1, Zenon DEF ServiceProvidersAtAirfield, Accumulates, AddedBy
<1>3. Accumulates(f, active, a, Len(TopDownOrder[a]))
    BY <1>0, <1>1, AccumulationExists, Zenon
<1> QED BY <1>2, <1>3

\* What a position can provide, and what everybody of its type provides
CanProvide(p, s) ==
    CASE s = "Delivery" -> TRUE
      [] s = "Ground" -> ProvidesGroundServices(p)
      [] s = "Tower" -> ProvidesTowerServices(p)
      [] s = "FinalApproach" -> ProvidesApproachServices(p)
      [] s = "Approach" -> ProvidesApproachServices(p)
OwnService(p, s) ==
    \/ s = "Ground" /\ TypeOf[p] = "GND"
    \/ s = "Tower" /\ TypeOf[p] = "TWR"
    \/ s = "Approach" /\ TypeOf[p] = "APP"

\* The places in the top-down order of those online who can
Able(active, a, s) ==
    {n \in 1..Len(TopDownOrder[a]) :
        TopDownOrder[a][n] \in DOMAIN active /\ CanProvide(TopDownOrder[a][n], s)}

\* The services due from the one at place n
Due(active, a, n, s) ==
    /\ n \in Able(active, a, s)
    /\ OwnService(TopDownOrder[a][n], s) \/ \A m \in Able(active, a, s) : n <= m

LEMMA ServicesOfFacts ==
    ASSUME NEW p, NEW providers, NEW s \in Services,
           providers = {} <=> ~Provided(providers, "Delivery")
    PROVE  s \in ServicesOf(p, providers) <=>
              CanProvide(p, s) /\ (OwnService(p, s) \/ ~Provided(providers, s))
<1>1. CASE s = "Delivery"
    BY <1>1 DEF ServicesOf, CanProvide, OwnService
<1>2. CASE s = "Ground"
    BY <1>2 DEF ServicesOf, CanProvide, OwnService
<1>3. CASE s = "Tower"
    BY <1>3 DEF ServicesOf, CanProvide, OwnService
<1>4. CASE s = "FinalApproach"
    BY <1>4 DEF ServicesOf, CanProvide, OwnService
<1>5. CASE s = "Approach"
    BY <1>5 DEF ServicesOf, CanProvide, OwnService
<1> QED BY <1>1, <1>2, <1>3, <1>4, <1>5 DEF Services

LEMMA OwnServiceFacts ==
    ASSUME NEW p, NEW s \in Services, OwnService(p, s) PROVE CanProvide(p, s)
BY DEF OwnService, CanProvide, ProvidesGroundServices, ProvidesTowerServices, ProvidesApproachServices

\* What has been provided after the first n
ProvidedAfter(providers, active, a, n) ==
    /\ \A x : x \in providers <=>
          \E m \in 1..n : \E s \in Services :
              Due(active, a, m, s) /\ x = ProvidedBy(active, TopDownOrder[a][m], s)
    /\ \A s \in Services : Provided(providers, s) <=> \E m \in Able(active, a, s) : m <= n

LEMMA ProvidedByFacts ==
    \A active, p, s : ProvidedBy(active, p, s).service = s
BY DEF ProvidedBy

LEMMA DeliveryFirst ==
    ASSUME NEW providers, NEW active, NEW a \in Airfields, NEW n \in Nat,
           ProvidedAfter(providers, active, a, n)
    PROVE  providers = {} <=> ~Provided(providers, "Delivery")
<1>1. CASE providers = {}
    BY <1>1 DEF Provided
<1>2. CASE providers # {}
  <2>1. PICK x : x \in providers
      BY <1>2
  <2>2. PICK m \in 1..n, s \in Services : Due(active, a, m, s)
      BY <2>1 DEF ProvidedAfter
  <2>3. m \in Able(active, a, "Delivery") /\ m <= n /\ "Delivery" \in Services
      BY <2>2 DEF Due, Able, CanProvide, Services
  <2>4. Provided(providers, "Delivery")
      BY <2>3 DEF ProvidedAfter
  <2> QED BY <1>2, <2>4
<1> QED BY <1>1, <1>2

LEMMA ProvidingStep ==
    ASSUME NEW active, NEW a \in Airfields, NEW n \in 1..Len(TopDownOrder[a]),
           NEW before, ProvidedAfter(before, active, a, n - 1),
           NEW after, after = AddedBy(active, a, n, before)
    PROVE  ProvidedAfter(after, active, a, n)
<1>0. Len(TopDownOrder[a]) \in Nat /\ n - 1 \in Nat
    BY TopDownAssumption
<1>1. PICK p : p = TopDownOrder[a][n]
    OBVIOUS
<1>2. CASE p \notin DOMAIN active
  <2>1. after = before
      BY <1>1, <1>2 DEF AddedBy
  <2>2. \A s : n \notin Able(active, a, s)
      BY <1>1, <1>2 DEF Able
  <2>3. \A s : \A m \in Able(active, a, s) : m <= n <=> m <= n - 1
      BY <1>0, <2>2 DEF Able
  <2>4. \A x : x \in after <=>
            \E m \in 1..n : \E s \in Services :
                Due(active, a, m, s) /\ x = ProvidedBy(active, TopDownOrder[a][m], s)
      BY <1>0, <2>1, <2>2 DEF ProvidedAfter, Due
  <2>5. \A s \in Services : Provided(after, s) <=> \E m \in Able(active, a, s) : m <= n
      BY <2>1, <2>3 DEF ProvidedAfter
  <2> QED BY <2>4, <2>5 DEF ProvidedAfter
<1>3. CASE p \in DOMAIN active
  <2>1. after = before \cup {ProvidedBy(active, p, s) : s \in ServicesOf(p, before)}
      BY <1>1, <1>3 DEF AddedBy
  <2>2. before = {} <=> ~Provided(before, "Delivery")
      BY <1>0, DeliveryFirst
  <2>3. \A s \in Services : n \in Able(active, a, s) <=> CanProvide(p, s)
      BY <1>1, <1>3 DEF Able
  <2>4. \A s \in Services : Provided(before, s) <=> \E m \in Able(active, a, s) : m <= n - 1
      BY DEF ProvidedAfter
  <2>5. \A s \in Services : Able(active, a, s) \subseteq Nat
      BY <1>0 DEF Able
  <2>6. ASSUME NEW s \in Services PROVE s \in ServicesOf(p, before) <=> Due(active, a, n, s)
    <3>1. (\A m \in Able(active, a, s) : n <= m) <=> ~Provided(before, s)
        BY <1>0, <2>4, <2>5
    <3> QED BY <1>1, <2>2, <2>3, <3>1, ServicesOfFacts DEF Due
  <2>7. \A s : s \in ServicesOf(p, before) => s \in Services
      BY DEF ServicesOf
  <2>8. ASSUME NEW x
        PROVE  x \in after <=>
                 \E m \in 1..n : \E s \in Services :
                    Due(active, a, m, s) /\ x = ProvidedBy(active, TopDownOrder[a][m], s)
    <3>1. x \in before <=>
             \E m \in 1..(n - 1) : \E s \in Services :
                Due(active, a, m, s) /\ x = ProvidedBy(active, TopDownOrder[a][m], s)
        BY DEF ProvidedAfter
    <3>2. x \in after <=> x \in before \/ \E s \in Services :
                Due(active, a, n, s) /\ x = ProvidedBy(active, TopDownOrder[a][n], s)
        BY <1>1, <2>1, <2>6, <2>7
    <3>3. \A m : m \in 1..n <=> m \in 1..(n - 1) \/ m = n
        BY <1>0
    <3> QED BY <3>1, <3>2, <3>3
  <2>9. ASSUME NEW s \in Services
        PROVE  Provided(after, s) <=> \E m \in Able(active, a, s) : m <= n
    <3>1. Provided(after, s) <=> Provided(before, s) \/ s \in ServicesOf(p, before)
        BY <2>1, ProvidedByFacts DEF Provided
    <3>2. s \in ServicesOf(p, before) => n \in Able(active, a, s)
        BY <2>6 DEF Due
    <3>3. n \in Able(active, a, s) => Provided(before, s) \/ s \in ServicesOf(p, before)
        BY <2>2, <2>3, ServicesOfFacts
    <3>4. (\E m \in Able(active, a, s) : m <= n) <=>
             n \in Able(active, a, s) \/ \E m \in Able(active, a, s) : m <= n - 1
        BY <1>0, <2>5
    <3> QED BY <2>4, <3>1, <3>2, <3>3, <3>4
  <2> QED BY <2>8, <2>9 DEF ProvidedAfter
<1> QED BY <1>2, <1>3

LEMMA ProvidersDue ==
    ASSUME NEW active, NEW a \in Airfields
    PROVE  ProvidedAfter(ServiceProvidersAtAirfield(active, a), active, a, Len(TopDownOrder[a]))
<1> PICK N : N = Len(TopDownOrder[a])
    OBVIOUS
<1>0. N \in Nat
    BY TopDownAssumption
<1>1. PICK f : Accumulates(f, active, a, N) /\ ServiceProvidersAtAirfield(active, a) = f[N]
    BY ProvidersAccumulate
<1>2. f[0] = {} /\ \A n \in 1..N : f[n] = AddedBy(active, a, n, f[n - 1])
  <2>1. \A n \in 0..N : f[n] = IF n = 0 THEN {} ELSE AddedBy(active, a, n, f[n - 1])
      BY <1>1, Zenon DEF Accumulates
  <2> QED BY <1>0, <2>1
<1>3. ProvidedAfter(f[0], active, a, 0)
    BY <1>0, <1>2 DEF ProvidedAfter, Provided, Able
<1>4. PICK T : T = {n \in 0..N : ~ProvidedAfter(f[n], active, a, n)}
    OBVIOUS
<1>5. T = {}
  <2> SUFFICES ASSUME T # {} PROVE FALSE
      OBVIOUS
  <2>1. T \in SUBSET Nat
      BY <1>0, <1>4
  <2>2. PICK n \in T : \A m \in T : n <= m
      BY <2>1, LeastNumber
  <2>3. n \in 1..N /\ n - 1 \in 0..N /\ n - 1 \notin T
      BY <1>0, <1>3, <1>4, <2>1, <2>2
  <2>4. ProvidedAfter(f[n - 1], active, a, n - 1)
      BY <1>4, <2>3
  <2>5. ProvidedAfter(f[n], active, a, n)
      BY <1>2, <2>3, <2>4, ProvidingStep
  <2> QED BY <1>4, <2>2, <2>5
<1>6. ProvidedAfter(f[N], active, a, N)
    BY <1>0, <1>4, <1>5
<1> QED BY <1>1, <1>6

FirstOf(T) == IF T # {} THEN Min(T) ELSE 0

LEMMA FirstOfFacts ==
    ASSUME NEW T \in SUBSET (Nat \ {0})
    PROVE  \A n : n \in T /\ (\A m \in T : n <= m) <=> FirstOf(T) # 0 /\ n = FirstOf(T)
<1>1. CASE T = {}
    BY <1>1 DEF FirstOf
<1>2. CASE T # {}
  <2>1. FirstOf(T) \in T /\ \A m \in T : FirstOf(T) <= m
      BY <1>2, MinFacts DEF FirstOf
  <2>2. ASSUME NEW n \in T, \A m \in T : n <= m
        PROVE  n = FirstOf(T)
    <3>1. n \in Nat /\ FirstOf(T) \in Nat /\ n <= FirstOf(T) /\ FirstOf(T) <= n
        BY <2>1, <2>2
    <3> QED BY <3>1
  <2> QED BY <2>1, <2>2
<1> QED BY <1>1, <1>2

\* The type of controller whose service it is
OwnType(s) ==
    CASE s = "Ground" -> "GND" [] s = "Tower" -> "TWR" [] OTHER -> "APP"

\* Where the lowest come first, the first who can provide a service is of its
\* type if one of that type is online.
LEMMA FirstIsOfType ==
    ASSUME NEW active, NEW a \in Airfields, DOMAIN active \subseteq Range(TopDownOrder[a]), LowestFirst(active, a),
           NEW s \in Services \ {"Delivery"}, TypeOnline(OwnType(s), active),
           NEW n \in Able(active, a, s), \A m \in Able(active, a, s) : n <= m
    PROVE  TypeOf[TopDownOrder[a][n]] = OwnType(s)
<1>1. PICK q \in DOMAIN active : TypeOf[q] = OwnType(s)
    BY DEF TypeOnline
<1>2. PICK g \in 1..Len(TopDownOrder[a]) : TopDownOrder[a][g] = q
    BY DEF Range
<1>3. CanProvide(q, s)
    BY <1>1 DEF OwnType, CanProvide, ProvidesGroundServices, ProvidesTowerServices,
                ProvidesApproachServices, Services
<1>4. g \in Able(active, a, s)
    BY <1>2, <1>3 DEF Able
<1>5. /\ n \in 1..Len(TopDownOrder[a]) /\ Len(TopDownOrder[a]) \in Nat
      /\ CanProvide(TopDownOrder[a][n], s) /\ n <= g
    BY <1>4, TopDownAssumption DEF Able
<1>6. CASE n = g
    BY <1>1, <1>2, <1>6
<1>7. CASE n < g
  <2>1. Height[TypeOf[TopDownOrder[a][n]]] <= Height[OwnType(s)]
      BY <1>1, <1>2, <1>5, <1>7 DEF LowestFirst, Able
  <2>2. /\ Height["GND"] = 2 /\ Height["TWR"] = 3 /\ Height["APP"] = 4 /\ Height["CTR"] = 5
      BY DEF Height
  <2> HIDE DEF Height
  <2>3. CASE s = "Ground"
    <3>1. TypeOf[TopDownOrder[a][n]] \in {"GND", "TWR", "APP", "CTR"} /\ OwnType(s) = "GND"
        BY <1>5, <2>3 DEF CanProvide, ProvidesGroundServices, OwnType
    <3> QED BY <2>1, <2>2, <3>1
  <2>4. CASE s = "Tower"
    <3>1. TypeOf[TopDownOrder[a][n]] \in {"TWR", "APP", "CTR"} /\ OwnType(s) = "TWR"
        BY <1>5, <2>4 DEF CanProvide, ProvidesTowerServices, OwnType
    <3> QED BY <2>1, <2>2, <3>1
  <2>5. CASE s \in {"FinalApproach", "Approach"}
    <3>1. TypeOf[TopDownOrder[a][n]] \in {"APP", "CTR"} /\ OwnType(s) = "APP"
        BY <1>5, <2>5 DEF CanProvide, ProvidesApproachServices, OwnType
    <3> QED BY <2>1, <2>2, <3>1
  <2> QED BY <2>3, <2>4, <2>5 DEF Services
<1>8. n \in Nat /\ g \in Nat
    BY <1>2, <1>5
<1> QED BY <1>5, <1>6, <1>7, <1>8

\* There the services documented are those of one's type, and those one is the
\* first who can provide.
LEMMA DocumentedFacts ==
    ASSUME NEW active, NEW a \in Airfields, DOMAIN active \subseteq Range(TopDownOrder[a]), LowestFirst(active, a),
           NEW p \in DOMAIN active, NEW s \in Services
    PROVE  s \in DocumentedServices(p, active, a) <=>
              \/ OwnService(p, s)
              \/ \E n \in Able(active, a, s) :
                    (\A m \in Able(active, a, s) : n <= m) /\ p = TopDownOrder[a][n]
<1>1. PICK first : first = FirstOf(Able(active, a, s))
    OBVIOUS
<1>2. PICK is : is = (first # 0 /\ p = TopDownOrder[a][first])
    OBVIOUS
<1>0. Able(active, a, s) \in SUBSET (Nat \ {0})
    BY TopDownAssumption DEF Able
<1>5. \A n : n \in Able(active, a, s) /\ (\A m \in Able(active, a, s) : n <= m) <=> first # 0 /\ n = first
    BY <1>0, <1>1, FirstOfFacts
<1>3. is <=> \E n \in Able(active, a, s) :
                 (\A m \in Able(active, a, s) : n <= m) /\ p = TopDownOrder[a][n]
  <2>1. is <=> first # 0 /\ p = TopDownOrder[a][first]
      BY <1>2
  <2> QED BY <1>5, <2>1
<1>6. ASSUME s # "Delivery", TypeOnline(OwnType(s), active), first # 0
      PROVE  TypeOf[TopDownOrder[a][first]] = OwnType(s)
    BY <1>5, <1>6, FirstIsOfType
<1>7. ~TypeOnline(OwnType(s), active) => TypeOf[p] # OwnType(s)
    BY DEF TypeOnline
<1>4. s \in DocumentedServices(p, active, a) <=> OwnService(p, s) \/ is
  <2>1. CASE s = "Delivery"
    <3>1. Able(active, a, s) = {n \in 1..Len(TopDownOrder[a]) : TopDownOrder[a][n] \in DOMAIN active /\ TRUE}
        BY <2>1 DEF Able, CanProvide
    <3>2. is <=> FirstWho(LAMBDA q : TRUE, p, active, a)
        BY <1>1, <1>2, <3>1 DEF FirstWho, SelectInSeq, FirstOf
    <3>3. s \in DocumentedServices(p, active, a) <=> FirstWho(LAMBDA q : TRUE, p, active, a)
        BY <2>1 DEF DocumentedServices, Services
    <3> QED BY <2>1, <3>2, <3>3 DEF OwnService
  <2>2. CASE s = "Ground"
    <3>1. Able(active, a, s) = {n \in 1..Len(TopDownOrder[a]) :
             TopDownOrder[a][n] \in DOMAIN active /\ ProvidesGroundServices(TopDownOrder[a][n])}
        BY <2>2 DEF Able, CanProvide
    <3>2. is <=> FirstWho(ProvidesGroundServices, p, active, a)
        BY <1>1, <1>2, <3>1 DEF FirstWho, SelectInSeq, FirstOf
    <3>3. s \in DocumentedServices(p, active, a) <=>
             IF TypeOnline("GND", active) THEN TypeOf[p] = "GND"
             ELSE FirstWho(ProvidesGroundServices, p, active, a)
        BY <2>2 DEF DocumentedServices, Services
    <3>4. OwnType(s) = "GND" /\ (OwnService(p, s) <=> TypeOf[p] = "GND")
        BY <2>2 DEF OwnType, OwnService
    <3> QED BY <1>2, <1>6, <1>7, <2>2, <3>2, <3>3, <3>4
  <2>3. CASE s = "Tower"
    <3>1. Able(active, a, s) = {n \in 1..Len(TopDownOrder[a]) :
             TopDownOrder[a][n] \in DOMAIN active /\ ProvidesTowerServices(TopDownOrder[a][n])}
        BY <2>3 DEF Able, CanProvide
    <3>2. is <=> FirstWho(ProvidesTowerServices, p, active, a)
        BY <1>1, <1>2, <3>1 DEF FirstWho, SelectInSeq, FirstOf
    <3>3. s \in DocumentedServices(p, active, a) <=>
             IF TypeOnline("TWR", active) THEN TypeOf[p] = "TWR"
             ELSE FirstWho(ProvidesTowerServices, p, active, a)
        BY <2>3 DEF DocumentedServices, Services
    <3>4. OwnType(s) = "TWR" /\ (OwnService(p, s) <=> TypeOf[p] = "TWR")
        BY <2>3 DEF OwnType, OwnService
    <3> QED BY <1>2, <1>6, <1>7, <2>3, <3>2, <3>3, <3>4
  <2>4. CASE s \in {"FinalApproach", "Approach"}
    <3>1. Able(active, a, s) = {n \in 1..Len(TopDownOrder[a]) :
             TopDownOrder[a][n] \in DOMAIN active /\ ProvidesApproachServices(TopDownOrder[a][n])}
        BY <2>4 DEF Able, CanProvide
    <3>2. is <=> FirstWho(ProvidesApproachServices, p, active, a)
        BY <1>1, <1>2, <3>1 DEF FirstWho, SelectInSeq, FirstOf
    <3>3. OwnType(s) = "APP" /\ (OwnService(p, s) <=> s = "Approach" /\ TypeOf[p] = "APP")
        BY <2>4 DEF OwnType, OwnService
    <3>4. CASE s = "Approach"
      <4>1. s \in DocumentedServices(p, active, a) <=>
               IF TypeOnline("APP", active) THEN TypeOf[p] = "APP"
               ELSE FirstWho(ProvidesApproachServices, p, active, a)
          BY <3>4 DEF DocumentedServices, Services
      <4> QED BY <1>2, <1>6, <1>7, <3>2, <3>3, <3>4, <4>1
    <3>5. CASE s = "FinalApproach" /\ ~TypeOnline("APP", active)
      <4>1. s \in DocumentedServices(p, active, a) <=> FirstWho(ProvidesApproachServices, p, active, a)
          BY <3>5 DEF DocumentedServices, Services
      <4> QED BY <3>2, <3>3, <3>5, <4>1
    <3>6. CASE s = "FinalApproach" /\ TypeOnline("APP", active)
      <4>1. s \in DocumentedServices(p, active, a) <=> FirstWho(LAMBDA q : TypeOf[q] = "APP", p, active, a)
          BY <3>6 DEF DocumentedServices, Services
      <4>2. PICK apps : apps = {n \in 1..Len(TopDownOrder[a]) :
                TopDownOrder[a][n] \in DOMAIN active /\ TypeOf[TopDownOrder[a][n]] = "APP"}
          OBVIOUS
      <4>3. FirstWho(LAMBDA q : TypeOf[q] = "APP", p, active, a) <=>
               FirstOf(apps) # 0 /\ p = TopDownOrder[a][FirstOf(apps)]
          BY <4>2 DEF FirstWho, SelectInSeq, FirstOf
      <4>4. apps \in SUBSET (Nat \ {0}) /\ apps \subseteq Able(active, a, s) /\ apps # {}
        <5>1. apps \subseteq Able(active, a, s)
            BY <3>1, <4>2 DEF ProvidesApproachServices
        <5>2. PICK q \in DOMAIN active : TypeOf[q] = "APP"
            BY <3>6 DEF TypeOnline
        <5>3. PICK n \in 1..Len(TopDownOrder[a]) : TopDownOrder[a][n] = q
            BY DEF Range
        <5> QED BY <1>0, <4>2, <5>1, <5>2, <5>3
      <4>5. FirstOf(apps) = first
        <5>1. FirstOf(apps) \in apps
            BY <4>4, MinFacts DEF FirstOf
        <5>2. first \in Able(active, a, s) /\ first # 0 /\ \A m \in Able(active, a, s) : first <= m
            BY <1>0, <1>1, <4>4, MinFacts DEF FirstOf
        <5>3. first \in apps
            BY <1>6, <3>1, <3>3, <3>6, <4>2, <5>2
        <5> QED BY <4>4, <5>2, <5>3, FirstOfFacts
      <4> QED BY <1>2, <3>3, <3>6, <4>1, <4>3, <4>5
    <3> QED BY <2>4, <3>4, <3>5, <3>6
  <2> QED BY <2>1, <2>2, <2>3, <2>4 DEF Services
<1> QED BY <1>3, <1>4

\* The services found are those documented.
LEMMA ProvidersDocumented ==
    ASSUME NEW active, NEW a \in Airfields, DOMAIN active \subseteq Range(TopDownOrder[a]), LowestFirst(active, a)
    PROVE  ServiceProvidersAtAirfield(active, a) =
              UNION {{ProvidedBy(active, p, s) : s \in DocumentedServices(p, active, a)} : p \in DOMAIN active}
<1>1. PICK providers : providers = ServiceProvidersAtAirfield(active, a)
    OBVIOUS
<1>2. \A x : x \in providers <=>
          \E n \in 1..Len(TopDownOrder[a]) : \E s \in Services :
              Due(active, a, n, s) /\ x = ProvidedBy(active, TopDownOrder[a][n], s)
    BY <1>1, ProvidersDue DEF ProvidedAfter
<1>3. ASSUME NEW p \in DOMAIN active, NEW s \in Services
      PROVE  s \in DocumentedServices(p, active, a) <=>
                \E n \in 1..Len(TopDownOrder[a]) : p = TopDownOrder[a][n] /\ Due(active, a, n, s)
  <2>1. ASSUME OwnService(p, s)
        PROVE  \E n \in 1..Len(TopDownOrder[a]) : p = TopDownOrder[a][n] /\ Due(active, a, n, s)
    <3>0. p \in Range(TopDownOrder[a])
        OBVIOUS
    <3>1. PICK n \in 1..Len(TopDownOrder[a]) : p = TopDownOrder[a][n]
        BY <3>0 DEF Range
    <3>2. n \in Able(active, a, s)
        BY <2>1, <3>1, OwnServiceFacts DEF Able
    <3> QED BY <2>1, <3>1, <3>2 DEF Due
  <2>2. \A n \in Able(active, a, s) : n \in 1..Len(TopDownOrder[a])
      BY DEF Able
  <2> QED BY <2>1, <2>2, DocumentedFacts DEF Due
<1>4. \A p : \A s \in DocumentedServices(p, active, a) : s \in Services
    BY DEF DocumentedServices
<1>5. \A n \in 1..Len(TopDownOrder[a]) : \A s \in Services :
          Due(active, a, n, s) => TopDownOrder[a][n] \in DOMAIN active
    BY DEF Due, Able
<1>6. ASSUME NEW x
      PROVE  x \in providers <=>
                \E p \in DOMAIN active : \E s \in DocumentedServices(p, active, a) : x = ProvidedBy(active, p, s)
    BY <1>2, <1>3, <1>4, <1>5
<1> QED BY <1>1, <1>6

-------------------------------------------------------------------------------
(* The steps of one callback.  A world is right when it is typed, its       *)
(* collection agrees and, unless a handler was given a destroyed callsign, *)
(* the owners and the cached handoffs are those of the callsigns in it.    *)

Worlds == [cs  : Collection,
           ow  : [Airfields -> SUBSET Provision],
           ho  : [Flightplans -> Resolved \cup {NotCached}],
           fl  : Listed,
           set : [Flightplans -> Routes \cup {NoRoute}],
           bad : BOOLEAN]

WorldRight(w) ==
    /\ w \in Worlds
    /\ Agrees(w.cs)
    /\ \/ w.bad
       \/ OwnersRight(w.cs, w.ow) /\ HandoffsRight(w.cs, w.fl, w.ho)

LEMMA WorldFacts ==
    ASSUME NEW w \in Worlds
    PROVE  /\ w.cs \in Collection /\ w.ow \in [Airfields -> SUBSET Provision]
           /\ w.ho \in [Flightplans -> Resolved \cup {NotCached}]
           /\ w.fl \in Listed /\ w.set \in [Flightplans -> Routes \cup {NoRoute}]
           /\ w.bad \in BOOLEAN
BY DEF Worlds

LEMMA OnlineFacts ==
    ASSUME NEW fl \in Listed, NEW f \in Online(fl) PROVE f \in Flightplans /\ fl.route[f] \in Routes
BY DEF Online, Listed

LEMMA ProvidersTyped ==
    ASSUME NEW cs \in Collection, NEW a \in Airfields
    PROVE  GetServiceProviders(cs, a) \in SUBSET Provision
<1>1. PICK active : active = ActiveControllers(cs, a)
    OBVIOUS
<1>2. ASSUME NEW p \in DOMAIN active, NEW s \in Services
      PROVE  ProvidedBy(active, p, s) \in Provision
  <2>1. p \in Range(TopDownOrder[a]) /\ PositionActive(cs, p)
      BY <1>1, <1>2 DEF ActiveControllers
  <2>2. p \in Positions
      BY <2>1, TopDownAssumption DEF Range
  <2>3. Lead(cs, p) \in Callsigns
      BY <2>1, <2>2, LeadFacts DEF Collection
  <2>4. active[p] = [callsign |-> Lead(cs, p), user |-> UserLeads(cs, p)]
      BY <1>1, <2>1 DEF ActiveControllers
  <2>5. UserLeads(cs, p) \in BOOLEAN
      BY DEF UserLeads
  <2> QED BY <1>2, <2>3, <2>4, <2>5 DEF ProvidedBy, Provision
<1>3. ServiceProvidersAtAirfield(active, a) \in SUBSET Provision
  <2>1. \A x \in ServiceProvidersAtAirfield(active, a) :
            \E m \in 1..Len(TopDownOrder[a]) : \E s \in Services :
                Due(active, a, m, s) /\ x = ProvidedBy(active, TopDownOrder[a][m], s)
      BY ProvidersDue DEF ProvidedAfter
  <2>2. \A m : \A s : Due(active, a, m, s) => TopDownOrder[a][m] \in DOMAIN active
      BY DEF Due, Able
  <2> QED BY <1>2, <2>1, <2>2
<1> QED BY <1>1, <1>3 DEF GetServiceProviders

LEMMA RefreshingTyped ==
    ASSUME NEW cs \in Collection, NEW ow \in [Airfields -> SUBSET Provision], NEW p
    PROVE  RefreshOwners(ow, cs, p) \in [Airfields -> SUBSET Provision]
BY ProvidersTyped DEF RefreshOwners

\* Resolving gives a handoff, and the cached one if there is one.
LEMMA ResolvingFacts ==
    ASSUME NEW cs, NEW r \in Routes, NEW h \in Resolved \cup {NotCached}
    PROVE  /\ Resolve(cs, r, h) \in Resolved
           /\ HandoffRight(cs, r, h) => HandoffRight(cs, r, Resolve(cs, r, h))
BY HandoffFacts DEF Resolve

\* One that is resolved among the new callsigns and then not looked at again
LEMMA RecheckedRight ==
    ASSUME NEW cs, NEW new, NEW p \in Positions, SameBut(cs, new, p), NEW r \in Routes,
           NEW h \in Resolved \cup {NotCached}, HandoffRight(cs, r, h),
           \/ new.at[p] \subseteq cs.at[p] /\ Resolve(new, r, h).to # p
           \/ ~ShouldInvalidateOnCallsignAdded(Resolve(new, r, h), p)
    PROVE  HandoffRight(new, r, Resolve(new, r, h))
<1>1. CASE h = NotCached
    BY <1>1, HandoffFacts DEF Resolve
<1>2. CASE h # NotCached
  <2>1. h \in Resolved /\ Resolve(new, r, h) = h
      BY <1>2 DEF Resolve
  <2> QED BY <2>1, HandoffStaysRight
<1> QED BY <1>1, <1>2

LEMMA AddedHandoffs ==
    ASSUME NEW new, NEW fl \in Listed, NEW ho \in [Flightplans -> Resolved \cup {NotCached}], NEW p
    PROVE  /\ HandoffsOnAdded(ho, new, fl, p) \in [Flightplans -> Resolved \cup {NotCached}]
           /\ \A cs : p \in Positions /\ SameBut(cs, new, p) /\ HandoffsRight(cs, fl, ho) =>
                      HandoffsRight(new, fl, HandoffsOnAdded(ho, new, fl, p))
<1>1. PICK then : then = HandoffsOnAdded(ho, new, fl, p)
    OBVIOUS
<1>2. then = [f \in Flightplans |->
                 IF f \notin Online(fl) THEN ho[f]
                 ELSE IF ShouldInvalidateOnCallsignAdded(Resolve(new, fl.route[f], ho[f]), p)
                      THEN Handoff(new, fl.route[f]) ELSE Resolve(new, fl.route[f], ho[f])]
    BY <1>1 DEF HandoffsOnAdded, HandoffsRechecked
<1>3. ASSUME NEW f \in Flightplans PROVE then[f] \in Resolved \cup {NotCached}
    BY <1>2, OnlineFacts, HandoffFacts, ResolvingFacts
<1>4. ASSUME NEW cs, p \in Positions, SameBut(cs, new, p), HandoffsRight(cs, fl, ho),
             NEW f \in Online(fl)
      PROVE  HandoffRight(new, fl.route[f], then[f])
  <2>1. PICK r, h : r = fl.route[f] /\ h = ho[f]
      OBVIOUS
  <2>2. f \in Flightplans /\ r \in Routes /\ h \in Resolved \cup {NotCached} /\ HandoffRight(cs, r, h)
      BY <1>4, <2>1, OnlineFacts DEF HandoffsRight
  <2>3. CASE ShouldInvalidateOnCallsignAdded(Resolve(new, r, h), p)
    <3>1. then[f] = Handoff(new, r)
        BY <1>2, <2>1, <2>2, <2>3
    <3> QED BY <2>1, <2>2, <3>1, HandoffFacts
  <2>4. CASE ~ShouldInvalidateOnCallsignAdded(Resolve(new, r, h), p)
    <3>1. then[f] = Resolve(new, r, h)
        BY <1>2, <2>1, <2>2, <2>4
    <3>2. HandoffRight(new, r, Resolve(new, r, h))
        BY <1>4, <2>2, <2>4, RecheckedRight
    <3> QED BY <2>1, <3>1, <3>2
  <2> QED BY <2>3, <2>4
<1> QED BY <1>1, <1>2, <1>3, <1>4 DEF HandoffsRight

LEMMA RemovedHandoffs ==
    ASSUME NEW new, NEW fl \in Listed, NEW ho \in [Flightplans -> Resolved \cup {NotCached}], NEW p
    PROVE  /\ HandoffsOnRemoved(ho, new, fl, p) \in [Flightplans -> Resolved \cup {NotCached}]
           /\ \A cs : /\ p \in Positions /\ SameBut(cs, new, p) /\ new.at[p] \subseteq cs.at[p]
                      /\ HandoffsRight(cs, fl, ho)
                      => HandoffsRight(new, fl, HandoffsOnRemoved(ho, new, fl, p))
<1>1. PICK then : then = HandoffsOnRemoved(ho, new, fl, p)
    OBVIOUS
<1>2. then = [f \in Flightplans |->
                 IF f \notin Online(fl) THEN ho[f]
                 ELSE IF Resolve(new, fl.route[f], ho[f]).to = p
                      THEN Handoff(new, fl.route[f]) ELSE Resolve(new, fl.route[f], ho[f])]
    BY <1>1 DEF HandoffsOnRemoved, HandoffsRechecked
<1>3. ASSUME NEW f \in Flightplans PROVE then[f] \in Resolved \cup {NotCached}
    BY <1>2, OnlineFacts, HandoffFacts, ResolvingFacts
<1>4. ASSUME NEW cs, p \in Positions, SameBut(cs, new, p), new.at[p] \subseteq cs.at[p],
             HandoffsRight(cs, fl, ho), NEW f \in Online(fl)
      PROVE  HandoffRight(new, fl.route[f], then[f])
  <2>1. PICK r, h : r = fl.route[f] /\ h = ho[f]
      OBVIOUS
  <2>2. f \in Flightplans /\ r \in Routes /\ h \in Resolved \cup {NotCached} /\ HandoffRight(cs, r, h)
      BY <1>4, <2>1, OnlineFacts DEF HandoffsRight
  <2>3. CASE Resolve(new, r, h).to = p
    <3>1. then[f] = Handoff(new, r)
        BY <1>2, <2>1, <2>2, <2>3
    <3> QED BY <2>1, <2>2, <3>1, HandoffFacts
  <2>4. CASE Resolve(new, r, h).to # p
    <3>1. then[f] = Resolve(new, r, h)
        BY <1>2, <2>1, <2>2, <2>4
    <3>2. HandoffRight(new, r, Resolve(new, r, h))
        BY <1>4, <2>2, <2>4, RecheckedRight
    <3> QED BY <2>1, <3>1, <3>2
  <2> QED BY <2>3, <2>4
<1> QED BY <1>1, <1>2, <1>3, <1>4 DEF HandoffsRight

\* Levels matter to none of it, only routes.
LEMMA AssigningFacts ==
    ASSUME NEW w \in Worlds, NEW lg, NEW fs
    PROVE  LET then == Assigned(w, lg, fs)
           IN  /\ then \in Worlds /\ then.cs = w.cs /\ then.ow = w.ow /\ then.ho = w.ho
               /\ then.bad = w.bad /\ then.fl.route = w.fl.route
<1>1. PICK due : /\ due = {f \in fs \cap Online(w.fl) : /\ Automatic /\ LoggedIn(lg)
                                             /\ lg.since \in Settled
                                             /\ MayAssign(f, w.fl, w.set, w.ow)}
    OBVIOUS
<1>2. Assigned(w, lg, fs) =
         [w EXCEPT !.fl = WithLevel(w.fl, due), !.set = WithSet(w.set, w.fl, due)]
    BY <1>1 DEF Assigned
<1>3. \A f \in due : w.fl.route[f] \in Routes
    BY <1>1, WorldFacts, OnlineFacts
<1>4. WithLevel(w.fl, due) \in Listed /\ WithLevel(w.fl, due).route = w.fl.route
  <2>1. \A r \in Routes : SidLevel[r] \in Levels
      BY LevelsAssumption DEF Levels, Range
  <2> QED BY <1>3, <2>1, WorldFacts DEF WithLevel, Listed
<1>5. WithSet(w.set, w.fl, due) \in [Flightplans -> Routes \cup {NoRoute}]
    BY <1>3, WorldFacts DEF WithSet
<1> QED BY <1>2, <1>4, <1>5 DEF Worlds

LEMMA OnlineSame ==
    ASSUME NEW fl, NEW then, then.route = fl.route
    PROVE  Online(then) = Online(fl)
BY DEF Online

LEMMA JoiningRight ==
    ASSUME NEW w, WorldRight(w), NEW c \in Callsigns, NEW p \in Positions, NEW isUser \in BOOLEAN,
           NEW lg, ~CallsignActive(w.cs, c), isUser => w.cs.user = NoCallsign
    PROVE  WorldRight(Joined(w, c, p, isUser, lg))
<1>0. w \in Worlds /\ Agrees(w.cs) /\ w.cs \in Collection
    BY WorldFacts DEF WorldRight
<1>1. PICK cs : cs = AddCallsign(w.cs, c, p, isUser)
    OBVIOUS
<1>2. Agrees(cs) /\ cs \in Collection
    BY <1>0, <1>1, AddingAgrees DEF Agrees
<1>3. SameBut(w.cs, cs, p)
    BY <1>0, <1>1, AddingMattersThere
<1>4. PICK owned : owned = [w EXCEPT !.cs = cs, !.ow = RefreshOwners(w.ow, cs, p)]
    OBVIOUS
<1>5. RefreshOwners(w.ow, cs, p) \in [Airfields -> SUBSET Provision]
    BY <1>0, <1>2, WorldFacts, RefreshingTyped
<1>6. /\ owned \in Worlds /\ owned.cs = cs /\ owned.ow = RefreshOwners(w.ow, cs, p)
      /\ owned.ho = w.ho /\ owned.bad = w.bad /\ owned.fl = w.fl
    BY <1>0, <1>2, <1>4, <1>5 DEF Worlds
<1>7. PICK levelled : levelled = IF isUser THEN Assigned(owned, lg, Flightplans) ELSE owned
    OBVIOUS
<1>8. /\ levelled \in Worlds /\ levelled.cs = cs /\ levelled.ow = owned.ow
      /\ levelled.ho = w.ho /\ levelled.bad = w.bad /\ levelled.fl.route = w.fl.route
    BY <1>6, <1>7, AssigningFacts
<1>9. PICK ho : ho = HandoffsOnAdded(w.ho, cs, w.fl, p)
    OBVIOUS
<1>10. PICK then : then = Joined(w, c, p, isUser, lg)
    OBVIOUS
<1>11. then = [levelled EXCEPT !.ho = ho]
    BY <1>1, <1>4, <1>7, <1>8, <1>9, <1>10 DEF Joined
<1>12. ho \in [Flightplans -> Resolved \cup {NotCached}]
    BY <1>0, <1>9, WorldFacts, AddedHandoffs
<1>13. /\ then \in Worlds /\ then.cs = cs /\ then.ow = RefreshOwners(w.ow, cs, p) /\ then.ho = ho
       /\ then.bad = w.bad /\ then.fl.route = w.fl.route
    BY <1>6, <1>8, <1>11, <1>12 DEF Worlds
<1>14. ASSUME ~w.bad
       PROVE  OwnersRight(cs, then.ow) /\ HandoffsRight(cs, then.fl, ho)
  <2>1. OwnersRight(w.cs, w.ow) /\ HandoffsRight(w.cs, w.fl, w.ho)
      BY <1>14 DEF WorldRight
  <2>2. OwnersRight(cs, then.ow)
      BY <1>0, <1>3, <1>13, <2>1, WorldFacts, RefreshingRight
  <2>3. HandoffsRight(cs, w.fl, ho)
      BY <1>0, <1>3, <1>9, <2>1, WorldFacts, AddedHandoffs
  <2> QED BY <1>13, <2>2, <2>3, OnlineSame DEF HandoffsRight
<1> QED BY <1>2, <1>10, <1>13, <1>14 DEF WorldRight

\* What is left when a callsign goes and the handlers are told a position
LEMMA LeavingTyped ==
    ASSUME NEW w \in Worlds, Agrees(w.cs), NEW c \in Callsigns, CallsignActive(w.cs, c), NEW told
    PROVE  LET then == Left(w, c, told)
           IN  /\ then \in Worlds /\ then.cs = RemoveCallsign(w.cs, c) /\ Agrees(then.cs)
               /\ then.ow = IF told = NoPosition THEN w.ow ELSE RefreshOwners(w.ow, then.cs, told)
               /\ then.ho = HandoffsOnRemoved(w.ho, then.cs, w.fl, told)
               /\ then.fl = w.fl /\ then.bad = w.bad
<1>1. PICK cs : cs = RemoveCallsign(w.cs, c)
    OBVIOUS
<1>2. Agrees(cs) /\ cs \in Collection
    BY <1>1, RemovingAgrees DEF Agrees
<1>3. PICK ow : ow = IF told = NoPosition THEN w.ow ELSE RefreshOwners(w.ow, cs, told)
    OBVIOUS
<1>4. PICK ho : ho = HandoffsOnRemoved(w.ho, cs, w.fl, told)
    OBVIOUS
<1>5. PICK then : then = Left(w, c, told)
    OBVIOUS
<1>6. then = [w EXCEPT !.cs = cs, !.ow = ow, !.ho = ho]
    BY <1>1, <1>3, <1>4, <1>5 DEF Left
<1>7. ow \in [Airfields -> SUBSET Provision]
    BY <1>2, <1>3, WorldFacts, RefreshingTyped
<1>8. ho \in [Flightplans -> Resolved \cup {NotCached}]
    BY <1>4, WorldFacts, RemovedHandoffs
<1>9. /\ then \in Worlds /\ then.cs = cs /\ then.ow = ow /\ then.ho = ho
      /\ then.fl = w.fl /\ then.bad = w.bad
    BY <1>2, <1>6, <1>7, <1>8 DEF Worlds
<1> QED BY <1>1, <1>2, <1>3, <1>4, <1>5, <1>9

LEMMA LeavingRight ==
    ASSUME NEW w, WorldRight(w), NEW c \in Callsigns, CallsignActive(w.cs, c)
    PROVE  /\ WorldRight(Left(w, c, w.cs.covering[c]))
           /\ ~CallsignActive(Left(w, c, w.cs.covering[c]).cs, c)
<1>0. w \in Worlds /\ Agrees(w.cs)
    BY DEF WorldRight
<1>1. PICK p, cs, then : /\ p = w.cs.covering[c] /\ cs = RemoveCallsign(w.cs, c)
                         /\ then = Left(w, c, w.cs.covering[c])
    OBVIOUS
<1>2. p \in Positions /\ SameBut(w.cs, cs, p) /\ cs.at[p] \subseteq w.cs.at[p]
    BY <1>0, <1>1, RemovingMattersThere
<1>3. /\ then \in Worlds /\ then.cs = cs /\ Agrees(cs)
      /\ then.ow = RefreshOwners(w.ow, cs, p)
      /\ then.ho = HandoffsOnRemoved(w.ho, cs, w.fl, p) /\ then.fl = w.fl /\ then.bad = w.bad
    BY <1>0, <1>1, <1>2, LeavingTyped, CallsignsAssumption
<1>4. ASSUME ~w.bad
      PROVE  OwnersRight(cs, then.ow) /\ HandoffsRight(cs, then.fl, then.ho)
  <2>1. OwnersRight(w.cs, w.ow) /\ HandoffsRight(w.cs, w.fl, w.ho)
      BY <1>4 DEF WorldRight
  <2>2. OwnersRight(cs, then.ow)
      BY <1>0, <1>2, <1>3, <2>1, WorldFacts, RefreshingRight
  <2>3. HandoffsRight(cs, w.fl, HandoffsOnRemoved(w.ho, cs, w.fl, p))
    <3>1. w.fl \in Listed /\ w.ho \in [Flightplans -> Resolved \cup {NotCached}]
        BY <1>0, WorldFacts
    <3> QED BY <1>2, <2>1, <3>1, RemovedHandoffs
  <2> QED BY <1>3, <2>2, <2>3
<1>5. ~CallsignActive(cs, c)
    BY <1>0, <1>1, RemovingAgrees
<1> QED BY <1>1, <1>3, <1>4, <1>5 DEF WorldRight

LEMMA FlushingRight ==
    ASSUME NEW w, WorldRight(w) PROVE WorldRight(Flushed(w))
<1>0. w \in Worlds
    BY DEF WorldRight
<1>1. PICK ho : ho = HandoffsOnFlush(w.ho, w.fl)
    OBVIOUS
<1>2. /\ ho \in [Flightplans -> Resolved \cup {NotCached}]
      /\ \A f \in Online(w.fl) : ho[f] = NotCached
    BY <1>0, <1>1, WorldFacts, OnlineFacts DEF HandoffsOnFlush
<1>3. PICK then : then = Flushed(w)
    OBVIOUS
<1>4. then = [w EXCEPT !.cs = NoneActive, !.ow = NoOwners, !.ho = ho]
    BY <1>1, <1>3 DEF Flushed
<1>5. Agrees(NoneActive) /\ NoneActive \in Collection
    BY NoneActiveAgrees DEF Agrees
<1>6. NoOwners \in [Airfields -> SUBSET Provision]
    BY DEF NoOwners
<1>7. /\ then \in Worlds /\ then.cs = NoneActive /\ then.ow = NoOwners /\ then.ho = ho
      /\ then.fl = w.fl /\ then.bad = w.bad
    BY <1>0, <1>2, <1>4, <1>5, <1>6 DEF Worlds
<1>8. OwnersRight(NoneActive, NoOwners)
    BY NoneActiveRight
<1>9. HandoffsRight(NoneActive, w.fl, ho)
    BY <1>2 DEF HandoffsRight, HandoffRight
<1> QED BY <1>3, <1>5, <1>7, <1>8, <1>9 DEF WorldRight

LEMMA ReplacingRight ==
    ASSUME NEW w, WorldRight(w), NEW r \in Replaced(w)
    PROVE  /\ WorldRight(r) /\ r.cs.user = NoCallsign
           /\ \A d \in Callsigns : ~CallsignActive(w.cs, d) => ~CallsignActive(r.cs, d)
<1>0. w \in Worlds /\ Agrees(w.cs)
    BY DEF WorldRight
<1>1. CASE w.cs.user = NoCallsign
    BY <1>1 DEF Replaced
<1>2. CASE w.cs.user # NoCallsign
  <2>1. PICK old : old = w.cs.user
      OBVIOUS
  <2>2. old \in Callsigns /\ old \in w.cs.flagged
      BY <1>0, <1>2, <2>1 DEF Agrees, Collection
  <2>3. CallsignActive(w.cs, old)
      BY <1>0, <2>2 DEF Agrees
  <2>4. PICK told : r = [Left(w, old, told) EXCEPT !.bad = TRUE]
      BY <1>2, <2>1 DEF Replaced
  <2>5. PICK left : left = Left(w, old, told)
      OBVIOUS
  <2>6. left \in Worlds /\ left.cs = RemoveCallsign(w.cs, old) /\ Agrees(left.cs)
      BY <1>0, <2>2, <2>3, <2>5, LeavingTyped
  <2>7. r \in Worlds /\ r.cs = RemoveCallsign(w.cs, old) /\ Agrees(r.cs) /\ r.bad
      BY <2>4, <2>5, <2>6 DEF Worlds
  <2>8. WorldRight(r)
      BY <2>7 DEF WorldRight
  <2>9. /\ RemoveCallsign(w.cs, old).user = NoCallsign
        /\ \A d \in Callsigns :
              ~CallsignActive(w.cs, d) => ~CallsignActive(RemoveCallsign(w.cs, old), d)
      BY <1>0, <2>1, <2>2, <2>3, RemovingAgrees
  <2> QED BY <2>7, <2>8, <2>9
<1> QED BY <1>1, <1>2

LEMMA ReportingRight ==
    ASSUME NEW w, WorldRight(w), NEW c \in Callsigns, NEW f, NEW isUser \in BOOLEAN,
           NEW r \in Reported(w, c, f, isUser)
    PROVE  WorldRight(r)
<1>1. PICK gone : gone = IF CallsignActive(w.cs, c) /\ f # w.cs.covering[c]
                         THEN Left(w, c, w.cs.covering[c]) ELSE w
    OBVIOUS
<1>2. /\ WorldRight(gone)
      /\ ~(CallsignActive(w.cs, c) /\ f = w.cs.covering[c]) => ~CallsignActive(gone.cs, c)
  <2>1. CASE CallsignActive(w.cs, c) /\ f # w.cs.covering[c]
      BY <1>1, <2>1, LeavingRight
  <2>2. CASE ~(CallsignActive(w.cs, c) /\ f # w.cs.covering[c])
      BY <1>1, <2>2
  <2> QED BY <2>1, <2>2
<1>3. CASE f \notin Positions \/ (CallsignActive(w.cs, c) /\ f = w.cs.covering[c])
  <2>1. r = gone
      BY <1>1, <1>3 DEF Reported
  <2> QED BY <1>2, <2>1
<1>4. CASE /\ f \in Positions /\ ~(CallsignActive(w.cs, c) /\ f = w.cs.covering[c])
           /\ isUser
  <2>1. PICK v \in Replaced(gone) : r = Joined(v, c, f, TRUE, login)
      BY <1>1, <1>4 DEF Reported
  <2>2. WorldRight(v) /\ v.cs.user = NoCallsign /\ ~CallsignActive(v.cs, c)
      BY <1>2, <1>4, ReplacingRight
  <2> QED BY <1>4, <2>1, <2>2, JoiningRight
<1>5. CASE /\ f \in Positions /\ ~(CallsignActive(w.cs, c) /\ f = w.cs.covering[c])
           /\ ~isUser
  <2>1. r = Joined(gone, c, f, FALSE, login)
      BY <1>1, <1>5 DEF Reported
  <2> QED BY <1>2, <1>5, <2>1, JoiningRight
<1> QED BY <1>3, <1>4, <1>5

-------------------------------------------------------------------------------
(* Between callbacks *)

NowRight == WorldRight(Now)

ControllersIInv ==
    /\ NowRight
    /\ alreadyDeparted \in [Flightplans -> Airfields \cup {NotDeparted}]
    /\ connection \in Connections
    /\ me \in Callsigns \cup {NoCallsign}
    /\ login \in Login

LEMMA NowFacts ==
    ASSUME NowRight
    PROVE  /\ Now \in Worlds /\ Agrees(callsigns) /\ callsigns \in Collection
           /\ owners \in [Airfields -> SUBSET Provision]
           /\ handoffs \in [Flightplans -> Resolved \cup {NotCached}]
           /\ flightplans \in Listed
           /\ alreadySet \in [Flightplans -> Routes \cup {NoRoute}]
           /\ dangling \in BOOLEAN
           /\ ~dangling => /\ OwnersRight(callsigns, owners)
                           /\ HandoffsRight(callsigns, flightplans, handoffs)
<1>1. PICK w : w = Now
    OBVIOUS
<1>2. /\ w \in Worlds /\ Agrees(w.cs)
      /\ ~w.bad => OwnersRight(w.cs, w.ow) /\ HandoffsRight(w.cs, w.fl, w.ho)
    BY <1>1 DEF NowRight, WorldRight
<1>3. /\ w.cs = callsigns /\ w.ow = owners /\ w.ho = handoffs /\ w.fl = flightplans
      /\ w.set = alreadySet /\ w.bad = dangling
    BY <1>1 DEF Now
<1>4. /\ w.cs \in Collection /\ w.ow \in [Airfields -> SUBSET Provision]
      /\ w.ho \in [Flightplans -> Resolved \cup {NotCached}]
      /\ w.fl \in Listed /\ w.set \in [Flightplans -> Routes \cup {NoRoute}]
      /\ w.bad \in BOOLEAN
    BY <1>2, WorldFacts
<1> QED BY <1>1, <1>2, <1>3, <1>4

LEMMA BecomingRight == ASSUME NEW w, WorldRight(w), Becomes(w) PROVE NowRight'
<1>1. w \in Worlds
    BY DEF WorldRight
<1>2. Now' = w
    BY <1>1 DEF Now, Becomes, Worlds
<1> QED BY <1>2 DEF NowRight, WorldRight

\* What happens to the flightplans while the callsigns stay
LEMMA FlightplansRight ==
    ASSUME NowRight, callsigns' = callsigns, owners' = owners, dangling' = dangling,
           flightplans' \in Listed,
           handoffs' \in [Flightplans -> Resolved \cup {NotCached}],
           alreadySet' \in [Flightplans -> Routes \cup {NoRoute}],
           ~dangling => HandoffsRight(callsigns, flightplans', handoffs')
    PROVE  NowRight'
<1>1. PICK w : w = [cs |-> callsigns, ow |-> owners, ho |-> handoffs', fl |-> flightplans',
                    set |-> alreadySet', bad |-> dangling]
    OBVIOUS
<1>2. w \in Worlds
    BY <1>1, NowFacts DEF Worlds
<1>3. /\ w.cs = callsigns /\ w.ow = owners /\ w.ho = handoffs' /\ w.fl = flightplans'
      /\ w.set = alreadySet' /\ w.bad = dangling
    BY <1>1
<1>4. WorldRight(w)
    BY <1>2, <1>3, NowFacts DEF WorldRight
<1>5. Becomes(w)
    BY <1>3 DEF Becomes
<1> QED BY <1>4, <1>5, BecomingRight

LEMMA LoginCheckRight ==
    ASSUME NEW w, WorldRight(w), NEW lg PROVE WorldRight(LoginChecked(w, lg))
BY FlushingRight DEF LoginChecked

LEMMA SeenTyped ==
    ASSUME login \in Login, connection \in Connections PROVE Seen(login) \in Login
BY DEF Seen, Login

\* A flightplan that is neither filed nor resolved anew keeps its handoff.
LEMMA KeptHandoffs ==
    ASSUME NowRight, NEW fl \in Listed, NEW ho \in [Flightplans -> Resolved \cup {NotCached}],
           \A f \in Online(fl) :
               \/ ho[f] = NotCached
               \/ ho[f] = Handoff(callsigns, fl.route[f])
               \/ /\ f \in Online(flightplans) /\ fl.route[f] = flightplans.route[f]
                  /\ ho[f] \in {handoffs[f], Resolve(callsigns, flightplans.route[f], handoffs[f])}
    PROVE  ~dangling => HandoffsRight(callsigns, fl, ho)
<1> SUFFICES ASSUME ~dangling, NEW f \in Online(fl)
             PROVE  HandoffRight(callsigns, fl.route[f], ho[f])
    BY DEF HandoffsRight
<1>1. f \in Flightplans /\ fl.route[f] \in Routes
    BY OnlineFacts
<1>2. CASE ho[f] = NotCached
    BY <1>2 DEF HandoffRight
<1>3. CASE ho[f] = Handoff(callsigns, fl.route[f])
    BY <1>1, <1>3, HandoffFacts
<1>4. CASE /\ f \in Online(flightplans) /\ fl.route[f] = flightplans.route[f]
           /\ ho[f] \in {handoffs[f], Resolve(callsigns, flightplans.route[f], handoffs[f])}
  <2>1. HandoffRight(callsigns, flightplans.route[f], handoffs[f])
      BY <1>4, NowFacts DEF HandoffsRight
  <2>2. handoffs[f] \in Resolved \cup {NotCached}
      BY <1>1, NowFacts
  <2>3. HandoffRight(callsigns, fl.route[f], Resolve(callsigns, fl.route[f], handoffs[f]))
      BY <1>1, <1>4, <2>1, <2>2, ResolvingFacts
  <2> QED BY <1>4, <2>1, <2>3
<1> QED BY <1>2, <1>3, <1>4

LEMMA ReportKeepsRight ==
    ASSUME ControllersIInv, NEW c \in Callsigns, NEW f, ControllerUpdateEvent(c, f)
    PROVE  ControllersIInv'
<1>1. PICK w \in Reported(Now, c, f, c = me) :
         \/ Becomes(LoginChecked(w, login)) /\ login' = Seen(login)
         \/ Becomes(w) /\ login' = login
    BY DEF ControllerUpdateEvent
<1>2. (c = me) \in BOOLEAN
    OBVIOUS
<1>3. WorldRight(Now)
    BY DEF ControllersIInv, NowRight
<1>4. WorldRight(w)
    BY <1>2, <1>3, ReportingRight
<1>5. WorldRight(LoginChecked(w, login))
    BY <1>4, LoginCheckRight
<1>6. NowRight'
    BY <1>1, <1>4, <1>5, BecomingRight
<1>7. login' \in Login
    BY <1>1, SeenTyped DEF ControllersIInv
<1> QED BY <1>6, <1>7 DEF ControllersIInv, ControllerUpdateEvent, Connections

LEMMA DisconnectionKeepsRight ==
    ASSUME ControllersIInv, NEW c \in Callsigns, ControllerDisconnectEvent(c)
    PROVE  ControllersIInv'
<1>1. WorldRight(Now) /\ Now.cs = callsigns
    BY DEF ControllersIInv, NowRight, Now
<1>2. CallsignActive(callsigns, c) /\ Becomes(Left(Now, c, callsigns.covering[c]))
    BY DEF ControllerDisconnectEvent
<1>3. WorldRight(Left(Now, c, callsigns.covering[c]))
    BY <1>1, <1>2, LeavingRight
<1>4. NowRight'
    BY <1>2, <1>3, BecomingRight
<1> QED BY <1>4 DEF ControllersIInv, ControllerDisconnectEvent, Connections

LEMMA LoginTickKeepsRight ==
    ASSUME ControllersIInv, LoginTick
    PROVE  ControllersIInv'
<1>1. WorldRight(LoginChecked(Now, login))
    BY LoginCheckRight DEF ControllersIInv, NowRight
<1>2. NowRight'
    BY <1>1, BecomingRight DEF LoginTick
<1>3. login' \in Login
    BY SeenTyped DEF ControllersIInv, LoginTick
<1> QED BY <1>2, <1>3 DEF ControllersIInv, LoginTick, Connections

LEMMA AssignmentRight ==
    ASSUME NEW w, WorldRight(w), NEW lg, NEW fs
    PROVE  WorldRight(Assigned(w, lg, fs))
<1>1. PICK then : then = Assigned(w, lg, fs)
    OBVIOUS
<1>2. w \in Worlds
    BY DEF WorldRight
<1>3. /\ then \in Worlds /\ then.cs = w.cs /\ then.ow = w.ow /\ then.ho = w.ho
      /\ then.bad = w.bad /\ then.fl.route = w.fl.route
    BY <1>1, <1>2, AssigningFacts
<1>4. HandoffsRight(w.cs, w.fl, w.ho) => HandoffsRight(w.cs, then.fl, w.ho)
    BY <1>3, OnlineSame DEF HandoffsRight
<1> QED BY <1>1, <1>3, <1>4 DEF WorldRight

LEMMA AssignmentKeepsRight ==
    ASSUME ControllersIInv, AssignmentTick
    PROVE  ControllersIInv'
<1>1. WorldRight(Assigned(Now, login, Flightplans))
    BY AssignmentRight DEF ControllersIInv, NowRight
<1>2. NowRight'
    BY <1>1, BecomingRight DEF AssignmentTick
<1> QED BY <1>2 DEF ControllersIInv, AssignmentTick, Connections

\* A flightplan is filed: its route changes, its handoff is found anew.
LEMMA FilingKeepsRight ==
    ASSUME ControllersIInv, NEW f \in Flightplans, NEW r \in Routes, FlightPlanEvent(f, r)
    PROVE  ControllersIInv'
<1>0. NowRight
    BY DEF ControllersIInv
<1>1. PICK fl : fl = [flightplans EXCEPT !.route[f] = r]
    OBVIOUS
<1>2. fl \in Listed /\ fl.route = [flightplans.route EXCEPT ![f] = r]
    BY <1>0, <1>1, NowFacts DEF Listed
<1>3. PICK filed : filed = [Now EXCEPT !.fl = fl]
    OBVIOUS
<1>4. /\ filed \in Worlds /\ filed.cs = callsigns /\ filed.ow = owners /\ filed.ho = handoffs
      /\ filed.fl = fl /\ filed.bad = dangling
    BY <1>0, <1>2, <1>3, NowFacts DEF Worlds, Now
<1>5. PICK w : w = Assigned(filed, login, {f})
    OBVIOUS
<1>6. /\ w \in Worlds /\ w.cs = callsigns /\ w.ow = owners /\ w.ho = handoffs
      /\ w.bad = dangling /\ w.fl.route = fl.route
    BY <1>4, <1>5, AssigningFacts
<1>7. PICK v : v = [w EXCEPT !.ho = [handoffs EXCEPT ![f] = Handoff(callsigns, r)]]
    OBVIOUS
<1>8. Becomes(v)
  <2>1. filed = [Now EXCEPT !.fl.route[f] = r]
      BY <1>1, <1>3 DEF Now
  <2>2. v = [w EXCEPT !.ho[f] = Handoff(callsigns, r)]
      BY <1>6, <1>7
  <2> QED BY <1>5, <2>1, <2>2 DEF FlightPlanEvent
<1>9. [handoffs EXCEPT ![f] = Handoff(callsigns, r)] \in [Flightplans -> Resolved \cup {NotCached}]
    BY <1>0, NowFacts, HandoffFacts
<1>10. /\ v \in Worlds /\ v.cs = callsigns /\ v.ow = owners /\ v.bad = dangling /\ v.fl = w.fl
       /\ v.ho = [handoffs EXCEPT ![f] = Handoff(callsigns, r)]
    BY <1>6, <1>7, <1>9 DEF Worlds
<1>11. ~dangling => HandoffsRight(callsigns, w.fl, v.ho)
  <2>1. \A g \in Online(w.fl) :
           \/ v.ho[g] = Handoff(callsigns, w.fl.route[g])
           \/ /\ g \in Online(flightplans) /\ w.fl.route[g] = flightplans.route[g]
              /\ v.ho[g] = handoffs[g]
    <3> TAKE g \in Online(w.fl)
    <3>1. CASE g = f
        BY <1>0, <1>2, <1>6, <1>10, <3>1, NowFacts DEF Listed
    <3>2. CASE g # f
      <4>1. g \in Flightplans /\ w.fl.route[g] = flightplans.route[g]
          BY <1>0, <1>2, <1>6, <3>2, NowFacts DEF Listed, Online
      <4> QED BY <1>0, <1>10, <3>2, <4>1, NowFacts DEF Online
    <3> QED BY <3>1, <3>2
  <2>2. w.fl \in Listed /\ v.ho \in [Flightplans -> Resolved \cup {NotCached}]
      BY <1>6, <1>9, <1>10, WorldFacts
  <2> QED BY <1>0, <2>1, <2>2, KeptHandoffs
<1>12. WorldRight(v)
    BY <1>0, <1>10, <1>11, NowFacts DEF WorldRight
<1>13. NowRight'
    BY <1>8, <1>12, BecomingRight
<1>14. alreadyDeparted' \in [Flightplans -> Airfields \cup {NotDeparted}]
    BY OriginAssumption DEF ControllersIInv, FlightPlanEvent
<1> QED BY <1>13, <1>14 DEF ControllersIInv, FlightPlanEvent, Connections

LEMMA DepartureKeepsRight ==
    ASSUME ControllersIInv, DepartureTick
    PROVE  ControllersIInv'
<1>0. NowRight
    BY DEF ControllersIInv
<1>1. PICK leaving : leaving = {f \in Online(flightplans) : HasDeparted(f)}
    OBVIOUS
<1>2. leaving \in SUBSET Flightplans /\ \A f \in leaving : flightplans.route[f] \in Routes
    BY <1>0, <1>1, NowFacts, OnlineFacts
<1>3. PICK emptied : emptied = {f \in leaving : /\ ShouldClear(f, flightplans, handoffs', owners)
                                                /\ ClearsLevel(f, flightplans)}
    OBVIOUS
<1>4. /\ handoffs' = [f \in Flightplans |->
             IF f \in leaving THEN Resolve(callsigns, flightplans.route[f], handoffs[f])
             ELSE handoffs[f]]
      /\ flightplans' = [flightplans EXCEPT !.cleared = [f \in Flightplans |->
             IF f \in emptied THEN NoLevel ELSE flightplans.cleared[f]]]
    BY <1>1, <1>3 DEF DepartureTick
<1>5. handoffs' \in [Flightplans -> Resolved \cup {NotCached}]
  <2>1. \A f \in Flightplans : handoffs[f] \in Resolved \cup {NotCached}
      BY <1>0, NowFacts
  <2>2. \A f \in leaving : Resolve(callsigns, flightplans.route[f], handoffs[f]) \in Resolved
      BY <1>2, <2>1, ResolvingFacts
  <2> QED BY <1>2, <1>4, <2>1, <2>2
<1>6. flightplans' \in Listed /\ flightplans'.route = flightplans.route
    BY <1>0, <1>4, NowFacts DEF Listed, Levels
<1>7. ~dangling => HandoffsRight(callsigns, flightplans', handoffs')
  <2>1. \A f \in Online(flightplans') :
           /\ f \in Online(flightplans) /\ flightplans'.route[f] = flightplans.route[f]
           /\ handoffs'[f] \in {handoffs[f], Resolve(callsigns, flightplans.route[f], handoffs[f])}
      BY <1>4, <1>6 DEF Online
  <2> QED BY <1>0, <1>5, <1>6, <2>1, KeptHandoffs
<1>8. NowRight'
    BY <1>0, <1>5, <1>6, <1>7, FlightplansRight, NowFacts DEF DepartureTick
<1>9. alreadyDeparted' \in [Flightplans -> Airfields \cup {NotDeparted}]
    BY <1>1, <1>2, OriginAssumption DEF ControllersIInv, DepartureTick
<1> QED BY <1>8, <1>9 DEF ControllersIInv, DepartureTick, Connections

LEMMA ClosingKeepsRight ==
    ASSUME ControllersIInv, NEW f \in Flightplans, FlightPlanDisconnectEvent(f)
    PROVE  ControllersIInv'
<1>0. NowRight
    BY DEF ControllersIInv
<1>1. flightplans' \in Listed /\ flightplans'.route = [flightplans.route EXCEPT ![f] = NotOnline]
    BY <1>0, NowFacts DEF FlightPlanDisconnectEvent, Listed, Stages, Levels
<1>2. handoffs' = [handoffs EXCEPT ![f] = NotCached]
    BY DEF FlightPlanDisconnectEvent
<1>3. handoffs' \in [Flightplans -> Resolved \cup {NotCached}]
    BY <1>0, <1>2, NowFacts
<1>4. alreadySet' \in [Flightplans -> Routes \cup {NoRoute}]
    BY <1>0, NowFacts DEF FlightPlanDisconnectEvent
<1>5. ~dangling => HandoffsRight(callsigns, flightplans', handoffs')
  <2>1. \A g \in Online(flightplans') :
           /\ g \in Online(flightplans) /\ flightplans'.route[g] = flightplans.route[g]
           /\ handoffs'[g] \in {handoffs[g], Resolve(callsigns, flightplans.route[g], handoffs[g])}
      BY <1>0, <1>1, <1>2, NowFacts DEF Online, Listed
  <2> QED BY <1>0, <1>1, <1>3, <2>1, KeptHandoffs
<1>6. NowRight'
    BY <1>0, <1>1, <1>3, <1>4, <1>5, FlightplansRight DEF FlightPlanDisconnectEvent
<1> QED BY <1>6 DEF ControllersIInv, FlightPlanDisconnectEvent, Connections

LEMMA DrawingKeepsRight ==
    ASSUME ControllersIInv, NEW f \in Flightplans, SetTagItemData(f)
    PROVE  ControllersIInv'
<1>0. NowRight
    BY DEF ControllersIInv
<1>1. handoffs' = [handoffs EXCEPT ![f] = Resolve(callsigns, flightplans.route[f], handoffs[f])]
    BY DEF SetTagItemData
<1>2. handoffs' \in [Flightplans -> Resolved \cup {NotCached}]
  <2>1. flightplans.route[f] \in Routes
      BY <1>0, NowFacts, OnlineFacts DEF SetTagItemData
  <2>2. Resolve(callsigns, flightplans.route[f], handoffs[f]) \in Resolved
      BY <1>0, <2>1, NowFacts, ResolvingFacts
  <2> QED BY <1>0, <1>1, <2>2, NowFacts
<1>3. ~dangling => HandoffsRight(callsigns, flightplans, handoffs')
  <2>1. \A g \in Online(flightplans) :
           handoffs'[g] \in {handoffs[g], Resolve(callsigns, flightplans.route[g], handoffs[g])}
      BY <1>0, <1>1, NowFacts DEF Online
  <2> QED BY <1>0, <1>2, <2>1, KeptHandoffs, NowFacts
<1>4. NowRight'
    BY <1>0, <1>2, <1>3, FlightplansRight, NowFacts DEF SetTagItemData
<1> QED BY <1>4 DEF ControllersIInv, SetTagItemData, Connections

\* Every handoff is found anew for the runways.
LEMMA RunwaysKeepRight ==
    ASSUME ControllersIInv, NEW routes \in [Flightplans -> Routes \cup {NotOnline}],
           RunwayDialogSaved(routes)
    PROVE  ControllersIInv'
<1>0. NowRight
    BY DEF ControllersIInv
<1>1. flightplans' \in Listed
    BY <1>0, NowFacts DEF RunwayDialogSaved, Listed
<1>2. handoffs' = [f \in Flightplans |->
         IF f \notin Online(flightplans') THEN handoffs[f]
         ELSE Handoff(callsigns, flightplans'.route[f])]
    BY DEF RunwayDialogSaved, HandoffsOnRunways, HandoffsRechecked
<1>3. handoffs' \in [Flightplans -> Resolved \cup {NotCached}]
  <2>1. \A f \in Online(flightplans') : Handoff(callsigns, flightplans'.route[f]) \in Resolved
      BY <1>1, OnlineFacts, HandoffFacts
  <2> QED BY <1>0, <1>2, <2>1, NowFacts
<1>4. ~dangling => HandoffsRight(callsigns, flightplans', handoffs')
  <2>1. \A f \in Online(flightplans') : handoffs'[f] = Handoff(callsigns, flightplans'.route[f])
      BY <1>2 DEF Online
  <2> QED BY <1>0, <1>1, <1>3, <2>1, KeptHandoffs
<1>5. NowRight'
    BY <1>0, <1>1, <1>3, <1>4, FlightplansRight, NowFacts DEF RunwayDialogSaved
<1> QED BY <1>5 DEF ControllersIInv, RunwayDialogSaved, Connections

\* Levels and stages change, routes and handoffs do not.
LEMMA LevelsKeepRight ==
    ASSUME ControllersIInv, UNCHANGED <<callsigns, owners, handoffs, dangling,
                                        alreadyDeparted, connection, me, login>>,
           flightplans' \in Listed, flightplans'.route = flightplans.route,
           alreadySet' \in [Flightplans -> Routes \cup {NoRoute}]
    PROVE  ControllersIInv'
<1>0. NowRight
    BY DEF ControllersIInv
<1>1. HandoffsRight(callsigns, flightplans, handoffs) =>
          HandoffsRight(callsigns, flightplans', handoffs')
    BY OnlineSame DEF HandoffsRight
<1>2. NowRight'
    BY <1>0, <1>1, FlightplansRight, NowFacts
<1> QED BY <1>2 DEF ControllersIInv, Connections

LEMMA RecyclingKeepsRight ==
    ASSUME ControllersIInv, NEW f \in Flightplans, RecycleInitialAltitude(f)
    PROVE  ControllersIInv'
<1>0. NowRight /\ flightplans \in Listed /\ alreadySet \in [Flightplans -> Routes \cup {NoRoute}]
    BY NowFacts DEF ControllersIInv
<1>1. flightplans.route[f] \in Routes
    BY <1>0, OnlineFacts DEF RecycleInitialAltitude
<1>2. SidLevel[flightplans.route[f]] \in Levels
    BY <1>1, LevelsAssumption DEF Levels, Range
<1>3. flightplans' = [flightplans EXCEPT !.cleared[f] = SidLevel[flightplans.route[f]]]
    BY DEF RecycleInitialAltitude
<1>4. flightplans' \in Listed /\ flightplans'.route = flightplans.route
    BY <1>0, <1>2, <1>3 DEF Listed
<1>5. alreadySet' \in [Flightplans -> Routes \cup {NoRoute}]
    BY <1>0, <1>1 DEF RecycleInitialAltitude
<1> QED BY <1>4, <1>5, LevelsKeepRight DEF RecycleInitialAltitude

LEMMA MovingKeepsRight ==
    ASSUME ControllersIInv, NEW f \in Flightplans, NEW stage \in Stages, NEW level \in Levels,
           Moves(f, stage, level)
    PROVE  ControllersIInv'
<1>0. NowRight /\ flightplans \in Listed /\ alreadySet \in [Flightplans -> Routes \cup {NoRoute}]
    BY NowFacts DEF ControllersIInv
<1>1. flightplans' \in Listed /\ flightplans'.route = flightplans.route
    BY <1>0 DEF Moves, Listed
<1> QED BY <1>0, <1>1, LevelsKeepRight DEF Moves

LEMMA OutsideKeepsRight ==
    ASSUME ControllersIInv, UNCHANGED <<world, alreadyDeparted>>,
           connection' \in Connections, me' \in Callsigns \cup {NoCallsign}, login' \in Login
    PROVE  ControllersIInv'
<1>0. NowRight
    BY DEF ControllersIInv
<1>1. NowRight'
    BY <1>0, NowFacts, FlightplansRight DEF world
<1> QED BY <1>1 DEF ControllersIInv, Connections

LEMMA ControllersKeepRight == ControllersIInv /\ [ControllersNext]_controllersVars => ControllersIInv'
<1> SUFFICES ASSUME ControllersIInv, [ControllersNext]_controllersVars PROVE ControllersIInv'
    OBVIOUS
<1>1. CASE \E c \in Callsigns, f \in Positions \cup {Unset, Unmatched} : ControllerUpdateEvent(c, f)
    BY <1>1, ReportKeepsRight
<1>2. CASE \E c \in Callsigns : ControllerDisconnectEvent(c)
    BY <1>2, DisconnectionKeepsRight
<1>3. CASE LoginTick
    BY <1>3, LoginTickKeepsRight
<1>4. CASE AssignmentTick
    BY <1>4, AssignmentKeepsRight
<1>5. CASE DepartureTick
    BY <1>5, DepartureKeepsRight
<1>6. CASE \E f \in Flightplans, r \in Routes : FlightPlanEvent(f, r)
    BY <1>6, FilingKeepsRight
<1>7. CASE \E f \in Flightplans : FlightPlanDisconnectEvent(f)
    BY <1>7, ClosingKeepsRight
<1>8. CASE \E f \in Flightplans : SetTagItemData(f)
    BY <1>8, DrawingKeepsRight
<1>9. CASE \E routes \in [Flightplans -> Routes \cup {NotOnline}] : RunwayDialogSaved(routes)
    BY <1>9, RunwaysKeepRight
<1>10. CASE \E f \in Flightplans : RecycleInitialAltitude(f)
    BY <1>10, RecyclingKeepsRight
<1>11. ASSUME NEW kind \in Kinds, NEW c \in Callsigns, Connect(kind, c) PROVE ControllersIInv'
  <2>1. /\ UNCHANGED <<world, alreadyDeparted>> /\ login' = login
        /\ connection' \in Connections /\ me' \in Callsigns \cup {NoCallsign}
      BY <1>11 DEF Connect, Connections
  <2> QED BY <2>1, OutsideKeepsRight DEF ControllersIInv
<1>12. CASE Disconnect
  <2>1. /\ UNCHANGED <<world, alreadyDeparted>> /\ login' = login
        /\ connection' \in Connections /\ me' \in Callsigns \cup {NoCallsign}
      BY <1>12 DEF Disconnect, Connections
  <2> QED BY <2>1, OutsideKeepsRight DEF ControllersIInv
<1>13. CASE TimePasses
  <2>1. login' \in Login
      BY <1>13 DEF TimePasses, ControllersIInv, Login, Settled
  <2>2. UNCHANGED <<world, alreadyDeparted>> /\ connection' = connection /\ me' = me
      BY <1>13 DEF TimePasses
  <2> QED BY <2>1, <2>2, OutsideKeepsRight DEF ControllersIInv
<1>14. CASE \E f \in Flightplans, stage \in Stages, level \in Levels : Moves(f, stage, level)
    BY <1>14, MovingKeepsRight
<1>15. CASE UNCHANGED controllersVars
  <2>1. UNCHANGED <<world, alreadyDeparted>> /\ connection' = connection /\ me' = me /\ login' = login
      BY <1>15 DEF controllersVars
  <2> QED BY <2>1, OutsideKeepsRight DEF ControllersIInv
<1> QED BY <1>1, <1>2, <1>3, <1>4, <1>5, <1>6, <1>7, <1>8, <1>9, <1>10, <1>11, <1>12, <1>13, <1>14,
           <1>15 DEF ControllersNext

LEMMA ControllersStartRight == ControllersInit => ControllersIInv
<1> SUFFICES ASSUME ControllersInit PROVE ControllersIInv
    OBVIOUS
<1>1. PICK w : w = Now
    OBVIOUS
<1>2. /\ callsigns = NoneActive /\ owners = NoOwners
      /\ handoffs \in [Flightplans -> Resolved \cup {NotCached}]
      /\ flightplans \in Listed
      /\ alreadySet \in [Flightplans -> Routes \cup {NoRoute}]
      /\ dangling \in BOOLEAN
    BY DEF ControllersInit, Listed, Stages, Levels
<1>3. Agrees(NoneActive) /\ NoneActive \in Collection /\ OwnersRight(NoneActive, NoOwners)
    BY NoneActiveAgrees, NoneActiveRight DEF Agrees
<1>4. NoOwners \in [Airfields -> SUBSET Provision]
    BY DEF NoOwners
<1>5. /\ w \in Worlds /\ w.cs = NoneActive /\ w.ow = NoOwners /\ w.ho = handoffs
      /\ w.fl = flightplans
    BY <1>1, <1>2, <1>3, <1>4 DEF Worlds, Now
<1>6. HandoffsRight(NoneActive, flightplans, handoffs)
    BY DEF HandoffsRight, HandoffRight, Online, ControllersInit
<1>7. NowRight
    BY <1>1, <1>3, <1>5, <1>6 DEF NowRight, WorldRight
<1> QED BY <1>7 DEF ControllersIInv, ControllersInit, Connections, Login

-------------------------------------------------------------------------------
(* Every step keeps the active callsigns, the owners, the handoffs cached, *)
(* the flightplans and the login in the values they may have.              *)
THEOREM ControllersTyped == ControllersSpec => []ControllersTypeOK
<1>1. ControllersIInv => ControllersTypeOK
    BY NowFacts DEF ControllersIInv, ControllersTypeOK
<1> QED BY <1>1, ControllersStartRight, ControllersKeepRight, PTL DEF ControllersSpec

(* For any callsigns and positions, however reports, disconnections,       *)
(* logins and changes of the user's own callsign follow one another, the   *)
(* callsigns, the positions and the user's entry agree.                    *)
THEOREM CallsignsAgreed == ControllersSpec => []CallsignsAgree
<1>1. ControllersIInv => CallsignsAgree
  <2>1. ControllersIInv => Agrees(callsigns)
      BY NowFacts DEF ControllersIInv
  <2> QED BY <2>1 DEF Agrees, CallsignsAgree
<1> QED BY <1>1, ControllersStartRight, ControllersKeepRight, PTL DEF ControllersSpec

(* Although RefreshOwner is called only for the airfields of the position  *)
(* that changed, the owners of every airfield are those that would be      *)
(* found now, unless a handler was given a destroyed callsign.             *)
THEOREM OwnersFollowed == ControllersSpec => []OwnersFollowCallsigns
<1>1. ControllersIInv => OwnersFollowCallsigns
    BY NowFacts DEF ControllersIInv, OwnersFollowCallsigns, OwnersRight
<1> QED BY <1>1, ControllersStartRight, ControllersKeepRight, PTL DEF ControllersSpec

(* The one pass over the top-down order in GetServiceProvidersAtAirfield   *)
(* gives every controller the services its comment describes by type, and  *)
(* only those, for every order and whoever is online, unless one online    *)
(* stands before another of a lower type.                                  *)
THEOREM ServicesDocumented == ControllersSpec => []ServicesAsDocumented
<1>1. ControllersIInv => ServicesAsDocumented
  <2> SUFFICES ASSUME ControllersIInv, ~dangling, NEW a \in Airfields,
                      LowestFirst(ActiveControllers(callsigns, a), a)
               PROVE  LET active == ActiveControllers(callsigns, a)
                      IN  owners[a] = UNION {{ProvidedBy(active, p, s) :
                                                  s \in DocumentedServices(p, active, a)} :
                                             p \in DOMAIN active}
      BY DEF ServicesAsDocumented
  <2>1. PICK active : active = ActiveControllers(callsigns, a)
      OBVIOUS
  <2>2. DOMAIN active \subseteq Range(TopDownOrder[a])
      BY <2>1 DEF ActiveControllers
  <2>3. ServiceProvidersAtAirfield(active, a) =
           UNION {{ProvidedBy(active, p, s) : s \in DocumentedServices(p, active, a)} : p \in DOMAIN active}
      BY <2>1, <2>2, ProvidersDocumented
  <2>4. owners[a] = GetServiceProviders(callsigns, a)
      BY NowFacts DEF ControllersIInv, OwnersRight
  <2>5. DOMAIN active = {q \in Range(TopDownOrder[a]) : PositionActive(callsigns, q)}
      BY <2>1 DEF ActiveControllers
  <2>6. owners[a] = ServiceProvidersAtAirfield(active, a)
    <3>1. CASE \E p \in Range(TopDownOrder[a]) : PositionActive(callsigns, p)
        BY <2>1, <2>4, <3>1 DEF GetServiceProviders
    <3>2. CASE ~\E p \in Range(TopDownOrder[a]) : PositionActive(callsigns, p)
      <4>1. owners[a] = {} /\ DOMAIN active = {}
          BY <2>4, <2>5, <3>2 DEF GetServiceProviders
      <4> QED BY <2>3, <4>1
    <3> QED BY <3>1, <3>2
  <2> QED BY <2>1, <2>3, <2>6
<1> QED BY <1>1, ControllersStartRight, ControllersKeepRight, PTL DEF ControllersSpec

(* ShouldInvalidateOnCallsignAdded and the check on removal look at enough: *)
(* a handoff kept in the cache to a controller is to the one the           *)
(* hierarchies give now, however they overlap, unless a handler was given  *)
(* a destroyed callsign.                                                   *)
THEOREM HandoffsCurrent == ControllersSpec => []HandoffsToControllersCurrent
<1>1. ControllersIInv => HandoffsToControllersCurrent
    BY NowFacts DEF ControllersIInv, HandoffsToControllersCurrent, HandoffsRight, HandoffRight
<1> QED BY <1>1, ControllersStartRight, ControllersKeepRight, PTL DEF ControllersSpec
===============================================================================
