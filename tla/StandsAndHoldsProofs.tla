-------------------------- MODULE StandsAndHoldsProofs --------------------------
(***************************************************************************)
(* Proofs about Stands and about Holds, which keep the same kind of map in *)
(* the same way: types, that the lists the displays show agree with the    *)
(* aircraft, and that an aircraft has what the API gives it once nothing   *)
(* is on its way for it.  Then those about StandsOverPush: the transport   *)
(* Stands assumes is the one PushEvents gives it.                          *)
(***************************************************************************)
EXTENDS StandsOverPush, Holds, PushEventsProofs, SequenceTheorems, TLAPS

-------------------------------------------------------------------------------
(* Stands: bags of tasks.                                                     *)

\* A task is added to those there.
LEMMA QueuedStandTasks ==
    ASSUME NEW t, standTasks' = BagAdd(standTasks, t)
    PROVE  /\ StandTasks' = StandTasks \cup {t}
           /\ t \notin StandTasks => standTasks'[t] = 1
           /\ \A u \in StandTasks : u # t => standTasks'[u] = standTasks[u]
  BY DEF StandTasks, BagToSet, BagAdd

\* A task that ends leaves the others, and itself only if there were several.
LEMMA FinishedStandTasks ==
    ASSUME NEW t \in StandTasks, Finish(t)
    PROVE  /\ StandTasks \ {t} \subseteq StandTasks'
           /\ StandTasks' \subseteq StandTasks
           /\ standTasks[t] = 1 => t \notin StandTasks'
           /\ \A u \in StandTasks : u # t => standTasks'[u] = standTasks[u]
  BY DEF StandTasks, BagToSet, BagRemove, Finish

\* A task that goes on becomes another.
LEMMA ReplacedStandTasks ==
    ASSUME NEW t \in StandTasks, NEW v, v # t, Replace(t, v)
    PROVE  /\ (StandTasks \ {t}) \cup {v} \subseteq StandTasks'
           /\ StandTasks' \subseteq StandTasks \cup {v}
           /\ standTasks[t] = 1 => t \notin StandTasks'
           /\ v \notin StandTasks => standTasks'[v] = 1
           /\ \A u \in StandTasks \ {t, v} : standTasks'[u] = standTasks[u]
<1>1. PICK left : left = BagRemove(standTasks, t)
  OBVIOUS
<1>2. /\ DOMAIN left \subseteq StandTasks /\ StandTasks \ {t} \subseteq DOMAIN left
      /\ standTasks[t] = 1 => t \notin DOMAIN left
      /\ \A u \in StandTasks \ {t} : left[u] = standTasks[u]
  BY <1>1 DEF StandTasks, BagToSet, BagRemove
<1>3. standTasks' = BagAdd(left, v)
  BY <1>1 DEF Replace
<1>4. /\ DOMAIN standTasks' = DOMAIN left \cup {v}
      /\ v \notin DOMAIN left => standTasks'[v] = 1
      /\ \A u \in DOMAIN left : u # v => standTasks'[u] = left[u]
  BY <1>3 DEF BagAdd
<1>. QED
  BY <1>2, <1>4 DEF StandTasks, BagToSet

-------------------------------------------------------------------------------
(* Types.                                                                     *)

LEMMA RecordTyped ==
    ASSUME StandsTypeOK, NEW a \in StandAircraft, NEW s \in StandIds \cup {NoStand}, Record(a, s)
    PROVE  standsAtApi' \in Assignments /\ standEvents' \in Seq(StandEvent)
<1>1. [of |-> a, stand |-> s] \in StandEvent
  BY DEF StandEvent
<1>2. Append(standEvents, [of |-> a, stand |-> s]) \in Seq(StandEvent)
  BY <1>1, AppendProperties DEF StandsTypeOK
<1>. QED
  BY <1>2 DEF Record, StandsTypeOK, Assignments

LEMMA BoundedSeqTyped ==
    ASSUME NEW events \in BoundedSeq(StandEvent, MaxStandEvents)
    PROVE  events \in Seq(StandEvent)
<1>1. PICK n \in 0..MaxStandEvents : events \in [1..n -> StandEvent]
  BY DEF BoundedSeq, SeqOf
<1>. QED
  BY <1>1, SeqDef, StandsAssumption

\* Each step keeps the types: one case for each action.
LEMMA TypesKept == StandsTypeOK /\ [StandsNext]_standsVars => StandsTypeOK'
<1>. SUFFICES ASSUME StandsTypeOK, [StandsNext]_standsVars PROVE StandsTypeOK'
  OBVIOUS
<1>1. ASSUME NEW a \in StandAircraft, NEW s \in StandIds, AssignStand(a, s) PROVE StandsTypeOK'
  <2>1. [do |-> "tell", of |-> a, stand |-> s] \in StandTask
    BY DEF StandTask
  <2>2. StandTasks' \subseteq StandTask
    BY <1>1, <2>1, QueuedStandTasks DEF AssignStand, QueueStandTask, StandsTypeOK
  <2>. QED
    BY <1>1, <2>2 DEF AssignStand, Assign, StandsTypeOK, Assignments, standsApiVars, standsHistory
<1>2. ASSUME NEW a \in StandAircraft, UnassignStand(a) PROVE StandsTypeOK'
  <2>1. [do |-> "tell", of |-> a, stand |-> NoStand] \in StandTask
    BY DEF StandTask
  <2>2. StandTasks' \subseteq StandTask
    BY <1>2, <2>1, QueuedStandTasks DEF UnassignStand, QueueStandTask, StandsTypeOK
  <2>. QED
    BY <1>2, <2>2 DEF UnassignStand, Assign, StandsTypeOK, Assignments, standsApiVars, standsHistory
<1>3. ASSUME NEW a \in StandAircraft, NEW s \in StandIds, AutoStand(a, s) PROVE StandsTypeOK'
  <2>1. standsAtApi' \in Assignments /\ standEvents' \in Seq(StandEvent)
    BY <1>3, RecordTyped DEF AutoStand
  <2>2. standAssignments' \in Assignments
    BY <1>3 DEF AutoStand, Assign, StandsTypeOK, Assignments
  <2>. QED
    BY <1>3, <2>1, <2>2 DEF AutoStand, Record, StandsTypeOK, standsHistory, StandTasks
<1>4. ASSUME StandsSynced PROVE StandsTypeOK'
  <2>1. StandTasks' = StandTasks \cup {[do |-> "list"]} /\ [do |-> "list"] \in StandTask
    BY <1>4, QueuedStandTasks DEF StandsSynced, AskForStands, QueueStandTask, StandTask
  <2>. QED
    BY <1>4, <2>1 DEF StandsSynced, AskForStands, StandsTypeOK, standsApiVars, standsHistory
<1>5. ASSUME NEW t \in StandTasks, StandTold(t) PROVE StandsTypeOK'
  <2>1. t.of \in StandAircraft /\ t.stand \in StandIds \cup {NoStand}
    BY <1>5 DEF StandTold, StandsTypeOK, StandTask
  <2>2. standsAtApi' \in Assignments /\ standEvents' \in Seq(StandEvent)
    BY <1>5, <2>1, RecordTyped DEF StandTold
  <2>3. StandTasks' \subseteq StandTask
    BY <1>5, FinishedStandTasks DEF StandTold, StandsTypeOK
  <2>. QED
    BY <1>5, <2>2, <2>3 DEF StandTold, Record, StandsTypeOK, standsHistory
<1>13. ASSUME NEW t \in StandTasks, StandsListed(t) PROVE StandsTypeOK'
  <2>1. PICK v : v = [do |-> "load", list |-> standsAtApi]
    OBVIOUS
  <2>2. v \in StandTask /\ v # t
    BY <1>13, <2>1 DEF StandsListed, StandTask, StandsTypeOK
  <2>3. StandTasks' \subseteq StandTask
    BY <1>13, <2>1, <2>2, ReplacedStandTasks DEF StandsListed, StandsTypeOK
  <2>. QED
    BY <1>13, <2>3 DEF StandsListed, StandsTypeOK, standsApiVars, standsHistory
<1>6. ASSUME NEW t \in StandTasks, StandCallFailed(t) PROVE StandsTypeOK'
  <2>1. t.do = "tell" => t.of \in StandAircraft
    BY DEF StandsTypeOK, StandTask
  <2>2. StandTasks' \subseteq StandTask
    BY <1>6, FinishedStandTasks DEF StandCallFailed, StandsTypeOK
  <2>. QED
    BY <1>6, <2>1, <2>2 DEF StandCallFailed, StandsTypeOK, standsApiVars
<1>7. ASSUME NEW t \in StandTasks, LoadAssignedStands(t) PROVE StandsTypeOK'
  <2>1. t.list \in Assignments
    BY <1>7 DEF StandsTypeOK, StandTask, LoadAssignedStands
  <2>2. StandTasks' \subseteq StandTask
    BY <1>7, FinishedStandTasks DEF LoadAssignedStands, StandsTypeOK
  <2>. QED
    BY <1>7, <2>1, <2>2 DEF LoadAssignedStands, StandsTypeOK, standsApiVars
<1>8. ASSUME ProcessStandEvent PROVE StandsTypeOK'
  <2>1. Head(standEvents) \in StandEvent /\ standEvents' \in Seq(StandEvent)
    BY <1>8, HeadTailProperties DEF ProcessStandEvent, StandsTypeOK
  <2>2. Head(standEvents).of \in StandAircraft /\ Head(standEvents).stand \in StandIds \cup {NoStand}
    BY <2>1 DEF StandEvent
  <2>3. standAssignments' \in Assignments
    BY <1>8, <2>2 DEF ProcessStandEvent, ApplyStandEvent, Assign, StandsTypeOK, Assignments
  <2>4. standsAdrift' \subseteq StandAircraft
    BY <1>8 DEF ProcessStandEvent, ApplyStandEvent, StandsTypeOK
  <2>5. standsOvertaken' \subseteq StandAircraft
    BY <1>8, <2>2 DEF ProcessStandEvent, ApplyStandEvent, StandsTypeOK
  <2>. QED
    BY <1>8, <2>1, <2>3, <2>4, <2>5 DEF ProcessStandEvent, ApplyStandEvent, StandsTypeOK, StandTasks
<1>9. ASSUME NEW a \in StandAircraft, NEW s \in StandIds \cup {NoStand}, OthersAssign(a, s)
       PROVE StandsTypeOK'
  BY <1>9, RecordTyped DEF OthersAssign, Record, StandsTypeOK, standsHistory, StandTasks
<1>10. CASE UNCHANGED standsVars
  BY <1>10 DEF standsVars, StandsTypeOK, StandTasks
<1>11. CASE StandsAttach
  <2>1. standEvents' \in Seq(StandEvent)
    BY <1>11, BoundedSeqTyped DEF StandsAttach
  <2>. QED
    BY <1>11, <2>1 DEF StandsAttach, StandsTypeOK, standsHistory, StandTasks
<1>. QED
  BY <1>1, <1>2, <1>3, <1>4, <1>5, <1>6, <1>7, <1>8, <1>9, <1>10, <1>11, <1>13 DEF StandsNext

LEMMA TypesAtStart == StandsInit => StandsTypeOK
<1>. SUFFICES ASSUME StandsInit PROVE StandsTypeOK
  OBVIOUS
<1>1. StandTasks = {}
  BY DEF StandsInit, StandTasks, BagToSet, EmptyBag, SetToBag
<1>2. standEvents \in Seq(StandEvent)
  BY EmptySeq DEF StandsInit
<1>. QED
  BY <1>1, <1>2 DEF StandsInit, StandsTypeOK, Assignments

\* Every variable has its type, whatever the aircraft, stands and bounds.
THEOREM StandsTyped == StandsSpec => []StandsTypeOK
<1>1. StandsInit => StandsTypeOK
  BY TypesAtStart
<1>2. StandsTypeOK /\ [StandsNext]_standsVars => StandsTypeOK'
  BY TypesKept
<1>. QED
  BY <1>1, <1>2, PTL DEF StandsSpec

-------------------------------------------------------------------------------
(* What holds when something is still on its way.                             *)

\* No event of the aircraft is to come.
NoStandComing(a) == \A i \in 1..Len(standEvents) : standEvents[i].of # a

\* The last event to come of an aircraft is the assignment the API holds.
LastSaysStand(a) ==
    \A i \in 1..Len(standEvents) :
        /\ standEvents[i].of = a
        /\ \A j \in 1..Len(standEvents) : j > i => standEvents[j].of # a
        => standEvents[i].stand = standsAtApi[a]

\* The list fetched is right, if no event passed it and none is to come.
StandLoadRight(a) ==
    NoStandComing(a) /\ a \notin standsOvertaken =>
        \A t \in StandTasks : t.do = "load" => t.list[a] = standsAtApi[a]

\* And so is the entry, unless the API is still to be told of an edit.
StandMapRight(a) ==
    NoStandComing(a) /\ a \notin standsAdrift =>
        \/ \E t \in StandTasks : t.do = "tell" /\ t.of = a
        \/ standAssignments[a] = standsAtApi[a]

\* The list is asked for by one task at a time.
OneStandList ==
    \A t \in StandTasks : t.do \in {"list", "load"} =>
        standTasks[t] = 1 /\ \A u \in StandTasks : u.do \in {"list", "load"} => u = t

Right(a) == LastSaysStand(a) /\ StandLoadRight(a) /\ StandMapRight(a)

\* Until the transport has its place in the log nothing comes, nothing is asked
\* for, and no entry is known to be right.
NothingBeforeAttach ==
    ~standsAttached =>
        /\ standEvents = <<>>
        /\ standsAdrift = StandAircraft
        /\ \A t \in StandTasks : t.do \notin {"list", "load"}

StandsIInv ==
    /\ StandsTypeOK
    /\ OneStandList
    /\ NothingBeforeAttach
    /\ \A a \in StandAircraft : Right(a)

-------------------------------------------------------------------------------
(* The events.                                                                *)

\* A change at the API is the last event of its aircraft, and nobody else's.
LEMMA Recorded ==
    ASSUME StandsTypeOK, standsAttached, NEW x \in StandAircraft,
           NEW s \in StandIds \cup {NoStand}, Record(x, s),
           NEW a \in StandAircraft, LastSaysStand(a)
    PROVE  /\ LastSaysStand(a)'
           /\ a = x => ~NoStandComing(a)'
           /\ a # x => standsAtApi'[a] = standsAtApi[a]
           /\ a # x => (NoStandComing(a)' => NoStandComing(a))
<1>. DEFINE n == Len(standEvents)
            e == [of |-> x, stand |-> s]
<1>1. /\ n \in Nat /\ Len(standEvents') = n + 1 /\ n + 1 \in 1..(n + 1)
      /\ \A i \in 1..n : standEvents'[i] = standEvents[i] /\ i \in 1..(n + 1)
      /\ standEvents'[n + 1] = e
      /\ \A i \in 1..(n + 1) : i \in 1..n \/ i = n + 1
  <2>1. e \in StandEvent /\ standEvents \in Seq(StandEvent)
    BY DEF StandEvent, StandsTypeOK
  <2>2. standEvents' = Append(standEvents, e)
    BY DEF Record
  <2>. HIDE DEF e
  <2>3. /\ n \in Nat /\ Len(standEvents') = n + 1
        /\ \A i \in 1..n : standEvents'[i] = standEvents[i]
        /\ standEvents'[n + 1] = e
    BY <2>1, <2>2, AppendProperties, LenProperties
  <2>. HIDE DEF n
  <2>. QED
    BY <2>3
<1>2. standsAtApi'[x] = s /\ \A b \in StandAircraft \ {x} : standsAtApi'[b] = standsAtApi[b]
  BY DEF Record, StandsTypeOK, Assignments
<1>3. e.of = x /\ e.stand = s
  OBVIOUS
<1>. HIDE DEF n, e
<1>4. LastSaysStand(a)'
  <2>. SUFFICES ASSUME NEW i \in 1..(n + 1), standEvents'[i].of = a,
                       \A j \in 1..(n + 1) : j > i => standEvents'[j].of # a
                PROVE  standEvents'[i].stand = standsAtApi'[a]
    BY <1>1 DEF LastSaysStand
  <2>1. CASE a = x
    BY <1>1, <1>2, <1>3, <2>1
  <2>2. CASE a # x
    <3>1. i \in 1..n
      BY <1>1, <1>3, <2>2
    <3>2. standEvents[i].of = a /\ \A j \in 1..n : j > i => standEvents[j].of # a
      BY <1>1, <3>1
    <3>3. standEvents[i].stand = standsAtApi[a]
      BY <3>1, <3>2 DEF LastSaysStand, n
    <3>. QED
      BY <1>1, <1>2, <2>2, <3>1, <3>3
  <2>. QED
    BY <2>1, <2>2
<1>5. a = x => ~NoStandComing(a)'
  BY <1>1, <1>3 DEF NoStandComing
<1>6. NoStandComing(a)' => NoStandComing(a)
  BY <1>1 DEF NoStandComing, n
<1>. QED
  BY <1>2, <1>4, <1>5, <1>6

\* Processing the first event leaves the rest.
LEMMA ProcessedStands ==
    ASSUME StandsTypeOK, ProcessStandEvent, NEW a \in StandAircraft, LastSaysStand(a)
    PROVE  /\ LastSaysStand(a)'
           /\ Head(standEvents).of # a => (NoStandComing(a)' => NoStandComing(a))
           /\ Head(standEvents).of = a /\ NoStandComing(a)' =>
                Head(standEvents).stand = standsAtApi[a]
<1>1. standEvents \in Seq(StandEvent) /\ standEvents # <<>> /\ standEvents' = Tail(standEvents)
  BY DEF ProcessStandEvent, StandsTypeOK
<1>2. /\ Len(standEvents) \in Nat /\ Len(standEvents) >= 1
      /\ Len(standEvents') = Len(standEvents) - 1
      /\ \A i \in 1..Len(standEvents') : standEvents'[i] = standEvents[i + 1]
      /\ Head(standEvents) = standEvents[1]
  BY <1>1, HeadTailProperties, LenProperties, EmptySeq
<1>3. standsAtApi' = standsAtApi
  BY DEF ProcessStandEvent
<1>4. LastSaysStand(a)'
  <2>. SUFFICES ASSUME NEW i \in 1..Len(standEvents'), standEvents'[i].of = a,
                       \A j \in 1..Len(standEvents') : j > i => standEvents'[j].of # a
                PROVE  standEvents'[i].stand = standsAtApi'[a]
    BY DEF LastSaysStand
  <2>1. i + 1 \in 1..Len(standEvents) /\ standEvents[i + 1].of = a
    BY <1>2
  <2>2. ASSUME NEW j \in 1..Len(standEvents), j > i + 1 PROVE standEvents[j].of # a
    <3>1. j - 1 \in 1..Len(standEvents') /\ j - 1 > i /\ (j - 1) + 1 = j
      BY <2>2, <1>2
    <3>. QED
      BY <3>1, <1>2
  <2>. QED
    BY <2>1, <2>2, <1>2, <1>3 DEF LastSaysStand
<1>5. ASSUME NoStandComing(a)', NEW j \in 1..Len(standEvents), j > 1 PROVE standEvents[j].of # a
  <2>1. j - 1 \in 1..Len(standEvents') /\ (j - 1) + 1 = j
    BY <1>5, <1>2
  <2>. QED
    BY <1>5, <2>1, <1>2 DEF NoStandComing
<1>6. Head(standEvents).of # a => (NoStandComing(a)' => NoStandComing(a))
  BY <1>2, <1>5 DEF NoStandComing
<1>7. Head(standEvents).of = a /\ NoStandComing(a)' => Head(standEvents).stand = standsAtApi[a]
  BY <1>2, <1>5 DEF LastSaysStand
<1>. QED
  BY <1>4, <1>6, <1>7

-------------------------------------------------------------------------------
(* The tasks.                                                                 *)

\* A new task of another kind leaves the list to its one task.
LEMMA OneStandListQueued ==
    ASSUME OneStandList, NEW t, t.do \notin {"list", "load"}, standTasks' = BagAdd(standTasks, t)
    PROVE  OneStandList'
<1>1. StandTasks' = StandTasks \cup {t} /\ \A u \in StandTasks : u # t => standTasks'[u] = standTasks[u]
  BY QueuedStandTasks
<1>. QED
  BY <1>1 DEF OneStandList

\* So does a task that ends.
LEMMA OneStandListFinished ==
    ASSUME OneStandList, NEW t \in StandTasks, Finish(t)
    PROVE  OneStandList'
<1>1. /\ StandTasks' \subseteq StandTasks
      /\ standTasks[t] = 1 => t \notin StandTasks'
      /\ \A u \in StandTasks : u # t => standTasks'[u] = standTasks[u]
  BY FinishedStandTasks
<1>. QED
  BY <1>1 DEF OneStandList

LEMMA OneListKept == StandsTypeOK /\ OneStandList /\ [StandsNext]_standsVars => OneStandList'
<1>. SUFFICES ASSUME StandsTypeOK, OneStandList, [StandsNext]_standsVars PROVE OneStandList'
  OBVIOUS
<1>1. ASSUME NEW a, NEW s, QueueStandTask([do |-> "tell", of |-> a, stand |-> s]) PROVE OneStandList'
  <2>1. PICK t : t = [do |-> "tell", of |-> a, stand |-> s]
    OBVIOUS
  <2>2. t.do \notin {"list", "load"} /\ standTasks' = BagAdd(standTasks, t)
    BY <1>1, <2>1 DEF QueueStandTask
  <2>. QED
    BY <2>2, OneStandListQueued
<1>2. CASE StandsSynced
  <2>1. PICK t : t = [do |-> "list"]
    OBVIOUS
  <2>2. /\ StandTasks' = StandTasks \cup {t} /\ standTasks'[t] = 1
        /\ \A u \in StandTasks : u # t => standTasks'[u] = standTasks[u]
    BY <1>2, <2>1, QueuedStandTasks DEF StandsSynced, AskForStands, QueueStandTask
  <2>3. \A u \in StandTasks : u.do \notin {"list", "load"}
    BY <1>2 DEF StandsSynced
  <2>. QED
    BY <2>2, <2>3 DEF OneStandList
<1>3. ASSUME NEW t \in StandTasks, StandsListed(t) PROVE OneStandList'
  <2>1. PICK v : v = [do |-> "load", list |-> standsAtApi]
    OBVIOUS
  <2>2. v.do = "load" /\ v # t /\ v \notin StandTasks /\ standTasks[t] = 1
    BY <1>3, <2>1 DEF StandsListed, OneStandList
  <2>3. /\ StandTasks' \subseteq StandTasks \cup {v}
        /\ t \notin StandTasks' /\ standTasks'[v] = 1
    BY <1>3, <2>1, <2>2, ReplacedStandTasks DEF StandsListed
  <2>4. \A u \in StandTasks : u.do \in {"list", "load"} => u = t
    BY <1>3 DEF StandsListed, OneStandList
  <2>. QED
    BY <2>3, <2>4 DEF OneStandList
<1>4. ASSUME NEW t \in StandTasks, Finish(t) PROVE OneStandList'
  BY <1>4, OneStandListFinished
<1>5. CASE UNCHANGED standTasks
  BY <1>5 DEF OneStandList, StandTasks
<1>. QED
  BY <1>1, <1>2, <1>3, <1>4, <1>5
  DEF StandsNext, AssignStand, UnassignStand, AutoStand, StandTold, StandCallFailed,
      LoadAssignedStands, ProcessStandEvent, ApplyStandEvent, StandsAttach, OthersAssign, standsVars

LEMMA BeforeAttachKept ==
    ASSUME StandsIInv, [StandsNext]_standsVars
    PROVE  NothingBeforeAttach'
<1>. USE DEF StandsIInv
<1>. SUFFICES ASSUME ~standsAttached' PROVE NothingBeforeAttach'
  BY DEF NothingBeforeAttach
<1>1. CASE standsAttached
  BY <1>1 DEF StandsNext, AssignStand, AutoStand, UnassignStand, StandsAttach, StandsSynced,
              AskForStands, StandTold, StandsListed, StandCallFailed, LoadAssignedStands,
              ProcessStandEvent, OthersAssign, Record, standsApiVars, standsVars
<1>2. CASE ~standsAttached
  <2>1. /\ standEvents = <<>> /\ standsAdrift = StandAircraft
        /\ \A t \in StandTasks : t.do \notin {"list", "load"}
    BY <1>2 DEF NothingBeforeAttach
  <2>2. ASSUME NEW a \in StandAircraft, NEW s \in StandIds \cup {NoStand},
               QueueStandTask([do |-> "tell", of |-> a, stand |-> s])
        PROVE  \A t \in StandTasks' : t.do \notin {"list", "load"}
    <3>1. StandTasks' = StandTasks \cup {[do |-> "tell", of |-> a, stand |-> s]}
      BY <2>2, QueuedStandTasks DEF QueueStandTask
    <3>. QED
      BY <2>1, <3>1
  <2>3. ASSUME NEW t \in StandTasks, Finish(t)
        PROVE  \A u \in StandTasks' : u.do \notin {"list", "load"}
    BY <2>1, <2>3, FinishedStandTasks
  <2>4. ASSUME UNCHANGED standTasks PROVE \A t \in StandTasks' : t.do \notin {"list", "load"}
    <3>1. StandTasks' = StandTasks
      BY <2>4 DEF StandTasks
    <3>. QED
      BY <2>1, <3>1
  <2>5. \A t \in StandTasks' : t.do \notin {"list", "load"}
    <3>1. ASSUME NEW a \in StandAircraft, NEW s \in StandIds, AssignStand(a, s)
          PROVE  \A t \in StandTasks' : t.do \notin {"list", "load"}
      BY <2>2, <3>1 DEF AssignStand
    <3>2. ASSUME NEW a \in StandAircraft, UnassignStand(a)
          PROVE  \A t \in StandTasks' : t.do \notin {"list", "load"}
      BY <2>2, <3>2 DEF UnassignStand
    <3>3. ASSUME NEW t \in StandTasks, StandTold(t) \/ StandsListed(t) \/ StandCallFailed(t)
          PROVE  \A u \in StandTasks' : u.do \notin {"list", "load"}
      BY <2>1, <2>3, <3>3 DEF StandTold, StandsListed, StandCallFailed
    <3>4. ASSUME NEW t \in StandTasks, LoadAssignedStands(t) PROVE FALSE
      BY <2>1, <3>4 DEF LoadAssignedStands
    <3>5. ASSUME NEW a \in StandAircraft, NEW s \in StandIds, AutoStand(a, s) PROVE UNCHANGED standTasks
      BY <3>5 DEF AutoStand
    <3>6. ASSUME NEW a \in StandAircraft, NEW s \in StandIds \cup {NoStand}, OthersAssign(a, s)
          PROVE  UNCHANGED standTasks
      BY <3>6 DEF OthersAssign
    <3>7. ~StandsAttach /\ ~StandsSynced /\ ~ProcessStandEvent
      BY <1>2, <2>1 DEF StandsAttach, StandsSynced, ProcessStandEvent
    <3>. QED
      BY <2>4, <3>1, <3>2, <3>3, <3>4, <3>5, <3>6, <3>7 DEF StandsNext, standsVars
  <2>6. standEvents' = <<>> /\ standsAdrift' = StandAircraft
    <3>1. ASSUME NEW t \in StandTasks, StandCallFailed(t) PROVE standsAdrift' = StandAircraft
      <4>1. t.do = "tell" => t.of \in StandAircraft
        BY DEF StandsTypeOK, StandTask
      <4>. QED
        BY <2>1, <3>1, <4>1 DEF StandCallFailed
    <3>2. ASSUME NEW t \in StandTasks, LoadAssignedStands(t) PROVE FALSE
      BY <2>1, <3>2 DEF LoadAssignedStands
    <3>. QED
      BY <1>2, <2>1, <3>1, <3>2
      DEF StandsNext, AssignStand, AutoStand, UnassignStand, StandsAttach, StandsSynced, StandTold,
          StandsListed, StandCallFailed, ProcessStandEvent, OthersAssign, Record,
          standsApiVars, standsHistory, standsVars
  <2>. QED
    BY <2>5, <2>6 DEF NothingBeforeAttach
<1>. QED
  BY <1>1, <1>2

-------------------------------------------------------------------------------
(* Convergence.                                                               *)

\* Nothing changes for an aircraft when no event, task, entry or mark of it does.
LEMMA RightUntouched ==
    ASSUME NEW a \in StandAircraft, Right(a), LastSaysStand(a)',
           NoStandComing(a)' => NoStandComing(a),
           standsAtApi'[a] = standsAtApi[a],
           a \in standsOvertaken' <=> a \in standsOvertaken,
           a \notin standsAdrift' => a \notin standsAdrift,
           standAssignments'[a] = standAssignments[a],
           \A t \in StandTasks' : t.do = "load" => t \in StandTasks,
           \A t \in StandTasks : t.do = "tell" /\ t.of = a => t \in StandTasks'
    PROVE  Right(a)'
<1>1. StandLoadRight(a)'
  BY DEF Right, StandLoadRight
<1>2. StandMapRight(a)'
  BY DEF Right, StandMapRight
<1>. QED
  BY <1>1, <1>2 DEF Right

\* Each step leaves every aircraft right: one case for each action.
LEMMA StandsRightKept ==
    ASSUME StandsIInv, [StandsNext]_standsVars, standsAttached, NEW a \in StandAircraft
    PROVE  Right(a)'
<1>. USE DEF StandsIInv
<1>0. Right(a) /\ LastSaysStand(a)
  BY DEF Right
<1>1. ASSUME NEW x \in StandAircraft, NEW s \in StandIds \cup {NoStand},
             QueueStandTask([do |-> "tell", of |-> x, stand |-> s]),
             Assign(x, s), UNCHANGED <<standsApiVars, standsHistory>>
      PROVE  Right(a)'
  <2>1. PICK t : t = [do |-> "tell", of |-> x, stand |-> s]
    OBVIOUS
  <2>2. t.do = "tell" /\ t.of = x /\ StandTasks' = StandTasks \cup {t}
    BY <1>1, <2>1, QueuedStandTasks DEF QueueStandTask
  <2>3. LastSaysStand(a)' /\ NoStandComing(a)' = NoStandComing(a)
    BY <1>0, <1>1 DEF LastSaysStand, NoStandComing, standsApiVars
  <2>4. CASE a = x
    <3>1. StandLoadRight(a)' /\ StandMapRight(a)'
      BY <1>0, <1>1, <2>2, <2>3, <2>4 DEF Right, StandLoadRight, StandMapRight, standsApiVars, standsHistory
    <3>. QED
      BY <2>3, <3>1 DEF Right
  <2>5. CASE a # x
    <3>1. standAssignments'[a] = standAssignments[a]
      BY <1>1, <2>5 DEF Assign, StandsTypeOK, Assignments
    <3>. QED
      BY <1>0, <1>1, <2>2, <2>3, <3>1, RightUntouched DEF standsApiVars, standsHistory
  <2>. QED
    BY <2>4, <2>5
<1>2. ASSUME NEW x \in StandAircraft, NEW s \in StandIds, AutoStand(x, s) PROVE Right(a)'
  <2>2. /\ LastSaysStand(a)'
        /\ a = x => ~NoStandComing(a)'
        /\ a # x => standsAtApi'[a] = standsAtApi[a] /\ (NoStandComing(a)' => NoStandComing(a))
    BY <1>0, <1>2, Recorded DEF AutoStand
  <2>3. CASE a = x
    BY <2>2, <2>3 DEF Right, StandLoadRight, StandMapRight
  <2>4. CASE a # x
    <3>1. standAssignments'[a] = standAssignments[a]
      BY <1>2, <2>4 DEF AutoStand, Assign, StandsTypeOK, Assignments
    <3>. QED
      BY <1>0, <1>2, <2>2, <2>4, <3>1, RightUntouched DEF AutoStand, standsHistory, StandTasks
  <2>. QED
    BY <2>3, <2>4
<1>3. CASE StandsSynced
  <2>1. PICK r : r = [do |-> "list"]
    OBVIOUS
  <2>2. StandTasks' = StandTasks \cup {r} /\ r.do = "list"
    BY <1>3, <2>1, QueuedStandTasks DEF StandsSynced, AskForStands, QueueStandTask
  <2>3. LastSaysStand(a)' /\ NoStandComing(a)' = NoStandComing(a)
    BY <1>0, <1>3 DEF LastSaysStand, NoStandComing, StandsSynced, AskForStands, standsApiVars
  <2>. QED
    BY <1>0, <1>3, <2>2, <2>3, RightUntouched DEF StandsSynced, AskForStands, standsApiVars, standsHistory
<1>4. ASSUME NEW t \in StandTasks, StandTold(t) PROVE Right(a)'
  <2>1. t.of \in StandAircraft /\ t.stand \in StandIds \cup {NoStand}
    BY <1>4 DEF StandTold, StandsTypeOK, StandTask
  <2>2. /\ LastSaysStand(a)'
        /\ a = t.of => ~NoStandComing(a)'
        /\ a # t.of => standsAtApi'[a] = standsAtApi[a] /\ (NoStandComing(a)' => NoStandComing(a))
    BY <1>0, <1>4, <2>1, Recorded DEF StandTold
  <2>3. CASE a = t.of
    BY <2>2, <2>3 DEF Right, StandLoadRight, StandMapRight
  <2>4. CASE a # t.of
    <3>1. StandTasks \ {t} \subseteq StandTasks' /\ StandTasks' \subseteq StandTasks
      BY <1>4, FinishedStandTasks DEF StandTold
    <3>. QED
      BY <1>0, <1>4, <2>2, <2>4, <3>1, RightUntouched DEF StandTold, standsHistory
  <2>. QED
    BY <2>3, <2>4
<1>6. ASSUME NEW t \in StandTasks, StandsListed(t) PROVE Right(a)'
  <2>1. PICK v : v = [do |-> "load", list |-> standsAtApi]
    OBVIOUS
  <2>2. v.do = "load" /\ v.list = standsAtApi /\ v # t
    BY <1>6, <2>1 DEF StandsListed
  <2>3. StandTasks \ {t} \subseteq StandTasks' /\ StandTasks' \subseteq StandTasks \cup {v}
    BY <1>6, <2>1, <2>2, ReplacedStandTasks DEF StandsListed
  <2>4. LastSaysStand(a)' /\ NoStandComing(a)' = NoStandComing(a)
    BY <1>0, <1>6 DEF StandsListed, LastSaysStand, NoStandComing, standsApiVars
  <2>6. StandLoadRight(a)'
    BY <1>0, <1>6, <2>2, <2>3, <2>4 DEF StandsListed, Right, StandLoadRight, standsApiVars, standsHistory
  <2>7. StandMapRight(a)'
    BY <1>0, <1>6, <2>2, <2>3, <2>4 DEF StandsListed, Right, StandMapRight, standsApiVars, standsHistory
  <2>. QED
    BY <2>4, <2>6, <2>7 DEF Right
<1>7. ASSUME NEW t \in StandTasks, StandCallFailed(t) PROVE Right(a)'
  <2>1. StandTasks \ {t} \subseteq StandTasks' /\ StandTasks' \subseteq StandTasks
    BY <1>7, FinishedStandTasks DEF StandCallFailed
  <2>2. LastSaysStand(a)' /\ NoStandComing(a)' = NoStandComing(a)
    BY <1>0, <1>7 DEF LastSaysStand, NoStandComing, StandCallFailed, standsApiVars
  <2>3. StandLoadRight(a)'
    BY <1>0, <1>7, <2>1, <2>2 DEF Right, StandLoadRight, StandCallFailed, standsApiVars
  <2>4. StandMapRight(a)'
    BY <1>0, <1>7, <2>1, <2>2 DEF Right, StandMapRight, StandCallFailed, standsApiVars
  <2>. QED
    BY <2>2, <2>3, <2>4 DEF Right
<1>9. ASSUME NEW t \in StandTasks, LoadAssignedStands(t) PROVE Right(a)'
  <2>1. t.do = "load" /\ \A u \in StandTasks : u.do \in {"list", "load"} => u = t
    BY <1>9 DEF LoadAssignedStands, OneStandList
  <2>2. standTasks[t] = 1
    BY <1>9 DEF LoadAssignedStands, OneStandList
  <2>3. /\ StandTasks \ {t} \subseteq StandTasks' /\ StandTasks' \subseteq StandTasks
        /\ t \notin StandTasks'
    BY <1>9, <2>2, FinishedStandTasks DEF LoadAssignedStands
  <2>4. LastSaysStand(a)' /\ NoStandComing(a)' = NoStandComing(a) /\ standsAtApi'[a] = standsAtApi[a]
    BY <1>0, <1>9 DEF LastSaysStand, NoStandComing, LoadAssignedStands, standsApiVars
  <2>5. StandLoadRight(a)'
    BY <2>1, <2>3 DEF StandLoadRight
  <2>8. standAssignments'[a] = t.list[a]
    BY <1>9 DEF LoadAssignedStands
  <2>9. a \notin standsAdrift' => a \notin standsOvertaken
    BY <1>9 DEF LoadAssignedStands
  <2>10. StandMapRight(a)'
    BY <1>0, <2>1, <2>4, <2>8, <2>9 DEF Right, StandLoadRight, StandMapRight
  <2>. QED
    BY <2>4, <2>5, <2>10 DEF Right
<1>10. CASE ProcessStandEvent
  <2>. DEFINE e == Head(standEvents)
  <2>0. e \in StandEvent
    BY <1>10, HeadTailProperties DEF ProcessStandEvent, StandsTypeOK
  <2>1. e.of \in StandAircraft
    BY <2>0 DEF StandEvent
  <2>2. /\ LastSaysStand(a)'
        /\ e.of # a => (NoStandComing(a)' => NoStandComing(a))
        /\ e.of = a /\ NoStandComing(a)' => e.stand = standsAtApi[a]
    BY <1>0, <1>10, ProcessedStands
  <2>3. standsAtApi' = standsAtApi /\ StandTasks' = StandTasks
    BY <1>10 DEF ProcessStandEvent, ApplyStandEvent, StandTasks
  <2>4. /\ standAssignments' = [standAssignments EXCEPT ![e.of] = e.stand]
        /\ standsAdrift' = standsAdrift \ {e.of}
        /\ standsOvertaken \subseteq standsOvertaken'
        /\ \A t \in StandTasks : t.do = "load" /\ t.list[e.of] # e.stand => e.of \in standsOvertaken'
    BY <1>10 DEF ProcessStandEvent, ApplyStandEvent, Assign
  <2>. HIDE DEF e
  <2>5. CASE e.of = a
    <3>2. StandLoadRight(a)'
      BY <2>2, <2>3, <2>4, <2>5 DEF StandLoadRight
    <3>3. standAssignments'[a] = e.stand
      BY <2>4, <2>5 DEF StandsTypeOK, Assignments
    <3>4. StandMapRight(a)'
      BY <2>2, <2>3, <2>5, <3>3 DEF StandMapRight
    <3>. QED
      BY <2>2, <3>2, <3>4 DEF Right
  <2>6. CASE e.of # a
    <3>1. standAssignments'[a] = standAssignments[a]
      BY <2>1, <2>4, <2>6 DEF StandsTypeOK, Assignments
    <3>3. StandLoadRight(a)'
      BY <1>0, <2>2, <2>3, <2>4, <2>6 DEF Right, StandLoadRight
    <3>4. StandMapRight(a)'
      BY <1>0, <2>2, <2>3, <2>4, <2>6, <3>1 DEF Right, StandMapRight
    <3>. QED
      BY <2>2, <3>3, <3>4 DEF Right
  <2>. QED
    BY <2>5, <2>6
<1>11. ASSUME NEW x \in StandAircraft, NEW s \in StandIds \cup {NoStand}, OthersAssign(x, s)
       PROVE  Right(a)'
  <2>1. /\ LastSaysStand(a)'
        /\ a = x => ~NoStandComing(a)'
        /\ a # x => standsAtApi'[a] = standsAtApi[a] /\ (NoStandComing(a)' => NoStandComing(a))
    BY <1>0, <1>11, Recorded DEF OthersAssign
  <2>2. CASE a = x
    BY <2>1, <2>2 DEF Right, StandLoadRight, StandMapRight
  <2>3. CASE a # x
    BY <1>0, <1>11, <2>1, <2>3, RightUntouched DEF OthersAssign, standsHistory, StandTasks
  <2>. QED
    BY <2>2, <2>3
<1>12. CASE UNCHANGED standsVars
  BY <1>0, <1>12 DEF standsVars, standsHistory, Right, LastSaysStand, StandLoadRight, StandMapRight,
                     NoStandComing, StandTasks
<1>13. ASSUME NEW x \in StandAircraft, UnassignStand(x) PROVE Right(a)'
  BY <1>1, <1>13 DEF UnassignStand
<1>14. ASSUME NEW x \in StandAircraft, NEW s \in StandIds, AssignStand(x, s) PROVE Right(a)'
  BY <1>1, <1>14 DEF AssignStand
<1>15. CASE StandsAttach
  BY <1>15 DEF StandsAttach
<1>. QED
  BY <1>2, <1>3, <1>4, <1>6, <1>7, <1>9, <1>10, <1>11, <1>12, <1>13, <1>14, <1>15 DEF StandsNext

\* When the transport has found its place, what is to come is right, and all
\* entries wait for the list.
LEMMA StandsRightAttached ==
    ASSUME StandsIInv, StandsAttach, NEW a \in StandAircraft
    PROVE  Right(a)'
<1>1. standsAdrift' = StandAircraft /\ \A t \in StandTasks' : t.do # "load"
  BY DEF StandsIInv, NothingBeforeAttach, StandsAttach, StandTasks, standsHistory
<1>2. LastSaysStand(a)'
  BY DEF StandsAttach, EndWithApi, LastSaysStand
<1>. QED
  BY <1>1, <1>2 DEF Right, StandLoadRight, StandMapRight

LEMMA StandsIInvKept == StandsIInv /\ [StandsNext]_standsVars => StandsIInv'
<1>. SUFFICES ASSUME StandsIInv, [StandsNext]_standsVars PROVE StandsIInv'
  OBVIOUS
<1>1. StandsTypeOK' /\ OneStandList' /\ NothingBeforeAttach'
  BY TypesKept, OneListKept, BeforeAttachKept DEF StandsIInv
<1>2. ASSUME NEW a \in StandAircraft PROVE Right(a)'
  <2>1. CASE standsAttached
    BY <2>1, StandsRightKept
  <2>2. CASE ~standsAttached'
    <3>1. /\ standEvents' = <<>> /\ standsAdrift' = StandAircraft
          /\ \A t \in StandTasks' : t.do # "load"
      BY <1>1, <2>2 DEF NothingBeforeAttach
    <3>2. Len(standEvents') = 0
      BY <3>1
    <3>. QED
      BY <3>1, <3>2 DEF Right, LastSaysStand, StandLoadRight, StandMapRight
  <2>3. CASE ~standsAttached /\ standsAttached'
    <3>1. StandsAttach
      BY <2>3 DEF StandsNext, AssignStand, AutoStand, UnassignStand, StandsSynced, AskForStands,
                  StandTold, StandsListed, StandCallFailed, LoadAssignedStands, ProcessStandEvent,
                  OthersAssign, Record, standsApiVars, standsVars
    <3>. QED
      BY <3>1, StandsRightAttached
  <2>. QED
    BY <2>1, <2>2, <2>3 DEF StandsIInv, StandsTypeOK
<1>. QED
  BY <1>1, <1>2 DEF StandsIInv

LEMMA StandsRightAtStart == StandsInit => StandsIInv
<1>. SUFFICES ASSUME StandsInit PROVE StandsIInv
  OBVIOUS
<1>1. StandsTypeOK
  BY TypesAtStart
<1>2. StandTasks = {} /\ Len(standEvents) = 0
  BY DEF StandsInit, StandTasks, BagToSet, EmptyBag, SetToBag
<1>3. \A a \in StandAircraft : Right(a)
  BY <1>2 DEF StandsInit, Right, LastSaysStand, StandLoadRight, StandMapRight
<1>. QED
  BY <1>1, <1>2, <1>3 DEF StandsIInv, OneStandList, NothingBeforeAttach, StandsInit

\* An aircraft nothing is on its way for has the stand the API holds for it, but
\* after a failed call or an overtaken answer, and then until the next event.
THEOREM StandsConverged == StandsSpec => []StandsConverge
<1>1. StandsInit => StandsIInv
  BY StandsRightAtStart
<1>2. StandsIInv /\ [StandsNext]_standsVars => StandsIInv'
  BY StandsIInvKept
<1>3. StandsIInv => StandsConverge
  <2>. SUFFICES ASSUME StandsIInv, NEW a \in StandAircraft, StandSettled(a), a \notin standsAdrift
                PROVE  standAssignments[a] = standsAtApi[a]
    BY DEF StandsConverge
  <2>1. standEvents \in Seq(StandEvent)
    BY DEF StandsIInv, StandsTypeOK
  <2>2. NoStandComing(a)
    BY <2>1 DEF StandSettled, NoStandComing, Range
  <2>3. StandMapRight(a)
    BY DEF StandsIInv, Right
  <2>. QED
    BY <2>2, <2>3 DEF StandSettled, StandMapRight
<1>. QED
  BY <1>1, <1>2, <1>3, PTL DEF StandsSpec

-------------------------------------------------------------------------------
(* Holds: bags of tasks.                                                      *)

\* A task is added to those there.
LEMMA QueuedHoldTasks ==
    ASSUME NEW t, QueueHoldTask(t)
    PROVE  /\ HoldTasks' = HoldTasks \cup {t}
           /\ \A u \in HoldTasks : u # t => holdTasks'[u] = holdTasks[u]
  BY DEF HoldTasks, BagToSet, BagAdd, QueueHoldTask

\* A task that ends leaves the others, and itself only if there were several.
LEMMA FinishedHoldTasks ==
    ASSUME NEW t \in HoldTasks, FinishHoldTask(t)
    PROVE  /\ HoldTasks \ {t} \subseteq HoldTasks'
           /\ HoldTasks' \subseteq HoldTasks
           /\ holdTasks[t] = 1 => t \notin HoldTasks'
           /\ \A u \in HoldTasks : u # t => holdTasks'[u] = holdTasks[u]
  BY DEF HoldTasks, BagToSet, BagRemove, FinishHoldTask

\* A task that goes on becomes another.
LEMMA ReplacedHoldTasks ==
    ASSUME NEW t \in HoldTasks, NEW v, v # t, ReplaceHoldTask(t, v)
    PROVE  /\ (HoldTasks \ {t}) \cup {v} \subseteq HoldTasks'
           /\ HoldTasks' \subseteq HoldTasks \cup {v}
           /\ holdTasks[t] = 1 => t \notin HoldTasks'
           /\ v \notin HoldTasks => holdTasks'[v] = 1
           /\ \A u \in HoldTasks \ {t, v} : holdTasks'[u] = holdTasks[u]
<1>1. PICK left : left = BagRemove(holdTasks, t)
  OBVIOUS
<1>2. /\ DOMAIN left \subseteq HoldTasks /\ HoldTasks \ {t} \subseteq DOMAIN left
      /\ holdTasks[t] = 1 => t \notin DOMAIN left
      /\ \A u \in HoldTasks \ {t} : left[u] = holdTasks[u]
  BY <1>1 DEF HoldTasks, BagToSet, BagRemove
<1>3. holdTasks' = BagAdd(left, v)
  BY <1>1 DEF ReplaceHoldTask
<1>4. /\ DOMAIN holdTasks' = DOMAIN left \cup {v}
      /\ v \notin DOMAIN left => holdTasks'[v] = 1
      /\ \A u \in DOMAIN left : u # v => holdTasks'[u] = left[u]
  BY <1>3 DEF BagAdd
<1>. QED
  BY <1>2, <1>4 DEF HoldTasks, BagToSet

-------------------------------------------------------------------------------
(* The manager.  Its state has a type and its lists agree; each of its        *)
(* operations keeps both.                                                     *)

ManagerTypeOK ==
    /\ holdAircraft \subseteq HoldAircraft
    /\ assignedHold \in [HoldAircraft -> Navaids \cup {NoHold}]
    /\ proximityHolds \in [HoldAircraft -> [Navaids -> Proximity]]
    /\ holds \in [Navaids -> SUBSET HoldAircraft]

ManagerRight == ManagerTypeOK /\ HoldListsAgree

LEMMA AddKeepsManager ==
    ASSUME ManagerRight, NEW a \in HoldAircraft, NEW n \in Navaids,
           NEW entry \in {"near", "entered"}, AddAircraftToProximityHold(a, n, entry)
    PROVE  ManagerRight' /\ assignedHold' = assignedHold
<1>. USE DEF ManagerRight, ManagerTypeOK, AddAircraftToProximityHold
<1>1. ManagerTypeOK'
  BY DEF Proximity
<1>2. ASSUME NEW b \in HoldAircraft, NEW m \in Navaids
      PROVE  b \in holds'[m] <=> InHold(proximityHolds'[b], assignedHold'[b], m)
  BY HoldsAssumption DEF HoldListsAgree, InHold, Proximity
<1>3. ASSUME NEW b \in HoldAircraft
      PROVE  b \in holdAircraft' <=> InAnyHold(proximityHolds'[b], assignedHold'[b])
  BY DEF HoldListsAgree, InAnyHold, Proximity
<1>. QED
  BY <1>1, <1>2, <1>3 DEF HoldListsAgree

LEMMA RemoveKeepsManager ==
    ASSUME ManagerRight, NEW a \in HoldAircraft, NEW n \in Navaids,
           RemoveAircraftFromProximityHold(a, n)
    PROVE  ManagerRight' /\ assignedHold' = assignedHold
<1>. USE DEF ManagerRight, ManagerTypeOK, RemoveAircraftFromProximityHold
<1>1. CASE a \notin holdAircraft
  BY <1>1 DEF manager, HoldListsAgree
<1>2. CASE a \in holdAircraft
  <2>1. PICK near : near = [proximityHolds[a] EXCEPT ![n] = "out"]
    OBVIOUS
  <2>2. near \in [Navaids -> Proximity] /\ near[n] = "out"
        /\ \A m \in Navaids \ {n} : near[m] = proximityHolds[a][m]
    BY <2>1 DEF Proximity
  <2>3. /\ proximityHolds' = [proximityHolds EXCEPT ![a] = near]
        /\ holds' = [holds EXCEPT ![n] = IF InHold(near, assignedHold[a], n) THEN @ ELSE @ \ {a}]
        /\ holdAircraft' = IF InAnyHold(near, assignedHold[a]) THEN holdAircraft
                           ELSE holdAircraft \ {a}
        /\ assignedHold' = assignedHold
    BY <1>2, <2>1 DEF Keep
  <2>4. ManagerTypeOK'
    BY <2>2, <2>3
  <2>5. ASSUME NEW b \in HoldAircraft, NEW m \in Navaids
        PROVE  b \in holds'[m] <=> InHold(proximityHolds'[b], assignedHold'[b], m)
    BY <2>2, <2>3 DEF HoldListsAgree, InHold
  <2>6. ASSUME NEW b \in HoldAircraft
        PROVE  b \in holdAircraft' <=> InAnyHold(proximityHolds'[b], assignedHold'[b])
    BY <1>2, <2>2, <2>3 DEF HoldListsAgree
  <2>. QED
    BY <2>3, <2>4, <2>5, <2>6 DEF HoldListsAgree
<1>. QED
  BY <1>1, <1>2

LEMMA AssignKeepsManager ==
    ASSUME ManagerRight, NEW a \in HoldAircraft, NEW n \in Navaids, AssignAircraftToHold(a, n)
    PROVE  ManagerRight' /\ assignedHold' = [assignedHold EXCEPT ![a] = n]
<1>. USE DEF ManagerRight, ManagerTypeOK, AssignAircraftToHold
<1>1. n # NoHold
  BY HoldsAssumption
<1>2. ListsWithoutPrevious(a, n) \in [Navaids -> SUBSET HoldAircraft]
  BY DEF ListsWithoutPrevious
<1>3. \A m \in Navaids : ListsWithoutPrevious(a, n)[m] =
          IF m = assignedHold[a] /\ ~InHold(proximityHolds[a], n, m) THEN holds[m] \ {a} ELSE holds[m]
  BY DEF ListsWithoutPrevious
<1>4. ManagerTypeOK'
  BY <1>2
<1>5. ASSUME NEW b \in HoldAircraft, NEW m \in Navaids
      PROVE  b \in holds'[m] <=> InHold(proximityHolds'[b], assignedHold'[b], m)
  BY <1>1, <1>2, <1>3 DEF HoldListsAgree, InHold
<1>6. ASSUME NEW b \in HoldAircraft
      PROVE  b \in holdAircraft' <=> InAnyHold(proximityHolds'[b], assignedHold'[b])
  BY <1>1 DEF HoldListsAgree, InAnyHold
<1>. QED
  BY <1>4, <1>5, <1>6 DEF HoldListsAgree

LEMMA UnassignKeepsManager ==
    ASSUME ManagerRight, NEW a \in HoldAircraft, UnassignAircraftFromHold(a)
    PROVE  ManagerRight' /\ assignedHold' = [assignedHold EXCEPT ![a] = NoHold]
<1>. USE DEF ManagerRight, ManagerTypeOK, UnassignAircraftFromHold
<1>1. CASE a \notin holdAircraft
  <2>1. assignedHold[a] = NoHold
    BY <1>1 DEF HoldListsAgree, InAnyHold
  <2>. QED
    BY <1>1, <2>1 DEF manager, HoldListsAgree
<1>2. CASE a \in holdAircraft
  <2>1. \A m \in Navaids : ListsWithoutPrevious(a, NoHold)[m] =
          IF m = assignedHold[a] /\ ~InHold(proximityHolds[a], NoHold, m) THEN holds[m] \ {a} ELSE holds[m]
    BY DEF ListsWithoutPrevious
  <2>2. /\ assignedHold' = [assignedHold EXCEPT ![a] = NoHold]
        /\ holds' = ListsWithoutPrevious(a, NoHold)
        /\ holdAircraft' = IF InAnyHold(proximityHolds[a], NoHold) THEN holdAircraft
                           ELSE holdAircraft \ {a}
        /\ proximityHolds' = proximityHolds
    BY <1>2 DEF Keep
  <2>3. ManagerTypeOK'
    BY <2>2 DEF ListsWithoutPrevious
  <2>4. ASSUME NEW b \in HoldAircraft, NEW m \in Navaids
        PROVE  b \in holds'[m] <=> InHold(proximityHolds'[b], assignedHold'[b], m)
    <3>1. holds'[m] = IF m = assignedHold[a] /\ ~InHold(proximityHolds[a], NoHold, m)
                      THEN holds[m] \ {a} ELSE holds[m]
      BY <2>1, <2>2
    <3>2. b \in holds[m] <=> InHold(proximityHolds[b], assignedHold[b], m)
      BY DEF HoldListsAgree
    <3>3. CASE b = a
      <4>1. assignedHold'[b] = NoHold /\ NoHold # m
        BY HoldsAssumption, <2>2, <3>3
      <4>. QED
        BY <2>2, <3>1, <3>2, <3>3, <4>1 DEF InHold
    <3>4. CASE b # a
      <4>1. assignedHold'[b] = assignedHold[b]
        BY <2>2, <3>4
      <4>. QED
        BY <2>2, <3>1, <3>2, <3>4, <4>1
    <3>. QED
      BY <3>3, <3>4
  <2>5. ASSUME NEW b \in HoldAircraft
        PROVE  b \in holdAircraft' <=> InAnyHold(proximityHolds'[b], assignedHold'[b])
    BY <1>2, <2>2 DEF HoldListsAgree
  <2>. QED
    BY <2>2, <2>3, <2>4, <2>5 DEF HoldListsAgree
<1>. QED
  BY <1>1, <1>2

-------------------------------------------------------------------------------
(* Types, and the lists.                                                      *)

HoldsRight == HoldsTypeOK /\ HoldListsAgree

LEMMA PublishTyped ==
    ASSUME HoldsTypeOK, NEW e \in HoldEvent, PublishHold(e)
    PROVE  holdEvents' \in Seq(HoldEvent)
  BY DEF PublishHold, HoldsTypeOK

LEMMA ToldEventTyped ==
    ASSUME NEW t, t.of \in HoldAircraft, t.hold \in Navaids \cup {NoHold}
    PROVE  ToldEvent(t) \in HoldEvent
  BY DEF ToldEvent, HoldEvent

\* Each step keeps the types and the lists: one case for each action.
LEMMA HoldsRightKept == HoldsRight /\ [HoldsNext]_holdsVars => HoldsRight'
<1>. SUFFICES ASSUME HoldsRight, [HoldsNext]_holdsVars PROVE HoldsRight'
  OBVIOUS
<1>. USE DEF HoldsRight
<1>0. ManagerRight
  BY DEF ManagerRight, ManagerTypeOK, HoldsTypeOK
<1>m. ASSUME ManagerRight' PROVE ManagerTypeOK' /\ HoldListsAgree'
  BY <1>m DEF ManagerRight
<1>u. ASSUME UNCHANGED manager PROVE ManagerRight'
  BY <1>0, <1>u DEF manager, ManagerRight, ManagerTypeOK, HoldListsAgree
<1>t. ASSUME UNCHANGED holdTasks PROVE HoldTasks' \subseteq HoldTask
  BY <1>t DEF HoldTasks, HoldsTypeOK
<1>1. ASSUME NEW a \in HoldAircraft, NEW n \in Navaids, NEW byMenu \in BOOLEAN,
             AssignHold(a, n, byMenu) PROVE HoldsRight'
  <2>1. ManagerRight'
    BY <1>0, <1>1, AssignKeepsManager DEF AssignHold
  <2>2. [do |-> "tell", of |-> a, hold |-> n] \in HoldTask
    BY DEF HoldTask
  <2>3. HoldTasks' \subseteq HoldTask
    BY <1>1, <2>2, QueuedHoldTasks DEF AssignHold, HoldsTypeOK
  <2>. QED
    BY <1>1, <1>m, <2>1, <2>3 DEF AssignHold, HoldsTypeOK, ManagerTypeOK, holdsBackend, holdsHistory
<1>2. ASSUME NEW a \in HoldAircraft, NEW byMenu \in BOOLEAN, UnassignHold(a, byMenu)
      PROVE  HoldsRight'
  <2>1. ManagerRight'
    BY <1>0, <1>2, UnassignKeepsManager DEF UnassignHold
  <2>2. [do |-> "tell", of |-> a, hold |-> NoHold] \in HoldTask
    BY DEF HoldTask
  <2>3. HoldTasks' \subseteq HoldTask
    BY <1>2, <2>2, QueuedHoldTasks DEF UnassignHold, HoldsTypeOK
  <2>. QED
    BY <1>2, <1>m, <2>1, <2>3 DEF UnassignHold, HoldsTypeOK, ManagerTypeOK, holdsBackend, holdsHistory
<1>3. ASSUME NEW a \in HoldAircraft, NEW n \in Navaids, CheckProximity(a, n) PROVE HoldsRight'
  <2>1. ManagerRight'
    BY <1>0, <1>3, AddKeepsManager, RemoveKeepsManager DEF CheckProximity
  <2>2. proximityCheck' \in (HoldAircraft \X Navaids) \cup {NoCheck}
    BY <1>3 DEF CheckProximity, HoldsTypeOK
  <2>. QED
    BY <1>3, <1>m, <1>t, <2>1, <2>2
    DEF CheckProximity, HoldsTypeOK, ManagerTypeOK, holdsBackend, holdsHistory
<1>4. CASE EnterProximity
  <2>1. PICK a \in HoldAircraft, n \in Navaids : proximityCheck = <<a, n>>
    BY <1>4 DEF EnterProximity, HoldsTypeOK
  <2>2. /\ holdsUp' \in BOOLEAN
        /\ proximityHolds' = proximityHolds
           \/ /\ proximityHolds[a][n] # "out"
              /\ proximityHolds' = [proximityHolds EXCEPT ![a][n] = "entered"]
    BY <1>4, <2>1 DEF EnterProximity, IsInHoldProximity
  <2>a. "entered" \in Proximity /\ proximityHolds \in [HoldAircraft -> [Navaids -> Proximity]]
    BY DEF HoldsTypeOK, Proximity
  <2>b. [proximityHolds EXCEPT ![a][n] = "entered"] \in [HoldAircraft -> [Navaids -> Proximity]]
    BY <2>a
  <2>3. proximityHolds' \in [HoldAircraft -> [Navaids -> Proximity]]
    BY <2>2, <2>a, <2>b
  <2>4. \A b \in HoldAircraft, m \in Navaids :
            proximityHolds'[b][m] # "out" <=> proximityHolds[b][m] # "out"
    BY <2>2 DEF HoldsTypeOK
  <2>5. UNCHANGED <<holdAircraft, assignedHold, holds>>
    BY <1>4 DEF EnterProximity
  <2>6. HoldListsAgree'
    BY <2>4, <2>5 DEF HoldListsAgree, InHold, InAnyHold
  <2>. QED
    BY <1>4, <1>t, <2>2, <2>3, <2>6 DEF EnterProximity, HoldsTypeOK, holdsBackend, holdsHistory
<1>5. CASE HoldAreasSynced
  <2>1. [do |-> "areas"] \in HoldTask
    BY DEF HoldTask
  <2>2. HoldTasks' \subseteq HoldTask
    BY <1>5, <2>1, QueuedHoldTasks DEF HoldAreasSynced, HoldsTypeOK
  <2>. QED
    BY <1>5, <1>m, <1>u, <2>2 DEF HoldAreasSynced, HoldsTypeOK, ManagerTypeOK, holdsBackend, holdsHistory
<1>6. ASSUME NEW t \in HoldTasks, HoldCallAnswered(t) PROVE HoldsRight'
  <2>0. t \in HoldTask
    BY DEF HoldsTypeOK
  <2>1. CASE /\ t.do = "tell" /\ holdsAtApi' = [holdsAtApi EXCEPT ![t.of] = t.hold]
             /\ PublishHold(ToldEvent(t)) /\ FinishHoldTask(t)
    <3>1. t.of \in HoldAircraft /\ t.hold \in Navaids \cup {NoHold}
      BY <2>0, <2>1 DEF HoldTask
    <3>2. holdEvents' \in Seq(HoldEvent)
      BY <2>1, <3>1, ToldEventTyped, PublishTyped
    <3>3. HoldTasks' \subseteq HoldTask
      BY <2>1, FinishedHoldTasks DEF HoldsTypeOK
    <3>. QED
      BY <1>6, <1>m, <1>u, <2>1, <3>1, <3>2, <3>3
      DEF HoldCallAnswered, HoldsTypeOK, ManagerTypeOK, holdsHistory
  <2>2. CASE /\ t.do = "list" /\ ReplaceHoldTask(t, [do |-> "load", items |-> holdsAtApi])
             /\ UNCHANGED <<holdsAtApi, holdEvents>>
    <3>1. PICK v : v = [do |-> "load", items |-> holdsAtApi]
      OBVIOUS
    <3>2. v \in HoldTask /\ v # t
      BY <2>2, <3>1 DEF HoldTask, HoldsTypeOK
    <3>3. HoldTasks' \subseteq HoldTask
      BY <2>2, <3>1, <3>2, ReplacedHoldTasks DEF HoldsTypeOK
    <3>. QED
      BY <1>6, <1>m, <1>u, <2>2, <3>3
      DEF HoldCallAnswered, HoldsTypeOK, ManagerTypeOK, holdsHistory
  <2>3. CASE /\ t.do = "areas" /\ ReplaceHoldTask(t, [do |-> "enter", items |-> proximityAtApi])
             /\ UNCHANGED <<holdsAtApi, holdEvents>>
    <3>1. PICK v : v = [do |-> "enter", items |-> proximityAtApi]
      OBVIOUS
    <3>2. v \in HoldTask /\ v # t
      BY <2>3, <3>1 DEF HoldTask, HoldsTypeOK
    <3>3. HoldTasks' \subseteq HoldTask
      BY <2>3, <3>1, <3>2, ReplacedHoldTasks DEF HoldsTypeOK
    <3>. QED
      BY <1>6, <1>m, <1>u, <2>3, <3>3
      DEF HoldCallAnswered, HoldsTypeOK, ManagerTypeOK, holdsHistory
  <2>. QED
    BY <1>6, <2>1, <2>2, <2>3 DEF HoldCallAnswered
<1>7. ASSUME NEW t \in HoldTasks, HoldCallFailed(t) PROVE HoldsRight'
  <2>1. t.do = "tell" => t.of \in HoldAircraft
    BY DEF HoldsTypeOK, HoldTask
  <2>2. HoldTasks' \subseteq HoldTask
    BY <1>7, FinishedHoldTasks DEF HoldCallFailed, HoldsTypeOK
  <2>. QED
    BY <1>7, <1>m, <1>u, <2>1, <2>2 DEF HoldCallFailed, HoldsTypeOK, ManagerTypeOK, holdsBackend
<1>8. ASSUME NEW t \in HoldTasks, NEW a \in HoldAircraft, LoadAssignedHold(t, a) PROVE HoldsRight'
  <2>1. PICK v : v = [t EXCEPT !.items[a] = NoHold]
    OBVIOUS
  <2>2. t.do = "load" /\ t.items \in [HoldAircraft -> Navaids \cup {NoHold}] /\ t.items[a] # NoHold
    BY <1>8 DEF LoadAssignedHold, HoldsTypeOK, HoldTask
  <2>3. v = [do |-> "load", items |-> [t.items EXCEPT ![a] = NoHold]] /\ t \in HoldTask
    BY <2>1, <2>2 DEF HoldsTypeOK, HoldTask
  <2>4. v \in HoldTask /\ v # t
    BY <2>2, <2>3 DEF HoldTask
  <2>5. HoldTasks' \subseteq HoldTask
    BY <1>8, <2>1, <2>4, ReplacedHoldTasks DEF LoadAssignedHold, HoldsTypeOK
  <2>6. ManagerRight'
    BY <1>0, <1>8, <2>2, AssignKeepsManager DEF LoadAssignedHold
  <2>. QED
    BY <1>8, <1>m, <2>5, <2>6 DEF LoadAssignedHold, HoldsTypeOK, ManagerTypeOK, holdsBackend
<1>9. ASSUME NEW t \in HoldTasks, NEW a \in HoldAircraft, NEW n \in Navaids, LoadHoldingArea(t, a, n)
      PROVE HoldsRight'
  <2>1. PICK v : v = [t EXCEPT !.items = @ \ {<<a, n>>}]
    OBVIOUS
  <2>2. t \in HoldTask /\ t.do = "enter" /\ t.items \subseteq HoldAircraft \X Navaids
        /\ <<a, n>> \in t.items
    BY <1>9 DEF LoadHoldingArea, HoldsTypeOK, HoldTask
  <2>3. v = [do |-> "enter", items |-> t.items \ {<<a, n>>}]
    BY <2>1, <2>2 DEF HoldTask
  <2>4. v \in HoldTask /\ v # t
    BY <2>2, <2>3 DEF HoldTask
  <2>5. HoldTasks' \subseteq HoldTask
    BY <1>9, <2>1, <2>4, ReplacedHoldTasks DEF LoadHoldingArea, HoldsTypeOK
  <2>6. ManagerRight'
    BY <1>0, <1>9, AddKeepsManager DEF LoadHoldingArea
  <2>. QED
    BY <1>9, <1>m, <2>5, <2>6 DEF LoadHoldingArea, HoldsTypeOK, ManagerTypeOK, holdsBackend, holdsHistory
<1>10. ASSUME NEW t \in HoldTasks, HoldsLoaded(t) PROVE HoldsRight'
  <2>1. HoldTasks' \subseteq HoldTask
    BY <1>10, FinishedHoldTasks DEF HoldsLoaded, HoldsTypeOK
  <2>. QED
    BY <1>10, <1>m, <1>u, <2>1 DEF HoldsLoaded, HoldsTypeOK, ManagerTypeOK, holdsBackend, holdsHistory
<1>11. CASE ProcessHoldEvent
  <2>. DEFINE e == Head(holdEvents)
  <2>1. e \in HoldEvent /\ holdEvents' \in Seq(HoldEvent)
    BY <1>11, HeadTailProperties DEF ProcessHoldEvent, HoldsTypeOK
  <2>2. e.of \in HoldAircraft /\ (e.is \in {"assigned", "entered", "exited"} => e.at \in Navaids)
    BY <2>1 DEF HoldEvent
  <2>3. ManagerRight'
    BY <1>0, <1>11, <2>2, AssignKeepsManager, UnassignKeepsManager, AddKeepsManager,
       RemoveKeepsManager DEF ProcessHoldEvent
  <2>4. holdsAdrift' \subseteq HoldAircraft /\ holdsOvertaken' \subseteq HoldAircraft
    BY <1>11, <2>2 DEF ProcessHoldEvent, HoldsTypeOK
  <2>. QED
    BY <1>11, <1>m, <1>t, <2>1, <2>3, <2>4 DEF ProcessHoldEvent, HoldsTypeOK, ManagerTypeOK, holdsBackend
<1>12. ASSUME NEW a \in HoldAircraft, NEW p \in HoldPlaces, HoldAircraftMoves(a, p) PROVE HoldsRight'
  BY <1>12, <1>m, <1>t, <1>u DEF HoldAircraftMoves, HoldsTypeOK, ManagerTypeOK, holdsBackend,
     holdsHistory
<1>13. ASSUME NEW a \in HoldAircraft, NEW h \in Navaids \cup {NoHold}, OthersAssignHold(a, h)
       PROVE  HoldsRight'
  <2>1. PICK t : t = [of |-> a, hold |-> h]
    OBVIOUS
  <2>2. holdEvents' \in Seq(HoldEvent)
    BY <1>13, <2>1, ToldEventTyped, PublishTyped DEF OthersAssignHold
  <2>. QED
    BY <1>13, <1>m, <1>t, <1>u, <2>2 DEF OthersAssignHold, HoldsTypeOK, ManagerTypeOK, holdsHistory
<1>14. ASSUME NEW a \in HoldAircraft, NEW n \in HoldAreas, ApiSeesArea(a, n) PROVE HoldsRight'
  <2>0. n \in Navaids
    BY HoldsAssumption
  <2>1. PICK e : e = [of |-> a, is |-> IF <<a, n>> \in proximityAtApi THEN "exited" ELSE "entered",
                      at |-> n]
    OBVIOUS
  <2>2. e \in HoldEvent
    BY <2>0, <2>1 DEF HoldEvent
  <2>3. holdEvents' \in Seq(HoldEvent)
    BY <1>14, <2>1, <2>2, PublishTyped DEF ApiSeesArea
  <2>4. proximityAtApi' \subseteq HoldAircraft \X Navaids
    BY <1>14, <2>0 DEF ApiSeesArea, HoldsTypeOK
  <2>. QED
    BY <1>14, <1>m, <1>t, <1>u, <2>3, <2>4 DEF ApiSeesArea, HoldsTypeOK, ManagerTypeOK, holdsHistory
<1>15. CASE UNCHANGED holdsVars
  BY <1>15, <1>m, <1>t, <1>u DEF holdsVars, HoldsTypeOK, ManagerTypeOK, holdsBackend, holdsHistory
<1>. QED
  BY <1>1, <1>2, <1>3, <1>4, <1>5, <1>6, <1>7, <1>8, <1>9, <1>10, <1>11, <1>12, <1>13, <1>14, <1>15
  DEF HoldsNext

LEMMA HoldsRightAtStart == HoldsInit => HoldsRight
<1>. SUFFICES ASSUME HoldsInit PROVE HoldsRight
  OBVIOUS
<1>1. HoldTasks = {[do |-> "list"]}
  BY DEF HoldsInit, HoldTasks, BagToSet, SetToBag
<1>2. HoldTasks \subseteq HoldTask
  BY <1>1 DEF HoldTask
<1>3. HoldsTypeOK
  BY <1>2 DEF HoldsInit, HoldsTypeOK, Proximity
<1>4. HoldListsAgree
  BY HoldsAssumption DEF HoldsInit, HoldListsAgree, InHold, InAnyHold
<1>. QED
  BY <1>3, <1>4 DEF HoldsRight

\* Every variable has its type, whatever the aircraft, navaids and bounds.
THEOREM HoldsTyped == HoldsSpec => []HoldsTypeOK
<1>1. HoldsInit => HoldsRight
  BY HoldsRightAtStart
<1>2. HoldsRight /\ [HoldsNext]_holdsVars => HoldsRight'
  BY HoldsRightKept
<1>3. HoldsRight => HoldsTypeOK
  BY DEF HoldsRight
<1>. QED
  BY <1>1, <1>2, <1>3, PTL DEF HoldsSpec

\* The lists of the displays and the set of aircraft kept always agree with the
\* holds assigned and the navaids near, in whatever order the two threads edit.
THEOREM HoldListsAgreed == HoldsSpec => []HoldListsAgree
<1>1. HoldsInit => HoldsRight
  BY HoldsRightAtStart
<1>2. HoldsRight /\ [HoldsNext]_holdsVars => HoldsRight'
  BY HoldsRightKept
<1>3. HoldsRight => HoldListsAgree
  BY DEF HoldsRight
<1>. QED
  BY <1>1, <1>2, <1>3, PTL DEF HoldsSpec

\* The entry the sweep is about to look up is there.
CheckRight ==
    proximityCheck # NoCheck => IsInHoldProximity(proximityCheck[1], proximityCheck[2])
SweepIInv == HoldsRight /\ holdsUp /\ CheckRight

\* An entry in the way of the sweep is not taken away: who takes one away is on its thread.
LEMMA SweepKept == SweepIInv /\ [HoldsNext]_holdsVars => SweepIInv'
<1>. SUFFICES ASSUME SweepIInv, [HoldsNext]_holdsVars PROVE holdsUp' /\ CheckRight'
  BY HoldsRightKept DEF SweepIInv
<1>0. HoldsTypeOK /\ holdsUp /\ CheckRight
  BY DEF SweepIInv, HoldsRight
<1>1. CASE \/ \E a \in HoldAircraft, n \in Navaids, byMenu \in BOOLEAN : AssignHold(a, n, byMenu)
           \/ \E a \in HoldAircraft, byMenu \in BOOLEAN : UnassignHold(a, byMenu)
           \/ ProcessHoldEvent
  BY <1>0, <1>1 DEF AssignHold, UnassignHold, ProcessHoldEvent, HoldsIdle, CheckRight
<1>2. ASSUME NEW a \in HoldAircraft, NEW n \in Navaids, CheckProximity(a, n)
      PROVE  holdsUp' /\ CheckRight'
  <2>1. proximityCheck = NoCheck /\ holdsUp'
    BY <1>0, <1>2 DEF CheckProximity, HoldsIdle
  <2>2. CASE proximityCheck' = NoCheck
    BY <2>1, <2>2 DEF CheckRight
  <2>3. CASE proximityCheck' # NoCheck
    <3>1. proximityCheck' = <<a, n>> /\ AddAircraftToProximityHold(a, n, "near")
      BY <1>2, <2>1, <2>3 DEF CheckProximity
    <3>2. proximityHolds'[a][n] # "out"
      BY <1>0, <3>1 DEF AddAircraftToProximityHold, HoldsTypeOK
    <3>. QED
      BY <2>1, <3>1, <3>2 DEF CheckRight, IsInHoldProximity
  <2>. QED
    BY <2>2, <2>3
<1>3. CASE EnterProximity
  BY <1>0, <1>3 DEF EnterProximity, CheckRight
<1>4. ASSUME UNCHANGED <<proximityCheck, holdsUp>>,
             \A b \in HoldAircraft, m \in Navaids :
                proximityHolds[b][m] # "out" => proximityHolds'[b][m] # "out"
      PROVE  holdsUp' /\ CheckRight'
  <2>1. CASE proximityCheck # NoCheck
    <3>1. PICK b \in HoldAircraft, m \in Navaids : proximityCheck = <<b, m>>
      BY <1>0, <2>1 DEF HoldsTypeOK
    <3>2. proximityCheck' = <<b, m>> /\ proximityHolds'[b][m] # "out"
      BY <1>0, <1>4, <2>1, <3>1 DEF CheckRight, IsInHoldProximity
    <3>. QED
      BY <1>0, <1>4, <3>2 DEF CheckRight, IsInHoldProximity
  <2>2. CASE proximityCheck = NoCheck
    BY <1>0, <1>4, <2>2 DEF CheckRight
  <2>. QED
    BY <2>1, <2>2
<1>5. ASSUME NEW t \in HoldTasks, NEW a \in HoldAircraft, NEW n \in Navaids, LoadHoldingArea(t, a, n)
      PROVE  holdsUp' /\ CheckRight'
  <2>1. AddAircraftToProximityHold(a, n, "entered") /\ UNCHANGED <<proximityCheck, holdsUp>>
    BY <1>5 DEF LoadHoldingArea
  <2>2. \A b \in HoldAircraft, m \in Navaids :
           proximityHolds[b][m] # "out" => proximityHolds'[b][m] # "out"
    BY <1>0, <2>1 DEF AddAircraftToProximityHold, HoldsTypeOK
  <2>. QED
    BY <1>4, <2>1, <2>2
<1>6. CASE \/ HoldAreasSynced
           \/ \E t \in HoldTasks : HoldCallAnswered(t) \/ HoldCallFailed(t) \/ HoldsLoaded(t)
           \/ \E t \in HoldTasks, a \in HoldAircraft : LoadAssignedHold(t, a)
           \/ \E a \in HoldAircraft, p \in HoldPlaces : HoldAircraftMoves(a, p)
           \/ \E a \in HoldAircraft, h \in Navaids \cup {NoHold} : OthersAssignHold(a, h)
           \/ \E a \in HoldAircraft, n \in HoldAreas : ApiSeesArea(a, n)
           \/ UNCHANGED holdsVars
  <2>1. UNCHANGED <<proximityCheck, holdsUp, proximityHolds>>
    BY <1>6 DEF HoldAreasSynced, HoldCallAnswered, HoldCallFailed, HoldsLoaded, LoadAssignedHold,
       AssignAircraftToHold, HoldAircraftMoves, OthersAssignHold, ApiSeesArea, holdsVars, manager
  <2>. QED
    BY <1>4, <2>1
<1>. QED
  BY <1>1, <1>2, <1>3, <1>5, <1>6 DEF HoldsNext

\* The sweep of the distances never follows a null pointer: what it added is
\* there when it looks it up, for any number of aircraft, navaids and workers.
THEOREM SweepsFindTheirEntry == HoldsSpec => []SweepFindsItsEntry
<1>1. HoldsInit => SweepIInv
  BY HoldsRightAtStart DEF HoldsInit, SweepIInv, CheckRight
<1>2. SweepIInv /\ [HoldsNext]_holdsVars => SweepIInv'
  BY SweepKept
<1>3. SweepIInv => SweepFindsItsEntry
  BY DEF SweepIInv, SweepFindsItsEntry
<1>. QED
  BY <1>1, <1>2, <1>3, PTL DEF HoldsSpec

-------------------------------------------------------------------------------
(* What holds when something is still on its way.                             *)

\* The events that give an aircraft a hold, or none
Gives(e, a) == e.of = a /\ e.is \in {"assigned", "unassigned"}
NoHoldComing(a) == \A i \in 1..Len(holdEvents) : ~Gives(holdEvents[i], a)

\* The last of them to come gives the hold the API holds.
LastSaysHold(a) ==
    \A i \in 1..Len(holdEvents) :
        /\ Gives(holdEvents[i], a)
        /\ \A j \in 1..Len(holdEvents) : j > i => ~Gives(holdEvents[j], a)
        => EventHold(holdEvents[i]) = holdsAtApi[a]

\* What is still to be loaded and no event overtook is right when none is to come.
HoldLoadRight(a) ==
    NoHoldComing(a) /\ a \notin holdsOvertaken =>
        \A t \in HoldTasks : t.do = "load" => t.items[a] \in {NoHold, holdsAtApi[a]}

\* And so is the hold assigned, unless the API is still to be told of an edit.
HoldMapRight(a) ==
    NoHoldComing(a) /\ a \notin holdsAdrift =>
        \/ \E t \in HoldTasks : t.do = "tell" /\ t.of = a
        \/ assignedHold[a] = holdsAtApi[a]

\* The assignments are loaded by one task, when the plugin starts.
OneHoldList ==
    \A t \in HoldTasks : t.do \in {"list", "load"} =>
        holdTasks[t] = 1 /\ \A u \in HoldTasks : u.do \in {"list", "load"} => u = t

Agreed(a) == LastSaysHold(a) /\ HoldLoadRight(a) /\ HoldMapRight(a)
HoldsIInv == HoldsRight /\ OneHoldList /\ \A a \in HoldAircraft : Agreed(a)

\* A change at the API is the last event of its aircraft, and nobody else's.
LEMMA Published ==
    ASSUME HoldsTypeOK, NEW x \in HoldAircraft, NEW e \in HoldEvent, Gives(e, x), PublishHold(e),
           holdsAtApi' = [holdsAtApi EXCEPT ![x] = EventHold(e)],
           NEW a \in HoldAircraft, LastSaysHold(a)
    PROVE  /\ LastSaysHold(a)'
           /\ a = x => ~NoHoldComing(a)'
           /\ a # x => holdsAtApi'[a] = holdsAtApi[a]
           /\ NoHoldComing(a)' => NoHoldComing(a)
<1>2. /\ Len(holdEvents) \in Nat
      /\ Len(holdEvents') = Len(holdEvents) + 1
      /\ \A i \in 1..Len(holdEvents) : holdEvents'[i] = holdEvents[i]
      /\ holdEvents'[Len(holdEvents) + 1] = e
  BY AppendProperties, LenProperties DEF PublishHold, HoldsTypeOK
<1>3. holdsAtApi'[x] = EventHold(e) /\ \A b \in HoldAircraft \ {x} : holdsAtApi'[b] = holdsAtApi[b]
  BY DEF HoldsTypeOK
<1>4. a # x => ~Gives(e, a)
  BY DEF Gives
<1>5. LastSaysHold(a)'
  <2>. SUFFICES ASSUME NEW i \in 1..Len(holdEvents'), Gives(holdEvents'[i], a),
                       \A j \in 1..Len(holdEvents') : j > i => ~Gives(holdEvents'[j], a)
                PROVE  EventHold(holdEvents'[i]) = holdsAtApi'[a]
    BY DEF LastSaysHold, Gives, EventHold
  <2>1. CASE i = Len(holdEvents) + 1
    BY <2>1, <1>2, <1>3, <1>4
  <2>2. CASE i \in 1..Len(holdEvents)
    <3>1. a # x
      BY <2>2, <1>2
    <3>. QED
      BY <2>2, <3>1, <1>2, <1>3 DEF LastSaysHold
  <2>. QED
    BY <2>1, <2>2, <1>2
<1>6. a = x => ~NoHoldComing(a)'
  BY <1>2 DEF NoHoldComing, Gives
<1>7. NoHoldComing(a)' => NoHoldComing(a)
  BY <1>2 DEF NoHoldComing, Gives
<1>. QED
  BY <1>3, <1>5, <1>6, <1>7

\* An event of a holding area is nobody's assignment.
LEMMA AreaPublished ==
    ASSUME HoldsTypeOK, NEW e \in HoldEvent, e.is \in {"entered", "exited"}, PublishHold(e),
           UNCHANGED holdsAtApi, NEW a \in HoldAircraft, LastSaysHold(a)
    PROVE  LastSaysHold(a)' /\ (NoHoldComing(a)' => NoHoldComing(a))
<1>2. /\ Len(holdEvents) \in Nat
      /\ Len(holdEvents') = Len(holdEvents) + 1
      /\ \A i \in 1..Len(holdEvents) : holdEvents'[i] = holdEvents[i]
      /\ holdEvents'[Len(holdEvents) + 1] = e
  BY AppendProperties, LenProperties DEF PublishHold, HoldsTypeOK
<1>3. ~Gives(e, a)
  BY DEF Gives
<1>4. LastSaysHold(a)'
  <2>. SUFFICES ASSUME NEW i \in 1..Len(holdEvents'), Gives(holdEvents'[i], a),
                       \A j \in 1..Len(holdEvents') : j > i => ~Gives(holdEvents'[j], a)
                PROVE  EventHold(holdEvents'[i]) = holdsAtApi'[a]
    BY DEF LastSaysHold, Gives, EventHold
  <2>1. i \in 1..Len(holdEvents)
    BY <1>2, <1>3
  <2>. QED
    BY <2>1, <1>2 DEF LastSaysHold
<1>5. NoHoldComing(a)' => NoHoldComing(a)
  BY <1>2 DEF NoHoldComing, Gives
<1>. QED
  BY <1>4, <1>5

\* Processing the first event leaves the rest.
LEMMA ProcessedHolds ==
    ASSUME HoldsTypeOK, ProcessHoldEvent, NEW a \in HoldAircraft, LastSaysHold(a)
    PROVE  /\ LastSaysHold(a)'
           /\ ~Gives(Head(holdEvents), a) => (NoHoldComing(a)' => NoHoldComing(a))
           /\ Gives(Head(holdEvents), a) /\ NoHoldComing(a)' =>
                EventHold(Head(holdEvents)) = holdsAtApi[a]
<1>1. holdEvents \in Seq(HoldEvent) /\ holdEvents # <<>> /\ holdEvents' = Tail(holdEvents)
  BY DEF ProcessHoldEvent, HoldsTypeOK
<1>2. /\ Len(holdEvents) \in Nat /\ Len(holdEvents) >= 1
      /\ Len(holdEvents') = Len(holdEvents) - 1
      /\ \A i \in 1..Len(holdEvents') : holdEvents'[i] = holdEvents[i + 1]
      /\ Head(holdEvents) = holdEvents[1]
  BY <1>1, HeadTailProperties, LenProperties, EmptySeq
<1>3. holdsAtApi' = holdsAtApi
  BY DEF ProcessHoldEvent, holdsBackend
<1>4. LastSaysHold(a)'
  <2>. SUFFICES ASSUME NEW i \in 1..Len(holdEvents'), Gives(holdEvents'[i], a),
                       \A j \in 1..Len(holdEvents') : j > i => ~Gives(holdEvents'[j], a)
                PROVE  EventHold(holdEvents'[i]) = holdsAtApi'[a]
    BY DEF LastSaysHold, Gives, EventHold
  <2>1. i + 1 \in 1..Len(holdEvents) /\ Gives(holdEvents[i + 1], a)
    BY <1>2
  <2>2. ASSUME NEW j \in 1..Len(holdEvents), j > i + 1 PROVE ~Gives(holdEvents[j], a)
    <3>1. j - 1 \in 1..Len(holdEvents') /\ j - 1 > i /\ (j - 1) + 1 = j
      BY <2>2, <1>2
    <3>. QED
      BY <3>1, <1>2
  <2>. QED
    BY <2>1, <2>2, <1>2, <1>3 DEF LastSaysHold
<1>5. ASSUME NoHoldComing(a)', NEW j \in 1..Len(holdEvents), j > 1 PROVE ~Gives(holdEvents[j], a)
  <2>1. j - 1 \in 1..Len(holdEvents') /\ (j - 1) + 1 = j
    BY <1>5, <1>2
  <2>. QED
    BY <1>5, <2>1, <1>2 DEF NoHoldComing, Gives
<1>6. ~Gives(Head(holdEvents), a) => (NoHoldComing(a)' => NoHoldComing(a))
  BY <1>2, <1>5 DEF NoHoldComing
<1>7. Gives(Head(holdEvents), a) /\ NoHoldComing(a)' => EventHold(Head(holdEvents)) = holdsAtApi[a]
  BY <1>2, <1>5 DEF LastSaysHold
<1>. QED
  BY <1>4, <1>6, <1>7

-------------------------------------------------------------------------------
(* One task loads the assignments.                                            *)

LEMMA OneHoldListQueued ==
    ASSUME OneHoldList, NEW t, t.do \notin {"list", "load"}, QueueHoldTask(t)
    PROVE  OneHoldList'
<1>1. HoldTasks' = HoldTasks \cup {t} /\ \A u \in HoldTasks : u # t => holdTasks'[u] = holdTasks[u]
  BY QueuedHoldTasks
<1>. QED
  BY <1>1 DEF OneHoldList

LEMMA OneHoldListFinished ==
    ASSUME OneHoldList, NEW t \in HoldTasks, FinishHoldTask(t)
    PROVE  OneHoldList'
<1>1. /\ HoldTasks' \subseteq HoldTasks
      /\ holdTasks[t] = 1 => t \notin HoldTasks'
      /\ \A u \in HoldTasks : u # t => holdTasks'[u] = holdTasks[u]
  BY FinishedHoldTasks
<1>. QED
  BY <1>1 DEF OneHoldList

\* The task goes on, or one of another kind does.
LEMMA OneListReplaced ==
    ASSUME OneHoldList, NEW t \in HoldTasks, NEW v, v # t, ReplaceHoldTask(t, v),
           \/ t.do \in {"list", "load"} /\ v.do = "load"
           \/ t.do \notin {"list", "load"} /\ v.do \notin {"list", "load"}
    PROVE  OneHoldList'
<1>1. /\ HoldTasks' \subseteq HoldTasks \cup {v}
      /\ holdTasks[t] = 1 => t \notin HoldTasks'
      /\ v \notin HoldTasks => holdTasks'[v] = 1
      /\ \A u \in HoldTasks \ {t, v} : holdTasks'[u] = holdTasks[u]
  BY ReplacedHoldTasks
<1>2. CASE t.do \in {"list", "load"} /\ v.do = "load"
  <2>1. holdTasks[t] = 1 /\ (\A u \in HoldTasks : u.do \in {"list", "load"} => u = t) /\ v \notin HoldTasks
    BY <1>2 DEF OneHoldList
  <2>. QED
    BY <1>1, <2>1 DEF OneHoldList
<1>3. CASE t.do \notin {"list", "load"} /\ v.do \notin {"list", "load"}
  BY <1>1, <1>3 DEF OneHoldList
<1>. QED
  BY <1>2, <1>3

\* Nothing changes for an aircraft when no event, task or mark of it does.
LEMMA AgreedUntouched ==
    ASSUME NEW a \in HoldAircraft, Agreed(a), LastSaysHold(a)',
           NoHoldComing(a)' => NoHoldComing(a),
           holdsAtApi'[a] = holdsAtApi[a],
           a \notin holdsOvertaken' => a \notin holdsOvertaken,
           a \notin holdsAdrift' => a \notin holdsAdrift,
           assignedHold'[a] = assignedHold[a],
           \A t \in HoldTasks' : t.do = "load" =>
               \E u \in HoldTasks : u.do = "load" /\ t.items[a] \in {NoHold, u.items[a]},
           \A t \in HoldTasks : t.do = "tell" /\ t.of = a => t \in HoldTasks'
    PROVE  Agreed(a)'
<1>1. HoldLoadRight(a)'
  BY DEF Agreed, HoldLoadRight
<1>2. HoldMapRight(a)'
  BY DEF Agreed, HoldMapRight
<1>. QED
  BY <1>1, <1>2 DEF Agreed

-------------------------------------------------------------------------------
(* Convergence.                                                               *)

\* Each step keeps one list and every aircraft agreed: one case for each action.
LEMMA AgreedKept ==
    ASSUME HoldsIInv, [HoldsNext]_holdsVars
    PROVE  OneHoldList' /\ \A a \in HoldAircraft : Agreed(a)'
<1>. USE DEF HoldsIInv
<1>r. HoldsTypeOK /\ HoldListsAgree /\ ManagerRight
  BY DEF HoldsRight, ManagerRight, ManagerTypeOK, HoldsTypeOK
<1>0. ASSUME NEW a \in HoldAircraft PROVE Agreed(a) /\ LastSaysHold(a) /\ assignedHold[a] \in Navaids \cup {NoHold}
  BY <1>r DEF Agreed, HoldsTypeOK
<1>e. ASSUME UNCHANGED <<holdEvents, holdsAtApi>>, NEW a \in HoldAircraft
      PROVE  LastSaysHold(a)' /\ NoHoldComing(a)' = NoHoldComing(a)
  BY <1>0, <1>e DEF LastSaysHold, NoHoldComing, Gives, EventHold
<1>t. ASSUME UNCHANGED holdTasks PROVE OneHoldList' /\ HoldTasks' = HoldTasks
  BY <1>t DEF OneHoldList, HoldTasks
<1>q. ASSUME NEW x \in HoldAircraft, NEW h \in Navaids \cup {NoHold},
             QueueHoldTask([do |-> "tell", of |-> x, hold |-> h]),
             assignedHold' = [assignedHold EXCEPT ![x] = h],
             UNCHANGED <<holdEvents, holdsBackend, holdsHistory>>
      PROVE  OneHoldList' /\ \A a \in HoldAircraft : Agreed(a)'
  <2>1. PICK t : t = [do |-> "tell", of |-> x, hold |-> h]
    OBVIOUS
  <2>2. t.do = "tell" /\ t.of = x /\ QueueHoldTask(t)
    BY <1>q, <2>1
  <2>3. HoldTasks' = HoldTasks \cup {t}
    BY <2>2, QueuedHoldTasks
  <2>4. OneHoldList'
    BY <2>2, OneHoldListQueued
  <2>5. ASSUME NEW a \in HoldAircraft PROVE Agreed(a)'
    <3>1. LastSaysHold(a)' /\ NoHoldComing(a)' = NoHoldComing(a) /\ UNCHANGED <<holdsAtApi, holdsOvertaken, holdsAdrift>>
      BY <1>q, <1>e DEF holdsBackend, holdsHistory
    <3>2. HoldLoadRight(a)'
      BY <1>0, <2>2, <2>3, <3>1 DEF Agreed, HoldLoadRight
    <3>3. a # x => assignedHold'[a] = assignedHold[a]
      BY <1>q, <1>r DEF HoldsTypeOK
    <3>4. HoldMapRight(a)'
      BY <1>0, <2>2, <2>3, <3>1, <3>3 DEF Agreed, HoldMapRight
    <3>. QED
      BY <3>1, <3>2, <3>4 DEF Agreed
  <2>. QED
    BY <2>4, <2>5
<1>1. ASSUME NEW x \in HoldAircraft, NEW n \in Navaids, NEW byMenu \in BOOLEAN, AssignHold(x, n, byMenu)
      PROVE  OneHoldList' /\ \A a \in HoldAircraft : Agreed(a)'
  <2>1. assignedHold' = [assignedHold EXCEPT ![x] = n]
    BY <1>1 DEF AssignHold, AssignAircraftToHold
  <2>. QED
    BY <1>1, <1>q, <2>1 DEF AssignHold
<1>2. ASSUME NEW x \in HoldAircraft, NEW byMenu \in BOOLEAN, UnassignHold(x, byMenu)
      PROVE  OneHoldList' /\ \A a \in HoldAircraft : Agreed(a)'
  <2>1. assignedHold' = [assignedHold EXCEPT ![x] = NoHold]
    BY <1>2, <1>r, UnassignKeepsManager DEF UnassignHold
  <2>. QED
    BY <1>2, <1>q, <2>1 DEF UnassignHold
<1>s. ASSUME UNCHANGED <<assignedHold, holdEvents, holdsBackend, holdsHistory>>,
             NEW a \in HoldAircraft,
             \A t \in HoldTasks' : t.do = "load" =>
                 \E u \in HoldTasks : u.do = "load" /\ t.items[a] \in {NoHold, u.items[a]},
             \A t \in HoldTasks : t.do = "tell" /\ t.of = a => t \in HoldTasks'
      PROVE  Agreed(a)'
  <2>1. LastSaysHold(a)' /\ NoHoldComing(a)' = NoHoldComing(a) /\ UNCHANGED <<holdsAtApi, holdsOvertaken, holdsAdrift>>
    BY <1>s, <1>e DEF holdsBackend, holdsHistory
  <2>. QED
    BY <1>0, <1>s, <2>1, AgreedUntouched
<1>3. ASSUME UNCHANGED <<assignedHold, holdEvents, holdsBackend, holdsHistory, holdTasks>>
      PROVE  OneHoldList' /\ \A a \in HoldAircraft : Agreed(a)'
  BY <1>3, <1>t, <1>s
<1>4. ASSUME NEW x \in HoldAircraft, NEW n \in Navaids, CheckProximity(x, n)
      PROVE  OneHoldList' /\ \A a \in HoldAircraft : Agreed(a)'
  <2>1. assignedHold' = assignedHold
    BY <1>4, <1>r, AddKeepsManager, RemoveKeepsManager DEF CheckProximity
  <2>. QED
    BY <1>3, <1>4, <2>1 DEF CheckProximity
<1>5. CASE EnterProximity \/ \E x \in HoldAircraft, p \in HoldPlaces : HoldAircraftMoves(x, p)
  BY <1>3, <1>5 DEF EnterProximity, HoldAircraftMoves, manager
<1>6. CASE HoldAreasSynced
  <2>1. PICK t : t = [do |-> "areas"]
    OBVIOUS
  <2>2. t.do = "areas" /\ QueueHoldTask(t)
    BY <1>6, <2>1 DEF HoldAreasSynced
  <2>3. HoldTasks' = HoldTasks \cup {t} /\ OneHoldList'
    BY <2>2, QueuedHoldTasks, OneHoldListQueued
  <2>. QED
    BY <1>6, <1>s, <2>2, <2>3 DEF HoldAreasSynced, manager
<1>7. ASSUME NEW t \in HoldTasks, HoldCallAnswered(t)
      PROVE  OneHoldList' /\ \A a \in HoldAircraft : Agreed(a)'
  <2>0. t \in HoldTask /\ UNCHANGED <<assignedHold, holdsHistory>>
    BY <1>7, <1>r DEF HoldsTypeOK, HoldCallAnswered, manager
  <2>1. CASE /\ t.do = "tell" /\ holdsAtApi' = [holdsAtApi EXCEPT ![t.of] = t.hold]
             /\ PublishHold(ToldEvent(t)) /\ FinishHoldTask(t)
    <3>1. t.of \in HoldAircraft /\ t.hold \in Navaids \cup {NoHold}
      BY <2>0, <2>1 DEF HoldTask
    <3>2. PICK e \in HoldEvent : e = ToldEvent(t)
      BY <3>1, ToldEventTyped
    <3>3. Gives(e, t.of) /\ EventHold(e) = t.hold
      BY <3>1, <3>2 DEF ToldEvent, Gives, EventHold
    <3>4. HoldTasks \ {t} \subseteq HoldTasks' /\ HoldTasks' \subseteq HoldTasks /\ OneHoldList'
      BY <2>1, FinishedHoldTasks, OneHoldListFinished
    <3>5. ASSUME NEW a \in HoldAircraft PROVE Agreed(a)'
      <4>1. /\ LastSaysHold(a)'
            /\ a = t.of => ~NoHoldComing(a)'
            /\ a # t.of => holdsAtApi'[a] = holdsAtApi[a]
            /\ NoHoldComing(a)' => NoHoldComing(a)
        BY <1>0, <1>r, <2>1, <3>1, <3>2, <3>3, Published
      <4>2. CASE a = t.of
        BY <4>1, <4>2 DEF Agreed, HoldLoadRight, HoldMapRight
      <4>3. CASE a # t.of
        BY <1>0, <2>0, <3>4, <4>1, <4>3, AgreedUntouched DEF holdsHistory
      <4>. QED
        BY <4>2, <4>3
    <3>. QED
      BY <3>4, <3>5
  <2>2. CASE /\ t.do = "list" /\ ReplaceHoldTask(t, [do |-> "load", items |-> holdsAtApi])
             /\ UNCHANGED <<holdsAtApi, holdEvents>>
    <3>1. PICK v : v = [do |-> "load", items |-> holdsAtApi]
      OBVIOUS
    <3>2. v.do = "load" /\ v.items = holdsAtApi /\ v # t /\ ReplaceHoldTask(t, v)
      BY <2>2, <3>1
    <3>3. HoldTasks \ {t} \subseteq HoldTasks' /\ HoldTasks' \subseteq HoldTasks \cup {v} /\ OneHoldList'
      BY <2>2, <3>2, ReplacedHoldTasks, OneListReplaced
    <3>4. ASSUME NEW a \in HoldAircraft PROVE Agreed(a)'
      <4>1. LastSaysHold(a)' /\ NoHoldComing(a)' = NoHoldComing(a)
        BY <2>2, <1>e
      <4>2. HoldLoadRight(a)'
        BY <1>0, <2>0, <2>2, <3>2, <3>3, <4>1 DEF Agreed, HoldLoadRight, holdsHistory
      <4>3. HoldMapRight(a)'
        BY <1>0, <2>0, <2>2, <3>3, <4>1 DEF Agreed, HoldMapRight, holdsHistory
      <4>. QED
        BY <4>1, <4>2, <4>3 DEF Agreed
    <3>. QED
      BY <3>3, <3>4
  <2>3. CASE /\ t.do = "areas" /\ ReplaceHoldTask(t, [do |-> "enter", items |-> proximityAtApi])
             /\ UNCHANGED <<holdsAtApi, holdEvents>>
    <3>1. PICK v : v = [do |-> "enter", items |-> proximityAtApi]
      OBVIOUS
    <3>2. v.do = "enter" /\ v # t /\ ReplaceHoldTask(t, v)
      BY <2>3, <3>1
    <3>3. HoldTasks \ {t} \subseteq HoldTasks' /\ HoldTasks' \subseteq HoldTasks \cup {v} /\ OneHoldList'
      BY <2>3, <3>2, ReplacedHoldTasks, OneListReplaced
    <3>4. UNCHANGED holdsBackend
      BY <1>7, <2>3 DEF HoldCallAnswered, holdsBackend
    <3>. QED
      BY <1>s, <2>0, <2>3, <3>2, <3>3, <3>4
  <2>. QED
    BY <1>7, <2>1, <2>2, <2>3 DEF HoldCallAnswered
<1>8. ASSUME NEW t \in HoldTasks, HoldCallFailed(t)
      PROVE  OneHoldList' /\ \A a \in HoldAircraft : Agreed(a)'
  <2>1. HoldTasks \ {t} \subseteq HoldTasks' /\ HoldTasks' \subseteq HoldTasks /\ OneHoldList'
    BY <1>8, FinishedHoldTasks, OneHoldListFinished DEF HoldCallFailed
  <2>2. ASSUME NEW a \in HoldAircraft PROVE Agreed(a)'
    <3>1. LastSaysHold(a)' /\ NoHoldComing(a)' = NoHoldComing(a)
      BY <1>8, <1>e DEF HoldCallFailed, holdsBackend
    <3>2. HoldLoadRight(a)'
      BY <1>0, <1>8, <2>1, <3>1 DEF Agreed, HoldLoadRight, HoldCallFailed, holdsBackend
    <3>3. HoldMapRight(a)'
      BY <1>0, <1>8, <2>1, <3>1 DEF Agreed, HoldMapRight, HoldCallFailed, holdsBackend, manager
    <3>. QED
      BY <3>1, <3>2, <3>3 DEF Agreed
  <2>. QED
    BY <2>1, <2>2
<1>9. ASSUME NEW t \in HoldTasks, NEW x \in HoldAircraft, LoadAssignedHold(t, x)
      PROVE  OneHoldList' /\ \A a \in HoldAircraft : Agreed(a)'
  <2>1. PICK v : v = [t EXCEPT !.items[x] = NoHold]
    OBVIOUS
  <2>2. /\ t \in HoldTask /\ t.do = "load" /\ t.items \in [HoldAircraft -> Navaids \cup {NoHold}]
        /\ t.items[x] # NoHold
    BY <1>9, <1>r DEF LoadAssignedHold, HoldsTypeOK, HoldTask
  <2>3. v.do = "load" /\ v.items = [t.items EXCEPT ![x] = NoHold] /\ v # t
    BY <2>1, <2>2 DEF HoldTask
  <2>4. /\ HoldTasks' \subseteq HoldTasks \cup {v} /\ HoldTasks \ {t} \subseteq HoldTasks'
        /\ t \notin HoldTasks' /\ OneHoldList'
    BY <1>9, <2>1, <2>2, <2>3, ReplacedHoldTasks, OneListReplaced DEF LoadAssignedHold, OneHoldList
  <2>5. \A u \in HoldTasks' : u.do = "load" => u = v
    BY <2>2, <2>4 DEF OneHoldList
  <2>6. ASSUME NEW a \in HoldAircraft PROVE Agreed(a)'
    <3>1. LastSaysHold(a)' /\ NoHoldComing(a)' = NoHoldComing(a) /\ holdsAtApi' = holdsAtApi
      BY <1>9, <1>e DEF LoadAssignedHold, holdsBackend
    <3>2. CASE a = x
      <4>1. v.items[a] = NoHold
        BY <2>2, <2>3, <3>2
      <4>2. HoldLoadRight(a)'
        BY <2>5, <4>1 DEF HoldLoadRight
      <4>3. assignedHold'[a] = t.items[a]
        BY <1>9, <1>r, <3>2 DEF LoadAssignedHold, AssignAircraftToHold, HoldsTypeOK
      <4>4. a \notin holdsAdrift' => a \notin holdsOvertaken
        BY <1>9, <3>2 DEF LoadAssignedHold
      <4>5. HoldMapRight(a)'
        BY <1>0, <2>2, <3>1, <3>2, <4>3, <4>4 DEF Agreed, HoldLoadRight, HoldMapRight
      <4>. QED
        BY <3>1, <4>2, <4>5 DEF Agreed
    <3>3. CASE a # x
      <4>1. v.items[a] = t.items[a]
        BY <2>2, <2>3, <3>3
      <4>2. assignedHold'[a] = assignedHold[a]
        BY <1>9, <1>r, <3>3 DEF LoadAssignedHold, AssignAircraftToHold, HoldsTypeOK
      <4>3. /\ a \notin holdsOvertaken' => a \notin holdsOvertaken
            /\ a \notin holdsAdrift' => a \notin holdsAdrift
        BY <1>9, <3>3 DEF LoadAssignedHold
      <4>. QED
        BY <1>0, <2>2, <2>4, <2>5, <3>1, <4>1, <4>2, <4>3, AgreedUntouched
    <3>. QED
      BY <3>2, <3>3
  <2>. QED
    BY <2>4, <2>6
<1>10. ASSUME NEW t \in HoldTasks, NEW x \in HoldAircraft, NEW n \in Navaids, LoadHoldingArea(t, x, n)
       PROVE  OneHoldList' /\ \A a \in HoldAircraft : Agreed(a)'
  <2>1. PICK v : v = [t EXCEPT !.items = @ \ {<<x, n>>}]
    OBVIOUS
  <2>2. t \in HoldTask /\ t.do = "enter" /\ <<x, n>> \in t.items
    BY <1>10, <1>r DEF LoadHoldingArea, HoldsTypeOK
  <2>3. v.do = "enter" /\ v.items = t.items \ {<<x, n>>} /\ v # t
    BY <2>1, <2>2 DEF HoldTask
  <2>4. HoldTasks \ {t} \subseteq HoldTasks' /\ HoldTasks' \subseteq HoldTasks \cup {v} /\ OneHoldList'
    <3>1. ReplaceHoldTask(t, v)
      BY <1>10, <2>1 DEF LoadHoldingArea
    <3>2. HoldTasks \ {t} \subseteq HoldTasks' /\ HoldTasks' \subseteq HoldTasks \cup {v}
      BY <2>3, <3>1, ReplacedHoldTasks
    <3>. QED
      BY <1>10, <2>2, <2>3, <3>1, <3>2, OneListReplaced
  <2>5. assignedHold' = assignedHold
    BY <1>10 DEF LoadHoldingArea, AddAircraftToProximityHold
  <2>. QED
    BY <1>10, <1>s, <2>2, <2>3, <2>4, <2>5 DEF LoadHoldingArea
<1>11. ASSUME NEW t \in HoldTasks, HoldsLoaded(t)
       PROVE  OneHoldList' /\ \A a \in HoldAircraft : Agreed(a)'
  <2>1. HoldTasks \ {t} \subseteq HoldTasks' /\ HoldTasks' \subseteq HoldTasks /\ OneHoldList'
    BY <1>11, FinishedHoldTasks, OneHoldListFinished DEF HoldsLoaded
  <2>2. t.do # "tell"
    BY <1>11 DEF HoldsLoaded
  <2>. QED
    BY <1>11, <1>s, <2>1, <2>2 DEF HoldsLoaded, manager
<1>12. CASE ProcessHoldEvent
  <2>. DEFINE e == Head(holdEvents)
  <2>1. e \in HoldEvent
    BY <1>12, <1>r, HeadTailProperties DEF ProcessHoldEvent, HoldsTypeOK
  <2>2. /\ e.of \in HoldAircraft
        /\ e.is \in {"assigned", "unassigned", "entered", "exited"}
        /\ e.is # "unassigned" => e.at \in Navaids
    BY <2>1 DEF HoldEvent
  <2>3. OneHoldList' /\ HoldTasks' = HoldTasks /\ holdsAtApi' = holdsAtApi
    BY <1>12, <1>t DEF ProcessHoldEvent, holdsBackend
  <2>4. /\ e.is \in {"assigned", "unassigned"} =>
              assignedHold' = [assignedHold EXCEPT ![e.of] = EventHold(e)]
        /\ e.is \notin {"assigned", "unassigned"} => assignedHold' = assignedHold
    BY <1>12, <1>r, <2>2, AssignKeepsManager, UnassignKeepsManager, AddKeepsManager,
       RemoveKeepsManager DEF ProcessHoldEvent, EventHold
  <2>5. /\ holdsAdrift' = IF e.is \in {"assigned", "unassigned"} THEN holdsAdrift \ {e.of}
                          ELSE holdsAdrift
        /\ holdsOvertaken \subseteq holdsOvertaken'
        /\ \A t \in HoldTasks : /\ e.is \in {"assigned", "unassigned"} /\ t.do = "load"
                                 /\ t.items[e.of] \notin {NoHold, EventHold(e)}
                                 => e.of \in holdsOvertaken'
    BY <1>12 DEF ProcessHoldEvent
  <2>6. ASSUME NEW a \in HoldAircraft PROVE Agreed(a)'
    <3>1. /\ LastSaysHold(a)'
          /\ ~Gives(e, a) => (NoHoldComing(a)' => NoHoldComing(a))
          /\ Gives(e, a) /\ NoHoldComing(a)' => EventHold(e) = holdsAtApi[a]
      BY <1>0, <1>12, <1>r, ProcessedHolds
    <3>. HIDE DEF e
    <3>2. CASE Gives(e, a)
      <4>1. e.of = a /\ e.is \in {"assigned", "unassigned"}
        BY <3>2 DEF Gives
      <4>2. HoldLoadRight(a)'
        BY <2>3, <2>5, <3>1, <3>2, <4>1 DEF HoldLoadRight
      <4>3. assignedHold'[a] = EventHold(e)
        BY <1>r, <2>4, <4>1 DEF HoldsTypeOK
      <4>4. HoldMapRight(a)'
        BY <2>3, <3>1, <3>2, <4>3 DEF HoldMapRight
      <4>. QED
        BY <3>1, <4>2, <4>4 DEF Agreed
    <3>3. CASE ~Gives(e, a)
      <4>1. assignedHold'[a] = assignedHold[a] /\ (a \notin holdsAdrift' => a \notin holdsAdrift)
        BY <1>r, <2>2, <2>4, <2>5, <3>3 DEF Gives, HoldsTypeOK
      <4>. QED
        BY <1>0, <2>3, <2>5, <3>1, <3>3, <4>1, AgreedUntouched
    <3>. QED
      BY <3>2, <3>3
  <2>. QED
    BY <2>3, <2>6
<1>13. ASSUME NEW x \in HoldAircraft, NEW h \in Navaids \cup {NoHold}, OthersAssignHold(x, h)
       PROVE  OneHoldList' /\ \A a \in HoldAircraft : Agreed(a)'
  <2>1. PICK t : t = [of |-> x, hold |-> h]
    OBVIOUS
  <2>2. PICK e \in HoldEvent : e = ToldEvent(t)
    BY <2>1, ToldEventTyped
  <2>3. Gives(e, x) /\ EventHold(e) = h
    BY <2>1, <2>2 DEF ToldEvent, Gives, EventHold
  <2>4. OneHoldList' /\ HoldTasks' = HoldTasks
    BY <1>13, <1>t DEF OthersAssignHold
  <2>5. ASSUME NEW a \in HoldAircraft PROVE Agreed(a)'
    <3>1. /\ LastSaysHold(a)'
          /\ a = x => ~NoHoldComing(a)'
          /\ a # x => holdsAtApi'[a] = holdsAtApi[a]
          /\ NoHoldComing(a)' => NoHoldComing(a)
      BY <1>0, <1>r, <1>13, <2>1, <2>2, <2>3, Published DEF OthersAssignHold
    <3>2. CASE a = x
      BY <3>1, <3>2 DEF Agreed, HoldLoadRight, HoldMapRight
    <3>3. CASE a # x
      BY <1>0, <1>13, <2>4, <3>1, <3>3, AgreedUntouched DEF OthersAssignHold, holdsHistory, manager
    <3>. QED
      BY <3>2, <3>3
  <2>. QED
    BY <2>4, <2>5
<1>14. ASSUME NEW x \in HoldAircraft, NEW n \in HoldAreas, ApiSeesArea(x, n)
       PROVE  OneHoldList' /\ \A a \in HoldAircraft : Agreed(a)'
  <2>1. PICK e : e = [of |-> x, is |-> IF <<x, n>> \in proximityAtApi THEN "exited" ELSE "entered",
                      at |-> n]
    OBVIOUS
  <2>2. e \in HoldEvent /\ e.is \in {"entered", "exited"} /\ PublishHold(e)
    BY <1>14, <2>1, HoldsAssumption DEF HoldEvent, ApiSeesArea
  <2>3. OneHoldList' /\ HoldTasks' = HoldTasks
    BY <1>14, <1>t DEF ApiSeesArea
  <2>4. UNCHANGED <<assignedHold, holdsAtApi, holdsAdrift, holdsOvertaken>>
    BY <1>14 DEF ApiSeesArea, manager, holdsHistory
  <2>5. ASSUME NEW a \in HoldAircraft PROVE Agreed(a)'
    <3>1. LastSaysHold(a)' /\ (NoHoldComing(a)' => NoHoldComing(a))
      BY <1>0, <1>r, <2>2, <2>4, AreaPublished
    <3>. QED
      BY <1>0, <2>3, <2>4, <3>1, AgreedUntouched
  <2>. QED
    BY <2>3, <2>5
<1>15. CASE UNCHANGED holdsVars
  BY <1>3, <1>15 DEF holdsVars, manager
<1>. QED
  BY <1>1, <1>2, <1>4, <1>5, <1>6, <1>7, <1>8, <1>9, <1>10, <1>11, <1>12, <1>13, <1>14, <1>15
  DEF HoldsNext

LEMMA AgreedAtStart == HoldsInit => HoldsIInv
<1>. SUFFICES ASSUME HoldsInit PROVE HoldsIInv
  OBVIOUS
<1>1. HoldsRight
  BY HoldsRightAtStart
<1>2. PICK t : t = [do |-> "list"]
  OBVIOUS
<1>3. HoldTasks = {t} /\ holdTasks[t] = 1 /\ t.do = "list" /\ Len(holdEvents) = 0
  BY <1>2 DEF HoldsInit, HoldTasks, BagToSet, SetToBag
<1>4. OneHoldList
  BY <1>3 DEF OneHoldList
<1>5. ASSUME NEW a \in HoldAircraft PROVE Agreed(a)
  BY <1>3 DEF HoldsInit, Agreed, LastSaysHold, HoldLoadRight, HoldMapRight
<1>. QED
  BY <1>1, <1>4, <1>5 DEF HoldsIInv

\* An aircraft nothing is on its way for has the hold the API holds for it, but
\* after a failed call or an overtaken item, and then until the next event.
THEOREM HoldsConverged == HoldsSpec => []HoldsConverge
<1>1. HoldsInit => HoldsIInv
  BY AgreedAtStart
<1>2. HoldsIInv /\ [HoldsNext]_holdsVars => HoldsIInv'
  BY HoldsRightKept, AgreedKept DEF HoldsIInv
<1>3. HoldsIInv => HoldsConverge
  <2>. SUFFICES ASSUME HoldsIInv, NEW a \in HoldAircraft, HoldSettled(a), a \notin holdsAdrift
                PROVE  assignedHold[a] = holdsAtApi[a]
    BY DEF HoldsConverge
  <2>1. holdEvents \in Seq(HoldEvent)
    BY DEF HoldsIInv, HoldsRight, HoldsTypeOK
  <2>2. NoHoldComing(a)
    BY <2>1 DEF HoldSettled, NoHoldComing, Gives, Range
  <2>3. HoldMapRight(a)
    BY DEF HoldsIInv, Agreed
  <2>4. ASSUME NEW t \in HoldTasks, t.do = "tell" PROVE t.of # a
    BY <2>4 DEF HoldSettled
  <2>. QED
    BY <2>2, <2>3, <2>4 DEF HoldMapRight
<1>. QED
  BY <1>1, <1>2, <1>3, PTL DEF HoldsSpec

-------------------------------------------------------------------------------
(* Stands over push events.                                                   *)

\* The log counts the stand events in it.
LogCounts ==
    /\ standLog \in Seq(StandEvent)
    /\ standsUpTo \in [0..MaxEventId -> Nat]
    /\ Len(standLog) <= published
    /\ \A id \in 0..MaxEventId : standsUpTo[id] <= published
    /\ standsUpTo[published] = Len(standLog)
    /\ \A i, j \in 0..published : i <= j => standsUpTo[i] <= standsUpTo[j]
    /\ \A i, j \in 0..published :
          i <= j /\ (\A n \in (i + 1)..j : ~IsStandEvent(n)) => standsUpTo[i] = standsUpTo[j]
    /\ \A n \in 1..published : IsStandEvent(n) => standsUpTo[n] = standsUpTo[n - 1] + 1

LogEndsWithApi == EndWithApi(standLog)

\* The transport has attached when the sync is done; then those events of the log
\* are to come that the handler was not given.
ToCome ==
    /\ standsAttached <=> cursor # -1
    /\ cursor # -1 =>
         /\ Len(standEvents) = Len(standLog) - standsUpTo[cursor]
         /\ \A i \in 1..Len(standEvents) : standEvents[i] = standLog[standsUpTo[cursor] + i]

\* The task that tells the processors runs once, after the sync; only then the
\* list of stands is asked for.
ListAfterSync ==
    /\ syncTask.at = Finishing => cursor # -1
    /\ \A t \in StandTasks : t.do \in {"list", "load"} => cursor # -1 /\ syncTask.at = Idle

OverPushIInv ==
    /\ IInv
    /\ StandsTypeOK
    /\ LogCounts
    /\ LogEndsWithApi
    /\ ToCome
    /\ ListAfterSync

-------------------------------------------------------------------------------

\* Whatever the composition does, PushEvents does.
LEMMA OverPushIsPush == [StandsOverPushNext]_overPushVars => [Next]_vars
BY DEF StandsOverPushNext, overPushVars, PublishOther, ApiStep, PublishStand, EditStep, AutoStep,
       DrainStep, TaskStep, AttachStep, SyncedStep, PushStep, Next

\* The facts about numbers the steps need.
LEMMA Numbers ==
    ASSUME IInv
    PROVE  /\ published \in Nat /\ published <= MaxEventId /\ MaxEventId \in Nat
           /\ cursor \in Int /\ cursor >= -1 /\ cursor <= published
           /\ cursor # -1 => cursor \in 0..published
           /\ lastEventId = -1 => cursor = -1
BY BoundAssumption DEF IInv, TypeOK, NothingBeforeSync

\* A new event, with what it adds to the stands' part of the log.
LEMMA LogGrows ==
    ASSUME IInv, LogCounts, Publish, standLog' \in Seq(StandEvent),
           Len(standLog') = Len(standLog) + (IF IsStandEvent(published + 1) THEN 1 ELSE 0),
           standsUpTo' = [standsUpTo EXCEPT ![published + 1] = Len(standLog')]
    PROVE  LogCounts' /\ \A id \in 0..published : standsUpTo'[id] = standsUpTo[id]
<1>. DEFINE p == published + 1
            m == Len(standLog')
<1>1. published' = p /\ p \in 1..MaxEventId /\ published \in 0..published
  BY Numbers DEF Publish
<1>2. published \in Nat /\ p - 1 = published /\ \A i \in 0..p : i \in 0..published \/ i = p
  BY Numbers
<1>3. /\ Len(standLog) \in Nat /\ m \in Nat /\ Len(standLog) <= m
      /\ m <= Len(standLog) + 1
      /\ IsStandEvent(p) => m = Len(standLog) + 1
      /\ ~IsStandEvent(p) => m = Len(standLog)
  BY LenProperties DEF LogCounts
<1>4. /\ standsUpTo' \in [0..MaxEventId -> Nat]
      /\ standsUpTo'[p] = m
      /\ \A i \in 0..published : standsUpTo'[i] = standsUpTo[i] /\ i # p
  BY <1>1, <1>2, <1>3, Numbers DEF LogCounts
<1>5. /\ \A i \in 0..published : standsUpTo[i] <= Len(standLog) /\ standsUpTo[i] \in Nat
      /\ standsUpTo[published] = Len(standLog)
  <2>1. standsUpTo[published] = Len(standLog) /\ standsUpTo \in [0..MaxEventId -> Nat]
    BY DEF LogCounts
  <2>2. \A i, j \in 0..published : i <= j => standsUpTo[i] <= standsUpTo[j]
    BY DEF LogCounts
  <2>3. \A i \in 0..published : i \in 0..MaxEventId /\ i <= published
    BY Numbers
  <2>. QED
    BY <1>1, <2>1, <2>2, <2>3
<1>. HIDE DEF p, m
<1>6. ASSUME NEW i \in 0..p, NEW j \in 0..p, i <= j PROVE standsUpTo'[i] <= standsUpTo'[j]
  <2>1. CASE j \in 0..published
    <3>1. i \in 0..published
      BY <1>2, <1>6, <2>1
    <3>. QED
      BY <1>4, <1>6, <2>1, <3>1 DEF LogCounts
  <2>2. CASE j = p /\ i \in 0..published
    BY <1>3, <1>4, <1>5, <2>2
  <2>3. CASE i = p /\ j = p
    BY <1>3, <1>4, <2>3
  <2>4. j = p => i \in 0..published \/ i = p
    BY <1>2
  <2>. QED
    BY <1>2, <2>1, <2>2, <2>3, <2>4
<1>7. ASSUME NEW i \in 0..p, NEW j \in 0..p, i <= j, \A n \in (i + 1)..j : ~IsStandEvent(n)
      PROVE  standsUpTo'[i] = standsUpTo'[j]
  <2>1. CASE j \in 0..published
    <3>1. i \in 0..published
      BY <1>2, <1>7, <2>1
    <3>. QED
      BY <1>4, <1>7, <2>1, <3>1 DEF LogCounts
  <2>2. CASE j = p /\ i \in 0..published
    <3>1. /\ \A n \in (i + 1)..published : n \in (i + 1)..j
          /\ p \in (i + 1)..j
      BY <1>2, <2>2
    <3>2. ~IsStandEvent(p) /\ \A n \in (i + 1)..published : ~IsStandEvent(n)
      BY <1>7, <3>1
    <3>3. standsUpTo[i] = standsUpTo[published]
      BY <1>1, <1>2, <2>2, <3>2 DEF LogCounts
    <3>. QED
      BY <1>3, <1>4, <1>5, <2>2, <3>2, <3>3
  <2>3. CASE i = p /\ j = p
    BY <2>3
  <2>4. j = p => i \in 0..published \/ i = p
    BY <1>2
  <2>. QED
    BY <1>2, <2>1, <2>2, <2>3, <2>4
<1>8. ASSUME NEW n \in 1..p, IsStandEvent(n) PROVE standsUpTo'[n] = standsUpTo'[n - 1] + 1
  <2>1. CASE n = p
    BY <1>1, <1>2, <1>3, <1>4, <1>5, <1>8, <2>1
  <2>2. CASE n # p
    <3>1. n \in 1..published /\ n - 1 \in 0..published /\ n \in 0..published
      BY <1>1, <1>2, <2>2
    <3>. QED
      BY <1>4, <1>8, <3>1 DEF LogCounts
  <2>. QED
    BY <2>1, <2>2
<1>9. LogCounts'
  <2>1. Len(standLog') <= published'
    BY <1>1, <1>2, <1>3 DEF LogCounts, m
  <2>2. standsUpTo'[published'] = Len(standLog')
    BY <1>1, <1>4 DEF m
  <2>3. \A n : IsStandEvent(n)' = IsStandEvent(n)
    BY DEF IsStandEvent
  <2>4. \A id \in 0..MaxEventId : standsUpTo'[id] <= published'
    <3>1. \A id \in 0..MaxEventId : standsUpTo[id] <= published /\ standsUpTo[id] \in Nat
      BY DEF LogCounts
    <3>2. Len(standLog) <= published
      BY DEF LogCounts
    <3>3. m <= p
      BY <1>2, <1>3, <3>2 DEF p
    <3>4. \A id \in 0..MaxEventId : standsUpTo'[id] = m \/ standsUpTo'[id] = standsUpTo[id]
      BY <1>4 DEF LogCounts, p, m
    <3>. QED
      BY <1>1, <1>2, <3>1, <3>3, <3>4 DEF p
  <2>. QED
    BY <1>1, <1>4, <1>6, <1>7, <1>8, <2>1, <2>2, <2>3, <2>4 DEF LogCounts
<1>. QED
  BY <1>4, <1>9

\* An event about something else
LEMMA OtherLogged == OverPushIInv /\ PublishOther => OverPushIInv'
<1>. SUFFICES ASSUME OverPushIInv, PublishOther PROVE OverPushIInv'
  OBVIOUS
<1>1. /\ Publish /\ ~IsStandEvent(published + 1)
      /\ standsUpTo' = [standsUpTo EXCEPT ![published + 1] = Len(standLog)]
      /\ UNCHANGED <<cursor, syncTask, standLog, standsVars>>
  BY DEF PublishOther, Publish
<1>2. UNCHANGED <<standsAtApi, standsAttached, standEvents>> /\ StandTasks' = StandTasks
  BY <1>1 DEF standsVars, StandTasks
<1>3. LogCounts' /\ \A id \in 0..published : standsUpTo'[id] = standsUpTo[id]
  <2>1. Len(standLog) \in Nat /\ standLog \in Seq(StandEvent)
    BY LenProperties DEF OverPushIInv, LogCounts
  <2>. QED
    BY <1>1, <2>1, LogGrows DEF OverPushIInv
<1>4. IInv' /\ StandsTypeOK'
  BY <1>1, IInvStep, TypesKept DEF OverPushIInv, Next
<1>5. LogEndsWithApi'
  BY <1>1, <1>2 DEF OverPushIInv, LogEndsWithApi, EndWithApi
<1>6. ToCome'
  <2>1. cursor # -1 => standsUpTo'[cursor] = standsUpTo[cursor]
    BY <1>3, Numbers DEF OverPushIInv
  <2>. QED
    BY <1>1, <1>2, <2>1 DEF OverPushIInv, ToCome
<1>7. ListAfterSync'
  BY <1>1, <1>2 DEF OverPushIInv, ListAfterSync
<1>. QED
  BY <1>3, <1>4, <1>5, <1>6, <1>7 DEF OverPushIInv

\* A change of a stand: it is at the end of the log and, if the transport has
\* attached, the last to come.
LEMMA StandLogged ==
    ASSUME OverPushIInv, StandsTypeOK', NEW a \in StandAircraft, NEW s \in StandIds \cup {NoStand},
           Record(a, s), PublishStand(a, s),
           \A t \in StandTasks' : t.do \in {"list", "load"} => t \in StandTasks
    PROVE  OverPushIInv'
<1>. DEFINE e == [of |-> a, stand |-> s]
            n == Len(standLog)
<1>1. /\ Publish /\ IsStandEvent(published + 1) /\ published' = published + 1
      /\ standsUpTo' = [standsUpTo EXCEPT ![published + 1] = n + 1]
      /\ standLog' = Append(standLog, e)
      /\ UNCHANGED <<cursor, syncTask>>
  BY DEF PublishStand, Publish
<1>2. /\ standsAttached' = standsAttached
      /\ standsAttached => standEvents' = Append(standEvents, e)
      /\ standsAtApi' = [standsAtApi EXCEPT ![a] = s]
  BY DEF Record
<1>3. e \in StandEvent /\ e.of = a /\ e.stand = s
  BY DEF StandEvent
<1>. HIDE DEF e
<1>4. /\ standLog \in Seq(StandEvent) /\ n \in Nat
      /\ standLog' \in Seq(StandEvent) /\ Len(standLog') = n + 1
      /\ \A i \in 1..n : standLog'[i] = standLog[i]
      /\ standLog'[n + 1] = e
  BY <1>1, <1>3, AppendProperties, LenProperties DEF OverPushIInv, LogCounts
<1>5. LogCounts' /\ \A id \in 0..published : standsUpTo'[id] = standsUpTo[id]
  BY <1>1, <1>4, LogGrows DEF OverPushIInv
<1>6. IInv'
  BY <1>1, IInvStep DEF OverPushIInv, Next
<1>. HIDE DEF n
<1>7. LogEndsWithApi'
  <2>. SUFFICES ASSUME NEW i \in 1..(n + 1),
                       \A j \in 1..(n + 1) : j > i => standLog'[j].of # standLog'[i].of
                PROVE  standLog'[i].stand = standsAtApi'[standLog'[i].of]
    BY <1>4 DEF LogEndsWithApi, EndWithApi
  <2>1. CASE i = n + 1
    BY <1>2, <1>3, <1>4, <2>1 DEF OverPushIInv, StandsTypeOK, Assignments
  <2>2. CASE i # n + 1
    <3>1. i \in 1..n /\ n + 1 \in 1..(n + 1) /\ n + 1 > i /\ \A j \in 1..n : j \in 1..(n + 1)
      BY <1>4, <2>2
    <3>2. /\ standLog'[i] = standLog[i] /\ standLog[i].of # a
          /\ \A j \in 1..n : j > i => standLog[j].of # standLog[i].of
      BY <1>3, <1>4, <3>1
    <3>3. standLog[i].stand = standsAtApi[standLog[i].of]
      BY <3>1, <3>2 DEF OverPushIInv, LogEndsWithApi, EndWithApi, n
    <3>4. standLog[i] \in StandEvent
      BY <1>4, <3>1, ElementOfSeq DEF n
    <3>5. standLog[i].of \in StandAircraft
      BY <3>4 DEF StandEvent
    <3>. QED
      BY <1>2, <3>2, <3>3, <3>5 DEF OverPushIInv, StandsTypeOK, Assignments
  <2>. QED
    BY <2>1, <2>2
<1>8. ToCome'
  <2>1. ASSUME cursor # -1
        PROVE  /\ Len(standEvents') = Len(standLog') - standsUpTo'[cursor]
               /\ \A i \in 1..Len(standEvents') : standEvents'[i] = standLog'[standsUpTo'[cursor] + i]
    <3>. DEFINE k == standsUpTo[cursor]
                l == Len(standEvents)
    <3>1. cursor \in 0..published /\ standsUpTo'[cursor] = k
      BY <1>5, <2>1, Numbers DEF OverPushIInv
    <3>2. k \in Nat
      BY <3>1, Numbers DEF OverPushIInv, LogCounts
    <3>3. standEvents \in Seq(StandEvent) /\ standEvents' = Append(standEvents, e)
      BY <1>2, <2>1 DEF OverPushIInv, ToCome, StandsTypeOK
    <3>4. /\ l \in Nat /\ Len(standEvents') = l + 1
          /\ \A i \in 1..l : standEvents'[i] = standEvents[i]
          /\ standEvents'[l + 1] = e
      BY <1>3, <3>3, AppendProperties, LenProperties
    <3>5. l = n - k /\ \A i \in 1..l : standEvents[i] = standLog[k + i]
      BY <2>1 DEF OverPushIInv, ToCome, n
    <3>. HIDE DEF k, l
    <3>6. ASSUME NEW i \in 1..(l + 1) PROVE standEvents'[i] = standLog'[k + i]
      <4>1. CASE i \in 1..l
        <5>1. k + i \in 1..n
          BY <1>4, <3>2, <3>4, <3>5, <4>1
        <5>. QED
          BY <1>4, <3>4, <3>5, <4>1, <5>1
      <4>2. CASE i = l + 1
        <5>1. k + i = n + 1
          BY <1>4, <3>2, <3>4, <3>5, <4>2
        <5>. QED
          BY <1>4, <3>4, <4>2, <5>1
      <4>. QED
        BY <3>4, <4>1, <4>2
    <3>7. l + 1 = (n + 1) - k
      BY <1>4, <3>2, <3>4, <3>5
    <3>8. Len(standEvents') = Len(standLog') - standsUpTo'[cursor]
      BY <1>4, <3>1, <3>4, <3>7
    <3>. QED
      BY <3>1, <3>4, <3>6, <3>8
  <2>. QED
    BY <1>1, <1>2, <2>1 DEF OverPushIInv, ToCome
<1>9. ListAfterSync'
  BY <1>1 DEF OverPushIInv, ListAfterSync
<1>. QED
  BY <1>5, <1>6, <1>7, <1>8, <1>9 DEF OverPushIInv

\* A change of a stand is a step of the stands.
LEMMA StandChanged ==
    ASSUME OverPushIInv, ApiStep \/ AutoStep
    PROVE  StandsNext /\ OverPushIInv'
<1>1. ASSUME NEW t \in StandTasks, t.do = "tell", StandTold(t), PublishStand(t.of, t.stand)
      PROVE  StandsNext /\ OverPushIInv'
  <2>1. t.of \in StandAircraft /\ t.stand \in StandIds \cup {NoStand} /\ Record(t.of, t.stand)
    BY <1>1 DEF OverPushIInv, StandsTypeOK, StandTask, StandTold
  <2>2. StandsNext
    BY <1>1 DEF StandsNext
  <2>3. StandsTypeOK'
    BY <2>2, TypesKept DEF OverPushIInv
  <2>4. StandTasks' \subseteq StandTasks
    BY <1>1, FinishedStandTasks DEF StandTold
  <2>5. OverPushIInv'
    BY <1>1, <2>1, <2>3, <2>4, StandLogged
  <2>. QED
    BY <2>2, <2>5
<1>2. ASSUME NEW a \in StandAircraft, NEW s \in StandIds \cup {NoStand},
             OthersAssign(a, s), PublishStand(a, s)
      PROVE  StandsNext /\ OverPushIInv'
  <2>1. StandsNext
    BY <1>2 DEF StandsNext
  <2>2. StandsTypeOK'
    BY <2>1, TypesKept DEF OverPushIInv
  <2>3. StandTasks' = StandTasks /\ Record(a, s)
    BY <1>2 DEF OthersAssign, StandTasks
  <2>4. OverPushIInv'
    BY <1>2, <2>2, <2>3, StandLogged
  <2>. QED
    BY <2>1, <2>4
<1>3. ASSUME NEW a \in StandAircraft, NEW s \in StandIds, AutoStand(a, s), PublishStand(a, s)
      PROVE  StandsNext /\ OverPushIInv'
  <2>1. StandsNext
    BY <1>3 DEF StandsNext
  <2>2. StandsTypeOK'
    BY <2>1, TypesKept DEF OverPushIInv
  <2>3. StandTasks' = StandTasks /\ Record(a, s)
    BY <1>3 DEF AutoStand, StandTasks
  <2>4. OverPushIInv'
    BY <1>3, <2>2, <2>3, StandLogged
  <2>. QED
    BY <2>1, <2>4
<1>. QED
  BY <1>1, <1>2, <1>3 DEF ApiStep, AutoStep

\* Steps that leave the log and what is to come of it alone.
LEMMA LogStays ==
    ASSUME OverPushIInv, IInv', StandsTypeOK',
           UNCHANGED <<published, cursor, logVars, standsAtApi, standsAttached, standEvents>>,
           ListAfterSync'
    PROVE  OverPushIInv'
<1>1. LogCounts'
  <2>1. \A n : IsStandEvent(n)' = IsStandEvent(n)
    BY DEF IsStandEvent
  <2>. QED
    BY <2>1 DEF OverPushIInv, LogCounts, logVars
<1>2. LogEndsWithApi' /\ ToCome'
  BY DEF OverPushIInv, LogEndsWithApi, EndWithApi, ToCome, logVars
<1>. QED
  BY <1>1, <1>2 DEF OverPushIInv

\* The user's edits and the tasks of the handler
LEMMA HandlerStep ==
    ASSUME OverPushIInv, EditStep \/ TaskStep
    PROVE  StandsNext /\ OverPushIInv'
<1>1. StandsNext /\ UNCHANGED <<vars, logVars, standsAtApi, standsAttached, standEvents>>
  <2>1. CASE EditStep
    BY <2>1 DEF EditStep, StandsNext, AssignStand, UnassignStand, standsApiVars
  <2>2. CASE TaskStep
    BY <2>2 DEF TaskStep, StandsNext, StandsListed, StandCallFailed, LoadAssignedStands, standsApiVars
  <2>. QED
    BY <2>1, <2>2
<1>2. IInv' /\ StandsTypeOK'
  BY <1>1, TypesKept, IInvStep DEF OverPushIInv
<1>3. UNCHANGED <<published, cursor, syncTask>>
  BY <1>1 DEF vars
<1>4. (\E t \in StandTasks' : t.do \in {"list", "load"})
         => \E t \in StandTasks : t.do \in {"list", "load"}
  <2>1. ASSUME NEW a \in StandAircraft, NEW s \in StandIds, AssignStand(a, s)
        PROVE  \A t \in StandTasks' : t.do \in {"list", "load"} => t \in StandTasks
    BY <2>1, QueuedStandTasks DEF AssignStand, QueueStandTask
  <2>2. ASSUME NEW a \in StandAircraft, UnassignStand(a)
        PROVE  \A t \in StandTasks' : t.do \in {"list", "load"} => t \in StandTasks
    BY <2>2, QueuedStandTasks DEF UnassignStand, QueueStandTask
  <2>3. ASSUME NEW t \in StandTasks, StandCallFailed(t) \/ LoadAssignedStands(t)
        PROVE  StandTasks' \subseteq StandTasks
    BY <2>3, FinishedStandTasks DEF StandCallFailed, LoadAssignedStands
  <2>4. ASSUME NEW t \in StandTasks, StandsListed(t)
        PROVE  \E u \in StandTasks : u.do \in {"list", "load"}
    BY <2>4 DEF StandsListed
  <2>. QED
    BY <2>1, <2>2, <2>3, <2>4 DEF EditStep, TaskStep
<1>5. ListAfterSync'
  BY <1>3, <1>4 DEF OverPushIInv, ListAfterSync
<1>6. OverPushIInv'
  BY <1>1, <1>2, <1>3, <1>5, LogStays
<1>. QED
  BY <1>1, <1>6

\* The transport by itself
LEMMA TransportStep ==
    ASSUME OverPushIInv, PushStep
    PROVE  UNCHANGED standsVars /\ OverPushIInv'
<1>1. UNCHANGED <<standsVars, logVars>> /\ [Next]_vars
  BY DEF PushStep, Next
<1>2. UNCHANGED <<standsAtApi, standsAttached, standEvents>> /\ StandTasks' = StandTasks
  BY <1>1 DEF standsVars, StandTasks
<1>3. IInv' /\ StandsTypeOK'
  BY <1>1, TypesKept, IInvStep DEF OverPushIInv
<1>4. UNCHANGED <<published, cursor>>
  BY DEF PushStep, SyncAnswer, FetchAnswer, PollIntervalPasses, SyncEvents, GetLatestEvents,
         SyncAnswered, SyncInvalid, SyncFailed, FetchAnswered, FetchInvalid, FetchFailed,
         PushMessage, PushedAll, FetchFinished, StartDraining, StopDraining
<1>5. /\ syncTask'.at = Finishing => syncTask.at = Finishing
      /\ syncTask'.at # Idle => syncTask.at # Idle \/ cursor = -1
  <2>1. CASE SyncEvents
    BY <2>1, TaskRecords, Numbers DEF SyncEvents, Called, Finishing, OverPushIInv
  <2>2. CASE SyncAnswer
    BY <2>2, TaskRecords DEF SyncAnswer, SyncAnswered, SyncInvalid, SyncFailed, Called, Finishing, Idle,
                             Answered
  <2>3. CASE ~SyncEvents /\ ~SyncAnswer
    BY <2>3 DEF PushStep, FetchAnswer, PollIntervalPasses, GetLatestEvents,
                FetchAnswered, FetchInvalid, FetchFailed,
                PushMessage, PushedAll, FetchFinished, StartDraining, StopDraining
  <2>. QED
    BY <2>1, <2>2, <2>3
<1>6. ListAfterSync'
  BY <1>2, <1>4, <1>5 DEF OverPushIInv, ListAfterSync
<1>7. OverPushIInv'
  BY <1>1, <1>2, <1>3, <1>4, <1>6, LogStays
<1>. QED
  BY <1>1, <1>7

\* The processors are told of the sync: the stands' own step, whose guards the
\* tasks of the transport keep.
LEMMA ToldOfSync ==
    ASSUME OverPushIInv, SyncedStep
    PROVE  StandsNext /\ OverPushIInv'
<1>1. /\ syncTask.at = Finishing /\ syncTask' = NoSync /\ UNCHANGED <<published, cursor>>
      /\ AskForStands /\ UNCHANGED logVars
  BY DEF SyncedStep, SyncFinished
<1>2. cursor # -1 /\ standsAttached /\ \A t \in StandTasks : t.do \notin {"list", "load"}
  BY <1>1 DEF OverPushIInv, ListAfterSync, ToCome, Finishing, Idle
<1>3. StandsNext
  BY <1>1, <1>2 DEF StandsSynced, StandsNext
<1>4. IInv' /\ StandsTypeOK'
  BY <1>3, IInvStep, TypesKept DEF SyncedStep, Next, OverPushIInv
<1>5. UNCHANGED <<standsAtApi, standsAttached, standEvents>>
  BY <1>1 DEF AskForStands, standsApiVars
<1>6. ListAfterSync'
  BY <1>1, <1>2, TaskRecords DEF ListAfterSync, Idle, Finishing
<1>7. OverPushIInv'
  BY <1>1, <1>4, <1>5, <1>6, LogStays
<1>. QED
  BY <1>3, <1>7

\* The place the API named: the stand events behind it are to come, and end with
\* what the API holds.
LEMMA PlaceFound ==
    ASSUME OverPushIInv, AttachStep
    PROVE  StandsNext /\ OverPushIInv'
<1>. DEFINE c == syncTask.id
            k == standsUpTo[c]
            n == Len(standLog)
<1>1. /\ syncTask.at = Answered /\ cursor' = c /\ syncTask' = [syncTask EXCEPT !.at = Finishing]
      /\ standEvents' = SubSeq(standLog, k + 1, n) /\ standsAttached' = TRUE
      /\ UNCHANGED <<published, standAssignments, standsAtApi, standTasks, standsHistory, logVars>>
  BY DEF AttachStep, SyncApplied
<1>2. cursor = -1 /\ c \in 0..published /\ ~standsAttached
  BY <1>1 DEF OverPushIInv, IInv, OneTaskEach, NothingBeforeSync, ToCome, Called, Answered
<1>3. /\ n \in Nat /\ k \in Nat /\ k <= n /\ n <= MaxStandEvents /\ MaxStandEvents \in Nat
      /\ standLog \in Seq(StandEvent) /\ published \in 0..published
  <2>1. /\ published \in Nat /\ published <= MaxEventId /\ MaxEventId \in Nat
        /\ published \in 0..published /\ c \in 0..MaxEventId
    BY <1>2, Numbers DEF OverPushIInv
  <2>2. /\ standLog \in Seq(StandEvent) /\ n <= published /\ k \in Nat
        /\ standsUpTo[published] = n /\ k <= standsUpTo[published]
    BY <1>2, <2>1 DEF OverPushIInv, LogCounts
  <2>3. n \in Nat
    BY <2>2, LenProperties
  <2>. HIDE DEF c, k, n
  <2>. QED
    BY <2>1, <2>2, <2>3, RoomAssumption, StandsAssumption
<1>4. cursor' # -1 /\ c \in Int
  BY <1>1, <1>2, Numbers DEF OverPushIInv
<1>. HIDE DEF c, k, n
<1>5. \A i \in (k + 1)..n : standLog[i] \in StandEvent
  <2>1. \A i \in (k + 1)..n : i \in 1..n
    BY <1>3
  <2>. QED
    BY <1>3, <2>1, ElementOfSeq DEF n
<1>6. /\ standEvents' \in Seq(StandEvent) /\ Len(standEvents') = n - k
      /\ \A i \in 1..(n - k) : standEvents'[i] = standLog[k + i]
  <2>1. /\ k + 1 \in Int /\ n \in Int
        /\ \A i \in 1..(n - k) : i \in 1..(n - (k + 1) + 1) /\ k + i = (k + 1) + i - 1
        /\ n - k = IF k + 1 <= n THEN n - (k + 1) + 1 ELSE 0
    BY <1>3
  <2>2. PICK events : events = SubSeq(standLog, k + 1, n)
    OBVIOUS
  <2>3. /\ events \in Seq(StandEvent)
        /\ Len(events) = IF k + 1 <= n THEN n - (k + 1) + 1 ELSE 0
        /\ \A i \in 1..(n - (k + 1) + 1) : events[i] = standLog[(k + 1) + i - 1]
    BY <1>5, <2>1, <2>2, SubSeqProperties
  <2>. QED
    BY <1>1, <2>1, <2>2, <2>3
<1>7. StandsAttach
  <2>1. PICK events : events = standEvents'
    OBVIOUS
  <2>2. events \in BoundedSeq(StandEvent, MaxStandEvents)
    <3>1. n - k \in 0..MaxStandEvents
      BY <1>3
    <3>2. events \in [1..(n - k) -> StandEvent]
      BY <1>6, <2>1, LenProperties
    <3>. QED
      BY <3>1, <3>2 DEF BoundedSeq, SeqOf
  <2>3. EndWithApi(events)
    <3>. SUFFICES ASSUME NEW i \in 1..(n - k),
                         \A j \in 1..(n - k) : j > i => events[j].of # events[i].of
                  PROVE  events[i].stand = standsAtApi[events[i].of]
      BY <1>6, <2>1 DEF EndWithApi
    <3>1. k + i \in 1..n /\ events[i] = standLog[k + i]
      BY <1>3, <1>6, <2>1
    <3>2. ASSUME NEW j \in 1..n, j > k + i PROVE standLog[j].of # standLog[k + i].of
      <4>1. j - k \in 1..(n - k) /\ j - k > i /\ k + (j - k) = j
        BY <1>3, <3>2
      <4>2. events[j - k] = standLog[j]
        BY <1>6, <2>1, <4>1
      <4>. QED
        BY <3>1, <4>1, <4>2
    <3>. QED
      BY <3>1, <3>2 DEF OverPushIInv, LogEndsWithApi, EndWithApi, n
  <2>. QED
    BY <1>1, <1>2, <2>1, <2>2, <2>3 DEF StandsAttach
<1>8. StandsNext
  BY <1>7 DEF StandsNext
<1>9. IInv' /\ StandsTypeOK'
  BY <1>8, IInvStep, TypesKept DEF AttachStep, Next, OverPushIInv
<1>10. LogCounts' /\ LogEndsWithApi'
  <2>1. \A id : IsStandEvent(id)' = IsStandEvent(id)
    BY DEF IsStandEvent
  <2>. QED
    BY <1>1, <2>1 DEF OverPushIInv, LogCounts, LogEndsWithApi, EndWithApi, logVars
<1>11. ToCome'
  <2>1. standsUpTo'[cursor'] = k /\ Len(standLog') = n /\ standLog' = standLog
    BY <1>1 DEF logVars, k, n
  <2>. QED
    BY <1>1, <1>4, <1>6, <2>1 DEF ToCome
<1>12. ListAfterSync'
  <2>1. StandTasks' = StandTasks
    BY <1>1 DEF StandTasks
  <2>2. \A t \in StandTasks : t.do \notin {"list", "load"}
    BY <1>2 DEF OverPushIInv, ListAfterSync
  <2>. QED
    BY <1>4, <2>1, <2>2 DEF ListAfterSync
<1>. QED
  BY <1>8, <1>9, <1>10, <1>11, <1>12 DEF OverPushIInv

\* What the EuroScope thread takes off the queue is the next event of the stream,
\* and if the handler is called with it the next of the stands' events.
LEMMA Drained ==
    ASSUME OverPushIInv, DrainStep
    PROVE  [StandsNext]_standsVars /\ OverPushIInv'
<1>. DEFINE e == Head(inboundMessages)
            H == StandEventHandler
            k == standsUpTo[cursor]
            n == Len(standLog)
<1>1. /\ ProcessNextMessage /\ UNCHANGED <<published, syncTask>>
      /\ UNCHANGED <<standsAtApi, standsAttached, logVars>>
  BY DEF DrainStep, ProcessNextMessage
<1>2. IInv' /\ IInv /\ LogCounts /\ ToCome /\ StandsTypeOK
  BY <1>1, IInvStep DEF OverPushIInv, Next
<1>3. StandTasks' = StandTasks
  BY DEF DrainStep, ApplyStandEvent, StandTasks
<1>4. CASE received'[H] = received[H] /\ UNCHANGED cursor
  <2>1. UNCHANGED standsVars
    BY <1>4 DEF DrainStep, standsVars, standsHistory
  <2>2. StandsTypeOK' /\ ListAfterSync'
    BY <1>1, <1>3, <1>4, <2>1, TypesKept DEF OverPushIInv, ListAfterSync
  <2>3. OverPushIInv'
    BY <1>1, <1>2, <1>4, <2>1, <2>2, LogStays DEF standsVars
  <2>. QED
    BY <2>1, <2>3
<1>5. CASE e \notin Uninterpretable
  <2>1. /\ cursor # -1 /\ e \in 1..published /\ cursor \in 0..published /\ cursor < e
        /\ e \in Usable
        /\ \A skipped \in (cursor + 1)..(e - 1) : skipped \notin Usable
        /\ received' = [p \in Processors |->
                          IF p \in Wants[e] THEN Append(received[p], e) ELSE received[p]]
        /\ cursor' = e
    <3>1. cursor' = e /\ e \in EventIds /\ cursor # -1 /\ cursor < e /\ cursor \in Int
      BY <1>1, <1>2, <1>5, QueueFacts DEF ProcessNextMessage
    <3>2. Stream!Next
      BY <1>1, <1>2, <3>1, StreamStep DEF Next, Stream!vars
    <3>3. PICK d \in 1..MaxEventId : Stream!Deliver(d)
      BY <1>1, <3>1, <3>2, Numbers, <1>2 DEF Stream!Next, Stream!Publish, Stream!Attach
    <3>4. d = e
      BY <3>1, <3>3 DEF Stream!Deliver
    <3>5. /\ e \in Usable /\ e <= published
          /\ \A skipped \in (cursor + 1)..(e - 1) : skipped \notin Usable
          /\ received' = [p \in Processors |->
                            IF p \in Wants[e] THEN Append(received[p], e) ELSE received[p]]
      BY <3>3, <3>4 DEF Stream!Deliver
    <3>. HIDE DEF e
    <3>6. e \in 1..published /\ cursor \in 0..published
      BY <1>2, <3>1, <3>5, Numbers DEF EventIds
    <3>. QED
      BY <3>1, <3>5, <3>6
  <2>. HIDE DEF e
  <2>2. /\ published \in Nat /\ published <= MaxEventId /\ published \in 0..published
        /\ e \in 0..published /\ e - 1 \in 0..published /\ cursor <= e - 1 /\ e \in Int
        /\ cursor \in Int
    BY <1>2, <2>1, Numbers
  <2>3. /\ k \in Nat /\ standLog \in Seq(StandEvent) /\ standsUpTo[published] = n
        /\ standsUpTo[e - 1] = k /\ standsUpTo[e] <= n /\ standsUpTo[e] \in Nat
    <3>1. \A i \in (cursor + 1)..(e - 1) : ~IsStandEvent(i)
      BY <2>1 DEF IsStandEvent
    <3>2. \A i \in 0..published : standsUpTo[i] \in Nat
      BY <1>2, <2>2, BoundAssumption DEF LogCounts
    <3>3. standsUpTo[e - 1] = k
      BY <1>2, <2>1, <2>2, <3>1 DEF LogCounts
    <3>4. standsUpTo[e] <= standsUpTo[published]
      BY <1>2, <2>1, <2>2 DEF LogCounts
    <3>. QED
      BY <1>2, <2>1, <2>2, <3>2, <3>3, <3>4 DEF LogCounts
  <2>4. n \in Nat
    BY <2>3, LenProperties
  <2>5. /\ Len(standEvents) = n - k
        /\ \A i \in 1..(n - k) : standEvents[i] = standLog[k + i]
        /\ standEvents \in Seq(StandEvent)
    BY <1>2, <2>1 DEF ToCome, StandsTypeOK
  <2>6. standsUpTo' = standsUpTo /\ standLog' = standLog
    BY <1>1 DEF logVars
  <2>7. LogCounts' /\ LogEndsWithApi'
    <3>1. \A id : IsStandEvent(id)' = IsStandEvent(id)
      BY DEF IsStandEvent
    <3>. QED
      BY <1>1, <3>1 DEF OverPushIInv, LogCounts, LogEndsWithApi, EndWithApi, logVars
  <2>8. ListAfterSync'
    BY <1>1, <1>3, <2>1, <2>2 DEF OverPushIInv, ListAfterSync
  <2>9. standsAttached' /\ cursor' # -1
    BY <1>1, <1>2, <2>1, <2>2 DEF ToCome
  <2>10. CASE H \in Wants[e]
    <3>1. standsUpTo[e] = k + 1
      BY <1>2, <2>1, <2>3, <2>10 DEF LogCounts, IsStandEvent
    <3>2. received'[H] = Append(received[H], e) /\ received[H] \in Seq(EventIds)
      BY <1>2, <2>1, <2>10, HandlerAssumption DEF IInv, TypeOK
    <3>3. received'[H] # received[H] /\ Last(received'[H]) = e
      <4>1. PICK s \in Seq(EventIds) : s = received[H]
        BY <3>2
      <4>2. e \in EventIds
        BY <2>1 DEF Usable
      <4>3. Len(s) \in Nat /\ Len(Append(s, e)) = Len(s) + 1 /\ Append(s, e)[Len(s) + 1] = e
        BY <4>2, AppendProperties, LenProperties
      <4>. QED
        BY <3>2, <4>1, <4>3 DEF Last
    <3>4. /\ ApplyStandEvent(StandEventWithId(e))
          /\ standEvents' = Tail(standEvents)
      BY <3>3 DEF DrainStep
    <3>. HIDE DEF k, n
    <3>5. n - k >= 1 /\ n - k \in Nat
      BY <2>3, <2>4, <3>1
    <3>6. standEvents # <<>> /\ Head(standEvents) = standEvents[1]
      BY <2>5, <3>5
    <3>7. StandEventWithId(e) = Head(standEvents)
      BY <2>5, <3>1, <3>5, <3>6 DEF StandEventWithId
    <3>8. ProcessStandEvent
      BY <1>1, <3>4, <3>6, <3>7 DEF ProcessStandEvent
    <3>9. StandsNext /\ StandsTypeOK'
      BY <1>2, <3>8, TypesKept DEF StandsNext
    <3>10. /\ Len(standEvents') = n - (k + 1)
           /\ \A i \in 1..(n - (k + 1)) : standEvents'[i] = standLog[(k + 1) + i]
      <4>1. /\ Len(Tail(standEvents)) = Len(standEvents) - 1
            /\ \A i \in 1..Len(Tail(standEvents)) : Tail(standEvents)[i] = standEvents[i + 1]
        BY <2>5, <3>6, HeadTailProperties
      <4>2. /\ n - k - 1 = n - (k + 1)
            /\ \A i \in 1..(n - (k + 1)) : i + 1 \in 1..(n - k) /\ k + (i + 1) = (k + 1) + i
        BY <2>3, <2>4
      <4>. QED
        BY <2>5, <3>4, <4>1, <4>2
    <3>11. ToCome'
      BY <2>1, <2>6, <2>9, <3>1, <3>10 DEF ToCome, n
    <3>. QED
      BY <1>2, <2>7, <2>8, <3>9, <3>11 DEF OverPushIInv
  <2>11. CASE H \notin Wants[e]
    <3>1. standsUpTo[e] = k
      <4>1. \A i \in (cursor + 1)..e : i \in (cursor + 1)..(e - 1) \/ i = e
        BY <2>2
      <4>2. \A i \in (cursor + 1)..e : ~IsStandEvent(i)
        BY <2>1, <2>11, <4>1 DEF IsStandEvent
      <4>. QED
        BY <1>2, <2>1, <2>2, <4>2 DEF LogCounts
    <3>2. received'[H] = received[H]
      BY <2>1, <2>11, HandlerAssumption
    <3>3. UNCHANGED standsVars
      BY <3>2 DEF DrainStep, standsVars, standsHistory
    <3>4. StandsTypeOK'
      BY <1>2, <3>3, TypesKept
    <3>5. ToCome'
      BY <1>2, <2>1, <2>6, <2>9, <3>1, <3>3 DEF ToCome, standsVars
    <3>. QED
      BY <1>2, <2>7, <2>8, <3>3, <3>4, <3>5 DEF OverPushIInv
  <2>. QED
    BY <2>10, <2>11
<1>. QED
  BY <1>1, <1>4, <1>5 DEF ProcessNextMessage

\* Each step is a step of the stands or none.
LEMMA OverPushStep ==
    OverPushIInv /\ [StandsOverPushNext]_overPushVars
        => OverPushIInv' /\ [StandsNext]_standsVars
<1>. SUFFICES ASSUME OverPushIInv, [StandsOverPushNext]_overPushVars
              PROVE  OverPushIInv' /\ [StandsNext]_standsVars
  OBVIOUS
<1>1. CASE PublishOther
  BY <1>1, OtherLogged DEF PublishOther
<1>2. CASE ApiStep \/ AutoStep
  BY <1>2, StandChanged
<1>3. CASE EditStep \/ TaskStep
  BY <1>3, HandlerStep
<1>4. CASE DrainStep
  BY <1>4, Drained
<1>5. CASE AttachStep
  BY <1>5, PlaceFound
<1>6. CASE SyncedStep
  BY <1>6, ToldOfSync
<1>7. CASE PushStep
  BY <1>7, TransportStep
<1>8. CASE UNCHANGED overPushVars
  <2>1. UNCHANGED <<vars, standsVars, logVars>>
    BY <1>8 DEF overPushVars
  <2>2. UNCHANGED <<published, cursor, syncTask>>
    BY <2>1 DEF vars
  <2>3. UNCHANGED <<standsAtApi, standsAttached, standEvents>> /\ StandTasks' = StandTasks
    BY <2>1 DEF standsVars, StandTasks
  <2>4. IInv' /\ StandsTypeOK'
    BY <2>1, IInvStep, TypesKept DEF OverPushIInv
  <2>5. ListAfterSync'
    BY <2>2, <2>3 DEF OverPushIInv, ListAfterSync
  <2>. QED
    BY <2>1, <2>2, <2>3, <2>4, <2>5, LogStays
<1>. QED
  BY <1>1, <1>2, <1>3, <1>4, <1>5, <1>6, <1>7, <1>8 DEF StandsOverPushNext

LEMMA OverPushAtStart == StandsOverPushInit => OverPushIInv
<1>. SUFFICES ASSUME StandsOverPushInit PROVE OverPushIInv
  OBVIOUS
<1>1. /\ Init /\ StandsInit /\ standLog = <<>> /\ standsUpTo = [id \in 0..MaxEventId |-> 0]
  BY DEF StandsOverPushInit
<1>2. published = 0 /\ cursor = -1 /\ syncTask.at = Idle
  BY <1>1, TaskRecords DEF Init, Idle
<1>3. standsUpTo \in [0..MaxEventId -> Nat] /\ 0 \in 0..MaxEventId /\ \A i \in 0..0 : i = 0
  BY <1>1, BoundAssumption
<1>4. standLog \in Seq(StandEvent) /\ Len(standLog) = 0
  BY <1>1
<1>5. LogCounts
  BY <1>1, <1>2, <1>3, <1>4 DEF LogCounts
<1>6. LogEndsWithApi
  BY <1>4 DEF LogEndsWithApi, EndWithApi
<1>7. ToCome /\ ListAfterSync
  <2>1. StandTasks = {} /\ ~standsAttached
    BY <1>1 DEF StandsInit, StandTasks, BagToSet, EmptyBag, SetToBag
  <2>. QED
    BY <1>2, <2>1 DEF ToCome, ListAfterSync, Idle, Finishing
<1>. QED
  BY <1>1, <1>5, <1>6, <1>7, IInvInit, TypesAtStart DEF OverPushIInv

LEMMA OverPushInvariant == StandsOverPushSpec => []OverPushIInv
<1>1. OverPushIInv /\ [StandsOverPushNext]_overPushVars => OverPushIInv'
  BY OverPushStep
<1>. QED
  BY <1>1, OverPushAtStart, PTL DEF StandsOverPushSpec

\* The transport of the stands' model is what the polling gives it: the log, the
\* two tasks, the flags, the queue and the calls of the processors deliver to the
\* handler what Stands says they do, and tell it of the sync when Stands does.
THEOREM StandsOverPushImplementsStands == StandsOverPushSpec => StandsSpec
<1>1. StandsOverPushInit => StandsInit
  BY DEF StandsOverPushInit
<1>2. OverPushIInv /\ [StandsOverPushNext]_overPushVars => [StandsNext]_standsVars
  BY OverPushStep
<1>. QED
  BY <1>1, <1>2, OverPushInvariant, PTL DEF StandsOverPushSpec, StandsSpec

\* And it is still the transport PushEvents describes.
THEOREM StandsOverPushKeepsPush == StandsOverPushSpec => SafetySpec
<1>1. StandsOverPushInit => Init
  BY DEF StandsOverPushInit
<1>. QED
  BY <1>1, OverPushIsPush, PTL DEF StandsOverPushSpec, SafetySpec

\* Every variable of the composition has its type.
THEOREM StandsOverPushTyped == StandsOverPushSpec => []StandsOverPushTypeOK
<1>1. OverPushIInv => StandsOverPushTypeOK
  <2>. SUFFICES ASSUME OverPushIInv PROVE StandsOverPushTypeOK
    OBVIOUS
  <2>1. TypeOK /\ StandsTypeOK /\ standLog \in Seq(StandEvent)
    BY DEF OverPushIInv, IInv, LogCounts
  <2>2. standsUpTo \in [0..MaxEventId -> 0..MaxEventId]
    <3>1. /\ standsUpTo \in [0..MaxEventId -> Nat]
          /\ \A id \in 0..MaxEventId : standsUpTo[id] <= published
      BY DEF OverPushIInv, LogCounts
    <3>2. \A id \in 0..MaxEventId : standsUpTo[id] \in 0..MaxEventId
      BY <3>1, Numbers DEF OverPushIInv
    <3>. QED
      BY <3>1, <3>2
  <2>. QED
    BY <2>1, <2>2 DEF StandsOverPushTypeOK
<1>. QED
  BY <1>1, OverPushInvariant, PTL

\* So the stands come to agree with the API over the transport they really have.
THEOREM StandsConvergeOverPush == StandsOverPushSpec => []StandsConverge
BY StandsOverPushImplementsStands, StandsConverged, PTL

\* Once the plugin has read the log to its end, an aircraft with no task left has
\* the stand the API holds, but after a failed call or an overtaken answer.
THEOREM StandsMirrored == StandsOverPushSpec => []StandsMirrorApi
<1>1. OverPushIInv /\ StandsConverge => StandsMirrorApi
  <2>. SUFFICES ASSUME OverPushIInv, StandsConverge, StandsRead,
                       NEW a \in StandAircraft \ standsAdrift,
                       \A t \in StandTasks : t.do \notin {"list", "load"} /\ t.of # a
                PROVE  standAssignments[a] = standsAtApi[a]
    BY DEF StandsMirrorApi
  <2>1. /\ cursor # -1 /\ cursor \in 0..published /\ published \in 0..published
        /\ cursor <= published
    BY Numbers DEF StandsRead, OverPushIInv
  <2>2. standsUpTo[cursor] = Len(standLog)
    BY <2>1 DEF OverPushIInv, LogCounts, StandsRead
  <2>3. Len(standEvents) = 0 /\ standEvents \in Seq(StandEvent)
    <3>1. Len(standLog) \in Nat
      BY LenProperties DEF OverPushIInv, LogCounts
    <3>. QED
      BY <2>1, <2>2, <3>1 DEF OverPushIInv, ToCome, StandsTypeOK
  <2>4. StandSettled(a)
    BY <2>3 DEF StandSettled, Range
  <2>. QED
    BY <2>4 DEF StandsConverge
<1>. QED
  BY <1>1, OverPushInvariant, StandsConvergeOverPush, PTL

===============================================================================
