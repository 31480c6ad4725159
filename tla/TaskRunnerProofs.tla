--------------------------- MODULE TaskRunnerProofs ---------------------------
(***************************************************************************)
(* Proofs about TaskRunner, for any finite set of workers and any number   *)
(* of tasks.  Liveness stays with the model checker.                       *)
(***************************************************************************)
EXTENDS TaskRunner, FiniteSetTheorems, TLAPS

\* The idle workers that are awake: each will look at the queue before it sleeps.
Awake == At(Woken) \cup At(Ready)

\* The order of the queue is inductive together with the types.
QueueInv == TypeOK /\ QueueIsBacklog /\ TakenOnce

\* Nobody sleeps in a pool that is being destroyed: the notify_all came after
\* threadsRunning was cleared, under the same lock that Sleep is decided under.
SleepersAreServed ==
    At(Waiting) # {} => threadsRunning /\ Len(asynchronousTaskQueue) <= Cardinality(Awake)

-------------------------------------------------------------------------------
(* Types, and the order of the queue.                                         *)

LEMMA PlacesDiffer ==
    /\ Ready # Waiting /\ Ready # Woken /\ Ready # Running /\ Ready # Stopped
    /\ Waiting # Woken /\ Waiting # Running /\ Waiting # Stopped
    /\ Woken # Running /\ Woken # Stopped /\ Running # Stopped
BY DEF Ready, Waiting, Woken, Running, Stopped

LEMMA GotoType ==
    ASSUME TypeOK, NEW t \in Threads,
           NEW place \in {Ready, Waiting, Woken, Running, Stopped}, Goto(t, place)
    PROVE  /\ pc' \in [Threads -> {Ready, Waiting, Woken, Running, Stopped}]
           /\ pc'[t] = place
           /\ \A u \in Threads \ {t} : pc'[u] = pc[u]
BY DEF TypeOK, Goto

LEMMA NotifyOneType ==
    ASSUME TypeOK, NotifyOne
    PROVE  pc' \in [Threads -> {Ready, Waiting, Woken, Running, Stopped}]
<1>1. CASE At(Waiting) = {}
    BY <1>1 DEF NotifyOne, TypeOK
<1>2. CASE At(Waiting) # {}
    <2>1. PICK t \in At(Waiting) : Goto(t, Woken)
        BY <1>2 DEF NotifyOne
    <2>2. t \in Threads
        BY DEF At
    <2>. QED BY <2>1, <2>2, GotoType
<1>. QED BY <1>1, <1>2

\* Taking the front of a queue that is the backlog.
LEMMA TakeFrontKeepsOrder ==
    ASSUME QueueInv, NEW t \in Threads, asynchronousTaskQueue # <<>>, TakeFront(t)
    PROVE  QueueInv'
<1>. USE MaxTasksAssumption DEF QueueInv
<1>1. /\ asynchronousTaskQueue \in Seq(1..MaxTasks)
      /\ Len(asynchronousTaskQueue) \in Nat
      /\ Len(asynchronousTaskQueue) >= 1
      /\ queued \in 0..MaxTasks /\ taken \in 0..MaxTasks
    BY DEF TypeOK
<1>2. /\ asynchronousTaskQueue' \in Seq(1..MaxTasks)
      /\ Len(asynchronousTaskQueue') = Len(asynchronousTaskQueue) - 1
      /\ \A i \in 1..Len(asynchronousTaskQueue') :
            asynchronousTaskQueue'[i] = asynchronousTaskQueue[i + 1]
    BY <1>1 DEF TakeFront
<1>3. taken' = taken + 1 /\ queued' = queued /\ taken' \in 0..MaxTasks
    BY <1>1 DEF TakeFront, QueueIsBacklog
<1>4. Head(asynchronousTaskQueue) = taken'
    BY <1>1, <1>3 DEF QueueIsBacklog
<1>5. TypeOK'
    <2>1. pc' \in [Threads -> {Ready, Waiting, Woken, Running, Stopped}]
        BY GotoType DEF TakeFront
    <2>2. currentTask' \in [Threads -> 0..MaxTasks]
        BY <1>3, <1>4 DEF TypeOK, TakeFront
    <2>3. furtherTasks' \in [Threads -> Nat]
        BY DEF TypeOK, TakeFront
    <2>. QED BY <1>1, <1>2, <1>3, <2>1, <2>2, <2>3 DEF TypeOK, TakeFront
<1>6. QueueIsBacklog'
    <2>1. Len(asynchronousTaskQueue') = queued' - taken'
        BY <1>1, <1>2, <1>3 DEF QueueIsBacklog
    <2>2. ASSUME NEW i \in 1..Len(asynchronousTaskQueue')
          PROVE  asynchronousTaskQueue'[i] = taken' + i
        BY <1>1, <1>2, <1>3 DEF QueueIsBacklog
    <2>. QED BY <2>1, <2>2 DEF QueueIsBacklog
<1>7. TakenOnce'
    <2>1. \A u \in Threads : currentTask'[u] = IF u = t THEN taken' ELSE currentTask[u]
        BY <1>4 DEF TakeFront, TypeOK
    <2>2. \A u \in Threads : currentTask[u] \in Nat /\ currentTask[u] < taken'
        BY <1>1, <1>3 DEF TakenOnce, TypeOK
    <2>. QED BY <1>1, <1>3, <2>1, <2>2 DEF TakenOnce
<1>. QED BY <1>5, <1>6, <1>7

LEMMA QueueInvInit == Init => QueueInv
<1>. SUFFICES ASSUME Init PROVE QueueInv
    OBVIOUS
<1>1. TypeOK
    BY MaxTasksAssumption DEF Init, TypeOK
<1>. QED BY <1>1 DEF Init, QueueInv, QueueIsBacklog, TakenOnce

\* A step that moves workers only.
LEMMA OnlyWorkersMove ==
    ASSUME QueueInv,
           pc' \in [Threads -> {Ready, Waiting, Woken, Running, Stopped}],
           threadsRunning' \in BOOLEAN,
           UNCHANGED <<asynchronousTaskQueue, currentTask, queued, taken, furtherTasks>>
    PROVE  QueueInv'
BY DEF QueueInv, TypeOK, QueueIsBacklog, TakenOnce

LEMMA QueueInvStep == QueueInv /\ [Next]_vars => QueueInv'
<1>. SUFFICES ASSUME QueueInv, [Next]_vars PROVE QueueInv'
    OBVIOUS
<1>. USE DEF QueueInv
<1>1. CASE QueueAsynchronousTask
    <2>. USE MaxTasksAssumption
    <2>1. /\ asynchronousTaskQueue \in Seq(1..MaxTasks)
          /\ Len(asynchronousTaskQueue) \in Nat
          /\ queued \in 0..MaxTasks /\ taken \in 0..MaxTasks
          /\ queued + 1 \in 1..MaxTasks
        BY <1>1 DEF TypeOK, QueueAsynchronousTask
    <2>2. /\ asynchronousTaskQueue' \in Seq(1..MaxTasks)
          /\ Len(asynchronousTaskQueue') = Len(asynchronousTaskQueue) + 1
          /\ \A i \in 1..Len(asynchronousTaskQueue) :
                asynchronousTaskQueue'[i] = asynchronousTaskQueue[i]
          /\ asynchronousTaskQueue'[Len(asynchronousTaskQueue) + 1] = queued + 1
        BY <1>1, <2>1 DEF QueueAsynchronousTask
    <2>3. TypeOK'
        BY <1>1, <2>1, <2>2, NotifyOneType DEF TypeOK, QueueAsynchronousTask
    <2>4. QueueIsBacklog'
        <3>1. queued' = queued + 1 /\ taken' = taken
            BY <1>1 DEF QueueAsynchronousTask
        <3>2. Len(asynchronousTaskQueue') = queued' - taken'
            BY <2>1, <2>2, <3>1 DEF QueueIsBacklog
        <3>3. ASSUME NEW i \in 1..Len(asynchronousTaskQueue')
              PROVE  asynchronousTaskQueue'[i] = taken' + i
            <4>1. CASE i \in 1..Len(asynchronousTaskQueue)
                BY <2>2, <3>1, <4>1 DEF QueueIsBacklog
            <4>2. CASE i = Len(asynchronousTaskQueue) + 1
                BY <2>1, <2>2, <3>1, <4>2 DEF QueueIsBacklog
            <4>. QED BY <2>1, <2>2, <4>1, <4>2
        <3>. QED BY <3>2, <3>3 DEF QueueIsBacklog
    <2>5. TakenOnce'
        BY <1>1 DEF QueueAsynchronousTask, TakenOnce
    <2>. QED BY <2>3, <2>4, <2>5
<1>2. CASE Destroy
    BY <1>2, OnlyWorkersMove DEF Destroy, NotifyAll, TypeOK
<1>3. ASSUME NEW t \in Threads, ProcessAsynchronousTasks(t) PROVE QueueInv'
    <2>1. CASE LeaveLoop(t)
        BY <2>1, GotoType, OnlyWorkersMove DEF LeaveLoop, TypeOK
    <2>2. CASE Sleep(t)
        BY <2>2, GotoType, OnlyWorkersMove DEF Sleep, TypeOK
    <2>3. CASE TakeAtTop(t)
        BY <2>3, TakeFrontKeepsOrder DEF TakeAtTop
    <2>4. CASE BackToTop(t)
        BY <2>4, GotoType, OnlyWorkersMove DEF BackToTop, TypeOK
    <2>5. CASE TakeAfterWait(t)
        BY <2>5, TakeFrontKeepsOrder DEF TakeAfterWait
    <2>6. CASE FinishTask(t)
        BY <2>6, GotoType, OnlyWorkersMove DEF FinishTask, TypeOK
    <2>. QED BY <1>3, <2>1, <2>2, <2>3, <2>4, <2>5, <2>6 DEF ProcessAsynchronousTasks
<1>4. ASSUME NEW t \in Threads, SpuriousWakeup(t) PROVE QueueInv'
    BY <1>4, GotoType, OnlyWorkersMove DEF SpuriousWakeup, TypeOK
<1>5. CASE Destroyed
    BY <1>5 DEF Destroyed, vars, TypeOK, QueueIsBacklog, TakenOnce
<1>6. CASE UNCHANGED vars
    BY <1>6 DEF vars, TypeOK, QueueIsBacklog, TakenOnce
<1>. QED BY <1>1, <1>2, <1>3, <1>4, <1>5, <1>6 DEF Next

LEMMA QueueInvariant == Spec => []QueueInv
BY QueueInvInit, QueueInvStep, PTL DEF Spec

\* Every variable keeps its type; above all, no worker takes from an empty deque
\* (which in the code would be undefined behaviour).
THEOREM TypeCorrect == Spec => []TypeOK
<1>1. QueueInv => TypeOK
    BY DEF QueueInv
<1>. QED BY <1>1, QueueInvariant, PTL

\* The queue hands out every task once and in the order of QueueAsynchronousTask,
\* to whichever workers.
THEOREM TasksInOrderOnce == Spec => []InOrderOnce
<1>1. QueueInv => InOrderOnce
    BY DEF QueueInv, InOrderOnce
<1>. QED BY <1>1, QueueInvariant, PTL
-------------------------------------------------------------------------------
(* No lost wakeup.                                                            *)

LEMMA AwakeIsFinite ==
    /\ IsFiniteSet(Awake)
    /\ Cardinality(Awake) \in Nat
<1>1. Awake \subseteq Threads
    BY DEF Awake, At
<1>. QED BY <1>1, ThreadsAssumption, FS_Subset, FS_CardinalityType

LEMMA WakingAddsOne ==
    ASSUME NEW t \in Threads, t \notin Awake, Awake' = Awake \cup {t}
    PROVE  Cardinality(Awake') = Cardinality(Awake) + 1
BY AwakeIsFinite, FS_AddElement

LEMMA LeavingTakesOne ==
    ASSUME NEW t \in Awake, Awake' = Awake \ {t}
    PROVE  Cardinality(Awake') = Cardinality(Awake) - 1
BY AwakeIsFinite, FS_RemoveElement

\* A worker goes from one place to another: who sleeps and who is awake then.
LEMMA GotoSets ==
    ASSUME TypeOK, NEW t \in Threads,
           NEW place \in {Ready, Waiting, Woken, Running, Stopped}, Goto(t, place)
    PROVE  /\ At(Waiting)' = IF place = Waiting THEN At(Waiting) \cup {t}
                                                ELSE At(Waiting) \ {t}
           /\ Awake' = IF place \in {Ready, Woken} THEN Awake \cup {t} ELSE Awake \ {t}
<1>1. /\ pc'[t] = place
      /\ \A u \in Threads \ {t} : pc'[u] = pc[u]
    BY GotoType
<1>2. \A u \in Threads : (pc'[u] = Waiting) <=> IF u = t THEN place = Waiting ELSE pc[u] = Waiting
    BY <1>1
<1>3. \A u \in Threads : (pc'[u] \in {Ready, Woken}) <=>
                IF u = t THEN place \in {Ready, Woken} ELSE pc[u] \in {Ready, Woken}
    BY <1>1
<1>4. At(Waiting)' = {u \in Threads : pc'[u] = Waiting}
    BY DEF At
<1>5. Awake = {u \in Threads : pc[u] \in {Ready, Woken}}
    BY DEF At, Awake
<1>6. Awake' = {u \in Threads : pc'[u] \in {Ready, Woken}}
    BY DEF At, Awake
<1>7. At(Waiting)' = IF place = Waiting THEN At(Waiting) \cup {t} ELSE At(Waiting) \ {t}
    BY <1>2, <1>4 DEF At
<1>8. Awake' = IF place \in {Ready, Woken} THEN Awake \cup {t} ELSE Awake \ {t}
    BY <1>3, <1>5, <1>6
<1>. QED BY <1>7, <1>8

\* A worker that was awake takes the front of the queue.
LEMMA TakeFrontServes ==
    ASSUME QueueInv, SleepersAreServed, NEW t \in Awake,
           asynchronousTaskQueue # <<>>, TakeFront(t)
    PROVE  SleepersAreServed'
<1>1. t \in Threads /\ t \notin At(Waiting)
    BY PlacesDiffer DEF Awake, At
<1>2. At(Waiting)' = At(Waiting) /\ Awake' = Awake \ {t}
    BY <1>1, GotoSets, PlacesDiffer DEF TakeFront, QueueInv
<1>3. Len(asynchronousTaskQueue') = Len(asynchronousTaskQueue) - 1
    BY DEF TakeFront, QueueInv, TypeOK
<1>4. Len(asynchronousTaskQueue) \in Nat
    BY DEF QueueInv, TypeOK
<1>5. threadsRunning' = threadsRunning
    BY DEF TakeFront
<1>6. Cardinality(Awake') = Cardinality(Awake) - 1
    BY <1>2, LeavingTakesOne
<1>7. Cardinality(Awake) \in Nat
    BY AwakeIsFinite
<1>. QED BY <1>2, <1>3, <1>4, <1>5, <1>6, <1>7 DEF SleepersAreServed

\* A worker that was neither asleep nor awake, or a sleeper, joins those awake.
LEMMA JoiningServes ==
    ASSUME QueueInv, SleepersAreServed, NEW t \in Threads, NEW place \in {Ready, Woken},
           Goto(t, place), UNCHANGED <<asynchronousTaskQueue, threadsRunning>>
    PROVE  SleepersAreServed'
<1>1. At(Waiting)' = At(Waiting) \ {t} /\ Awake' = Awake \cup {t}
    BY GotoSets, PlacesDiffer DEF QueueInv
<1>2. Cardinality(Awake') >= Cardinality(Awake)
    <2>1. CASE t \in Awake
        <3>1. Awake' = Awake
            BY <1>1, <2>1
        <3>. QED BY <3>1, AwakeIsFinite
    <2>2. CASE t \notin Awake
        BY <1>1, <2>2, WakingAddsOne, AwakeIsFinite
    <2>. QED BY <2>1, <2>2
<1>3. Cardinality(Awake') \in Nat
    BY AwakeIsFinite, <1>1, FS_AddElement, FS_CardinalityType
<1>4. Len(asynchronousTaskQueue) \in Nat
    BY DEF QueueInv, TypeOK
<1>. QED BY <1>1, <1>2, <1>3, <1>4, AwakeIsFinite DEF SleepersAreServed

LEMMA SleepersAreServedStep ==
    QueueInv /\ SleepersAreServed /\ [Next]_vars => SleepersAreServed'
<1>. SUFFICES ASSUME QueueInv, SleepersAreServed, [Next]_vars PROVE SleepersAreServed'
    OBVIOUS
<1>0. Len(asynchronousTaskQueue) \in Nat
    BY DEF QueueInv, TypeOK
<1>1. CASE QueueAsynchronousTask
    <2>1. /\ Len(asynchronousTaskQueue') = Len(asynchronousTaskQueue) + 1
          /\ threadsRunning' = threadsRunning
        <3>1. asynchronousTaskQueue \in Seq(1..MaxTasks) /\ queued + 1 \in 1..MaxTasks
            BY <1>1, MaxTasksAssumption DEF QueueAsynchronousTask, QueueInv, TypeOK
        <3>. QED BY <1>1, <3>1 DEF QueueAsynchronousTask
    <2>2. CASE At(Waiting) = {}
        <3>1. pc' = pc
            BY <1>1, <2>2 DEF QueueAsynchronousTask, NotifyOne
        <3>. QED BY <2>2, <3>1 DEF SleepersAreServed, At
    <2>3. CASE At(Waiting) # {}
        <3>1. PICK t \in At(Waiting) : Goto(t, Woken)
            BY <1>1, <2>3 DEF QueueAsynchronousTask, NotifyOne
        <3>2. t \in Threads /\ t \notin Awake
            BY PlacesDiffer DEF At, Awake
        <3>3. Awake' = Awake \cup {t}
            BY <3>1, <3>2, GotoSets DEF QueueInv
        <3>4. Cardinality(Awake') = Cardinality(Awake) + 1
            BY <3>2, <3>3, WakingAddsOne
        <3>. QED BY <1>0, <2>1, <2>3, <3>4, AwakeIsFinite DEF SleepersAreServed
    <2>. QED BY <2>2, <2>3
<1>2. CASE Destroy
    <2>1. At(Waiting)' = {}
        BY <1>2, PlacesDiffer DEF Destroy, NotifyAll, At
    <2>. QED BY <2>1 DEF SleepersAreServed
<1>3. ASSUME NEW t \in Threads, ProcessAsynchronousTasks(t) PROVE SleepersAreServed'
    <2>1. CASE LeaveLoop(t)
        <3>1. At(Waiting) = {} /\ ~threadsRunning
            BY <2>1 DEF LeaveLoop, SleepersAreServed
        <3>2. At(Waiting)' = {}
            BY <2>1, <3>1, GotoSets, PlacesDiffer DEF LeaveLoop, QueueInv
        <3>. QED BY <3>2 DEF SleepersAreServed
    <2>2. CASE Sleep(t)
        <3>1. /\ Len(asynchronousTaskQueue') = 0
              /\ threadsRunning'
            BY <2>2 DEF Sleep
        <3>2. Awake' = Awake \ {t}
            BY <2>2, GotoSets, PlacesDiffer DEF Sleep, QueueInv
        <3>3. Cardinality(Awake') \in Nat
            BY <3>2, AwakeIsFinite, FS_RemoveElement, FS_CardinalityType
        <3>. QED BY <3>1, <3>3 DEF SleepersAreServed
    <2>3. CASE TakeAtTop(t)
        <3>1. t \in Awake
            BY <2>3 DEF TakeAtTop, Awake, At
        <3>. QED BY <2>3, <3>1, TakeFrontServes DEF TakeAtTop
    <2>4. CASE BackToTop(t)
        BY <2>4, JoiningServes DEF BackToTop
    <2>5. CASE TakeAfterWait(t)
        <3>1. t \in Awake
            BY <2>5 DEF TakeAfterWait, Awake, At
        <3>. QED BY <2>5, <3>1, TakeFrontServes DEF TakeAfterWait
    <2>6. CASE FinishTask(t)
        BY <2>6, JoiningServes DEF FinishTask
    <2>. QED BY <1>3, <2>1, <2>2, <2>3, <2>4, <2>5, <2>6 DEF ProcessAsynchronousTasks
<1>4. ASSUME NEW t \in Threads, SpuriousWakeup(t) PROVE SleepersAreServed'
    BY <1>4, JoiningServes DEF SpuriousWakeup
<1>5. CASE Destroyed \/ UNCHANGED vars
    BY <1>5 DEF Destroyed, vars, SleepersAreServed, At, Awake
<1>. QED BY <1>1, <1>2, <1>3, <1>4, <1>5 DEF Next

LEMMA SleepersAreServedInvariant == Spec => []SleepersAreServed
<1>1. Init => SleepersAreServed
    BY PlacesDiffer DEF Init, SleepersAreServed, At
<1>. QED BY <1>1, SleepersAreServedStep, QueueInvariant, PTL DEF Spec

\* While a worker sleeps on the condition variable, every queued task has an
\* awake idle worker of its own: no notify_one is ever lost.
THEOREM NoWakeupIsLost == Spec => []NoLostWakeup
<1>1. SleepersAreServed => NoLostWakeup
    BY DEF SleepersAreServed, NoLostWakeup, Awake
<1>. QED BY <1>1, SleepersAreServedInvariant, PTL

-------------------------------------------------------------------------------
(* What is taken after the stop.                                              *)

\* Before the stop nothing counts; after it nobody sleeps, so that nobody is woken
\* again, and a worker yet to come back from the wait has taken nothing.
FurtherTasksRight ==
    \A t \in Threads :
        /\ threadsRunning => furtherTasks[t] = 0
        /\ pc[t] = Woken => furtherTasks[t] = 0
        /\ furtherTasks[t] <= 1

\* A worker goes to a place where it is not woken, or it was woken already.
LEMMA GoingCountsNothing ==
    ASSUME TypeOK, FurtherTasksRight, NEW t \in Threads,
           NEW place \in {Ready, Waiting, Woken, Running, Stopped}, Goto(t, place),
           place = Woken => threadsRunning, UNCHANGED <<threadsRunning, furtherTasks>>
    PROVE  FurtherTasksRight'
<1>1. \A u \in Threads : pc'[u] = Woken => pc[u] = Woken \/ threadsRunning
    BY GotoType
<1>. QED BY <1>1 DEF FurtherTasksRight

LEMMA FurtherTasksStep ==
    QueueInv /\ SleepersAreServed /\ FurtherTasksRight /\ [Next]_vars => FurtherTasksRight'
<1>. SUFFICES ASSUME QueueInv, SleepersAreServed, FurtherTasksRight, [Next]_vars
              PROVE  FurtherTasksRight'
    OBVIOUS
<1>0. TypeOK
    BY DEF QueueInv
<1>1. ASSUME NEW t \in Threads, pc[t] = Waiting PROVE threadsRunning
    BY <1>1 DEF SleepersAreServed, At
<1>2. CASE QueueAsynchronousTask
    <2>1. CASE At(Waiting) = {}
        <3>1. pc' = pc
            BY <1>2, <2>1 DEF QueueAsynchronousTask, NotifyOne
        <3>. QED BY <1>2, <3>1 DEF QueueAsynchronousTask, FurtherTasksRight
    <2>2. CASE At(Waiting) # {}
        <3>1. PICK t \in Threads : pc[t] = Waiting /\ Goto(t, Woken)
            BY <1>2, <2>2 DEF QueueAsynchronousTask, NotifyOne, At
        <3>2. UNCHANGED <<threadsRunning, furtherTasks>>
            BY <1>2 DEF QueueAsynchronousTask
        <3>. QED BY <1>0, <1>1, <3>1, <3>2, GoingCountsNothing
    <2>. QED BY <2>1, <2>2
<1>3. CASE Destroy
    <2>1. \A t \in Threads : furtherTasks'[t] = 0
        BY <1>3 DEF Destroy, FurtherTasksRight
    <2>. QED BY <2>1 DEF FurtherTasksRight
<1>4. ASSUME NEW t \in Threads, TakeFront(t), threadsRunning \/ pc[t] = Woken
      PROVE  FurtherTasksRight'
    <2>1. /\ \A u \in Threads : pc'[u] = Woken => u # t /\ pc[u] = Woken
          /\ threadsRunning' = threadsRunning
        BY <1>0, <1>4, GotoType, PlacesDiffer DEF TakeFront
    <2>2. furtherTasks[t] = 0
        BY <1>4 DEF FurtherTasksRight
    <2>3. \A u \in Threads :
             furtherTasks'[u] = IF u = t /\ ~threadsRunning THEN 1 ELSE furtherTasks[u]
        BY <1>0, <1>4, <2>2 DEF TakeFront, TypeOK
    <2>. QED BY <2>1, <2>2, <2>3 DEF FurtherTasksRight
<1>5. ASSUME NEW t \in Threads, ProcessAsynchronousTasks(t) PROVE FurtherTasksRight'
    <2>1. CASE LeaveLoop(t)
        BY <1>0, <2>1, GoingCountsNothing, PlacesDiffer DEF LeaveLoop
    <2>2. CASE Sleep(t)
        BY <1>0, <2>2, GoingCountsNothing, PlacesDiffer DEF Sleep
    <2>3. CASE TakeAtTop(t)
        BY <1>4, <2>3 DEF TakeAtTop
    <2>4. CASE BackToTop(t)
        BY <1>0, <2>4, GoingCountsNothing, PlacesDiffer DEF BackToTop
    <2>5. CASE TakeAfterWait(t)
        BY <1>4, <2>5 DEF TakeAfterWait
    <2>6. CASE FinishTask(t)
        BY <1>0, <2>6, GoingCountsNothing, PlacesDiffer DEF FinishTask
    <2>. QED BY <1>5, <2>1, <2>2, <2>3, <2>4, <2>5, <2>6 DEF ProcessAsynchronousTasks
<1>6. ASSUME NEW t \in Threads, SpuriousWakeup(t) PROVE FurtherTasksRight'
    BY <1>0, <1>1, <1>6, GoingCountsNothing DEF SpuriousWakeup
<1>7. CASE Destroyed \/ UNCHANGED vars
    BY <1>7 DEF Destroyed, vars, FurtherTasksRight
<1>. QED BY <1>2, <1>3, <1>5, <1>6, <1>7 DEF Next

\* After ~TaskRunner has cleared threadsRunning each worker takes at most one more
\* task, however many are queued.
THEOREM StopTakesOneEach == Spec => []OneFurtherTaskEach
<1>1. Init => FurtherTasksRight
    BY DEF Init, FurtherTasksRight
<1>2. FurtherTasksRight => OneFurtherTaskEach
    BY DEF FurtherTasksRight, OneFurtherTaskEach
<1>. QED BY <1>1, <1>2, FurtherTasksStep, QueueInvariant, SleepersAreServedInvariant, PTL DEF Spec
===============================================================================
