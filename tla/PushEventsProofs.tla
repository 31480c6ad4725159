--------------------------- MODULE PushEventsProofs ---------------------------
(***************************************************************************)
(* Proofs about PushEvents, for any subscriptions, any set of refused      *)
(* events and any bound on the ids: the queue between the threads is the   *)
(* backlog, polling implements EventStream, and the instances that do not  *)
(* poll miss nothing of the stream.  Liveness stays with the model checker.*)
(***************************************************************************)
EXTENDS PushProxy, SequenceTheorems, TLAPS

\* The flags admit one task of each kind at a time, and a sync task is only about
\* until it has said where in the log we are.
OneTaskEach ==
    /\ syncTask.at # Idle => syncInProgress
    /\ syncTask.at \in {Called, Answered} => lastEventId = -1
    /\ syncTask.at = Answered => syncTask.id \in 0..published
    /\ fetchTask.at # Idle => updateInProgress

\* Before the sync there is nothing to fetch and nothing to hand out.
NothingBeforeSync ==
    /\ lastEventId = -1 => cursor = -1 /\ fetchTask.at = Idle /\ inboundMessages = <<>>
    /\ cursor = -1 => lastEventId = -1
    /\ cursor <= lastEventId /\ lastEventId <= published

\* The loop over an answer has not passed a usable event without queueing it.
PushingInOrder ==
    fetchTask.at = Pushing =>
       /\ lastEventId < fetchTask.next
       /\ fetchTask.next <= fetchTask.upTo + 1
       /\ fetchTask.upTo <= published
       /\ \A e \in Usable : lastEventId < e => fetchTask.next <= e

QueuedAreValid ==
    \A i \in 1..Len(inboundMessages) : inboundMessages[i] \notin Malformed

IInv == /\ TypeOK /\ InboundIsBacklog
        /\ OneTaskEach /\ NothingBeforeSync /\ PushingInOrder /\ QueuedAreValid

-------------------------------------------------------------------------------

LEMMA IInvInit == Init => IInv
<1>. SUFFICES ASSUME Init PROVE IInv
    OBVIOUS
<1>. USE BoundAssumption DEF Init, NoSync, NoFetch, Idle, Called, Answered, Pushing, Finishing
<1>1. TypeOK
    <2>1. <<>> \in Seq(EventIds)
        OBVIOUS
    <2>2. /\ received \in [Processors -> Seq(EventIds)]
          /\ inboundMessages \in Seq(EventIds)
        BY <2>1
    <2>3. /\ published \in 0..MaxEventId
          /\ lastEventId \in -1..MaxEventId /\ cursor \in -1..MaxEventId
        OBVIOUS
    <2>4. syncTask \in [at : {Idle, Called, Answered, Finishing}, id : -1..MaxEventId]
        OBVIOUS
    <2>5. fetchTask \in [at : {Idle, Called, Pushing, Finishing},
                         next : 0..(MaxEventId + 1), upTo : 0..MaxEventId]
        OBVIOUS
    <2>. QED BY <2>2, <2>3, <2>4, <2>5 DEF TypeOK
<1>2. InboundIsBacklog /\ QueuedAreValid
    BY DEF InboundIsBacklog, QueuedAreValid
<1>3. OneTaskEach /\ NothingBeforeSync /\ PushingInOrder
    BY DEF OneTaskEach, NothingBeforeSync, PushingInOrder
<1>. QED BY <1>1, <1>2, <1>3 DEF IInv

\* The records of the tasks, spelt out.
LEMMA TaskRecords ==
    /\ NoSync \in [at : {Idle}, id : {-1}]
    /\ NoFetch \in [at : {Idle}, next : {1}, upTo : {0}]
    /\ [NoSync EXCEPT !.at = Called] = [at |-> Called, id |-> -1]
    /\ \A place : [NoFetch EXCEPT !.at = place] = [at |-> place, next |-> 1, upTo |-> 0]
<1>1. NoSync \in [at : {Idle}, id : {-1}]
    BY DEF NoSync
<1>2. NoFetch \in [at : {Idle}, next : {1}, upTo : {0}]
    BY DEF NoFetch
<1>3. [NoSync EXCEPT !.at = Called] = [at |-> Called, id |-> -1]
    BY <1>1
<1>4. \A place : [NoFetch EXCEPT !.at = place] = [at |-> place, next |-> 1, upTo |-> 0]
    BY <1>2
<1>. QED BY <1>1, <1>2, <1>3, <1>4

\* Steps that leave the queue and both ends of it alone.
LEMMA QueueStays ==
    ASSUME InboundIsBacklog, QueuedAreValid,
           UNCHANGED <<inboundMessages, lastEventId, cursor>>
    PROVE  InboundIsBacklog' /\ QueuedAreValid'
BY DEF InboundIsBacklog, QueuedAreValid

LEMMA SyncStep ==
    ASSUME IInv, \/ SyncEvents \/ SyncAnswered \/ SyncInvalid \/ SyncFailed \/ SyncFinished
    PROVE  IInv'
<1>. USE TaskRecords DEF Idle, Called, Answered, Pushing, Finishing
<1>1. UNCHANGED <<inboundMessages, lastEventId, cursor, fetchTask, published, received, draining>>
    BY DEF SyncEvents, SyncAnswered, SyncInvalid, SyncFailed, SyncFinished
<1>2. InboundIsBacklog' /\ QueuedAreValid'
    BY <1>1, QueueStays DEF IInv
<1>3. TypeOK'
    <2>1. syncTask' \in [at : {Idle, Called, Answered, Finishing}, id : -1..MaxEventId]
        BY BoundAssumption
           DEF IInv, TypeOK, SyncEvents, SyncAnswered, SyncInvalid, SyncFailed, SyncFinished
    <2>2. {syncInProgress', updateInProgress', polledRecently'} \subseteq BOOLEAN
        BY DEF IInv, TypeOK, SyncEvents, SyncAnswered, SyncInvalid, SyncFailed, SyncFinished
    <2>. QED BY <1>1, <2>1, <2>2 DEF IInv, TypeOK
<1>4. OneTaskEach'
    BY <1>1 DEF IInv, OneTaskEach, NothingBeforeSync, TypeOK,
                SyncEvents, SyncAnswered, SyncInvalid, SyncFailed, SyncFinished
<1>5. NothingBeforeSync' /\ PushingInOrder'
    BY <1>1 DEF IInv, NothingBeforeSync, PushingInOrder
<1>. QED BY <1>2, <1>3, <1>4, <1>5 DEF IInv

LEMMA FetchStep ==
    ASSUME IInv, \/ GetLatestEvents \/ FetchAnswered \/ FetchInvalid \/ FetchFailed
                 \/ PushedAll \/ FetchFinished
    PROVE  IInv'
<1>. USE TaskRecords DEF Idle, Called, Answered, Pushing, Finishing
<1>1. UNCHANGED <<inboundMessages, lastEventId, cursor, syncTask, syncInProgress,
                  published, received, draining>>
    BY DEF GetLatestEvents, FetchAnswered, FetchInvalid, FetchFailed, PushedAll, FetchFinished
<1>2. InboundIsBacklog' /\ QueuedAreValid'
    BY <1>1, QueueStays DEF IInv
<1>3. TypeOK'
    <2>1. fetchTask' \in [at : {Idle, Called, Pushing, Finishing},
                          next : 0..(MaxEventId + 1), upTo : 0..MaxEventId]
        <3>1. CASE FetchAnswered
            <4>1. fetchTask' = [at |-> Pushing, next |-> lastEventId + 1, upTo |-> published]
                BY <3>1 DEF FetchAnswered
            <4>2. lastEventId + 1 \in 0..(MaxEventId + 1) /\ published \in 0..MaxEventId
                BY BoundAssumption DEF IInv, TypeOK
            <4>. QED BY <4>1, <4>2
        <3>2. CASE GetLatestEvents \/ FetchInvalid \/ FetchFailed \/ PushedAll \/ FetchFinished
            <4>1. fetchTask' \in [at : {Idle, Called, Finishing}, next : {1}, upTo : {0}]
                BY <3>2 DEF GetLatestEvents, FetchInvalid, FetchFailed, PushedAll, FetchFinished
            <4>. QED BY <4>1, BoundAssumption
        <3>. QED BY <3>1, <3>2
    <2>2. {updateInProgress', polledRecently'} \subseteq BOOLEAN
        BY DEF IInv, TypeOK, GetLatestEvents, FetchAnswered, FetchInvalid, FetchFailed,
               PushedAll, FetchFinished
    <2>. QED BY <1>1, <2>1, <2>2 DEF IInv, TypeOK
<1>4. OneTaskEach' /\ NothingBeforeSync'
    BY <1>1 DEF IInv, OneTaskEach, NothingBeforeSync, TypeOK,
                GetLatestEvents, FetchAnswered, FetchInvalid, FetchFailed, PushedAll, FetchFinished
<1>5. PushingInOrder'
    <2>1. CASE FetchAnswered
        <3>1. fetchTask' = [at |-> Pushing, next |-> lastEventId + 1, upTo |-> published]
            BY <2>1 DEF FetchAnswered
        <3>2. lastEventId <= published /\ lastEventId \in Int /\ published \in Int
            BY DEF IInv, NothingBeforeSync, TypeOK
        <3>3. \A e \in Usable : e \in Int
            BY DEF Usable, EventIds
        <3>. QED BY <1>1, <3>1, <3>2, <3>3 DEF PushingInOrder
    <2>2. CASE GetLatestEvents \/ FetchInvalid \/ FetchFailed \/ PushedAll \/ FetchFinished
        <3>1. fetchTask'.at # Pushing
            BY <2>2 DEF GetLatestEvents, FetchInvalid, FetchFailed, PushedAll, FetchFinished
        <3>. QED BY <3>1 DEF PushingInOrder
    <2>. QED BY <2>1, <2>2
<1>. QED BY <1>2, <1>3, <1>4, <1>5 DEF IInv

LEMMA OtherStep ==
    ASSUME IInv, \/ Publish \/ PollIntervalPasses \/ StartDraining \/ StopDraining
                 \/ UNCHANGED vars
    PROVE  IInv'
<1>. USE DEF Idle, Called, Answered, Pushing, Finishing
<1>1. /\ UNCHANGED <<inboundMessages, lastEventId, cursor, syncTask, syncInProgress,
                     fetchTask, updateInProgress, received>>
      /\ published' \in 0..MaxEventId /\ published <= published'
      /\ polledRecently' \in BOOLEAN /\ draining' \in BOOLEAN
    <2>1. /\ published \in 0..MaxEventId
          /\ polledRecently \in BOOLEAN /\ draining \in BOOLEAN
        BY DEF IInv, TypeOK
    <2>2. UNCHANGED <<inboundMessages, lastEventId, cursor, syncTask, syncInProgress,
                      fetchTask, updateInProgress, received>>
        BY DEF Publish, PollIntervalPasses, StartDraining, StopDraining, vars
    <2>3. published' \in 0..MaxEventId /\ published <= published'
        BY <2>1, BoundAssumption
           DEF Publish, PollIntervalPasses, StartDraining, StopDraining, vars
    <2>4. polledRecently' \in BOOLEAN
        BY <2>1 DEF Publish, PollIntervalPasses, StartDraining, StopDraining, vars
    <2>5. draining' \in BOOLEAN
        BY <2>1 DEF Publish, PollIntervalPasses, StartDraining, StopDraining, vars
    <2>. QED BY <2>2, <2>3, <2>4, <2>5
<1>2. InboundIsBacklog' /\ QueuedAreValid'
    BY <1>1, QueueStays DEF IInv
<1>3. TypeOK'
    BY <1>1 DEF IInv, TypeOK
<1>4. OneTaskEach' /\ NothingBeforeSync' /\ PushingInOrder'
    BY <1>1 DEF IInv, OneTaskEach, NothingBeforeSync, PushingInOrder, TypeOK
<1>. QED BY <1>2, <1>3, <1>4 DEF IInv

\* From here on the queue starts at the event the API told us of.
LEMMA SyncAppliedStep == IInv /\ SyncApplied => IInv'
<1>. SUFFICES ASSUME IInv, SyncApplied PROVE IInv'
    OBVIOUS
<1>. USE DEF Idle, Called, Answered, Pushing, Finishing
<1>1. /\ syncTask.at = Answered /\ lastEventId' = syncTask.id /\ cursor' = syncTask.id
      /\ UNCHANGED <<published, syncInProgress, updateInProgress, polledRecently, fetchTask,
                     inboundMessages, draining, received>>
    BY DEF SyncApplied
<1>2. /\ syncTask' \in [at : {Finishing}, id : -1..MaxEventId]
      /\ syncTask.id \in 0..published /\ published \in 0..MaxEventId
      /\ syncInProgress
    BY <1>1 DEF SyncApplied, IInv, OneTaskEach, TypeOK
<1>3. fetchTask.at = Idle /\ inboundMessages = <<>>
    BY <1>1 DEF IInv, OneTaskEach, NothingBeforeSync
<1>4. TypeOK'
    BY <1>1, <1>2, BoundAssumption DEF IInv, TypeOK
<1>5. InboundIsBacklog' /\ QueuedAreValid'
    <2>1. \A e \in Usable : e \in Int
        BY DEF Usable, EventIds
    <2>. QED BY <1>1, <1>2, <1>3, <2>1 DEF InboundIsBacklog, QueuedAreValid
<1>6. OneTaskEach' /\ NothingBeforeSync' /\ PushingInOrder'
    BY <1>1, <1>2, <1>3 DEF OneTaskEach, NothingBeforeSync, PushingInOrder
<1>. QED BY <1>4, <1>5, <1>6 DEF IInv

LEMMA PushMessageStep == IInv /\ PushMessage => IInv'
<1>. SUFFICES ASSUME IInv, PushMessage PROVE IInv'
    OBVIOUS
<1>. USE DEF Idle, Called, Answered, Pushing, Finishing
<1>. DEFINE id == fetchTask.next
<1>1. /\ fetchTask.at = Pushing /\ id <= fetchTask.upTo
      /\ fetchTask' = [fetchTask EXCEPT !.next = id + 1]
      /\ UNCHANGED <<published, syncInProgress, updateInProgress, polledRecently, syncTask,
                     draining, received, cursor>>
    BY DEF PushMessage
<1>2. /\ id \in Int /\ lastEventId \in Int /\ cursor \in Int /\ published \in Int
      /\ fetchTask.upTo \in Int /\ MaxEventId \in Nat
      /\ lastEventId < id /\ id <= published /\ published <= MaxEventId
      /\ lastEventId # -1 /\ cursor # -1 /\ lastEventId >= 0 /\ id \in EventIds
    BY <1>1, BoundAssumption
       DEF IInv, TypeOK, PushingInOrder, NothingBeforeSync, EventIds
<1>3. /\ fetchTask' \in [at : {Idle, Called, Pushing, Finishing},
                          next : 0..(MaxEventId + 1), upTo : 0..MaxEventId]
      /\ fetchTask'.next = id + 1 /\ fetchTask'.upTo = fetchTask.upTo
      /\ fetchTask'.at = Pushing
    BY <1>1, <1>2 DEF IInv, TypeOK
<1>4. syncTask.at \notin {Called, Answered}
    BY <1>2 DEF IInv, OneTaskEach
<1>5. \A e \in Usable : e \in Int /\ (lastEventId < e => id <= e)
    BY <1>1 DEF IInv, PushingInOrder, Usable, EventIds
<1>6. CASE id \in Malformed
    <2>1. UNCHANGED <<inboundMessages, lastEventId>>
        BY <1>6 DEF PushMessage
    <2>2. TypeOK'
        BY <1>1, <1>3, <2>1 DEF IInv, TypeOK
    <2>3. InboundIsBacklog' /\ QueuedAreValid'
        BY <1>1, <2>1, QueueStays DEF IInv
    <2>4. OneTaskEach' /\ NothingBeforeSync'
        BY <1>1, <1>2, <1>3, <1>4, <2>1 DEF IInv, OneTaskEach, NothingBeforeSync
    <2>5. PushingInOrder'
        <3>1. \A e \in Usable : e # id
            BY <1>6 DEF Usable
        <3>2. \A e \in Usable : lastEventId < e => id + 1 <= e
            BY <1>2, <1>5, <3>1
        <3>. QED BY <1>1, <1>2, <1>3, <2>1, <3>2 DEF IInv, PushingInOrder
    <2>. QED BY <2>2, <2>3, <2>4, <2>5 DEF IInv
<1>7. CASE id \notin Malformed
    <2>. DEFINE n == Len(inboundMessages)
    <2>1. inboundMessages' = Append(inboundMessages, id) /\ lastEventId' = id
        BY <1>2, <1>7 DEF PushMessage
    <2>2. /\ inboundMessages \in Seq(EventIds) /\ n \in Nat
        BY DEF IInv, TypeOK
    <2>3. /\ inboundMessages' \in Seq(EventIds) /\ Len(inboundMessages') = n + 1
          /\ \A i \in 1..n : inboundMessages'[i] = inboundMessages[i]
          /\ inboundMessages'[n + 1] = id
        BY <1>2, <2>1, <2>2
    <2>4. /\ \A i \in 1..n : /\ cursor < inboundMessages[i] /\ inboundMessages[i] <= lastEventId
                             /\ inboundMessages[i] \in Int
          /\ \A i, j \in 1..n : i < j => inboundMessages[i] < inboundMessages[j]
          /\ \A e \in Usable : (cursor < e /\ e <= lastEventId) =>
                \E i \in 1..n : inboundMessages[i] = e
        BY <1>2, <2>2 DEF IInv, InboundIsBacklog, EventIds
    <2>5. cursor <= lastEventId
        BY DEF IInv, NothingBeforeSync
    <2>6. TypeOK'
        BY <1>1, <1>2, <1>3, <2>1, <2>3 DEF IInv, TypeOK, EventIds
    <2>7. InboundIsBacklog'
        <3>1. ASSUME NEW i \in 1..(n + 1), NEW j \in 1..(n + 1), i < j
              PROVE  inboundMessages'[i] < inboundMessages'[j]
            <4>1. i \in 1..n
                BY <2>2, <3>1
            <4>2. CASE j \in 1..n
                BY <2>3, <2>4, <3>1, <4>1, <4>2
            <4>3. CASE j = n + 1
                BY <1>2, <2>3, <2>4, <4>1, <4>3
            <4>. QED BY <2>2, <4>2, <4>3
        <3>2. ASSUME NEW i \in 1..(n + 1)
              PROVE  cursor < inboundMessages'[i] /\ inboundMessages'[i] <= id
            <4>1. CASE i \in 1..n
                BY <1>2, <2>3, <2>4, <4>1
            <4>2. CASE i = n + 1
                BY <1>2, <2>3, <2>5, <4>2
            <4>. QED BY <2>2, <4>1, <4>2
        <3>3. ASSUME NEW e \in Usable, cursor < e, e <= id
              PROVE  \E i \in 1..(n + 1) : inboundMessages'[i] = e
            <4>1. CASE e <= lastEventId
                BY <2>2, <2>3, <2>4, <3>3, <4>1
            <4>2. CASE lastEventId < e
                <5>1. e = id
                    BY <1>2, <1>5, <3>3, <4>2
                <5>. QED BY <2>2, <2>3, <5>1
            <4>. QED BY <1>2, <1>5, <4>1, <4>2
        <3>. QED BY <1>1, <2>1, <2>3, <3>1, <3>2, <3>3 DEF InboundIsBacklog
    <2>8. QueuedAreValid'
        <3>1. ASSUME NEW i \in 1..(n + 1) PROVE inboundMessages'[i] \notin Malformed
            <4>1. CASE i \in 1..n
                BY <2>3, <4>1 DEF IInv, QueuedAreValid
            <4>2. CASE i = n + 1
                BY <1>7, <2>3, <4>2
            <4>. QED BY <2>2, <4>1, <4>2
        <3>. QED BY <2>3, <3>1 DEF QueuedAreValid
    <2>9. OneTaskEach' /\ NothingBeforeSync'
        BY <1>1, <1>2, <1>3, <1>4, <2>1, <2>5 DEF IInv, OneTaskEach, NothingBeforeSync
    <2>10. PushingInOrder'
        <3>1. \A e \in Usable : id < e => id + 1 <= e
            BY <1>2, <1>5
        <3>. QED BY <1>1, <1>2, <1>3, <2>1, <3>1 DEF IInv, PushingInOrder
    <2>. QED BY <2>6, <2>7, <2>8, <2>9, <2>10 DEF IInv
<1>. QED BY <1>6, <1>7

\* Handing out the head of the queue.
LEMMA QueueFacts ==
    ASSUME IInv, ProcessNextMessage
    PROVE  LET e == Head(inboundMessages)
               n == Len(inboundMessages)
           IN  /\ n \in Nat /\ n >= 1 /\ inboundMessages \in Seq(EventIds)
               /\ e = inboundMessages[1] /\ e \in EventIds /\ e \notin Malformed
               /\ cursor < e /\ e <= lastEventId /\ cursor # -1
               /\ cursor \in Int /\ lastEventId \in Int /\ published \in Int
               /\ lastEventId <= published
               /\ \A i \in 1..n : inboundMessages[i] \in Int /\ e <= inboundMessages[i]
               /\ inboundMessages' = Tail(inboundMessages)
<1>1. /\ inboundMessages # <<>> /\ inboundMessages \in Seq(EventIds)
      /\ inboundMessages' = Tail(inboundMessages)
    BY DEF ProcessNextMessage, IInv, TypeOK
<1>2. /\ Len(inboundMessages) \in Nat /\ Len(inboundMessages) >= 1
      /\ Head(inboundMessages) = inboundMessages[1] /\ inboundMessages[1] \in EventIds
    BY <1>1
<1>3. /\ cursor < inboundMessages[1] /\ inboundMessages[1] <= lastEventId
      /\ inboundMessages[1] \notin Malformed
    BY <1>2 DEF IInv, InboundIsBacklog, QueuedAreValid
<1>4. \A i \in 1..Len(inboundMessages) : inboundMessages[i] \in Int
    <2>1. \A i \in 1..Len(inboundMessages) : inboundMessages[i] \in EventIds
        BY <1>1
    <2>2. EventIds \subseteq Int
        BY DEF EventIds
    <2>. QED BY <2>1, <2>2
<1>5. \A i \in 1..Len(inboundMessages) : inboundMessages[1] <= inboundMessages[i]
    BY <1>2, <1>4 DEF IInv, InboundIsBacklog
<1>6. /\ cursor \in Int /\ lastEventId \in Int /\ published \in Int
      /\ lastEventId <= published
    BY DEF IInv, TypeOK, NothingBeforeSync
<1>7. cursor # -1
    BY <1>1 DEF IInv, NothingBeforeSync
<1>. QED BY <1>1, <1>2, <1>3, <1>4, <1>5, <1>6, <1>7

\* calledProcessors: three rounds of calls reach every subscriber once.
LEMMA ProcessEventOnce ==
    ASSUME NEW calls \in [Processors -> Seq(EventIds)], NEW e \in EventIds
    PROVE  ProcessEvent(calls, e) =
              [p \in Processors |-> IF p \in Wants[e] THEN Append(calls[p], e) ELSE calls[p]]
<1>1. Wants[e] = ByChannel[e] \cup ByEvent[e] \cup ByAll
    BY DEF Wants
<1>. QED BY <1>1 DEF ProcessEvent, Call

LEMMA ProcessNextMessageStep == IInv /\ ProcessNextMessage => IInv'
<1>. SUFFICES ASSUME IInv, ProcessNextMessage PROVE IInv'
    OBVIOUS
<1>. DEFINE e == Head(inboundMessages)
            n == Len(inboundMessages)
<1>1. /\ n \in Nat /\ n >= 1 /\ inboundMessages \in Seq(EventIds)
      /\ e = inboundMessages[1] /\ e \in EventIds
      /\ cursor < e /\ e <= lastEventId /\ cursor # -1
      /\ cursor \in Int /\ lastEventId \in Int /\ published \in Int
      /\ \A i \in 1..n : inboundMessages[i] \in Int
      /\ inboundMessages' = Tail(inboundMessages)
    BY QueueFacts
<1>2. /\ inboundMessages' \in Seq(EventIds) /\ Len(inboundMessages') = n - 1
      /\ \A i \in 1..(n - 1) : inboundMessages'[i] = inboundMessages[i + 1]
    BY <1>1
<1>3. /\ UNCHANGED <<published, lastEventId, syncInProgress, updateInProgress, polledRecently,
                     syncTask, fetchTask, draining>>
      /\ cursor' \in {cursor, e}
      /\ cursor' = cursor => e \in Uninterpretable
    BY <1>1 DEF ProcessNextMessage
<1>4. received' \in [Processors -> Seq(EventIds)]
    <2>1. received \in [Processors -> Seq(EventIds)]
        BY DEF IInv, TypeOK
    <2>2. CASE received' = received
        BY <2>1, <2>2
    <2>3. CASE received' = ProcessEvent(received, e)
        <3>1. received' = [p \in Processors |->
                 IF p \in Wants[e] THEN Append(received[p], e) ELSE received[p]]
            BY <1>1, <2>1, <2>3, ProcessEventOnce
        <3>2. \A p \in Processors : Append(received[p], e) \in Seq(EventIds)
            BY <1>1, <2>1
        <3>. QED BY <2>1, <3>1, <3>2
    <2>. QED BY <2>2, <2>3 DEF ProcessNextMessage
<1>5. TypeOK'
    <2>1. cursor' \in -1..MaxEventId
        BY <1>1, <1>3, BoundAssumption DEF IInv, TypeOK, EventIds
    <2>. QED BY <1>2, <1>3, <1>4, <2>1 DEF IInv, TypeOK
<1>6. InboundIsBacklog'
    <2>1. \A i, j \in 1..n : i < j => inboundMessages[i] < inboundMessages[j]
        BY DEF IInv, InboundIsBacklog
    <2>2. \A i \in 1..n : inboundMessages[i] \in Int /\ inboundMessages[i] <= lastEventId
        BY <1>1 DEF IInv, InboundIsBacklog
    <2>3. ASSUME NEW i \in 1..(n - 1), NEW j \in 1..(n - 1), i < j
          PROVE  inboundMessages'[i] < inboundMessages'[j]
        BY <1>1, <1>2, <2>1, <2>3
    <2>4. ASSUME NEW i \in 1..(n - 1)
          PROVE  cursor' < inboundMessages'[i] /\ inboundMessages'[i] <= lastEventId'
        <3>1. e < inboundMessages[i + 1]
            BY <1>1, <2>1
        <3>2. inboundMessages'[i] = inboundMessages[i + 1] /\ i + 1 \in 1..n
            BY <1>1, <1>2
        <3>. QED BY <1>1, <1>3, <2>2, <3>1, <3>2
    <2>5. ASSUME NEW u \in Usable, cursor' < u, u <= lastEventId'
          PROVE  \E i \in 1..(n - 1) : inboundMessages'[i] = u
        <3>1. u \in Int /\ u \notin Uninterpretable
            BY DEF Usable, EventIds
        <3>2. cursor < u /\ u <= lastEventId
            BY <1>1, <1>3, <2>5, <3>1
        <3>3. PICK i \in 1..n : inboundMessages[i] = u
            BY <1>1, <3>2 DEF IInv, InboundIsBacklog
        <3>4. i # 1
            BY <1>1, <1>3, <2>5, <3>1, <3>3
        <3>5. i - 1 \in 1..(n - 1) /\ inboundMessages'[i - 1] = u
            BY <1>1, <1>2, <3>3, <3>4
        <3>. QED BY <3>5
    <2>. QED BY <1>2, <2>3, <2>4, <2>5 DEF InboundIsBacklog
<1>7. QueuedAreValid'
    <2>1. \A i \in 1..(n - 1) : inboundMessages'[i] \notin Malformed
        BY <1>1, <1>2 DEF IInv, QueuedAreValid
    <2>. QED BY <1>2, <2>1 DEF QueuedAreValid
<1>8. OneTaskEach' /\ NothingBeforeSync' /\ PushingInOrder'
    <2>1. lastEventId # -1
        BY <1>1 DEF IInv, NothingBeforeSync
    <2>2. e # -1
        BY <1>1 DEF EventIds
    <2>. QED BY <1>1, <1>3, <2>1, <2>2
             DEF IInv, OneTaskEach, NothingBeforeSync, PushingInOrder
<1>. QED BY <1>5, <1>6, <1>7, <1>8 DEF IInv

LEMMA IInvStep == IInv /\ [Next]_vars => IInv'
BY SyncStep, FetchStep, OtherStep, SyncAppliedStep, PushMessageStep, ProcessNextMessageStep
   DEF Next, SyncAnswer, FetchAnswer

LEMMA IInvariant == SafetySpec => []IInv
BY IInvInit, IInvStep, PTL DEF SafetySpec

\* Every variable keeps its type; in particular the loop over an answer never runs
\* past the events the answer holds.
THEOREM TypeCorrect == Spec => []TypeOK
<1>1. IInv => TypeOK
    BY DEF IInv
<1>. QED BY <1>1, IInvariant, PTL DEF Spec

\* The queue between the polling task and the EuroScope thread is exactly the
\* backlog, in order and without repetition, whatever answers the API gives.
THEOREM QueueIsBacklog == Spec => []InboundIsBacklog
<1>1. IInv => InboundIsBacklog
    BY DEF IInv
<1>. QED BY <1>1, IInvariant, PTL DEF Spec

-------------------------------------------------------------------------------
(* Polling implements the stream of events.                                   *)

LEMMA StreamInit == Init => Stream!Init
BY DEF Init, Stream!Init

\* Only these three steps are visible in the stream.
LEMMA StreamStutter ==
    ASSUME [Next]_vars, ~Publish, ~SyncApplied, ~ProcessNextMessage
    PROVE  UNCHANGED <<published, cursor, received>>
BY DEF Next, SyncAnswer, FetchAnswer, vars, PollIntervalPasses, SyncEvents, GetLatestEvents,
       SyncAnswered, SyncInvalid, SyncFailed, SyncFinished, FetchAnswered, FetchInvalid,
       FetchFailed, PushMessage, PushedAll, FetchFinished, StartDraining, StopDraining

LEMMA StreamStep == IInv /\ [Next]_vars => [Stream!Next]_(Stream!vars)
<1>. SUFFICES ASSUME IInv, [Next]_vars PROVE Stream!Next \/ UNCHANGED Stream!vars
    OBVIOUS
<1>1. CASE Publish
    BY <1>1 DEF Publish, Stream!Next, Stream!Publish
<1>2. CASE SyncApplied
    <2>1. cursor = -1 /\ cursor' \in 0..published
        BY <1>2 DEF SyncApplied, IInv, OneTaskEach, NothingBeforeSync, Called, Answered
    <2>. QED BY <1>2, <2>1 DEF SyncApplied, Stream!Next, Stream!Attach
<1>3. CASE ProcessNextMessage
    <2>. DEFINE e == Head(inboundMessages)
    <2>1. CASE e \in Uninterpretable
        BY <1>3, <2>1 DEF ProcessNextMessage, Stream!vars
    <2>2. CASE e \notin Uninterpretable
        <3>1. /\ e \in EventIds /\ e \notin Malformed /\ cursor # -1
              /\ cursor < e /\ e <= published
              /\ \A i \in 1..Len(inboundMessages) :
                    inboundMessages[i] \in Int /\ e <= inboundMessages[i]
              /\ cursor \in Int /\ lastEventId \in Int /\ published \in Int
              /\ e <= lastEventId
            BY <1>3, QueueFacts DEF EventIds
        <3>2. e \in Usable
            BY <2>2, <3>1 DEF Usable
        <3>3. ASSUME NEW skipped \in (cursor + 1)..(e - 1), skipped \in Usable PROVE FALSE
            <4>1. cursor < skipped /\ skipped < e /\ skipped <= lastEventId
                BY <3>1 DEF EventIds
            <4>2. PICK i \in 1..Len(inboundMessages) : inboundMessages[i] = skipped
                BY <3>1, <3>3, <4>1 DEF IInv, InboundIsBacklog
            <4>. QED BY <3>1, <4>1, <4>2 DEF EventIds
        <3>4. /\ received' = ProcessEvent(received, e) /\ cursor' = e /\ published' = published
            BY <1>3, <2>2 DEF ProcessNextMessage
        <3>5. received' = [p \in Processors |->
                 IF p \in Wants[e] THEN Append(received[p], e) ELSE received[p]]
            BY <3>1, <3>4, ProcessEventOnce DEF IInv, TypeOK
        <3>6. Stream!Deliver(e)
            BY <3>1, <3>2, <3>3, <3>4, <3>5 DEF Stream!Deliver
        <3>. QED BY <3>1, <3>6 DEF Stream!Next, EventIds
    <2>. QED BY <2>1, <2>2
<1>4. CASE ~Publish /\ ~SyncApplied /\ ~ProcessNextMessage
    BY <1>4, StreamStutter DEF Stream!vars
<1>. QED BY <1>1, <1>2, <1>3, <1>4

\* The polling transport, with its two tasks, two flags and shared queue, delivers
\* every usable event after the sync to every subscriber once and in order.
THEOREM PollingImplementsStream == Spec => StreamSpec
BY StreamInit, StreamStep, IInvariant, PTL DEF Spec, SafetySpec, StreamSpec, Stream!Spec

-------------------------------------------------------------------------------
(* The other instances follow the stream.                                     *)

ProxyTypes ==
    /\ proxyOpen \subseteq Proxies
    /\ proxyLoaded \in [Proxies -> -1..MaxEventId]
    /\ proxyMessages \in [Proxies -> Seq(EventIds)]
    /\ proxyReceived \in [Proxies -> Seq(EventIds)]
    /\ attachedAt \in -1..MaxEventId

\* An instance that is not there has nothing.
NothingWhenClosed ==
    /\ proxySynced \subseteq proxyOpen
    /\ \A q \in Proxies : q \notin proxyOpen =>
          proxyLoaded[q] = -1 /\ proxyMessages[q] = <<>> /\ proxyReceived[q] = <<>>

AttachedWithCursor == (cursor = -1 <=> attachedAt = -1) /\ attachedAt <= cursor

\* What an instance was told, and that it is in order and goes no further than the
\* stream.
Got(q) == proxyReceived[q] \o proxyMessages[q]
InOrderUpTo(got, last) ==
    /\ \A i, j \in 1..Len(got) : i < j => got[i] < got[j]
    /\ \A i \in 1..Len(got) : got[i] <= last

\* Every usable event after both beginnings is in it.
CompleteUpTo(got, loaded, attached, last) ==
    \A e \in Usable :
        /\ loaded # -1 /\ loaded < e
        /\ attached # -1 /\ attached < e
        /\ e <= last
        => \E i \in 1..Len(got) : got[i] = e

Told(q) ==
    /\ InOrderUpTo(Got(q), cursor)
    /\ CompleteUpTo(Got(q), proxyLoaded[q], attachedAt, cursor)

ProxyIInv == /\ IInv /\ ProxyTypes /\ NothingWhenClosed /\ AttachedWithCursor
             /\ \A q \in proxyOpen : Told(q)

\* The next event of the stream keeps an instance told that is told of it.
LEMMA ToldOfNext ==
    ASSUME NEW got \in Seq(EventIds), NEW last \in -1..MaxEventId, NEW e \in EventIds,
           NEW loaded \in -1..MaxEventId, NEW attached \in -1..MaxEventId,
           InOrderUpTo(got, last), CompleteUpTo(got, loaded, attached, last), last < e,
           \A skipped \in (last + 1)..(e - 1) : skipped \notin Usable
    PROVE  InOrderUpTo(Append(got, e), e) /\ CompleteUpTo(Append(got, e), loaded, attached, e)
<1>. DEFINE n == Len(got)
            more == Append(got, e)
<1>1. /\ n \in Nat /\ Len(more) = n + 1 /\ more[n + 1] = e
      /\ \A i \in 1..n : more[i] = got[i] /\ got[i] \in Int
  <2>1. \A i \in 1..n : got[i] \in EventIds
    BY ElementOfSeq
  <2>2. EventIds \subseteq Int
    BY DEF EventIds
  <2>. QED
    <3>1. /\ Len(Append(got, e)) = Len(got) + 1 /\ Append(got, e)[Len(got) + 1] = e
          /\ \A i \in 1..Len(got) : Append(got, e)[i] = got[i]
      BY AppendProperties
    <3>2. Len(got) \in Nat
      BY LenProperties
    <3>. QED
      BY <2>1, <2>2, <3>1, <3>2
<1>2. e \in Int /\ last \in Int /\ Usable \subseteq Int
  BY BoundAssumption DEF EventIds, Usable
<1>3. \A i \in 1..n : got[i] < e
  BY <1>1, <1>2 DEF InOrderUpTo
<1>4. \A i \in 1..(n + 1) : i \in 1..n \/ i = n + 1
  BY <1>1
<1>. HIDE DEF more
<1>5. InOrderUpTo(more, e)
  <2>1. ASSUME NEW i \in 1..(n + 1), NEW j \in 1..(n + 1), i < j PROVE more[i] < more[j]
    <3>1. i \in 1..n
      BY <1>1, <2>1
    <3>2. CASE j \in 1..n
      BY <1>1, <2>1, <3>1, <3>2 DEF InOrderUpTo
    <3>3. CASE j = n + 1
      BY <1>1, <1>3, <3>1, <3>3
    <3>. QED
      BY <1>4, <3>2, <3>3
  <2>2. ASSUME NEW i \in 1..(n + 1) PROVE more[i] <= e
    <3>1. CASE i \in 1..n
      BY <1>1, <1>2, <1>3, <3>1
    <3>2. CASE i = n + 1
      BY <1>1, <1>2, <3>2
    <3>. QED
      BY <1>4, <3>1, <3>2
  <2>. QED
    BY <1>1, <2>1, <2>2 DEF InOrderUpTo
<1>6. CompleteUpTo(more, loaded, attached, e)
  <2>. SUFFICES ASSUME NEW u \in Usable, loaded # -1, loaded < u, attached # -1, attached < u, u <= e
                PROVE  \E i \in 1..(n + 1) : more[i] = u
    BY <1>1 DEF CompleteUpTo
  <2>1. CASE u = e
    BY <1>1, <2>1
  <2>2. CASE u <= last
    <3>1. PICK i \in 1..n : got[i] = u
      BY <2>2 DEF CompleteUpTo
    <3>2. i \in 1..(n + 1)
      BY <1>1
    <3>. QED
      BY <1>1, <3>1, <3>2
  <2>3. u = e \/ u <= last
    BY <1>2
  <2>. QED
    BY <2>1, <2>2, <2>3
<1>. QED
  BY <1>5, <1>6 DEF more

\* An event the first instance hands out is written to the windows.
LEMMA Written ==
    ASSUME ProxyIInv, SendToWindows, NEW e \in EventIds, NEW q \in proxyOpen,
           received' = [p \in Processors |-> IF p \in Wants[e] THEN Append(received[p], e) ELSE received[p]]
    PROVE  proxyMessages'[q] = Append(proxyMessages[q], e)
<1>1. ProxyHandler \in Processors /\ ProxyHandler \in Wants[e]
  BY SubscriptionAssumption, ProxyAssumption DEF Wants
<1>2. received[ProxyHandler] \in Seq(EventIds) /\ received'[ProxyHandler] = Append(received[ProxyHandler], e)
  BY <1>1 DEF ProxyIInv, IInv, TypeOK
<1>3. PICK old \in Seq(EventIds), new \in Seq(EventIds) :
         old = received[ProxyHandler] /\ new = received'[ProxyHandler]
  BY <1>2, AppendProperties
<1>4. new = Append(old, e)
  BY <1>2, <1>3
<1>5. Len(new) = Len(old) + 1 /\ new[Len(old) + 1] = e /\ Len(old) \in Nat
  BY <1>4, AppendProperties, LenProperties
<1>6. new # old /\ Last(new) = e
  BY <1>5 DEF Last
<1>7. q \in Proxies
  BY DEF ProxyIInv, ProxyTypes
<1>. QED
  BY <1>3, <1>6, <1>7 DEF SendToWindows

\* And nothing else is.
LEMMA NotWritten ==
    ASSUME ProxyTypes, SendToWindows, received' = received
    PROVE  proxyMessages' = proxyMessages
  BY DEF SendToWindows, ProxyTypes

LEMMA MainStepTold == ProxyIInv /\ MainStep => ProxyIInv'
<1>. SUFFICES ASSUME ProxyIInv, MainStep PROVE ProxyIInv'
  OBVIOUS
<1>1. IInv'
  BY IInvStep DEF ProxyIInv, MainStep
<1>2. Stream!Next \/ UNCHANGED Stream!vars
  BY StreamStep DEF ProxyIInv, MainStep
<1>3. /\ UNCHANGED <<proxyOpen, proxySynced, proxyLoaded, proxyReceived>>
      /\ attachedAt' = IF cursor = -1 THEN cursor' ELSE attachedAt
  BY DEF MainStep
<1>4. cursor \in -1..MaxEventId /\ cursor' \in -1..MaxEventId
  BY <1>1 DEF ProxyIInv, IInv, TypeOK
<1>5. CASE received' = received /\ (cursor' = cursor \/ cursor = -1)
  <2>1. proxyMessages' = proxyMessages
    BY <1>5, NotWritten DEF ProxyIInv, MainStep
  <2>2. ProxyTypes' /\ NothingWhenClosed' /\ AttachedWithCursor'
    BY <1>3, <1>4, <1>5, <2>1 DEF ProxyIInv, ProxyTypes, NothingWhenClosed, AttachedWithCursor
  <2>3. ASSUME NEW q \in proxyOpen PROVE Told(q)'
    <3>1. Got(q)' = Got(q) /\ Got(q) \in Seq(EventIds) /\ proxyLoaded'[q] = proxyLoaded[q]
      BY <1>3, <2>1, ConcatProperties DEF Got, ProxyIInv, ProxyTypes
    <3>2. \A i \in 1..Len(Got(q)) : Got(q)[i] \in Int
      <4>1. \A i \in 1..Len(Got(q)) : Got(q)[i] \in EventIds
        BY <3>1, ElementOfSeq
      <4>2. EventIds \subseteq Int
        BY DEF EventIds
      <4>. QED
        BY <4>1, <4>2
    <3>3. InOrderUpTo(Got(q), cursor')
      BY <1>4, <1>5, <3>2 DEF InOrderUpTo, Told, ProxyIInv
    <3>4. CompleteUpTo(Got(q), proxyLoaded[q], attachedAt', cursor')
      <4>1. CASE cursor' = cursor /\ attachedAt' = attachedAt
        BY <4>1 DEF Told, ProxyIInv
      <4>2. CASE attachedAt' = cursor'
        BY <1>4, <4>2, BoundAssumption DEF CompleteUpTo, Usable, EventIds
      <4>. QED
        BY <1>3, <1>5, <4>1, <4>2 DEF ProxyIInv, AttachedWithCursor
    <3>. QED
      BY <3>1, <3>3, <3>4 DEF Told
  <2>. QED
    BY <1>1, <1>3, <2>2, <2>3 DEF ProxyIInv
<1>6. ASSUME NEW e \in EventIds, Stream!Deliver(e) PROVE ProxyIInv'
  <2>1. /\ cursor # -1 /\ cursor < e /\ cursor' = e
        /\ \A skipped \in (cursor + 1)..(e - 1) : skipped \notin Usable
        /\ received' = [p \in Processors |-> IF p \in Wants[e] THEN Append(received[p], e) ELSE received[p]]
    BY <1>6 DEF Stream!Deliver
  <2>2. \A q \in proxyOpen : proxyMessages'[q] = Append(proxyMessages[q], e)
    BY <2>1, Written DEF MainStep
  <2>3. ProxyTypes'
    <3>1. \A q \in Proxies : proxyMessages'[q] \in Seq(EventIds)
      <4>. SUFFICES ASSUME NEW q \in Proxies PROVE proxyMessages'[q] \in Seq(EventIds)
        OBVIOUS
      <4>1. proxyMessages[q] \in Seq(EventIds)
        BY DEF ProxyIInv, ProxyTypes
      <4>2. CASE q \in proxyOpen
        BY <2>2, <4>1, <4>2, AppendProperties
      <4>3. CASE q \notin proxyOpen
        BY <4>1, <4>3 DEF MainStep, SendToWindows
      <4>. QED
        BY <4>2, <4>3
    <3>2. DOMAIN proxyMessages' = Proxies /\ proxyMessages' = [q \in Proxies |-> proxyMessages'[q]]
      BY DEF MainStep, SendToWindows
    <3>3. proxyMessages' \in [Proxies -> Seq(EventIds)]
      BY <3>1, <3>2
    <3>. QED
      BY <1>3, <2>1, <3>3 DEF ProxyIInv, ProxyTypes
  <2>4. NothingWhenClosed'
    BY <1>3 DEF ProxyIInv, ProxyTypes, NothingWhenClosed, MainStep, SendToWindows
  <2>5. AttachedWithCursor'
    BY <1>3, <1>4, <2>1 DEF ProxyIInv, ProxyTypes, AttachedWithCursor
  <2>6. ASSUME NEW q \in proxyOpen PROVE Told(q)'
    <3>1. q \in Proxies /\ proxyReceived[q] \in Seq(EventIds) /\ proxyMessages[q] \in Seq(EventIds)
      BY DEF ProxyIInv, ProxyTypes
    <3>2. Got(q) \in Seq(EventIds)
      BY <3>1, ConcatProperties DEF Got
    <3>3. Got(q)' = Append(Got(q), e)
      <4>1. /\ Append(proxyMessages[q], e) = proxyMessages[q] \o <<e>>
            /\ Append(Got(q), e) = Got(q) \o <<e>>
        BY <3>1, <3>2, AppendIsConcat
      <4>2. <<e>> \in Seq(EventIds)
        OBVIOUS
      <4>3. Got(q)' = proxyReceived[q] \o Append(proxyMessages[q], e)
        BY <1>3, <2>2 DEF Got
      <4>4. (proxyReceived[q] \o proxyMessages[q]) \o <<e>>
               = proxyReceived[q] \o (proxyMessages[q] \o <<e>>)
        <5>1. PICK a \in Seq(EventIds), b \in Seq(EventIds), c \in Seq(EventIds) :
                 a = proxyReceived[q] /\ b = proxyMessages[q] /\ c = <<e>>
          BY <3>1, <4>2
        <5>2. (a \o b) \o c = a \o (b \o c)
          BY ConcatAssociative
        <5>. QED
          BY <5>1, <5>2
      <4>. QED
        BY <4>1, <4>3, <4>4 DEF Got
    <3>4. proxyLoaded[q] \in -1..MaxEventId /\ attachedAt \in -1..MaxEventId
      BY <3>1 DEF ProxyIInv, ProxyTypes
    <3>5. InOrderUpTo(Got(q), cursor) /\ CompleteUpTo(Got(q), proxyLoaded[q], attachedAt, cursor)
      BY DEF ProxyIInv, Told
    <3>6. /\ InOrderUpTo(Append(Got(q), e), e)
          /\ CompleteUpTo(Append(Got(q), e), proxyLoaded[q], attachedAt, e)
      BY <1>4, <2>1, <3>2, <3>4, <3>5, ToldOfNext
    <3>7. attachedAt' = attachedAt /\ proxyLoaded' = proxyLoaded
      BY <1>3, <2>1
    <3>. QED
      BY <2>1, <3>3, <3>6, <3>7 DEF Told
  <2>. QED
    BY <1>1, <1>3, <2>3, <2>4, <2>5, <2>6 DEF ProxyIInv
<1>7. CASE UNCHANGED Stream!vars \/ Stream!Publish \/ Stream!Attach
  BY <1>5, <1>7 DEF Stream!vars, Stream!Publish, Stream!Attach
<1>. QED
  BY <1>2, <1>6, <1>7 DEF Stream!Next, EventIds

LEMMA ProxyStepTold == ProxyIInv /\ [ProxyNext]_allVars => ProxyIInv'
<1>. SUFFICES ASSUME ProxyIInv, [ProxyNext]_allVars PROVE ProxyIInv'
  OBVIOUS
<1>. USE DEF ProxyIInv
<1>0. \A q \in Proxies : /\ proxyReceived[q] \in Seq(EventIds) /\ proxyMessages[q] \in Seq(EventIds)
                         /\ proxyLoaded[q] \in -1..MaxEventId
  BY DEF ProxyTypes
<1>1. ASSUME UNCHANGED vars PROVE IInv' /\ cursor' = cursor
  <2>1. IInv'
    BY <1>1, IInvStep
  <2>. QED
    BY <1>1, <2>1 DEF vars
<1>2. CASE MainStep
  BY <1>2, MainStepTold
<1>3. ASSUME NEW q \in Proxies, ProxyStarts(q) PROVE ProxyIInv'
  <2>1. ProxyTypes' /\ NothingWhenClosed' /\ AttachedWithCursor'
    BY <1>1, <1>3 DEF ProxyStarts, ProxyTypes, NothingWhenClosed, AttachedWithCursor
  <2>2. Got(q) = <<>> /\ proxyLoaded[q] = -1
    BY <1>3 DEF ProxyStarts, NothingWhenClosed, Got
  <2>3. Len(Got(q)) = 0 /\ Told(q)
    BY <2>2 DEF Told, InOrderUpTo, CompleteUpTo
  <2>. QED
    BY <1>1, <1>3, <2>1, <2>3 DEF ProxyStarts, Told, Got
<1>4. ASSUME NEW q \in Proxies, ProxyCloses(q) PROVE ProxyIInv'
  <2>0. <<>> \in Seq(EventIds) /\ -1 \in -1..MaxEventId
    BY BoundAssumption
  <2>1. ProxyTypes' /\ NothingWhenClosed' /\ AttachedWithCursor'
    <3>1. ProxyTypes'
      BY <1>4, <2>0 DEF ProxyCloses, ProxyTypes
    <3>2. NothingWhenClosed'
      BY <1>4 DEF ProxyCloses, ProxyTypes, NothingWhenClosed
    <3>3. AttachedWithCursor'
      BY <1>1, <1>4 DEF ProxyCloses, AttachedWithCursor
    <3>. QED
      BY <3>1, <3>2, <3>3
  <2>2. ASSUME NEW r \in proxyOpen' PROVE Told(r)'
    <3>1. r \in proxyOpen /\ r \in Proxies /\ r # q
      BY <1>4, <2>2 DEF ProxyCloses, ProxyTypes
    <3>. QED
      BY <1>1, <1>4, <3>1 DEF ProxyCloses, Told, Got, ProxyTypes
  <2>. QED
    BY <1>1, <1>4, <2>1, <2>2 DEF ProxyCloses
<1>5. ASSUME NEW q \in Proxies, SyncProxy(q) PROVE ProxyIInv'
  BY <1>1, <1>5 DEF SyncProxy, ProxyTypes, NothingWhenClosed, AttachedWithCursor, Told, Got
<1>6. ASSUME NEW q \in Proxies, LoadProxy(q) PROVE ProxyIInv'
  <2>1. /\ published \in 0..MaxEventId /\ cursor \in -1..MaxEventId /\ lastEventId \in -1..MaxEventId
        /\ cursor <= lastEventId /\ lastEventId <= published
    BY DEF IInv, TypeOK, NothingBeforeSync
  <2>2. ProxyTypes' /\ NothingWhenClosed' /\ AttachedWithCursor'
    BY <1>1, <1>6, <2>1 DEF LoadProxy, ProxyTypes, NothingWhenClosed, AttachedWithCursor
  <2>3. ASSUME NEW r \in proxyOpen PROVE Told(r)'
    <3>1. InOrderUpTo(Got(r), cursor)' /\ Got(r)' = Got(r) /\ attachedAt' = attachedAt
      BY <1>1, <1>6 DEF LoadProxy, Told, Got, InOrderUpTo
    <3>2. CASE r = q
      <4>1. proxyLoaded'[r] = published
        BY <1>6, <3>2 DEF LoadProxy, ProxyTypes
      <4>2. CompleteUpTo(Got(r), published, attachedAt, cursor)
        BY <2>1, BoundAssumption DEF CompleteUpTo, Usable, EventIds
      <4>. QED
        BY <1>1, <1>6, <3>1, <4>1, <4>2 DEF LoadProxy, Told
    <3>3. CASE r # q
      <4>1. proxyLoaded'[r] = proxyLoaded[r]
        BY <1>6, <3>3 DEF LoadProxy, ProxyTypes
      <4>. QED
        BY <1>1, <1>6, <3>1, <4>1 DEF LoadProxy, Told
    <3>. QED
      BY <3>2, <3>3
  <2>. QED
    BY <1>1, <1>6, <2>2, <2>3 DEF LoadProxy
<1>7. ASSUME NEW q \in Proxies, DrainProxy(q) PROVE ProxyIInv'
  <2>0. <<>> \in Seq(EventIds) /\ proxyReceived[q] \o proxyMessages[q] \in Seq(EventIds)
    BY <1>0, ConcatProperties
  <2>1. ProxyTypes'
    BY <1>7, <2>0 DEF DrainProxy, ProxyTypes
  <2>2. AttachedWithCursor' /\ IInv'
    BY <1>1, <1>7 DEF DrainProxy, AttachedWithCursor
  <2>3. q \in proxyOpen
    BY <1>7 DEF DrainProxy, NothingWhenClosed
  <2>4. NothingWhenClosed'
    BY <1>7, <2>3 DEF DrainProxy, NothingWhenClosed, ProxyTypes
  <2>5. \A r \in Proxies : Got(r)' = Got(r)
    <3>1. Got(q)' = Got(q)
      <4>1. Got(q)' = (proxyReceived[q] \o proxyMessages[q]) \o <<>>
        BY <1>7 DEF DrainProxy, ProxyTypes, Got
      <4>. QED
        BY <2>0, <4>1, ConcatEmptySeq DEF Got
    <3>2. \A r \in Proxies : r # q => Got(r)' = Got(r)
      BY <1>7 DEF DrainProxy, ProxyTypes, Got
    <3>. QED
      BY <3>1, <3>2
  <2>6. UNCHANGED <<cursor, proxyLoaded, attachedAt, proxyOpen>>
    BY <1>1, <1>7 DEF DrainProxy
  <2>7. \A r \in proxyOpen : Told(r)'
    BY <2>5, <2>6 DEF Told, ProxyTypes
  <2>. QED
    BY <2>1, <2>2, <2>4, <2>6, <2>7
<1>8. CASE UNCHANGED allVars
  BY <1>1, <1>8 DEF allVars, proxyVars, ProxyTypes, NothingWhenClosed, AttachedWithCursor, Told, Got
<1>. QED
  BY <1>2, <1>3, <1>4, <1>5, <1>6, <1>7, <1>8 DEF ProxyNext

LEMMA ProxyInitTold == ProxyInit => ProxyIInv
<1>. SUFFICES ASSUME ProxyInit PROVE ProxyIInv
  OBVIOUS
<1>1. IInv /\ cursor = -1
  BY IInvInit DEF ProxyInit, Init
<1>2. <<>> \in Seq(EventIds) /\ -1 \in -1..MaxEventId
  BY BoundAssumption
<1>3. ProxyTypes /\ NothingWhenClosed /\ AttachedWithCursor
  BY <1>1, <1>2 DEF ProxyInit, ProxyTypes, NothingWhenClosed, AttachedWithCursor
<1>. QED
  BY <1>1, <1>3 DEF ProxyIInv, ProxyInit

\* An instance that does not poll gets, in order and once each, every usable event
\* handed out by the first after it loaded its data and the first began to poll,
\* for any number of instances that come and go at any time.
THEOREM ProxiesTold == ProxySpec => []ProxiesMissNothing
<1>1. ProxyIInv => ProxiesMissNothing
  <2>. SUFFICES ASSUME ProxyIInv, NEW q \in proxyOpen
                PROVE  /\ \A i, j \in 1..Len(Got(q)) : i < j => Got(q)[i] < Got(q)[j]
                       /\ \A e \in Usable :
                             /\ proxyLoaded[q] # -1 /\ proxyLoaded[q] < e
                             /\ attachedAt # -1 /\ attachedAt < e
                             /\ e <= cursor
                             => e \in Range(Got(q))
    BY DEF ProxiesMissNothing, Got
  <2>1. InOrderUpTo(Got(q), cursor) /\ CompleteUpTo(Got(q), proxyLoaded[q], attachedAt, cursor)
    BY DEF ProxyIInv, Told
  <2>2. Got(q) \in Seq(EventIds)
    BY ConcatProperties DEF ProxyIInv, ProxyTypes, Got
  <2>3. \A i \in 1..Len(Got(q)) : Got(q)[i] \in Range(Got(q))
    BY <2>2, LenProperties DEF Range
  <2>. QED
    BY <2>1, <2>3 DEF InOrderUpTo, CompleteUpTo
<1>. QED
  BY <1>1, ProxyInitTold, ProxyStepTold, PTL DEF ProxySpec
===============================================================================
