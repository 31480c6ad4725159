------------------------------ MODULE TaskRunner ------------------------------
(***************************************************************************)
(* The worker pool of src/src/utils/task/TaskRunner.cpp: a mutex, one      *)
(* condition variable and a deque of closures, served by a fixed number of *)
(* threads.  Every slow operation of the plugin (an HTTP call followed by  *)
(* a change of local state) is a task of this pool.                        *)
(*                                                                         *)
(* The mutex is held for straight-line code only, so each critical section *)
(* is one step here: between taking asynchronousQueueLock and giving it up *)
(* (by unlock, by the wait of the condition variable or by the destructor  *)
(* of the unique_lock) no other thread sees the queue.  Tasks are named by *)
(* the order in which they were queued.                                    *)
(***************************************************************************)
EXTENDS Naturals, Sequences, FiniteSets

CONSTANTS Threads,   \* the worker threads, TaskRunner(3) in HelperBootstrap
          MaxTasks   \* bound: how many tasks are ever queued

ASSUME ThreadsAssumption == IsFiniteSet(Threads) /\ Threads # {}
ASSUME MaxTasksAssumption == MaxTasks \in Nat

VARIABLES asynchronousTaskQueue,  \* the deque, front first
          threadsRunning,         \* FALSE once the destructor has begun
          pc,                     \* where each worker is in its loop
          currentTask,            \* the task each worker took last, 0 for none
          queued,                 \* how many tasks have been queued so far
          taken,                  \* how many tasks have been taken so far
          furtherTasks            \* history: how many of them each worker took after the stop

vars == <<asynchronousTaskQueue, threadsRunning, pc, currentTask, queued, taken, furtherTasks>>

\* A worker is about to lock at the top of its loop, asleep in the wait of the
\* condition variable, woken and about to have the lock back, running a task, or
\* out of the loop.
Ready   == "ready"
Waiting == "waiting"
Woken   == "woken"
Running == "running"
Stopped == "stopped"

At(place) == {t \in Threads : pc[t] = place}

Goto(t, place) == pc' = [pc EXCEPT ![t] = place]

-------------------------------------------------------------------------------

Init == /\ asynchronousTaskQueue = <<>>
        /\ threadsRunning = TRUE
        /\ pc = [t \in Threads |-> Ready]
        /\ currentTask = [t \in Threads |-> 0]
        /\ queued = 0
        /\ taken = 0
        /\ furtherTasks = [t \in Threads |-> 0]

\* notify_one: a sleeping worker is chosen by the scheduler, if there is one.
NotifyOne ==
    IF At(Waiting) = {}
    THEN UNCHANGED pc
    ELSE \E t \in At(Waiting) : Goto(t, Woken)

\* Broken: the destructor wakes one worker only.
NotifyAllWakesOne == NotifyOne

\* notify_all
NotifyAll ==
    pc' = [t \in Threads |-> IF pc[t] = Waiting THEN Woken ELSE pc[t]]

\* Broken: nobody is told of the new task.
QueueWithoutNotify ==
    /\ threadsRunning \/ At(Running) # {}
    /\ queued < MaxTasks
    /\ asynchronousTaskQueue' = Append(asynchronousTaskQueue, queued + 1)
    /\ queued' = queued + 1
    /\ UNCHANGED <<threadsRunning, pc, currentTask, taken, furtherTasks>>

\* QueueAsynchronousTask, from the EuroScope thread (until it is busy in the
\* destructor) or from a task that is running.
QueueAsynchronousTask ==
    /\ threadsRunning \/ At(Running) # {}
    /\ queued < MaxTasks
    /\ asynchronousTaskQueue' = Append(asynchronousTaskQueue, queued + 1)
    /\ queued' = queued + 1
    /\ NotifyOne
    /\ UNCHANGED <<threadsRunning, currentTask, taken, furtherTasks>>

\* The front of the queue moves to the worker, which then gives up the lock.
TakeFront(t) ==
    /\ currentTask' = [currentTask EXCEPT ![t] = Head(asynchronousTaskQueue)]
    /\ asynchronousTaskQueue' = Tail(asynchronousTaskQueue)
    /\ taken' = taken + 1
    /\ furtherTasks' = IF threadsRunning THEN furtherTasks ELSE [furtherTasks EXCEPT ![t] = @ + 1]
    /\ Goto(t, Running)
    /\ UNCHANGED <<threadsRunning, queued>>

\* The critical section from the top of the loop: leave it when the pool is
\* being destroyed, sleep when there is nothing to do, take a task otherwise.
LeaveLoop(t) ==
    /\ pc[t] = Ready
    /\ ~threadsRunning
    /\ Goto(t, Stopped)
    /\ UNCHANGED <<asynchronousTaskQueue, threadsRunning, currentTask, queued, taken, furtherTasks>>

Sleep(t) ==
    /\ pc[t] = Ready
    /\ threadsRunning
    /\ asynchronousTaskQueue = <<>>
    /\ Goto(t, Waiting)
    /\ UNCHANGED <<asynchronousTaskQueue, threadsRunning, currentTask, queued, taken, furtherTasks>>

\* Broken: the top of the loop does not look at threadsRunning.
TakeAtTopAlways(t) ==
    /\ pc[t] = Ready
    /\ asynchronousTaskQueue # <<>>
    /\ TakeFront(t)

TakeAtTop(t) ==
    /\ pc[t] = Ready
    /\ threadsRunning
    /\ asynchronousTaskQueue # <<>>
    /\ TakeFront(t)

\* A condition variable may wake a sleeper nobody notified.
SpuriousWakeup(t) ==
    /\ pc[t] = Waiting
    /\ Goto(t, Woken)
    /\ UNCHANGED <<asynchronousTaskQueue, threadsRunning, currentTask, queued, taken, furtherTasks>>

\* Back from the wait with the lock: another worker may have emptied the queue
\* in between.  threadsRunning is not read again before a task is taken.
BackToTop(t) ==
    /\ pc[t] = Woken
    /\ asynchronousTaskQueue = <<>>
    /\ Goto(t, Ready)
    /\ UNCHANGED <<asynchronousTaskQueue, threadsRunning, currentTask, queued, taken, furtherTasks>>

\* Broken: every wakeup is taken for a notification.
TakeAfterWaitUnchecked(t) ==
    /\ pc[t] = Woken
    /\ IF asynchronousTaskQueue = <<>>
       THEN /\ taken' = taken + 1
            /\ Goto(t, Running)
            /\ UNCHANGED <<asynchronousTaskQueue, threadsRunning, currentTask, queued, furtherTasks>>
       ELSE TakeFront(t)

TakeAfterWait(t) ==
    /\ pc[t] = Woken
    /\ asynchronousTaskQueue # <<>>
    /\ TakeFront(t)

\* The task returns, or throws a std::exception that the loop logs.
FinishTask(t) ==
    /\ pc[t] = Running
    /\ Goto(t, Ready)
    /\ UNCHANGED <<asynchronousTaskQueue, threadsRunning, currentTask, queued, taken, furtherTasks>>

\* The first half of ~TaskRunner, under the lock.  The joins that follow return
\* when every worker is Stopped.
Destroy ==
    /\ threadsRunning
    /\ threadsRunning' = FALSE
    /\ NotifyAll
    /\ UNCHANGED <<asynchronousTaskQueue, currentTask, queued, taken, furtherTasks>>

\* Every join has returned and nothing is left to happen.
Destroyed ==
    /\ ~threadsRunning
    /\ At(Stopped) = Threads
    /\ UNCHANGED vars

ProcessAsynchronousTasks(t) ==
    \/ LeaveLoop(t)
    \/ Sleep(t)
    \/ TakeAtTop(t)
    \/ BackToTop(t)
    \/ TakeAfterWait(t)
    \/ FinishTask(t)

Next ==
    \/ QueueAsynchronousTask
    \/ Destroy
    \/ Destroyed
    \/ \E t \in Threads : ProcessAsynchronousTasks(t) \/ SpuriousWakeup(t)

\* The operating system schedules every runnable worker, and a task ends: the
\* HTTP client has a timeout.  Nobody has to queue anything or to destroy the
\* pool, and no spurious wakeup has to come.
Fairness == \A t \in Threads : WF_vars(ProcessAsynchronousTasks(t))

Spec == Init /\ [][Next]_vars /\ Fairness
-------------------------------------------------------------------------------

TypeOK ==
    /\ asynchronousTaskQueue \in Seq(1..MaxTasks)
    /\ threadsRunning \in BOOLEAN
    /\ pc \in [Threads -> {Ready, Waiting, Woken, Running, Stopped}]
    /\ currentTask \in [Threads -> 0..MaxTasks]
    /\ queued \in 0..MaxTasks
    /\ taken \in 0..MaxTasks
    /\ furtherTasks \in [Threads -> Nat]

\* Tasks are neither lost, duplicated nor overtaken on their way through the
\* deque: it holds exactly the tasks queued and not yet taken, oldest first, and
\* no two workers ever hold the same task (TaskRunner.h: "The master queue for
\* asynchronous tasks - will be taken off in order").
QueueIsBacklog ==
    /\ Len(asynchronousTaskQueue) = queued - taken
    /\ \A i \in 1..Len(asynchronousTaskQueue) : asynchronousTaskQueue[i] = taken + i

TakenOnce ==
    /\ \A t \in Threads : currentTask[t] <= taken
    /\ \A t, u \in Threads : currentTask[t] = currentTask[u] => t = u \/ currentTask[t] = 0

InOrderOnce == QueueIsBacklog /\ TakenOnce

\* No lost wakeup: while a worker sleeps, every task in the queue has an awake
\* idle worker of its own on its way to it, whatever the notifications,
\* spurious wakeups and overtaking workers did in between.
NoLostWakeup ==
    At(Waiting) # {} =>
        Len(asynchronousTaskQueue) <= Cardinality(At(Woken) \cup At(Ready))

\* However long the queue is when the destructor clears threadsRunning, and
\* whatever the tasks still running add to it, each worker takes at most one more
\* task: the join of a worker waits for the task it runs and that one.  A worker
\* woken from the wait does not look at the flag, and nothing may wake it twice.
OneFurtherTaskEach == \A t \in Threads : furtherTasks[t] <= 1

\* The destructor's joins return: nobody is left asleep after the notify_all.
ShutdownCompletes == ~threadsRunning ~> (At(Stopped) = Threads)

\* A queued task is taken by some worker unless the pool is destroyed first.
EveryTaskRuns ==
    \A n \in 1..MaxTasks : (queued >= n) ~> (taken >= n \/ ~threadsRunning)
===============================================================================
