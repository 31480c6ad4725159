----------------------------- MODULE SquawksProofs -----------------------------
(***************************************************************************)
(* Proofs about Squawks: types, one request for an aircraft at a time, and *)
(* the squawk that is there when an orderly request has come to its end.   *)
(***************************************************************************)
EXTENDS Squawks, SequenceTheorems, TLAPS

-------------------------------------------------------------------------------
(* Types.                                                                     *)

\* A new request keeps the types, and touches nothing that it does not name.
LEMMA StartTyped ==
    ASSUME TypeOK, NEW a \in Aircraft, NEW s \in Squawks,
           NEW at \in {"create", "delete", "lookup"},
           StartSquawkUpdate(a, s, at)
    PROVE  /\ squawkRequests' \subseteq Aircraft
           /\ squawk' \in [Aircraft -> Squawks]
           /\ tasks' \subseteq Task
           /\ due' \in [Aircraft -> Squawks \cup {Interrupted}]
           /\ calm' \subseteq Aircraft
<1>1. squawk[a] \in Squawks
  BY DEF TypeOK
<1>2. [of |-> a, at |-> at, squawk |-> squawk[a]] \in Task
  BY <1>1 DEF Task
<1>3. squawk' \in [Aircraft -> Squawks]
  BY DEF TypeOK, StartSquawkUpdate, SetSquawk
<1>4. due' \in [Aircraft -> Squawks \cup {Interrupted}]
  BY DEF TypeOK, StartSquawkUpdate
<1>5. tasks' \subseteq Task
  BY <1>2 DEF TypeOK, StartSquawkUpdate
<1>. QED
  BY <1>3, <1>4, <1>5 DEF TypeOK, StartSquawkUpdate

\* So does an automatic assignment, whatever the previous squawk.
LEMMA AttemptTyped ==
    ASSUME TypeOK, NEW a \in Aircraft, NEW p \in Squawks \cup {NotStored},
           NEW differs \in BOOLEAN, AttemptAssignment(a, p, differs)
    PROVE  /\ squawkRequests' \subseteq Aircraft
           /\ squawk' \in [Aircraft -> Squawks]
           /\ tasks' \subseteq Task
           /\ due' \in [Aircraft -> Squawks \cup {Interrupted}]
           /\ calm' \subseteq Aircraft
           /\ UNCHANGED <<online, allocationQueue, failedDeletes>>
<1>1. CASE SetSquawk(a, Circuit) /\ UNCHANGED <<squawkRequests, tasks, history>>
  BY <1>1 DEF TypeOK, AttemptAssignment, SetSquawk, history, Squawks, Fixed
<1>2. CASE /\ HasPreviouslyAssignedSquawk(p)
           /\ SetSquawk(a, p)
           /\ UNCHANGED <<squawkRequests, tasks, history>>
  BY <1>2 DEF TypeOK, AttemptAssignment, SetSquawk, history, HasPreviouslyAssignedSquawk
<1>3. CASE StartSquawkUpdate(a, Conspicuity, IF differs THEN "create" ELSE "lookup")
  <2>1. Conspicuity \in Squawks
    BY DEF Squawks, Fixed
  <2>2. (IF differs THEN "create" ELSE "lookup") \in {"create", "delete", "lookup"}
    OBVIOUS
  <2>. QED
    BY <1>3, <2>1, <2>2, StartTyped DEF AttemptAssignment
<1>. QED
  BY <1>1, <1>2, <1>3 DEF AttemptAssignment

\* A task that goes on stays a task.
LEMMA ProceedTyped ==
    ASSUME TypeOK, NEW t \in tasks, NEW s \in Squawks,
           NEW at \in {"lookup", "create", "delete", "answered", "ending"},
           Proceed(t, at, s)
    PROVE  tasks' \subseteq Task
<1>1. t \in Task
  BY DEF TypeOK
<1>2. [t EXCEPT !.at = at, !.squawk = s] \in Task
  BY <1>1 DEF Task
<1>. QED
  BY <1>2 DEF TypeOK, Proceed

LEMMA SettleTyped ==
    ASSUME TypeOK, NEW a \in Aircraft, NEW s \in Squawks, Settle(a, s)
    PROVE  due' \in [Aircraft -> Squawks \cup {Interrupted}]
  BY DEF TypeOK, Settle

LEMMA RememberTyped ==
    ASSUME TypeOK, NEW a \in Aircraft, NEW s \in Squawks, stored' = Remember(stored, a, s),
           expiring' = expiring
    PROVE  /\ stored' \in [Aircraft -> Squawks \cup {NotStored}]
           /\ expiring' \subseteq {x \in Aircraft : stored'[x] # NotStored}
<1>1. NotStored \notin Squawks
  BY CodesAssumption DEF Squawks, Fixed, NotStored, Conspicuity, Circuit, Unassigned, NotAllocated
<1>. QED
  BY <1>1 DEF TypeOK, Remember

\* Each step keeps the types: one case for each action.
LEMMA TypesKept == TypeOK /\ [Next]_vars => TypeOK'
<1>. SUFFICES ASSUME TypeOK, [Next]_vars PROVE TypeOK'
  OBVIOUS
<1>c. /\ Codes \subseteq Squawks /\ Fixed \subseteq Squawks /\ Unassigned \in Squawks
      /\ NotAllocated \in Squawks /\ Conspicuity \in Squawks /\ NotStored \notin Squawks
  BY CodesAssumption DEF Squawks, Fixed, NotStored, Conspicuity, Circuit, Unassigned, NotAllocated
<1>1. ASSUME NEW a \in Aircraft, ForceSquawkForAircraft(a) PROVE TypeOK'
  <2>1. StartSquawkUpdate(a, Conspicuity, "create")
    BY <1>1 DEF ForceSquawkForAircraft
  <2>. QED
    BY <1>1, <1>c, <2>1, StartTyped DEF ForceSquawkForAircraft, TypeOK
<1>2. ASSUME NEW a \in Aircraft, NEW s \in Fixed \cup {Unassigned},
             DeleteApiSquawkAndSetTo(a, s) PROVE TypeOK'
  <2>1. StartSquawkUpdate(a, s, "delete") /\ s \in Squawks
    BY <1>2, <1>c DEF DeleteApiSquawkAndSetTo
  <2>2. /\ stored' \in [Aircraft -> Squawks \cup {NotStored}]
        /\ expiring' \subseteq {x \in Aircraft : stored'[x] # NotStored}
    BY <1>2, <2>1, RememberTyped DEF DeleteApiSquawkAndSetTo
  <2>. QED
    BY <1>2, <2>1, <2>2, StartTyped DEF DeleteApiSquawkAndSetTo, TypeOK
<1>3. ASSUME NEW a \in Aircraft, AttemptAssignSquawks(a) PROVE TypeOK'
  <2>1. stored[a] \in Squawks \cup {NotStored}
    BY DEF TypeOK
  <2>2. PICK differs \in BOOLEAN : AttemptAssignment(a, stored[a], differs)
    BY <1>3 DEF AttemptAssignSquawks
  <2>. QED
    BY <1>3, <2>1, <2>2, AttemptTyped DEF AttemptAssignSquawks, TypeOK
<1>4. ASSUME NEW a \in Aircraft, FlightPlanEvent(a) PROVE TypeOK'
  <2>. DEFINE now == IF HasAssignedSquawk(squawk[a]) THEN squawk[a] ELSE NotAllocated
  <2>1. now \in Squawks
    BY <1>c DEF TypeOK
  <2>2. /\ stored' \in [Aircraft -> Squawks \cup {NotStored}]
        /\ expiring' \subseteq {x \in Aircraft : stored'[x] # NotStored}
    BY <1>4, <1>c, <2>1 DEF FlightPlanEvent, TypeOK
  <2>3. CASE AttemptAssignment(a, now, FALSE)
    BY <2>1, <2>2, <2>3, AttemptTyped DEF TypeOK
  <2>4. CASE UNCHANGED <<online, squawk, squawkRequests, tasks, allocationQueue,
                         failedDeletes, history>>
    BY <2>2, <2>4 DEF TypeOK, history
  <2>. QED
    BY <1>4, <2>3, <2>4 DEF FlightPlanEvent
<1>5. ASSUME NEW a \in Aircraft, TaskOf(a) PROVE TypeOK'
  <2>1. PICK t \in tasks : t.of = a /\ RunTask(t)
    BY <1>5 DEF TaskOf
  <2>2. t.of \in Aircraft /\ t.squawk \in Squawks
    BY DEF TypeOK, Task
  <2>3. CASE NothingFound(t)
    BY <2>2, <2>3, ProceedTyped DEF NothingFound, TypeOK, flightplans, history
  <2>4. CASE ApiAllocates(t)
    <3>1. PICK s \in Codes : Proceed(t, "answered", s) /\ Settle(t.of, s)
      BY <2>4 DEF ApiAllocates
    <3>. QED
      BY <1>c, <2>2, <2>4, <3>1, ProceedTyped, SettleTyped DEF ApiAllocates, TypeOK, flightplans
  <2>5. CASE CreateFails(t)
    BY <2>2, <2>5, ProceedTyped DEF CreateFails, TypeOK, flightplans, history
  <2>6. CASE AddAllocationToQueue(t)
    <3>1. /\ DOMAIN allocationQueue' = DOMAIN allocationQueue \cup {t.of}
          /\ \A x \in DOMAIN allocationQueue' : allocationQueue'[x] \in Squawks
      BY <2>2, <2>6 DEF AddAllocationToQueue, TypeOK
    <3>. QED
      BY <2>2, <2>6, <3>1, ProceedTyped DEF AddAllocationToQueue, TypeOK, flightplans, history
  <2>7. CASE DeleteSucceeds(t)
    BY <2>2, <2>7, ProceedTyped DEF DeleteSucceeds, TypeOK, flightplans, history
  <2>8. CASE DeleteFails(t)
    <3>1. failedDeletes' \in Seq([of : Aircraft, previous : Squawks])
      BY <2>2, <2>8 DEF DeleteFails, TypeOK
    <3>. QED
      BY <2>2, <2>8, <3>1, ProceedTyped, SettleTyped DEF DeleteFails, TypeOK, flightplans
  <2>9. CASE EndSquawkUpdate(t)
    BY <2>9 DEF EndSquawkUpdate, TypeOK, flightplans, history
  <2>. QED
    BY <2>1, <2>3, <2>4, <2>5, <2>6, <2>7, <2>8, <2>9 DEF RunTask
<1>6. ASSUME NEW a \in Aircraft, Connect(a) \/ Disconnect(a) \/ RemoveTimedOutPlan(a)
      PROVE  TypeOK'
  BY <1>6, <1>c DEF Connect, Disconnect, RemoveTimedOutPlan, SetSquawk, TypeOK, history
<1>7. ASSUME NEW a \in Aircraft, ControllerFlightPlanDataEvent(a) PROVE TypeOK'
  <2>1. PICK s \in Squawks : stored' = Remember(stored, a, s)
    BY <1>7 DEF ControllerFlightPlanDataEvent, TypeOK
  <2>2. /\ stored' \in [Aircraft -> Squawks \cup {NotStored}]
        /\ expiring' \subseteq {x \in Aircraft : stored'[x] # NotStored}
    BY <1>7, <2>1, RememberTyped DEF ControllerFlightPlanDataEvent
  <2>. QED
    BY <1>7, <2>2 DEF ControllerFlightPlanDataEvent, SetSquawk, TypeOK
<1>8. CASE FlushAllocations
  <2>1. squawk' \in [Aircraft -> Squawks]
    BY <1>8 DEF FlushAllocations, TypeOK
  <2>2. DOMAIN allocationQueue' = {}
    BY <1>8 DEF FlushAllocations
  <2>. QED
    BY <1>8, <2>1, <2>2 DEF FlushAllocations, TypeOK, history
<1>9. CASE ResetSquawkOnFailedDelete
  <2>. DEFINE event == Head(failedDeletes)
  <2>1. event.of \in Aircraft /\ event.previous \in Squawks
    <3>1. failedDeletes \in Seq([of : Aircraft, previous : Squawks]) /\ failedDeletes # <<>>
      BY <1>9 DEF ResetSquawkOnFailedDelete, TypeOK
    <3>2. event \in [of : Aircraft, previous : Squawks]
      BY <3>1, HeadTailProperties
    <3>. QED
      BY <3>2
  <2>2. failedDeletes' \in Seq([of : Aircraft, previous : Squawks])
    BY <1>9 DEF ResetSquawkOnFailedDelete, TypeOK
  <2>3. /\ stored' \in [Aircraft -> Squawks \cup {NotStored}]
        /\ expiring' \subseteq {x \in Aircraft : stored'[x] # NotStored}
    BY <1>9, <2>1, RememberTyped DEF ResetSquawkOnFailedDelete, TypeOK
  <2>4. squawk' \in [Aircraft -> Squawks]
    BY <1>9, <2>1 DEF ResetSquawkOnFailedDelete, SetSquawk, TypeOK
  <2>. QED
    BY <1>9, <2>2, <2>3, <2>4 DEF ResetSquawkOnFailedDelete, TypeOK, history
<1>10. CASE UNCHANGED vars
  BY <1>10 DEF vars, TypeOK
<1>. QED
  BY <1>1, <1>2, <1>3, <1>4, <1>5, <1>6, <1>7, <1>8, <1>9, <1>10 DEF Next, UserCommand

LEMMA InitTyped == Init => TypeOK
  BY DEF Init, TypeOK, Squawks

\* The variables keep their types, for any aircraft, codes and bound.
THEOREM TypeCorrect == Spec => []TypeOK
<1>. QED
  BY InitTyped, TypesKept, PTL DEF Spec

-------------------------------------------------------------------------------
(* One request for an aircraft at a time.                                     *)

\* A new request is the only one of its aircraft: Start found none.
LEMMA StartIsOnlyOne ==
    ASSUME OneRequestEach, NEW a \in Aircraft, NEW s, NEW at, StartSquawkUpdate(a, s, at)
    PROVE  OneRequestEach'
<1>1. \A t \in tasks : t.of # a
  BY DEF OneRequestEach, StartSquawkUpdate
<1>2. PICK new : new = [of |-> a, at |-> at, squawk |-> squawk[a]]
  OBVIOUS
<1>3. new.of = a
  BY <1>2
<1>4. tasks' = tasks \cup {new} /\ squawkRequests' = squawkRequests \cup {a}
  BY <1>2 DEF StartSquawkUpdate
<1>5. squawkRequests' = {t.of : t \in tasks'}
  BY <1>3, <1>4 DEF OneRequestEach
<1>6. \A t, u \in tasks' : t.of = u.of => t = u
  BY <1>1, <1>3, <1>4 DEF OneRequestEach
<1>. QED
  BY <1>5, <1>6 DEF OneRequestEach

\* A task that goes on is still for the same aircraft.
LEMMA ProceedIsOnlyOne ==
    ASSUME TypeOK, OneRequestEach, NEW t \in tasks, NEW at, NEW s, Proceed(t, at, s),
           UNCHANGED squawkRequests
    PROVE  OneRequestEach'
<1>1. PICK u : u = [t EXCEPT !.at = at, !.squawk = s]
  OBVIOUS
<1>2. t \in Task
  BY DEF TypeOK
<1>3. u.of = t.of
  BY <1>1, <1>2 DEF Task
<1>4. tasks' = (tasks \ {t}) \cup {u}
  BY <1>1 DEF Proceed
<1>. QED
  BY <1>3, <1>4 DEF OneRequestEach

LEMMA OneRequestKept == TypeOK /\ OneRequestEach /\ [Next]_vars => OneRequestEach'
<1>. SUFFICES ASSUME TypeOK, OneRequestEach, [Next]_vars PROVE OneRequestEach'
  OBVIOUS
<1>1. ASSUME NEW a \in Aircraft, UserCommand(a) PROVE OneRequestEach'
  BY <1>1, StartIsOnlyOne DEF UserCommand, ForceSquawkForAircraft, DeleteApiSquawkAndSetTo
<1>2. ASSUME NEW a \in Aircraft, NEW p, NEW differs, AttemptAssignment(a, p, differs)
      PROVE  OneRequestEach'
  <2>1. CASE UNCHANGED <<squawkRequests, tasks>>
    BY <2>1 DEF OneRequestEach
  <2>. QED
    BY <1>2, <2>1, StartIsOnlyOne DEF AttemptAssignment
<1>3. ASSUME NEW a \in Aircraft, AttemptAssignSquawks(a) PROVE OneRequestEach'
  BY <1>2, <1>3 DEF AttemptAssignSquawks
<1>4. ASSUME NEW a \in Aircraft, FlightPlanEvent(a) PROVE OneRequestEach'
  <2>1. CASE UNCHANGED <<squawkRequests, tasks>>
    BY <2>1 DEF OneRequestEach
  <2>. QED
    BY <1>2, <1>4, <2>1 DEF FlightPlanEvent
<1>5. ASSUME NEW a \in Aircraft, TaskOf(a) PROVE OneRequestEach'
  <2>1. PICK t \in tasks : t.of = a /\ RunTask(t)
    BY <1>5 DEF TaskOf
  <2>2. CASE EndSquawkUpdate(t)
    BY <2>2 DEF EndSquawkUpdate, OneRequestEach
  <2>3. CASE ~EndSquawkUpdate(t)
    <3>1. PICK at, s : Proceed(t, at, s) /\ UNCHANGED squawkRequests
      BY <2>1, <2>3 DEF RunTask, NothingFound, ApiAllocates, CreateFails,
                        AddAllocationToQueue, DeleteSucceeds, DeleteFails
    <3>. QED
      BY <3>1, ProceedIsOnlyOne
  <2>. QED
    BY <2>2, <2>3
<1>6. ASSUME UNCHANGED <<squawkRequests, tasks>> PROVE OneRequestEach'
  BY <1>6 DEF OneRequestEach
<1>7. ASSUME NEW a \in Aircraft,
             \/ Connect(a) \/ Disconnect(a) \/ RemoveTimedOutPlan(a)
             \/ ControllerFlightPlanDataEvent(a)
      PROVE  OneRequestEach'
  BY <1>6, <1>7 DEF Connect, Disconnect, RemoveTimedOutPlan, ControllerFlightPlanDataEvent
<1>8. CASE FlushAllocations \/ ResetSquawkOnFailedDelete \/ UNCHANGED vars
  BY <1>6, <1>8 DEF FlushAllocations, ResetSquawkOnFailedDelete, vars
<1>. QED
  BY <1>1, <1>3, <1>4, <1>5, <1>7, <1>8 DEF Next

\* The API never works on two requests of this plugin for one aircraft, and the
\* set of requests in progress is exactly that of the tasks.
THEOREM OneRequestAtATime == Spec => []OneRequestEach
<1>1. Init => OneRequestEach
  BY DEF Init, OneRequestEach
<1>. QED
  BY <1>1, OneRequestKept, TypeCorrect, PTL DEF Spec

-------------------------------------------------------------------------------
(* What the last request comes to.                                            *)

\* The request is followed through its four stages: while the API works on it
\* nothing waits for its aircraft; what waits afterwards is what it came to; and
\* when nothing waits that is the squawk, unless it counts as none.
InCourse(a) ==
    /\ a \in online
    /\ \A t \in tasks : t.of = a =>
          /\ t.at # "ending" => ~Waiting(a)
          /\ t.at \in {"lookup", "create"} => due[a] = Conspicuity
          /\ t.at = "answered" => due[a] = t.squawk
    /\ a \in DOMAIN allocationQueue => allocationQueue[a] = due[a]
    /\ \A event \in Range(failedDeletes) : event.of = a => event.previous = due[a]
    /\ ~Waiting(a) /\ (\A t \in tasks : t.of = a => t.at # "answered")
          => squawk[a] = due[a] \/ ~HasAssignedSquawk(due[a])

Followed(a) == a \in calm /\ due[a] # Interrupted

AllInCourse == \A a \in Aircraft : Followed(a) => InCourse(a)

SInv == TypeOK /\ OneRequestEach /\ AllInCourse

\* What InCourse and Waiting look at, for one aircraft.
Untouched(a) ==
    /\ \A t : t.of = a => (t \in tasks' <=> t \in tasks)
    /\ a \in DOMAIN allocationQueue' <=> a \in DOMAIN allocationQueue
    /\ a \in DOMAIN allocationQueue => allocationQueue'[a] = allocationQueue[a]
    /\ \A event : event.of = a =>
          (event \in Range(failedDeletes)' <=> event \in Range(failedDeletes))
    /\ squawk'[a] = squawk[a]
    /\ due'[a] = due[a]
    /\ a \in online => a \in online'
    /\ a \in calm' => a \in calm

LEMMA UntouchedKept ==
    ASSUME NEW a, Untouched(a), Followed(a) => InCourse(a)
    PROVE  Followed(a)' => InCourse(a)'
<1>. SUFFICES ASSUME Followed(a)' PROVE InCourse(a)'
  OBVIOUS
<1>1. InCourse(a)
  BY DEF Untouched, Followed
<1>2. Waiting(a)' <=> Waiting(a)
  BY DEF Untouched, Waiting
<1>. QED
  BY <1>1, <1>2 DEF Untouched, InCourse

LEMMA InRange ==
    ASSUME NEW S, NEW q \in Seq(S), NEW x
    PROVE  x \in Range(q) <=> \E i \in 1..Len(q) : q[i] = x
  BY RangeEquality

LEMMA RangeOfAppend ==
    ASSUME NEW S, NEW q \in Seq(S), NEW e \in S
    PROVE  Range(Append(q, e)) = Range(q) \cup {e}
<1>1. /\ Append(q, e) \in Seq(S) /\ Len(q) \in Nat
      /\ Len(Append(q, e)) = Len(q) + 1
      /\ \A i \in 1..Len(q) : Append(q, e)[i] = q[i]
      /\ Append(q, e)[Len(q) + 1] = e
  BY AppendProperties, LenProperties
<1>2. ASSUME NEW x PROVE x \in Range(Append(q, e)) <=> x \in Range(q) \/ x = e
  <2>1. (\E i \in 1..(Len(q) + 1) : Append(q, e)[i] = x)
           <=> (\E i \in 1..Len(q) : q[i] = x) \/ x = e
    BY <1>1
  <2>2. x \in Range(Append(q, e)) <=> \E i \in 1..Len(Append(q, e)) : Append(q, e)[i] = x
    BY <1>1, InRange
  <2>3. x \in Range(q) <=> \E i \in 1..Len(q) : q[i] = x
    BY InRange
  <2>. QED
    BY <1>1, <2>1, <2>2, <2>3
<1>. QED
  BY <1>2

LEMMA RangeOfTail ==
    ASSUME NEW S, NEW q \in Seq(S), q # <<>>
    PROVE  Range(q) = Range(Tail(q)) \cup {Head(q)}
<1>1. /\ Tail(q) \in Seq(S) /\ Len(q) \in Nat /\ Len(q) > 0
      /\ Head(q) = q[1] /\ Len(Tail(q)) = Len(q) - 1
      /\ \A i \in 1..Len(Tail(q)) : Tail(q)[i] = q[i + 1]
  BY HeadTailProperties, EmptySeq, LenProperties
<1>2. ASSUME NEW x PROVE x \in Range(q) <=> x \in Range(Tail(q)) \/ x = Head(q)
  <2>1. ASSUME NEW i \in 1..Len(q), i # 1 PROVE i - 1 \in 1..Len(Tail(q)) /\ Tail(q)[i - 1] = q[i]
    BY <1>1, <2>1
  <2>2. ASSUME NEW i \in 1..Len(Tail(q)) PROVE i + 1 \in 1..Len(q) /\ Tail(q)[i] = q[i + 1]
    BY <1>1
  <2>3. ASSUME NEW i \in 1..Len(q), q[i] = x
        PROVE  (\E j \in 1..Len(Tail(q)) : Tail(q)[j] = x) \/ x = q[1]
    BY <2>1, <2>3
  <2>4. ASSUME NEW i \in 1..Len(Tail(q)), Tail(q)[i] = x PROVE \E j \in 1..Len(q) : q[j] = x
    BY <2>2, <2>4
  <2>5. 1 \in 1..Len(q)
    BY <1>1
  <2>6. x \in Range(q) <=> \E i \in 1..Len(q) : q[i] = x
    BY InRange
  <2>7. x \in Range(Tail(q)) <=> \E i \in 1..Len(Tail(q)) : Tail(q)[i] = x
    BY <1>1, InRange, ZenonT(40)
  <2>. QED
    BY <1>1, <2>3, <2>4, <2>5, <2>6, <2>7
<1>. QED
  BY <1>2

\* A new request starts a course of its own, unless an answer waits.
LEMMA StartInCourse ==
    ASSUME SInv, NEW b \in online, NEW s, NEW at \in {"lookup", "create", "delete"},
           at # "delete" => s = Conspicuity,
           StartSquawkUpdate(b, s, at),
           UNCHANGED <<online, allocationQueue, failedDeletes>>
    PROVE  AllInCourse'
<1>. SUFFICES ASSUME NEW a \in Aircraft PROVE Followed(a)' => InCourse(a)'
  BY DEF AllInCourse
<1>1. PICK new : new = [of |-> b, at |-> at, squawk |-> squawk[b]]
  OBVIOUS
<1>2. new.of = b /\ new.at = at /\ tasks' = tasks \cup {new}
  BY <1>1 DEF StartSquawkUpdate
<1>3. squawk' = [squawk EXCEPT ![b] = s] /\ due' = [due EXCEPT ![b] = s]
  BY DEF StartSquawkUpdate, SetSquawk
<1>4. calm' = IF Waiting(b) THEN calm \ {b} ELSE calm \cup {b}
  BY DEF StartSquawkUpdate
<1>5. CASE a # b
  <2>1. Untouched(a)
    BY <1>2, <1>3, <1>4, <1>5 DEF Untouched, SInv, TypeOK
  <2>. QED
    BY <2>1, UntouchedKept DEF SInv, AllInCourse
<1>6. CASE a = b
  <2>. SUFFICES ASSUME Followed(b)' PROVE InCourse(b)'
    BY <1>6
  <2>1. ~Waiting(b) /\ ~Waiting(b)'
    BY <1>4 DEF Followed, Waiting
  <2>2. \A t \in tasks : t.of # b
    BY DEF SInv, OneRequestEach, StartSquawkUpdate
  <2>3. due'[b] = s /\ squawk'[b] = s
    BY <1>3, <1>6 DEF SInv, TypeOK
  <2>. QED
    BY <1>2, <2>1, <2>2, <2>3 DEF InCourse, Waiting
<1>. QED
  BY <1>5, <1>6

\* A squawk set where none is assigned breaks no promise.
LEMMA SetInCourse ==
    ASSUME SInv, NEW b \in Aircraft, NEW s, SetSquawk(b, s), ~HasAssignedSquawk(squawk[b]),
           UNCHANGED <<online, tasks, allocationQueue, failedDeletes, history>>
    PROVE  AllInCourse'
<1>. SUFFICES ASSUME NEW a \in Aircraft, Followed(a)' PROVE InCourse(a)'
  BY DEF AllInCourse
<1>1. Followed(a) /\ InCourse(a) /\ (Waiting(a)' <=> Waiting(a))
  BY DEF SInv, AllInCourse, Followed, Waiting, history
<1>2. squawk' = [squawk EXCEPT ![b] = s] /\ squawk \in [Aircraft -> Squawks]
  BY DEF SetSquawk, SInv, TypeOK
<1>3. squawk'[a] = squawk[a] \/ ~HasAssignedSquawk(squawk[a])
  BY <1>2
<1>. QED
  BY <1>1, <1>3 DEF InCourse, history

LEMMA AttemptInCourse ==
    ASSUME SInv, NEW b \in online, NEW p, NEW differs \in BOOLEAN,
           AttemptAssignment(b, p, differs)
    PROVE  AllInCourse'
<1>1. b \in Aircraft
  BY DEF SInv, TypeOK
<1>2. CASE UNCHANGED <<tasks, history>> /\ \E s : SetSquawk(b, s)
  BY <1>1, <1>2, SetInCourse DEF AttemptAssignment
<1>3. CASE StartSquawkUpdate(b, Conspicuity, IF differs THEN "create" ELSE "lookup")
  BY <1>3, StartInCourse DEF AttemptAssignment
<1>. QED
  BY <1>2, <1>3 DEF AttemptAssignment

\* A task that goes on without an answer to give leaves everything in course.
LEMMA TaskGoesOn ==
    ASSUME SInv, NEW t \in tasks, NEW at, NEW s, Proceed(t, at, s),
           \/ t.at = "lookup" /\ at = "create"
           \/ t.at \in {"create", "delete"} /\ at = "ending",
           UNCHANGED <<online, squawk, allocationQueue, failedDeletes, history>>
    PROVE  AllInCourse'
<1>. SUFFICES ASSUME NEW a \in Aircraft, Followed(a)' PROVE InCourse(a)'
  BY DEF AllInCourse
<1>1. Followed(a) /\ InCourse(a) /\ (Waiting(a)' <=> Waiting(a))
  BY DEF SInv, AllInCourse, Followed, Waiting, history
<1>2. PICK u : u = [t EXCEPT !.at = at, !.squawk = s]
  OBVIOUS
<1>3. t \in Task
  BY DEF SInv, TypeOK
<1>4. u.of = t.of /\ u.at = at /\ tasks' = (tasks \ {t}) \cup {u}
  BY <1>2, <1>3 DEF Task, Proceed
<1>5. ASSUME NEW v \in tasks', v.of = a
      PROVE  /\ v.at # "ending" => ~Waiting(a)
             /\ v.at \in {"lookup", "create"} => due[a] = Conspicuity
             /\ v.at = "answered" => due[a] = v.squawk
  BY <1>1, <1>4, <1>5 DEF InCourse
<1>6. (\A v \in tasks' : v.of = a => v.at # "answered")
         => \A v \in tasks : v.of = a => v.at # "answered"
  BY <1>4
<1>. QED
  BY <1>1, <1>5, <1>6 DEF InCourse, history

\* The answers of the API: due becomes what will be queued.
LEMMA AllocateInCourse ==
    ASSUME SInv, NEW t \in tasks, ApiAllocates(t)
    PROVE  AllInCourse'
<1>. SUFFICES ASSUME NEW a \in Aircraft, Followed(a)' PROVE InCourse(a)'
  BY DEF AllInCourse
<1>0. PICK s \in Codes : Proceed(t, "answered", s) /\ Settle(t.of, s)
  BY DEF ApiAllocates
<1>1. t \in Task /\ due \in [Aircraft -> Squawks \cup {Interrupted}]
  BY DEF SInv, TypeOK
<1>2. PICK u : u = [t EXCEPT !.at = "answered", !.squawk = s]
  OBVIOUS
<1>3. /\ u.of = t.of /\ u.at = "answered" /\ u.squawk = s
      /\ tasks' = (tasks \ {t}) \cup {u}
  BY <1>0, <1>1, <1>2 DEF Task, Proceed
<1>4. Waiting(a)' <=> Waiting(a)
  BY DEF ApiAllocates, Waiting
<1>5. Followed(a) /\ InCourse(a)
  BY <1>0, <1>1 DEF Followed, Settle, SInv, AllInCourse, ApiAllocates
<1>6. CASE a # t.of
  <2>1. Untouched(a)
    BY <1>0, <1>3, <1>6 DEF Untouched, ApiAllocates, flightplans, Settle
  <2>. QED
    BY <1>5, <2>1, UntouchedKept
<1>7. CASE a = t.of
  <2>1. due'[a] = s
    BY <1>0, <1>1, <1>5, <1>7 DEF Settle, Followed, Task
  <2>2. \A v \in tasks' : v.of = a => v = u
    BY <1>3, <1>7 DEF SInv, OneRequestEach
  <2>3. ~Waiting(a)
    BY <1>5, <1>7 DEF InCourse, ApiAllocates
  <2>. QED
    BY <1>3, <1>4, <1>5, <1>7, <2>1, <2>2, <2>3 DEF InCourse, ApiAllocates, flightplans, Waiting
<1>. QED
  BY <1>6, <1>7

LEMMA AddInCourse ==
    ASSUME SInv, NEW t \in tasks, AddAllocationToQueue(t)
    PROVE  AllInCourse'
<1>. SUFFICES ASSUME NEW a \in Aircraft, Followed(a)' PROVE InCourse(a)'
  BY DEF AllInCourse
<1>1. t \in Task
  BY DEF SInv, TypeOK
<1>2. PICK u : u = [t EXCEPT !.at = "ending", !.squawk = t.squawk]
  OBVIOUS
<1>3. u.of = t.of /\ u.at = "ending" /\ tasks' = (tasks \ {t}) \cup {u}
  BY <1>1, <1>2 DEF Task, Proceed, AddAllocationToQueue
<1>4. Followed(a) /\ InCourse(a)
  BY DEF Followed, SInv, AllInCourse, AddAllocationToQueue, history
<1>5. CASE a # t.of
  <2>1. Untouched(a)
    BY <1>3, <1>5 DEF Untouched, AddAllocationToQueue, flightplans, history
  <2>. QED
    BY <1>4, <2>1, UntouchedKept
<1>6. CASE a = t.of
  <2>1. ~Waiting(a) /\ due[a] = t.squawk
    BY <1>4, <1>6 DEF InCourse, AddAllocationToQueue
  <2>2. a \in DOMAIN allocationQueue' /\ allocationQueue'[a] = t.squawk
    BY <1>6, <2>1 DEF AddAllocationToQueue, Waiting
  <2>3. \A v \in tasks' : v.of = a => v = u
    BY <1>3, <1>6 DEF SInv, OneRequestEach
  <2>4. Waiting(a)'
    BY <2>2 DEF Waiting
  <2>. QED
    BY <1>3, <1>4, <2>1, <2>2, <2>3, <2>4
    DEF InCourse, AddAllocationToQueue, flightplans, history
<1>. QED
  BY <1>5, <1>6

LEMMA DeleteFailsInCourse ==
    ASSUME SInv, NEW t \in tasks, DeleteFails(t)
    PROVE  AllInCourse'
<1>. SUFFICES ASSUME NEW a \in Aircraft, Followed(a)' PROVE InCourse(a)'
  BY DEF AllInCourse
<1>1. t \in Task /\ due \in [Aircraft -> Squawks \cup {Interrupted}]
  BY DEF SInv, TypeOK
<1>2. PICK u : u = [t EXCEPT !.at = "ending", !.squawk = t.squawk]
  OBVIOUS
<1>3. u.of = t.of /\ u.at = "ending" /\ tasks' = (tasks \ {t}) \cup {u}
  BY <1>1, <1>2 DEF Task, Proceed, DeleteFails
<1>4. PICK e : e = [of |-> t.of, previous |-> t.squawk]
  OBVIOUS
<1>5. Range(failedDeletes)' = Range(failedDeletes) \cup {e}
  <2>1. PICK S : S = [of : Aircraft, previous : Squawks]
    OBVIOUS
  <2>2. e \in S
    BY <1>1, <1>4, <2>1 DEF Task
  <2>3. failedDeletes \in Seq(S)
    BY <2>1 DEF SInv, TypeOK
  <2>4. Range(Append(failedDeletes, e)) = Range(failedDeletes) \cup {e}
    BY <2>2, <2>3, RangeOfAppend
  <2>5. failedDeletes' = Append(failedDeletes, e)
    BY <1>4 DEF DeleteFails
  <2>. QED
    BY <2>4, <2>5
<1>6. Followed(a) /\ InCourse(a)
  BY <1>1 DEF Followed, Settle, SInv, AllInCourse, DeleteFails
<1>7. CASE a # t.of
  <2>1. Untouched(a)
    BY <1>3, <1>4, <1>5, <1>7 DEF Untouched, DeleteFails, flightplans, Settle
  <2>. QED
    BY <1>6, <2>1, UntouchedKept
<1>8. CASE a = t.of
  <2>1. due'[a] = t.squawk
    BY <1>1, <1>6, <1>8 DEF Settle, Followed, Task, DeleteFails
  <2>2. ~Waiting(a)
    BY <1>6, <1>8 DEF InCourse, DeleteFails
  <2>3. \A v \in tasks' : v.of = a => v = u
    BY <1>3, <1>8 DEF SInv, OneRequestEach
  <2>4. Waiting(a)'
    BY <1>4, <1>5, <1>8 DEF Waiting
  <2>5. \A event \in Range(failedDeletes)' : event.of = a => event.previous = due'[a]
    BY <1>4, <1>5, <2>1, <2>2 DEF Waiting
  <2>. QED
    BY <1>3, <1>6, <2>2, <2>3, <2>4, <2>5
    DEF InCourse, DeleteFails, flightplans, Waiting
<1>. QED
  BY <1>7, <1>8

LEMMA EndInCourse ==
    ASSUME SInv, NEW t \in tasks, EndSquawkUpdate(t)
    PROVE  AllInCourse'
<1>. SUFFICES ASSUME NEW a \in Aircraft, Followed(a)' PROVE InCourse(a)'
  BY DEF AllInCourse
<1>1. Followed(a) /\ InCourse(a) /\ (Waiting(a)' <=> Waiting(a))
  BY DEF SInv, AllInCourse, Followed, Waiting, EndSquawkUpdate, history
<1>2. tasks' = tasks \ {t} /\ t.at = "ending"
  BY DEF EndSquawkUpdate
<1>. QED
  BY <1>1, <1>2 DEF InCourse, EndSquawkUpdate, flightplans, history

LEMMA FlushInCourse ==
    ASSUME SInv, FlushAllocations
    PROVE  AllInCourse'
<1>. SUFFICES ASSUME NEW a \in Aircraft, Followed(a)' PROVE InCourse(a)'
  BY DEF AllInCourse
<1>1. Followed(a) /\ InCourse(a) /\ (Waiting(a)' => Waiting(a))
  BY DEF SInv, AllInCourse, Followed, Waiting, FlushAllocations, history
<1>2. DOMAIN allocationQueue' = {}
  BY DEF FlushAllocations
<1>3. CASE a \in DOMAIN allocationQueue
  <2>1. squawk'[a] = due[a]
    BY <1>1, <1>3 DEF FlushAllocations, InCourse
  <2>. QED
    BY <1>1, <1>2, <2>1 DEF InCourse, FlushAllocations, history
<1>4. CASE a \notin DOMAIN allocationQueue
  <2>1. squawk'[a] = squawk[a] /\ (Waiting(a)' <=> Waiting(a))
    BY <1>4 DEF FlushAllocations, Waiting
  <2>. QED
    BY <1>1, <1>2, <2>1 DEF InCourse, FlushAllocations, history
<1>. QED
  BY <1>3, <1>4

LEMMA ResetInCourse ==
    ASSUME SInv, ResetSquawkOnFailedDelete
    PROVE  AllInCourse'
<1>. SUFFICES ASSUME NEW a \in Aircraft, Followed(a)' PROVE InCourse(a)'
  BY DEF AllInCourse
<1>1. PICK e : e = Head(failedDeletes)
  OBVIOUS
<1>2. Range(failedDeletes) = Range(failedDeletes)' \cup {e}
  BY <1>1, RangeOfTail DEF SInv, TypeOK, ResetSquawkOnFailedDelete
<1>3. Followed(a) /\ InCourse(a) /\ (Waiting(a)' => Waiting(a))
  BY <1>2 DEF SInv, AllInCourse, Followed, Waiting, ResetSquawkOnFailedDelete, history
<1>4. squawk \in [Aircraft -> Squawks]
  BY DEF SInv, TypeOK
<1>5. CASE a = e.of
  <2>1. e.previous = due[a] /\ a \in online
    BY <1>2, <1>3, <1>5 DEF InCourse
  <2>2. squawk'[a] = due[a]
    BY <1>1, <1>4, <1>5, <2>1 DEF ResetSquawkOnFailedDelete, SetSquawk
  <2>. QED
    BY <1>2, <1>3, <2>2 DEF InCourse, ResetSquawkOnFailedDelete, history
<1>6. CASE a # e.of
  <2>1. squawk'[a] = squawk[a]
    BY <1>1, <1>4, <1>6 DEF ResetSquawkOnFailedDelete, SetSquawk
  <2>2. Waiting(a)' <=> Waiting(a)
    BY <1>2, <1>6 DEF Waiting, ResetSquawkOnFailedDelete
  <2>. QED
    BY <1>2, <1>3, <2>1, <2>2 DEF InCourse, ResetSquawkOnFailedDelete, history
<1>. QED
  BY <1>5, <1>6

\* A connection, a disconnection or another controller's squawk: nothing is
\* promised to that aircraft any more.
LEMMA OthersInCourse ==
    ASSUME SInv, NEW b \in Aircraft,
           \/ Connect(b) \/ Disconnect(b) \/ RemoveTimedOutPlan(b)
           \/ ControllerFlightPlanDataEvent(b)
    PROVE  AllInCourse'
<1>. SUFFICES ASSUME NEW a \in Aircraft, Followed(a)' PROVE InCourse(a)'
  BY DEF AllInCourse
<1>1. /\ UNCHANGED <<tasks, allocationQueue, failedDeletes, calm>>
      /\ due \in [Aircraft -> Squawks \cup {Interrupted}]
      /\ squawk \in [Aircraft -> Squawks]
  BY DEF Connect, Disconnect, RemoveTimedOutPlan, ControllerFlightPlanDataEvent,
         SInv, TypeOK, history
<1>2. due' = due \/ due' = [due EXCEPT ![b] = Interrupted]
  BY DEF Connect, Disconnect, RemoveTimedOutPlan, ControllerFlightPlanDataEvent, history
<1>3. Followed(a) /\ InCourse(a) /\ due'[a] = due[a]
  BY <1>1, <1>2 DEF Followed, SInv, AllInCourse
<1>4. a \in online' /\ squawk'[a] = squawk[a]
  <2>1. CASE Connect(b)
    BY <1>1, <1>3, <2>1 DEF Connect, SetSquawk, InCourse
  <2>2. CASE Disconnect(b)
    BY <1>1, <1>3, <2>2 DEF Disconnect, InCourse, Followed
  <2>3. CASE RemoveTimedOutPlan(b)
    BY <1>3, <2>3 DEF RemoveTimedOutPlan, InCourse
  <2>4. CASE ControllerFlightPlanDataEvent(b)
    BY <1>1, <1>3, <2>4 DEF ControllerFlightPlanDataEvent, SetSquawk, InCourse, Followed
  <2>. QED
    BY <2>1, <2>2, <2>3, <2>4
<1>5. Waiting(a)' <=> Waiting(a)
  BY <1>1 DEF Waiting
<1>. QED
  BY <1>1, <1>3, <1>4, <1>5 DEF InCourse

\* Each step keeps the invariant: one case for each action.
LEMMA SInvKept == SInv /\ [Next]_vars => SInv'
<1>. SUFFICES ASSUME SInv, [Next]_vars PROVE AllInCourse'
  BY TypesKept, OneRequestKept DEF SInv
<1>0. online \subseteq Aircraft
  BY DEF SInv, TypeOK
<1>1. ASSUME NEW a \in Aircraft, ForceSquawkForAircraft(a) PROVE AllInCourse'
  BY <1>1, StartInCourse DEF ForceSquawkForAircraft
<1>2. ASSUME NEW a \in Aircraft, NEW s, DeleteApiSquawkAndSetTo(a, s) PROVE AllInCourse'
  BY <1>2, StartInCourse DEF DeleteApiSquawkAndSetTo
<1>3. ASSUME NEW a \in Aircraft, AttemptAssignSquawks(a) PROVE AllInCourse'
  BY <1>3, AttemptInCourse DEF AttemptAssignSquawks
<1>4. ASSUME UNCHANGED <<online, squawk, tasks, allocationQueue, failedDeletes, history>>
      PROVE  AllInCourse'
  <2>. SUFFICES ASSUME NEW a \in Aircraft PROVE Followed(a)' => InCourse(a)'
    BY DEF AllInCourse
  <2>1. Untouched(a)
    BY <1>4 DEF Untouched, history
  <2>. QED
    BY <2>1, UntouchedKept DEF SInv, AllInCourse
<1>5. ASSUME NEW a \in Aircraft, FlightPlanEvent(a) PROVE AllInCourse'
  BY <1>4, <1>5, AttemptInCourse DEF FlightPlanEvent
<1>6. ASSUME NEW a \in Aircraft, TaskOf(a) PROVE AllInCourse'
  <2>1. PICK t \in tasks : t.of = a /\ RunTask(t)
    BY <1>6 DEF TaskOf
  <2>2. CASE NothingFound(t)
    BY <2>2, TaskGoesOn DEF NothingFound, flightplans
  <2>3. CASE CreateFails(t)
    BY <2>3, TaskGoesOn DEF CreateFails, flightplans
  <2>4. CASE DeleteSucceeds(t)
    BY <2>4, TaskGoesOn DEF DeleteSucceeds, flightplans
  <2>. QED
    BY <2>1, <2>2, <2>3, <2>4, AllocateInCourse, AddInCourse, DeleteFailsInCourse, EndInCourse
    DEF RunTask
<1>7. ASSUME NEW a \in Aircraft,
             \/ Connect(a) \/ Disconnect(a) \/ RemoveTimedOutPlan(a)
             \/ ControllerFlightPlanDataEvent(a)
      PROVE  AllInCourse'
  BY <1>7, OthersInCourse
<1>8. CASE UNCHANGED vars
  BY <1>4, <1>8 DEF vars, history
<1>. QED
  BY <1>1, <1>2, <1>3, <1>5, <1>6, <1>7, <1>8, FlushInCourse, ResetInCourse
  DEF Next, UserCommand

\* However answers, failures, timers and commands interleave, an aircraft whose
\* last request was orderly has, when all is quiet, the squawk it came to.
THEOREM OrderlyAnswers == Spec => []OrderlyAnswersStand
<1>1. Init => SInv
  BY InitTyped DEF Init, SInv, OneRequestEach, AllInCourse, Followed
<1>2. SInv => OrderlyAnswersStand
  <2>. SUFFICES ASSUME SInv, NEW a \in online \cap calm, Quiet(a), Promised(a)
                PROVE  squawk[a] = due[a]
    BY DEF OrderlyAnswersStand, Promised
  <2>1. InCourse(a)
    BY DEF SInv, TypeOK, AllInCourse, Followed, Promised
  <2>2. \A t \in tasks : t.of # a
    BY DEF SInv, OneRequestEach, Quiet
  <2>. QED
    BY <2>1, <2>2 DEF InCourse, Quiet, Promised
<1>. QED
  BY <1>1, <1>2, SInvKept, PTL DEF Spec
===============================================================================
