--------------------------- MODULE IntegrationsProofs ---------------------------
(***************************************************************************)
(* Proofs about Integrations: types, that messages are answered in order   *)
(* however they are cut into pieces, and that clients are up to date.      *)
(*                                                                         *)
(* The argument is about one socket at a time.  The pieces of its messages *)
(* that have not been received yet follow the last of those that have      *)
(* (Behind), so that what is received next are the messages up to the last *)
(* that has ended (ReceivedRight).  What has been sent to it is a          *)
(* conversation about those received so far (Conversing), and tells it of  *)
(* the notices and the state there are (Informed).  Two functions of the   *)
(* model are recursive, Received and the processing of what was received;  *)
(* each is shown to exist, and to keep what is claimed of it, because      *)
(* there is no least number of steps at which it would not.                *)
(***************************************************************************)
EXTENDS Integrations, SequenceTheorems, WellFoundedInduction, TLAPS

-------------------------------------------------------------------------------
(* What is sent, message by message                                        *)

\* In an order of the answers no answer is for a message after n.
AnswersUpTo(s, n) == Increasing(s, Answers) /\ \A k \in PlacesOf(s, Answers) : s[k][2] <= n

\* Notices from + 1 to n, each once
NoticesFrom(s, from, n) == Numbers(s, "notice") = (from + 1)..n /\ Increasing(s, {"notice"})

LatestState(s, v) ==
    \E k \in PlacesOf(s, {"state"}) : s[k] = State(v) /\ \A j \in PlacesOf(s, {"state"}) : j <= k

LEMMA AppendedPlaces ==
    ASSUME NEW s \in Seq(Outbound), NEW sort \in Sorts, NEW i \in Nat, NEW sorts
    PROVE  /\ Append(s, <<sort, i>>) \in Seq(Outbound)
           /\ Append(s, <<sort, i>>)[Len(s) + 1] = <<sort, i>>
           /\ \A k \in 1..Len(s) : Append(s, <<sort, i>>)[k] = s[k]
           /\ sort \in sorts =>
                 PlacesOf(Append(s, <<sort, i>>), sorts) = PlacesOf(s, sorts) \cup {Len(s) + 1}
           /\ sort \notin sorts => PlacesOf(Append(s, <<sort, i>>), sorts) = PlacesOf(s, sorts)
<1>1. PICK new : new = Append(s, <<sort, i>>)
    OBVIOUS
<1>2. /\ new \in Seq(Outbound) /\ new[Len(s) + 1] = <<sort, i>> /\ Len(new) = Len(s) + 1
      /\ \A k \in 1..Len(s) : new[k] = s[k]
    BY <1>1 DEF Outbound
<1>3. ASSUME NEW k
      PROVE  k \in PlacesOf(new, sorts) <=>
                k \in PlacesOf(s, sorts) \/ (k = Len(s) + 1 /\ sort \in sorts)
  <2>1. k \in PlacesOf(new, sorts) <=> k \in 1..(Len(s) + 1) /\ new[k][1] \in sorts
      BY <1>2 DEF PlacesOf
  <2>2. k \in PlacesOf(s, sorts) <=> k \in 1..Len(s) /\ s[k][1] \in sorts
      BY DEF PlacesOf
  <2>3. CASE k = Len(s) + 1
      BY <1>2, <2>1, <2>2, <2>3
  <2>4. CASE k # Len(s) + 1
      BY <1>2, <2>1, <2>2, <2>4
  <2> QED BY <2>3, <2>4
<1>4. sort \in sorts => PlacesOf(new, sorts) = PlacesOf(s, sorts) \cup {Len(s) + 1}
    BY <1>3
<1>5. sort \notin sorts => PlacesOf(new, sorts) = PlacesOf(s, sorts)
    BY <1>3
<1> QED BY <1>1, <1>2, <1>4, <1>5

LEMMA PlacesAre ==
    ASSUME NEW s \in Seq(Outbound), NEW sorts, NEW k \in PlacesOf(s, sorts)
    PROVE  k \in 1..Len(s) /\ k \in Nat /\ s[k] \in Outbound /\ s[k][2] \in Nat /\ s[k][1] \in sorts
BY DEF PlacesOf, Outbound

LEMMA AppendedNumbers ==
    ASSUME NEW s \in Seq(Outbound), NEW sort \in Sorts, NEW i \in Nat, NEW o
    PROVE  /\ o = sort => Numbers(Append(s, <<sort, i>>), o) = Numbers(s, o) \cup {i}
           /\ o # sort => Numbers(Append(s, <<sort, i>>), o) = Numbers(s, o)
<1>1. PICK new : new = Append(s, <<sort, i>>)
    OBVIOUS
<1>2. /\ new[Len(s) + 1] = <<sort, i>> /\ \A k \in 1..Len(s) : new[k] = s[k]
      /\ o = sort => PlacesOf(new, {o}) = PlacesOf(s, {o}) \cup {Len(s) + 1}
      /\ o # sort => PlacesOf(new, {o}) = PlacesOf(s, {o})
    BY <1>1, AppendedPlaces
<1>3. \A k \in PlacesOf(s, {o}) : new[k] = s[k]
    BY <1>2, PlacesAre
<1>4. new[Len(s) + 1][2] = i
    BY <1>2
<1>5. ASSUME o = sort, NEW x PROVE x \in Numbers(new, o) <=> x \in Numbers(s, o) \/ x = i
  <2>1. PlacesOf(new, {o}) = PlacesOf(s, {o}) \cup {Len(s) + 1}
      BY <1>2, <1>5
  <2> QED BY <1>3, <1>4, <2>1 DEF Numbers
<1>6. ASSUME o # sort, NEW x PROVE x \in Numbers(new, o) <=> x \in Numbers(s, o)
  <2>1. PlacesOf(new, {o}) = PlacesOf(s, {o})
      BY <1>2, <1>6
  <2> QED BY <1>3, <2>1 DEF Numbers
<1> QED BY <1>1, <1>5, <1>6

LEMMA AppendedIncreasing ==
    ASSUME NEW s \in Seq(Outbound), NEW sort \in Sorts, NEW i \in Nat, NEW sorts, Increasing(s, sorts),
           sort \in sorts => \A k \in PlacesOf(s, sorts) : s[k][2] < i
    PROVE  Increasing(Append(s, <<sort, i>>), sorts)
<1>1. PICK new : new = Append(s, <<sort, i>>)
    OBVIOUS
<1>2. /\ new[Len(s) + 1] = <<sort, i>> /\ \A k \in 1..Len(s) : new[k] = s[k]
      /\ sort \in sorts => PlacesOf(new, sorts) = PlacesOf(s, sorts) \cup {Len(s) + 1}
      /\ sort \notin sorts => PlacesOf(new, sorts) = PlacesOf(s, sorts)
    BY <1>1, AppendedPlaces
<1>3. ASSUME NEW j \in PlacesOf(new, sorts), NEW k \in PlacesOf(new, sorts), j < k
      PROVE  new[j][2] < new[k][2]
  <2>1. \A n \in PlacesOf(s, sorts) : n \in 1..Len(s) /\ new[n] = s[n]
      BY <1>2, PlacesAre
  <2>2. CASE k \in PlacesOf(s, sorts)
    <3>1. j \in PlacesOf(s, sorts)
        BY <1>2, <1>3, <2>1, <2>2
    <3> QED BY <1>3, <2>1, <2>2, <3>1 DEF Increasing
  <2>3. CASE k = Len(s) + 1 /\ sort \in sorts
    <3>1. j \in PlacesOf(s, sorts)
        BY <1>2, <1>3, <2>3
    <3> QED BY <1>2, <2>1, <2>3, <3>1
  <2> QED BY <1>2, <1>3, <2>2, <2>3
<1> QED BY <1>1, <1>3 DEF Increasing

\* An answer is sent, or a notice, or a state.
LEMMA AnswerAppended ==
    ASSUME NEW s \in Seq(Outbound), NEW sort \in Answers, NEW i \in Nat, NEW n \in Nat, n < i,
           AnswersUpTo(s, n)
    PROVE  AnswersUpTo(Append(s, <<sort, i>>), i)
<1>1. sort \in Sorts
    BY DEF Answers, Sorts
<1>2. PICK new : new = Append(s, <<sort, i>>)
    OBVIOUS
<1>3. /\ new[Len(s) + 1] = <<sort, i>> /\ \A k \in 1..Len(s) : new[k] = s[k]
      /\ PlacesOf(new, Answers) = PlacesOf(s, Answers) \cup {Len(s) + 1}
    BY <1>1, <1>2, AppendedPlaces
<1>4. \A k \in PlacesOf(s, Answers) : s[k][2] < i /\ new[k] = s[k]
    BY <1>3, PlacesAre DEF AnswersUpTo
<1>5. Increasing(new, Answers)
    BY <1>1, <1>2, <1>4, AppendedIncreasing DEF AnswersUpTo
<1>6. \A k \in PlacesOf(new, Answers) : new[k][2] <= i
  <2>1. new[Len(s) + 1][2] <= i
      BY <1>3
  <2>2. \A k \in PlacesOf(s, Answers) : new[k][2] <= i
      BY <1>4, PlacesAre
  <2> QED BY <1>3, <2>1, <2>2
<1> QED BY <1>2, <1>5, <1>6 DEF AnswersUpTo

LEMMA EventAppended ==
    ASSUME NEW s \in Seq(Outbound), NEW sort \in {"notice", "state"}, NEW i \in Nat, NEW n,
           AnswersUpTo(s, n)
    PROVE  AnswersUpTo(Append(s, <<sort, i>>), n)
<1>1. sort \in Sorts /\ sort \notin Answers
    BY DEF Answers, Sorts
<1>2. PICK new : new = Append(s, <<sort, i>>)
    OBVIOUS
<1>3. /\ \A k \in 1..Len(s) : new[k] = s[k]
      /\ PlacesOf(new, Answers) = PlacesOf(s, Answers)
    BY <1>1, <1>2, AppendedPlaces
<1>4. Increasing(new, Answers)
    BY <1>1, <1>2, AppendedIncreasing DEF AnswersUpTo
<1>5. \A k \in PlacesOf(s, Answers) : new[k] = s[k]
    BY <1>3, PlacesAre
<1> QED BY <1>2, <1>3, <1>4, <1>5 DEF AnswersUpTo

LEMMA NoticeAppended ==
    ASSUME NEW s \in Seq(Outbound), NEW from \in Nat, NEW n \in Nat, from <= n, NoticesFrom(s, from, n)
    PROVE  NoticesFrom(Append(s, Notice(n + 1)), from, n + 1)
<1>1. \A k \in PlacesOf(s, {"notice"}) : s[k][2] < n + 1
  <2>1. \A k \in PlacesOf(s, {"notice"}) : s[k][2] \in (from + 1)..n
      BY DEF NoticesFrom, Numbers
  <2> QED BY <2>1
<1>2. Increasing(Append(s, <<"notice", n + 1>>), {"notice"})
    BY <1>1, AppendedIncreasing DEF NoticesFrom, Sorts
<1>3. Numbers(Append(s, <<"notice", n + 1>>), "notice") = ((from + 1)..n) \cup {n + 1}
  <2>1. "notice" \in Sorts /\ n + 1 \in Nat
      BY DEF Sorts
  <2> QED BY <2>1, AppendedNumbers DEF NoticesFrom
<1>4. ((from + 1)..n) \cup {n + 1} = (from + 1)..(n + 1)
    OBVIOUS
<1> QED BY <1>2, <1>3, <1>4 DEF NoticesFrom, Notice

LEMMA OtherAppended ==
    ASSUME NEW s \in Seq(Outbound), NEW sort \in Sorts \ {"notice"}, NEW i \in Nat, NEW from, NEW n,
           NoticesFrom(s, from, n)
    PROVE  NoticesFrom(Append(s, <<sort, i>>), from, n)
<1>1. Increasing(Append(s, <<sort, i>>), {"notice"})
    BY AppendedIncreasing DEF NoticesFrom
<1>2. Numbers(Append(s, <<sort, i>>), "notice") = Numbers(s, "notice")
    BY AppendedNumbers
<1> QED BY <1>1, <1>2 DEF NoticesFrom

LEMMA StateAppended ==
    ASSUME NEW s \in Seq(Outbound), NEW v \in Nat
    PROVE  LatestState(Append(s, State(v)), v)
<1>1. PICK new : new = Append(s, <<"state", v>>)
    OBVIOUS
<1>2. /\ new[Len(s) + 1] = <<"state", v>>
      /\ PlacesOf(new, {"state"}) = PlacesOf(s, {"state"}) \cup {Len(s) + 1}
    BY <1>1, AppendedPlaces DEF Sorts
<1>3. \A j \in PlacesOf(s, {"state"}) : j <= Len(s) + 1
    BY PlacesAre
<1>4. new = Append(s, State(v)) /\ State(v) = <<"state", v>>
    BY <1>1 DEF State
<1>5. Len(s) + 1 \in PlacesOf(new, {"state"}) /\ new[Len(s) + 1] = State(v)
    BY <1>2, <1>4
<1>6. \A j \in PlacesOf(new, {"state"}) : j <= Len(s) + 1
    BY <1>2, <1>3
<1> QED BY <1>4, <1>5, <1>6 DEF LatestState

LEMMA StateKept ==
    ASSUME NEW s \in Seq(Outbound), NEW sort \in Sorts \ {"state"}, NEW i \in Nat, NEW v,
           LatestState(s, v)
    PROVE  LatestState(Append(s, <<sort, i>>), v)
<1>1. PICK new : new = Append(s, <<sort, i>>)
    OBVIOUS
<1>2. /\ PlacesOf(new, {"state"}) = PlacesOf(s, {"state"})
      /\ \A k \in 1..Len(s) : new[k] = s[k]
    BY <1>1, AppendedPlaces
<1>3. \A j \in PlacesOf(s, {"state"}) : new[j] = s[j]
    BY <1>2, PlacesAre
<1> QED BY <1>1, <1>2, <1>3 DEF LatestState

Rising(messages) == \A j, k \in DOMAIN messages : j < k => messages[j] < messages[k]

\* A failure is sent for each of the messages.
LEMMA FailingPlaces ==
    ASSUME NEW s \in Seq(Outbound), NEW messages \in Seq(Nat)
    PROVE  /\ s \o Failures(messages) \in Seq(Outbound)
           /\ Len(s \o Failures(messages)) = Len(s) + Len(messages)
           /\ \A k \in 1..Len(s) : (s \o Failures(messages))[k] = s[k]
           /\ \A k \in (Len(s) + 1)..(Len(s) + Len(messages)) :
                 (s \o Failures(messages))[k] = <<"initialisation_failure", messages[k - Len(s)]>>
<1>1. PICK f : f = Failures(messages)
    OBVIOUS
<1>2. f = [j \in 1..Len(messages) |-> <<"initialisation_failure", messages[j]>>]
    BY <1>1 DEF Failures, Answer
<1>3. \A j \in 1..Len(messages) : <<"initialisation_failure", messages[j]>> \in Outbound
    BY DEF Outbound, Sorts
<1>4. f \in Seq(Outbound) /\ Len(f) = Len(messages)
    BY <1>2, <1>3
<1>5. s \o f \in Seq(Outbound) /\ Len(s \o f) = Len(s) + Len(messages)
    BY <1>4
<1>6. \A k \in 1..Len(s) : (s \o f)[k] = s[k]
    BY <1>4
<1>7. ASSUME NEW k \in (Len(s) + 1)..(Len(s) + Len(messages))
      PROVE  (s \o f)[k] = <<"initialisation_failure", messages[k - Len(s)]>>
  <2>1. (s \o f)[k] = f[k - Len(s)]
      BY <1>4
  <2>2. k - Len(s) \in 1..Len(messages)
      OBVIOUS
  <2> QED BY <1>2, <2>1, <2>2
<1> QED BY <1>1, <1>5, <1>6, <1>7

LEMMA FailingNumbers ==
    ASSUME NEW s \in Seq(Outbound), NEW messages \in Seq(Nat), NEW o
    PROVE  /\ o = "initialisation_failure" =>
                 Numbers(s \o Failures(messages), o) = Numbers(s, o) \cup ToSet(messages)
           /\ o # "initialisation_failure" => Numbers(s \o Failures(messages), o) = Numbers(s, o)
<1>1. PICK new : new = s \o Failures(messages)
    OBVIOUS
<1>2. /\ new \in Seq(Outbound) /\ Len(new) = Len(s) + Len(messages)
      /\ \A k \in 1..Len(s) : new[k] = s[k]
      /\ \A k \in (Len(s) + 1)..(Len(s) + Len(messages)) :
            new[k] = <<"initialisation_failure", messages[k - Len(s)]>>
    BY <1>1, FailingPlaces
<1>3. \A t \in Seq(Outbound) : \A x :
          x \in Numbers(t, o) <=> \E k \in 1..Len(t) : t[k][1] = o /\ x = t[k][2]
    BY DEF Numbers, PlacesOf
<1>4. \A x \in Numbers(s, o) : x \in Numbers(new, o)
  <2> TAKE x \in Numbers(s, o)
  <2>1. PICK k \in 1..Len(s) : s[k][1] = o /\ x = s[k][2]
      BY <1>3
  <2>2. k \in 1..Len(new) /\ new[k] = s[k]
      BY <1>2
  <2>3. new[k][1] = o /\ x = new[k][2]
      BY <2>1, <2>2
  <2> QED BY <1>2, <1>3, <2>2, <2>3
<1>5. ASSUME o = "initialisation_failure", NEW j \in 1..Len(messages)
      PROVE  messages[j] \in Numbers(new, o)
  <2>1. PICK k : k = Len(s) + j
      OBVIOUS
  <2>2. k \in (Len(s) + 1)..(Len(s) + Len(messages)) /\ k \in 1..Len(new) /\ k - Len(s) = j
      BY <1>2, <2>1
  <2>3. new[k] = <<"initialisation_failure", messages[j]>>
      BY <1>2, <2>2
  <2>4. new[k][1] = o /\ messages[j] = new[k][2]
      BY <1>5, <2>3
  <2> QED BY <1>2, <1>3, <2>2, <2>4
<1>6. ASSUME NEW x \in Numbers(new, o)
      PROVE  x \in Numbers(s, o) \/ (o = "initialisation_failure" /\ x \in ToSet(messages))
  <2>1. PICK k \in 1..Len(new) : new[k][1] = o /\ x = new[k][2]
      BY <1>2, <1>3
  <2>2. CASE k \in 1..Len(s)
      BY <1>2, <1>3, <2>1, <2>2
  <2>3. CASE k \notin 1..Len(s)
    <3>1. k \in (Len(s) + 1)..(Len(s) + Len(messages)) /\ k - Len(s) \in 1..Len(messages)
        BY <1>2, <2>3
    <3>2. o = "initialisation_failure" /\ x = messages[k - Len(s)]
        BY <1>2, <2>1, <3>1
    <3> QED BY <3>1, <3>2 DEF ToSet
  <2> QED BY <2>2, <2>3
<1>7. o = "initialisation_failure" => Numbers(new, o) = Numbers(s, o) \cup ToSet(messages)
    BY <1>4, <1>5, <1>6 DEF ToSet
<1>8. o # "initialisation_failure" => Numbers(new, o) = Numbers(s, o)
    BY <1>4, <1>6
<1> QED BY <1>1, <1>7, <1>8

LEMMA FailingAnswers ==
    ASSUME NEW s \in Seq(Outbound), NEW messages \in Seq(Nat), NEW n \in Nat, NEW m \in Nat, n <= m,
           AnswersUpTo(s, n), Rising(messages), ToSet(messages) \subseteq (n + 1)..m
    PROVE  AnswersUpTo(s \o Failures(messages), m)
<1>1. PICK new : new = s \o Failures(messages)
    OBVIOUS
<1>2. /\ new \in Seq(Outbound) /\ Len(new) = Len(s) + Len(messages)
      /\ \A k \in 1..Len(s) : new[k] = s[k]
      /\ \A k \in (Len(s) + 1)..(Len(s) + Len(messages)) :
            new[k] = <<"initialisation_failure", messages[k - Len(s)]>>
    BY <1>1, FailingPlaces
<1>3. ASSUME NEW k \in PlacesOf(new, Answers)
      PROVE  \/ /\ k \in PlacesOf(s, Answers) /\ new[k] = s[k] /\ k \in 1..Len(s)
                /\ s[k][2] \in Nat /\ s[k][2] <= n
             \/ /\ k - Len(s) \in 1..Len(messages) /\ k \in Nat
                /\ new[k][2] = messages[k - Len(s)] /\ messages[k - Len(s)] \in (n + 1)..m
  <2>1. k \in 1..Len(new) /\ new[k][1] \in Answers
      BY <1>2, <1>3, PlacesAre
  <2>2. CASE k \in 1..Len(s)
    <3>1. k \in PlacesOf(s, Answers) /\ new[k] = s[k]
        BY <1>2, <2>1, <2>2 DEF PlacesOf
    <3> QED BY <2>2, <3>1, PlacesAre DEF AnswersUpTo
  <2>3. CASE k \notin 1..Len(s)
    <3>1. k \in (Len(s) + 1)..(Len(s) + Len(messages)) /\ k - Len(s) \in 1..Len(messages)
        BY <1>2, <2>1, <2>3
    <3>2. messages[k - Len(s)] \in ToSet(messages)
        BY <3>1 DEF ToSet
    <3> QED BY <1>2, <3>1, <3>2
  <2> QED BY <2>2, <2>3
<1>4. \A k \in PlacesOf(new, Answers) : new[k][2] <= m
    BY <1>3
<1>5. ASSUME NEW j \in PlacesOf(new, Answers), NEW k \in PlacesOf(new, Answers), j < k
      PROVE  new[j][2] < new[k][2]
  <2>1. CASE k \in PlacesOf(s, Answers) /\ k \in 1..Len(s) /\ new[k] = s[k]
    <3>1. j \in PlacesOf(s, Answers) /\ new[j] = s[j]
      <4>1. ~(j - Len(s) \in 1..Len(messages) /\ j \in Nat)
          BY <1>5, <2>1
      <4> QED BY <1>3, <4>1
    <3> QED BY <1>5, <2>1, <3>1 DEF AnswersUpTo, Increasing
  <2>2. CASE /\ k - Len(s) \in 1..Len(messages) /\ k \in Nat
             /\ new[k][2] = messages[k - Len(s)] /\ messages[k - Len(s)] \in (n + 1)..m
    <3>1. CASE j \in 1..Len(s) /\ new[j] = s[j] /\ s[j][2] \in Nat /\ s[j][2] <= n
        BY <2>2, <3>1
    <3>2. CASE j - Len(s) \in 1..Len(messages) /\ j \in Nat /\ new[j][2] = messages[j - Len(s)]
      <4>1. j - Len(s) < k - Len(s) /\ j - Len(s) \in DOMAIN messages /\ k - Len(s) \in DOMAIN messages
          BY <1>5, <2>2, <3>2, SMTT(30)
      <4> QED BY <2>2, <3>2, <4>1 DEF Rising
    <3> QED BY <1>3, <3>1, <3>2
  <2> QED BY <1>3, <2>1, <2>2
<1> QED BY <1>1, <1>4, <1>5 DEF AnswersUpTo, Increasing

-------------------------------------------------------------------------------
(* What has been read, piece by piece                                      *)

\* Of m messages, of which the last has not ended if b, t have been received and
\* these pieces are left.
Behind(data, m, b, t) ==
    /\ 2 * t + Len(data) = 2 * m - (IF b THEN 1 ELSE 0)
    /\ \A k \in 1..Len(data) : 2 * (data[k].of - t) = k + (IF data[k].ends THEN 0 ELSE 1)

LEMMA EndsAreWhole ==
    ASSUME NEW data \in Seq(Pieces), NEW m \in Nat, NEW b \in BOOLEAN, NEW t \in Nat,
           Behind(data, m, b, t), NEW k \in 1..Len(data), Ends(data, k)
    PROVE  Whole(data, k) /\ k = 2 * (data[k].of - t) /\ data[k].of \in (t + 1)..m
<1>1. \A j \in 1..Len(data) : data[j] \in Pieces /\ data[j].of \in 1..MaxMessages /\ data[j].ends \in BOOLEAN
  <2>1. \A j \in 1..Len(data) : data[j] \in Pieces
      OBVIOUS
  <2>2. \A x \in Pieces : x.of \in 1..MaxMessages /\ x.ends \in BOOLEAN
      BY DEF Pieces
  <2> QED BY <2>1, <2>2
<1>2. data[k].ends /\ data[k].of \in Int /\ 1..MaxMessages \subseteq Int
    BY <1>1 DEF Ends
<1>3. 2 * (data[k].of - t) = k
    BY <1>2 DEF Behind
<1>4. k > 1 /\ k - 1 \in 1..Len(data)
    BY <1>2, <1>3
<1>5. data[k - 1].of \in Int /\ 2 * (data[k - 1].of - t) = (k - 1) + (IF data[k - 1].ends THEN 0 ELSE 1)
    BY <1>1, <1>2, <1>4 DEF Behind
<1>6. ~data[k - 1].ends /\ data[k - 1].of = data[k].of
    BY <1>2, <1>3, <1>5
<1>7. data[k - 1] = [of |-> data[k].of, ends |-> FALSE]
    BY <1>1, <1>4, <1>6 DEF Pieces
<1>8. k <= Len(data) /\ 2 * t + Len(data) <= 2 * m
    BY DEF Behind
<1> QED BY <1>2, <1>3, <1>4, <1>7, <1>8 DEF Whole

LEMMA LeastNumber ==
    ASSUME NEW T \in SUBSET Nat, T # {}
    PROVE  \E n \in T : \A m \in T : n <= m
<1>1. PICK R : R = OpToRel(<, Nat)
    BY Zenon
<1>2. IsWellFoundedOn(R, Nat)
    BY <1>1, NatLessThanWellFounded, Zenon
<1>3. PICK n \in T : \A m \in T : ~(<<m, n>> \in R)
    BY <1>2, WFMin, Zenon
<1>4. \A m \in T : ~(m < n)
    BY <1>1, <1>3 DEF OpToRel
<1> QED BY <1>3, <1>4

\* The messages that have ended
EndedOf(m, b) == IF b THEN m - 1 ELSE m

\* What is put back is what follows the last that has ended.
LEMMA RemainderRight ==
    ASSUME NEW data \in Seq(Pieces), NEW m \in Nat, NEW b \in BOOLEAN, NEW t \in Nat, Behind(data, m, b, t)
    PROVE  /\ EndedOf(m, b) \in t..m
           /\ Remainder(data) \in Seq(Pieces)
           /\ Behind(Remainder(data), m, b, EndedOf(m, b))
           /\ \A k \in DOMAIN Remainder(data) : ~Remainder(data)[k].ends
<1>1. \A j \in 1..Len(data) : data[j] \in Pieces /\ data[j].of \in Int /\ data[j].ends \in BOOLEAN
  <2>1. \A j \in 1..Len(data) : data[j] \in Pieces
      OBVIOUS
  <2>2. \A x \in Pieces : x.of \in Int /\ x.ends \in BOOLEAN
      BY SocketsAssumption DEF Pieces
  <2> QED BY <2>1, <2>2
<1>2. /\ 2 * t + Len(data) = 2 * m - (IF b THEN 1 ELSE 0)
      /\ \A k \in 1..Len(data) : 2 * (data[k].of - t) = k + (IF data[k].ends THEN 0 ELSE 1)
    BY DEF Behind
<1>3. PICK u : u = EndedOf(m, b)
    OBVIOUS
<1>4. u \in t..m /\ 2 * m - (IF b THEN 1 ELSE 0) = 2 * u + (IF b THEN 1 ELSE 0)
    BY <1>2, <1>3 DEF EndedOf
<1>5. PICK e : e = 2 * (u - t)
    OBVIOUS
<1>6. e \in 0..Len(data) /\ Len(data) = e + (IF b THEN 1 ELSE 0)
    BY <1>2, <1>4, <1>5
<1>7. \A k \in 1..Len(data) : Ends(data, k) => k <= e
  <2> SUFFICES ASSUME NEW k \in 1..Len(data), Ends(data, k), k > e PROVE FALSE
      BY <1>6
  <2>1. k = e + 1
      BY <1>6
  <2>2. 2 * (data[k].of - t) = k
      BY <1>2 DEF Ends
  <2> QED BY <1>1, <1>4, <1>5, <2>1, <2>2
<1>8. e # 0 => Ends(data, e)
  <2> SUFFICES ASSUME e # 0, ~data[e].ends PROVE FALSE
      BY DEF Ends
  <2>1. e \in 1..Len(data)
      BY <1>6
  <2>2. 2 * (data[e].of - t) = e + 1
      BY <1>2, <2>1
  <2> QED BY <1>1, <1>4, <1>5, <2>1, <2>2
<1>9. Remainder(data) = SubSeq(data, e + 1, Len(data))
  <2>1. CASE e = 0
    <3>1. ~\E k \in DOMAIN data : Ends(data, k)
        BY <1>7, <2>1
    <3> QED BY <2>1, <3>1 DEF Remainder
  <2>2. CASE e # 0
    <3>1. /\ e \in DOMAIN data /\ Ends(data, e)
          /\ \A j \in DOMAIN data : Ends(data, j) => j <= e
        BY <1>6, <1>7, <1>8, <2>2
    <3>2. \A k \in DOMAIN data :
             Ends(data, k) /\ (\A j \in DOMAIN data : Ends(data, j) => j <= k) => k = e
        BY <3>1
    <3>3. e = CHOOSE k \in DOMAIN data :
                 Ends(data, k) /\ \A j \in DOMAIN data : Ends(data, j) => j <= k
        BY <3>1, <3>2
    <3> QED BY <3>1, <3>3 DEF Remainder
  <2> QED BY <2>1, <2>2
<1>10. PICK r : r = Remainder(data)
    OBVIOUS
<1>11. r \in Seq(Pieces) /\ Len(r) = (IF b THEN 1 ELSE 0) /\ \A k \in 1..Len(r) : r[k] = data[e + k]
    BY <1>6, <1>9, <1>10
<1>12. ASSUME NEW k \in 1..Len(r)
       PROVE  ~r[k].ends /\ 2 * (r[k].of - u) = k + 1
  <2>1. k = 1 /\ e + 1 \in 1..Len(data) /\ r[k] = data[e + 1]
      BY <1>6, <1>11
  <2>2. ~data[e + 1].ends
      BY <1>6, <1>7, <2>1 DEF Ends
  <2>3. 2 * (data[e + 1].of - t) = (e + 1) + 1
      BY <1>2, <2>1, <2>2
  <2> QED BY <1>1, <1>4, <1>5, <2>1, <2>2, <2>3
<1>13. Behind(r, m, b, u)
    BY <1>4, <1>11, <1>12 DEF Behind
<1> QED BY <1>3, <1>4, <1>10, <1>11, <1>12, <1>13

GatheredFrom(data, K, k, before) ==
    IF Ends(data, k) /\ Whole(data, k) /\ K[data[k].of] # "garbage" THEN Append(before, data[k].of) ELSE before

\* f[k] is what is received with the first k pieces.
Gathers(f, data, K, N) == f = [k \in 0..N |-> IF k = 0 THEN <<>> ELSE GatheredFrom(data, K, k, f[k - 1])]

LEMMA GatheringExists ==
    ASSUME NEW data, NEW K, NEW N \in Nat
    PROVE  \E f : Gathers(f, data, K, N)
<1> DEFINE Exists(n) == \E f : Gathers(f, data, K, n)
           T == {n \in Nat : ~Exists(n)}
<1>1. Exists(0)
  <2>1. PICK f : f = [k \in 0..0 |-> <<>>]
      OBVIOUS
  <2>2. Gathers(f, data, K, 0)
      BY <2>1 DEF Gathers
  <2> QED BY <2>2
<1>2. ASSUME NEW n \in Nat \ {0}, Exists(n - 1)
      PROVE  Exists(n)
  <2>1. PICK g : Gathers(g, data, K, n - 1)
      BY <1>2
  <2>2. PICK f : f = [k \in 0..n |-> IF k = n THEN GatheredFrom(data, K, n, g[n - 1]) ELSE g[k]]
      OBVIOUS
  <2>3. \A k \in 0..(n - 1) : f[k] = g[k]
      BY <2>2
  <2>4. ASSUME NEW k \in 0..n
        PROVE  f[k] = IF k = 0 THEN <<>> ELSE GatheredFrom(data, K, k, f[k - 1])
    <3>1. CASE k = n
      <4>1. f[k] = GatheredFrom(data, K, k, g[k - 1]) /\ g[k - 1] = f[k - 1]
          BY <2>2, <2>3, <3>1
      <4> QED BY <3>1, <4>1
    <3>2. CASE k # n
      <4>1. k \in 0..(n - 1) /\ f[k] = g[k] /\ (k # 0 => f[k - 1] = g[k - 1])
          BY <2>3, <3>2
      <4>2. g[k] = IF k = 0 THEN <<>> ELSE GatheredFrom(data, K, k, g[k - 1])
          BY <2>1, <4>1 DEF Gathers
      <4> QED BY <4>1, <4>2
    <3> QED BY <3>1, <3>2
  <2>5. f = [k \in 0..n |-> IF k = 0 THEN <<>> ELSE GatheredFrom(data, K, k, f[k - 1])]
      BY <2>2, <2>4
  <2> QED BY <2>5 DEF Gathers
<1>3. T = {}
  <2> SUFFICES ASSUME T # {} PROVE FALSE
      OBVIOUS
  <2>1. T \in SUBSET Nat
      OBVIOUS
  <2>2. \A n \in Nat : n \in T <=> ~Exists(n)
      OBVIOUS
  <2> HIDE DEF T, Exists
  <2>3. PICK n \in T : \A m \in T : n <= m
      BY <2>1, LeastNumber
  <2>4. n \in Nat \ {0} /\ n - 1 \in Nat /\ n - 1 \notin T
      BY <1>1, <2>1, <2>2, <2>3
  <2> QED BY <1>2, <2>2, <2>4
<1> QED BY <1>3

LEMMA ReceivedGathers ==
    ASSUME NEW c, NEW data, data = incomingData[c] \o readStream[c], Len(data) \in Nat
    PROVE  \E f : Gathers(f, data, kinds[c], Len(data)) /\ Received(c) = f[Len(data)]
<1>1. PICK f : f = CHOOSE g : Gathers(g, data, kinds[c], Len(data))
    OBVIOUS
<1>2. Received(c) = f[Len(data)]
    BY <1>1, Zenon DEF Received, Gathers, GatheredFrom
<1>3. Gathers(f, data, kinds[c], Len(data))
    BY <1>1, GatheringExists, Zenon
<1> QED BY <1>2, <1>3

LEMMA RisingAppended ==
    ASSUME NEW messages \in Seq(Nat), Rising(messages), NEW x \in Nat, \A i \in ToSet(messages) : i < x
    PROVE  /\ Append(messages, x) \in Seq(Nat) /\ Rising(Append(messages, x))
           /\ ToSet(Append(messages, x)) = ToSet(messages) \cup {x}
<1>1. PICK new : new = Append(messages, x)
    OBVIOUS
<1>2. /\ new \in Seq(Nat) /\ Len(new) = Len(messages) + 1 /\ new[Len(messages) + 1] = x
      /\ \A k \in 1..Len(messages) : new[k] = messages[k]
    BY <1>1
<1>3. \A k \in 1..Len(messages) : messages[k] < x
    BY DEF ToSet
<1>4. Rising(new)
  <2> SUFFICES ASSUME NEW j \in 1..(Len(messages) + 1), NEW k \in 1..(Len(messages) + 1), j < k
               PROVE  new[j] < new[k]
      BY <1>2 DEF Rising
  <2>1. j \in 1..Len(messages) /\ new[j] = messages[j]
      BY <1>2
  <2>2. CASE k \in 1..Len(messages)
    <3>1. messages[j] < messages[k]
        BY <2>1, <2>2 DEF Rising
    <3>2. new[k] = messages[k]
        BY <1>2, <2>2
    <3> QED BY <2>1, <3>1, <3>2
  <2>3. CASE k = Len(messages) + 1
      BY <1>2, <1>3, <2>1, <2>3
  <2> QED BY <2>2, <2>3
<1>5. ToSet(new) = ToSet(messages) \cup {x}
  <2>1. \A k \in 1..(Len(messages) + 1) : k \in 1..Len(messages) \/ k = Len(messages) + 1
      OBVIOUS
  <2>2. \A y : y \in ToSet(new) <=> \E k \in 1..(Len(messages) + 1) : y = new[k]
    <3>1. DOMAIN new = 1..(Len(messages) + 1)
        BY <1>2
    <3> QED BY <3>1 DEF ToSet
  <2>3. \A y : y \in ToSet(messages) <=> \E k \in 1..Len(messages) : y = messages[k]
      BY DEF ToSet
  <2>4. ASSUME NEW y PROVE y \in ToSet(new) <=> y \in ToSet(messages) \/ y = x
    <3>1. ASSUME y \in ToSet(messages) PROVE y \in ToSet(new)
      <4>1. PICK k \in 1..Len(messages) : y = messages[k]
          BY <2>3, <3>1
      <4>2. k \in 1..(Len(messages) + 1) /\ y = new[k]
          BY <1>2, <4>1
      <4> QED BY <2>2, <4>2
    <3>2. x \in ToSet(new)
      <4>1. Len(messages) + 1 \in 1..(Len(messages) + 1)
          OBVIOUS
      <4> QED BY <1>2, <2>2, <4>1
    <3>3. ASSUME y \in ToSet(new) PROVE y \in ToSet(messages) \/ y = x
        BY <1>2, <2>1, <2>2, <2>3, <3>3
    <3> QED BY <3>1, <3>2, <3>3
  <2> QED BY <2>4
<1> QED BY <1>1, <1>2, <1>4, <1>5

\* What the first n pieces give is the messages that end among them.
GatheredRight(f, K, m, t, n) ==
    /\ f[n] \in Seq(Nat) /\ Rising(f[n])
    /\ \A i : i \in ToSet(f[n]) <=> i \in (t + 1)..m /\ 2 * (i - t) <= n /\ K[i] # "garbage"

LEMMA GatheringStep ==
    ASSUME NEW data \in Seq(Pieces), NEW m \in Nat, NEW b \in BOOLEAN, NEW t \in Nat,
           Behind(data, m, b, t), NEW K, NEW f, Gathers(f, data, K, Len(data)),
           NEW n \in 1..Len(data), GatheredRight(f, K, m, t, n - 1)
    PROVE  GatheredRight(f, K, m, t, n)
<1>1. f[n] = GatheredFrom(data, K, n, f[n - 1])
    BY DEF Gathers
<1>2. PICK x, before : x = data[n].of /\ before = f[n - 1]
    OBVIOUS
<1>3. /\ before \in Seq(Nat) /\ Rising(before)
      /\ \A i : i \in ToSet(before) <=> i \in (t + 1)..m /\ 2 * (i - t) <= n - 1 /\ K[i] # "garbage"
    BY <1>2 DEF GatheredRight
<1>4. CASE Ends(data, n)
  <2>1. Whole(data, n) /\ n = 2 * (x - t) /\ x \in (t + 1)..m
      BY <1>2, <1>4, EndsAreWhole
  <2>2. \A i \in (t + 1)..m : 2 * (i - t) <= n <=> (2 * (i - t) <= n - 1 \/ i = x)
      BY <2>1
  <2>3. CASE K[x] = "garbage"
    <3>1. f[n] = before
        BY <1>1, <1>2, <2>3 DEF GatheredFrom
    <3> QED BY <1>3, <2>2, <2>3, <3>1 DEF GatheredRight
  <2>4. CASE K[x] # "garbage"
    <3>1. f[n] = Append(before, x)
        BY <1>1, <1>2, <1>4, <2>1, <2>4 DEF GatheredFrom
    <3>2. \A i \in ToSet(before) : i < x
        BY <1>3, <2>1
    <3>3. f[n] \in Seq(Nat) /\ Rising(f[n]) /\ ToSet(f[n]) = ToSet(before) \cup {x}
        BY <1>3, <2>1, <3>1, <3>2, RisingAppended
    <3>4. \A i : i \in ToSet(f[n]) <=> i \in (t + 1)..m /\ 2 * (i - t) <= n /\ K[i] # "garbage"
        BY <1>3, <2>1, <2>2, <2>4, <3>3
    <3> QED BY <3>3, <3>4 DEF GatheredRight
  <2> QED BY <2>3, <2>4
<1>5. CASE ~Ends(data, n)
  <2>1. f[n] = before
      BY <1>1, <1>2, <1>5 DEF GatheredFrom
  <2>2. x \in Int /\ 2 * (x - t) = n + 1
    <3>1. data[n] \in Pieces
        OBVIOUS
    <3>2. x \in Int
        BY <1>2, <3>1, SocketsAssumption DEF Pieces
    <3> QED BY <1>2, <1>5, <3>2 DEF Behind, Ends
  <2>3. \A i \in (t + 1)..m : 2 * (i - t) <= n <=> 2 * (i - t) <= n - 1
    <3> SUFFICES ASSUME NEW i \in (t + 1)..m, 2 * (i - t) = n PROVE FALSE
        OBVIOUS
    <3> QED BY <2>2
  <2> QED BY <1>3, <2>1, <2>3 DEF GatheredRight
<1> QED BY <1>4, <1>5

LEMMA GatheringRight ==
    ASSUME NEW data \in Seq(Pieces), NEW m \in Nat, NEW b \in BOOLEAN, NEW t \in Nat,
           Behind(data, m, b, t), NEW K, NEW f, Gathers(f, data, K, Len(data))
    PROVE  \A n \in 0..Len(data) : GatheredRight(f, K, m, t, n)
<1> DEFINE T == {n \in 0..Len(data) : ~GatheredRight(f, K, m, t, n)}
<1>1. GatheredRight(f, K, m, t, 0)
  <2>1. f[0] = <<>>
      BY DEF Gathers
  <2>2. \A i : i \notin ToSet(f[0])
      BY <2>1 DEF ToSet
  <2>3. \A i \in (t + 1)..m : ~(2 * (i - t) <= 0)
      OBVIOUS
  <2>4. f[0] \in Seq(Nat) /\ Rising(f[0])
      BY <2>1 DEF Rising
  <2> QED BY <2>2, <2>3, <2>4 DEF GatheredRight
<1>2. T = {}
  <2> SUFFICES ASSUME T # {} PROVE FALSE
      OBVIOUS
  <2>1. T \in SUBSET Nat
      OBVIOUS
  <2>2. PICK n \in T : \A k \in T : n <= k
      BY <2>1, LeastNumber
  <2>3. n \in 1..Len(data) /\ n - 1 \in 0..Len(data)
      BY <1>1, <2>2
  <2>4. n - 1 \notin T
      BY <2>1, <2>2
  <2>5. GatheredRight(f, K, m, t, n - 1)
      BY <2>3, <2>4
  <2> HIDE DEF T
  <2>6. GatheredRight(f, K, m, t, n)
      BY <2>3, <2>5, GatheringStep
  <2> USE DEF T
  <2> QED BY <2>2, <2>6
<1> QED BY <1>2

Unread(c) == incomingData[c] \o readStream[c]

\* Of the messages of c, t have been received.
ReadUpTo(c, t) ==
    /\ Behind(Unread(c), Len(kinds[c]), begun[c], t)
    /\ \A k \in DOMAIN incomingData[c] : ~incomingData[c][k].ends

LEMMA ReceivedRight ==
    ASSUME NEW c, Unread(c) \in Seq(Pieces), Len(kinds[c]) \in Nat, begun[c] \in BOOLEAN,
           NEW t \in Nat, ReadUpTo(c, t)
    PROVE  /\ Received(c) \in Seq(Nat) /\ Rising(Received(c))
           /\ ToSet(Received(c)) =
                 {i \in (t + 1)..EndedOf(Len(kinds[c]), begun[c]) : kinds[c][i] # "garbage"}
<1>1. PICK data, K, m, b : data = Unread(c) /\ K = kinds[c] /\ m = Len(kinds[c]) /\ b = begun[c]
    OBVIOUS
<1>2. data \in Seq(Pieces) /\ m \in Nat /\ b \in BOOLEAN /\ Behind(data, m, b, t)
    BY <1>1 DEF ReadUpTo
<1>3. PICK f : Gathers(f, data, K, Len(data)) /\ Received(c) = f[Len(data)]
  <2>1. data = incomingData[c] \o readStream[c]
      BY <1>1 DEF Unread
  <2>2. Len(data) \in Nat
      BY <1>2
  <2> QED BY <1>1, <2>1, <2>2, ReceivedGathers
<1>4. GatheredRight(f, K, m, t, Len(data))
    BY <1>2, <1>3, GatheringRight
<1>5. /\ Received(c) \in Seq(Nat) /\ Rising(Received(c))
      /\ \A i : i \in ToSet(Received(c)) <=>
                   i \in (t + 1)..m /\ 2 * (i - t) <= Len(data) /\ K[i] # "garbage"
    BY <1>3, <1>4 DEF GatheredRight
<1>6. 2 * t + Len(data) = 2 * m - (IF b THEN 1 ELSE 0)
    BY <1>2 DEF Behind
<1>7. \A i : i \in (t + 1)..m /\ 2 * (i - t) <= Len(data) <=> i \in (t + 1)..EndedOf(m, b)
    BY <1>2, <1>6 DEF EndedOf
<1> QED BY <1>1, <1>5, <1>7

-------------------------------------------------------------------------------
(* A conversation: what a program has been sent, up to the t-th of its      *)
(* messages.  It is waiting, initialising (with its message req) or a       *)
(* client.                                                                  *)

Answered == {"action", "assignment"}

Waiting(s, K, t) ==
    /\ Numbers(s, "initialisation_failure") = {i \in 1..t : K[i] # "garbage"}
    /\ \A o : o # "initialisation_failure" => Numbers(s, o) = {}
Initialising(s, K, t, req) ==
    /\ Numbers(s, "initialisation_success") = {} /\ Numbers(s, "answer") = {}
    /\ req \in 1..t /\ K[req] = "initialise" /\ AnswersUpTo(s, req - 1)
Served(s, K, t) ==
    /\ \E i \in 1..t : K[i] = "initialise" /\ Numbers(s, "initialisation_success") = {i}
    /\ \E u \in 0..t : Numbers(s, "answer") = {i \in (u + 1)..t : K[i] \in Answered}

Conversing(s, K, t, stage, req) ==
    /\ AnswersUpTo(s, t)
    /\ stage = "waiting" => Waiting(s, K, t)
    /\ stage = "initialising" => Initialising(s, K, t, req)
    /\ stage = "client" => Served(s, K, t)

\* Up to date with the notices since `from', and with the cached v
Informed(s, subs, stage, from, n, v) ==
    /\ stage \in {"initialising", "client"} /\ "notice" \in subs => from <= n /\ NoticesFrom(s, from, n)
    /\ stage = "client" /\ "state" \in subs /\ v # Uncached => LatestState(s, v)

LEMMA SentMore ==
    ASSUME NEW s, NEW K \in Seq(MessageKinds), NEW t \in Nat, t <= Len(K), NEW stage, NEW req, NEW kind,
           Conversing(s, K, t, stage, req)
    PROVE  Conversing(s, Append(K, kind), t, stage, req)
<1>1. PICK new : new = Append(K, kind)
    OBVIOUS
<1>2. \A i \in 1..t : new[i] = K[i]
    BY <1>1
<1>3. Waiting(s, K, t) => Waiting(s, new, t)
    BY <1>2 DEF Waiting
<1>4. Initialising(s, K, t, req) => Initialising(s, new, t, req)
    BY <1>2 DEF Initialising
<1>5. Served(s, K, t) => Served(s, new, t)
  <2> SUFFICES ASSUME Served(s, K, t) PROVE Served(s, new, t)
      OBVIOUS
  <2>1. \E i \in 1..t : new[i] = "initialise" /\ Numbers(s, "initialisation_success") = {i}
      BY <1>2 DEF Served
  <2>2. PICK u \in 0..t : Numbers(s, "answer") = {i \in (u + 1)..t : K[i] \in Answered}
      BY DEF Served
  <2>3. \A i \in (u + 1)..t : i \in 1..t
      OBVIOUS
  <2>4. {i \in (u + 1)..t : K[i] \in Answered} = {i \in (u + 1)..t : new[i] \in Answered}
      BY <1>2, <2>3
  <2> QED BY <2>1, <2>2, <2>4 DEF Served
<1> QED BY <1>1, <1>3, <1>4, <1>5 DEF Conversing

LEMMA MoreAnswers ==
    ASSUME NEW s \in Seq(Outbound), NEW n \in Nat, NEW m \in Nat, n <= m, AnswersUpTo(s, n)
    PROVE  AnswersUpTo(s, m)
<1>1. \A k \in PlacesOf(s, Answers) : s[k][2] \in Nat /\ s[k][2] <= n
    BY PlacesAre DEF AnswersUpTo
<1> QED BY <1>1 DEF AnswersUpTo

\* An event is sent.
LEMMA EventConversing ==
    ASSUME NEW s \in Seq(Outbound), NEW K, NEW t \in Nat, NEW stage, stage # "waiting", NEW req \in Nat,
           Conversing(s, K, t, stage, req), NEW sort \in {"notice", "state"}, NEW i \in Nat
    PROVE  Conversing(Append(s, <<sort, i>>), K, t, stage, req)
<1>1. PICK new : new = Append(s, <<sort, i>>)
    OBVIOUS
<1>2. sort \in Sorts /\ sort \notin Answers
    BY DEF Sorts, Answers
<1>3. \A o \in Answers : Numbers(new, o) = Numbers(s, o)
    BY <1>1, <1>2, AppendedNumbers
<1>4. \A n : AnswersUpTo(s, n) => AnswersUpTo(new, n)
    BY <1>1, EventAppended
<1>5. "initialisation_success" \in Answers /\ "answer" \in Answers
    BY DEF Answers
<1>6. Initialising(s, K, t, req) => Initialising(new, K, t, req)
    BY <1>3, <1>4, <1>5 DEF Initialising
<1>7. Served(s, K, t) => Served(new, K, t)
    BY <1>3, <1>5 DEF Served
<1> QED BY <1>1, <1>4, <1>6, <1>7 DEF Conversing

\* Those received while it waits fail.
LEMMA RefusedConversing ==
    ASSUME NEW s \in Seq(Outbound), NEW K, NEW t \in Nat, NEW u \in Nat, t <= u, NEW req,
           Conversing(s, K, t, "waiting", req), NEW messages \in Seq(Nat), Rising(messages),
           ToSet(messages) = {i \in (t + 1)..u : K[i] # "garbage"}
    PROVE  Conversing(s \o Failures(messages), K, u, "waiting", req)
<1>1. PICK new : new = s \o Failures(messages)
    OBVIOUS
<1>2. AnswersUpTo(new, u)
  <2>1. ToSet(messages) \subseteq (t + 1)..u
      OBVIOUS
  <2> QED BY <1>1, <2>1, FailingAnswers DEF Conversing
<1>3. Waiting(s, K, t)
    BY DEF Conversing
<1>4. Numbers(new, "initialisation_failure") = {i \in 1..u : K[i] # "garbage"}
  <2>1. Numbers(new, "initialisation_failure") =
           {i \in 1..t : K[i] # "garbage"} \cup {i \in (t + 1)..u : K[i] # "garbage"}
      BY <1>1, <1>3, FailingNumbers DEF Waiting
  <2>2. \A i : i \in 1..u <=> i \in 1..t \/ i \in (t + 1)..u
      OBVIOUS
  <2> QED BY <2>1, <2>2
<1>5. \A o : o # "initialisation_failure" => Numbers(new, o) = {}
    BY <1>1, <1>3, FailingNumbers DEF Waiting
<1> QED BY <1>1, <1>2, <1>4, <1>5 DEF Conversing, Waiting

\* Those before the first that initialises fail.
LEMMA UpgradedConversing ==
    ASSUME NEW s \in Seq(Outbound), NEW K, NEW t \in Nat, NEW u \in Nat, t <= u, NEW req,
           Conversing(s, K, t, "waiting", req), NEW messages \in Seq(Nat), Rising(messages),
           ToSet(messages) = {i \in (t + 1)..u : K[i] # "garbage"},
           NEW k \in DOMAIN messages, K[messages[k]] = "initialise"
    PROVE  /\ Conversing(s \o Failures(SubSeq(messages, 1, k - 1)), K, u, "initialising", messages[k])
           /\ Numbers(s \o Failures(SubSeq(messages, 1, k - 1)), "notice") = {}
           /\ messages[k] \in 1..u
<1>1. PICK first : first = SubSeq(messages, 1, k - 1)
    OBVIOUS
<1>2. first \in Seq(Nat) /\ Len(first) = k - 1 /\ \A j \in 1..(k - 1) : first[j] = messages[j]
    BY <1>1
<1>3. PICK x : x = messages[k]
    OBVIOUS
<1>4. x \in (t + 1)..u
    BY <1>3 DEF ToSet
<1>5. Rising(first)
  <2>1. DOMAIN first = 1..(k - 1) /\ \A j \in 1..(k - 1) : j \in DOMAIN messages
      BY <1>2
  <2> QED BY <1>2, <2>1 DEF Rising
<1>6. ToSet(first) \subseteq (t + 1)..(x - 1)
  <2> SUFFICES ASSUME NEW j \in 1..(k - 1) PROVE messages[j] \in (t + 1)..(x - 1)
      BY <1>2 DEF ToSet
  <2>1. messages[j] \in (t + 1)..u
      BY DEF ToSet
  <2>2. messages[j] < x
      BY <1>3 DEF Rising
  <2> QED BY <1>4, <2>1, <2>2
<1>7. PICK new : new = s \o Failures(first)
    OBVIOUS
<1>8. AnswersUpTo(new, x - 1)
    BY <1>2, <1>4, <1>5, <1>6, <1>7, FailingAnswers DEF Conversing
<1>9. new \in Seq(Outbound)
    BY <1>2, <1>7, FailingPlaces
<1>10. AnswersUpTo(new, u)
    BY <1>4, <1>8, <1>9, MoreAnswers
<1>11. \A o : o # "initialisation_failure" => Numbers(new, o) = {}
    BY <1>2, <1>7, FailingNumbers DEF Conversing, Waiting
<1>12. Initialising(new, K, u, x)
    BY <1>3, <1>4, <1>8, <1>11 DEF Initialising
<1>13. Conversing(new, K, u, "initialising", x)
    BY <1>10, <1>12 DEF Conversing
<1>14. Numbers(new, "notice") = {} /\ x \in 1..u
    BY <1>4, <1>11
<1> QED BY <1>1, <1>3, <1>7, <1>13, <1>14

LEMMA WelcomedConversing ==
    ASSUME NEW s \in Seq(Outbound), NEW K, NEW t \in Nat, NEW req \in Nat, NEW other,
           Conversing(s, K, t, "initialising", req)
    PROVE  Conversing(Append(s, <<"initialisation_success", req>>), K, t, "client", other)
<1>1. PICK new : new = Append(s, <<"initialisation_success", req>>)
    OBVIOUS
<1>2. Initialising(s, K, t, req)
    BY DEF Conversing
<1>3. "initialisation_success" \in Answers /\ "initialisation_success" \in Sorts
    BY DEF Answers, Sorts
<1>4. AnswersUpTo(new, req)
    BY <1>1, <1>2, <1>3, AnswerAppended DEF Initialising
<1>5. new \in Seq(Outbound)
    BY <1>1, <1>3, AppendedPlaces
<1>6. AnswersUpTo(new, t)
    BY <1>2, <1>4, <1>5, MoreAnswers DEF Initialising
<1>7. Numbers(new, "initialisation_success") = {req} /\ Numbers(new, "answer") = {}
    BY <1>1, <1>2, <1>3, AppendedNumbers DEF Initialising
<1>8. {i \in (t + 1)..t : K[i] \in Answered} = {}
    OBVIOUS
<1>9. Served(new, K, t)
    BY <1>2, <1>7, <1>8 DEF Served, Initialising
<1> QED BY <1>1, <1>6, <1>9 DEF Conversing

\* In touch: in conversation, and informed.
InTouch(s, K, t, stage, req, subs, from, n, v) ==
    Conversing(s, K, t, stage, req) /\ Informed(s, subs, stage, from, n, v)

LEMMA SentAppended ==
    ASSUME NEW h \in Seq(Outbound), NEW w \in Seq(Outbound), NEW sort \in Sorts, NEW i \in Nat
    PROVE  /\ h \o w \in Seq(Outbound) /\ Append(w, <<sort, i>>) \in Seq(Outbound)
           /\ h \o Append(w, <<sort, i>>) = Append(h \o w, <<sort, i>>)
<1>1. PICK m : m = <<sort, i>>
    OBVIOUS
<1>2. m \in Outbound
    BY <1>1 DEF Outbound
<1>3. /\ h \o w \in Seq(Outbound) /\ Append(w, m) \in Seq(Outbound)
      /\ h \o Append(w, m) = Append(h \o w, m)
    BY <1>2
<1> QED BY <1>1, <1>3

\* Another notice has been sent, to it if it subscribed.
LEMMA NoticeTouching ==
    ASSUME NEW s \in Seq(Outbound), NEW K, NEW t \in Nat, NEW stage \in {"initialising", "client"},
           NEW req \in Nat, NEW subs, NEW from \in Nat, NEW n \in Nat, NEW v,
           InTouch(s, K, t, stage, req, subs, from, n, v)
    PROVE  /\ "notice" \in subs =>
                 InTouch(Append(s, Notice(n + 1)), K, t, stage, req, subs, from, n + 1, v)
           /\ "notice" \notin subs => InTouch(s, K, t, stage, req, subs, from, n + 1, v)
<1>1. ASSUME "notice" \in subs
      PROVE  InTouch(Append(s, Notice(n + 1)), K, t, stage, req, subs, from, n + 1, v)
  <2>1. PICK new : new = Append(s, Notice(n + 1))
      OBVIOUS
  <2>2. new = Append(s, <<"notice", n + 1>>) /\ n + 1 \in Nat
      BY <2>1 DEF Notice
  <2>3. Conversing(new, K, t, stage, req)
      BY <2>2, EventConversing DEF InTouch
  <2>4. from <= n + 1 /\ NoticesFrom(new, from, n + 1)
      BY <1>1, <2>1, NoticeAppended DEF InTouch, Informed
  <2>5. stage = "client" /\ "state" \in subs /\ v # Uncached => LatestState(new, v)
      BY <2>2, StateKept DEF InTouch, Informed, Sorts
  <2> QED BY <2>1, <2>3, <2>4, <2>5 DEF InTouch, Informed
<1>2. ASSUME "notice" \notin subs
      PROVE  InTouch(s, K, t, stage, req, subs, from, n + 1, v)
    BY <1>2 DEF InTouch, Informed
<1> QED BY <1>1, <1>2

\* The state w has been sent, to it if it subscribed.
LEMMA StateTouching ==
    ASSUME NEW s \in Seq(Outbound), NEW K, NEW t \in Nat, NEW stage \in {"initialising", "client"},
           NEW req \in Nat, NEW subs, NEW from, NEW n, NEW v, NEW w \in Nat,
           InTouch(s, K, t, stage, req, subs, from, n, v)
    PROVE  /\ "state" \in subs =>
                 InTouch(Append(s, State(w)), K, t, stage, req, subs, from, n, w)
           /\ "state" \notin subs => InTouch(s, K, t, stage, req, subs, from, n, w)
<1>1. ASSUME "state" \in subs
      PROVE  InTouch(Append(s, State(w)), K, t, stage, req, subs, from, n, w)
  <2>1. PICK new : new = Append(s, State(w))
      OBVIOUS
  <2>2. new = Append(s, <<"state", w>>)
      BY <2>1 DEF State
  <2>3. Conversing(new, K, t, stage, req)
      BY <2>2, EventConversing DEF InTouch
  <2>4. "notice" \in subs => from <= n /\ NoticesFrom(new, from, n)
      BY <2>2, OtherAppended DEF InTouch, Informed, Sorts
  <2>5. LatestState(new, w)
      BY <2>1, StateAppended
  <2> QED BY <2>1, <2>3, <2>4, <2>5 DEF InTouch, Informed
<1>2. ASSUME "state" \notin subs
      PROVE  InTouch(s, K, t, stage, req, subs, from, n, w)
    BY <1>2 DEF InTouch, Informed
<1> QED BY <1>1, <1>2

\* Who is no client yet, or no more, has nothing to be informed of.
LEMMA Uninformed ==
    ASSUME NEW s, NEW K, NEW t, NEW stage, stage \notin {"initialising", "client"},
           NEW req, NEW subs, NEW from, NEW n, NEW v, NEW r, NEW n2, NEW v2,
           InTouch(s, K, t, stage, req, subs, from, n, v)
    PROVE  InTouch(s, K, t, stage, r, subs, from, n2, v2)
BY DEF InTouch, Informed, Conversing

\* An answer is sent to a client.
LEMMA AnswerInforming ==
    ASSUME NEW s \in Seq(Outbound), NEW sort \in Answers, NEW i \in Nat, NEW subs, NEW from, NEW n, NEW v,
           Informed(s, subs, "client", from, n, v)
    PROVE  Informed(Append(s, <<sort, i>>), subs, "client", from, n, v)
<1>1. sort \in Sorts \ {"notice"} /\ sort \in Sorts \ {"state"}
    BY DEF Sorts, Answers
<1>2. "notice" \in subs => from <= n /\ NoticesFrom(Append(s, <<sort, i>>), from, n)
    BY <1>1, OtherAppended DEF Informed
<1>3. "state" \in subs /\ v # Uncached => LatestState(Append(s, <<sort, i>>), v)
    BY <1>1, StateKept DEF Informed
<1> QED BY <1>2, <1>3 DEF Informed

\* Since it became a client there has been no notice.
LEMMA JustJoined ==
    ASSUME NEW s, NEW subs, NEW n \in Nat, NEW v, Numbers(s, "notice") = {}
    PROVE  Informed(s, subs, "initialising", n, n, v)
<1>1. PlacesOf(s, {"notice"}) = {}
    BY DEF Numbers
<1>2. Increasing(s, {"notice"})
    BY <1>1 DEF Increasing
<1>3. (n + 1)..n = {}
    OBVIOUS
<1> QED BY <1>2, <1>3 DEF Informed, NoticesFrom

\* It is welcomed as a client, and if it subscribed to states, sent the one
\* resolved, w, perhaps with the event that it has been resolved.
LEMMA Welcoming ==
    ASSUME NEW s \in Seq(Outbound), NEW K, NEW t \in Nat, NEW req \in Nat, NEW subs,
           NEW from \in Nat, NEW n \in Nat, NEW v, NEW w \in Nat, NEW other \in Nat,
           InTouch(s, K, t, "initialising", req, subs, from, n, v),
           NEW new, new = Append(s, <<"initialisation_success", req>>)
    PROVE  /\ new \in Seq(Outbound)
           /\ "state" \notin subs => InTouch(new, K, t, "client", other, subs, from, n, v)
           /\ "state" \in subs =>
                 /\ InTouch(Append(new, State(w)), K, t, "client", other, subs, from, n, w)
                 /\ InTouch(Append(Append(new, State(w)), State(w)), K, t, "client", other, subs, from, n, w)
<1>1. Conversing(new, K, t, "client", other)
    BY WelcomedConversing DEF InTouch
<1>2. "initialisation_success" \in Sorts \ {"notice"}
    BY DEF Sorts
<1>3. new \in Seq(Outbound)
    BY <1>2, AppendedPlaces
<1>4. "notice" \in subs => from <= n /\ NoticesFrom(new, from, n)
    BY <1>2, OtherAppended DEF InTouch, Informed
<1>5. "state" \notin subs => InTouch(new, K, t, "client", other, subs, from, n, v)
    BY <1>1, <1>4 DEF InTouch, Informed
<1>6. InTouch(new, K, t, "client", other, subs, from, n, Uncached)
    BY <1>1, <1>4 DEF InTouch, Informed
<1>7. ASSUME "state" \in subs
      PROVE  /\ InTouch(Append(new, State(w)), K, t, "client", other, subs, from, n, w)
             /\ InTouch(Append(Append(new, State(w)), State(w)), K, t, "client", other, subs, from, n, w)
  <2>1. PICK once : once = Append(new, State(w))
      OBVIOUS
  <2>2. InTouch(once, K, t, "client", other, subs, from, n, w)
      BY <1>3, <1>6, <1>7, <2>1, StateTouching
  <2>3. once = Append(new, <<"state", w>>) /\ "state" \in Sorts
      BY <2>1 DEF State, Sorts
  <2>4. once \in Seq(Outbound)
      BY <1>3, <2>3, AppendedPlaces
  <2>5. InTouch(Append(once, State(w)), K, t, "client", other, subs, from, n, w)
      BY <1>7, <2>2, <2>4, StateTouching
  <2> QED BY <2>1, <2>2, <2>5
<1> QED BY <1>3, <1>5, <1>7

-------------------------------------------------------------------------------
(* A client's messages are processed, one after the other.                 *)

\* The first k have been; before them answers, for messages up to t, were
\* given to those in old, and success to those in welcome.
Processing(s, K, messages, k, t, u, welcome, old) ==
    /\ \E top \in t..u : AnswersUpTo(s, top) /\ \A j \in (k + 1)..Len(messages) : top < messages[j]
    /\ Numbers(s, "initialisation_success") = welcome
    /\ \A i : i \in Numbers(s, "answer") <=>
                 i \in old \/ \E j \in 1..k : messages[j] = i /\ K[i] \in Answered

LEMMA ProcessingStarts ==
    ASSUME NEW s, NEW K, NEW messages \in Seq(Nat), NEW t \in Nat, NEW u \in Nat, t <= u,
           AnswersUpTo(s, t), ToSet(messages) \subseteq (t + 1)..u
    PROVE  Processing(s, K, messages, 0, t, u, Numbers(s, "initialisation_success"), Numbers(s, "answer"))
<1>1. \A j \in (0 + 1)..Len(messages) : t < messages[j]
  <2>1. \A j \in 1..Len(messages) : messages[j] \in ToSet(messages)
      BY DEF ToSet
  <2>2. \A j \in 1..Len(messages) : messages[j] \in (t + 1)..u
      BY <2>1
  <2> QED BY <2>2
<1>2. t \in t..u
    OBVIOUS
<1> QED BY <1>1, <1>2 DEF Processing

\* A message is not answered, or it is, and a notice may be sent meanwhile.
LEMMA ProcessingStep ==
    ASSUME NEW s \in Seq(Outbound), NEW K, NEW messages \in Seq(Nat), Rising(messages),
           NEW t \in Nat, NEW u \in Nat, ToSet(messages) \subseteq (t + 1)..u,
           NEW welcome, NEW old, NEW k \in 1..Len(messages),
           Processing(s, K, messages, k - 1, t, u, welcome, old)
    PROVE  /\ K[messages[k]] \notin Answered => Processing(s, K, messages, k, t, u, welcome, old)
           /\ K[messages[k]] \in Answered =>
                 Processing(Append(s, Answer("answer", messages[k])), K, messages, k, t, u, welcome, old)
<1>1. PICK x : x = messages[k]
    OBVIOUS
<1>2. PICK top \in t..u : AnswersUpTo(s, top) /\ \A j \in k..Len(messages) : top < messages[j]
  <2>1. (k - 1) + 1 = k
      OBVIOUS
  <2> QED BY <2>1 DEF Processing
<1>3. x \in (t + 1)..u /\ x \in Nat /\ top < x
  <2>1. x \in ToSet(messages)
      BY <1>1 DEF ToSet
  <2>2. k \in k..Len(messages)
      OBVIOUS
  <2> QED BY <1>1, <1>2, <2>1, <2>2
<1>4. \A i : i \in Numbers(s, "answer") <=>
                i \in old \/ \E j \in 1..(k - 1) : messages[j] = i /\ K[i] \in Answered
    BY DEF Processing
<1>5. \A j : j \in 1..k <=> j \in 1..(k - 1) \/ j = k
    OBVIOUS
<1>6. ASSUME K[x] \notin Answered PROVE Processing(s, K, messages, k, t, u, welcome, old)
  <2>1. \A j \in (k + 1)..Len(messages) : top < messages[j]
      BY <1>2
  <2>2. \A i : i \in Numbers(s, "answer") <=>
                  i \in old \/ \E j \in 1..k : messages[j] = i /\ K[i] \in Answered
      BY <1>1, <1>4, <1>5, <1>6
  <2> QED BY <1>2, <2>1, <2>2 DEF Processing
<1>7. ASSUME K[x] \in Answered
      PROVE  Processing(Append(s, Answer("answer", x)), K, messages, k, t, u, welcome, old)
  <2>1. PICK new : new = Append(s, <<"answer", x>>)
      OBVIOUS
  <2>2. "answer" \in Answers /\ "answer" \in Sorts
      BY DEF Answers, Sorts
  <2>3. AnswersUpTo(new, x)
      BY <1>2, <1>3, <2>1, <2>2, AnswerAppended
  <2>4. \A j \in (k + 1)..Len(messages) : x < messages[j]
      BY <1>1 DEF Rising
  <2>5. /\ Numbers(new, "initialisation_success") = Numbers(s, "initialisation_success")
        /\ Numbers(new, "answer") = Numbers(s, "answer") \cup {x}
      BY <1>3, <2>1, <2>2, AppendedNumbers
  <2>6. \A i : i \in Numbers(new, "answer") <=>
                  i \in old \/ \E j \in 1..k : messages[j] = i /\ K[i] \in Answered
      BY <1>1, <1>4, <1>5, <1>7, <2>5
  <2>7. x \in t..u
      BY <1>3
  <2>8. Processing(new, K, messages, k, t, u, welcome, old)
      BY <2>3, <2>4, <2>5, <2>6, <2>7 DEF Processing
  <2> QED BY <2>1, <2>8 DEF Answer
<1> QED BY <1>1, <1>6, <1>7

LEMMA ProcessingNotice ==
    ASSUME NEW s \in Seq(Outbound), NEW K, NEW messages, NEW k, NEW t, NEW u, NEW welcome, NEW old,
           NEW n \in Nat, Processing(s, K, messages, k, t, u, welcome, old)
    PROVE  Processing(Append(s, Notice(n)), K, messages, k, t, u, welcome, old)
<1>1. PICK new : new = Append(s, <<"notice", n>>)
    OBVIOUS
<1>2. "notice" \in Sorts
    BY DEF Sorts
<1>3. /\ Numbers(new, "initialisation_success") = Numbers(s, "initialisation_success")
      /\ Numbers(new, "answer") = Numbers(s, "answer")
    BY <1>1, <1>2, AppendedNumbers
<1>4. \A top : AnswersUpTo(s, top) => AnswersUpTo(new, top)
    BY <1>1, EventAppended
<1>5. Processing(new, K, messages, k, t, u, welcome, old)
    BY <1>3, <1>4 DEF Processing
<1> QED BY <1>1, <1>5 DEF Notice

LEMMA ProcessingEnds ==
    ASSUME NEW s \in Seq(Outbound), NEW K, NEW messages \in Seq(Nat), NEW t \in Nat, NEW u \in Nat, t <= u,
           ToSet(messages) = {i \in (t + 1)..u : K[i] # "garbage"}, NEW before, NEW req,
           Conversing(before, K, t, "client", req),
           Processing(s, K, messages, Len(messages), t, u,
                      Numbers(before, "initialisation_success"), Numbers(before, "answer"))
    PROVE  Conversing(s, K, u, "client", req)
<1>1. AnswersUpTo(s, u)
  <2>1. PICK top \in t..u : AnswersUpTo(s, top)
      BY DEF Processing
  <2>2. top \in Nat /\ top <= u
      BY <2>1
  <2> QED BY <2>1, <2>2, MoreAnswers
<1>2. Served(before, K, t)
    BY DEF Conversing
<1>3. \E i \in 1..u : K[i] = "initialise" /\ Numbers(s, "initialisation_success") = {i}
  <2>1. \A i \in 1..t : i \in 1..u
      OBVIOUS
  <2>2. Numbers(s, "initialisation_success") = Numbers(before, "initialisation_success")
      BY DEF Processing
  <2> QED BY <1>2, <2>1, <2>2 DEF Served
<1>4. PICK w \in 0..t : Numbers(before, "answer") = {i \in (w + 1)..t : K[i] \in Answered}
    BY <1>2 DEF Served
<1>5. Numbers(s, "answer") = {i \in (w + 1)..u : K[i] \in Answered}
  <2>1. \A i : i \in Numbers(s, "answer") <=>
                  \/ i \in Numbers(before, "answer")
                  \/ \E j \in 1..Len(messages) : messages[j] = i /\ K[i] \in Answered
      BY DEF Processing
  <2>2. \A i : (\E j \in 1..Len(messages) : messages[j] = i) <=> i \in ToSet(messages)
      BY DEF ToSet
  <2>3. \A i : K[i] \in Answered => K[i] # "garbage"
      BY DEF Answered
  <2>4. \A i : i \in Numbers(s, "answer") <=>
                  (i \in (w + 1)..t /\ K[i] \in Answered) \/ (i \in (t + 1)..u /\ K[i] \in Answered)
      BY <1>4, <2>1, <2>2, <2>3
  <2>5. \A i : i \in (w + 1)..u <=> i \in (w + 1)..t \/ i \in (t + 1)..u
      OBVIOUS
  <2> QED BY <2>4, <2>5
<1>6. w \in 0..u
    OBVIOUS
<1>7. Served(s, K, u)
    BY <1>3, <1>5, <1>6 DEF Served
<1> QED BY <1>1, <1>7 DEF Conversing

-------------------------------------------------------------------------------
(* What the server sends to one socket while it serves it (Outcome)        *)

StreamsTyped(streams) == streams \in [Sockets -> Seq(Outbound)]
StageOf(c) == IF c = initialising THEN "initialising" ELSE link[c]
StagesTyped ==
    \A c \in Sockets : /\ heard[c] \in Seq(Outbound) /\ joined[c] \in Nat
                       /\ link[c] # "initialising"
                       /\ link[c] # "client" => c # initialising

LEMMA EventSent ==
    ASSUME NEW streams, StreamsTyped(streams), NEW topic, NEW m \in Outbound,
           NEW after, after = SendEvent(streams, topic, m)
    PROVE  /\ StreamsTyped(after)
           /\ \A d \in Sockets :
                 /\ link[d] = "client" /\ topic \in Subscriptions[d] => after[d] = Append(streams[d], m)
                 /\ link[d] # "client" \/ topic \notin Subscriptions[d] => after[d] = streams[d]
<1>1. after = [c \in Sockets |-> IF c \in clients /\ topic \in Subscriptions[c]
                                     THEN Append(streams[c], m) ELSE streams[c]]
    BY DEF SendEvent
<1>2. \A d \in Sockets : d \in clients <=> link[d] = "client"
    BY DEF clients
<1>3. \A d \in Sockets :
         /\ link[d] = "client" /\ topic \in Subscriptions[d] => after[d] = Append(streams[d], m)
         /\ link[d] # "client" \/ topic \notin Subscriptions[d] => after[d] = streams[d]
    BY <1>1, <1>2
<1>4. \A d \in Sockets : streams[d] \in Seq(Outbound) /\ Append(streams[d], m) \in Seq(Outbound)
    BY DEF StreamsTyped
<1>5. \A d \in Sockets : after[d] \in Seq(Outbound)
    BY <1>3, <1>4
<1>6. StreamsTyped(after)
    BY <1>1, <1>5 DEF StreamsTyped
<1> QED BY <1>3, <1>6

\* The streams, and the notices, as messages of c are processed
Outcomes == [streams : [Sockets -> Seq(Outbound)], notices : Nat]
Touched(so, d, t) ==
    InTouch(heard[d] \o so.streams[d], kinds[d], t, StageOf(d), request, Subscriptions[d], joined[d],
            so.notices, cached)
Told(so, c) ==
    Informed(heard[c] \o so.streams[c], Subscriptions[c], "client", joined[c], so.notices, cached)

\* The i-th message of c has been answered.
AnsweredFor(so, c, i) ==
    [streams |-> [so.streams EXCEPT ![c] = Append(@, Answer("answer", i))], notices |-> so.notices]

LEMMA AnsweredRight ==
    ASSUME NEW c \in Sockets, NEW so \in Outcomes, heard[c] \in Seq(Outbound), NEW i \in Nat,
           NEW after, after = AnsweredFor(so, c, i)
    PROVE  /\ after \in Outcomes
           /\ \A d \in Sockets \ {c}, t \in Nat : Touched(so, d, t) => Touched(after, d, t)
           /\ heard[c] \o after.streams[c] = Append(heard[c] \o so.streams[c], Answer("answer", i))
           /\ heard[c] \o so.streams[c] \in Seq(Outbound)
           /\ Told(so, c) => Told(after, c)
<1>1. PICK w, m : w = so.streams /\ m = <<"answer", i>>
    OBVIOUS
<1>2. w \in [Sockets -> Seq(Outbound)] /\ so.notices \in Nat /\ w[c] \in Seq(Outbound)
    BY <1>1 DEF Outcomes
<1>3. "answer" \in Sorts /\ "answer" \in Answers
    BY DEF Sorts, Answers
<1>4. /\ heard[c] \o w[c] \in Seq(Outbound) /\ Append(w[c], m) \in Seq(Outbound)
      /\ heard[c] \o Append(w[c], m) = Append(heard[c] \o w[c], m)
    BY <1>1, <1>2, <1>3, SentAppended
<1>5. m = Answer("answer", i)
    BY <1>1 DEF Answer
<1>6. PICK new : new = [w EXCEPT ![c] = Append(w[c], m)]
    OBVIOUS
<1>7. after = [streams |-> new, notices |-> so.notices]
    BY <1>1, <1>5, <1>6 DEF AnsweredFor
<1>8. new \in [Sockets -> Seq(Outbound)]
    BY <1>2, <1>4, <1>6
<1>9. after.streams = new /\ after.notices = so.notices
    BY <1>7
<1>10. after \in Outcomes
    BY <1>2, <1>7, <1>8 DEF Outcomes
<1>11. ASSUME NEW d \in Sockets \ {c}, NEW t \in Nat, Touched(so, d, t) PROVE Touched(after, d, t)
  <2>1. after.streams[d] = so.streams[d]
      BY <1>1, <1>2, <1>6, <1>9
  <2> QED BY <1>9, <1>11, <2>1 DEF Touched
<1>12. new[c] = Append(w[c], m)
    BY <1>2, <1>6
<1>13. heard[c] \o after.streams[c] = Append(heard[c] \o so.streams[c], m)
    BY <1>1, <1>4, <1>9, <1>12
<1>14. ASSUME Told(so, c) PROVE Told(after, c)
  <2>1. PICK s : s = heard[c] \o so.streams[c]
      OBVIOUS
  <2>2. s \in Seq(Outbound)
      BY <1>1, <1>4, <2>1
  <2>3. Informed(s, Subscriptions[c], "client", joined[c], so.notices, cached)
      BY <1>14, <2>1 DEF Told
  <2>4. Informed(Append(s, m), Subscriptions[c], "client", joined[c], so.notices, cached)
      BY <1>1, <1>3, <2>2, <2>3, AnswerInforming
  <2> QED BY <1>9, <1>13, <2>1, <2>4 DEF Told
<1> QED BY <1>1, <1>4, <1>5, <1>10, <1>11, <1>13, <1>14

LEMMA NoticeRight ==
    ASSUME NEW so \in Outcomes, request \in Nat, StagesTyped,
           NEW after, after = [streams |-> SendEvent(so.streams, "notice", Notice(so.notices + 1)),
                               notices |-> so.notices + 1]
    PROVE  /\ after \in Outcomes
           /\ \A d \in Sockets, t \in Nat : Touched(so, d, t) => Touched(after, d, t)
           /\ \A d \in Sockets :
                 /\ heard[d] \o so.streams[d] \in Seq(Outbound)
                 /\ link[d] = "client" /\ "notice" \in Subscriptions[d] =>
                       heard[d] \o after.streams[d] =
                          Append(heard[d] \o so.streams[d], Notice(so.notices + 1))
                 /\ link[d] # "client" \/ "notice" \notin Subscriptions[d] =>
                       heard[d] \o after.streams[d] = heard[d] \o so.streams[d]
<1>1. PICK w, n : w = so.streams /\ n = so.notices
    OBVIOUS
<1>2. w \in [Sockets -> Seq(Outbound)] /\ n \in Nat
    BY <1>1 DEF Outcomes
<1>3. PICK new : new = SendEvent(w, "notice", <<"notice", n + 1>>)
    OBVIOUS
<1>4. "notice" \in Sorts /\ n + 1 \in Nat /\ Notice(n + 1) = <<"notice", n + 1>>
    BY <1>2 DEF Sorts, Notice
<1>5. StreamsTyped(w)
    BY <1>2 DEF StreamsTyped
<1>6. /\ new \in [Sockets -> Seq(Outbound)]
      /\ \A d \in Sockets :
            /\ link[d] = "client" /\ "notice" \in Subscriptions[d] =>
                  new[d] = Append(w[d], <<"notice", n + 1>>)
            /\ link[d] # "client" \/ "notice" \notin Subscriptions[d] => new[d] = w[d]
  <2>1. PICK m : m = <<"notice", n + 1>>
      OBVIOUS
  <2>2. m \in Outbound /\ new = SendEvent(w, "notice", m)
      BY <1>3, <1>4, <2>1 DEF Outbound
  <2>3. /\ StreamsTyped(new)
        /\ \A d \in Sockets :
              /\ link[d] = "client" /\ "notice" \in Subscriptions[d] => new[d] = Append(w[d], m)
              /\ link[d] # "client" \/ "notice" \notin Subscriptions[d] => new[d] = w[d]
      BY <1>5, <2>2, EventSent
  <2> QED BY <2>1, <2>3 DEF StreamsTyped
<1>7. after = [streams |-> new, notices |-> n + 1]
    BY <1>1, <1>3, <1>4
<1>8. after.streams = new /\ after.notices = n + 1
    BY <1>7
<1>9. after \in Outcomes
    BY <1>4, <1>6, <1>7 DEF Outcomes
<1>10. \A d \in Sockets : /\ heard[d] \o w[d] \in Seq(Outbound)
                          /\ heard[d] \o Append(w[d], <<"notice", n + 1>>) =
                                Append(heard[d] \o w[d], <<"notice", n + 1>>)
  <2> TAKE d \in Sockets
  <2>1. heard[d] \in Seq(Outbound) /\ w[d] \in Seq(Outbound)
      BY <1>2 DEF StagesTyped
  <2> QED BY <1>4, <2>1, SentAppended
<1>11. ASSUME NEW d \in Sockets
       PROVE  /\ heard[d] \o w[d] \in Seq(Outbound)
              /\ link[d] = "client" /\ "notice" \in Subscriptions[d] =>
                    heard[d] \o new[d] = Append(heard[d] \o w[d], Notice(n + 1))
              /\ link[d] # "client" \/ "notice" \notin Subscriptions[d] =>
                    heard[d] \o new[d] = heard[d] \o w[d]
    BY <1>4, <1>6, <1>10
<1>12. ASSUME NEW d \in Sockets, NEW t \in Nat, Touched(so, d, t) PROVE Touched(after, d, t)
  <2>1. PICK s, K, subs, from, stage :
           /\ s = heard[d] \o w[d] /\ K = kinds[d] /\ subs = Subscriptions[d] /\ from = joined[d]
           /\ stage = StageOf(d)
      OBVIOUS
  <2>2. InTouch(s, K, t, stage, request, subs, from, n, cached)
      BY <1>1, <1>12, <2>1 DEF Touched
  <2>3. s \in Seq(Outbound) /\ from \in Nat
      BY <1>10, <2>1 DEF StagesTyped
  <2>4. CASE link[d] # "client"
    <3>1. new[d] = w[d]
        BY <1>6, <2>4
    <3>2. InTouch(s, K, t, stage, request, subs, from, n + 1, cached)
      <4>1. stage \notin {"initialising", "client"}
          BY <2>1, <2>4 DEF StageOf, StagesTyped
      <4> QED BY <2>2, <4>1, Uninformed
    <3> QED BY <1>8, <2>1, <3>1, <3>2 DEF Touched
  <2>5. CASE link[d] = "client" /\ "notice" \in subs
    <3>1. heard[d] \o new[d] = Append(s, Notice(n + 1))
        BY <1>4, <1>6, <1>10, <2>1, <2>5
    <3>2. InTouch(Append(s, Notice(n + 1)), K, t, stage, request, subs, from, n + 1, cached)
      <4>1. stage \in {"initialising", "client"}
          BY <2>1, <2>5 DEF StageOf
      <4> QED BY <1>2, <2>1, <2>2, <2>3, <2>5, <4>1, NoticeTouching, ZenonT(40)
    <3> QED BY <1>8, <2>1, <2>5, <3>1, <3>2 DEF Touched
  <2>6. CASE link[d] = "client" /\ "notice" \notin subs
    <3>1. new[d] = w[d]
        BY <1>6, <2>1, <2>6
    <3>2. InTouch(s, K, t, stage, request, subs, from, n + 1, cached)
      <4>1. stage \in {"initialising", "client"}
          BY <2>1, <2>6 DEF StageOf
      <4>2. /\ InTouch(s, K, t, stage, request, subs, from, n, cached)
            /\ s \in Seq(Outbound) /\ from \in Nat /\ n \in Nat /\ "notice" \notin subs
          BY <1>2, <2>2, <2>3, <2>6
      <4> QED BY ONLY <4>1, <4>2, t \in Nat, request \in Nat, NoticeTouching
    <3> QED BY <1>8, <2>1, <2>6, <3>1, <3>2 DEF Touched
  <2> QED BY <2>4, <2>5, <2>6
<1> QED BY <1>1, <1>8, <1>9, <1>11, <1>12

LEMMA NoticeInforming ==
    ASSUME NEW s \in Seq(Outbound), NEW subs, NEW from \in Nat, NEW n \in Nat, NEW v,
           Informed(s, subs, "client", from, n, v)
    PROVE  /\ "notice" \in subs => Informed(Append(s, Notice(n + 1)), subs, "client", from, n + 1, v)
           /\ "notice" \notin subs => Informed(s, subs, "client", from, n + 1, v)
<1>1. ASSUME "notice" \in subs
      PROVE  Informed(Append(s, Notice(n + 1)), subs, "client", from, n + 1, v)
  <2>1. PICK new : new = Append(s, Notice(n + 1))
      OBVIOUS
  <2>2. new = Append(s, <<"notice", n + 1>>) /\ n + 1 \in Nat
      BY <2>1 DEF Notice
  <2>3. from <= n + 1 /\ NoticesFrom(new, from, n + 1)
      BY <1>1, <2>1, NoticeAppended DEF Informed
  <2>4. "state" \in subs /\ v # Uncached => LatestState(new, v)
      BY <2>2, StateKept DEF Informed, Sorts
  <2> QED BY <2>1, <2>3, <2>4 DEF Informed
<1>2. ASSUME "notice" \notin subs
      PROVE  Informed(s, subs, "client", from, n + 1, v)
    BY <1>2 DEF Informed
<1> QED BY <1>1, <1>2

\* Before the messages of c are processed, and after the first k of them
Outcome == [streams |-> writeStream, notices |-> notices]
Proceeding(so, c, messages, k, t, u) ==
    /\ so \in Outcomes
    /\ \A d \in Sockets \ {c}, td \in Nat : Touched(Outcome, d, td) => Touched(so, d, td)
    /\ \A d \in Sockets : link[d] # "client" => heard[d] \o so.streams[d] = Sent(d)
    /\ Told(Outcome, c) => Told(so, c)
    /\ AnswersUpTo(Sent(c), t) =>
          Processing(heard[c] \o so.streams[c], kinds[c], messages, k, t, u,
                     Numbers(Sent(c), "initialisation_success"), Numbers(Sent(c), "answer"))

LEMMA ProceedingAnswered ==
    ASSUME NEW c \in Sockets, link[c] = "client", heard[c] \in Seq(Outbound),
           NEW messages \in Seq(Nat), Rising(messages),
           NEW t \in Nat, NEW u \in Nat, ToSet(messages) \subseteq (t + 1)..u,
           NEW k \in 1..Len(messages), kinds[c][messages[k]] \in Answered,
           NEW so, Proceeding(so, c, messages, k - 1, t, u),
           NEW after, after = AnsweredFor(so, c, messages[k])
    PROVE  Proceeding(after, c, messages, k, t, u)
<1>1. so \in Outcomes /\ messages[k] \in Nat
    BY DEF Proceeding
<1>2. PICK i : i = messages[k] /\ i \in Nat
    BY <1>1
<1>3. c \in Sockets /\ so \in Outcomes /\ heard[c] \in Seq(Outbound) /\ i \in Nat /\ after = AnsweredFor(so, c, i)
    BY <1>1, <1>2
<1>4. after \in Outcomes /\ heard[c] \o so.streams[c] \in Seq(Outbound)
    BY ONLY <1>3, AnsweredRight
<1>5. \A d \in Sockets \ {c}, td \in Nat : Touched(so, d, td) => Touched(after, d, td)
    BY ONLY <1>3, AnsweredRight
<1>6. heard[c] \o after.streams[c] = Append(heard[c] \o so.streams[c], Answer("answer", i))
    BY ONLY <1>3, AnsweredRight
<1>7. Told(so, c) => Told(after, c)
    BY ONLY <1>3, AnsweredRight
<1>8. AnswersUpTo(Sent(c), t) =>
          Processing(heard[c] \o after.streams[c], kinds[c], messages, k, t, u,
                     Numbers(Sent(c), "initialisation_success"), Numbers(Sent(c), "answer"))
    BY <1>2, <1>4, <1>6, ProcessingStep, ZenonT(40) DEF Proceeding
<1>9. \A d \in Sockets : link[d] # "client" => heard[d] \o after.streams[d] = Sent(d)
  <2>1. \A d \in Sockets \ {c} : after.streams[d] = so.streams[d]
      BY ONLY <1>3 DEF AnsweredFor, Outcomes
  <2> QED BY <2>1 DEF Proceeding
<1> QED BY <1>4, <1>5, <1>7, <1>8, <1>9 DEF Proceeding

LEMMA ProceedingNotice ==
    ASSUME NEW c \in Sockets, link[c] = "client", request \in Nat, StagesTyped,
           NEW messages, NEW t, NEW u, NEW k,
           NEW so, Proceeding(so, c, messages, k, t, u),
           NEW after, after = [streams |-> SendEvent(so.streams, "notice", Notice(so.notices + 1)),
                               notices |-> so.notices + 1]
    PROVE  Proceeding(after, c, messages, k, t, u)
<1>1. so \in Outcomes /\ so.notices \in Nat /\ so.notices + 1 \in Nat
    BY DEF Proceeding, Outcomes
<1>2. PICK s : s = heard[c] \o so.streams[c]
    OBVIOUS
<1>3. /\ after \in Outcomes
      /\ \A d \in Sockets, td \in Nat : Touched(so, d, td) => Touched(after, d, td)
      /\ s \in Seq(Outbound)
      /\ "notice" \in Subscriptions[c] =>
            heard[c] \o after.streams[c] = Append(s, Notice(so.notices + 1))
      /\ "notice" \notin Subscriptions[c] => heard[c] \o after.streams[c] = s
    BY <1>1, <1>2, NoticeRight DEF StagesTyped
<1>4. Told(so, c) => Told(after, c)
  <2>1. after.notices = so.notices + 1
      OBVIOUS
  <2> QED BY <1>1, <1>2, <1>3, <2>1, NoticeInforming DEF Told, StagesTyped
<1>5. AnswersUpTo(Sent(c), t) =>
          Processing(heard[c] \o after.streams[c], kinds[c], messages, k, t, u,
                     Numbers(Sent(c), "initialisation_success"), Numbers(Sent(c), "answer"))
    BY <1>1, <1>2, <1>3, ProcessingNotice DEF Proceeding
<1>6. \A d \in Sockets : link[d] # "client" => heard[d] \o after.streams[d] = Sent(d)
  <2>1. \A d \in Sockets : link[d] # "client" => heard[d] \o after.streams[d] = heard[d] \o so.streams[d]
      BY <1>1, NoticeRight
  <2> QED BY <2>1 DEF Proceeding
<1> QED BY <1>3, <1>4, <1>5, <1>6 DEF Proceeding

LEMMA ProceedingStep ==
    ASSUME NEW c \in Sockets, link[c] = "client", request \in Nat, StagesTyped,
           NEW messages \in Seq(Nat), Rising(messages),
           NEW t \in Nat, NEW u \in Nat, ToSet(messages) \subseteq (t + 1)..u,
           NEW k \in 1..Len(messages), NEW so, Proceeding(so, c, messages, k - 1, t, u)
    PROVE  Proceeding(Processed(c, so, messages[k]), c, messages, k, t, u)
<1>1. PICK i, after : i = messages[k] /\ after = Processed(c, so, i)
    OBVIOUS
<1>2. so \in Outcomes /\ so = [streams |-> so.streams, notices |-> so.notices]
    BY DEF Proceeding, Outcomes
<1>3. CASE kinds[c][i] \notin Answered
  <2>1. after = so
      BY <1>1, <1>3 DEF Processed, Answered
  <2>2. heard[c] \o so.streams[c] \in Seq(Outbound)
      BY <1>2 DEF Outcomes, StagesTyped
  <2>3. AnswersUpTo(Sent(c), t) =>
            Processing(heard[c] \o so.streams[c], kinds[c], messages, k, t, u,
                       Numbers(Sent(c), "initialisation_success"), Numbers(Sent(c), "answer"))
      BY <1>1, <1>3, <2>2, ProcessingStep, ZenonT(40) DEF Proceeding
  <2> QED BY <1>1, <2>1, <2>3 DEF Proceeding
<1>4. CASE kinds[c][i] = "action"
  <2>2. after = AnsweredFor(so, c, i)
      BY <1>1, <1>4 DEF Processed, AnsweredFor
  <2>3. kinds[c][messages[k]] \in Answered
      BY <1>1, <1>4 DEF Answered
  <2> QED BY <1>1, <2>2, <2>3, ProceedingAnswered DEF StagesTyped
<1>5. CASE kinds[c][i] = "assignment"
  <2>1. PICK between : between = [streams |-> SendEvent(so.streams, "notice", Notice(so.notices + 1)),
                                  notices |-> so.notices + 1]
      OBVIOUS
  <2>2. Proceeding(between, c, messages, k - 1, t, u)
      BY <2>1, ProceedingNotice
  <2>3. after = [streams |-> [SendEvent(so.streams, "notice", Notice(so.notices + 1))
                                 EXCEPT ![c] = Append(@, Answer("answer", i))],
                 notices |-> so.notices + 1]
      BY <1>1, <1>5 DEF Processed
  <2>4. after = AnsweredFor(between, c, i)
      BY <2>1, <2>3 DEF AnsweredFor
  <2>5. kinds[c][messages[k]] \in Answered
      BY <1>1, <1>5 DEF Answered
  <2> QED BY <1>1, <2>2, <2>4, <2>5, ProceedingAnswered DEF StagesTyped
<1> QED BY <1>1, <1>3, <1>4, <1>5 DEF Answered

\* f[k] is what has come of the first k messages of c.
Proceeds(f, c, messages, N) ==
    f = [k \in 0..N |-> IF k = 0 THEN Outcome ELSE Processed(c, f[k - 1], messages[k])]

LEMMA ProceedingExists ==
    ASSUME NEW c, NEW messages, NEW N \in Nat
    PROVE  \E f : Proceeds(f, c, messages, N)
<1> DEFINE Exists(n) == \E f : Proceeds(f, c, messages, n)
           T == {n \in Nat : ~Exists(n)}
<1>1. Exists(0)
  <2>1. PICK f : f = [k \in 0..0 |-> Outcome]
      OBVIOUS
  <2>2. Proceeds(f, c, messages, 0)
      BY <2>1 DEF Proceeds
  <2> QED BY <2>2
<1>2. ASSUME NEW n \in Nat \ {0}, Exists(n - 1)
      PROVE  Exists(n)
  <2>1. PICK g : Proceeds(g, c, messages, n - 1)
      BY <1>2
  <2>2. PICK f : f = [k \in 0..n |-> IF k = n THEN Processed(c, g[n - 1], messages[n]) ELSE g[k]]
      OBVIOUS
  <2>3. \A k \in 0..(n - 1) : f[k] = g[k]
      BY <2>2
  <2>4. ASSUME NEW k \in 0..n
        PROVE  f[k] = IF k = 0 THEN Outcome ELSE Processed(c, f[k - 1], messages[k])
    <3>1. CASE k = n
      <4>1. f[k] = Processed(c, g[k - 1], messages[k]) /\ g[k - 1] = f[k - 1]
          BY <2>2, <2>3, <3>1
      <4> QED BY <3>1, <4>1
    <3>2. CASE k # n
      <4>1. k \in 0..(n - 1) /\ f[k] = g[k] /\ (k # 0 => f[k - 1] = g[k - 1])
          BY <2>3, <3>2
      <4>2. g[k] = IF k = 0 THEN Outcome ELSE Processed(c, g[k - 1], messages[k])
          BY <2>1, <4>1 DEF Proceeds
      <4> QED BY <4>1, <4>2
    <3> QED BY <3>1, <3>2
  <2>5. f = [k \in 0..n |-> IF k = 0 THEN Outcome ELSE Processed(c, f[k - 1], messages[k])]
      BY <2>2, <2>4
  <2> QED BY <2>5 DEF Proceeds
<1>3. T = {}
  <2> SUFFICES ASSUME T # {} PROVE FALSE
      OBVIOUS
  <2>1. T \in SUBSET Nat
      OBVIOUS
  <2>2. \A n \in Nat : n \in T <=> ~Exists(n)
      OBVIOUS
  <2> HIDE DEF T, Exists
  <2>3. PICK n \in T : \A m \in T : n <= m
      BY <2>1, LeastNumber
  <2>4. n \in Nat \ {0} /\ n - 1 \in Nat /\ n - 1 \notin T
      BY <1>1, <2>1, <2>2, <2>3
  <2> QED BY <1>2, <2>2, <2>4
<1> QED BY <1>3

LEMMA ProceedingRight ==
    ASSUME NEW c \in Sockets, link[c] = "client", request \in Nat, StagesTyped,
           StreamsTyped(writeStream), notices \in Nat,
           NEW messages \in Seq(Nat), Rising(messages),
           NEW t \in Nat, NEW u \in Nat, t <= u, ToSet(messages) \subseteq (t + 1)..u,
           NEW f, Proceeds(f, c, messages, Len(messages))
    PROVE  Proceeding(f[Len(messages)], c, messages, Len(messages), t, u)
<1> DEFINE T == {n \in 0..Len(messages) : ~Proceeding(f[n], c, messages, n, t, u)}
<1>1. Proceeding(f[0], c, messages, 0, t, u)
  <2>1. f[0] = Outcome
      BY DEF Proceeds
  <2>2. Outcome \in Outcomes
      BY DEF Outcome, Outcomes, StreamsTyped
  <2>3. \A d \in Sockets : heard[d] \o Outcome.streams[d] = Sent(d)
      BY DEF Sent, Outcome
  <2>4. AnswersUpTo(Sent(c), t) =>
            Processing(Sent(c), kinds[c], messages, 0, t, u,
                       Numbers(Sent(c), "initialisation_success"), Numbers(Sent(c), "answer"))
      BY ProcessingStarts
  <2> QED BY <2>1, <2>2, <2>3, <2>4 DEF Proceeding
<1>2. ASSUME NEW n \in 1..Len(messages), Proceeding(f[n - 1], c, messages, n - 1, t, u)
      PROVE  Proceeding(f[n], c, messages, n, t, u)
  <2>1. f[n] = Processed(c, f[n - 1], messages[n])
    <3>1. n \in 0..Len(messages) /\ n # 0
        OBVIOUS
    <3> QED BY <3>1 DEF Proceeds
  <2>2. PICK so : so = f[n - 1]
      OBVIOUS
  <2>3. Proceeding(so, c, messages, n - 1, t, u)
      BY <1>2, <2>2
  <2>4. Proceeding(Processed(c, so, messages[n]), c, messages, n, t, u)
      BY <2>3, ProceedingStep
  <2> QED BY <2>1, <2>2, <2>4
<1>3. T = {}
  <2> SUFFICES ASSUME T # {} PROVE FALSE
      OBVIOUS
  <2>1. T \in SUBSET Nat
      OBVIOUS
  <2>2. \A n \in 0..Len(messages) : n \in T <=> ~Proceeding(f[n], c, messages, n, t, u)
      OBVIOUS
  <2>3. T \subseteq 0..Len(messages)
      OBVIOUS
  <2> HIDE DEF T
  <2>4. PICK n \in T : \A m \in T : n <= m
      BY <2>1, LeastNumber
  <2>5. n \in 0..Len(messages) /\ n # 0
      BY <1>1, <2>2, <2>3, <2>4
  <2>6. n \in 1..Len(messages) /\ n - 1 \in 0..Len(messages) /\ ~(n <= n - 1)
      BY <2>5
  <2>7. n - 1 \notin T
      BY <2>4, <2>6
  <2> QED BY <1>2, <2>2, <2>4, <2>6, <2>7
<1> QED BY <1>3

\* What becomes of the streams and the notices
LEMMA ProcessingRight ==
    ASSUME NEW c \in Sockets, ProcessInboundMessagesForClient(c), request \in Nat, StagesTyped,
           StreamsTyped(writeStream), notices \in Nat, Received(c) \in Seq(Nat), Rising(Received(c)),
           NEW t \in Nat, NEW u \in Nat, t <= u, ToSet(Received(c)) \subseteq (t + 1)..u
    PROVE  \E so : /\ Proceeding(so, c, Received(c), Len(Received(c)), t, u)
                   /\ writeStream' = so.streams /\ notices' = so.notices
<1>1. PICK messages, f : messages = Received(c) /\ f = CHOOSE g : Proceeds(g, c, messages, Len(messages))
    OBVIOUS
<1>2. Proceeds(f, c, messages, Len(messages))
  <2>1. Len(messages) \in Nat
      BY <1>1
  <2>2. \E g : Proceeds(g, c, messages, Len(messages))
      BY <2>1, ProceedingExists
  <2> QED BY <1>1, <2>2, Zenon
<1>3. writeStream' = f[Len(messages)].streams /\ notices' = f[Len(messages)].notices
    BY <1>1, Zenon DEF ProcessInboundMessagesForClient, Proceeds, Outcome
<1>4. link[c] = "client"
    BY DEF ProcessInboundMessagesForClient
<1>5. messages \in Seq(Nat) /\ Rising(messages) /\ ToSet(messages) \subseteq (t + 1)..u
    BY <1>1
<1>6. Proceeding(f[Len(messages)], c, messages, Len(messages), t, u)
    BY <1>2, <1>4, <1>5, ProceedingRight
<1> QED BY <1>1, <1>3, <1>6

-------------------------------------------------------------------------------
(* The inductive invariant of the integration server                       *)

\* Of the messages of c, t have been received, and what it has been sent fits.
TouchedUpTo(c, t) == Touched(Outcome, c, t)
Socket(c, t) ==
    /\ ReadUpTo(c, t) /\ Len(kinds[c]) <= MaxMessages
    /\ active[c] => link[c] \in {"waiting", "client"} /\ TouchedUpTo(c, t)
    /\ link[c] = "none" => Sent(c) = <<>> /\ kinds[c] = <<>> /\ ~begun[c]

InitialisingAsClient == initialising # NoSocket => link[initialising] = "client"

IntegrationsIInv ==
    /\ IntegrationsTypeOK
    /\ InitialisingAsClient
    /\ \A c \in Sockets : \E t \in Nat : Socket(c, t)

LEMMA TypedStages ==
    ASSUME IntegrationsTypeOK, InitialisingAsClient
    PROVE  /\ StagesTyped /\ StreamsTyped(writeStream) /\ request \in Nat /\ notices \in Nat
           /\ Outcome \in Outcomes
<1>1. \A c \in Sockets : heard[c] \in Seq(Outbound) /\ joined[c] \in Nat /\ link[c] # "initialising"
    BY DEF IntegrationsTypeOK
<1>2. \A c \in Sockets : link[c] # "client" => c # initialising
    BY SocketsAssumption DEF InitialisingAsClient
<1>3. request \in Nat /\ notices \in Nat
    BY SocketsAssumption DEF IntegrationsTypeOK
<1>4. StreamsTyped(writeStream)
    BY DEF IntegrationsTypeOK, StreamsTyped
<1> QED BY <1>1, <1>2, <1>3, <1>4 DEF StagesTyped, StreamsTyped, Outcome, Outcomes

LEMMA TypedSocket ==
    ASSUME IntegrationsTypeOK, NEW c \in Sockets
    PROVE  /\ kinds[c] \in Seq(MessageKinds) /\ Len(kinds[c]) \in Nat /\ begun[c] \in BOOLEAN
           /\ readStream[c] \in Seq(Pieces) /\ incomingData[c] \in Seq(Pieces)
           /\ Unread(c) \in Seq(Pieces) /\ Len(Unread(c)) \in Nat
           /\ heard[c] \in Seq(Outbound) /\ writeStream[c] \in Seq(Outbound) /\ Sent(c) \in Seq(Outbound)
           /\ joined[c] \in Nat
<1>1. /\ kinds[c] \in Seq(MessageKinds) /\ begun[c] \in BOOLEAN
      /\ readStream[c] \in Seq(Pieces) /\ incomingData[c] \in Seq(Pieces)
      /\ heard[c] \in Seq(Outbound) /\ writeStream[c] \in Seq(Outbound) /\ joined[c] \in Nat
    BY DEF IntegrationsTypeOK
<1>2. Sent(c) \in Seq(Outbound)
    BY <1>1 DEF Sent
<1>3. Unread(c) \in Seq(Pieces)
    BY <1>1 DEF Unread
<1>4. Len(kinds[c]) \in Nat /\ Len(Unread(c)) \in Nat
    BY <1>1, <1>3
<1> QED BY <1>1, <1>2, <1>3, <1>4

-------------------------------------------------------------------------------
(* The steps: reading, connecting and the end of connections               *)

\* No more of its messages is read, or received.
ReadingKept(c) == /\ kinds'[c] = kinds[c] /\ begun'[c] = begun[c]
                  /\ readStream'[c] = readStream[c] /\ incomingData'[c] = incomingData[c]

LEMMA ReadKept ==
    ASSUME NEW c, NEW t, ReadUpTo(c, t), ReadingKept(c)
    PROVE  ReadUpTo(c, t)'
BY DEF ReadUpTo, Unread, ReadingKept

\* Nothing has been received from c, nor begun, and it goes on as it was or
\* is cut off.
LEMMA SocketKept ==
    ASSUME NEW c, NEW t \in Nat, Socket(c, t),
           ReadingKept(c), active'[c] => active[c] /\ link'[c] \in {"waiting", "client"},
           active'[c] /\ TouchedUpTo(c, t) => TouchedUpTo(c, t)',
           link'[c] = "none" => link[c] = "none" /\ Sent(c)' = Sent(c)
    PROVE  Socket(c, t)'
<1>1. ReadUpTo(c, t)'
    BY ReadKept DEF Socket
<1> QED BY <1>1 DEF Socket, ReadingKept

LEMMA ReadBounds ==
    ASSUME IntegrationsTypeOK, NEW c \in Sockets, NEW t \in Nat, ReadUpTo(c, t)
    PROVE  t <= EndedOf(Len(kinds[c]), begun[c]) /\ t <= Len(kinds[c])
<1>1. PICK m, b, data : m = Len(kinds[c]) /\ b = begun[c] /\ data = Unread(c)
    OBVIOUS
<1>2. data \in Seq(Pieces) /\ m \in Nat /\ b \in BOOLEAN /\ Behind(data, m, b, t)
    BY <1>1, TypedSocket DEF ReadUpTo
<1>3. EndedOf(m, b) \in t..m
    BY <1>2, RemainderRight
<1>4. EndedOf(m, b) \in Int
    BY <1>2, <1>3
<1> QED BY <1>1, <1>2, <1>3, <1>4

\* What has been received of c is what has ended.
LEMMA ReceiveRight ==
    ASSUME IntegrationsTypeOK, NEW c \in Sockets, NEW t \in Nat, ReadUpTo(c, t),
           Receive(c), UNCHANGED <<kinds, begun>>
    PROVE  /\ ReadUpTo(c, EndedOf(Len(kinds[c]), begun[c]))'
           /\ EndedOf(Len(kinds[c]), begun[c]) \in t..Len(kinds[c])
           /\ readStream' \in [Sockets -> Seq(Pieces)] /\ incomingData' \in [Sockets -> Seq(Pieces)]
           /\ \A d \in Sockets \ {c} : readStream'[d] = readStream[d] /\ incomingData'[d] = incomingData[d]
<1>1. PICK m, b, data : m = Len(kinds[c]) /\ b = begun[c] /\ data = Unread(c)
    OBVIOUS
<1>2. data \in Seq(Pieces) /\ m \in Nat /\ b \in BOOLEAN /\ Behind(data, m, b, t)
    BY <1>1, TypedSocket DEF ReadUpTo
<1>3. /\ EndedOf(m, b) \in t..m /\ Remainder(data) \in Seq(Pieces)
      /\ Behind(Remainder(data), m, b, EndedOf(m, b))
      /\ \A k \in DOMAIN Remainder(data) : ~Remainder(data)[k].ends
    BY <1>2, RemainderRight
<1>4. /\ readStream \in [Sockets -> Seq(Pieces)] /\ incomingData \in [Sockets -> Seq(Pieces)]
    BY DEF IntegrationsTypeOK
<1>5. readStream' = [readStream EXCEPT ![c] = <<>>] /\ incomingData' = [incomingData EXCEPT ![c] = Remainder(data)]
    BY <1>1 DEF Receive, Unread
<1>6. PICK rest : rest = Remainder(data)
    OBVIOUS
<1>7. readStream'[c] = <<>> /\ incomingData'[c] = rest
    BY <1>4, <1>5, <1>6
<1>8. rest \o <<>> = rest
    BY <1>3, <1>6
<1>9. Unread(c)' = rest
    BY <1>7, <1>8 DEF Unread
<1>10. ReadUpTo(c, EndedOf(m, b))'
    BY <1>1, <1>3, <1>6, <1>7, <1>9 DEF ReadUpTo
<1>11. readStream' \in [Sockets -> Seq(Pieces)] /\ incomingData' \in [Sockets -> Seq(Pieces)]
    BY <1>3, <1>4, <1>5
<1>12. \A d \in Sockets \ {c} : readStream'[d] = readStream[d] /\ incomingData'[d] = incomingData[d]
    BY <1>4, <1>5
<1> QED BY <1>1, <1>3, <1>10, <1>11, <1>12

\* What it has been sent is the same, and the conversation goes on.
LEMMA TouchKept ==
    ASSUME NEW c, NEW t, TouchedUpTo(c, t), Sent(c)' = Sent(c), kinds'[c] = kinds[c],
           link'[c] = link[c], joined'[c] = joined[c], UNCHANGED <<initialising, request, notices>>,
           cached' = cached \/ cached' = Uncached
    PROVE  TouchedUpTo(c, t)'
<1>1. PICK s, stage : s = Sent(c) /\ stage = StageOf(c)
    OBVIOUS
<1>2. StageOf(c)' = stage /\ Sent(c)' = s
    BY <1>1 DEF StageOf
<1>3. InTouch(s, kinds[c], t, stage, request, Subscriptions[c], joined[c], notices, cached)
    BY <1>1 DEF TouchedUpTo, Touched, Outcome, Sent
<1>4. InTouch(s, kinds[c], t, stage, request, Subscriptions[c], joined[c], notices, cached')
    BY <1>3 DEF InTouch, Informed
<1>5. (heard[c] \o writeStream[c])' = s
    BY <1>2 DEF Sent
<1> QED BY <1>2, <1>4, <1>5 DEF TouchedUpTo, Touched, Outcome

LEMMA AddConnectionKept ==
    ASSUME IntegrationsIInv, NEW c \in Sockets, AddConnection(c) PROVE IntegrationsIInv'
<1> USE DEF IntegrationsIInv
<1>1. IntegrationsTypeOK'
    BY DEF IntegrationsTypeOK, AddConnection, eventVars
<1>2. InitialisingAsClient'
    BY DEF InitialisingAsClient, AddConnection, IntegrationsTypeOK
<1>3. ASSUME NEW d \in Sockets PROVE \E t \in Nat : Socket(d, t)'
  <2>1. PICK t \in Nat : Socket(d, t)
      OBVIOUS
  <2>2. ReadingKept(d) /\ Sent(d)' = Sent(d) /\ kinds' = kinds
      BY DEF ReadingKept, AddConnection, Sent
  <2>3. CASE d # c
    <3>1. link'[d] = link[d] /\ active'[d] = active[d]
        BY <2>3 DEF AddConnection, IntegrationsTypeOK
    <3>2. TouchedUpTo(d, t) => TouchedUpTo(d, t)'
      <4>1. UNCHANGED <<kinds, joined, initialising, request, notices, cached>>
          BY DEF AddConnection, eventVars
      <4> QED BY <2>2, <3>1, <4>1, TouchKept
    <3> QED BY <2>1, <2>2, <3>1, <3>2, SocketKept DEF Socket
  <2>4. CASE d = c
    <3>1. Sent(c) = <<>> /\ kinds[c] = <<>> /\ ~begun[c] /\ ReadUpTo(c, t)
        BY <2>1, <2>4 DEF Socket, AddConnection
    <3>2. t = 0
        BY <3>1, ReadBounds
    <3>3. link'[c] = "waiting" /\ c # initialising
        BY SocketsAssumption DEF AddConnection, IntegrationsTypeOK, InitialisingAsClient
    <3>4. StageOf(c)' = "waiting" /\ (heard[c] \o writeStream[c])' = <<>>
        BY <2>2, <2>4, <3>1, <3>3 DEF StageOf, AddConnection, Sent
    <3>5. Conversing(<<>>, kinds[c], 0, "waiting", request)
      <4>1. \A sorts : PlacesOf(<<>>, sorts) = {}
          BY DEF PlacesOf
      <4>2. \A o : Numbers(<<>>, o) = {}
          BY <4>1 DEF Numbers
      <4>3. AnswersUpTo(<<>>, 0)
          BY <4>1 DEF AnswersUpTo, Increasing
      <4>4. {i \in 1..0 : kinds[c][i] # "garbage"} = {}
          OBVIOUS
      <4> QED BY <4>2, <4>3, <4>4 DEF Conversing, Waiting
    <3>6. TouchedUpTo(c, t)'
      <4>1. UNCHANGED <<kinds, request, joined, notices, cached>>
          BY DEF AddConnection, eventVars
      <4> QED BY <3>2, <3>4, <3>5, <4>1 DEF TouchedUpTo, Touched, Outcome, InTouch, Informed
    <3>7. ReadUpTo(c, t)'
        BY <2>2, <2>4, <3>1, ReadKept
    <3> QED BY <2>1, <2>2, <2>4, <3>3, <3>6, <3>7 DEF Socket
  <2> QED BY <2>3, <2>4
<1> QED BY <1>1, <1>2, <1>3

\* A step after which nobody has been read, sent or received more
LEMMA NothingSentKept ==
    ASSUME IntegrationsIInv, IntegrationsTypeOK', InitialisingAsClient',
           UNCHANGED <<kinds, begun, readStream, incomingData, initialising, request, notices, joined>>,
           \A d \in Sockets : \/ ~active'[d]
                              \/ active[d] /\ link'[d] = link[d] /\ Sent(d)' = Sent(d),
           \A d \in Sockets : link'[d] = "none" => link[d] = "none" /\ Sent(d)' = Sent(d),
           cached' = cached \/ cached' = Uncached
    PROVE  IntegrationsIInv'
<1>1. ASSUME NEW d \in Sockets PROVE \E t \in Nat : Socket(d, t)'
  <2>1. PICK t \in Nat : Socket(d, t)
      BY DEF IntegrationsIInv
  <2>2. ReadingKept(d)
      BY DEF ReadingKept
  <2>3. ASSUME active'[d], TouchedUpTo(d, t) PROVE TouchedUpTo(d, t)'
      BY <2>3, TouchKept
  <2>4. active'[d] => active[d] /\ link'[d] \in {"waiting", "client"}
      BY <2>1 DEF Socket
  <2> QED BY <2>1, <2>2, <2>3, <2>4, SocketKept
<1> QED BY <1>1 DEF IntegrationsIInv

LEMMA ReadEndsKept ==
    ASSUME IntegrationsIInv, NEW c \in Sockets, ReadEnds(c) PROVE IntegrationsIInv'
<1>1. IntegrationsTypeOK'
    BY DEF IntegrationsIInv, IntegrationsTypeOK, ReadEnds, serverVars, eventVars
<1>2. InitialisingAsClient' /\ UNCHANGED <<link, heard, writeStream, cached>>
    BY DEF IntegrationsIInv, InitialisingAsClient, ReadEnds, serverVars, eventVars
<1>3. \A d \in Sockets : ~active'[d] \/ active[d]
    BY DEF IntegrationsIInv, IntegrationsTypeOK, ReadEnds
<1>4. UNCHANGED <<kinds, begun, readStream, incomingData, initialising, request, notices, joined>>
    BY DEF ReadEnds, serverVars, eventVars
<1>5. \A d \in Sockets : Sent(d)' = Sent(d)
    BY <1>2 DEF Sent
<1> QED BY <1>1, <1>2, <1>3, <1>4, <1>5, NothingSentKept

LEMMA WriteLoopKept ==
    ASSUME IntegrationsIInv, NEW c \in Sockets, WriteLoop(c) PROVE IntegrationsIInv'
<1>1. UNCHANGED <<kinds, begun, readStream, incomingData, link, overdue, initialising, request,
                  joined, source, notices, cached>>
    BY DEF WriteLoop, serverVars, eventVars
<1>2. writeStream' = [writeStream EXCEPT ![c] = <<>>] /\ IntegrationsTypeOK /\ active[c]
    BY DEF WriteLoop, IntegrationsIInv
<1>3. heard[c] \in Seq(Outbound) /\ writeStream[c] \in Seq(Outbound) /\ heard[c] \o writeStream[c] \in Seq(Outbound)
    BY <1>2, TypedSocket DEF Sent
<1>4. CASE heard' = [heard EXCEPT ![c] = @ \o writeStream[c]] /\ UNCHANGED active
  <2>1. IntegrationsTypeOK'
      BY <1>1, <1>2, <1>3, <1>4 DEF IntegrationsTypeOK
  <2>2. ASSUME NEW d \in Sockets PROVE Sent(d)' = Sent(d)
    <3>1. CASE d = c
      <4>1. heard'[c] = heard[c] \o writeStream[c] /\ writeStream'[c] = <<>>
          BY <1>2, <1>4 DEF IntegrationsTypeOK
      <4>2. (heard[c] \o writeStream[c]) \o <<>> = heard[c] \o writeStream[c]
          BY <1>3
      <4> QED BY <3>1, <4>1, <4>2 DEF Sent
    <3>2. CASE d # c
        BY <1>2, <1>4, <3>2 DEF IntegrationsTypeOK, Sent
    <3> QED BY <3>1, <3>2
  <2>3. InitialisingAsClient'
      BY <1>1 DEF IntegrationsIInv, InitialisingAsClient
  <2> QED BY <1>1, <1>4, <2>1, <2>2, <2>3, NothingSentKept DEF IntegrationsTypeOK
<1>5. CASE active' = [active EXCEPT ![c] = FALSE] /\ UNCHANGED heard
  <2>1. IntegrationsTypeOK'
      BY <1>1, <1>2, <1>5, SMTT(30) DEF IntegrationsTypeOK
  <2>2. \A d \in Sockets : d # c => Sent(d)' = Sent(d) /\ active'[d] = active[d]
      BY <1>2, <1>5 DEF IntegrationsTypeOK, Sent
  <2>3. ~active'[c]
      BY <1>2, <1>5 DEF IntegrationsTypeOK
  <2>4. InitialisingAsClient'
      BY <1>1 DEF IntegrationsIInv, InitialisingAsClient
  <2>5. link'[c] # "none"
      BY <1>1, <1>2 DEF IntegrationsIInv, Socket
  <2> QED BY <1>1, <2>1, <2>2, <2>3, <2>4, <2>5, NothingSentKept DEF IntegrationsTypeOK
<1> QED BY <1>4, <1>5 DEF WriteLoop

LEMMA InitialisationTimeoutKept ==
    ASSUME IntegrationsIInv, NEW c \in Sockets, InitialisationTimeout(c) PROVE IntegrationsIInv'
<1>1. IntegrationsTypeOK'
    BY DEF IntegrationsIInv, IntegrationsTypeOK, InitialisationTimeout, socketVars, eventVars
<1>2. UNCHANGED <<link, active, kinds, begun, readStream, incomingData, heard, writeStream,
                  initialising, request, notices, joined, cached>>
    BY DEF InitialisationTimeout, socketVars, eventVars
<1>3. InitialisingAsClient' /\ (\A d \in Sockets : Sent(d)' = Sent(d)) /\ active \in [Sockets -> BOOLEAN]
    BY <1>2 DEF IntegrationsIInv, InitialisingAsClient, Sent, IntegrationsTypeOK
<1> QED BY <1>1, <1>2, <1>3, NothingSentKept

LEMMA DropConnectionKept ==
    ASSUME IntegrationsIInv, NEW c \in Sockets, DropConnection(c) PROVE IntegrationsIInv'
<1>1. IntegrationsTypeOK'
    BY DEF IntegrationsIInv, IntegrationsTypeOK, DropConnection, eventVars
<1>2. UNCHANGED <<kinds, begun, readStream, incomingData, heard, writeStream,
                  initialising, request, notices, joined, cached>>
    BY DEF DropConnection, eventVars
<1>3. InitialisingAsClient' /\ \A d \in Sockets : Sent(d)' = Sent(d)
    BY <1>2 DEF InitialisingAsClient, Sent, DropConnection, EuroScopeThreadFree
<1>4. \A d \in Sockets : d # c => link'[d] = link[d] /\ active'[d] = active[d]
    BY DEF IntegrationsIInv, IntegrationsTypeOK, DropConnection
<1>5. link'[c] = "dropped" /\ ~active'[c] /\ active \in [Sockets -> BOOLEAN]
    BY DEF IntegrationsIInv, IntegrationsTypeOK, DropConnection
<1> QED BY <1>1, <1>2, <1>3, <1>4, <1>5, NothingSentKept

LEMMA RemoveInactiveClientKept ==
    ASSUME IntegrationsIInv, NEW c \in Sockets, RemoveInactiveClient(c) PROVE IntegrationsIInv'
<1>1. IntegrationsTypeOK'
    BY DEF IntegrationsIInv, IntegrationsTypeOK, RemoveInactiveClient, socketVars, eventVars
<1>2. UNCHANGED <<active, kinds, begun, readStream, incomingData, heard, writeStream,
                  initialising, request, notices, joined, cached>>
    BY DEF RemoveInactiveClient, socketVars, eventVars
<1>3. InitialisingAsClient' /\ \A d \in Sockets : Sent(d)' = Sent(d)
    BY <1>2 DEF InitialisingAsClient, Sent, RemoveInactiveClient, EuroScopeThreadFree
<1>4. \A d \in Sockets : d # c => link'[d] = link[d]
    BY DEF IntegrationsIInv, IntegrationsTypeOK, RemoveInactiveClient
<1>5. link'[c] = "dropped" /\ ~active[c] /\ active \in [Sockets -> BOOLEAN]
    BY DEF IntegrationsIInv, IntegrationsTypeOK, RemoveInactiveClient
<1> QED BY <1>1, <1>2, <1>3, <1>4, <1>5, NothingSentKept

LEMMA ResolutionChangesKept ==
    ASSUME IntegrationsIInv, ResolutionChanges PROVE IntegrationsIInv'
<1>1. IntegrationsTypeOK'
  <2>1. source \in 1..(MaxChanges + 1) /\ source <= MaxChanges
      BY DEF IntegrationsIInv, IntegrationsTypeOK, ResolutionChanges
  <2>2. source + 1 \in 1..(MaxChanges + 1) /\ Uncached \in 0..(MaxChanges + 1)
      BY <2>1, SocketsAssumption DEF Uncached
  <2> QED BY <2>2 DEF IntegrationsIInv, IntegrationsTypeOK, ResolutionChanges, serverVars, socketVars
<1>2. UNCHANGED <<link, active, kinds, begun, readStream, incomingData, heard, writeStream,
                  initialising, request, notices, joined>> /\ cached' = Uncached
    BY DEF ResolutionChanges, serverVars, socketVars
<1>3. InitialisingAsClient' /\ (\A d \in Sockets : Sent(d)' = Sent(d)) /\ active \in [Sockets -> BOOLEAN]
    BY <1>2 DEF IntegrationsIInv, InitialisingAsClient, Sent, IntegrationsTypeOK
<1> QED BY <1>1, <1>2, <1>3, NothingSentKept

\* A piece is read.
LEMMA PieceRead ==
    ASSUME NEW unread \in Seq(Pieces), NEW m \in Nat, NEW t \in Nat
    PROVE  /\ Behind(unread, m, FALSE, t) =>
                 Behind(Append(unread, [of |-> m + 1, ends |-> FALSE]), m + 1, TRUE, t)
           /\ Behind(unread, m, TRUE, t) =>
                 Behind(Append(unread, [of |-> m, ends |-> TRUE]), m, FALSE, t)
<1>1. ASSUME NEW piece
      PROVE  /\ Len(Append(unread, piece)) = Len(unread) + 1
             /\ Append(unread, piece)[Len(unread) + 1] = piece
             /\ \A k \in 1..Len(unread) : Append(unread, piece)[k] = unread[k]
    OBVIOUS
<1>2. \A k \in 1..(Len(unread) + 1) : k \in 1..Len(unread) \/ k = Len(unread) + 1
    OBVIOUS
<1>3. ASSUME Behind(unread, m, FALSE, t)
      PROVE  Behind(Append(unread, [of |-> m + 1, ends |-> FALSE]), m + 1, TRUE, t)
  <2>1. PICK piece, new : piece = [of |-> m + 1, ends |-> FALSE] /\ new = Append(unread, piece)
      OBVIOUS
  <2>2. 2 * t + Len(unread) = 2 * m
      BY <1>3 DEF Behind
  <2>3. /\ Len(new) = Len(unread) + 1 /\ new[Len(unread) + 1] = piece
        /\ \A k \in 1..Len(unread) : new[k] = unread[k]
      BY <1>1, <2>1
  <2>4. \A k \in 1..Len(unread) : 2 * (new[k].of - t) = k + (IF new[k].ends THEN 0 ELSE 1)
      BY <1>3, <2>3 DEF Behind
  <2>5. piece.of = m + 1 /\ ~piece.ends
      BY <2>1
  <2>6. 2 * (piece.of - t) = Len(unread) + 1 + 1
      BY <2>2, <2>5
  <2>7. \A k \in 1..Len(new) : 2 * (new[k].of - t) = k + (IF new[k].ends THEN 0 ELSE 1)
      BY <1>2, <2>3, <2>4, <2>5, <2>6
  <2>8. 2 * t + Len(new) = 2 * (m + 1) - 1
      BY <2>2, <2>3
  <2> QED BY <2>1, <2>7, <2>8 DEF Behind
<1>4. ASSUME Behind(unread, m, TRUE, t)
      PROVE  Behind(Append(unread, [of |-> m, ends |-> TRUE]), m, FALSE, t)
  <2>1. PICK piece, new : piece = [of |-> m, ends |-> TRUE] /\ new = Append(unread, piece)
      OBVIOUS
  <2>2. 2 * t + Len(unread) = 2 * m - 1
      BY <1>4 DEF Behind
  <2>3. /\ Len(new) = Len(unread) + 1 /\ new[Len(unread) + 1] = piece
        /\ \A k \in 1..Len(unread) : new[k] = unread[k]
      BY <1>1, <2>1
  <2>4. \A k \in 1..Len(unread) : 2 * (new[k].of - t) = k + (IF new[k].ends THEN 0 ELSE 1)
      BY <1>4, <2>3 DEF Behind
  <2>5. piece.of = m /\ piece.ends
      BY <2>1
  <2>6. 2 * (piece.of - t) = Len(unread) + 1
      BY <2>2, <2>5
  <2>7. \A k \in 1..Len(new) : 2 * (new[k].of - t) = k + (IF new[k].ends THEN 0 ELSE 1)
      BY <1>2, <2>3, <2>4, <2>5, <2>6
  <2>8. 2 * t + Len(new) = 2 * m
      BY <2>2, <2>3
  <2> QED BY <2>1, <2>7, <2>8 DEF Behind
<1> QED BY <1>3, <1>4

LEMMA PieceAppended ==
    ASSUME NEW data \in Seq(Pieces), NEW read \in Seq(Pieces), NEW piece \in Pieces
    PROVE  data \o Append(read, piece) = Append(data \o read, piece)
OBVIOUS

\* Of c a piece is read, of the others nothing, and nobody is sent anything.
LEMMA OnlyReadKept ==
    ASSUME IntegrationsIInv, IntegrationsTypeOK', NEW c \in Sockets, active[c],
           UNCHANGED <<link, active, incomingData, heard, writeStream, initialising, request,
                       joined, notices, cached>>,
           \A d \in Sockets \ {c} : ReadingKept(d),
           \A t \in Nat : Socket(c, t) => ReadUpTo(c, t)' /\ Len(kinds'[c]) <= MaxMessages,
           kinds'[c] = kinds[c] \/ \E kind : kinds'[c] = Append(kinds[c], kind)
    PROVE  IntegrationsIInv'
<1>1. InitialisingAsClient'
    BY DEF IntegrationsIInv, InitialisingAsClient
<1>2. ASSUME NEW d \in Sockets PROVE \E t \in Nat : Socket(d, t)'
  <2>1. PICK t \in Nat : Socket(d, t)
      BY DEF IntegrationsIInv
  <2>2. Sent(d)' = Sent(d)
      BY DEF Sent
  <2>3. CASE d # c
    <3>1. kinds'[d] = kinds[d] /\ ReadingKept(d)
        BY <2>3 DEF ReadingKept
    <3>2. TouchedUpTo(d, t) => TouchedUpTo(d, t)'
        BY <2>2, <3>1, TouchKept
    <3>3. active[d] => link[d] \in {"waiting", "client"}
        BY <2>1 DEF Socket
    <3> QED BY <2>1, <2>2, <3>1, <3>2, <3>3, SocketKept
  <2>4. CASE d = c
    <3>1. link[c] \in {"waiting", "client"} /\ TouchedUpTo(c, t) /\ ReadUpTo(c, t)
        BY <2>1, <2>4 DEF Socket
    <3>2. t <= Len(kinds[c]) /\ kinds[c] \in Seq(MessageKinds)
        BY <3>1, ReadBounds, TypedSocket DEF IntegrationsIInv
    <3>3. PICK s, stage : s = Sent(c) /\ stage = StageOf(c)
        OBVIOUS
    <3>4. Conversing(s, kinds[c], t, stage, request)
          /\ Informed(s, Subscriptions[c], stage, joined[c], notices, cached)
        BY <3>1, <3>3 DEF TouchedUpTo, Touched, Outcome, Sent, InTouch
    <3>5. Conversing(s, kinds'[c], t, stage, request)
        BY <3>2, <3>4, SentMore
    <3>6. (heard[c] \o writeStream[c])' = s /\ StageOf(c)' = stage
        BY <2>2, <2>4, <3>3 DEF StageOf, Sent
    <3>7. TouchedUpTo(c, t)'
        BY <3>4, <3>5, <3>6 DEF TouchedUpTo, Touched, Outcome, InTouch
    <3>8. ReadUpTo(c, t)' /\ Len(kinds'[c]) <= MaxMessages
        BY <2>1, <2>4
    <3> QED BY <2>4, <3>1, <3>7, <3>8 DEF Socket
  <2> QED BY <2>3, <2>4
<1> QED BY <1>1, <1>2 DEF IntegrationsIInv

LEMMA ReadBeginningKept ==
    ASSUME IntegrationsIInv, NEW c \in Sockets, NEW kind \in MessageKinds, ReadBeginning(c, kind)
    PROVE  IntegrationsIInv'
<1>1. UNCHANGED <<link, overdue, active, incomingData, heard, writeStream, initialising, request,
                  joined, source, notices, cached>> /\ active[c] /\ ~begun[c]
    BY DEF ReadBeginning, serverVars, eventVars
<1>2. PICK m, piece : m = Len(kinds[c]) /\ piece = [of |-> m + 1, ends |-> FALSE]
    OBVIOUS
<1>3. /\ kinds[c] \in Seq(MessageKinds) /\ m \in Nat /\ Unread(c) \in Seq(Pieces)
      /\ readStream[c] \in Seq(Pieces) /\ incomingData[c] \in Seq(Pieces)
    BY <1>2, TypedSocket DEF IntegrationsIInv
<1>4. m + 1 \in 1..MaxMessages
    BY <1>2, <1>3, SocketsAssumption DEF ReadBeginning
<1>5. piece \in Pieces
    BY <1>2, <1>4 DEF Pieces
<1>6. kinds' = [kinds EXCEPT ![c] = Append(kinds[c], kind)] /\ begun' = [begun EXCEPT ![c] = TRUE]
    BY DEF ReadBeginning
<1>7. kinds'[c] = Append(kinds[c], kind) /\ Len(kinds'[c]) = m + 1 /\ begun'[c] = TRUE
    BY <1>2, <1>3, <1>6 DEF IntegrationsIInv, IntegrationsTypeOK
<1>8. readStream' = [readStream EXCEPT ![c] = Append(readStream[c], piece)]
    BY <1>2, <1>7 DEF ReadBeginning
<1>9. readStream'[c] = Append(readStream[c], piece)
    BY <1>8 DEF IntegrationsIInv, IntegrationsTypeOK
<1>10. IntegrationsTypeOK'
  <2>1. kinds' \in [Sockets -> Seq(MessageKinds)] /\ begun' \in [Sockets -> BOOLEAN]
      BY <1>3, <1>6, SMTT(30) DEF IntegrationsIInv, IntegrationsTypeOK
  <2>2. readStream' \in [Sockets -> Seq(Pieces)]
      BY <1>3, <1>5, <1>8 DEF IntegrationsIInv, IntegrationsTypeOK
  <2> QED BY <1>1, <2>1, <2>2 DEF IntegrationsIInv, IntegrationsTypeOK
<1>11. \A d \in Sockets \ {c} : ReadingKept(d)
    BY <1>1, <1>6, <1>8 DEF ReadingKept, IntegrationsIInv, IntegrationsTypeOK
<1>12. Unread(c)' = Append(Unread(c), piece)
  <2>1. PICK data, read : data = incomingData[c] /\ read = readStream[c]
      OBVIOUS
  <2>2. data \o Append(read, piece) = Append(data \o read, piece)
      BY <1>3, <1>5, <2>1, PieceAppended
  <2>3. Unread(c) = data \o read
      BY <2>1 DEF Unread
  <2>4. Unread(c)' = data \o Append(read, piece)
      BY <1>1, <1>9, <2>1 DEF Unread
  <2> QED BY <2>2, <2>3, <2>4
<1>13. ASSUME NEW t \in Nat, Socket(c, t) PROVE ReadUpTo(c, t)'
  <2>1. Behind(Unread(c), m, FALSE, t) /\ \A k \in DOMAIN incomingData[c] : ~incomingData[c][k].ends
      BY <1>1, <1>2, <1>13 DEF Socket, ReadUpTo, IntegrationsIInv, IntegrationsTypeOK
  <2>2. Behind(Append(Unread(c), piece), m + 1, TRUE, t)
      BY <1>2, <1>3, <2>1, PieceRead
  <2> QED BY <1>1, <1>7, <1>12, <2>1, <2>2 DEF ReadUpTo
<1>14. m + 1 <= MaxMessages
    BY <1>4, SocketsAssumption
<1> QED BY <1>1, <1>7, <1>10, <1>11, <1>13, <1>14, OnlyReadKept

LEMMA ReadEndKept ==
    ASSUME IntegrationsIInv, NEW c \in Sockets, ReadEnd(c) PROVE IntegrationsIInv'
<1>1. UNCHANGED <<link, overdue, active, kinds, incomingData, heard, writeStream, initialising, request,
                  joined, source, notices, cached>> /\ active[c] /\ begun[c]
    BY DEF ReadEnd, serverVars, eventVars
<1>2. PICK m, piece : m = Len(kinds[c]) /\ piece = [of |-> m, ends |-> TRUE]
    OBVIOUS
<1>3. /\ m \in Nat /\ Unread(c) \in Seq(Pieces)
      /\ readStream[c] \in Seq(Pieces) /\ incomingData[c] \in Seq(Pieces)
    BY <1>2, TypedSocket DEF IntegrationsIInv
<1>4. m \in 1..MaxMessages
  <2>1. PICK t \in Nat : Socket(c, t)
      BY DEF IntegrationsIInv
  <2>2. m <= MaxMessages /\ t <= EndedOf(m, TRUE)
      BY <1>1, <1>2, <2>1, ReadBounds DEF Socket, IntegrationsIInv, IntegrationsTypeOK
  <2>3. EndedOf(m, TRUE) = m - 1
      BY DEF EndedOf
  <2>4. t \in Nat /\ t <= m - 1
      BY <2>2, <2>3
  <2> QED BY <1>3, <2>2, <2>4, SocketsAssumption
<1>5. piece \in Pieces
    BY <1>2, <1>4 DEF Pieces
<1>6. begun' = [begun EXCEPT ![c] = FALSE]
      /\ readStream' = [readStream EXCEPT ![c] = Append(readStream[c], piece)]
    BY <1>2 DEF ReadEnd
<1>7. begun'[c] = FALSE /\ readStream'[c] = Append(readStream[c], piece)
    BY <1>6 DEF IntegrationsIInv, IntegrationsTypeOK
<1>10. IntegrationsTypeOK'
  <2>1. begun' \in [Sockets -> BOOLEAN] /\ readStream' \in [Sockets -> Seq(Pieces)]
      BY <1>3, <1>5, <1>6, SMTT(30) DEF IntegrationsIInv, IntegrationsTypeOK
  <2> QED BY <1>1, <2>1 DEF IntegrationsIInv, IntegrationsTypeOK
<1>11. \A d \in Sockets \ {c} : ReadingKept(d)
    BY <1>1, <1>6 DEF ReadingKept, IntegrationsIInv, IntegrationsTypeOK
<1>12. Unread(c)' = Append(Unread(c), piece)
  <2>1. PICK data, read : data = incomingData[c] /\ read = readStream[c]
      OBVIOUS
  <2>2. data \o Append(read, piece) = Append(data \o read, piece)
      BY <1>3, <1>5, <2>1, PieceAppended
  <2>3. Unread(c) = data \o read
      BY <2>1 DEF Unread
  <2>4. Unread(c)' = data \o Append(read, piece)
      BY <1>1, <1>7, <2>1 DEF Unread
  <2> QED BY <2>2, <2>3, <2>4
<1>13. ASSUME NEW t \in Nat, Socket(c, t) PROVE ReadUpTo(c, t)' /\ Len(kinds'[c]) <= MaxMessages
  <2>1. Behind(Unread(c), m, TRUE, t) /\ \A k \in DOMAIN incomingData[c] : ~incomingData[c][k].ends
      BY <1>1, <1>2, <1>13 DEF Socket, ReadUpTo, IntegrationsIInv, IntegrationsTypeOK
  <2>2. Behind(Append(Unread(c), piece), m, FALSE, t)
      BY <1>2, <1>3, <2>1, PieceRead
  <2>3. Len(kinds'[c]) <= MaxMessages
      BY <1>1, <1>13 DEF Socket
  <2> QED BY <1>1, <1>2, <1>7, <1>12, <2>1, <2>2, <2>3 DEF ReadUpTo
<1> QED BY <1>1, <1>10, <1>11, <1>13, OnlyReadKept

\* Nothing has happened but that events have been sent.
LEMMA SendingKept ==
    ASSUME IntegrationsIInv, IntegrationsTypeOK',
           UNCHANGED <<link, active, kinds, begun, readStream, incomingData, initialising>>,
           \A d \in Sockets, t \in Nat : active[d] /\ TouchedUpTo(d, t) => TouchedUpTo(d, t)',
           \A d \in Sockets : link[d] = "none" => Sent(d)' = Sent(d)
    PROVE  IntegrationsIInv'
<1>1. ASSUME NEW d \in Sockets PROVE \E t \in Nat : Socket(d, t)'
  <2>1. PICK t \in Nat : Socket(d, t)
      BY DEF IntegrationsIInv
  <2>2. ReadingKept(d)
      BY DEF ReadingKept
  <2>3. active[d] => link[d] \in {"waiting", "client"}
      BY <2>1 DEF Socket
  <2> QED BY <2>1, <2>2, <2>3, SocketKept
<1>2. InitialisingAsClient'
    BY DEF IntegrationsIInv, InitialisingAsClient
<1> QED BY <1>1, <1>2 DEF IntegrationsIInv

LEMMA TouchedThen ==
    ASSUME NEW so, NEW d, NEW t, Touched(so, d, t), writeStream' = so.streams, notices' = so.notices,
           UNCHANGED <<link, kinds, heard, initialising, request, joined, cached>>
    PROVE  TouchedUpTo(d, t)'
<1>1. PICK s, stage : s = heard[d] \o so.streams[d] /\ stage = StageOf(d)
    OBVIOUS
<1>2. (heard[d] \o writeStream[d])' = s /\ StageOf(d)' = stage
    BY <1>1 DEF StageOf
<1>3. InTouch(s, kinds[d], t, stage, request, Subscriptions[d], joined[d], so.notices, cached)
    BY <1>1 DEF Touched
<1> QED BY <1>2, <1>3 DEF TouchedUpTo, Touched, Outcome

LEMMA WorkerSendsEventKept ==
    ASSUME IntegrationsIInv, WorkerSendsEvent PROVE IntegrationsIInv'
<1>1. UNCHANGED <<link, overdue, active, kinds, begun, readStream, incomingData, heard, initialising,
                  request, joined, source, cached>>
    BY DEF WorkerSendsEvent, serverVars, socketVars
<1>2. PICK so, after : so = Outcome /\ after = [streams |-> SendEvent(so.streams, "notice", Notice(so.notices + 1)),
                                                notices |-> so.notices + 1]
    OBVIOUS
<1>3. so \in Outcomes /\ request \in Nat /\ StagesTyped
    BY <1>2, TypedStages DEF IntegrationsIInv
<1>4. writeStream' = after.streams /\ notices' = after.notices /\ so.streams = writeStream
    BY <1>2 DEF WorkerSendsEvent, Outcome
<1>5. /\ after \in Outcomes
      /\ \A d \in Sockets, t \in Nat : Touched(so, d, t) => Touched(after, d, t)
      /\ \A d \in Sockets : link[d] # "client" => heard[d] \o after.streams[d] = heard[d] \o so.streams[d]
    BY <1>2, <1>3, NoticeRight
<1>6. IntegrationsTypeOK'
    BY <1>1, <1>4, <1>5 DEF IntegrationsTypeOK, IntegrationsIInv, Outcomes
<1>7. ASSUME NEW d \in Sockets, NEW t \in Nat, TouchedUpTo(d, t) PROVE TouchedUpTo(d, t)'
  <2>1. Touched(after, d, t)
      BY <1>2, <1>5, <1>7 DEF TouchedUpTo
  <2> QED BY <1>1, <1>4, <2>1, TouchedThen
<1>8. \A d \in Sockets : link[d] = "none" => Sent(d)' = Sent(d)
    BY <1>1, <1>4, <1>5 DEF Sent
<1> QED BY <1>1, <1>6, <1>7, <1>8, SendingKept

\* The state v is sent to those who subscribed.
LEMMA StateRight ==
    ASSUME NEW w, StreamsTyped(w), StagesTyped, request \in Nat, NEW v \in Nat,
           NEW after, after = SendEvent(w, "state", State(v)),
           NEW d \in Sockets, NEW t \in Nat, NEW n,
           InTouch(heard[d] \o w[d], kinds[d], t, StageOf(d), request, Subscriptions[d], joined[d], n, cached)
    PROVE  InTouch(heard[d] \o after[d], kinds[d], t, StageOf(d), request, Subscriptions[d], joined[d], n, v)
<1>1. PICK m : m = State(v)
    OBVIOUS
<1>2. m = <<"state", v>> /\ "state" \in Sorts /\ m \in Outbound
    BY <1>1 DEF State, Sorts, Outbound
<1>3. /\ link[d] = "client" /\ "state" \in Subscriptions[d] => after[d] = Append(w[d], m)
      /\ link[d] # "client" \/ "state" \notin Subscriptions[d] => after[d] = w[d]
    BY <1>1, <1>2, EventSent, SMTT(30)
<1>4. PICK s, K, subs, from, stage :
         /\ s = heard[d] \o w[d] /\ K = kinds[d] /\ subs = Subscriptions[d] /\ from = joined[d]
         /\ stage = StageOf(d)
    OBVIOUS
<1>5. heard[d] \in Seq(Outbound) /\ w[d] \in Seq(Outbound)
    BY DEF StreamsTyped, StagesTyped
<1>6. s \in Seq(Outbound) /\ heard[d] \o Append(w[d], m) = Append(s, m)
    BY <1>2, <1>4, <1>5, SentAppended
<1>7. InTouch(s, K, t, stage, request, subs, from, n, cached)
    BY <1>4
<1>8. CASE link[d] # "client"
  <2>1. stage \notin {"initialising", "client"}
      BY <1>4, <1>8 DEF StageOf, StagesTyped
  <2>2. InTouch(s, K, t, stage, request, subs, from, n, v)
      BY <1>7, <2>1, Uninformed
  <2> QED BY <1>3, <1>4, <1>8, <2>2
<1>9. CASE link[d] = "client"
  <2>1. stage \in {"initialising", "client"}
      BY <1>4, <1>9 DEF StageOf
  <2>2. /\ "state" \in subs => InTouch(Append(s, m), K, t, stage, request, subs, from, n, v)
        /\ "state" \notin subs => InTouch(s, K, t, stage, request, subs, from, n, v)
      BY <1>1, <1>6, <1>7, <2>1, StateTouching
  <2>3. /\ "state" \in subs => heard[d] \o after[d] = Append(s, m)
        /\ "state" \notin subs => heard[d] \o after[d] = s
      BY <1>3, <1>4, <1>6, <1>9
  <2> QED BY <1>4, <2>2, <2>3
<1> QED BY <1>8, <1>9

LEMMA TagItemShownKept ==
    ASSUME IntegrationsIInv, TagItemShown PROVE IntegrationsIInv'
<1>1. UNCHANGED <<link, overdue, active, kinds, begun, readStream, incomingData, heard, initialising,
                  request, joined, source, notices>>
    BY DEF TagItemShown, ResolveCached, serverVars, socketVars
<1>2. CASE cached # Uncached
  <2>1. UNCHANGED <<cached, writeStream>>
      BY <1>2 DEF TagItemShown, ResolveCached, StreamsResolved
  <2>2. IntegrationsTypeOK' /\ InitialisingAsClient' /\ active \in [Sockets -> BOOLEAN]
      BY <1>1, <2>1 DEF IntegrationsIInv, IntegrationsTypeOK, InitialisingAsClient
  <2>3. \A d \in Sockets : Sent(d)' = Sent(d)
      BY <1>1, <2>1 DEF Sent
  <2> QED BY <1>1, <2>1, <2>2, <2>3, NothingSentKept
<1>3. CASE cached = Uncached
  <2>1. writeStream' = SendEvent(writeStream, "state", State(source)) /\ cached' = source
      BY <1>3 DEF TagItemShown, ResolveCached, StreamsResolved
  <2>2. PICK m : m = State(source)
      OBVIOUS
  <2>3. source \in Nat /\ source \in 0..(MaxChanges + 1)
      BY SocketsAssumption DEF IntegrationsIInv, IntegrationsTypeOK
  <2>4. m \in Outbound
      BY <2>2, <2>3 DEF State, Outbound, Sorts
  <2>5. StagesTyped /\ StreamsTyped(writeStream) /\ request \in Nat
      BY TypedStages DEF IntegrationsIInv
  <2>6. StreamsTyped(writeStream') /\ \A d \in Sockets : link[d] # "client" => writeStream'[d] = writeStream[d]
      BY <2>1, <2>2, <2>4, <2>5, EventSent
  <2>7. IntegrationsTypeOK'
      BY <1>1, <2>1, <2>3, <2>6 DEF IntegrationsIInv, IntegrationsTypeOK, StreamsTyped
  <2>8. ASSUME NEW d \in Sockets, NEW t \in Nat, TouchedUpTo(d, t) PROVE TouchedUpTo(d, t)'
    <3>1. InTouch(heard[d] \o writeStream[d], kinds[d], t, StageOf(d), request, Subscriptions[d], joined[d],
                  notices, cached)
        BY <2>8 DEF TouchedUpTo, Touched, Outcome
    <3>2. InTouch(heard[d] \o writeStream'[d], kinds[d], t, StageOf(d), request, Subscriptions[d], joined[d],
                  notices, source)
        BY <2>1, <2>3, <2>5, <3>1, StateRight
    <3>3. PICK s, stage : s = heard[d] \o writeStream'[d] /\ stage = StageOf(d)
        OBVIOUS
    <3>4. (heard[d] \o writeStream[d])' = s /\ StageOf(d)' = stage
        BY <1>1, <3>3 DEF StageOf
    <3> QED BY <1>1, <2>1, <3>2, <3>3, <3>4 DEF TouchedUpTo, Touched, Outcome
  <2>9. \A d \in Sockets : link[d] = "none" => Sent(d)' = Sent(d)
      BY <1>1, <2>6 DEF Sent
  <2> QED BY <1>1, <2>7, <2>8, <2>9, SendingKept
<1> QED BY <1>2, <1>3

-------------------------------------------------------------------------------
(* The steps: what the EuroScope thread receives and answers               *)

\* What is received of c, and up to which message
ReceivedUpTo(c, t, u, messages) ==
    /\ u \in Nat /\ t <= u
    /\ messages \in Seq(Nat) /\ Rising(messages)
    /\ ToSet(messages) = {i \in (t + 1)..u : kinds[c][i] # "garbage"}

LEMMA ReceivingRight ==
    ASSUME IntegrationsIInv, NEW c \in Sockets, NEW t \in Nat, Socket(c, t),
           Receive(c), UNCHANGED <<kinds, begun>>
    PROVE  \E u \in t..Len(kinds[c]) :
              /\ ReceivedUpTo(c, t, u, Received(c)) /\ ReadUpTo(c, u)' /\ u <= MaxMessages
              /\ readStream' \in [Sockets -> Seq(Pieces)] /\ incomingData' \in [Sockets -> Seq(Pieces)]
              /\ \A d \in Sockets \ {c} : ReadingKept(d)
<1>1. PICK u : u = EndedOf(Len(kinds[c]), begun[c])
    OBVIOUS
<1>2. IntegrationsTypeOK /\ ReadUpTo(c, t) /\ Len(kinds[c]) <= MaxMessages /\ Len(kinds[c]) \in Nat
    BY TypedSocket DEF IntegrationsIInv, Socket
<1>3. /\ ReadUpTo(c, u)' /\ u \in t..Len(kinds[c])
      /\ readStream' \in [Sockets -> Seq(Pieces)] /\ incomingData' \in [Sockets -> Seq(Pieces)]
      /\ \A d \in Sockets \ {c} : readStream'[d] = readStream[d] /\ incomingData'[d] = incomingData[d]
    BY <1>1, <1>2, ReceiveRight
<1>4. /\ Received(c) \in Seq(Nat) /\ Rising(Received(c))
      /\ ToSet(Received(c)) = {i \in (t + 1)..u : kinds[c][i] # "garbage"}
    BY <1>1, <1>2, TypedSocket, ReceivedRight
<1>5. u \in Nat /\ t <= u /\ u <= MaxMessages
    BY <1>2, <1>3, SocketsAssumption
<1>6. \A d \in Sockets \ {c} : ReadingKept(d)
    BY <1>3 DEF ReadingKept
<1> QED BY <1>3, <1>4, <1>5, <1>6 DEF ReceivedUpTo

LEMMA FailuresTyped ==
    ASSUME NEW messages \in Seq(Nat), NEW h \in Seq(Outbound), NEW w \in Seq(Outbound)
    PROVE  /\ w \o Failures(messages) \in Seq(Outbound)
           /\ h \o (w \o Failures(messages)) = (h \o w) \o Failures(messages)
<1>1. PICK f : f = Failures(messages)
    OBVIOUS
<1>2. f \in Seq(Outbound)
  <2>1. \A j \in 1..Len(messages) : Answer("initialisation_failure", messages[j]) \in Outbound
      BY DEF Answer, Outbound, Sorts
  <2>2. f = [j \in 1..Len(messages) |-> Answer("initialisation_failure", messages[j])]
      BY <1>1 DEF Failures
  <2> QED BY <2>1, <2>2
<1>3. w \o f \in Seq(Outbound) /\ h \o (w \o f) = (h \o w) \o f
    BY <1>2
<1> QED BY <1>1, <1>3

LEMMA RefuseInitialisationKept ==
    ASSUME IntegrationsIInv, NEW c \in Sockets, RefuseInitialisation(c) PROVE IntegrationsIInv'
<1>1. UNCHANGED <<link, overdue, active, kinds, begun, heard, initialising, request, joined, source,
                  notices, cached>>
    BY DEF RefuseInitialisation, serverVars, eventVars
<1>2. PICK messages : messages = Received(c)
    OBVIOUS
<1>3. /\ writeStream' = [writeStream EXCEPT ![c] = writeStream[c] \o Failures(messages)]
      /\ Receive(c) /\ link[c] = "waiting" /\ c # initialising
    BY <1>2, SocketsAssumption DEF RefuseInitialisation, EuroScopeThreadFree
<1>4. PICK t0 \in Nat : Socket(c, t0)
    BY DEF IntegrationsIInv
<1>5. PICK u \in t0..Len(kinds[c]) :
         /\ ReceivedUpTo(c, t0, u, messages) /\ ReadUpTo(c, u)' /\ u <= MaxMessages
         /\ readStream' \in [Sockets -> Seq(Pieces)] /\ incomingData' \in [Sockets -> Seq(Pieces)]
         /\ \A d \in Sockets \ {c} : ReadingKept(d)
    BY <1>1, <1>2, <1>3, <1>4, ReceivingRight
<1>6. heard[c] \in Seq(Outbound) /\ writeStream[c] \in Seq(Outbound) /\ Sent(c) \in Seq(Outbound)
    BY TypedSocket DEF IntegrationsIInv
<1>7. /\ u \in Nat /\ t0 <= u /\ messages \in Seq(Nat) /\ Rising(messages)
      /\ ToSet(messages) = {i \in (t0 + 1)..u : kinds[c][i] # "garbage"}
    BY <1>5 DEF ReceivedUpTo
<1>8. /\ writeStream[c] \o Failures(messages) \in Seq(Outbound)
      /\ heard[c] \o (writeStream[c] \o Failures(messages)) = (heard[c] \o writeStream[c]) \o Failures(messages)
    BY <1>6, <1>7, FailuresTyped
<1>9. writeStream \in [Sockets -> Seq(Outbound)]
    BY DEF IntegrationsIInv, IntegrationsTypeOK
<1>10. /\ writeStream'[c] = writeStream[c] \o Failures(messages)
       /\ writeStream' \in [Sockets -> Seq(Outbound)]
       /\ \A d \in Sockets \ {c} : writeStream'[d] = writeStream[d]
    BY <1>3, <1>8, <1>9
<1>11. IntegrationsTypeOK'
    BY <1>1, <1>5, <1>10 DEF IntegrationsIInv, IntegrationsTypeOK
<1>12. InitialisingAsClient'
    BY <1>1 DEF IntegrationsIInv, InitialisingAsClient
<1>13. ASSUME NEW d \in Sockets \ {c} PROVE \E t \in Nat : Socket(d, t)'
  <2>1. PICK t \in Nat : Socket(d, t)
      BY DEF IntegrationsIInv
  <2>2. ReadingKept(d) /\ Sent(d)' = Sent(d)
      BY <1>1, <1>5, <1>10 DEF Sent
  <2>3. TouchedUpTo(d, t) => TouchedUpTo(d, t)'
      BY <1>1, <2>2, TouchKept
  <2>4. active[d] => link[d] \in {"waiting", "client"}
      BY <2>1 DEF Socket
  <2> QED BY <1>1, <2>1, <2>2, <2>3, <2>4, SocketKept
<1>14. Socket(c, u)'
  <2>1. ASSUME active[c] PROVE TouchedUpTo(c, u)'
    <3>1. PICK s, K : s = Sent(c) /\ K = kinds[c]
        OBVIOUS
    <3>2. StageOf(c) = "waiting" /\ StageOf(c)' = "waiting"
        BY <1>1, <1>3 DEF StageOf
    <3>3. Conversing(s, K, t0, "waiting", request)
        BY <1>4, <2>1, <3>1, <3>2 DEF Socket, TouchedUpTo, Touched, Outcome, InTouch, Sent
    <3>4. Conversing(s \o Failures(messages), K, u, "waiting", request)
        BY <1>6, <1>7, <3>1, <3>3, RefusedConversing
    <3>5. (heard[c] \o writeStream[c])' = s \o Failures(messages)
        BY <1>1, <1>8, <1>10, <3>1 DEF Sent
    <3> QED BY <1>1, <3>1, <3>2, <3>4, <3>5 DEF TouchedUpTo, Touched, Outcome, InTouch, Informed
  <2> QED BY <1>1, <1>3, <1>4, <1>5, <2>1 DEF Socket
<1>15. u \in Nat
    BY <1>7
<1> QED BY <1>11, <1>12, <1>13, <1>14, <1>15 DEF IntegrationsIInv

\* Who does not initialise does not mind who does.
LEMMA TouchKeptAside ==
    ASSUME NEW d, NEW t, TouchedUpTo(d, t), Sent(d)' = Sent(d), kinds'[d] = kinds[d],
           link'[d] = link[d], joined'[d] = joined[d], UNCHANGED <<notices, cached>>,
           d # initialising, d # initialising', link[d] # "initialising"
    PROVE  TouchedUpTo(d, t)'
<1>1. PICK s : s = Sent(d)
    OBVIOUS
<1>2. StageOf(d) = link[d] /\ StageOf(d)' = link[d] /\ (heard[d] \o writeStream[d])' = s
    BY <1>1 DEF StageOf, Sent
<1>3. InTouch(s, kinds[d], t, link[d], request, Subscriptions[d], joined[d], notices, cached)
    BY <1>1, <1>2 DEF TouchedUpTo, Touched, Outcome, Sent
<1>4. InTouch(s, kinds[d], t, link[d], request', Subscriptions[d], joined[d], notices, cached)
    BY <1>3 DEF InTouch, Conversing
<1> QED BY <1>2, <1>4 DEF TouchedUpTo, Touched, Outcome

LEMMA UpgradeToClientKept ==
    ASSUME IntegrationsIInv, NEW c \in Sockets, UpgradeToClient(c) PROVE IntegrationsIInv'
<1>1. UNCHANGED <<overdue, active, kinds, begun, heard, source, notices, cached>>
    BY DEF UpgradeToClient, eventVars
<1>2. PICK messages : messages = Received(c)
    OBVIOUS
<1>3. PICK k \in DOMAIN messages :
         /\ kinds[c][messages[k]] = "initialise"
         /\ writeStream' = [writeStream EXCEPT ![c] = writeStream[c] \o Failures(SubSeq(messages, 1, k - 1))]
         /\ request' = messages[k]
    BY <1>2 DEF UpgradeToClient
<1>4. /\ Receive(c) /\ link[c] = "waiting" /\ initialising = NoSocket
      /\ link' = [link EXCEPT ![c] = "client"] /\ initialising' = c
      /\ joined' = [joined EXCEPT ![c] = notices]
    BY DEF UpgradeToClient, EuroScopeThreadFree
<1>5. PICK t0 \in Nat : Socket(c, t0)
    BY DEF IntegrationsIInv
<1>6. PICK u \in t0..Len(kinds[c]) :
         /\ ReceivedUpTo(c, t0, u, messages) /\ ReadUpTo(c, u)' /\ u <= MaxMessages
         /\ readStream' \in [Sockets -> Seq(Pieces)] /\ incomingData' \in [Sockets -> Seq(Pieces)]
         /\ \A d \in Sockets \ {c} : ReadingKept(d)
    BY <1>1, <1>2, <1>4, <1>5, ReceivingRight
<1>7. heard[c] \in Seq(Outbound) /\ writeStream[c] \in Seq(Outbound) /\ Sent(c) \in Seq(Outbound)
    BY TypedSocket DEF IntegrationsIInv
<1>8. /\ u \in Nat /\ t0 <= u /\ messages \in Seq(Nat) /\ Rising(messages)
      /\ ToSet(messages) = {i \in (t0 + 1)..u : kinds[c][i] # "garbage"}
    BY <1>6 DEF ReceivedUpTo
<1>9. PICK first : first = SubSeq(messages, 1, k - 1)
    OBVIOUS
<1>10. first \in Seq(Nat)
    BY <1>8, <1>9
<1>11. /\ writeStream[c] \o Failures(first) \in Seq(Outbound)
       /\ heard[c] \o (writeStream[c] \o Failures(first)) = (heard[c] \o writeStream[c]) \o Failures(first)
    BY <1>7, <1>10, FailuresTyped
<1>12. writeStream \in [Sockets -> Seq(Outbound)]
    BY DEF IntegrationsIInv, IntegrationsTypeOK
<1>13. /\ writeStream'[c] = writeStream[c] \o Failures(first)
       /\ writeStream' \in [Sockets -> Seq(Outbound)]
       /\ \A d \in Sockets \ {c} : writeStream'[d] = writeStream[d]
    BY <1>3, <1>9, <1>11, <1>12
<1>14. notices \in Nat /\ link \in [Sockets -> {"none", "waiting", "client", "dropped"}] /\ joined \in [Sockets -> Nat]
    BY DEF IntegrationsIInv, IntegrationsTypeOK
<1>15. /\ link'[c] = "client" /\ joined'[c] = notices
       /\ link' \in [Sockets -> {"none", "waiting", "client", "dropped"}] /\ joined' \in [Sockets -> Nat]
       /\ \A d \in Sockets \ {c} : link'[d] = link[d] /\ joined'[d] = joined[d]
    BY <1>4, <1>14
<1>16. request' \in 1..u
  <2>1. messages[k] \in ToSet(messages)
      BY DEF ToSet
  <2>2. messages[k] \in (t0 + 1)..u
      BY <1>8, <2>1
  <2> QED BY <1>3, <1>8, <2>2
<1>17. request' \in 0..MaxMessages
    BY <1>6, <1>8, <1>16, SocketsAssumption
<1>18. IntegrationsTypeOK'
    BY <1>1, <1>4, <1>6, <1>13, <1>15, <1>17 DEF IntegrationsIInv, IntegrationsTypeOK
<1>19. InitialisingAsClient'
    BY <1>4, <1>15 DEF InitialisingAsClient
<1>20. ASSUME NEW d \in Sockets \ {c} PROVE \E t \in Nat : Socket(d, t)'
  <2>1. PICK t \in Nat : Socket(d, t)
      BY DEF IntegrationsIInv
  <2>2. ReadingKept(d) /\ Sent(d)' = Sent(d)
      BY <1>1, <1>6, <1>13 DEF Sent
  <2>3. d # initialising /\ d # initialising' /\ link[d] # "initialising"
      BY <1>4, <1>14, SocketsAssumption
  <2>4. TouchedUpTo(d, t) => TouchedUpTo(d, t)'
      BY <1>1, <1>15, <2>2, <2>3, TouchKeptAside
  <2>5. active[d] => link[d] \in {"waiting", "client"}
      BY <2>1 DEF Socket
  <2> QED BY <1>1, <1>15, <2>1, <2>2, <2>4, <2>5, SocketKept
<1>21. Socket(c, u)'
  <2>1. ASSUME active[c] PROVE TouchedUpTo(c, u)'
    <3>1. PICK s, K : s = Sent(c) /\ K = kinds[c]
        OBVIOUS
    <3>2. StageOf(c) = "waiting" /\ StageOf(c)' = "initialising"
        BY <1>4, SocketsAssumption DEF StageOf
    <3>3. Conversing(s, K, t0, "waiting", request)
        BY <1>5, <2>1, <3>1, <3>2 DEF Socket, TouchedUpTo, Touched, Outcome, InTouch, Sent
    <3>4. /\ Conversing(s \o Failures(first), K, u, "initialising", messages[k])
          /\ Numbers(s \o Failures(first), "notice") = {}
        BY <1>3, <1>7, <1>8, <1>9, <3>1, <3>3, UpgradedConversing, ZenonT(40)
    <3>5. Informed(s \o Failures(first), Subscriptions[c], "initialising", notices, notices, cached)
        BY <1>14, <3>4, JustJoined
    <3>6. (heard[c] \o writeStream[c])' = s \o Failures(first)
        BY <1>1, <1>11, <1>13, <3>1 DEF Sent
    <3> QED BY <1>1, <1>3, <1>15, <3>1, <3>2, <3>4, <3>5, <3>6 DEF TouchedUpTo, Touched, Outcome, InTouch
  <2> QED BY <1>1, <1>5, <1>6, <1>15, <2>1 DEF Socket
<1> QED BY <1>8, <1>18, <1>19, <1>20, <1>21 DEF IntegrationsIInv

LEMMA MessageAppended ==
    ASSUME NEW h \in Seq(Outbound), NEW w \in Seq(Outbound), NEW m \in Outbound
    PROVE  /\ h \o w \in Seq(Outbound) /\ Append(w, m) \in Seq(Outbound)
           /\ h \o Append(w, m) = Append(h \o w, m)
<1>1. h \o w \in Seq(Outbound) /\ h \o Append(w, m) = Append(h \o w, m)
    OBVIOUS
<1> QED BY <1>1

LEMMA SendInitialisationSuccessKept ==
    ASSUME IntegrationsIInv, SendInitialisationSuccess PROVE IntegrationsIInv'
<1>1. PICK c : c = initialising
    OBVIOUS
<1>2. c \in Sockets /\ link[c] = "client"
    BY <1>1 DEF IntegrationsIInv, IntegrationsTypeOK, InitialisingAsClient, SendInitialisationSuccess
<1>3. /\ UNCHANGED <<link, overdue, active, kinds, begun, readStream, incomingData, heard, request, joined,
                     source, notices>> /\ initialising' = NoSocket
    BY <1>1 DEF SendInitialisationSuccess, ResolveCached, socketVars
<1>4. /\ StagesTyped /\ StreamsTyped(writeStream) /\ request \in Nat /\ notices \in Nat
      /\ source \in Nat /\ source \in 0..(MaxChanges + 1) /\ cached \in Nat /\ cached \in 0..(MaxChanges + 1)
      /\ source # Uncached
    BY TypedStages, SocketsAssumption DEF IntegrationsIInv, IntegrationsTypeOK, Uncached
<1>5. PICK success, between : /\ success = <<"initialisation_success", request>>
                              /\ between = [writeStream EXCEPT ![c] = Append(writeStream[c], success)]
    OBVIOUS
<1>6. PICK h, s : h = heard[c] /\ s = h \o writeStream[c]
    OBVIOUS
<1>7. h \in Seq(Outbound) /\ writeStream[c] \in Seq(Outbound) /\ joined[c] \in Nat
    BY <1>2, <1>6, TypedSocket DEF IntegrationsIInv
<1>8. /\ s \in Seq(Outbound) /\ Append(writeStream[c], success) \in Seq(Outbound)
      /\ h \o Append(writeStream[c], success) = Append(s, success)
  <2>1. success \in Outbound
      BY <1>4, <1>5 DEF Outbound, Sorts
  <2> QED BY <1>6, <1>7, <2>1, MessageAppended
<1>9. /\ StreamsTyped(between) /\ between[c] = Append(writeStream[c], success)
      /\ \A d \in Sockets \ {c} : between[d] = writeStream[d]
    BY <1>2, <1>4, <1>5, <1>8 DEF StreamsTyped
<1>10. PICK new : new = Append(s, success)
    OBVIOUS
<1>11. writeStream' = InitialiseClient(c, between)
    BY <1>1, <1>5 DEF SendInitialisationSuccess, Answer
\* What is to be shown of each case
<1> DEFINE Others(v) == \A d \in Sockets \ {c}, t \in Nat :
                           InTouch(heard[d] \o writeStream[d], kinds[d], t, StageOf(d), request,
                                   Subscriptions[d], joined[d], notices, cached) =>
                              InTouch(heard[d] \o writeStream'[d], kinds[d], t, StageOf(d), request,
                                      Subscriptions[d], joined[d], notices, v)
           Own(v) == \A t \in Nat :
                        InTouch(s, kinds[c], t, "initialising", request, Subscriptions[c], joined[c], notices, cached) =>
                           InTouch(h \o writeStream'[c], kinds[c], t, "client", request,
                                   Subscriptions[c], joined[c], notices, v)
           Silent == \A d \in Sockets : link[d] = "none" => writeStream'[d] = writeStream[d]
<1>12. ASSUME NEW t \in Nat, NEW w \in Nat,
              InTouch(s, kinds[c], t, "initialising", request, Subscriptions[c], joined[c], notices, cached)
       PROVE  /\ new \in Seq(Outbound)
              /\ "state" \notin Subscriptions[c] =>
                    InTouch(new, kinds[c], t, "client", request, Subscriptions[c], joined[c], notices, cached)
              /\ "state" \in Subscriptions[c] =>
                    /\ InTouch(Append(new, State(w)), kinds[c], t, "client", request,
                               Subscriptions[c], joined[c], notices, w)
                    /\ InTouch(Append(Append(new, State(w)), State(w)), kinds[c], t, "client", request,
                               Subscriptions[c], joined[c], notices, w)
  <2>1. PICK K, subs, from : K = kinds[c] /\ subs = Subscriptions[c] /\ from = joined[c]
      OBVIOUS
  <2>2. InTouch(s, K, t, "initialising", request, subs, from, notices, cached) /\ from \in Nat
      BY <1>7, <1>12, <2>1
  <2>3. /\ new \in Seq(Outbound)
        /\ "state" \notin subs => InTouch(new, K, t, "client", request, subs, from, notices, cached)
        /\ "state" \in subs =>
              /\ InTouch(Append(new, State(w)), K, t, "client", request, subs, from, notices, w)
              /\ InTouch(Append(Append(new, State(w)), State(w)), K, t, "client", request, subs, from, notices, w)
      BY <1>4, <1>5, <1>8, <1>10, <2>2, Welcoming
  <2> QED BY <2>1, <2>3
<1>13. new = h \o between[c]
    BY <1>8, <1>9, <1>10
<1>14. /\ StreamsTyped(writeStream') /\ cached' \in 0..(MaxChanges + 1)
       /\ Others(cached') /\ Own(cached') /\ Silent
  <2>1. CASE "state" \notin Subscriptions[c]
    <3>1. writeStream' = between /\ cached' = cached
        BY <1>1, <1>11, <2>1 DEF InitialiseClient, SendInitialisationSuccess
    <3>2. Own(cached')
        BY <1>4, <1>12, <1>13, <2>1, <3>1
    <3>3. Others(cached')
        BY <1>9, <3>1
    <3> QED BY <1>2, <1>4, <1>9, <3>1, <3>2, <3>3
  <2>2. CASE "state" \in Subscriptions[c] /\ cached # Uncached
    <3>1. PICK v, m : v = cached /\ m = State(v)
        OBVIOUS
    <3>2. cached' = v /\ m = <<"state", v>> /\ "state" \in Sorts /\ v \in Nat
        BY <1>1, <1>4, <2>2, <3>1 DEF SendInitialisationSuccess, ResolveCached, State, Sorts
    <3>3. writeStream' = [between EXCEPT ![c] = Append(between[c], m)]
        BY <1>11, <2>2, <3>1 DEF InitialiseClient, StreamsResolved
    <3>4. between[c] \in Seq(Outbound)
        BY <1>2, <1>9 DEF StreamsTyped
    <3>5. Append(between[c], m) \in Seq(Outbound) /\ h \o Append(between[c], m) = Append(new, m)
        BY <1>7, <1>13, <3>2, <3>4, SentAppended, SMTT(30)
    <3>6. /\ StreamsTyped(writeStream') /\ writeStream'[c] = Append(between[c], m)
          /\ \A d \in Sockets \ {c} : writeStream'[d] = writeStream[d]
        BY <1>2, <1>9, <3>3, <3>5 DEF StreamsTyped
    <3>7. Own(cached')
        BY <1>12, <2>2, <3>1, <3>2, <3>5, <3>6
    <3>8. Others(cached')
        BY <3>1, <3>2, <3>6
    <3> QED BY <1>2, <1>4, <3>1, <3>2, <3>6, <3>7, <3>8
  <2>3. CASE "state" \in Subscriptions[c] /\ cached = Uncached
    <3>1. PICK v, m, after : v = source /\ m = State(v) /\ after = SendEvent(between, "state", m)
        OBVIOUS
    <3>2. cached' = v /\ m = <<"state", v>> /\ "state" \in Sorts /\ v \in Nat
        BY <1>1, <1>4, <2>3, <3>1 DEF SendInitialisationSuccess, ResolveCached, State, Sorts
    <3>3. writeStream' = [after EXCEPT ![c] = Append(after[c], m)]
        BY <1>11, <2>3, <3>1 DEF InitialiseClient, StreamsResolved
    <3>4. m \in Outbound
        BY <3>2 DEF Outbound
    <3>5. /\ StreamsTyped(after)
          /\ \A d \in Sockets :
                /\ link[d] = "client" /\ "state" \in Subscriptions[d] => after[d] = Append(between[d], m)
                /\ link[d] # "client" \/ "state" \notin Subscriptions[d] => after[d] = between[d]
        BY <1>9, <3>1, <3>4, EventSent
    <3>6. after[c] = Append(between[c], m) /\ between[c] \in Seq(Outbound) /\ after[c] \in Seq(Outbound)
        BY <1>2, <1>9, <2>3, <3>5 DEF StreamsTyped
    <3>7. h \o after[c] = Append(new, m)
        BY <1>7, <1>13, <3>4, <3>6, MessageAppended, SMTT(30)
    <3>8. Append(after[c], m) \in Seq(Outbound) /\ h \o Append(after[c], m) = Append(Append(new, m), m)
      <4>1. PICK w, sent : w = after[c] /\ sent = Append(new, m)
          OBVIOUS
      <4>2. w \in Seq(Outbound) /\ h \o w = sent
          BY <3>6, <3>7, <4>1
      <4>3. Append(w, m) \in Seq(Outbound) /\ h \o Append(w, m) = Append(h \o w, m)
          BY <1>7, <3>4, <4>2, MessageAppended
      <4> QED BY <4>1, <4>2, <4>3
    <3>9. /\ StreamsTyped(writeStream') /\ writeStream'[c] = Append(after[c], m)
          /\ \A d \in Sockets \ {c} : writeStream'[d] = after[d]
        BY <1>2, <3>3, <3>5, <3>8 DEF StreamsTyped
    <3>10. Own(cached')
        BY <1>12, <2>3, <3>1, <3>2, <3>8, <3>9
    <3>11. Others(cached')
      <4> SUFFICES ASSUME NEW d \in Sockets \ {c}, NEW t \in Nat,
                          InTouch(heard[d] \o writeStream[d], kinds[d], t, StageOf(d), request,
                                  Subscriptions[d], joined[d], notices, cached)
                   PROVE  InTouch(heard[d] \o writeStream'[d], kinds[d], t, StageOf(d), request,
                                  Subscriptions[d], joined[d], notices, v)
          BY <3>2
      <4>1. between[d] = writeStream[d] /\ writeStream'[d] = after[d]
          BY <1>9, <3>9
      <4>2. InTouch(heard[d] \o between[d], kinds[d], t, StageOf(d), request,
                    Subscriptions[d], joined[d], notices, cached)
          BY <4>1
      <4>3. InTouch(heard[d] \o after[d], kinds[d], t, StageOf(d), request,
                    Subscriptions[d], joined[d], notices, v)
          BY <1>4, <1>9, <3>1, <3>2, <4>2, StateRight
      <4> QED BY <4>1, <4>3
    <3>12. Silent
        BY <1>2, <1>9, <3>5, <3>9
    <3> QED BY <1>4, <3>1, <3>2, <3>9, <3>10, <3>11, <3>12
  <2> QED BY <2>1, <2>2, <2>3
<1>15. IntegrationsTypeOK'
    BY <1>3, <1>14 DEF IntegrationsIInv, IntegrationsTypeOK, StreamsTyped
<1>16. InitialisingAsClient'
    BY <1>3 DEF InitialisingAsClient
<1>17. ASSUME NEW d \in Sockets PROVE \E t \in Nat : Socket(d, t)'
  <2>1. PICK t \in Nat : Socket(d, t)
      BY DEF IntegrationsIInv
  <2>2. ReadingKept(d)
      BY <1>3 DEF ReadingKept
  <2>3. active[d] => link[d] \in {"waiting", "client"}
      BY <2>1 DEF Socket
  <2>4. Sent(d)' = heard[d] \o writeStream'[d] /\ (heard[d] \o writeStream[d])' = heard[d] \o writeStream'[d]
      BY <1>3 DEF Sent
  <2>5. link[d] = "none" => Sent(d)' = Sent(d)
      BY <1>14, <2>4 DEF Sent
  <2>6. StageOf(d)' = link[d]
      BY <1>3, SocketsAssumption DEF StageOf
  <2>7. ASSUME TouchedUpTo(d, t) PROVE TouchedUpTo(d, t)'
    <3>1. InTouch(heard[d] \o writeStream[d], kinds[d], t, StageOf(d), request,
                  Subscriptions[d], joined[d], notices, cached)
        BY <2>7 DEF TouchedUpTo, Touched, Outcome
    <3>2. InTouch(heard[d] \o writeStream'[d], kinds[d], t, link[d], request,
                  Subscriptions[d], joined[d], notices, cached')
      <4>1. CASE d = c
          BY <1>1, <1>2, <1>6, <1>14, <3>1, <4>1 DEF StageOf
      <4>2. CASE d # c
        <5>1. StageOf(d) = link[d] /\ d \in Sockets \ {c}
            BY <1>1, <4>2 DEF StageOf
        <5> QED BY <1>14, <3>1, <5>1
      <4> QED BY <4>1, <4>2
    <3>3. PICK v : v = cached'
        OBVIOUS
    <3>4. PICK sent : sent = heard[d] \o writeStream'[d]
        OBVIOUS
    <3>5. InTouch(sent, kinds[d], t, link[d], request, Subscriptions[d], joined[d], notices, v)
        BY <3>2, <3>3, <3>4
    <3> QED BY <1>3, <2>4, <2>6, <3>3, <3>4, <3>5 DEF TouchedUpTo, Touched, Outcome
  <2> QED BY <1>3, <2>1, <2>2, <2>3, <2>5, <2>7, SocketKept
<1> QED BY <1>15, <1>16, <1>17 DEF IntegrationsIInv

LEMMA ProcessInboundMessagesKept ==
    ASSUME IntegrationsIInv, NEW c \in Sockets, ProcessInboundMessagesForClient(c) PROVE IntegrationsIInv'
<1>1. UNCHANGED <<link, overdue, active, kinds, begun, heard, initialising, request, joined, source, cached>>
    BY DEF ProcessInboundMessagesForClient, serverVars
<1>2. Receive(c) /\ link[c] = "client" /\ initialising = NoSocket
    BY DEF ProcessInboundMessagesForClient, EuroScopeThreadFree
<1>3. PICK messages : messages = Received(c)
    OBVIOUS
<1>4. PICK t0 \in Nat : Socket(c, t0)
    BY DEF IntegrationsIInv
<1>5. PICK u \in t0..Len(kinds[c]) :
         /\ ReceivedUpTo(c, t0, u, messages) /\ ReadUpTo(c, u)' /\ u <= MaxMessages
         /\ readStream' \in [Sockets -> Seq(Pieces)] /\ incomingData' \in [Sockets -> Seq(Pieces)]
         /\ \A d \in Sockets \ {c} : ReadingKept(d)
    BY <1>1, <1>2, <1>3, <1>4, ReceivingRight
<1>6. /\ u \in Nat /\ t0 <= u /\ messages \in Seq(Nat) /\ Rising(messages)
      /\ ToSet(messages) = {i \in (t0 + 1)..u : kinds[c][i] # "garbage"}
      /\ ToSet(messages) \subseteq (t0 + 1)..u
    BY <1>5 DEF ReceivedUpTo
<1>7. StagesTyped /\ StreamsTyped(writeStream) /\ request \in Nat /\ notices \in Nat
    BY TypedStages DEF IntegrationsIInv
<1>8. PICK so : /\ Proceeding(so, c, messages, Len(messages), t0, u)
                /\ writeStream' = so.streams /\ notices' = so.notices
    BY <1>3, <1>6, <1>7, ProcessingRight
<1>9. /\ so \in Outcomes
      /\ \A d \in Sockets \ {c}, td \in Nat : Touched(Outcome, d, td) => Touched(so, d, td)
      /\ \A d \in Sockets : link[d] # "client" => heard[d] \o so.streams[d] = Sent(d)
      /\ Told(Outcome, c) => Told(so, c)
      /\ AnswersUpTo(Sent(c), t0) =>
            Processing(heard[c] \o so.streams[c], kinds[c], messages, Len(messages), t0, u,
                       Numbers(Sent(c), "initialisation_success"), Numbers(Sent(c), "answer"))
    BY <1>8 DEF Proceeding
<1>10. IntegrationsTypeOK'
    BY <1>1, <1>5, <1>8, <1>9 DEF IntegrationsIInv, IntegrationsTypeOK, Outcomes
<1>11. InitialisingAsClient'
    BY <1>1 DEF IntegrationsIInv, InitialisingAsClient
<1>12. ASSUME NEW d \in Sockets \ {c} PROVE \E t \in Nat : Socket(d, t)'
  <2>1. PICK t \in Nat : Socket(d, t)
      BY DEF IntegrationsIInv
  <2>2. ReadingKept(d)
      BY <1>5
  <2>3. ASSUME TouchedUpTo(d, t) PROVE TouchedUpTo(d, t)'
    <3>1. Touched(so, d, t)
        BY <1>9, <2>3 DEF TouchedUpTo
    <3> QED BY <1>1, <1>8, <3>1, TouchedThen
  <2>4. active[d] => link[d] \in {"waiting", "client"}
      BY <2>1 DEF Socket
  <2>5. link[d] = "none" => Sent(d)' = Sent(d)
    <3>1. Sent(d)' = heard[d] \o so.streams[d]
        BY <1>1, <1>8 DEF Sent
    <3> QED BY <1>9, <3>1
  <2> QED BY <1>1, <2>1, <2>2, <2>3, <2>4, <2>5, SocketKept
<1>13. Socket(c, u)'
  <2>1. ASSUME active[c] PROVE TouchedUpTo(c, u)'
    <3>1. PICK before, after, K : before = Sent(c) /\ after = heard[c] \o so.streams[c] /\ K = kinds[c]
        OBVIOUS
    <3>2. StageOf(c) = "client" /\ StageOf(c)' = "client"
        BY <1>1, <1>2, SocketsAssumption DEF StageOf
    <3>3. /\ Conversing(before, K, t0, "client", request)
          /\ Informed(heard[c] \o Outcome.streams[c], Subscriptions[c], "client", joined[c], Outcome.notices, cached)
        BY <1>4, <2>1, <3>1, <3>2 DEF Socket, TouchedUpTo, Touched, Outcome, InTouch, Sent
    <3>4. AnswersUpTo(before, t0)
        BY <3>3 DEF Conversing
    <3>5. Processing(after, K, messages, Len(messages), t0, u,
                     Numbers(before, "initialisation_success"), Numbers(before, "answer"))
        BY <1>9, <3>1, <3>4
    <3>6. after \in Seq(Outbound)
      <4>1. heard[c] \in Seq(Outbound) /\ so.streams[c] \in Seq(Outbound)
          BY <1>7, <1>9 DEF StagesTyped, Outcomes
      <4> QED BY <3>1, <4>1
    <3>7. Conversing(after, K, u, "client", request)
        BY <1>6, <3>1, <3>3, <3>5, <3>6, ProcessingEnds
    <3>8. Informed(after, Subscriptions[c], "client", joined[c], so.notices, cached)
        BY <1>9, <3>1, <3>3 DEF Told
    <3>9. (heard[c] \o writeStream[c])' = after
        BY <1>1, <1>8, <3>1
    <3> QED BY <1>1, <1>8, <3>1, <3>2, <3>7, <3>8, <3>9 DEF TouchedUpTo, Touched, Outcome, InTouch
  <2> QED BY <1>1, <1>2, <1>4, <1>5, <2>1 DEF Socket
<1> QED BY <1>6, <1>10, <1>11, <1>12, <1>13 DEF IntegrationsIInv

-------------------------------------------------------------------------------
(* Every reachable state is right, and what follows                        *)

LEMMA IntegrationsInitRight == IntegrationsInit => IntegrationsIInv
<1> SUFFICES ASSUME IntegrationsInit PROVE IntegrationsIInv
    OBVIOUS
<1>1. IntegrationsTypeOK
    BY SocketsAssumption DEF IntegrationsInit, IntegrationsTypeOK, Uncached
<1>2. InitialisingAsClient
    BY DEF IntegrationsInit, InitialisingAsClient
<1>3. ASSUME NEW c \in Sockets PROVE Socket(c, 0)
  <2>1. kinds[c] = <<>> /\ readStream[c] = <<>> /\ incomingData[c] = <<>> /\ heard[c] = <<>>
        /\ writeStream[c] = <<>> /\ ~begun[c] /\ ~active[c] /\ begun[c] = FALSE
      BY DEF IntegrationsInit
  <2>2. <<>> \o <<>> = <<>> /\ Len(<<>>) = 0 /\ DOMAIN <<>> = {}
      OBVIOUS
  <2>3. Unread(c) = <<>> /\ Sent(c) = <<>>
      BY <2>1, <2>2 DEF Unread, Sent
  <2>4. Behind(<<>>, 0, FALSE, 0)
      BY <2>2 DEF Behind
  <2>5. ReadUpTo(c, 0)
      BY <2>1, <2>2, <2>3, <2>4 DEF ReadUpTo
  <2> QED BY <2>1, <2>2, <2>3, <2>5, SocketsAssumption DEF Socket
<1> QED BY <1>1, <1>2, <1>3 DEF IntegrationsIInv

LEMMA IntegrationsStepRight ==
    IntegrationsIInv /\ [IntegrationsNext]_integrationVars => IntegrationsIInv'
<1> SUFFICES ASSUME IntegrationsIInv, [IntegrationsNext]_integrationVars PROVE IntegrationsIInv'
    OBVIOUS
<1>1. ASSUME NEW c \in Sockets, AddConnection(c) PROVE IntegrationsIInv'
    BY <1>1, AddConnectionKept
<1>2. ASSUME NEW c \in Sockets, NEW kind \in MessageKinds, ReadBeginning(c, kind) PROVE IntegrationsIInv'
    BY <1>2, ReadBeginningKept
<1>3. ASSUME NEW c \in Sockets, ReadEnd(c) PROVE IntegrationsIInv'
    BY <1>3, ReadEndKept
<1>4. ASSUME NEW c \in Sockets, ReadEnds(c) PROVE IntegrationsIInv'
    BY <1>4, ReadEndsKept
<1>5. ASSUME NEW c \in Sockets, WriteLoop(c) PROVE IntegrationsIInv'
    BY <1>5, WriteLoopKept
<1>6. ASSUME NEW c \in Sockets, InitialisationTimeout(c) PROVE IntegrationsIInv'
    BY <1>6, InitialisationTimeoutKept
<1>7. ASSUME NEW c \in Sockets, DropConnection(c) PROVE IntegrationsIInv'
    BY <1>7, DropConnectionKept
<1>8. ASSUME NEW c \in Sockets, RefuseInitialisation(c) PROVE IntegrationsIInv'
    BY <1>8, RefuseInitialisationKept
<1>9. ASSUME NEW c \in Sockets, UpgradeToClient(c) PROVE IntegrationsIInv'
    BY <1>9, UpgradeToClientKept
<1>10. ASSUME NEW c \in Sockets, ProcessInboundMessagesForClient(c) PROVE IntegrationsIInv'
    BY <1>10, ProcessInboundMessagesKept
<1>11. ASSUME NEW c \in Sockets, RemoveInactiveClient(c) PROVE IntegrationsIInv'
    BY <1>11, RemoveInactiveClientKept
<1>12. CASE ResolutionChanges
    BY <1>12, ResolutionChangesKept
<1>13. CASE TagItemShown
    BY <1>13, TagItemShownKept
<1>14. CASE WorkerSendsEvent
    BY <1>14, WorkerSendsEventKept
<1>15. CASE SendInitialisationSuccess
    BY <1>15, SendInitialisationSuccessKept
<1>16. CASE UNCHANGED integrationVars
  <2>1. UNCHANGED <<link, overdue, active, kinds, begun, readStream, incomingData, heard, writeStream,
                    initialising, request, joined, source, notices, cached>>
      BY <1>16 DEF integrationVars, serverVars, socketVars, eventVars
  <2>2. IntegrationsTypeOK' /\ InitialisingAsClient' /\ active \in [Sockets -> BOOLEAN]
      BY <2>1 DEF IntegrationsIInv, IntegrationsTypeOK, InitialisingAsClient
  <2>3. \A d \in Sockets : Sent(d)' = Sent(d)
      BY <2>1 DEF Sent
  <2> QED BY <2>1, <2>2, <2>3, NothingSentKept
<1> QED BY <1>1, <1>2, <1>3, <1>4, <1>5, <1>6, <1>7, <1>8, <1>9, <1>10, <1>11, <1>12, <1>13, <1>14,
           <1>15, <1>16 DEF IntegrationsNext

LEMMA IntegrationsAlwaysRight == IntegrationsSpec => []IntegrationsIInv
BY IntegrationsInitRight, IntegrationsStepRight, PTL DEF IntegrationsSpec

\* Of the messages of c those up to the t-th have been consumed.
LEMMA ConsumedRight ==
    ASSUME IntegrationsTypeOK, NEW c \in Sockets, NEW t \in Nat, ReadUpTo(c, t)
    PROVE  Consumed(c) = {i \in 1..t : kinds[c][i] # "garbage"}
<1>1. PICK m, b, in, read, data :
         /\ m = Len(kinds[c]) /\ b = begun[c] /\ in = incomingData[c] /\ read = readStream[c]
         /\ data = in \o read
    OBVIOUS
<1>2. /\ m \in Nat /\ b \in BOOLEAN /\ in \in Seq(Pieces) /\ read \in Seq(Pieces)
      /\ data \in Seq(Pieces) /\ Len(data) = Len(in) + Len(read)
      /\ \A k \in 1..Len(in) : data[k] = in[k]
      /\ \A k \in 1..Len(read) : data[Len(in) + k] = read[k]
  <2>1. m \in Nat /\ b \in BOOLEAN /\ in \in Seq(Pieces) /\ read \in Seq(Pieces)
      BY <1>1, TypedSocket
  <2>2. \A x, y \in Seq(Pieces) : /\ x \o y \in Seq(Pieces) /\ Len(x \o y) = Len(x) + Len(y)
                                  /\ \A k \in 1..Len(x) : (x \o y)[k] = x[k]
                                  /\ \A k \in 1..Len(y) : (x \o y)[Len(x) + k] = y[k]
      OBVIOUS
  <2> QED BY <1>1, <2>1, <2>2, ZenonT(40)
<1>3. Behind(data, m, b, t) /\ \A k \in 1..Len(in) : ~in[k].ends
    BY <1>1, <1>2 DEF ReadUpTo, Unread
<1>4. PICK u : u = EndedOf(m, b)
    OBVIOUS
<1>5. u \in t..m /\ u \in Nat /\ 2 * t + Len(data) >= 2 * u
  <2>1. u \in t..m
      BY <1>2, <1>3, <1>4, RemainderRight
  <2>2. u = IF b THEN m - 1 ELSE m
      BY <1>4 DEF EndedOf
  <2>3. 2 * t + Len(data) = 2 * m - (IF b THEN 1 ELSE 0)
      BY <1>3 DEF Behind
  <2> QED BY <1>2, <2>1, <2>2, <2>3
<1>6. ASSUME NEW i \in (t + 1)..u PROVE [of |-> i, ends |-> TRUE] \in ToSet(read)
  <2>1. PICK k : k = 2 * (i - t)
      OBVIOUS
  <2>2. k \in 1..Len(data)
      BY <1>2, <1>5, <2>1
  <2>3. 2 * (data[k].of - t) = k + (IF data[k].ends THEN 0 ELSE 1)
      BY <1>3, <2>2 DEF Behind
  <2>4. data[k] \in Pieces
      BY <1>2, <2>2
  <2>5. data[k].of \in Int /\ data[k].ends \in BOOLEAN
      BY <2>4, SocketsAssumption DEF Pieces
  <2>6. data[k].ends = TRUE /\ data[k].of = i
      BY <2>1, <2>3, <2>5
  <2>7. data[k] = [of |-> i, ends |-> TRUE]
      BY <2>4, <2>6 DEF Pieces
  <2>8. k \notin 1..Len(in)
      BY <1>2, <1>3, <2>6
  <2>9. PICK j : j = k - Len(in)
      OBVIOUS
  <2>10. j \in 1..Len(read) /\ k = Len(in) + j
      BY <1>2, <2>2, <2>8, <2>9
  <2>11. read[j] = data[k]
      BY <1>2, <2>10
  <2> QED BY <2>7, <2>10, <2>11 DEF ToSet
<1>7. ASSUME NEW i \in Nat, [of |-> i, ends |-> TRUE] \in ToSet(read) PROVE i > t
  <2>0. DOMAIN read = 1..Len(read)
      BY <1>2
  <2>1. PICK j \in 1..Len(read) : read[j] = [of |-> i, ends |-> TRUE]
      BY <1>7, <2>0 DEF ToSet
  <2>2. PICK k : k = Len(in) + j
      OBVIOUS
  <2>3. k \in 1..Len(data) /\ data[k] = [of |-> i, ends |-> TRUE]
      BY <1>2, <2>1, <2>2
  <2>4. 2 * (i - t) = k
      BY <1>3, <2>3 DEF Behind
  <2> QED BY <2>3, <2>4
<1>8. ASSUME NEW i \in 1..m
      PROVE  ((i = m => ~b) /\ [of |-> i, ends |-> TRUE] \notin ToSet(read)) <=> i \in 1..t
  <2>1. (i = m => ~b) <=> i <= u
      BY <1>2, <1>4, <1>5 DEF EndedOf
  <2>2. i \in (t + 1)..u => [of |-> i, ends |-> TRUE] \in ToSet(read)
      BY <1>6
  <2>3. [of |-> i, ends |-> TRUE] \in ToSet(read) => i > t
      BY <1>7
  <2> QED BY <1>5, <2>1, <2>2, <2>3
<1>9. \A i \in 1..t : i \in 1..m
    BY <1>2, <1>5
<1>10. DOMAIN kinds[c] = 1..m
  <2>1. kinds[c] \in Seq(MessageKinds)
      BY TypedSocket
  <2> QED BY <1>1, <2>1
<1>11. Consumed(c) = {i \in 1..m : /\ kinds[c][i] # "garbage"
                                   /\ (i = m => ~b) /\ [of |-> i, ends |-> TRUE] \notin ToSet(read)}
    BY <1>1, <1>10 DEF Consumed
<1> QED BY <1>8, <1>9, <1>11

LEMMA OrderedAnswers == IntegrationsIInv => AnswersInOrder
<1> SUFFICES ASSUME IntegrationsIInv, NEW c \in Sockets, active[c], c # initialising
             PROVE  LET For(sort) == Numbers(Sent(c), sort)
                    IN /\ Increasing(Sent(c), Answers)
                       /\ \A i \in For("initialisation_success") : kinds[c][i] = "initialise"
                       /\ link[c] = "waiting" => For("initialisation_failure") = Consumed(c)
                       /\ link[c] = "client" =>
                             /\ \E i \in DOMAIN kinds[c] : For("initialisation_success") = {i}
                             /\ \A i \in For("answer"), j \in Consumed(c) :
                                   i < j /\ kinds[c][j] \in {"action", "assignment"} => j \in For("answer")
    BY DEF AnswersInOrder
<1>1. PICK t \in Nat : Socket(c, t)
    BY DEF IntegrationsIInv
<1>2. PICK s, K : s = Sent(c) /\ K = kinds[c]
    OBVIOUS
<1>3. ReadUpTo(c, t) /\ link[c] \in {"waiting", "client"} /\ IntegrationsTypeOK
    BY <1>1 DEF Socket, IntegrationsIInv
<1>4. Conversing(s, K, t, link[c], request)
    BY <1>1, <1>2 DEF Socket, TouchedUpTo, Touched, Outcome, InTouch, Sent, StageOf
<1>5. Consumed(c) = {i \in 1..t : K[i] # "garbage"}
    BY <1>2, <1>3, ConsumedRight
<1>6. Increasing(s, Answers)
    BY <1>4 DEF Conversing, AnswersUpTo
<1>7. \A i \in 1..t : i \in DOMAIN K
  <2>1. t <= Len(K) /\ DOMAIN K = 1..Len(K) /\ Len(K) \in Nat
      BY <1>2, <1>3, ReadBounds, TypedSocket
  <2> QED BY <2>1
<1>8. CASE link[c] = "waiting"
  <2>1. Waiting(s, K, t)
      BY <1>4, <1>8 DEF Conversing
  <2>2. Numbers(s, "initialisation_failure") = Consumed(c) /\ Numbers(s, "initialisation_success") = {}
      BY <1>5, <2>1 DEF Waiting
  <2> QED BY <1>2, <1>6, <1>8, <2>2
<1>9. CASE link[c] = "client"
  <2>1. Served(s, K, t)
      BY <1>4, <1>9 DEF Conversing
  <2>2. PICK i \in 1..t : K[i] = "initialise" /\ Numbers(s, "initialisation_success") = {i}
      BY <2>1 DEF Served
  <2>3. PICK u \in 0..t : Numbers(s, "answer") = {j \in (u + 1)..t : K[j] \in Answered}
      BY <2>1 DEF Served
  <2>4. ASSUME NEW a \in Numbers(s, "answer"), NEW j \in Consumed(c), a < j, K[j] \in Answered
        PROVE  j \in Numbers(s, "answer")
    <3>1. a \in (u + 1)..t
        BY <2>3
    <3>2. j \in 1..t
        BY <1>5
    <3>3. j \in (u + 1)..t
        BY <2>4, <3>1, <3>2
    <3> QED BY <2>3, <2>4, <3>3
  <2>5. \E n \in DOMAIN K : Numbers(s, "initialisation_success") = {n}
      BY <1>7, <2>2
  <2>6. \A n \in Numbers(s, "initialisation_success") : K[n] = "initialise"
      BY <2>2
  <2> QED BY <1>2, <1>6, <1>9, <2>4, <2>5, <2>6 DEF Answered
<1> QED BY <1>3, <1>8, <1>9

LEMMA InformedClients == IntegrationsIInv => ClientsUpToDate
<1> SUFFICES ASSUME IntegrationsIInv, NEW c \in clients, active[c], c # initialising
             PROVE  /\ "state" \in Subscriptions[c] /\ cached # Uncached => LatestState(Sent(c), cached)
                    /\ "notice" \in Subscriptions[c] => NoticesFrom(Sent(c), joined[c], notices)
    BY DEF ClientsUpToDate, LatestState, NoticesFrom
<1>1. c \in Sockets /\ link[c] = "client"
    BY DEF clients
<1>2. PICK t \in Nat : Socket(c, t)
    BY <1>1 DEF IntegrationsIInv
<1>3. StageOf(c) = "client" /\ TouchedUpTo(c, t)
    BY <1>1, <1>2 DEF StageOf, Socket
<1>4. Informed(Sent(c), Subscriptions[c], "client", joined[c], notices, cached)
    BY <1>3 DEF TouchedUpTo, Touched, Outcome, InTouch, Sent
<1> QED BY <1>4 DEF Informed

-------------------------------------------------------------------------------
(* The theorems                                                            *)

\* The state of the integration server keeps its types; a piece a socket has
\* read belongs to one of the MaxMessages messages (IntegrationConnection,
\* SocketWrapper, IntegrationServer).
THEOREM IntegrationsTyped == IntegrationsSpec => []IntegrationsTypeOK
<1>1. IntegrationsIInv => IntegrationsTypeOK
    BY DEF IntegrationsIInv
<1> QED BY <1>1, IntegrationsAlwaysRight, PTL

\* However the messages of programs are cut into pieces, read and put back,
\* each is answered at most once and in order; before the initialisation each
\* fails, and one that asks for it succeeds (IntegrationConnection::Receive,
\* ClientInitialisationManager, InboundIntegrationMessageHandler).
THEOREM AnswersOrdered == IntegrationsSpec => []AnswersInOrder
BY IntegrationsAlwaysRight, OrderedAnswers, PTL

\* A client that has been initialised has been sent the cached resolution as
\* it is, and every notice since it was upgraded once and in order, though
\* workers send notices also while it is being initialised
\* (IntegrationClientManager, IntegrationDataInitialisers, OutboundIntegrationEventHandler).
THEOREM ClientsInformed == IntegrationsSpec => []ClientsUpToDate
BY IntegrationsAlwaysRight, InformedClients, PTL
=================================================================================
