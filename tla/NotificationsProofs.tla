------------------------ MODULE NotificationsProofs -------------------------
(***************************************************************************)
(* The fan-out, for any number of users, handlers and tabs, however they  *)
(* overlap and wherever they fail.                                         *)
(***************************************************************************)
EXTENDS NotificationsInv, SequenceTheorems, SumTheorems

(***************************************************************************)
(* Plans.                                                                  *)
(***************************************************************************)

\* The plan of each kind of handler.
LEMMA PlanOf ==
  ASSUME NEW i
  PROVE  /\ i.kind = "matching"  => Plan(i) = MatchingPlan(Stakeholders(i))
         /\ i.kind = "unmatched" => Plan(i) = UnmatchedPlan(Stakeholders(i))
         /\ i.kind = "unfunded"  => Plan(i) = UnfundedPlan
         /\ i.kind = "assigned"  => Plan(i) = AssignedPlan
         /\ i.kind = "advance"   => Plan(i) = AdvancePlan(i.actor)
         /\ i.kind = "photo"     => Plan(i) = PhotoPlan(i.actor)
BY DEF Plan

\* The users of each group.
LEMMA UsersOfGroup ==
  /\ UsersOf("driver") = DriverUsers
  /\ UsersOf("merchant") = MerchantUsers
  /\ UsersOf("ops") = OpsUsers
BY DEF UsersOf

\* Short tuples, joined.
LEMMA JoinedTuples ==
  ASSUME NEW a, NEW b, NEW c
  PROVE  <<a>> \o <<b>> = <<a, b>> /\ <<a, b>> \o <<c>> = <<a, b, c>>
<1> DEFINE S == {a, b, c}
<1>1. <<a>> \in Seq(S) /\ <<b>> \in Seq(S) /\ <<a, b>> \in Seq(S) /\ <<c>> \in Seq(S)
      /\ <<a, b, c>> \in Seq(S)
  OBVIOUS
<1>2. <<a>> \o <<b>> = <<a, b>>
  <2>1. <<a>> \o <<b>> \in Seq(S) /\ Len(<<a>> \o <<b>>) = 2
        /\ (<<a>> \o <<b>>)[1] = a /\ (<<a>> \o <<b>>)[2] = b
    BY <1>1, ConcatProperties
  <2> DEFINE s == <<a>> \o <<b>>  t == <<a, b>>
  <2>2. s \in Seq(S) /\ t \in Seq(S) /\ Len(s) = Len(t) /\ \A n \in 1..Len(s) : s[n] = t[n]
    BY <1>1, <2>1
  <2> HIDE DEF s, t, S
  <2>3. s = t
    BY <2>2, SeqEqual
  <2> QED
    BY <2>3 DEF s, t
<1>3. <<a, b>> \o <<c>> = <<a, b, c>>
  <2>1. <<a, b>> \o <<c>> \in Seq(S) /\ Len(<<a, b>> \o <<c>>) = 3
        /\ (<<a, b>> \o <<c>>)[1] = a /\ (<<a, b>> \o <<c>>)[2] = b /\ (<<a, b>> \o <<c>>)[3] = c
    BY <1>1, ConcatProperties
  <2> DEFINE s == <<a, b>> \o <<c>>  t == <<a, b, c>>
  <2>2. s \in Seq(S) /\ t \in Seq(S) /\ Len(s) = Len(t) /\ \A n \in 1..Len(s) : s[n] = t[n]
    BY <1>1, <2>1
  <2> HIDE DEF s, t, S
  <2>3. s = t
    BY <2>2, SeqEqual
  <2> QED
    BY <2>3 DEF s, t
<1> QED
  BY <1>2, <1>3

\* The plans, step by step.
LEMMA PlansAsTuples ==
  ASSUME NEW actor, NEW groups
  PROVE  /\ MatchingPlan(groups) = <<Broadcast(groups)>>
         /\ UnmatchedPlan(groups) = <<Notify(Office, NoUser), Broadcast(groups)>>
         /\ UnfundedPlan = <<Notify(Office, NoUser)>>
         /\ AssignedPlan = <<Notify({"driver"}, NoUser), Notify(Office, NoUser), Broadcast(Group)>>
         /\ AdvancePlan(actor) = <<Notify(Group, actor), Broadcast(Group)>>
         /\ PhotoPlan(actor) =
              <<Broadcast(Group), Notify(IF actor \in DriverUsers THEN Office ELSE Group, actor)>>
<1>1. MatchingPlan(groups) = <<Broadcast(groups)>> /\ UnfundedPlan = <<Notify(Office, NoUser)>>
  BY DEF MatchingPlan, UnfundedPlan
<1>2. UnmatchedPlan(groups) = <<Notify(Office, NoUser), Broadcast(groups)>>
  BY DEF UnmatchedPlan
<1>3. AssignedPlan = <<Notify({"driver"}, NoUser), Notify(Office, NoUser), Broadcast(Group)>>
  BY JoinedTuples, Zenon DEF AssignedPlan, NotifyOrderAssigned
<1>4. AdvancePlan(actor) = <<Notify(Group, actor), Broadcast(Group)>>
  BY JoinedTuples, Zenon DEF AdvancePlan, NotifyTripAdvance
<1>5. PhotoPlan(actor) =
        <<Broadcast(Group), Notify(IF actor \in DriverUsers THEN Office ELSE Group, actor)>>
  BY JoinedTuples, Zenon DEF PhotoPlan, NotifyProofPhotoUploaded
<1> QED
  BY <1>1, <1>2, <1>3, <1>4, <1>5

\* A plan has steps, and its fan-outs leave out the user who made the change.
LEMMA PlanFacts ==
  ASSUME NEW i \in Input
  PROVE  /\ Len(Plan(i)) \in Nat \ {0}
         /\ \A n \in 1..Len(Plan(i)) : Notifies(Plan(i)[n]) => Plan(i)[n].except = i.actor
<1>1. ASSUME NEW groups, NEW except PROVE Notify(groups, except).except = except
  BY DEF Notify
<1>2. ASSUME NEW groups PROVE ~Notifies(Broadcast(groups))
  BY DEF Broadcast, Notifies
<1>3. CASE i.kind \in {"matching", "unmatched", "unfunded", "assigned"}
  <2>1. i.actor = NoUser
    BY <1>3 DEF Input
  <2>2. \/ Plan(i) = <<Broadcast(Stakeholders(i))>>
        \/ Plan(i) = <<Notify(Office, NoUser), Broadcast(Stakeholders(i))>>
        \/ Plan(i) = <<Notify(Office, NoUser)>>
        \/ Plan(i) = <<Notify({"driver"}, NoUser), Notify(Office, NoUser), Broadcast(Group)>>
    BY <1>3, PlanOf, PlansAsTuples
  <2> QED
    BY <1>1, <1>2, <2>1, <2>2
<1>4. CASE i.kind \in {"advance", "photo"}
  <2>1. \/ Plan(i) = <<Notify(Group, i.actor), Broadcast(Group)>>
        \/ Plan(i) = <<Broadcast(Group),
                       Notify(IF i.actor \in DriverUsers THEN Office ELSE Group, i.actor)>>
    BY <1>4, PlanOf, PlansAsTuples
  <2> QED
    BY <1>1, <1>2, <2>1
<1> QED
  BY <1>3, <1>4 DEF Input

\* Somebody is told by the plan of a change.
IsTold(i, u) == \E n \in 1..Len(Plan(i)) : Notifies(Plan(i)[n]) /\ u \in Recipients(Plan(i)[n])

\* The plan of a change tells the users whom it concerns, and no others.
LEMMA PlanCovers ==
  ASSUME NEW i \in Input, i.kind # "matching", NEW u
  PROVE  u \in ConcernedBy(i) <=> IsTold(i, u)
<1> DEFINE told(groups, except) == (ActiveUsers \cap UNION {UsersOf(g) : g \in groups}) \ {except}
<1>1. ASSUME NEW groups, NEW except
      PROVE  Notifies(Notify(groups, except)) /\ Recipients(Notify(groups, except)) = told(groups, except)
  BY DEF Notify, Notifies, Recipients
<1>2. ASSUME NEW groups PROVE ~Notifies(Broadcast(groups))
  BY DEF Broadcast, Notifies
<1>3. ASSUME NEW except
      PROVE  /\ told({"driver"}, except) = (ActiveUsers \cap DriverUsers) \ {except}
             /\ told(Office, except) = (ActiveUsers \cap (MerchantUsers \cup OpsUsers)) \ {except}
             /\ told(Group, except)
                  = (ActiveUsers \cap (MerchantUsers \cup OpsUsers \cup DriverUsers)) \ {except}
  BY UsersOfGroup DEF Office, Group
<1> HIDE DEF told
<1>4. CASE i.kind \in {"unmatched", "unfunded"}
  <2>1. i.actor = NoUser /\ ConcernedBy(i) = told(Office, NoUser)
    BY <1>3, <1>4 DEF Input, ConcernedBy
  <2>2. IsTold(i, u) <=> u \in told(Office, NoUser)
    BY <1>1, <1>2, <1>4, PlanOf, PlansAsTuples DEF IsTold
  <2> QED
    BY <2>1, <2>2
<1>5. CASE i.kind = "assigned"
  <2>1. i.actor = NoUser /\ ConcernedBy(i) = told({"driver"}, NoUser) \cup told(Office, NoUser)
    BY <1>3, <1>5 DEF Input, ConcernedBy
  <2>2. IsTold(i, u) <=> u \in told({"driver"}, NoUser) \cup told(Office, NoUser)
    <3>1. Plan(i) = <<Notify({"driver"}, NoUser), Notify(Office, NoUser), Broadcast(Group)>>
      BY <1>5, PlanOf, PlansAsTuples
    <3>2. IsTold(i, u) <=> \/ Notifies(Plan(i)[1]) /\ u \in Recipients(Plan(i)[1])
                           \/ Notifies(Plan(i)[2]) /\ u \in Recipients(Plan(i)[2])
                           \/ Notifies(Plan(i)[3]) /\ u \in Recipients(Plan(i)[3])
      BY <3>1 DEF IsTold
    <3> QED
      BY <1>1, <1>2, <3>1, <3>2
  <2> QED
    BY <2>1, <2>2
<1>6. CASE i.kind = "advance"
  <2>1. ConcernedBy(i) = told(Group, i.actor)
    BY <1>3, <1>6 DEF ConcernedBy
  <2>2. IsTold(i, u) <=> u \in told(Group, i.actor)
    <3>1. Plan(i) = <<Notify(Group, i.actor), Broadcast(Group)>>
      BY <1>6, PlanOf, PlansAsTuples
    <3> QED
      BY <1>1, <1>2, <3>1 DEF IsTold
  <2> QED
    BY <2>1, <2>2
<1>7. CASE i.kind = "photo"
  <2> DEFINE groups == IF i.actor \in DriverUsers THEN Office ELSE Group
  <2>1. ConcernedBy(i) = told(groups, i.actor)
    BY <1>3, <1>7 DEF ConcernedBy
  <2>2. IsTold(i, u) <=> u \in told(groups, i.actor)
    <3>1. Plan(i) = <<Broadcast(Group), Notify(groups, i.actor)>>
      BY <1>7, PlanOf, PlansAsTuples
    <3> HIDE DEF groups
    <3> QED
      BY <1>1, <1>2, <3>1 DEF IsTold
  <2> QED
    BY <2>1, <2>2
<1> QED
  BY <1>4, <1>5, <1>6, <1>7 DEF Input

-----------------------------------------------------------------------------
(***************************************************************************)
(* What a step does to a call, to the rows and to their jobs.              *)
(***************************************************************************)

\* A call in state q goes on to the next step of its plan, or returns, as r.
GoesOn(q, r) ==
  /\ r.input = q.input
  /\ \/ q.at = Len(Plan(q.input)) /\ r.state = "done" /\ r.at = q.at
     \/ q.at # Len(Plan(q.input)) /\ r.state = "resolve" /\ r.at = q.at + 1

Starts(q, r) ==
  q.state = "idle" /\ r.state = "resolve" /\ r.at = 1 /\ r.input \in Input

Looks(q, r) ==
  LET us == Recipients(StepOf(q, q.at))
  IN /\ q.state = "resolve"
     /\ \/ GoesOn(q, r)
        \/ /\ r.input = q.input /\ r.at = q.at /\ r.todo = us
           /\ r.state = IF Notifies(StepOf(q, q.at)) THEN "create" ELSE "publish"
     /\ us # {} => r.at = q.at /\ r.state # "done"

Creates(q, r, row) ==
  /\ q.state = "create" /\ r.state = "enqueue"
  /\ r.input = q.input /\ r.at = q.at /\ r.todo = q.todo /\ r.row = row

Enqueues(q, r, u) ==
  /\ q.state = "enqueue"
  /\ \/ q.todo \subseteq {u} /\ GoesOn(q, r)
     \/ r.input = q.input /\ r.at = q.at /\ r.todo = q.todo \ {u} /\ r.state = "create"

Broadcasts(q, r) ==
  /\ q.state = "publish"
  /\ GoesOn(q, r) \/ (r.input = q.input /\ r.at = q.at /\ r.state = "publish")

Throws(q, r) ==
  q.state # "idle" /\ r.state = "failed" /\ r.input = q.input /\ r.at = q.at

\* No row comes or changes hands.
RowsKept ==
  /\ inbox' \in Seq(Row) /\ Len(inbox') = Len(inbox)
  /\ \A i \in DOMAIN inbox :
       /\ inbox'[i].user = inbox[i].user
       /\ inbox'[i].call = inbox[i].call
       /\ inbox'[i].step = inbox[i].step

\* A job that has been queued stays known.
JobsKept ==
  /\ delivery' \in Seq(Delivery) /\ Len(delivery') = Len(delivery)
  /\ \A i \in DOMAIN delivery : delivery[i].state # "none" => delivery'[i].state # "none"

\* Call c is given a row for user u.
RowAdded(c, u) ==
  /\ inbox' \in Seq(Row) /\ Len(inbox') = Len(inbox) + 1
  /\ \A i \in DOMAIN inbox : inbox'[i] = inbox[i]
  /\ inbox'[Len(inbox) + 1] = [user |-> u, call |-> c, step |-> call[c].at, read |-> FALSE]
  /\ delivery' \in Seq(Delivery) /\ Len(delivery') = Len(delivery) + 1
  /\ \A i \in DOMAIN delivery : delivery'[i] = delivery[i]

\* The job of row i is queued.
JobQueued(i) ==
  /\ delivery' \in Seq(Delivery) /\ Len(delivery') = Len(delivery)
  /\ \A j \in DOMAIN delivery :
       delivery'[j].state # "none" <=> (delivery[j].state # "none" \/ j = i)

\* What a step of call c does.
CallStep(c) ==
  /\ call' \in [Calls -> Call]
  /\ \A d \in Calls \ {c} : call'[d] = call[d]
  /\ \/ /\ RowsKept /\ JobsKept
        /\ \/ Starts(call[c], call'[c])
           \/ Looks(call[c], call'[c])
           \/ Broadcasts(call[c], call'[c])
           \/ Throws(call[c], call'[c])
     \/ \E u \in call[c].todo : RowAdded(c, u) /\ Creates(call[c], call'[c], Len(inbox) + 1)
     \/ /\ RowsKept /\ JobQueued(call[c].row)
        /\ Enqueues(call[c], call'[c], inbox[call[c].row].user)

\* What any step does: it belongs to one call, or to none.
AnyStep ==
  \/ \E c \in Calls : CallStep(c)
  \/ call' = call /\ RowsKept /\ JobsKept

\* Whoever is told is a user.
LEMMA RecipientsAreUsers ==
  ASSUME NEW s
  PROVE  Recipients(s) \subseteq Users
BY RealtimeAssumption DEF Recipients

\* The next step of a call is a state of a call.
LEMMA NextStepGoesOn ==
  ASSUME NEW q \in Call
  PROVE  NextStep(q) \in Call /\ GoesOn(q, NextStep(q))
<1>1. CASE q.at = Len(Plan(q.input))
  <2> DEFINE r == [q EXCEPT !.state = "done"]
  <2>1. r \in Call /\ r.input = q.input /\ r.at = q.at /\ r.state = "done"
    BY DEF Call, CallState
  <2>2. NextStep(q) = r
    BY <1>1 DEF NextStep
  <2> HIDE DEF r
  <2> QED
    BY <1>1, <2>1, <2>2 DEF GoesOn
<1>2. CASE q.at # Len(Plan(q.input))
  <2> DEFINE n == q.at + 1
             r == [q EXCEPT !.at = n, !.state = "resolve"]
  <2>1. n \in Nat
    BY DEF Call
  <2>2. NextStep(q) = r
    BY <1>2 DEF NextStep
  <2> HIDE DEF n
  <2>3. r \in Call /\ r.input = q.input /\ r.at = n /\ r.state = "resolve"
    BY <2>1 DEF Call, CallState
  <2> HIDE DEF r
  <2> QED
    BY <1>2, <2>2, <2>3 DEF GoesOn, n
<1> QED
  BY <1>1, <1>2

\* A recipient served: the loop goes on, or ends.
LEMMA ServedIs ==
  ASSUME NEW q \in Call, NEW u, NEW state \in CallState
  PROVE  /\ Served(q, u, state) \in Call
         /\ \/ q.todo \subseteq {u} /\ GoesOn(q, Served(q, u, state))
            \/ /\ Served(q, u, state).input = q.input /\ Served(q, u, state).at = q.at
               /\ Served(q, u, state).todo = q.todo \ {u} /\ Served(q, u, state).state = state
<1> DEFINE rest == [q EXCEPT !.todo = @ \ {u}, !.row = 0, !.state = state]
<1>1. /\ rest \in Call
      /\ rest.input = q.input /\ rest.at = q.at /\ rest.todo = q.todo \ {u} /\ rest.state = state
  BY DEF Call
<1>2. Served(q, u, state) = IF rest.todo = {} THEN NextStep(rest) ELSE rest
  BY DEF Served
<1> HIDE DEF rest
<1>3. CASE rest.todo = {}
  <2>1. GoesOn(rest, NextStep(rest)) /\ NextStep(rest) \in Call
    BY <1>1, NextStepGoesOn
  <2>2. GoesOn(q, NextStep(rest))
    BY <1>1, <2>1 DEF GoesOn
  <2> QED
    BY <1>1, <1>2, <1>3, <2>1, <2>2
<1>4. CASE rest.todo # {}
  BY <1>1, <1>2, <1>4
<1> QED
  BY <1>3, <1>4

\* A call's state is replaced.
LEMMA CallReplaced ==
  ASSUME TypeOK, NEW c \in Calls, NEW r \in Call, call' = [call EXCEPT ![c] = r]
  PROVE  call' \in [Calls -> Call] /\ call'[c] = r /\ \A d \in Calls \ {c} : call'[d] = call[d]
BY DEF TypeOK

\* A step that leaves inbox and jobs alone.
LEMMA NothingQueued ==
  ASSUME TypeOK, UNCHANGED <<inbox, delivery>>
  PROVE  RowsKept /\ JobsKept
BY DEF TypeOK, RowsKept, JobsKept

\* A handler that has committed starts on its plan.
LEMMA CommitStep ==
  ASSUME TypeOK, NEW c \in Calls, NEW i \in Input, Commit(c, i)
  PROVE  CallStep(c)
<1> DEFINE r == [IdleCall EXCEPT !.state = "resolve", !.input = i]
<1>1. r \in Call /\ Starts(call[c], r)
  BY DEF Commit, IdleCall, Call, CallState, Starts
<1>2. call' = [call EXCEPT ![c] = r]
  BY DEF Commit
<1> HIDE DEF r
<1> QED
  BY <1>1, <1>2, CallReplaced, NothingQueued DEF Commit, CallStep

\* A step whose recipients have been looked up.
LEMMA ResolveStep ==
  ASSUME TypeOK, NEW c \in Calls, Resolve(c)
  PROVE  CallStep(c)
<1> DEFINE us == Recipients(StepOf(call[c], call[c].at))
           op == StepOf(call[c], call[c].at).op
           q == [call[c] EXCEPT !.todo = us, !.state = IF op = "notify" THEN "create" ELSE "publish"]
           r == IF us = {} THEN NextStep(q) ELSE q
<1>1. call[c] \in Call /\ call[c].state = "resolve" /\ us \subseteq Users
  BY RecipientsAreUsers DEF Resolve, TypeOK
<1>2. call' = [call EXCEPT ![c] = r]
  BY DEF Resolve, Current, StepOf
<1> HIDE DEF us, op
<1>3. /\ q \in Call /\ q.input = call[c].input /\ q.at = call[c].at /\ q.todo = us
      /\ q.state = IF op = "notify" THEN "create" ELSE "publish"
  BY <1>1 DEF Call, CallState
<1> HIDE DEF q
<1>4. CASE us = {}
  <2>1. r = NextStep(q) /\ GoesOn(q, r) /\ r \in Call
    BY <1>3, <1>4, NextStepGoesOn
  <2>2. GoesOn(call[c], r)
    BY <1>3, <2>1 DEF GoesOn
  <2>3. Looks(call[c], r)
    BY <1>1, <1>4, <2>2 DEF Looks, us
  <2> HIDE DEF r
  <2> QED
    BY <1>2, <2>1, <2>3, CallReplaced, NothingQueued DEF Resolve, CallStep
<1>5. CASE us # {}
  <2>1. r = q
    BY <1>5
  <2>2. Looks(call[c], r)
    BY <1>1, <1>3, <2>1 DEF Looks, us, op, Notifies
  <2> HIDE DEF r
  <2> QED
    BY <1>2, <1>3, <2>1, <2>2, CallReplaced, NothingQueued DEF Resolve, CallStep
<1> QED
  BY <1>4, <1>5

\* A row is inserted.
LEMMA CreateRowStep ==
  ASSUME TypeOK, Len(delivery) = Len(inbox), NEW c \in Calls, CreateRow(c)
  PROVE  CallStep(c)
<1> DEFINE n == Len(inbox) + 1
           r == [call[c] EXCEPT !.state = "enqueue", !.row = n]
<1>1. call[c] \in Call /\ call[c].state = "create" /\ Len(inbox) \in Nat
      /\ inbox \in Seq(Row) /\ delivery \in Seq(Delivery)
  BY DEF CreateRow, TypeOK
<1>2. PICK u \in Foremost(call[c].todo) :
        inbox' = Append(inbox, [user |-> u, call |-> c, step |-> call[c].at, read |-> FALSE])
  BY DEF CreateRow
<1>3. u \in call[c].todo /\ u \in Users
  BY <1>1 DEF Foremost, Call
<1>4. [user |-> u, call |-> c, step |-> call[c].at, read |-> FALSE] \in Row
  BY <1>1, <1>3 DEF Row, Call
<1>5. NoDelivery \in Delivery
  BY NotificationsAssumption DEF NoDelivery, Delivery, DeliveryState
<1>6. delivery' = Append(delivery, NoDelivery)
  BY DEF CreateRow
<1>7. RowAdded(c, u)
  BY <1>1, <1>2, <1>4, <1>5, <1>6 DEF RowAdded
<1>8. call' = [call EXCEPT ![c] = r]
  BY DEF CreateRow
<1>9. n \in Nat
  BY <1>1
<1> HIDE DEF n
<1>10. r \in Call /\ Creates(call[c], r, n)
  BY <1>1, <1>9 DEF Call, CallState, Creates
<1> HIDE DEF r
<1> QED
  BY <1>3, <1>7, <1>8, <1>10, CallReplaced DEF CallStep, n

\* A delivery job is replaced.
LEMMA DeliveryReplaced ==
  ASSUME TypeOK, NEW i \in DOMAIN delivery, NEW x \in Delivery,
         delivery' = [delivery EXCEPT ![i] = x]
  PROVE  /\ delivery' \in Seq(Delivery) /\ Len(delivery') = Len(delivery)
         /\ delivery'[i] = x
         /\ \A j \in DOMAIN delivery \ {i} : delivery'[j] = delivery[j]
<1>1. delivery \in Seq(Delivery)
  BY DEF TypeOK
<1> QED
  BY <1>1, ExceptSeq

\* A row's job is queued.
LEMMA EnqueueDeliveryStep ==
  ASSUME TypeOK, Len(delivery) = Len(inbox), NEW c \in Calls, EnqueueDelivery(c),
         call[c].row \in DOMAIN inbox
  PROVE  CallStep(c)
<1> DEFINE i == call[c].row
           x == [delivery[i] EXCEPT !.state = "queued"]
           u == inbox[i].user
           r == Served(call[c], u, "create")
<1>1. call[c] \in Call /\ call[c].state = "enqueue" /\ inbox' = inbox
      /\ inbox \in Seq(Row) /\ delivery \in Seq(Delivery)
      /\ delivery' = [delivery EXCEPT ![i] = x]
      /\ call' = [call EXCEPT ![c] = r]
  BY DEF EnqueueDelivery, TypeOK
<1>2. i \in DOMAIN delivery
  BY <1>1
<1>3. delivery[i] \in Delivery
  BY <1>1, <1>2
<1>4. x \in Delivery /\ x.state = "queued"
  BY <1>3 DEF Delivery, DeliveryState
<1> HIDE DEF x
<1>5. JobQueued(i)
  BY <1>1, <1>2, <1>4, DeliveryReplaced DEF JobQueued
<1>6. RowsKept
  BY <1>1 DEF RowsKept
<1>7. r \in Call /\ Enqueues(call[c], r, u)
  <2>1. "create" \in CallState
    BY DEF CallState
  <2>2. /\ r \in Call
        /\ \/ call[c].todo \subseteq {u} /\ GoesOn(call[c], r)
           \/ /\ r.input = call[c].input /\ r.at = call[c].at
              /\ r.todo = call[c].todo \ {u} /\ r.state = "create"
    BY <1>1, <2>1, ServedIs
  <2> QED
    BY <1>1, <2>2 DEF Enqueues
<1> HIDE DEF r
<1>8. call' \in [Calls -> Call] /\ call'[c] = r /\ \A d \in Calls \ {c} : call'[d] = call[d]
  BY <1>1, <1>7, CallReplaced
<1> QED
  BY <1>5, <1>6, <1>7, <1>8 DEF CallStep

\* order.updated is published to a user.
LEMMA PublishOrderUpdatedStep ==
  ASSUME TypeOK, NEW c \in Calls, PublishOrderUpdated(c)
  PROVE  CallStep(c)
<1>1. call[c] \in Call /\ call[c].state = "publish" /\ UNCHANGED <<inbox, delivery>>
  BY DEF PublishOrderUpdated, TypeOK
<1>2. PICK u : call' = [call EXCEPT ![c] = Served(call[c], u, "publish")]
  BY DEF PublishOrderUpdated
<1> DEFINE r == Served(call[c], u, "publish")
<1>3. "publish" \in CallState
  BY DEF CallState
<1>4. /\ r \in Call
      /\ \/ call[c].todo \subseteq {u} /\ GoesOn(call[c], r)
         \/ /\ r.input = call[c].input /\ r.at = call[c].at
            /\ r.todo = call[c].todo \ {u} /\ r.state = "publish"
  BY <1>1, <1>3, ServedIs
<1>5. Broadcasts(call[c], r)
  BY <1>1, <1>4 DEF Broadcasts
<1> HIDE DEF r
<1>6. call' = [call EXCEPT ![c] = r]
  BY <1>2 DEF r
<1> QED
  BY <1>1, <1>4, <1>5, <1>6, CallReplaced, NothingQueued DEF CallStep

\* A call fails.
LEMMA CallThrowsStep ==
  ASSUME TypeOK, NEW c \in Calls, CallThrows(c)
  PROVE  CallStep(c)
<1> DEFINE r == [call[c] EXCEPT !.state = "failed", !.todo = {}, !.row = 0]
<1>1. call[c] \in Call /\ call[c].state # "idle" /\ UNCHANGED <<inbox, delivery>>
  BY DEF CallThrows, InProgress, TypeOK
<1>2. r \in Call /\ Throws(call[c], r)
  BY <1>1 DEF Call, CallState, Throws
<1>3. call' = [call EXCEPT ![c] = r]
  BY DEF CallThrows
<1> HIDE DEF r
<1> QED
  BY <1>1, <1>2, <1>3, CallReplaced, NothingQueued DEF CallStep

\* A delivery job runs.
LEMMA RunDeliveryStep ==
  ASSUME TypeOK, Len(delivery) = Len(inbox), NEW i \in DOMAIN inbox, RunDelivery(i)
  PROVE  call' = call /\ RowsKept /\ JobsKept
<1>1. /\ inbox \in Seq(Row) /\ delivery \in Seq(Delivery) /\ i \in DOMAIN delivery
      /\ UNCHANGED <<call, inbox>>
  BY DEF TypeOK, RunDelivery, Deliver, DeliveryThrows, DeliveryStalls
<1>2. /\ delivery[i] \in Delivery /\ delivery[i].state = "queued"
  BY <1>1 DEF RunDelivery, Deliver, DeliveryThrows, DeliveryStalls
<1>3. ASSUME NEW x \in Delivery, x.state # "none", delivery' = [delivery EXCEPT ![i] = x]
      PROVE  JobsKept
  BY <1>1, <1>3, DeliveryReplaced DEF JobsKept
<1>4. \E x \in Delivery : x.state # "none" /\ delivery' = [delivery EXCEPT ![i] = x]
  <2> DEFINE sent == [NoDelivery EXCEPT !.state = "sent"]
             failed == [NoDelivery EXCEPT !.state = "failed"]
             tried == [delivery[i] EXCEPT !.attempts = @ + 1]
             stalled == [delivery[i] EXCEPT !.stalls = @ + 1]
  <2>1. sent \in Delivery /\ sent.state = "sent" /\ failed \in Delivery /\ failed.state = "failed"
    BY NotificationsAssumption DEF NoDelivery, Delivery, DeliveryState
  <2>2. delivery[i].attempts + 1 < MaxAttempts => tried \in Delivery /\ tried.state = "queued"
    <3>1. ASSUME delivery[i].attempts + 1 < MaxAttempts
          PROVE  delivery[i].attempts + 1 \in 0..MaxAttempts
      BY <1>2, <3>1, NotificationsAssumption DEF Delivery
    <3> DEFINE n == delivery[i].attempts + 1
    <3> HIDE DEF n
    <3>2. n \in 0..MaxAttempts => [delivery[i] EXCEPT !.attempts = n] \in Delivery
                                  /\ [delivery[i] EXCEPT !.attempts = n].state = "queued"
      BY <1>2 DEF Delivery
    <3> QED
      BY <3>1, <3>2 DEF n
  <2>3. delivery[i].stalls < MaxStalled => stalled \in Delivery /\ stalled.state = "queued"
    <3>1. ASSUME delivery[i].stalls < MaxStalled
          PROVE  delivery[i].stalls + 1 \in 0..(MaxStalled + 1)
      BY <1>2, <3>1, NotificationsAssumption DEF Delivery
    <3> DEFINE n == delivery[i].stalls + 1
    <3> HIDE DEF n
    <3>2. n \in 0..(MaxStalled + 1) => [delivery[i] EXCEPT !.stalls = n] \in Delivery
                                       /\ [delivery[i] EXCEPT !.stalls = n].state = "queued"
      BY <1>2 DEF Delivery
    <3> QED
      BY <3>1, <3>2 DEF n
  <2>4. \/ delivery' = [delivery EXCEPT ![i] = sent]
        \/ delivery' = [delivery EXCEPT ![i] = failed]
        \/ delivery[i].attempts + 1 < MaxAttempts /\ delivery' = [delivery EXCEPT ![i] = tried]
        \/ delivery[i].stalls < MaxStalled /\ delivery' = [delivery EXCEPT ![i] = stalled]
    <3>1. CASE Deliver(i)
      BY <3>1 DEF Deliver
    <3>2. CASE DeliveryThrows(i)
      <4>1. delivery' = [delivery EXCEPT ![i] =
              IF delivery[i].attempts + 1 < MaxAttempts THEN tried ELSE failed]
        BY <3>2, Zenon DEF DeliveryThrows
      <4> HIDE DEF tried, failed
      <4> QED
        BY <4>1
    <3>3. CASE DeliveryStalls(i)
      <4>1. delivery' = [delivery EXCEPT ![i] =
              IF delivery[i].stalls < MaxStalled THEN stalled ELSE failed]
        BY <3>3, Zenon DEF DeliveryStalls
      <4> HIDE DEF stalled, failed
      <4> QED
        BY <4>1
    <3> QED
      BY <3>1, <3>2, <3>3 DEF RunDelivery
  <2> HIDE DEF sent, failed, tried, stalled
  <2> QED
    BY <2>1, <2>2, <2>3, <2>4
<1>5. JobsKept
  BY <1>3, <1>4
<1> QED
  BY <1>1, <1>5 DEF RowsKept

\* Rows are marked as read.
LEMMA MarkReadStep ==
  ASSUME TypeOK, NEW q \in reading, MarkRead(q)
  PROVE  call' = call /\ RowsKept /\ JobsKept
<1> DEFINE i == q.row
           x == [inbox[i] EXCEPT !.read = TRUE]
<1>1. /\ inbox \in Seq(Row) /\ i \in DOMAIN inbox /\ inbox[i] \in Row
      /\ inbox' = [inbox EXCEPT ![i] = x]
      /\ UNCHANGED <<call, delivery>>
  BY DEF MarkRead, TypeOK
<1>2. /\ x \in Row
      /\ x.user = inbox[i].user /\ x.call = inbox[i].call /\ x.step = inbox[i].step
  BY <1>1 DEF Row
<1> HIDE DEF x
<1>3. RowsKept
  BY <1>1, <1>2, ExceptSeq DEF RowsKept
<1> QED
  BY <1>1, <1>3 DEF TypeOK, JobsKept

\* All rows of a user are marked as read.
LEMMA MarkAllReadStep ==
  ASSUME TypeOK, NEW u, MarkAllRead(u)
  PROVE  call' = call /\ RowsKept /\ JobsKept
<1> DEFINE seen(i) == [inbox[i] EXCEPT !.read = TRUE]
           x(i) == IF inbox[i].user = u THEN seen(i) ELSE inbox[i]
<1>1. /\ inbox \in Seq(Row) /\ inbox' = [i \in DOMAIN inbox |-> x(i)]
      /\ UNCHANGED <<call, delivery>>
  BY DEF MarkAllRead, TypeOK
<1>2. ASSUME NEW i \in DOMAIN inbox
      PROVE  /\ x(i) \in Row
             /\ x(i).user = inbox[i].user /\ x(i).call = inbox[i].call /\ x(i).step = inbox[i].step
  <2>1. inbox[i] \in Row
    BY <1>1
  <2>2. /\ seen(i) \in Row /\ seen(i).user = inbox[i].user
        /\ seen(i).call = inbox[i].call /\ seen(i).step = inbox[i].step
    BY <2>1 DEF Row
  <2> HIDE DEF seen
  <2> QED
    BY <2>1, <2>2
<1> HIDE DEF x
<1>3. inbox' \in [1..Len(inbox) -> Row] /\ Len(inbox) \in Nat
  BY <1>1, <1>2
<1>4. inbox' \in Seq(Row) /\ Len(inbox') = Len(inbox)
  BY <1>3, SeqDef
<1>5. RowsKept
  BY <1>1, <1>2, <1>4 DEF RowsKept
<1> QED
  BY <1>1, <1>5 DEF TypeOK, JobsKept

\* Every step is of one of these kinds.
LEMMA EveryStep ==
  ASSUME Inv, [Next]_vars
  PROVE  AnyStep
<1>1. TypeOK /\ Len(delivery) = Len(inbox)
  BY DEF Inv, RowsAreQueued
<1>2. CASE UNCHANGED vars
  BY <1>1, <1>2, NothingQueued DEF vars, AnyStep
<1>3. CASE \E c \in Calls : (\E i \in Input : Commit(c, i)) \/ FanOut(c) \/ CallThrows(c)
  <2>1. PICK c \in Calls : (\E i \in Input : Commit(c, i)) \/ FanOut(c) \/ CallThrows(c)
    BY <1>3
  <2>2. EnqueueDelivery(c) => call[c].row \in DOMAIN inbox
    BY DEF EnqueueDelivery, Inv, CallsFit
  <2>3. CallStep(c)
    BY <1>1, <2>1, <2>2, CommitStep, ResolveStep, CreateRowStep, EnqueueDeliveryStep,
       PublishOrderUpdatedStep, CallThrowsStep DEF FanOut
  <2> QED
    BY <2>3 DEF AnyStep
<1>4. CASE \E i \in DOMAIN inbox : RunDelivery(i)
  BY <1>1, <1>4, RunDeliveryStep DEF AnyStep
<1>5. CASE \E t \in Tabs : Streaming(t) \/ ListInbox(t)
  BY <1>1, <1>5, NothingQueued DEF Streaming, ListInbox, AnyStep
<1>6. CASE \E u \in Readers : MarkAllRead(u) \/ \E i \in DOMAIN inbox : FindUnread(u, i)
  BY <1>1, <1>6, NothingQueued, MarkAllReadStep DEF FindUnread, AnyStep
<1>7. CASE \E q \in reading : MarkRead(q)
  BY <1>1, <1>7, MarkReadStep DEF AnyStep
<1> QED
  BY <1>2, <1>3, <1>4, <1>5, <1>6, <1>7 DEF Next

-----------------------------------------------------------------------------
(***************************************************************************)
(* The invariant.                                                          *)
(***************************************************************************)

\* Rows stay, with their user, call and step.
RowsPersist ==
  /\ inbox' \in Seq(Row) /\ DOMAIN inbox \subseteq DOMAIN inbox'
  /\ \A i \in DOMAIN inbox :
       /\ inbox'[i].user = inbox[i].user
       /\ inbox'[i].call = inbox[i].call
       /\ inbox'[i].step = inbox[i].step

\* No step removes a row.
LEMMA EveryRowPersists ==
  ASSUME TypeOK, AnyStep
  PROVE  RowsPersist /\ call' \in [Calls -> Call] /\ delivery' \in Seq(Delivery)
<1>1. inbox \in Seq(Row) /\ call \in [Calls -> Call]
  BY DEF TypeOK
<1>2. RowsKept => RowsPersist
  BY <1>1 DEF RowsKept, RowsPersist
<1>3. ASSUME NEW c, NEW u, RowAdded(c, u) PROVE RowsPersist
  BY <1>1, <1>3 DEF RowAdded, RowsPersist
<1> QED
  BY <1>1, <1>2, <1>3 DEF AnyStep, CallStep, JobsKept, JobQueued, RowAdded

\* The invariant holds initially.
LEMMA InvInit == Init => Inv
<1> SUFFICES ASSUME Init PROVE Inv
  OBVIOUS
<1>1. RealtimeTypeOK
  BY RealtimeAssumption DEF Init, RealtimeInit, RealtimeTypeOK, ClosedTab, Tab, TabPhase
<1>2. IdleCall \in Call
  BY DEF IdleCall, Call, CallState
<1>3. TypeOK
  BY <1>1, <1>2 DEF Init, TypeOK
<1>4. \A c \in Calls : call[c].state = "idle"
  BY DEF Init, IdleCall
<1>5. DOMAIN inbox = {} /\ Len(delivery) = Len(inbox)
  BY DEF Init
<1> QED
  BY <1>3, <1>4, <1>5 DEF Inv, CallsFit, RowsFit, RowsDiffer, ServedHaveRows, RowsAreQueued

\* An event leaves streams of the right type.
LEMMA PublishTyped ==
  ASSUME RealtimeTypeOK, NEW u, NEW ids \in SUBSET Nat, NEW v \in Nat, PublishToUser(u, ids, v)
  PROVE  RealtimeTypeOK'
<1> DEFINE x(t) == [tab[t] EXCEPT !.known = @ \cup ids, !.heard = v]
<1>1. ASSUME NEW t \in Tabs PROVE tab[t] \in Tab /\ x(t) \in Tab
  BY DEF RealtimeTypeOK, Tab
<1>2. tab' = [t \in Tabs |-> IF Hears(t, u) THEN x(t) ELSE tab[t]]
  BY DEF PublishToUser
<1> HIDE DEF x
<1> QED
  BY <1>1, <1>2 DEF RealtimeTypeOK

\* Streams that open, close, or list the inbox have the right type.
LEMMA StreamingTyped ==
  ASSUME TypeOK, NEW t \in Tabs, Streaming(t) \/ ListInbox(t)
  PROVE  RealtimeTypeOK'
<1>1. tab \in [Tabs -> Tab] /\ tab[t] \in Tab /\ version \in Nat /\ inbox \in Seq(Row)
  BY DEF TypeOK, RealtimeTypeOK
<1>2. ASSUME NEW x \in Tab, tab' = [tab EXCEPT ![t] = x] PROVE RealtimeTypeOK'
  BY <1>1, <1>2 DEF RealtimeTypeOK
<1>3. ClosedTab \in Tab
  BY DEF ClosedTab, Tab, TabPhase
<1>4. ASSUME NEW u \in ActiveUsers, StreamForUser(t, u) PROVE RealtimeTypeOK'
  <2> DEFINE x == [ClosedTab EXCEPT !.user = u, !.phase = "connecting"]
  <2>1. x \in Tab
    BY RealtimeAssumption DEF ClosedTab, Tab, TabPhase
  <2>2. tab' = [tab EXCEPT ![t] = x]
    BY <1>4 DEF StreamForUser
  <2> HIDE DEF x
  <2> QED
    BY <1>2, <2>1, <2>2
<1>5. ASSUME SubscriptionActive(t) PROVE RealtimeTypeOK'
  <2> DEFINE x == [tab[t] EXCEPT !.phase = "open"]
  <2>1. x \in Tab
    BY <1>1 DEF Tab, TabPhase
  <2>2. tab' = [tab EXCEPT ![t] = x]
    BY <1>5 DEF SubscriptionActive
  <2> HIDE DEF x
  <2> QED
    BY <1>2, <2>1, <2>2
<1>6. ASSUME ListInbox(t) PROVE RealtimeTypeOK'
  <2> DEFINE known == tab[t].known \cup ListForUser(tab[t].user)
             listed == tab[t].phase = "open"
             x == [tab[t] EXCEPT !.known = known, !.heard = version, !.listed = listed]
  <2>1. tab' = [tab EXCEPT ![t] = x]
    BY <1>6 DEF ListInbox
  <2>2. ListForUser(tab[t].user) \subseteq Nat
    BY <1>1 DEF ListForUser, RowsOf
  <2>3. known \subseteq Nat /\ listed \in BOOLEAN
    BY <1>1, <2>2 DEF Tab
  <2> HIDE DEF known, listed
  <2>4. x \in Tab
    BY <1>1, <2>3 DEF Tab
  <2> HIDE DEF x
  <2> QED
    BY <1>2, <2>1, <2>4
<1> QED
  BY <1>2, <1>3, <1>4, <1>5, <1>6 DEF Streaming, TearDown

\* The types.
LEMMA TypeStep ==
  ASSUME Inv, [Next]_vars
  PROVE  TypeOK'
<1>1. TypeOK /\ RowsPersist /\ call' \in [Calls -> Call] /\ delivery' \in Seq(Delivery)
  BY EveryStep, EveryRowPersists DEF Inv
<1>2. version' \in Nat
  <2>1. version \in Nat
    BY <1>1 DEF TypeOK
  <2>2. version' = version \/ version' = version + 1
    BY DEF Next, vars, Commit, FanOut, Resolve, CreateRow, EnqueueDelivery, PublishOrderUpdated,
           CallThrows, RunDelivery, Deliver, DeliveryThrows, DeliveryStalls, Streaming, ListInbox,
           FindUnread, MarkRead, MarkAllRead
  <2> QED
    BY <2>1, <2>2
<1>3. reading' \subseteq [user : Users, row : DOMAIN inbox']
  <2>1. reading \subseteq [user : Users, row : DOMAIN inbox] /\ DOMAIN inbox \subseteq DOMAIN inbox'
    BY <1>1 DEF TypeOK, RowsPersist
  <2>2. \/ reading' \subseteq reading
        \/ \E u \in Readers : \E i \in DOMAIN inbox : reading' = reading \cup {[user |-> u, row |-> i]}
    BY DEF Next, vars, Commit, FanOut, Resolve, CreateRow, EnqueueDelivery, PublishOrderUpdated,
           CallThrows, RunDelivery, Deliver, DeliveryThrows, DeliveryStalls, Streaming, ListInbox,
           FindUnread, MarkRead, MarkAllRead, RowsOf
  <2>3. Readers \subseteq Users
    BY NotificationsAssumption, RealtimeAssumption
  <2> QED
    BY <2>1, <2>2, <2>3
<1>4. RealtimeTypeOK'
  <2>1. RealtimeTypeOK /\ version \in Nat /\ inbox \in Seq(Row)
    BY <1>1 DEF TypeOK
  <2>2. \/ UNCHANGED tab
        \/ \E u : PublishToUser(u, {}, version)
        \/ \E i \in DOMAIN inbox : PublishToUser(inbox[i].user, {i}, version)
        \/ \E t \in Tabs : Streaming(t) \/ ListInbox(t)
    BY DEF Next, vars, Commit, FanOut, Resolve, CreateRow, EnqueueDelivery, PublishOrderUpdated,
           CallThrows, RunDelivery, Deliver, DeliveryThrows, DeliveryStalls, Publishes,
           FindUnread, MarkRead, MarkAllRead
  <2>3. \A i \in DOMAIN inbox : {i} \in SUBSET Nat
    BY <2>1
  <2>4. CASE UNCHANGED tab
    BY <2>1, <2>4 DEF RealtimeTypeOK
  <2> QED
    BY <1>1, <2>1, <2>2, <2>3, <2>4, PublishTyped, StreamingTyped
<1> QED
  BY <1>1, <1>2, <1>3, <1>4 DEF TypeOK, RowsPersist

\* What a call in progress does to its place in the plan.
LEMMA PlaceKept ==
  ASSUME Inv, NEW c \in Calls, call[c].state # "idle", GoesOn(call[c], call'[c])
  PROVE  /\ call'[c].input \in Input
         /\ call'[c].at \in 1..Len(Plan(call'[c].input))
         /\ call'[c].at >= call[c].at
<1>1. call[c].input \in Input /\ call[c].at \in 1..Len(Plan(call[c].input))
  BY DEF Inv, CallsFit
<1>2. Len(Plan(call[c].input)) \in Nat
  BY <1>1, PlanFacts
<1> QED
  BY <1>1, <1>2 DEF GoesOn

\* Calls in progress fit their plans.
LEMMA CallsFitStep ==
  ASSUME Inv, AnyStep
  PROVE  CallsFit'
<1> DEFINE Fits(c) ==
      call'[c].state # "idle" =>
        LET q == call'[c] IN
        /\ q.input \in Input
        /\ q.at \in 1..Len(Plan(q.input))
        /\ q.state = "publish" => ~Notifies(StepOf(q, q.at))
        /\ q.state \in {"create", "enqueue"} =>
             Notifies(StepOf(q, q.at)) /\ q.todo \subseteq Recipients(StepOf(q, q.at))
        /\ q.state = "enqueue" =>
             /\ q.row \in DOMAIN inbox'
             /\ inbox'[q.row].call = c /\ inbox'[q.row].step = q.at /\ inbox'[q.row].user \in q.todo
<1>1. TypeOK /\ CallsFit /\ RowsPersist /\ inbox \in Seq(Row)
  BY EveryRowPersists DEF Inv, TypeOK
<1>2. ASSUME NEW c \in Calls, call'[c] = call[c] PROVE Fits(c)
  BY <1>1, <1>2 DEF CallsFit, RowsPersist
<1>3. ASSUME NEW c \in Calls, CallStep(c) PROVE Fits(c)
  <2>1. call[c].state # "idle" =>
          /\ call[c].input \in Input
          /\ call[c].at \in 1..Len(Plan(call[c].input))
    BY <1>1 DEF CallsFit
  <2>2. CASE Starts(call[c], call'[c])
    <3>1. call'[c].input \in Input /\ call'[c].at = 1 /\ call'[c].state = "resolve"
      BY <2>2 DEF Starts
    <3>2. Len(Plan(call'[c].input)) \in Nat \ {0}
      BY <3>1, PlanFacts
    <3> QED
      BY <3>1, <3>2
  <2>3. CASE call[c].state # "idle" /\ GoesOn(call[c], call'[c])
    BY <2>3, PlaceKept DEF GoesOn
  <2>4. CASE Looks(call[c], call'[c]) /\ ~GoesOn(call[c], call'[c])
    BY <2>1, <2>4 DEF Looks, StepOf
  <2>5. CASE Broadcasts(call[c], call'[c]) /\ ~GoesOn(call[c], call'[c])
    BY <1>1, <2>1, <2>5 DEF Broadcasts, StepOf, CallsFit
  <2>6. CASE Throws(call[c], call'[c])
    BY <2>1, <2>6 DEF Throws
  <2>7. ASSUME NEW u \in call[c].todo, RowAdded(c, u), Creates(call[c], call'[c], Len(inbox) + 1)
        PROVE  Fits(c)
    <3>1. /\ call[c].state = "create" /\ call'[c].state = "enqueue"
          /\ call'[c].input = call[c].input /\ call'[c].at = call[c].at
          /\ call'[c].todo = call[c].todo /\ call'[c].row = Len(inbox) + 1
      BY <2>7 DEF Creates
    <3>2. /\ Len(inbox) + 1 \in DOMAIN inbox'
          /\ inbox'[Len(inbox) + 1].call = c /\ inbox'[Len(inbox) + 1].user = u
          /\ inbox'[Len(inbox) + 1].step = call[c].at
      BY <1>1, <2>7 DEF RowAdded
    <3>3. Notifies(StepOf(call[c], call[c].at))
          /\ call[c].todo \subseteq Recipients(StepOf(call[c], call[c].at))
      BY <1>1, <3>1 DEF CallsFit
    <3> QED
      BY <2>1, <3>1, <3>2, <3>3 DEF StepOf
  <2>8. CASE Enqueues(call[c], call'[c], inbox[call[c].row].user) /\ ~GoesOn(call[c], call'[c])
    BY <1>1, <2>1, <2>8 DEF Enqueues, StepOf, CallsFit
  <2> HIDE DEF Fits
  <2> QED
    BY <1>3, <2>2, <2>3, <2>4, <2>5, <2>6, <2>7, <2>8 DEF CallStep, Looks, Broadcasts, Enqueues
<1> HIDE DEF Fits
<1>4. \A c \in Calls : Fits(c)
  BY <1>2, <1>3 DEF AnyStep, CallStep
<1> QED
  BY <1>4 DEF CallsFit, Fits

\* Old rows of a call that does a step still fit it.
LEMMA OldRowsFit ==
  ASSUME Inv, NEW c \in Calls, CallStep(c), NEW i \in DOMAIN inbox, inbox[i].call = c
  PROVE  RowFits(call'[c], inbox[i].user, inbox[i].step, i)
<1> DEFINE q == call[c]  r == call'[c]  n == inbox[i].step
<1>1. /\ q.state # "idle"
      /\ n \in 1..q.at
      /\ n = q.at => q.state # "resolve"
      /\ Notifies(StepOf(q, n)) /\ inbox[i].user \in Recipients(StepOf(q, n))
      /\ n = q.at /\ q.state \in {"create", "enqueue"} /\ inbox[i].user \in q.todo
           => q.state = "enqueue" /\ i = q.row
  BY DEF Inv, RowsFit, RowFits
<1>2. q.at \in Nat /\ n \in Nat
  <2>1. q.at \in 1..Len(Plan(q.input)) /\ Len(Plan(q.input)) \in Nat
    BY <1>1, PlanFacts DEF Inv, CallsFit
  <2> QED
    BY <1>1, <2>1
<1>3. q.state = "publish" => n # q.at
  BY <1>1 DEF Inv, CallsFit
<1> HIDE DEF q, r, n
<1> SUFFICES RowFits(r, inbox[i].user, n, i)
  BY DEF r, n
<1>4. CASE GoesOn(q, r)
  BY <1>1, <1>2, <1>4 DEF GoesOn, StepOf, RowFits
<1>5. CASE Looks(q, r) /\ ~GoesOn(q, r)
  BY <1>1, <1>2, <1>5 DEF Looks, StepOf, RowFits
<1>6. CASE Broadcasts(q, r) /\ ~GoesOn(q, r)
  BY <1>1, <1>2, <1>3, <1>6 DEF Broadcasts, StepOf, RowFits
<1>7. CASE Throws(q, r)
  BY <1>1, <1>2, <1>7 DEF Throws, StepOf, RowFits
<1>8. CASE Creates(q, r, Len(inbox) + 1)
  BY <1>1, <1>2, <1>8 DEF Creates, StepOf, RowFits
<1>9. CASE Enqueues(q, r, inbox[q.row].user) /\ ~GoesOn(q, r)
  BY <1>1, <1>2, <1>9 DEF Enqueues, StepOf, RowFits
<1>10. Starts(q, r) => FALSE
  BY <1>1 DEF Starts
<1>11. \/ GoesOn(q, r)
       \/ Looks(q, r) \/ Broadcasts(q, r) \/ Throws(q, r)
       \/ Creates(q, r, Len(inbox) + 1)
       \/ Enqueues(q, r, inbox[q.row].user)
  BY <1>10 DEF CallStep, q, r
<1> QED
  BY <1>4, <1>5, <1>6, <1>7, <1>8, <1>9, <1>11

\* Rows fit their calls.
LEMMA RowsFitStep ==
  ASSUME Inv, AnyStep
  PROVE  RowsFit'
<1>1. inbox \in Seq(Row) /\ \A i \in DOMAIN inbox : inbox[i].call \in Calls
  <2>1. inbox \in Seq(Row)
    BY DEF Inv, TypeOK
  <2>2. \A i \in DOMAIN inbox : inbox[i] \in Row
    BY <2>1
  <2> QED
    BY <2>1, <2>2 DEF Row
<1>2. ASSUME NEW i \in DOMAIN inbox, call'[inbox[i].call] = call[inbox[i].call]
      PROVE  RowFits(call'[inbox[i].call], inbox[i].user, inbox[i].step, i)
  BY <1>2 DEF Inv, RowsFit
<1>3. ASSUME NEW c \in Calls, CallStep(c), NEW i \in DOMAIN inbox
      PROVE  RowFits(call'[inbox[i].call], inbox[i].user, inbox[i].step, i)
  <2>1. CASE inbox[i].call = c
    BY <1>3, <2>1, OldRowsFit
  <2>2. CASE inbox[i].call # c
    <3>1. call'[inbox[i].call] = call[inbox[i].call]
      BY <1>1, <1>3, <2>2 DEF CallStep
    <3> QED
      BY <1>2, <3>1
  <2> QED
    BY <2>1, <2>2
<1>4. ASSUME NEW c \in Calls, NEW u \in call[c].todo, Creates(call[c], call'[c], Len(inbox) + 1)
      PROVE  RowFits(call'[c], u, call[c].at, Len(inbox) + 1)
  <2>1. /\ call[c].state = "create" /\ call'[c].state = "enqueue"
        /\ call'[c].input = call[c].input /\ call'[c].at = call[c].at
        /\ call'[c].row = Len(inbox) + 1
    BY <1>4 DEF Creates
  <2>2. /\ call[c].input \in Input /\ call[c].at \in 1..Len(Plan(call[c].input))
        /\ Notifies(StepOf(call[c], call[c].at)) /\ u \in Recipients(StepOf(call[c], call[c].at))
    BY <2>1 DEF Inv, CallsFit
  <2>3. call[c].at \in 1..call[c].at
    BY <2>2, PlanFacts
  <2> QED
    BY <2>1, <2>2, <2>3 DEF StepOf, RowFits
<1>5. ASSUME NEW i \in DOMAIN inbox PROVE RowFits(call'[inbox[i].call], inbox[i].user, inbox[i].step, i)
  BY <1>2, <1>3 DEF AnyStep
<1>6. ASSUME NEW i \in DOMAIN inbox'
      PROVE  RowFits(call'[inbox'[i].call], inbox'[i].user, inbox'[i].step, i)
  <2>1. CASE RowsKept
    BY <1>1, <1>5, <2>1 DEF RowsKept
  <2>2. ASSUME NEW c \in Calls, NEW u \in call[c].todo, RowAdded(c, u),
               Creates(call[c], call'[c], Len(inbox) + 1)
        PROVE  RowFits(call'[inbox'[i].call], inbox'[i].user, inbox'[i].step, i)
    <3>1. CASE i \in DOMAIN inbox
      BY <1>5, <2>2, <3>1 DEF RowAdded
    <3>2. CASE i \notin DOMAIN inbox
      <4>1. i = Len(inbox) + 1
        BY <1>1, <2>2, <3>2 DEF RowAdded
      <4>2. inbox'[i].call = c /\ inbox'[i].user = u /\ inbox'[i].step = call[c].at
        BY <2>2, <4>1 DEF RowAdded
      <4> QED
        BY <1>4, <2>2, <4>1, <4>2
    <3> QED
      BY <3>1, <3>2
  <2> QED
    BY <2>1, <2>2 DEF AnyStep, CallStep
<1> QED
  BY <1>6 DEF RowsFit

\* Whoever is still to be served has no row, except for the one being queued.
LEMMA ToServeHaveNoRow ==
  ASSUME Inv, NEW c \in Calls, call[c].state = "create", NEW i \in DOMAIN inbox,
         inbox[i].call = c, inbox[i].step = call[c].at
  PROVE  inbox[i].user \notin call[c].todo
BY DEF Inv, RowsFit, RowFits

\* No two rows are for the same user, call and step.
LEMMA RowsDifferStep ==
  ASSUME Inv, AnyStep
  PROVE  RowsDiffer'
<1>1. inbox \in Seq(Row) /\ RowsDiffer
  BY DEF Inv, TypeOK
<1>2. CASE RowsKept
  BY <1>1, <1>2 DEF RowsKept, RowsDiffer
<1>3. ASSUME NEW c \in Calls, NEW u \in call[c].todo, RowAdded(c, u),
             Creates(call[c], call'[c], Len(inbox) + 1)
      PROVE  RowsDiffer'
  <2>1. /\ DOMAIN inbox' = DOMAIN inbox \cup {Len(inbox) + 1}
        /\ \A i \in DOMAIN inbox : inbox'[i] = inbox[i]
        /\ inbox'[Len(inbox) + 1].user = u /\ inbox'[Len(inbox) + 1].call = c
        /\ inbox'[Len(inbox) + 1].step = call[c].at
    BY <1>1, <1>3 DEF RowAdded
  <2>2. ASSUME NEW i \in DOMAIN inbox
        PROVE  ~(inbox[i].user = u /\ inbox[i].call = c /\ inbox[i].step = call[c].at)
    BY <1>3, ToServeHaveNoRow DEF Creates
  <2> QED
    BY <1>1, <2>1, <2>2 DEF RowsDiffer
<1> QED
  BY <1>2, <1>3 DEF AnyStep, CallStep

\* In state r after q, whom a call has served was served in q, or is the
\* recipient of the row it has just queued.
LEMMA ServedBefore ==
  ASSUME Inv, NEW c \in Calls, CallStep(c), call'[c].state # "failed",
         NEW n \in 1..Len(Plan(call'[c].input)), Notifies(StepOf(call'[c], n)),
         NEW u \in Recipients(StepOf(call'[c], n)), HasServed(call'[c], n, u)
  PROVE  /\ call[c].state \notin {"idle", "failed"}
         /\ call'[c].input = call[c].input
         /\ \/ HasServed(call[c], n, u)
            \/ /\ call[c].state = "enqueue"
               /\ n = call[c].at
               /\ u = inbox[call[c].row].user
<1> DEFINE q == call[c]  r == call'[c]
<1> DEFINE Goal == /\ q.state \notin {"idle", "failed"}
                   /\ r.input = q.input
                   /\ \/ HasServed(q, n, u)
                      \/ q.state = "enqueue" /\ n = q.at /\ u = inbox[q.row].user
<1>1. /\ q.state # "idle" => q.at \in 1..Len(Plan(q.input)) /\ Len(Plan(q.input)) \in Nat
      /\ q.state = "publish" => ~Notifies(StepOf(q, q.at))
  BY PlanFacts DEF Inv, CallsFit
<1>2. CASE Starts(q, r)
  <2>1. r.state = "resolve" /\ r.at = 1
    BY <1>2 DEF Starts
  <2>2. ~HasServed(r, n, u)
    BY <2>1 DEF HasServed
  <2> QED
    BY <2>2
<1> HIDE DEF q, r
<1> SUFFICES Goal
  BY DEF q, r
<1>3. Notifies(StepOf(r, n)) /\ u \in Recipients(StepOf(r, n)) /\ HasServed(r, n, u)
      /\ n \in 1..Len(Plan(r.input)) /\ r.state # "failed"
  BY DEF r
<1>4. CASE Looks(q, r)
  <2>1. CASE Recipients(StepOf(q, q.at)) = {}
    BY <1>1, <1>3, <1>4, <2>1 DEF Looks, GoesOn, HasServed, StepOf
  <2>2. CASE Recipients(StepOf(q, q.at)) # {}
    BY <1>1, <1>3, <1>4, <2>2 DEF Looks, GoesOn, HasServed, StepOf
  <2> QED
    BY <2>1, <2>2
<1>5. CASE Broadcasts(q, r)
  BY <1>1, <1>3, <1>5 DEF Broadcasts, GoesOn, HasServed, StepOf
<1>6. CASE Throws(q, r)
  BY <1>3, <1>6 DEF Throws
<1>7. CASE Creates(q, r, Len(inbox) + 1)
  BY <1>1, <1>3, <1>7 DEF Creates, HasServed
<1>8. CASE Enqueues(q, r, inbox[q.row].user)
  BY <1>1, <1>3, <1>8 DEF Enqueues, GoesOn, HasServed
<1> QED
  BY <1>2, <1>4, <1>5, <1>6, <1>7, <1>8 DEF CallStep, q, r

\* Whom a call has served, has a row.
LEMMA ServedHaveRowsStep ==
  ASSUME Inv, AnyStep
  PROVE  ServedHaveRows'
<1>1. RowsPersist /\ ServedHaveRows /\ CallsFit
  BY EveryRowPersists DEF Inv
<1>2. ASSUME NEW c, NEW n, NEW u, HasRow(c, n, u) PROVE HasRow(c, n, u)'
  BY <1>1, <1>2 DEF HasRow, RowsPersist
<1>3. ASSUME NEW c \in Calls, call'[c] = call[c], call'[c].state \notin {"idle", "failed"},
             NEW n \in 1..Len(Plan(call'[c].input)), Notifies(StepOf(call'[c], n)),
             NEW u \in Recipients(StepOf(call'[c], n)), HasServed(call'[c], n, u)
      PROVE  HasRow(c, n, u)'
  BY <1>1, <1>2, <1>3 DEF ServedHaveRows
<1>4. ASSUME NEW c \in Calls, CallStep(c), call'[c].state \notin {"idle", "failed"},
             NEW n \in 1..Len(Plan(call'[c].input)), Notifies(StepOf(call'[c], n)),
             NEW u \in Recipients(StepOf(call'[c], n)), HasServed(call'[c], n, u)
      PROVE  HasRow(c, n, u)'
  <2>1. /\ call[c].state \notin {"idle", "failed"}
        /\ call'[c].input = call[c].input
        /\ \/ HasServed(call[c], n, u)
           \/ call[c].state = "enqueue" /\ n = call[c].at /\ u = inbox[call[c].row].user
    BY <1>4, ServedBefore
  <2>2. CASE HasServed(call[c], n, u)
    <3>1. Notifies(StepOf(call[c], n)) /\ u \in Recipients(StepOf(call[c], n))
          /\ n \in 1..Len(Plan(call[c].input))
      BY <1>4, <2>1 DEF StepOf
    <3>2. HasRow(c, n, u)
      BY <1>1, <2>1, <2>2, <3>1 DEF ServedHaveRows
    <3> QED
      BY <1>2, <3>2
  <2>3. CASE call[c].state = "enqueue" /\ n = call[c].at /\ u = inbox[call[c].row].user
    <3>1. HasRow(c, n, u)
      BY <1>1, <2>3 DEF CallsFit, HasRow
    <3> QED
      BY <1>2, <3>1
  <2> QED
    BY <2>1, <2>2, <2>3
<1>5. \A c \in Calls : call'[c] = call[c] \/ CallStep(c)
  BY DEF AnyStep, CallStep
<1> QED
  BY <1>3, <1>4, <1>5 DEF ServedHaveRows

\* Rows are queued before their call goes on.
LEMMA RowsAreQueuedStep ==
  ASSUME Inv, AnyStep
  PROVE  RowsAreQueued'
<1> DEFINE Pending(q, i) == q.state = "failed" \/ (q.state = "enqueue" /\ q.row = i)
<1>1. /\ inbox \in Seq(Row) /\ delivery \in Seq(Delivery) /\ Len(delivery) = Len(inbox)
      /\ \A i \in DOMAIN inbox : ~Pending(call[inbox[i].call], i) => delivery[i].state # "none"
      /\ \A i \in DOMAIN inbox : call[inbox[i].call].state # "idle"
  BY DEF Inv, TypeOK, RowsAreQueued, RowsFit, RowFits
<1>2. ASSUME NEW c \in Calls, CallStep(c), ~Enqueues(call[c], call'[c], inbox[call[c].row].user),
             call[c].state # "idle", NEW i \in DOMAIN inbox
      PROVE  Pending(call[c], i) => Pending(call'[c], i)
  BY <1>2 DEF CallStep, Starts, Looks, Broadcasts, Throws, Creates
<1>3. CASE call' = call /\ RowsKept /\ JobsKept
  <2>1. /\ DOMAIN inbox' = DOMAIN inbox /\ DOMAIN delivery = DOMAIN inbox
        /\ Len(delivery') = Len(inbox')
        /\ \A i \in DOMAIN inbox :
             /\ inbox'[i].call = inbox[i].call
             /\ delivery[i].state # "none" => delivery'[i].state # "none"
    BY <1>1, <1>3 DEF RowsKept, JobsKept
  <2> QED
    BY <1>1, <1>3, <2>1 DEF RowsAreQueued
<1>4. ASSUME NEW c \in Calls, CallStep(c), NEW i \in DOMAIN inbox,
             ~Pending(call'[inbox[i].call], i), delivery[i].state = "none"
      PROVE  Enqueues(call[c], call'[c], inbox[call[c].row].user) /\ i = call[c].row
  <2>1. Pending(call[inbox[i].call], i)
    BY <1>1, <1>4
  <2>2. inbox[i].call = c
    <3>1. inbox[i] \in Row
      BY <1>1
    <3>2. inbox[i].call \in Calls
      BY <3>1 DEF Row
    <3> QED
      BY <1>4, <2>1, <3>2 DEF CallStep
  <2>3. call[c].state # "idle"
    BY <1>1, <2>2
  <2>4. Enqueues(call[c], call'[c], inbox[call[c].row].user)
    BY <1>2, <1>4, <2>1, <2>2, <2>3
  <2> QED
    BY <2>1, <2>2, <2>4 DEF Enqueues
<1>5. ASSUME NEW c \in Calls, CallStep(c) PROVE RowsAreQueued'
  <2>1. CASE RowsKept /\ JobsKept
            /\ ~Enqueues(call[c], call'[c], inbox[call[c].row].user)
    BY <1>1, <1>4, <1>5, <2>1 DEF RowsKept, JobsKept, RowsAreQueued
  <2>2. ASSUME NEW u, RowAdded(c, u), Creates(call[c], call'[c], Len(inbox) + 1)
        PROVE  RowsAreQueued'
    <3>1. ~Enqueues(call[c], call'[c], inbox[call[c].row].user)
      BY <2>2 DEF Creates, Enqueues
    <3>2. /\ DOMAIN inbox' = DOMAIN inbox \cup {Len(inbox) + 1}
          /\ \A i \in DOMAIN inbox : inbox'[i] = inbox[i] /\ delivery'[i] = delivery[i]
          /\ inbox'[Len(inbox) + 1].call = c /\ Len(delivery') = Len(inbox')
      BY <1>1, <2>2 DEF RowAdded
    <3>3. Pending(call'[c], Len(inbox) + 1)
      BY <2>2 DEF Creates
    <3> QED
      BY <1>4, <1>5, <3>1, <3>2, <3>3 DEF RowsAreQueued
  <2>3. CASE RowsKept /\ JobQueued(call[c].row)
    BY <1>1, <1>4, <1>5, <2>3 DEF RowsKept, JobQueued, RowsAreQueued
  <2>4. Enqueues(call[c], call'[c], inbox[call[c].row].user) => RowsKept /\ JobQueued(call[c].row)
    BY <1>5 DEF CallStep, Enqueues, GoesOn, Starts, Looks, Broadcasts, Throws, Creates
  <2> QED
    BY <1>5, <2>1, <2>2, <2>3, <2>4 DEF CallStep
<1> QED
  BY <1>3, <1>5 DEF AnyStep

\* The invariant is kept.
LEMMA InvStep == Inv /\ [Next]_vars => Inv'
<1> SUFFICES ASSUME Inv, [Next]_vars PROVE Inv'
  OBVIOUS
<1>1. AnyStep
  BY EveryStep
<1> QED
  BY <1>1, TypeStep, CallsFitStep, RowsFitStep, RowsDifferStep, ServedHaveRowsStep,
     RowsAreQueuedStep DEF Inv

-----------------------------------------------------------------------------
(***************************************************************************)
(* The theorems.                                                           *)
(***************************************************************************)

\* Rows, jobs, calls and streams have their types: a job is never tried more
\* often than its attempts option allows.
THEOREM NotificationsTypeCorrect == Spec => []TypeOK
<1>1. Inv => TypeOK
  BY DEF Inv
<1> QED
  BY InvInit, InvStep, <1>1, PTL DEF Spec

\* However many handlers of an order fan out at the same time and wherever
\* each of them fails, nobody has two rows for one event, nor a row for a
\* change of his own.
THEOREM NobodyIsToldTwice == Spec => []ToldOnce
<1>1. Inv => ToldOnce
  <2> SUFFICES ASSUME Inv PROVE ToldOnce
    OBVIOUS
  <2>1. ASSUME NEW i \in DOMAIN inbox
        PROVE  inbox[i].user # call[inbox[i].call].input.actor
    <3> DEFINE q == call[inbox[i].call]  n == inbox[i].step
    <3>1. inbox \in Seq(Row) /\ inbox[i] \in Row
      BY DEF Inv, TypeOK
    <3>2. q.state # "idle" /\ n \in 1..q.at /\ Notifies(StepOf(q, n))
          /\ inbox[i].user \in Recipients(StepOf(q, n))
      BY DEF Inv, RowsFit, RowFits
    <3>3. q.input \in Input /\ q.at \in 1..Len(Plan(q.input))
      BY <3>1, <3>2 DEF Inv, CallsFit, Row
    <3>4. n \in 1..Len(Plan(q.input))
      BY <3>2, <3>3, PlanFacts
    <3>5. StepOf(q, n).except = q.input.actor
      BY <3>2, <3>3, <3>4, PlanFacts DEF StepOf
    <3> QED
      BY <3>2, <3>5 DEF Recipients
  <2>2. RowsDiffer
    BY DEF Inv
  <2> QED
    BY <2>1, <2>2 DEF ToldOnce, RowsDiffer
<1> QED
  BY InvInit, InvStep, <1>1, PTL DEF Spec

\* A handler that returns has made a row for everybody whom its change
\* concerns and nobody else, and has queued the delivery of each.
THEOREM ReturnedCallsToldAll == Spec => []ReturnedCallToldAll
<1>1. Inv => ReturnedCallToldAll
  <2> SUFFICES ASSUME Inv, NEW c \in Calls, call[c].state = "done",
                      call[c].input.kind # "matching"
               PROVE  LET rows == {i \in DOMAIN inbox : inbox[i].call = c}
                      IN /\ {inbox[i].user : i \in rows} = ConcernedBy(call[c].input)
                         /\ \A i \in rows : delivery[i].state # "none"
    BY DEF ReturnedCallToldAll
  <2> DEFINE q == call[c]
             rows == {i \in DOMAIN inbox : inbox[i].call = c}
  <2>1. q.input \in Input /\ q.at \in 1..Len(Plan(q.input)) /\ Len(Plan(q.input)) \in Nat
    BY PlanFacts DEF Inv, CallsFit
  <2>2. ASSUME NEW i \in rows PROVE inbox[i].user \in ConcernedBy(q.input)
    <3>1. inbox[i].step \in 1..q.at /\ Notifies(StepOf(q, inbox[i].step))
          /\ inbox[i].user \in Recipients(StepOf(q, inbox[i].step))
      BY DEF Inv, RowsFit, RowFits
    <3>2. IsTold(q.input, inbox[i].user)
      BY <2>1, <3>1 DEF IsTold, StepOf
    <3> QED
      BY <2>1, <3>2, PlanCovers
  <2>3. ASSUME NEW u \in ConcernedBy(q.input) PROVE \E i \in rows : inbox[i].user = u
    <3>1. IsTold(q.input, u)
      BY <2>1, PlanCovers
    <3>2. PICK n \in 1..Len(Plan(q.input)) : Notifies(StepOf(q, n)) /\ u \in Recipients(StepOf(q, n))
      BY <3>1 DEF IsTold, StepOf
    <3>3. HasRow(c, n, u)
      BY <3>2 DEF Inv, ServedHaveRows, HasServed
    <3> QED
      BY <3>3 DEF HasRow
  <2>4. \A i \in rows : delivery[i].state # "none"
    BY DEF Inv, RowsAreQueued
  <2> QED
    BY <2>2, <2>3, <2>4
<1> QED
  BY InvInit, InvStep, <1>1, PTL DEF Spec

\* What a step does to the rows that are there, and to the markRead requests.
LEMMA ReadingSteps ==
  ASSUME Inv, [Next]_vars
  PROVE  /\ \/ \A i \in DOMAIN inbox : inbox'[i] = inbox[i]
            \/ \E u \in Readers : MarkAllRead(u)
            \/ \E q \in reading : MarkRead(q)
         /\ \/ reading' \subseteq reading
            \/ \E u \in Readers : \E i \in RowsOf(u) : reading' = reading \cup {[user |-> u, row |-> i]}
<1>1. inbox \in Seq(Row)
  BY DEF Inv, TypeOK
<1>2. ASSUME NEW x, inbox' = Append(inbox, x) PROVE \A i \in DOMAIN inbox : inbox'[i] = inbox[i]
  BY <1>1, <1>2
<1>3. \/ UNCHANGED inbox
      \/ \E x : inbox' = Append(inbox, x)
      \/ \E u \in Readers : MarkAllRead(u)
      \/ \E q \in reading : MarkRead(q)
  BY DEF Next, vars, Commit, FanOut, Resolve, CreateRow, EnqueueDelivery, PublishOrderUpdated,
         CallThrows, RunDelivery, Deliver, DeliveryThrows, DeliveryStalls, Streaming, ListInbox,
         FindUnread
<1>4. \/ reading' \subseteq reading
      \/ \E u \in Readers : \E i \in RowsOf(u) : reading' = reading \cup {[user |-> u, row |-> i]}
  BY DEF Next, vars, Commit, FanOut, Resolve, CreateRow, EnqueueDelivery, PublishOrderUpdated,
         CallThrows, RunDelivery, Deliver, DeliveryThrows, DeliveryStalls, Streaming, ListInbox,
         FindUnread, MarkRead, MarkAllRead
<1> QED
  BY <1>2, <1>3, <1>4

\* A markRead request goes on for the user of its row.
LEMMA ReadingFitsStep ==
  ASSUME Inv, ReadingFits, [Next]_vars
  PROVE  ReadingFits'
<1>1. RowsPersist
  BY EveryStep, EveryRowPersists DEF Inv
<1>2. \A q \in reading : q.row \in DOMAIN inbox
  BY DEF Inv, TypeOK
<1>3. \A u : \A i \in RowsOf(u) : i \in DOMAIN inbox /\ inbox[i].user = u
  BY DEF RowsOf
<1> QED
  BY <1>1, <1>2, <1>3, ReadingSteps DEF ReadingFits, RowsPersist

\* Whatever requests and fan-outs are in progress, a row becomes read only for
\* the user whose row it is.
THEOREM RowsAreReadByOwners == Spec => ReadByOwner
<1>1. Init => ReadingFits
  BY DEF Init, ReadingFits
<1>2. Inv /\ ReadingFits /\ [Next]_vars
        => [\A i \in DOMAIN inbox : inbox'[i].read # inbox[i].read =>
              \/ [user |-> inbox[i].user, row |-> i] \in reading \ reading'
              \/ MarkAllRead(inbox[i].user)]_vars
  <2> SUFFICES ASSUME Inv, ReadingFits, [Next]_vars,
                      NEW i \in DOMAIN inbox, inbox'[i].read # inbox[i].read
               PROVE  \/ [user |-> inbox[i].user, row |-> i] \in reading \ reading'
                      \/ MarkAllRead(inbox[i].user)
    OBVIOUS
  <2>1. inbox \in Seq(Row) /\ reading \subseteq [user : Users, row : DOMAIN inbox]
    BY DEF Inv, TypeOK
  <2>2. CASE \E u \in Readers : MarkAllRead(u)
    BY <2>2 DEF MarkAllRead
  <2>3. CASE \E q \in reading : MarkRead(q)
    <3>1. PICK q \in reading : MarkRead(q)
      BY <2>3
    <3>2. q.row = i
      BY <2>1, <3>1 DEF MarkRead
    <3>3. q \in [user : Users, row : DOMAIN inbox] /\ inbox[q.row].user = q.user
      BY <2>1 DEF ReadingFits
    <3>4. q = [user |-> inbox[i].user, row |-> i]
      BY <3>2, <3>3
    <3> QED
      BY <3>1, <3>4 DEF MarkRead
  <2> QED
    BY <2>2, <2>3, ReadingSteps
<1> QED
  BY InvInit, InvStep, ReadingFitsStep, <1>1, <1>2, PTL DEF Spec, ReadByOwner

-----------------------------------------------------------------------------
(***************************************************************************)
(* The screens: what a client that listens and lists has been shown.      *)
(***************************************************************************)

\* A non-empty set of row ids has a greatest element.
LEMMA GreatestIndex ==
  ASSUME NEW n \in Nat, NEW S \in SUBSET (1..n), S # {}
  PROVE  \E m \in S : \A j \in S : j <= m
<1> DEFINE D == {n - s : s \in S}
<1>1. D \in SUBSET Nat /\ D # {}
  <2>1. ASSUME NEW s \in S PROVE n - s \in Nat
    <3>1. s \in 1..n
      OBVIOUS
    <3> QED
      BY <3>1
  <2> QED
    BY <2>1
<1>2. PICK d \in D : \A e \in D : d <= e
  <2> HIDE DEF D
  <2> QED
    BY <1>1, LeastNatural
<1>3. PICK m \in S : d = n - m
  BY <1>2
<1>4. ASSUME NEW j \in S PROVE j <= m
  <2>1. n - j \in D
    OBVIOUS
  <2>2. n - m <= n - j
    BY <1>2, <1>3, <2>1
  <2>3. m \in Nat /\ j \in Nat
    OBVIOUS
  <2> QED
    BY <2>2, <2>3
<1> QED
  BY <1>4

\* Subsets of a range are finite, and no larger than what contains them.
LEMMA IndexSets ==
  ASSUME NEW n \in Nat, NEW B \in SUBSET (1..n), NEW A \in SUBSET B
  PROVE  /\ Cardinality(A) \in Nat /\ Cardinality(B) \in Nat
         /\ Cardinality(A) <= Cardinality(B)
<1>1. IsFiniteSet(1..n)
  BY FS_Interval
<1>2. IsFiniteSet(B)
  BY <1>1, FS_Subset
<1>3. IsFiniteSet(A) /\ Cardinality(A) <= Cardinality(B)
  BY <1>2, FS_Subset
<1> QED
  BY <1>2, <1>3, FS_CardinalityType

\* Of the ids above i, at least k are among the k greatest, if there are as many.
LEMMA NewestAreEnough ==
  ASSUME NEW n \in Nat, NEW k \in Nat, NEW S \in SUBSET (1..n), NEW i \in S,
         Cardinality({j \in S : j > i}) >= k
  PROVE  Cardinality({j \in {h \in S : Cardinality({m \in S : m > h}) < k} : j > i}) >= k
<1> DEFINE Above(h) == {m \in S : m > h}
           T == {h \in S : Cardinality(Above(h)) < k}
           New == {j \in T : j > i}
           Old == Above(i) \ New
<1>1. New \in SUBSET (1..n) /\ Old \in SUBSET (1..n) /\ New \subseteq Above(i)
  OBVIOUS
<1>2. CASE Old = {}
  <2>1. New = Above(i)
    BY <1>1, <1>2
  <2> QED
    BY <2>1
<1>3. CASE Old # {}
  <2>1. PICK m \in Old : \A j \in Old : j <= m
    <3> HIDE DEF Old
    <3> QED
      BY <1>1, <1>3, GreatestIndex
  <2>2. m \in S /\ m > i /\ ~(Cardinality(Above(m)) < k)
    BY <2>1
  <2>3. Above(m) \subseteq New
    <3> SUFFICES ASSUME NEW j \in Above(m) PROVE j \in New
      OBVIOUS
    <3>1. j \in S /\ j > m /\ j \in Nat /\ m \in Nat /\ i \in Nat
      BY <2>2
    <3>2. j \in Above(i) /\ j \notin Old
      <4>1. ~(j <= m) /\ j > i
        BY <2>2, <3>1
      <4> HIDE DEF Old
      <4> QED
        BY <2>1, <3>1, <4>1
    <3> QED
      BY <3>2
  <2>4. /\ Cardinality(Above(m)) \in Nat /\ Cardinality(New) \in Nat
        /\ Cardinality(Above(m)) <= Cardinality(New)
    <3> HIDE DEF Above, New
    <3> QED
      BY <1>1, <2>3, IndexSets
  <2>5. Cardinality(New) >= k
    <3> HIDE DEF Above, New
    <3> QED
      BY <2>2, <2>4
  <2> QED
    BY <2>5
<1> QED
  BY <1>2, <1>3

\* A change of the kind i is one that concerns user u.
OfConcern(i, u) ==
  \/ u \in MerchantUsers \cup OpsUsers
  \/ u \in DriverUsers /\ i.driven

\* The plan of a change reaches every active user whom it concerns, by a row
\* or by the broadcast.
LEMMA PlanReaches ==
  ASSUME NEW i \in Input, NEW u \in ActiveUsers, OfConcern(i, u)
  PROVE  \E n \in 1..Len(Plan(i)) : u \in Recipients(Plan(i)[n])
<1> DEFINE told(groups) == ActiveUsers \cap UNION {UsersOf(g) : g \in groups}
<1>1. u # NoUser
  BY RealtimeAssumption
<1>2. ASSUME NEW s, s.except = NoUser, u \in told(s.groups)
      PROVE  u \in Recipients(s)
  BY <1>1, <1>2 DEF Recipients
<1>3. u \in MerchantUsers \cup OpsUsers => u \in told({"merchant", "ops"}) /\ u \in told(Group)
  BY UsersOfGroup DEF Group
<1>4. u \in DriverUsers => u \in told(Group)
  BY UsersOfGroup DEF Group
<1>5. ASSUME NEW groups
      PROVE  Broadcast(groups).except = NoUser /\ Broadcast(groups).groups = groups
  BY DEF Broadcast
<1>6. Notify(Office, NoUser).except = NoUser /\ Notify(Office, NoUser).groups = {"merchant", "ops"}
  BY DEF Notify, Office
<1>7. u \in told(Stakeholders(i)) /\ (i.kind = "unfunded" => u \in told({"merchant", "ops"}))
  <2>1. CASE u \in MerchantUsers \cup OpsUsers
    BY <1>3, <2>1 DEF Stakeholders, Office
  <2>2. CASE u \in DriverUsers /\ i.driven
    BY <1>4, <2>2 DEF Stakeholders, Input
  <2> QED
    BY <2>1, <2>2 DEF OfConcern
<1> HIDE DEF told
<1>8. CASE i.kind = "matching"
  <2>1. Plan(i) = <<Broadcast(Stakeholders(i))>> /\ u \in Recipients(Broadcast(Stakeholders(i)))
    BY <1>2, <1>5, <1>7, <1>8, PlanOf, PlansAsTuples
  <2> QED
    BY <2>1
<1>9. CASE i.kind = "unmatched"
  <2>1. Plan(i) = <<Notify(Office, NoUser), Broadcast(Stakeholders(i))>>
        /\ u \in Recipients(Broadcast(Stakeholders(i)))
    BY <1>2, <1>5, <1>7, <1>9, PlanOf, PlansAsTuples
  <2> QED
    BY <2>1
<1>10. CASE i.kind = "unfunded"
  <2>1. Plan(i) = <<Notify(Office, NoUser)>> /\ u \in Recipients(Notify(Office, NoUser))
    BY <1>2, <1>6, <1>7, <1>10, PlanOf, PlansAsTuples
  <2> QED
    BY <2>1
<1>11. CASE i.kind = "assigned"
  <2>1. Plan(i) = <<Notify({"driver"}, NoUser), Notify(Office, NoUser), Broadcast(Group)>>
        /\ u \in Recipients(Broadcast(Group))
    BY <1>2, <1>3, <1>4, <1>5, <1>11, PlanOf, PlansAsTuples DEF OfConcern
  <2> QED
    BY <2>1
<1>12. CASE i.kind = "advance"
  <2>1. Plan(i) = <<Notify(Group, i.actor), Broadcast(Group)>>
        /\ u \in Recipients(Broadcast(Group))
    BY <1>2, <1>3, <1>4, <1>5, <1>12, PlanOf, PlansAsTuples DEF OfConcern
  <2> QED
    BY <2>1
<1>13. CASE i.kind = "photo"
  <2>1. Plan(i) = <<Broadcast(Group),
                    Notify(IF i.actor \in DriverUsers THEN Office ELSE Group, i.actor)>>
        /\ u \in Recipients(Broadcast(Group))
    BY <1>2, <1>3, <1>4, <1>5, <1>13, PlanOf, PlansAsTuples DEF OfConcern
  <2> QED
    BY <2>1
<1> QED
  BY <1>8, <1>9, <1>10, <1>11, <1>12, <1>13 DEF Input

-----------------------------------------------------------------------------
\* In a step, tab t hears an event that carries ids.
Heard(t, ids) ==
  /\ tab'[t].user = tab[t].user /\ tab'[t].phase = tab[t].phase /\ tab'[t].listed = tab[t].listed
  /\ tab'[t].known = tab[t].known \cup ids /\ tab'[t].heard = version

\* In a step, tab t lists the inbox.
Listed(t) ==
  /\ UNCHANGED <<version, inbox, delivery>>
  /\ tab'[t].user = tab[t].user /\ tab'[t].phase = tab[t].phase
  /\ tab'[t].listed = (tab[t].phase = "open")
  /\ tab'[t].known = tab[t].known \cup ListForUser(tab[t].user) /\ tab'[t].heard = version

\* In a step, the stream of tab t is opened, becomes active or is closed.
Turned(t) ==
  /\ ~tab'[t].listed /\ tab'[t].known \subseteq tab[t].known
  /\ \/ tab'[t].phase = "closed"
     \/ tab'[t].user \in ActiveUsers
     \/ tab'[t].user = tab[t].user /\ tab[t].phase # "closed"

\* An event reaches the listed tabs of its user, and no other tab.
LEMMA PublishedToTabs ==
  ASSUME RealtimeTypeOK, NEW u, NEW ids, NEW v, PublishToUser(u, ids, v), NEW t \in Tabs
  PROVE  IF Hears(t, u)
         THEN /\ tab'[t].user = tab[t].user /\ tab'[t].phase = tab[t].phase
              /\ tab'[t].listed = tab[t].listed
              /\ tab'[t].known = tab[t].known \cup ids /\ tab'[t].heard = v
         ELSE tab'[t] = tab[t]
<1> DEFINE known == tab[t].known \cup ids
           x == [tab[t] EXCEPT !.known = known, !.heard = v]
<1>1. tab[t] \in Tab
  BY DEF RealtimeTypeOK
<1>2. tab'[t] = IF Hears(t, u) THEN x ELSE tab[t]
  BY DEF PublishToUser
<1> HIDE DEF known
<1>3. /\ x.user = tab[t].user /\ x.phase = tab[t].phase /\ x.listed = tab[t].listed
      /\ x.known = known /\ x.heard = v
  BY <1>1 DEF Tab
<1> HIDE DEF x
<1> QED
  BY <1>2, <1>3 DEF known

\* A step that opens or closes streams, or lists an inbox.
LEMMA StreamTurned ==
  ASSUME Inv, TabsFit, NEW s \in Tabs, Streaming(s) \/ ListInbox(s), NEW t \in Tabs
  PROVE  tab'[t] = tab[t] \/ Listed(t) \/ Turned(t)
<1>1. tab \in [Tabs -> Tab] /\ tab[s] \in Tab
  BY DEF Inv, TypeOK, RealtimeTypeOK
<1>2. CASE s # t
  <2>1. \E x : tab' = [tab EXCEPT ![s] = x]
    BY <1>1 DEF Streaming, ListInbox, StreamForUser, SubscriptionActive, TearDown
  <2> QED
    BY <1>1, <1>2, <2>1
<1>3. CASE s = t
  <2>1. ASSUME NEW u \in ActiveUsers, StreamForUser(t, u) PROVE Turned(t)
    <3> DEFINE x == [ClosedTab EXCEPT !.user = u, !.phase = "connecting"]
    <3>1. tab'[t] = x
      BY <1>1, <2>1 DEF StreamForUser
    <3>2. x.user = u /\ ~x.listed /\ x.known = {}
      BY DEF ClosedTab
    <3> HIDE DEF x
    <3> QED
      BY <3>1, <3>2 DEF Turned
  <2>2. ASSUME SubscriptionActive(t) PROVE Turned(t)
    <3> DEFINE x == [tab[t] EXCEPT !.phase = "open"]
    <3>1. tab'[t] = x /\ tab[t].phase = "connecting"
      BY <1>1, <2>2 DEF SubscriptionActive
    <3>2. x.user = tab[t].user /\ x.listed = tab[t].listed /\ x.known = tab[t].known
      BY <1>1, <1>3 DEF Tab
    <3>3. ~tab[t].listed
      BY <3>1 DEF TabsFit
    <3> HIDE DEF x
    <3> QED
      BY <3>1, <3>2, <3>3 DEF Turned
  <2>3. ASSUME TearDown(t) PROVE Turned(t)
    <3>1. tab'[t] = ClosedTab
      BY <1>1, <2>3 DEF TearDown
    <3> QED
      BY <3>1 DEF ClosedTab, Turned
  <2>4. ASSUME ListInbox(t) PROVE Listed(t)
    <3> DEFINE known == tab[t].known \cup ListForUser(tab[t].user)
               listed == tab[t].phase = "open"
               x == [tab[t] EXCEPT !.known = known, !.heard = version, !.listed = listed]
    <3>1. tab'[t] = x /\ UNCHANGED <<version, inbox, delivery>>
      BY <1>1, <2>4 DEF ListInbox
    <3> HIDE DEF known, listed
    <3>2. /\ x.user = tab[t].user /\ x.phase = tab[t].phase /\ x.listed = listed
          /\ x.known = known /\ x.heard = version
      BY <1>1, <1>3 DEF Tab
    <3> HIDE DEF x
    <3> QED
      BY <3>1, <3>2 DEF Listed, known, listed
  <2> QED
    BY <1>3, <2>1, <2>2, <2>3, <2>4 DEF Streaming
<1> QED
  BY <1>2, <1>3

\* What a step does to a tab.
LEMMA TabSteps ==
  ASSUME Inv, TabsFit, [Next]_vars, NEW t \in Tabs
  PROVE  \/ tab'[t] = tab[t]
         \/ \E ids \in SUBSET DOMAIN inbox : Heard(t, ids)
         \/ Listed(t)
         \/ Turned(t)
<1>1. \/ UNCHANGED tab
      \/ \E u : PublishToUser(u, {}, version)
      \/ \E i \in DOMAIN inbox : PublishToUser(inbox[i].user, {i}, version)
      \/ \E s \in Tabs : Streaming(s) \/ ListInbox(s)
  BY DEF Next, vars, Commit, FanOut, Resolve, CreateRow, EnqueueDelivery, PublishOrderUpdated,
         CallThrows, RunDelivery, Deliver, DeliveryThrows, DeliveryStalls, Publishes,
         FindUnread, MarkRead, MarkAllRead
<1>2. RealtimeTypeOK
  BY DEF Inv, TypeOK
<1>3. ASSUME NEW u, NEW ids \in SUBSET DOMAIN inbox, PublishToUser(u, ids, version)
      PROVE  tab'[t] = tab[t] \/ Heard(t, ids)
  BY <1>2, <1>3, PublishedToTabs DEF Heard
<1>4. {} \in SUBSET DOMAIN inbox /\ \A i \in DOMAIN inbox : {i} \in SUBSET DOMAIN inbox
  OBVIOUS
<1> QED
  BY <1>1, <1>3, <1>4, StreamTurned

\* Tabs know rows that exist, of active users, and are listed while they are open.
LEMMA TabsFitStep ==
  ASSUME Inv, TabsFit, [Next]_vars
  PROVE  TabsFit'
<1>1. DOMAIN inbox \subseteq DOMAIN inbox'
  BY EveryStep, EveryRowPersists DEF Inv, RowsPersist
<1>2. \A u : ListForUser(u) \subseteq DOMAIN inbox
  BY DEF ListForUser, RowsOf
<1>3. ASSUME NEW t \in Tabs
      PROVE  /\ tab'[t].known \subseteq DOMAIN inbox'
             /\ tab'[t].phase # "closed" => tab'[t].user \in ActiveUsers
             /\ tab'[t].listed => tab'[t].phase = "open"
  <2>1. /\ tab[t].known \subseteq DOMAIN inbox
        /\ tab[t].phase # "closed" => tab[t].user \in ActiveUsers
        /\ tab[t].listed => tab[t].phase = "open"
    BY DEF TabsFit
  <2>2. CASE tab'[t] = tab[t]
    BY <1>1, <2>1, <2>2
  <2>3. CASE \E ids \in SUBSET DOMAIN inbox : Heard(t, ids)
    BY <1>1, <2>1, <2>3 DEF Heard
  <2>4. CASE Listed(t)
    BY <1>1, <1>2, <2>1, <2>4 DEF Listed
  <2>5. CASE Turned(t)
    BY <1>1, <2>1, <2>5 DEF Turned
  <2> QED
    BY <2>2, <2>3, <2>4, <2>5, TabSteps
<1> QED
  BY <1>3 DEF TabsFit

\* A row's job is done only by a run that publishes the row.
LEMMA SentByDeliver ==
  ASSUME Inv, [Next]_vars, NEW i \in DOMAIN inbox', delivery'[i].state = "sent"
  PROVE  /\ i \in DOMAIN inbox
         /\ delivery[i].state = "sent" \/ Deliver(i)
<1>1. /\ inbox \in Seq(Row) /\ delivery \in Seq(Delivery) /\ Len(delivery) = Len(inbox)
      /\ DOMAIN delivery = DOMAIN inbox
  BY DEF Inv, TypeOK, RowsAreQueued
<1> DEFINE Kept == Len(inbox') = Len(inbox) /\ inbox' \in Seq(Row)
<1>2. ASSUME Kept, UNCHANGED delivery PROVE i \in DOMAIN inbox /\ delivery[i].state = "sent"
  BY <1>1, <1>2
<1>3. ASSUME Kept, NEW j \in DOMAIN inbox, NEW x, x.state # "sent",
             delivery' = [delivery EXCEPT ![j] = x]
      PROVE  i \in DOMAIN inbox /\ delivery[i].state = "sent"
  <2>1. i \in DOMAIN inbox /\ i \in DOMAIN delivery /\ j \in DOMAIN delivery
    BY <1>1, <1>3
  <2>2. i # j
    BY <1>3, <2>1
  <2> QED
    BY <1>3, <2>1, <2>2
<1>4. CASE \E c \in Calls : (\E k \in Input : Commit(c, k)) \/ FanOut(c) \/ CallThrows(c)
  <2>1. PICK c \in Calls : (\E k \in Input : Commit(c, k)) \/ FanOut(c) \/ CallThrows(c)
    BY <1>4
  <2>2. CASE CreateRow(c)
    <3>1. /\ inbox' \in Seq(Row) /\ Len(inbox') = Len(inbox) + 1
          /\ delivery' = Append(delivery, NoDelivery)
      <4>1. CallStep(c)
        BY <1>1, <2>2, CreateRowStep DEF Inv
      <4>2. call[c] \in Call /\ call \in [Calls -> Call]
        BY DEF Inv, TypeOK
      <4>3. call[c].state = "create" /\ call'[c].state = "enqueue"
        BY <2>2, <4>2 DEF CreateRow, Call
      <4>4. \E u \in call[c].todo : RowAdded(c, u)
        BY <4>1, <4>3 DEF CallStep, Starts, Looks, Broadcasts, Throws, Enqueues
      <4> QED
        BY <2>2, <4>4 DEF RowAdded, CreateRow
    <3>2. i \in 1..(Len(delivery) + 1)
      BY <1>1, <3>1
    <3>3. i # Len(delivery) + 1
      BY <1>1, <3>1 DEF NoDelivery
    <3> QED
      BY <1>1, <3>1, <3>2, <3>3
  <2>3. CASE EnqueueDelivery(c)
    <3> DEFINE x == [delivery[call[c].row] EXCEPT !.state = "queued"]
    <3>1. call[c].row \in DOMAIN inbox /\ Kept
      BY <1>1, <2>3 DEF EnqueueDelivery, Inv, CallsFit
    <3>2. delivery' = [delivery EXCEPT ![call[c].row] = x]
      BY <2>3 DEF EnqueueDelivery
    <3>3. delivery[call[c].row] \in Delivery
      BY <1>1, <3>1
    <3>4. x.state # "sent"
      BY <3>3 DEF Delivery
    <3> HIDE DEF x, Kept
    <3> QED
      BY <1>3, <3>1, <3>2, <3>4
  <2>4. CASE ~CreateRow(c) /\ ~EnqueueDelivery(c)
    BY <1>1, <1>2, <2>1, <2>4 DEF Commit, FanOut, Resolve, PublishOrderUpdated, CallThrows
  <2> QED
    BY <2>2, <2>3, <2>4
<1>5. CASE \E j \in DOMAIN inbox : RunDelivery(j)
  <2>1. PICK j \in DOMAIN inbox : RunDelivery(j)
    BY <1>5
  <2>2. Kept /\ delivery[j].state = "queued" /\ delivery[j] \in Delivery
    BY <1>1, <2>1 DEF RunDelivery, Deliver, DeliveryThrows, DeliveryStalls
  <2>3. CASE Deliver(j)
    <3>1. i \in DOMAIN inbox /\ i \in DOMAIN delivery /\ j \in DOMAIN delivery
      BY <1>1, <2>2
    <3>2. i # j => delivery'[i] = delivery[i]
      BY <2>3, <3>1 DEF Deliver
    <3> QED
      BY <2>3, <3>1, <3>2
  <2>4. CASE ~Deliver(j)
    <3> DEFINE failed == [NoDelivery EXCEPT !.state = "failed"]
               tried == [delivery[j] EXCEPT !.attempts = @ + 1]
               stalled == [delivery[j] EXCEPT !.stalls = @ + 1]
    <3>1. failed.state # "sent" /\ tried.state # "sent" /\ stalled.state # "sent"
      BY <2>2 DEF NoDelivery, Delivery
    <3>2. \/ delivery' = [delivery EXCEPT ![j] = IF delivery[j].attempts + 1 < MaxAttempts
                                                 THEN tried ELSE failed]
          \/ delivery' = [delivery EXCEPT ![j] = IF delivery[j].stalls < MaxStalled
                                                 THEN stalled ELSE failed]
      BY <2>1, <2>4, Zenon DEF RunDelivery, DeliveryThrows, DeliveryStalls
    <3> HIDE DEF failed, tried, stalled, Kept
    <3>3. \E x : x.state # "sent" /\ delivery' = [delivery EXCEPT ![j] = x]
      BY <3>1, <3>2
    <3> QED
      BY <1>3, <2>2, <3>3
  <2> QED
    BY <2>3, <2>4
<1>6. CASE \E q \in reading : MarkRead(q)
  <2>1. RowsKept /\ UNCHANGED delivery
    BY <1>6, MarkReadStep DEF Inv, MarkRead
  <2> QED
    BY <1>2, <2>1 DEF RowsKept
<1>7. CASE \E u \in Readers : MarkAllRead(u) \/ \E k \in DOMAIN inbox : FindUnread(u, k)
  <2>1. RowsKept /\ UNCHANGED delivery
    BY <1>1, <1>7, MarkAllReadStep, NothingQueued DEF Inv, MarkAllRead, FindUnread
  <2> QED
    BY <1>2, <2>1 DEF RowsKept
<1>8. CASE UNCHANGED <<inbox, delivery>>
  BY <1>1, <1>2, <1>8
<1> QED
  BY <1>4, <1>5, <1>6, <1>7, <1>8 DEF Next, vars, Streaming, ListInbox

\* A listed tab whose user's row is published in a step hears it.
LEMMA DeliveredIsHeard ==
  ASSUME Inv, TabsFit, NEW i \in DOMAIN inbox, Deliver(i), NEW t \in Tabs,
         tab[t].listed, tab[t].user = inbox[i].user
  PROVE  Heard(t, {i})
<1>1. RealtimeTypeOK /\ PublishToUser(inbox[i].user, {i}, version) /\ Hears(t, inbox[i].user)
  BY DEF Inv, TypeOK, Deliver, Publishes, TabsFit, Hears
<1> QED
  BY <1>1, PublishedToTabs DEF Heard

\* A tab that has just listed its inbox misses only rows behind newer ones.
LEMMA ListReaches ==
  ASSUME Inv, TabsFit, NEW t \in Tabs, Listed(t), NEW i \in RowsOf(tab[t].user)
  PROVE  \/ i \in tab'[t].known
         \/ Cardinality({j \in tab'[t].known : j > i}) >= ListLimit
<1> DEFINE S == RowsOf(tab[t].user)
           Newest == {h \in S : Cardinality({m \in S : m > h}) < ListLimit}
           Shown == {j \in Newest : j > i}
           Known == {j \in tab'[t].known : j > i}
<1>1. /\ Len(inbox) \in Nat /\ DOMAIN inbox = 1..Len(inbox) /\ ListLimit \in Nat
      /\ S \in SUBSET (1..Len(inbox)) /\ i \in S
  BY NotificationsAssumption DEF Inv, TypeOK, RowsOf
<1>2. tab'[t].known = tab[t].known \cup Newest /\ tab[t].known \subseteq 1..Len(inbox)
  BY <1>1 DEF Listed, ListForUser, TabsFit
<1>3. CASE i \in Newest
  BY <1>2, <1>3
<1>4. CASE i \notin Newest
  <2> HIDE DEF S
  <2>1. {m \in S : m > i} \in SUBSET (1..Len(inbox))
    BY <1>1
  <2>2. Cardinality({m \in S : m > i}) \in Nat
    BY <1>1, <2>1, IndexSets
  <2>3. Cardinality({m \in S : m > i}) >= ListLimit
    BY <1>1, <1>4, <2>2
  <2>4. Cardinality(Shown) >= ListLimit
    BY <1>1, <2>3, NewestAreEnough
  <2>5. Known \in SUBSET (1..Len(inbox)) /\ Shown \in SUBSET Known
    BY <1>1, <1>2
  <2> HIDE DEF Shown, Known
  <2>6. /\ Cardinality(Shown) \in Nat /\ Cardinality(Known) \in Nat
        /\ Cardinality(Shown) <= Cardinality(Known)
    BY <1>1, <2>5, IndexSets
  <2>7. Cardinality(Known) >= ListLimit
    BY <1>1, <2>4, <2>6
  <2> QED
    BY <2>7 DEF Known
<1> QED
  BY <1>3, <1>4

\* Listed tabs miss nothing.
LEMMA ListedTabStep ==
  ASSUME Inv, TabsFit, ListedTabMissesNothing, [Next]_vars
  PROVE  ListedTabMissesNothing'
<1> SUFFICES ASSUME NEW t \in Tabs, tab'[t].listed,
                    NEW i \in DOMAIN inbox', inbox'[i].user = tab'[t].user,
                    delivery'[i].state = "sent"
             PROVE  \/ i \in tab'[t].known
                    \/ Cardinality({j \in tab'[t].known : j > i}) >= ListLimit
  BY DEF ListedTabMissesNothing, RowsOf
<1>1. RowsPersist
  BY EveryStep, EveryRowPersists DEF Inv
<1>2. i \in DOMAIN inbox /\ (delivery[i].state = "sent" \/ Deliver(i))
  BY SentByDeliver
<1>3. inbox[i].user = tab'[t].user
  BY <1>1, <1>2 DEF RowsPersist
<1>4. CASE Listed(t)
  <2>1. i \in RowsOf(tab[t].user)
    BY <1>2, <1>3, <1>4 DEF Listed, RowsOf
  <2> QED
    BY <1>4, <2>1, ListReaches
<1>5. CASE tab'[t] = tab[t] \/ \E ids \in SUBSET DOMAIN inbox : Heard(t, ids)
  <2>1. /\ tab[t].listed /\ tab'[t].user = tab[t].user /\ tab[t].known \subseteq tab'[t].known
        /\ i \in RowsOf(tab[t].user)
    BY <1>2, <1>3, <1>5 DEF Heard, RowsOf
  <2>2. CASE Deliver(i)
    BY <1>2, <1>3, <2>1, <2>2, DeliveredIsHeard DEF Heard
  <2>3. CASE delivery[i].state = "sent"
    <3>1. i \in tab[t].known \/ Cardinality({j \in tab[t].known : j > i}) >= ListLimit
      BY <2>1, <2>3 DEF ListedTabMissesNothing
    <3> DEFINE A == {j \in tab[t].known : j > i}
               B == {j \in tab'[t].known : j > i}
               n == Len(inbox')
    <3>2. /\ n \in Nat /\ DOMAIN inbox' = 1..n /\ ListLimit \in Nat
      BY <1>1, NotificationsAssumption DEF RowsPersist
    <3>3. B \in SUBSET (1..n) /\ A \in SUBSET B
      BY <2>1, <3>2, TabsFitStep DEF TabsFit
    <3> HIDE DEF A, B, n
    <3>4. Cardinality(A) \in Nat /\ Cardinality(B) \in Nat /\ Cardinality(A) <= Cardinality(B)
      BY <3>2, <3>3, IndexSets
    <3>5. Cardinality(A) >= ListLimit => Cardinality(B) >= ListLimit
      BY <3>2, <3>4
    <3> QED
      BY <2>1, <3>1, <3>5 DEF A, B
  <2> QED
    BY <1>2, <2>2, <2>3
<1> QED
  BY <1>4, <1>5, TabSteps DEF Turned

-----------------------------------------------------------------------------
\* A call in state q serves user v, and is then in state r.
Serves(q, r, v) ==
  /\ q.state \in {"enqueue", "publish"} /\ v \in q.todo
  /\ \/ q.todo \subseteq {v} /\ GoesOn(q, r)
     \/ /\ r.input = q.input /\ r.at = q.at /\ r.todo = q.todo \ {v}
        /\ r.state \in {"create", "publish"}

\* Whoever a call has still to tell, it has still to tell when it has served
\* somebody else.
LEMMA ServedLeavesOthers ==
  ASSUME NEW q, NEW r, NEW u, NEW v, v # u, Serves(q, r, v), StillTells(q, u),
         q.at \in Nat, Len(Plan(q.input)) \in Nat
  PROVE  StillTells(r, u)
<1>1. PICK n \in q.at..Len(Plan(q.input)) :
        u \in Recipients(StepOf(q, n)) /\ (n = q.at /\ q.state # "resolve" => u \in q.todo)
  BY DEF StillTells
<1>2. q.state # "resolve"
  BY DEF Serves
<1>3. CASE q.todo \subseteq {v} /\ GoesOn(q, r)
  <2>1. n # q.at
    BY <1>1, <1>2, <1>3
  <2>2. q.at # Len(Plan(q.input)) /\ n \in q.at + 1..Len(Plan(q.input))
    BY <1>1, <2>1
  <2>3. r.state = "resolve" /\ r.at = q.at + 1 /\ r.input = q.input
    BY <1>3, <2>2 DEF GoesOn
  <2> QED
    BY <1>1, <2>2, <2>3 DEF StillTells, StepOf
<1>4. CASE r.input = q.input /\ r.at = q.at /\ r.todo = q.todo \ {v} /\ r.state \in {"create", "publish"}
  <2>1. n = r.at => u \in r.todo
    BY <1>1, <1>2, <1>4
  <2> QED
    BY <1>1, <1>4, <2>1 DEF StillTells, StepOf
<1> QED
  BY <1>3, <1>4 DEF Serves

\* Whoever a call has still to tell, it has still to tell when it has looked
\* up the recipients of a step.
LEMMA LookingLeavesAll ==
  ASSUME NEW q, NEW r, NEW u, Looks(q, r), StillTells(q, u),
         q.at \in Nat, Len(Plan(q.input)) \in Nat
  PROVE  StillTells(r, u)
<1>1. PICK n \in q.at..Len(Plan(q.input)) : u \in Recipients(StepOf(q, n))
  BY DEF StillTells
<1>2. CASE Recipients(StepOf(q, q.at)) = {}
  <2>1. n # q.at
    BY <1>1, <1>2
  <2>2. CASE GoesOn(q, r)
    <3>1. q.at # Len(Plan(q.input)) /\ n \in q.at + 1..Len(Plan(q.input))
      BY <1>1, <2>1
    <3>2. r.state = "resolve" /\ r.at = q.at + 1 /\ r.input = q.input
      BY <2>2, <3>1 DEF GoesOn
    <3> QED
      BY <1>1, <3>1, <3>2 DEF StillTells, StepOf
  <2>3. CASE ~GoesOn(q, r)
    <3>1. r.input = q.input /\ r.at = q.at /\ r.state \in {"create", "publish"}
      BY <2>3 DEF Looks
    <3> QED
      BY <1>1, <2>1, <3>1 DEF StillTells, StepOf
  <2> QED
    BY <2>2, <2>3
<1>3. CASE Recipients(StepOf(q, q.at)) # {}
  <2>1. /\ r.input = q.input /\ r.at = q.at /\ r.state \in {"create", "publish"}
        /\ r.todo = Recipients(StepOf(q, q.at))
    BY <1>3 DEF Looks, GoesOn
  <2>2. n = r.at => u \in r.todo
    BY <1>1, <2>1
  <2> QED
    BY <1>1, <2>1, <2>2 DEF StillTells, StepOf
<1> QED
  BY <1>2, <1>3

\* A step of a call leaves its news for user u owed, unless it publishes them.
LEMMA CallLeavesOwed ==
  ASSUME Inv, [Next]_vars, NEW c \in Calls, NEW u, StillTells(call[c], u),
         ~PublishToUser(u, {}, version)
  PROVE  \/ call'[c].state = "failed"
         \/ StillTells(call'[c], u)
         \/ \E i \in DOMAIN inbox : inbox[i].user = u /\ delivery'[i].state # "sent"
<1> DEFINE q == call[c]  r == call'[c]
           Goal == \/ r.state = "failed" \/ StillTells(r, u)
                   \/ \E i \in DOMAIN inbox : inbox[i].user = u /\ delivery'[i].state # "sent"
<1>1. /\ call \in [Calls -> Call] /\ q \in Call /\ delivery \in Seq(Delivery)
      /\ q.state \notin {"idle", "done", "failed"}
  BY DEF Inv, TypeOK, StillTells
<1>2. q.at \in Nat /\ Len(Plan(q.input)) \in Nat
  BY <1>1, PlanFacts DEF Inv, CallsFit
<1>3. CASE \E d \in Calls : (\E k \in Input : Commit(d, k)) \/ FanOut(d) \/ CallThrows(d)
  <2>1. PICK d \in Calls : (\E k \in Input : Commit(d, k)) \/ FanOut(d) \/ CallThrows(d)
    BY <1>3
  <2>2. EnqueueDelivery(d) => call[d].row \in DOMAIN inbox
    BY DEF EnqueueDelivery, Inv, CallsFit
  <2>3. CallStep(d)
    BY <2>1, <2>2, CommitStep, ResolveStep, CreateRowStep, EnqueueDeliveryStep,
       PublishOrderUpdatedStep, CallThrowsStep DEF FanOut, Inv, RowsAreQueued
  <2>4. CASE d # c
    BY <2>3, <2>4 DEF CallStep
  <2>5. CASE d = c
    <3>1. ~\E k \in Input : Commit(c, k)
      BY <1>1 DEF Commit
    <3>2. ASSUME Resolve(c) PROVE Goal
      <4>1. q.state = "resolve"
        BY <3>2 DEF Resolve
      <4>2. Looks(q, r) \/ Throws(q, r)
        BY <2>3, <2>5, <4>1 DEF CallStep, Starts, Broadcasts, Creates, Enqueues
      <4> QED
        BY <1>2, <4>2, LookingLeavesAll DEF Throws
    <3>3. ASSUME CreateRow(c) PROVE Goal
      <4>1. r.state = "enqueue" /\ q.state = "create" /\ r.input = q.input /\ r.at = q.at
            /\ r.todo = q.todo
        BY <1>1, <3>3 DEF CreateRow, Call
      <4> QED
        BY <4>1 DEF StillTells, StepOf
    <3>4. ASSUME EnqueueDelivery(c) PROVE Goal
      <4> DEFINE i == q.row
      <4>1. i \in DOMAIN inbox /\ i \in DOMAIN delivery /\ inbox[i].user \in q.todo
        BY <3>4 DEF EnqueueDelivery, Inv, CallsFit, RowsAreQueued, TypeOK
      <4>2. CASE inbox[i].user = u
        <5>1. delivery[i] \in Delivery
          BY <1>1, <4>1
        <5>2. delivery'[i].state = "queued"
          BY <3>4, <4>1, <5>1 DEF EnqueueDelivery, Delivery
        <5> QED
          BY <4>1, <4>2, <5>2
      <4>3. CASE inbox[i].user # u
        <5>1. q.state = "enqueue" /\ r = Served(q, inbox[i].user, "create")
          BY <1>1, <3>4 DEF EnqueueDelivery
        <5>2. "create" \in CallState
          BY DEF CallState
        <5>3. Serves(q, r, inbox[i].user)
          BY <1>1, <4>1, <5>1, <5>2, ServedIs DEF Serves
        <5> QED
          BY <1>2, <4>3, <5>3, ServedLeavesOthers
      <4> QED
        BY <4>2, <4>3
    <3>5. ASSUME PublishOrderUpdated(c) PROVE Goal
      <4>1. PICK v \in Foremost(q.todo) :
              PublishToUser(v, {}, version) /\ call' = [call EXCEPT ![c] = Served(q, v, "publish")]
        BY <3>5 DEF PublishOrderUpdated
      <4>2. v \in q.todo /\ v # u /\ q.state = "publish" /\ r = Served(q, v, "publish")
        BY <1>1, <3>5, <4>1 DEF PublishOrderUpdated, Foremost
      <4>3. "publish" \in CallState
        BY DEF CallState
      <4>4. Serves(q, r, v)
        BY <1>1, <4>2, <4>3, ServedIs DEF Serves
      <4> QED
        BY <1>2, <4>2, <4>4, ServedLeavesOthers
    <3>6. ASSUME CallThrows(c) PROVE Goal
      BY <1>1, <3>6 DEF CallThrows, Call
    <3> QED
      BY <2>1, <2>5, <3>1, <3>2, <3>3, <3>4, <3>5, <3>6 DEF FanOut
  <2> QED
    BY <2>4, <2>5
<1>4. CASE UNCHANGED call
  BY <1>4
<1> QED
  BY <1>3, <1>4 DEF Next, vars, RunDelivery, Deliver, DeliveryThrows, DeliveryStalls, Streaming,
     ListInbox, MarkAllRead, FindUnread, MarkRead

\* What concerned a user does so no more only by a change that does not concern him.
LEMMA ConcernedBefore ==
  ASSUME Inv, [Next]_vars, NEW u, Concerns(u)'
  PROVE  /\ Concerns(u)
         /\ \A c \in Calls : call'[c].state # "idle" => OfConcern(call'[c].input, u)
<1>1. ASSUME NEW c \in Calls, call[c].state # "idle"
      PROVE  call'[c].state # "idle" /\ call'[c].input = call[c].input
  <2>1. call'[c] = call[c] \/ CallStep(c)
    BY EveryStep DEF AnyStep, CallStep
  <2> QED
    BY <1>1, <2>1 DEF CallStep, Starts, Looks, Broadcasts, Throws, Creates, Enqueues, GoesOn
<1>2. \/ u \in MerchantUsers \cup OpsUsers
      \/ /\ u \in DriverUsers
         /\ \A c \in Calls : call'[c].state = "idle"
                             \/ call'[c].input.driven
  BY DEF Concerns
<1> QED
  BY <1>1, <1>2 DEF Concerns, OfConcern

\* A change that is committed in a step is owed to the active users it concerns.
LEMMA CommitOwes ==
  ASSUME Inv, NEW c \in Calls, NEW i \in Input, Commit(c, i), NEW u \in ActiveUsers, OfConcern(i, u)
  PROVE  StillTells(call'[c], u)
<1> DEFINE r == [IdleCall EXCEPT !.state = "resolve", !.input = i]
<1>1. call'[c] = r
  BY DEF Inv, TypeOK, Commit
<1>2. r.state = "resolve" /\ r.input = i /\ r.at = 1
  BY DEF IdleCall
<1>3. \E n \in 1..Len(Plan(i)) : u \in Recipients(Plan(i)[n])
  BY PlanReaches
<1> HIDE DEF r
<1> QED
  BY <1>1, <1>2, <1>3 DEF StillTells, StepOf

\* What is owed to the user of a listed tab stays so until the tab hears something.
LEMMA OwedStep ==
  ASSUME Inv, TabsFit, [Next]_vars, NEW t \in Tabs, tab[t].listed, tab'[t] = tab[t],
         tab[t].heard # version, NEW u, u = tab[t].user, Owed(u)
  PROVE  Owed(u)'
<1>1. RealtimeTypeOK /\ Hears(t, u)
  BY DEF Inv, TypeOK, TabsFit, Hears
<1>2. ASSUME NEW ids, PublishToUser(u, ids, version) PROVE FALSE
  BY <1>1, <1>2, PublishedToTabs
<1>3. RowsPersist
  BY EveryStep, EveryRowPersists DEF Inv
<1>4. ASSUME NEW c \in Calls, call[c].state = "failed" PROVE call'[c].state = "failed"
  <2>1. call'[c] = call[c] \/ CallStep(c)
    BY EveryStep DEF AnyStep, CallStep
  <2> QED
    BY <1>4, <2>1 DEF CallStep, Starts, Looks, Broadcasts, Throws, Creates, Enqueues
<1>5. ASSUME NEW i \in DOMAIN inbox, inbox[i].user = u, delivery[i].state # "sent"
      PROVE  delivery'[i].state # "sent"
  <2>1. ~Deliver(i)
    BY <1>2, <1>5 DEF Deliver, Publishes
  <2>2. i \in DOMAIN inbox'
    BY <1>3 DEF RowsPersist
  <2> QED
    BY <1>5, <2>1, <2>2, SentByDeliver
<1>6. ASSUME NEW i \in DOMAIN inbox, inbox[i].user = u, delivery'[i].state # "sent"
      PROVE  Owed(u)'
  BY <1>3, <1>6 DEF RowsPersist, RowsOf, Owed
<1>7. CASE \E c \in Calls : call[c].state = "failed"
  BY <1>4, <1>7 DEF Owed
<1>8. CASE \E i \in RowsOf(u) : delivery[i].state # "sent"
  BY <1>5, <1>6, <1>8 DEF RowsOf
<1>9. ASSUME NEW c \in Calls, StillTells(call[c], u) PROVE Owed(u)'
  <2>1. \/ call'[c].state = "failed"
        \/ StillTells(call'[c], u)
        \/ \E i \in DOMAIN inbox : inbox[i].user = u /\ delivery'[i].state # "sent"
    BY <1>2, <1>9, CallLeavesOwed
  <2> QED
    BY <1>6, <2>1 DEF Owed
<1> QED
  BY <1>7, <1>8, <1>9 DEF Owed

\* Listed tabs are behind only while news is owed.
LEMMA BehindIsOwedStep ==
  ASSUME Inv, TabsFit, BehindIsOwed, [Next]_vars
  PROVE  BehindIsOwed'
<1> SUFFICES ASSUME NEW t \in Tabs, NEW u \in Users, tab'[t].listed, tab'[t].user = u,
                    Concerns(u)', tab'[t].heard # version'
             PROVE  Owed(u)'
  BY DEF BehindIsOwed
<1>1. CASE \E c \in Calls, i \in Input : Commit(c, i)
  <2>1. PICK c \in Calls, i \in Input : Commit(c, i)
    BY <1>1
  <2>2. tab'[t] = tab[t] /\ call'[c].state = "resolve" /\ call'[c].input = i
    <3>1. call \in [Calls -> Call]
      BY DEF Inv, TypeOK
    <3> QED
      BY <2>1, <3>1 DEF Commit, IdleCall
  <2>3. u \in ActiveUsers
    BY <2>2 DEF TabsFit
  <2>4. OfConcern(i, u)
    BY <2>2, ConcernedBefore
  <2>5. StillTells(call'[c], u)
    BY <2>1, <2>3, <2>4, CommitOwes
  <2> QED
    BY <2>5 DEF Owed
<1>2. CASE ~\E c \in Calls, i \in Input : Commit(c, i)
  <2>1. version' = version
    BY <1>2 DEF Next, vars, FanOut, Resolve, CreateRow, EnqueueDelivery, PublishOrderUpdated,
           CallThrows, RunDelivery, Deliver, DeliveryThrows, DeliveryStalls, Streaming, ListInbox,
           FindUnread, MarkRead, MarkAllRead
  <2>2. tab'[t] = tab[t]
    BY <2>1, TabSteps DEF Heard, Listed, Turned
  <2>3. Concerns(u)
    BY ConcernedBefore
  <2>4. Owed(u)
    BY <2>1, <2>2, <2>3 DEF BehindIsOwed
  <2> QED
    BY <2>1, <2>2, <2>4, OwedStep
<1> QED
  BY <1>1, <1>2

\* The invariant of the screens holds initially.
LEMMA ScreenInvInit == Init => ScreenInv
<1> SUFFICES ASSUME Init PROVE ScreenInv
  OBVIOUS
<1>1. \A t \in Tabs : tab[t].known = {} /\ tab[t].phase = "closed" /\ ~tab[t].listed
  BY DEF Init, RealtimeInit, ClosedTab
<1> QED
  BY <1>1, InvInit DEF ScreenInv, TabsFit, ListedTabMissesNothing, BehindIsOwed

\* Every step keeps the invariant of the screens.
LEMMA ScreenInvStep == ScreenInv /\ [Next]_vars => ScreenInv'
BY InvStep, TabsFitStep, ListedTabStep, BehindIsOwedStep DEF ScreenInv

\* However subscriptions, listings and publications interleave, a client that
\* has listed its inbox on an active subscription has been shown every
\* published row of its user, or as many newer ones as the list holds.
THEOREM ListedTabsMissNothing == Spec => []ListedTabMissesNothing
<1>1. ScreenInv => ListedTabMissesNothing
  BY DEF ScreenInv
<1> QED
  BY ScreenInvInit, ScreenInvStep, <1>1, PTL DEF Spec

\* When all handlers have returned and all rows are published, such a client
\* has heard of the order's last change, however their fan-outs overlapped.
THEOREM QuietTabsAreInSync == Spec => []QuietMeansInSync
<1>1. ScreenInv => QuietMeansInSync
  <2> SUFFICES ASSUME ScreenInv,
                      \A c \in Calls : call[c].state \in {"idle", "done"},
                      \A i \in DOMAIN inbox : delivery[i].state = "sent",
                      NEW t \in Tabs, tab[t].listed, Concerns(tab[t].user)
               PROVE  tab[t].heard = version
    BY DEF QuietMeansInSync
  <2>1. ~Owed(tab[t].user)
    BY DEF Owed, StillTells, RowsOf
  <2>2. tab[t].user \in Users
    BY RealtimeAssumption DEF ScreenInv, TabsFit
  <2> QED
    BY <2>1, <2>2 DEF ScreenInv, BehindIsOwed
<1> QED
  BY ScreenInvInit, ScreenInvStep, <1>1, PTL DEF Spec

-----------------------------------------------------------------------------
(***************************************************************************)
(* The refinement of Mailbox.                                              *)
(***************************************************************************)

\* The letters to a user are the rows of the user.
LEMMA LettersAreRows ==
  ASSUME inbox \in Seq(Row), NEW u
  PROVE  /\ DOMAIN Written = DOMAIN inbox
         /\ Mail!LettersTo(u) = RowsOf(u)
<1>1. \A i \in DOMAIN inbox : Written[i].user = inbox[i].user
  BY DEF Written, Letter
<1>2. DOMAIN Written = DOMAIN inbox
  BY DEF Written
<1> QED
  BY <1>1, <1>2 DEF Mail!LettersTo, RowsOf

\* No plan is longer than the longest.
LEMMA PlansAreShort ==
  ASSUME NEW i \in Input
  PROVE  Len(Plan(i)) \in 1..LongestPlan
<1>1. i.kind \in Kind
  BY DEF Input, Kind
<1> QED
  BY <1>1, PlanOf, PlansAsTuples DEF LongestPlan, Kind

\* A row that is inserted is a letter that was not written before.
LEMMA CreatedRowIsPosted ==
  ASSUME Inv, NEW c \in Calls, CreateRow(c)
  PROVE  \E l \in [user : Users, call : Calls, step : 1..LongestPlan] : Mail!Post(l)
<1> DEFINE n == call[c].at
<1>1. /\ inbox \in Seq(Row) /\ call[c] \in Call /\ call[c].state = "create"
      /\ call[c].input \in Input /\ n \in 1..Len(Plan(call[c].input))
  BY DEF CreateRow, Inv, TypeOK, CallsFit
<1>2. n \in 1..LongestPlan
  <2> DEFINE m == Len(Plan(call[c].input))
  <2>1. m \in 1..LongestPlan /\ n \in 1..m
    BY <1>1, PlansAreShort
  <2> HIDE DEF n, m
  <2> QED
    BY <2>1 DEF LongestPlan
<1>3. PICK u \in Foremost(call[c].todo) :
        inbox' = Append(inbox, [user |-> u, call |-> c, step |-> n, read |-> FALSE])
  BY DEF CreateRow
<1> HIDE DEF n
<1> DEFINE r == [user |-> u, call |-> c, step |-> n, read |-> FALSE]
           l == [user |-> u, call |-> c, step |-> n]
           L == [user : Users, call : Calls, step : 1..LongestPlan]
<1>4. u \in call[c].todo /\ u \in Users
  BY <1>1, <1>3 DEF Foremost, Call
<1>5. l \in L /\ r \in Row /\ Letter(r) = l /\ ~r.read
  <2>1. n \in Nat
    BY <1>2 DEF LongestPlan
  <2>2. l \in L
    BY <1>2, <1>4
  <2>3. r \in Row
    BY <1>4, <2>1 DEF Row
  <2>4. Letter(r) = l /\ ~r.read
    BY DEF Letter
  <2> QED
    BY <2>2, <2>3, <2>4
<1>6. ASSUME NEW i \in DOMAIN inbox PROVE Letter(inbox[i]) # l
  <2>1. ~(inbox[i].call = c /\ inbox[i].step = n /\ inbox[i].user = u)
    BY <1>1, <1>4, ToServeHaveNoRow DEF n
  <2> QED
    BY <2>1 DEF Letter
<1> HIDE DEF r, l, L
<1>7. /\ inbox' = Append(inbox, r)
      /\ Len(inbox) \in Nat /\ DOMAIN inbox = 1..Len(inbox)
      /\ DOMAIN inbox' = 1..(Len(inbox) + 1)
      /\ inbox'[Len(inbox) + 1] = r
      /\ \A i \in DOMAIN inbox : inbox'[i] = inbox[i]
  BY <1>1, <1>3, <1>5 DEF r
<1>8. /\ Written = [i \in 1..Len(inbox) |-> Letter(inbox[i])]
      /\ Written' = [i \in 1..(Len(inbox) + 1) |-> Letter(inbox'[i])]
  BY <1>7 DEF Written
<1>9. \A i \in DOMAIN Written : Written[i] # l
  BY <1>6, <1>7, <1>8
<1>10. Written' = Append(Written, l)
  <2> DEFINE S == {Letter(inbox'[i]) : i \in DOMAIN inbox'}
  <2>1. /\ \A i \in 1..(Len(inbox) + 1) : Letter(inbox'[i]) \in S
        /\ \A i \in 1..Len(inbox) : Letter(inbox[i]) = Letter(inbox'[i])
        /\ Letter(inbox'[Len(inbox) + 1]) = l
    BY <1>5, <1>7
  <2> HIDE DEF S
  <2>2. Written \in Seq(S) /\ Len(Written) = Len(inbox)
    BY <1>7, <1>8, <2>1, SeqDef
  <2>3. Written' \in Seq(S) /\ Len(Written') = Len(inbox) + 1
    BY <1>7, <1>8, <2>1, SeqDef
  <2>4. l \in S
    BY <1>7, <2>1
  <2>5. /\ Append(Written, l) \in Seq(S) /\ Len(Append(Written, l)) = Len(inbox) + 1
        /\ \A i \in 1..Len(inbox) : Append(Written, l)[i] = Written[i]
        /\ Append(Written, l)[Len(inbox) + 1] = l
    BY <2>2, <2>4, AppendProperties
  <2>6. ASSUME NEW i \in 1..(Len(inbox) + 1) PROVE Written'[i] = Append(Written, l)[i]
    <3>1. CASE i = Len(inbox) + 1
      BY <1>8, <2>1, <2>5, <3>1
    <3>2. CASE i # Len(inbox) + 1
      BY <1>7, <1>8, <2>1, <2>5, <3>2
    <3> QED
      BY <3>1, <3>2
  <2> QED
    BY <1>7, <2>3, <2>5, <2>6, SeqEqual
<1>11. ReadRows' = ReadRows
  BY <1>5, <1>7 DEF ReadRows
<1>12. UNCHANGED <<Viewers, OnScreens>>
  BY DEF CreateRow, Viewers, OnScreens
<1>13. Mail!Post(l)
  BY <1>9, <1>10, <1>11, <1>12 DEF Mail!Post
<1> QED
  BY <1>5, <1>13 DEF L

\* Rows that are marked as read keep what is written on them.
LEMMA MarkedRowsAreRead ==
  ASSUME TypeOK, RowsKept, UNCHANGED tab, NEW u \in Users, NEW is \in SUBSET RowsOf(u),
         \A i \in DOMAIN inbox : inbox'[i].read <=> inbox[i].read \/ i \in is
  PROVE  Mail!Next
<1>1. inbox \in Seq(Row) /\ inbox' \in Seq(Row) /\ DOMAIN inbox' = DOMAIN inbox
  BY DEF TypeOK, RowsKept
<1>2. Written' = Written
  BY <1>1 DEF RowsKept, Written, Letter
<1>3. is \subseteq DOMAIN inbox
  BY DEF RowsOf
<1>4. ReadRows' = ReadRows \cup is
  BY <1>1, <1>3 DEF ReadRows
<1>5. UNCHANGED <<Viewers, OnScreens>>
  BY DEF Viewers, OnScreens
<1>6. is \in SUBSET Mail!LettersTo(u)
  BY <1>1, LettersAreRows
<1>7. Mail!Read(is)
  BY <1>2, <1>4, <1>5 DEF Mail!Read
<1> QED
  BY <1>6, <1>7 DEF Mail!Next

\* Rows of a user that come to tabs of the user are shown there.
LEMMA RowsAreShown ==
  ASSUME TypeOK, UNCHANGED inbox, NEW u \in Users, NEW is \in SUBSET RowsOf(u),
         NEW ss \in SUBSET Tabs, \A t \in ss : tab[t].user = u,
         \A t \in Tabs : /\ tab'[t].user = tab[t].user
                         /\ tab'[t].known = tab[t].known \cup IF t \in ss THEN is ELSE {}
  PROVE  Mail!Next
<1>1. inbox \in Seq(Row)
  BY DEF TypeOK
<1>2. UNCHANGED <<Written, ReadRows>>
  BY DEF Written, ReadRows
<1>3. Viewers' = Viewers
  BY DEF Viewers
<1>4. OnScreens' = [t \in Tabs |-> OnScreens[t] \cup IF t \in ss THEN is ELSE {}]
  BY DEF OnScreens
<1>5. is \in SUBSET Mail!LettersTo(u)
  BY <1>1, LettersAreRows
<1>6. ss \in SUBSET Mail!ScreensOf(u)
  BY DEF Mail!ScreensOf, Viewers
<1>7. Mail!Show(ss, is)
  BY <1>2, <1>3, <1>4 DEF Mail!Show
<1> QED
  BY <1>5, <1>6, <1>7 DEF Mail!Next

\* A stream that opens or closes changes who sits at its screen.
LEMMA StreamTakesSeat ==
  ASSUME TypeOK, NEW t \in Tabs, Streaming(t)
  PROVE  [Mail!Next]_(Mail!mailbox)
<1>1. tab \in [Tabs -> Tab] /\ tab[t] \in Tab
  BY DEF TypeOK, RealtimeTypeOK
<1>2. UNCHANGED <<Written, ReadRows>>
  BY DEF Streaming, Written, ReadRows
<1>3. ASSUME NEW u \in Users \cup {NoUser}, NEW x, tab' = [tab EXCEPT ![t] = x],
             x.user = u, x.known = {}
      PROVE  Mail!Next
  <2>1. Viewers' = [Viewers EXCEPT ![t] = u] /\ OnScreens' = [OnScreens EXCEPT ![t] = {}]
    BY <1>1, <1>3 DEF Viewers, OnScreens
  <2>2. Mail!TakeSeat(t, u)
    BY <1>2, <2>1 DEF Mail!TakeSeat
  <2> QED
    BY <2>2 DEF Mail!Next
<1>4. ASSUME NEW u \in ActiveUsers, StreamForUser(t, u) PROVE Mail!Next
  <2> DEFINE x == [ClosedTab EXCEPT !.user = u, !.phase = "connecting"]
  <2>1. x.user = u /\ x.known = {}
    BY DEF ClosedTab
  <2>2. tab' = [tab EXCEPT ![t] = x]
    BY <1>4 DEF StreamForUser
  <2>3. u \in Users \cup {NoUser}
    BY RealtimeAssumption
  <2> HIDE DEF x
  <2> QED
    BY <1>3, <2>1, <2>2, <2>3
<1>5. ASSUME TearDown(t) PROVE Mail!Next
  <2>1. tab' = [tab EXCEPT ![t] = ClosedTab] /\ ClosedTab.user = NoUser /\ ClosedTab.known = {}
    BY <1>5 DEF TearDown, ClosedTab
  <2> QED
    BY <1>3, <2>1
<1>6. ASSUME SubscriptionActive(t) PROVE UNCHANGED Mail!mailbox
  <2> DEFINE x == [tab[t] EXCEPT !.phase = "open"]
  <2>1. tab' = [tab EXCEPT ![t] = x]
    BY <1>6 DEF SubscriptionActive
  <2>2. x.user = tab[t].user /\ x.known = tab[t].known
    BY <1>1 DEF Tab
  <2> HIDE DEF x
  <2>3. \A s \in Tabs : tab'[s].user = tab[s].user /\ tab'[s].known = tab[s].known
    BY <1>1, <2>1, <2>2
  <2>4. UNCHANGED <<Viewers, OnScreens>>
    BY <2>3 DEF Viewers, OnScreens
  <2> QED
    BY <1>2, <2>4 DEF Mail!mailbox
<1> QED
  BY <1>4, <1>5, <1>6 DEF Streaming

\* A listing shows rows of the user of the tab.
LEMMA ListingIsShown ==
  ASSUME TypeOK, TabsFit, NEW t \in Tabs, ListInbox(t)
  PROVE  Mail!Next
<1> DEFINE u == tab[t].user
           rows == ListForUser(u)
           known == tab[t].known \cup rows
           listed == tab[t].phase = "open"
           x == [tab[t] EXCEPT !.known = known, !.heard = version, !.listed = listed]
<1>1. /\ tab \in [Tabs -> Tab] /\ tab[t] \in Tab /\ tab' = [tab EXCEPT ![t] = x]
      /\ tab[t].phase # "closed" /\ UNCHANGED inbox
  BY DEF TypeOK, RealtimeTypeOK, ListInbox
<1>2. u \in Users
  BY <1>1, RealtimeAssumption DEF TabsFit
<1>3. rows \in SUBSET RowsOf(u)
  BY DEF ListForUser
<1> HIDE DEF known, listed
<1>4. x.user = u /\ x.known = known
  BY <1>1 DEF Tab
<1> HIDE DEF x
<1>5. ASSUME NEW s \in Tabs
      PROVE  /\ tab'[s].user = tab[s].user
             /\ tab'[s].known = tab[s].known \cup IF s \in {t} THEN rows ELSE {}
  BY <1>1, <1>4 DEF known
<1> HIDE DEF u, rows
<1>6. {t} \in SUBSET Tabs /\ \A s \in {t} : tab[s].user = u
  BY DEF u
<1> QED
  BY <1>1, <1>2, <1>3, <1>5, <1>6, RowsAreShown

\* An event shows the rows it carries to their user.
LEMMA EventIsShown ==
  ASSUME TypeOK, UNCHANGED inbox, NEW u \in Users, NEW is \in SUBSET RowsOf(u),
         PublishToUser(u, is, version)
  PROVE  Mail!Next
<1> DEFINE ss == {t \in Tabs : Hears(t, u)}
<1>1. \A t \in ss : tab[t].user = u
  BY DEF Hears
<1>2. ASSUME NEW t \in Tabs
      PROVE  /\ tab'[t].user = tab[t].user
             /\ tab'[t].known = tab[t].known \cup IF t \in ss THEN is ELSE {}
  <2>1. RealtimeTypeOK
    BY DEF TypeOK
  <2>2. CASE Hears(t, u)
    BY <2>1, <2>2, PublishedToTabs
  <2>3. CASE ~Hears(t, u)
    BY <2>1, <2>3, PublishedToTabs
  <2> QED
    BY <2>2, <2>3
<1>3. ss \in SUBSET Tabs
  OBVIOUS
<1> HIDE DEF ss
<1> QED
  BY <1>1, <1>2, <1>3, RowsAreShown

\* Every step is a step of Mailbox, or changes nothing there.
LEMMA MailStep ==
  ASSUME Inv, TabsFit, ReadingFits, [Next]_vars
  PROVE  [Mail!Next]_(Mail!mailbox)
<1>1. TypeOK /\ inbox \in Seq(Row) /\ reading \subseteq [user : Users, row : DOMAIN inbox]
  BY DEF Inv, TypeOK
<1>2. ASSUME UNCHANGED <<inbox, tab>> PROVE UNCHANGED Mail!mailbox
  BY <1>2 DEF Mail!mailbox, Written, ReadRows, Viewers, OnScreens
<1>3. ASSUME NEW c \in Calls, FanOut(c) PROVE [Mail!Next]_(Mail!mailbox)
  <2>1. CASE CreateRow(c)
    BY <2>1, CreatedRowIsPosted DEF Mail!Next
  <2>2. CASE PublishOrderUpdated(c)
    <3>1. PICK u \in call[c].todo : PublishToUser(u, {}, version)
      BY <2>2 DEF PublishOrderUpdated, Foremost
    <3>2. u \in Users
      BY <1>1 DEF TypeOK, Call
    <3> QED
      BY <1>1, <2>2, <3>1, <3>2, EventIsShown DEF PublishOrderUpdated
  <2>3. CASE Resolve(c) \/ EnqueueDelivery(c)
    BY <1>2, <2>3 DEF Resolve, EnqueueDelivery
  <2> QED
    BY <1>3, <2>1, <2>2, <2>3 DEF FanOut
<1>4. ASSUME NEW i \in DOMAIN inbox, RunDelivery(i) PROVE [Mail!Next]_(Mail!mailbox)
  <2>1. inbox[i].user \in Users /\ {i} \in SUBSET RowsOf(inbox[i].user)
    <3>1. inbox[i] \in Row
      BY <1>1
    <3>2. i \in RowsOf(inbox[i].user)
      BY DEF RowsOf
    <3> QED
      BY <3>1, <3>2 DEF Row
  <2>2. UNCHANGED inbox /\ (Publishes(i) \/ UNCHANGED tab)
    BY <1>4 DEF RunDelivery, Deliver, DeliveryThrows, DeliveryStalls
  <2> QED
    BY <1>1, <1>2, <2>1, <2>2, EventIsShown DEF Publishes
<1>5. ASSUME NEW u \in Readers, MarkAllRead(u) PROVE Mail!Next
  <2>1. \A i \in DOMAIN inbox : inbox'[i].read <=> inbox[i].read \/ i \in RowsOf(u)
    <3>1. ASSUME NEW i \in DOMAIN inbox PROVE [inbox[i] EXCEPT !.read = TRUE].read
      BY <1>1 DEF Row
    <3> QED
      BY <1>5, <3>1 DEF MarkAllRead, RowsOf
  <2>2. u \in Users /\ RowsKept /\ UNCHANGED tab
    BY <1>1, <1>5, MarkAllReadStep, NotificationsAssumption, RealtimeAssumption DEF MarkAllRead
  <2>3. RowsOf(u) \in SUBSET RowsOf(u)
    OBVIOUS
  <2> QED
    BY <1>1, <2>1, <2>2, <2>3, MarkedRowsAreRead
<1>6. ASSUME NEW q \in reading, MarkRead(q) PROVE Mail!Next
  <2> DEFINE i == q.row
  <2>1. i \in DOMAIN inbox /\ inbox[i].user \in Users /\ {i} \in SUBSET RowsOf(inbox[i].user)
    <3>1. i \in DOMAIN inbox
      BY <1>1
    <3> HIDE DEF i
    <3>2. inbox[i] \in Row /\ i \in RowsOf(inbox[i].user)
      BY <1>1, <3>1 DEF RowsOf
    <3> QED
      BY <3>1, <3>2 DEF Row
  <2>2. \A j \in DOMAIN inbox : inbox'[j].read <=> inbox[j].read \/ j \in {i}
    <3> DEFINE x == [inbox[i] EXCEPT !.read = TRUE]
    <3>1. x.read
      BY <1>1, <2>1 DEF Row
    <3>2. inbox' = [inbox EXCEPT ![i] = x]
      BY <1>6 DEF MarkRead
    <3> HIDE DEF x, i
    <3> QED
      BY <1>1, <2>1, <3>1, <3>2
  <2>3. RowsKept /\ UNCHANGED tab
    BY <1>1, <1>6, MarkReadStep DEF MarkRead
  <2> HIDE DEF i
  <2> QED
    BY <1>1, <2>1, <2>2, <2>3, MarkedRowsAreRead
<1>7. ASSUME NEW t \in Tabs, Streaming(t) \/ ListInbox(t) PROVE [Mail!Next]_(Mail!mailbox)
  BY <1>1, <1>7, StreamTakesSeat, ListingIsShown
<1>8. CASE \/ UNCHANGED vars
           \/ \E c \in Calls : CallThrows(c) \/ \E i \in Input : Commit(c, i)
           \/ \E u \in Readers : \E i \in DOMAIN inbox : FindUnread(u, i)
  BY <1>2, <1>8 DEF vars, CallThrows, Commit, FindUnread
<1> QED
  BY <1>3, <1>4, <1>5, <1>6, <1>7, <1>8 DEF Next

\* Whatever handlers overlap, fail, retry and repeat, the users' side of the
\* notifications is a mailbox: no letter comes twice, is withdrawn or unread,
\* and none is shown to anybody but its user.
THEOREM NotificationsAreAMailbox == Spec => RefinesMailbox
<1>1. Init => Mail!Init
  <2> SUFFICES ASSUME Init PROVE Mail!Init
    OBVIOUS
  <2>1. inbox = <<>> /\ DOMAIN inbox = {}
    BY DEF Init
  <2>2. Written = <<>> /\ ReadRows = {}
    BY <2>1 DEF Written, ReadRows
  <2>3. \A t \in Tabs : tab[t].user = NoUser /\ tab[t].known = {}
    BY DEF Init, RealtimeInit, ClosedTab
  <2> QED
    BY <2>2, <2>3 DEF Mail!Init, Viewers, OnScreens
<1>2. Init => ReadingFits
  BY DEF Init, ReadingFits
<1>3. ScreenInv /\ ReadingFits /\ [Next]_vars => [Mail!Next]_(Mail!mailbox)
  BY MailStep DEF ScreenInv
<1>4. ScreenInv => Inv
  BY DEF ScreenInv
<1> QED
  BY ScreenInvInit, ScreenInvStep, ReadingFitsStep, <1>1, <1>2, <1>3, <1>4, PTL
  DEF Spec, RefinesMailbox, Mail!Spec

=============================================================================
