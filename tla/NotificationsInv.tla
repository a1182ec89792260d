-------------------------- MODULE NotificationsInv --------------------------
(***************************************************************************)
(* The inductive invariants behind the properties of Notifications.       *)
(***************************************************************************)
EXTENDS Notifications

Notifies(s) == s.op = "notify"

\* Step n of the plan of a call that is in state q.
StepOf(q, n) == Plan(q.input)[n]

\* A call in progress is within its plan, and its locals fit the step it is in.
CallsFit ==
  \A c \in Calls : call[c].state # "idle" =>
    LET q == call[c] IN
    /\ q.input \in Input
    /\ q.at \in 1..Len(Plan(q.input))
    /\ q.state = "publish" => ~Notifies(StepOf(q, q.at))
    /\ q.state \in {"create", "enqueue"} =>
         Notifies(StepOf(q, q.at)) /\ q.todo \subseteq Recipients(StepOf(q, q.at))
    /\ q.state = "enqueue" =>
         /\ q.row \in DOMAIN inbox
         /\ inbox[q.row].call = c /\ inbox[q.row].step = q.at /\ inbox[q.row].user \in q.todo

\* Row i, for step n and user u of a call in state q: a recipient of a step
\* that the call has reached, and who is not to be served again.
RowFits(q, u, n, i) ==
  /\ q.state # "idle"
  /\ n \in 1..q.at
  /\ n = q.at => q.state # "resolve"
  /\ Notifies(StepOf(q, n)) /\ u \in Recipients(StepOf(q, n))
  /\ n = q.at /\ q.state \in {"create", "enqueue"} /\ u \in q.todo
       => q.state = "enqueue" /\ i = q.row

RowsFit ==
  \A i \in DOMAIN inbox : RowFits(call[inbox[i].call], inbox[i].user, inbox[i].step, i)

\* No two rows are for the same user, call and step.
RowsDiffer ==
  \A i, j \in DOMAIN inbox :
    /\ inbox[j].user = inbox[i].user
    /\ inbox[j].call = inbox[i].call
    /\ inbox[j].step = inbox[i].step
    => i = j

HasRow(c, n, u) ==
  \E i \in DOMAIN inbox : inbox[i].call = c /\ inbox[i].step = n /\ inbox[i].user = u

\* In state q, a call has served the recipient u of step n.
HasServed(q, n, u) ==
  \/ n < q.at
  \/ q.state = "done"
  \/ n = q.at /\ q.state \in {"create", "enqueue"} /\ u \notin q.todo

\* Whom a call that has not failed has served, has a row.
ServedHaveRows ==
  \A c \in Calls : call[c].state \notin {"idle", "failed"} =>
    \A n \in 1..Len(Plan(call[c].input)) : Notifies(StepOf(call[c], n)) =>
      \A u \in Recipients(StepOf(call[c], n)) :
        HasServed(call[c], n, u) => HasRow(c, n, u)

\* Each row has a place for its delivery job, which is queued before the call goes on.
RowsAreQueued ==
  /\ Len(delivery) = Len(inbox)
  /\ \A i \in DOMAIN inbox :
       LET q == call[inbox[i].call] IN
       q.state # "failed" /\ ~(q.state = "enqueue" /\ q.row = i) => delivery[i].state # "none"

\* A markRead request has found a row of its own user.
ReadingFits == \A q \in reading : inbox[q.row].user = q.user

Inv == TypeOK /\ CallsFit /\ RowsFit /\ RowsDiffer /\ ServedHaveRows /\ RowsAreQueued

-----------------------------------------------------------------------------
\* A tab is of an active user and knows only rows that exist; it counts as
\* listed only while its subscription is active.
TabsFit ==
  \A t \in Tabs :
    /\ tab[t].known \subseteq DOMAIN inbox
    /\ tab[t].phase # "closed" => tab[t].user \in ActiveUsers
    /\ tab[t].listed => tab[t].phase = "open"

\* In state q, a call has still to tell user u.
StillTells(q, u) ==
  /\ q.state \notin {"idle", "done", "failed"}
  /\ \E n \in q.at..Len(Plan(q.input)) :
       /\ u \in Recipients(StepOf(q, n))
       /\ n = q.at /\ q.state # "resolve" => u \in q.todo

\* News for user u is still under way, or was lost with a call that threw.
Owed(u) ==
  \/ \E c \in Calls : call[c].state = "failed" \/ StillTells(call[c], u)
  \/ \E i \in RowsOf(u) : delivery[i].state # "sent"

\* A listed tab is behind the order only as long as its user is owed news.
BehindIsOwed ==
  \A t \in Tabs, u \in Users :
    tab[t].listed /\ tab[t].user = u /\ Concerns(u) /\ tab[t].heard # version => Owed(u)

ScreenInv == Inv /\ TabsFit /\ ListedTabMissesNothing /\ BehindIsOwed
=============================================================================
