--------------------------- MODULE Notifications ----------------------------
(***************************************************************************)
(* What follows the commit of a change to an order: the handler fans out  *)
(* notifications to the order's driver, merchant and operations users     *)
(* (NotificationsService.notifyOrderLifecycle), a BullMQ job per row       *)
(* publishes it to its recipient's event stream                           *)
(* (NotificationDeliveryProcessor), and order.updated is broadcast.        *)
(*                                                                         *)
(* The model is about one order.  A call is one handler of it, from its   *)
(* commit on; handlers of different users and workers run concurrently,   *)
(* and any awaited statement of theirs may throw.                          *)
(***************************************************************************)
EXTENDS Realtime, FiniteSets, Sequences

CONSTANTS
  Calls,         \* handler calls that change the order
  DriverUsers,   \* users whose driverId is the order's driver
  MerchantUsers, \* users whose merchantId is the order's merchant
  OpsUsers,      \* users with a role of OPS_ROLES
  MaxAttempts,   \* "attempts" of a delivery job
  MaxStalled,    \* BullMQ's maxStalledCount
  ListLimit,     \* how many rows listForUser returns at most
  Readers,       \* users who mark notifications as read
  NoInput        \* the call has not been made

ASSUME NotificationsAssumption ==
  /\ DriverUsers \subseteq Users
  /\ MerchantUsers \subseteq Users
  /\ OpsUsers \subseteq Users
  /\ Readers \subseteq ActiveUsers
  /\ MaxAttempts \in Nat \ {0}
  /\ MaxStalled \in Nat
  /\ ListLimit \in Nat \ {0}

VARIABLES
  version,  \* number of changes of the order that are committed
  call,     \* call[c]: how far call c has come
  inbox,    \* the notification rows; a row's index is its id
  delivery, \* delivery[i]: the deliver-notification job of row i
  reading   \* the markRead requests that have found their row and not yet updated it

vars == <<tab, version, call, inbox, delivery, reading>>

(***************************************************************************)
(* What a handler says after its commit.                                   *)
(***************************************************************************)

Kind == {"matching", "unmatched", "unfunded", "assigned", "advance", "photo"}
Group == {"driver", "merchant", "ops"}

\* Trip handlers act for a user who is allowed to; the dispatch worker for nobody.
\* driven: the order has a driver, as far as the handler knows.  A worker that
\* loads a MATCHING order may find one: a redelivered job has marked an assigned
\* order again.  A cancellation for want of funds tells no driver in any case.
Input ==
  [kind : {"matching", "unmatched"}, actor : {NoUser}, driven : BOOLEAN]
    \cup [kind : {"unfunded"}, actor : {NoUser}, driven : {FALSE}]
    \cup [kind : {"assigned"}, actor : {NoUser}, driven : {TRUE}]
    \cup [kind : {"advance", "photo"}, actor : (DriverUsers \cup OpsUsers) \cap ActiveUsers,
          driven : {TRUE}]

Notify(groups, except) == [op |-> "notify", groups |-> groups, except |-> except]

Office == {"merchant", "ops"}

\* Faulty variant: order.updated is for the office only.
BroadcastToOffice(groups) == [op |-> "broadcast", except |-> NoUser, groups |-> Office]

\* broadcastOrderUpdated, to the stakeholders: everybody, or the office as long
\* as the order has no driver.
Broadcast(groups) == [op |-> "broadcast", except |-> NoUser, groups |-> groups]

Stakeholders(i) == IF i.driven THEN Group ELSE Office

\* notifyOrderAssigned, notifyTripAdvance and notifyProofPhotoUploaded.
NotifyOrderAssigned == <<Notify({"driver"}, NoUser), Notify(Office, NoUser)>>
NotifyTripAdvance(actor) == <<Notify(Group, actor)>>
NotifyProofPhotoUploaded(actor) ==
  <<Notify(IF actor \in DriverUsers THEN Office ELSE Group, actor)>>

\* What each handler calls, in the order it does.  A cancellation for want of
\* funds is not broadcast.
MatchingPlan(groups) == <<Broadcast(groups)>>
UnmatchedPlan(groups) == <<Notify(Office, NoUser), Broadcast(groups)>>
UnfundedPlan == <<Notify(Office, NoUser)>>
AssignedPlan == NotifyOrderAssigned \o <<Broadcast(Group)>>
AdvancePlan(actor) == NotifyTripAdvance(actor) \o <<Broadcast(Group)>>
PhotoPlan(actor) == <<Broadcast(Group)>> \o NotifyProofPhotoUploaded(actor)

Plan(i) ==
  CASE i.kind = "matching"  -> MatchingPlan(Stakeholders(i))
    [] i.kind = "unmatched" -> UnmatchedPlan(Stakeholders(i))
    [] i.kind = "unfunded"  -> UnfundedPlan
    [] i.kind = "assigned"  -> AssignedPlan
    [] i.kind = "advance"   -> AdvancePlan(i.actor)
    [] i.kind = "photo"     -> PhotoPlan(i.actor)

UsersOf(g) ==
  CASE g = "driver" -> DriverUsers [] g = "merchant" -> MerchantUsers [] g = "ops" -> OpsUsers

\* The user.findMany queries of a step, collected in a Set, without the actor.
Recipients(s) == (ActiveUsers \cap UNION {UsersOf(g) : g \in s.groups}) \ {s.except}

\* A Set is iterated in insertion order: drivers, then merchants, then operations.
Rank(u) == CASE u \in DriverUsers -> 1 [] u \in MerchantUsers -> 2 [] OTHER -> 3
Foremost(us) == {u \in us : \A v \in us : Rank(u) <= Rank(v)}

-----------------------------------------------------------------------------
CallState == {"idle", "resolve", "create", "enqueue", "publish", "done", "failed"}

\* at: the step of its plan the call is in; todo: the recipients left; row: the
\* row it has just created.
Call == [state : CallState, input : Input \cup {NoInput}, at : Nat,
         todo : SUBSET Users, row : Nat]

IdleCall == [state |-> "idle", input |-> NoInput, at |-> 1, todo |-> {}, row |-> 0]

Row == [user : Users, call : Calls, step : Nat, read : BOOLEAN]
DeliveryState == {"none", "queued", "sent", "failed"}
Delivery == [state : DeliveryState, attempts : 0..MaxAttempts, stalls : 0..(MaxStalled + 1)]
NoDelivery == [state |-> "none", attempts |-> 0, stalls |-> 0]

Init ==
  /\ RealtimeInit
  /\ version = 0
  /\ call = [c \in Calls |-> IdleCall]
  /\ inbox = <<>>
  /\ delivery = <<>>
  /\ reading = {}

TypeOK ==
  /\ RealtimeTypeOK
  /\ version \in Nat
  /\ call \in [Calls -> Call]
  /\ inbox \in Seq(Row)
  /\ delivery \in Seq(Delivery)
  /\ reading \subseteq [user : Users, row : DOMAIN inbox]

-----------------------------------------------------------------------------
(***************************************************************************)
(* The fan-out.                                                            *)
(***************************************************************************)

Current(c) == Plan(call[c].input)[call[c].at]

\* Faulty variant: the end of one fan-out ends the call.
NextStepStops(q) == [q EXCEPT !.state = "done"]

\* The call goes on with the next step of its plan, or returns.
NextStep(q) ==
  IF q.at = Len(Plan(q.input))
  THEN [q EXCEPT !.state = "done"]
  ELSE [q EXCEPT !.at = @ + 1, !.state = "resolve"]

\* The recipient u is served: the loop goes on, or ends.
Served(q, u, state) ==
  LET rest == [q EXCEPT !.todo = @ \ {u}, !.row = 0, !.state = state]
  IN IF rest.todo = {} THEN NextStep(rest) ELSE rest

\* A handler has committed its change, and starts on what follows.
Commit(c, i) ==
  /\ call[c].state = "idle"
  /\ call' = [call EXCEPT ![c] = [IdleCall EXCEPT !.state = "resolve", !.input = i]]
  /\ version' = version + 1
  /\ UNCHANGED <<tab, inbox, delivery, reading>>

\* The recipients are looked up; without any, the step is over.
Resolve(c) ==
  /\ call[c].state = "resolve"
  /\ LET us == Recipients(Current(c))
         q  == [call[c] EXCEPT !.todo = us,
                               !.state = IF Current(c).op = "notify" THEN "create" ELSE "publish"]
     IN call' = [call EXCEPT ![c] = IF us = {} THEN NextStep(q) ELSE q]
  /\ UNCHANGED <<tab, version, inbox, delivery, reading>>

\* The next recipient's row is inserted.
CreateRow(c) ==
  /\ call[c].state = "create"
  /\ \E u \in Foremost(call[c].todo) :
       inbox' = Append(inbox, [user |-> u, call |-> c, step |-> call[c].at, read |-> FALSE])
  /\ delivery' = Append(delivery, NoDelivery)
  /\ call' = [call EXCEPT ![c].state = "enqueue", ![c].row = Len(inbox) + 1]
  /\ UNCHANGED <<tab, version, reading>>

\* The row's delivery job is added to the queue.
EnqueueDelivery(c) ==
  /\ call[c].state = "enqueue"
  /\ delivery' = [delivery EXCEPT ![call[c].row].state = "queued"]
  /\ call' = [call EXCEPT ![c] = Served(@, inbox[@.row].user, "create")]
  /\ UNCHANGED <<tab, version, inbox, reading>>

\* order.updated is published to the next recipient.
PublishOrderUpdated(c) ==
  /\ call[c].state = "publish"
  /\ \E u \in Foremost(call[c].todo) :
       /\ PublishToUser(u, {}, version)
       /\ call' = [call EXCEPT ![c] = Served(@, u, "publish")]
  /\ UNCHANGED <<version, inbox, delivery, reading>>

InProgress(c) == call[c].state \notin {"idle", "done", "failed"}

\* Faulty variant: a fan-out that has thrown is made again by its caller.
CallRetries(c) ==
  /\ InProgress(c)
  /\ call[c].at = 1
  /\ call' = [call EXCEPT ![c].state = "resolve", ![c].todo = {}, ![c].row = 0]
  /\ UNCHANGED <<tab, version, inbox, delivery, reading>>

\* An awaited statement throws, or the process dies: the rest is not done.
\* No caller makes the call again: a retried dispatch job finds the order
\* decided, and an HTTP request answers 500 after its commit.
CallThrows(c) ==
  /\ InProgress(c)
  /\ call' = [call EXCEPT ![c].state = "failed", ![c].todo = {}, ![c].row = 0]
  /\ UNCHANGED <<tab, version, inbox, delivery, reading>>

FanOut(c) ==
  Resolve(c) \/ CreateRow(c) \/ EnqueueDelivery(c) \/ PublishOrderUpdated(c)

-----------------------------------------------------------------------------
(***************************************************************************)
(* NotificationDeliveryProcessor.  A run of the job awaits one statement, *)
(* the publication, so it is one step with several outcomes.              *)
(***************************************************************************)

Publishes(i) == PublishToUser(inbox[i].user, {i}, version)

\* The row is published and the job completes.
Deliver(i) ==
  /\ delivery[i].state = "queued"
  /\ Publishes(i)
  /\ delivery' = [delivery EXCEPT ![i] = [NoDelivery EXCEPT !.state = "sent"]]
  /\ UNCHANGED <<version, call, inbox, reading>>

\* Faulty variant: a job whose attempts run out is added again.
DeliveryStartsOver(i) ==
  /\ delivery[i].state = "queued"
  /\ delivery' = [delivery EXCEPT ![i].attempts = (@ + 1) % MaxAttempts]
  /\ UNCHANGED <<tab, version, call, inbox, reading>>

\* Faulty variant: the job has no limit of attempts.
DeliveryRetriesForever(i) ==
  /\ delivery[i].state = "queued"
  /\ delivery' = [delivery EXCEPT ![i].attempts = @ + 1]
  /\ UNCHANGED <<tab, version, call, inbox, reading>>

\* The publication throws: the job is tried again, or has failed for good.
DeliveryThrows(i) ==
  /\ delivery[i].state = "queued"
  /\ delivery' = [delivery EXCEPT ![i] =
       IF @.attempts + 1 < MaxAttempts
       THEN [delivery[i] EXCEPT !.attempts = @ + 1] ELSE [NoDelivery EXCEPT !.state = "failed"]]
  /\ UNCHANGED <<tab, version, call, inbox, reading>>

\* The worker dies or loses the job's lock, before or after the publication:
\* the job is handed out again.
DeliveryStalls(i) ==
  /\ delivery[i].state = "queued"
  /\ Publishes(i) \/ UNCHANGED tab
  /\ delivery' = [delivery EXCEPT ![i] =
       IF @.stalls < MaxStalled
       THEN [delivery[i] EXCEPT !.stalls = @ + 1] ELSE [NoDelivery EXCEPT !.state = "failed"]]
  /\ UNCHANGED <<version, call, inbox, reading>>

-----------------------------------------------------------------------------
(***************************************************************************)
(* The inbox, as its user sees it.                                         *)
(***************************************************************************)

RowsOf(u) == {i \in DOMAIN inbox : inbox[i].user = u}

\* Faulty variant: the oldest rows are listed.
OldestRows(u) == {i \in RowsOf(u) : Cardinality({j \in RowsOf(u) : j < i}) < ListLimit}

\* listForUser: the newest rows.
ListForUser(u) == {i \in RowsOf(u) : Cardinality({j \in RowsOf(u) : j > i}) < ListLimit}

\* GET /notifications, from the client of a tab, which shows the order as it is now.
ListInbox(t) ==
  /\ tab[t].phase # "closed"
  /\ tab' = [tab EXCEPT ![t].known = @ \cup ListForUser(tab[t].user),
                        ![t].heard = version,
                        ![t].listed = tab[t].phase = "open"]
  /\ UNCHANGED <<version, call, inbox, delivery, reading>>

\* Faulty variant: findFirst looks for the id alone.
FindUnreadOfAnyone(u, i) ==
  /\ i \in DOMAIN inbox
  /\ ~inbox[i].read
  /\ reading' = reading \cup {[user |-> u, row |-> i]}
  /\ UNCHANGED <<tab, version, call, inbox, delivery>>

\* PATCH /notifications/:id/read reads the row; one that is read already is
\* returned as it is, and a row of somebody else is not found.
FindUnread(u, i) ==
  /\ i \in RowsOf(u)
  /\ ~inbox[i].read
  /\ reading' = reading \cup {[user |-> u, row |-> i]}
  /\ UNCHANGED <<tab, version, call, inbox, delivery>>

\* The row is updated by its id alone, whatever has happened since.
MarkRead(q) ==
  /\ inbox' = [inbox EXCEPT ![q.row].read = TRUE]
  /\ reading' = reading \ {q}
  /\ UNCHANGED <<tab, version, call, delivery>>

\* POST /notifications/read-all is one statement.
MarkAllRead(u) ==
  /\ \E i \in RowsOf(u) : ~inbox[i].read
  /\ inbox' = [i \in DOMAIN inbox |->
                 IF inbox[i].user = u THEN [inbox[i] EXCEPT !.read = TRUE] ELSE inbox[i]]
  /\ UNCHANGED <<tab, version, call, delivery, reading>>

-----------------------------------------------------------------------------
Streaming(t) ==
  /\ \/ \E u \in ActiveUsers : StreamForUser(t, u)
     \/ SubscriptionActive(t)
     \/ TearDown(t)
  /\ UNCHANGED <<version, call, inbox, delivery, reading>>

\* A run of a delivery job ends in one of these ways.
RunDelivery(i) == Deliver(i) \/ DeliveryThrows(i) \/ DeliveryStalls(i)

Next ==
  \/ \E c \in Calls : \/ \E i \in Input : Commit(c, i)
                      \/ FanOut(c)
                      \/ CallThrows(c)
  \/ \E i \in DOMAIN inbox : RunDelivery(i)
  \/ \E t \in Tabs : Streaming(t) \/ ListInbox(t)
  \/ \E u \in Readers : MarkAllRead(u) \/ \E i \in DOMAIN inbox : FindUnread(u, i)
  \/ \E q \in reading : MarkRead(q)

Spec == Init /\ [][Next]_vars

(***************************************************************************)
(* A handler that does not throw goes on, and BullMQ hands out the jobs   *)
(* that wait.  Nothing forces a publication to succeed, a client to open  *)
(* a stream, or a user to read.                                            *)
(***************************************************************************)
Fairness ==
  /\ \A c \in Calls : WF_vars(FanOut(c))
  /\ WF_vars(\E i \in DOMAIN inbox : RunDelivery(i))

FairSpec == Spec /\ Fairness

-----------------------------------------------------------------------------
\* A step of a plan that fans out makes one row per user, whatever groups the
\* user is in and however many fan-outs overlap or fail half-way, and none for
\* the user who made the change (notifications.service.ts:33, :178-212).  An
\* assignment is two such steps: a driver's user who is also of the office has
\* one row of each.
ToldOnce ==
  \A i \in DOMAIN inbox :
    /\ inbox[i].user # call[inbox[i].call].input.actor
    /\ \A j \in DOMAIN inbox :
         /\ inbox[j].user = inbox[i].user
         /\ inbox[j].call = inbox[i].call
         /\ inbox[j].step = inbox[i].step
         => i = j

\* The users whom a change concerns, but for the one who made it: operations, the
\* merchant's users, and the driver's of an assignment, an advance of the trip and
\* a photo that the driver's side has not uploaded itself.
ConcernedBy(i) ==
  LET office == MerchantUsers \cup OpsUsers
      both   == i.kind \in {"assigned", "advance"} \/ (i.kind = "photo" /\ i.actor \notin DriverUsers)
  IN (ActiveUsers \cap (office \cup IF both THEN DriverUsers ELSE {})) \ {i.actor}

\* A handler that returns has told everybody whom its change concerns, and
\* has queued the publication of every row it made (API_SPEC.md:295-304).
ReturnedCallToldAll ==
  \A c \in Calls : call[c].state = "done" /\ call[c].input.kind # "matching" =>
    LET rows == {i \in DOMAIN inbox : inbox[i].call = c}
    IN /\ {inbox[i].user : i \in rows} = ConcernedBy(call[c].input)
       /\ \A i \in rows : delivery[i].state # "none"

\* A client that has listed its inbox since its subscription became active
\* has been shown every row of its user that was published, by the list or by
\* the stream, but for rows that the list's limit hides behind newer ones.
ListedTabMissesNothing ==
  \A t \in Tabs : tab[t].listed =>
    \A i \in RowsOf(tab[t].user) : delivery[i].state = "sent" =>
      \/ i \in tab[t].known
      \/ Cardinality({j \in tab[t].known : j > i}) >= ListLimit

\* The order concerns the merchant's users and operations, and its driver's
\* users as long as all its changes are known to be of an order with a driver.
Concerns(u) ==
  \/ u \in MerchantUsers \cup OpsUsers
  \/ /\ u \in DriverUsers
     /\ \A c \in Calls : call[c].state = "idle"
                         \/ call[c].input.driven

\* Once every handler has returned and every row is published, such a client
\* has heard of the order's last change: no interleaving of fan-outs leaves a
\* screen behind.
QuietMeansInSync ==
  /\ \A c \in Calls : call[c].state \in {"idle", "done"}
  /\ \A i \in DOMAIN inbox : delivery[i].state = "sent"
  => \A t \in Tabs :
       /\ tab[t].listed
       /\ Concerns(tab[t].user)
       => tab[t].heard = version

\* A row is marked as read only on behalf of its owner, although the update
\* itself goes by the row's id alone (notifications.service.ts:361-384).
ReadByOwner ==
  [][\A i \in DOMAIN inbox : inbox'[i].read # inbox[i].read =>
       \/ [user |-> inbox[i].user, row |-> i] \in reading \ reading'
       \/ MarkAllRead(inbox[i].user)]_vars

\* The inbox and the screens as the users see them: fan-outs, delivery jobs,
\* retries and streams come down to letters that are written once, are never
\* withdrawn or unread, and are shown to the users they are for
\* (notifications.service.ts:172-237, :321-386, :397-406).
Letter(r) == [user |-> r.user, call |-> r.call, step |-> r.step]
Written == [i \in DOMAIN inbox |-> Letter(inbox[i])]
ReadRows == {i \in DOMAIN inbox : inbox[i].read}
Viewers == [t \in Tabs |-> tab[t].user]
OnScreens == [t \in Tabs |-> tab[t].known]

\* No handler makes more than this many notifications and broadcasts.
LongestPlan == 3

Mail ==
  INSTANCE Mailbox WITH
    Screens <- Tabs, Nobody <- NoUser,
    Letters <- [user : Users, call : Calls, step : 1..LongestPlan],
    mail <- Written, seen <- ReadRows, viewer <- Viewers, shown <- OnScreens

RefinesMailbox == Mail!Spec

\* A row whose publication is queued while its owner has a stream reaches that
\* stream, through retries, lost locks and crashes, unless the stream closes
\* or the attempts run out (notifications.service.ts:245-250).
QueuedRowReachesTabs ==
  \A t \in Tabs, i \in 1..(Cardinality(Calls) * Cardinality(Users)) :
    /\ i \in DOMAIN inbox
    /\ delivery[i].state = "queued"
    /\ Hears(t, inbox[i].user)
    ~> \/ i \in tab[t].known
       \/ tab[t].phase # "open"
       \/ i \in DOMAIN delivery /\ delivery[i].state = "failed"
=============================================================================
