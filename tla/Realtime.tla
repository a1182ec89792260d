------------------------------ MODULE Realtime ------------------------------
(***************************************************************************)
(* The realtime channel (notification-realtime.service.ts): one Redis     *)
(* channel per user, and one server-sent event stream per open tab.       *)
(* Redis keeps nothing: an event reaches the tabs whose subscription is   *)
(* active at that moment, and no other.                                    *)
(***************************************************************************)
EXTENDS Integers

CONSTANTS
  Users,       \* user ids
  ActiveUsers, \* users whose isActive is true
  Tabs,        \* clients that may hold an event stream, web or mobile
  NoUser       \* nobody

ASSUME RealtimeAssumption ==
  /\ NoUser \notin Users
  /\ ActiveUsers \subseteq Users

VARIABLE tab \* tab[t]: the stream of a client, and what the client has been shown

(***************************************************************************)
(* listed: the client has fetched its inbox since its subscription became *)
(* active.  known: ids of the notification rows it was shown, by the list *)
(* or by an event.  heard: the version of the order at the time of the    *)
(* last event about it.                                                    *)
(***************************************************************************)
TabPhase == {"closed", "connecting", "open"}

Tab == [user : Users \cup {NoUser}, phase : TabPhase, listed : BOOLEAN,
        known : SUBSET Nat, heard : Nat]

ClosedTab == [user |-> NoUser, phase |-> "closed", listed |-> FALSE, known |-> {}, heard |-> 0]

RealtimeInit == tab = [t \in Tabs |-> ClosedTab]

RealtimeTypeOK == tab \in [Tabs -> Tab]

\* The stream of tab t receives what is published to user u.
Hears(t, u) == tab[t].phase = "open" /\ tab[t].user = u

\* GET /notifications/stream: 'connected' is pushed at once, the
\* subscription to the user's channel becomes active some time later.
StreamForUser(t, u) ==
  /\ tab[t].phase = "closed"
  /\ u \in ActiveUsers
  /\ tab' = [tab EXCEPT ![t] = [ClosedTab EXCEPT !.user = u, !.phase = "connecting"]]

SubscriptionActive(t) ==
  /\ tab[t].phase = "connecting"
  /\ tab' = [tab EXCEPT ![t].phase = "open"]

\* The client goes away, or its connection breaks: the stream is torn down.
TearDown(t) ==
  /\ tab[t].phase # "closed"
  /\ tab' = [tab EXCEPT ![t] = ClosedTab]

\* Faulty variant: one channel for all users.
PublishToAll(u, ids, version) ==
  tab' = [t \in Tabs |->
            IF tab[t].phase = "open"
            THEN [tab[t] EXCEPT !.known = @ \cup ids, !.heard = version]
            ELSE tab[t]]

\* An event about the order, with the notification rows it carries, is
\* published to the channel of user u.
PublishToUser(u, ids, version) ==
  tab' = [t \in Tabs |->
            IF Hears(t, u)
            THEN [tab[t] EXCEPT !.known = @ \cup ids, !.heard = version]
            ELSE tab[t]]
=============================================================================
