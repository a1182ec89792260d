------------------------------ MODULE Mailbox -------------------------------
(***************************************************************************)
(* What the notifications promise, without fan-outs, queues or streams:   *)
(* a user gets no letter twice; a letter that is in the box stays there as *)
(* it is; once read it is never unread; and a screen shows the letters of *)
(* the user who sits at it, and of nobody else.                            *)
(***************************************************************************)
EXTENDS Naturals, Sequences

CONSTANTS
  Users,   \* who get letters
  Screens, \* where letters are shown
  Nobody,  \* no user sits at the screen
  Letters  \* what may be written; letter.user is whom it is to

VARIABLES
  mail,   \* the letters posted so far
  seen,   \* indices of the letters that their users have read
  viewer, \* viewer[s]: who sits at screen s
  shown   \* shown[s]: indices of the letters on screen s

mailbox == <<mail, seen, viewer, shown>>

Init ==
  /\ mail = <<>>
  /\ seen = {}
  /\ viewer = [s \in Screens |-> Nobody]
  /\ shown = [s \in Screens |-> {}]

LettersTo(u) == {i \in DOMAIN mail : mail[i].user = u}
ScreensOf(u) == {s \in Screens : viewer[s] = u}

\* A letter is written once.
Post(l) ==
  /\ \A i \in DOMAIN mail : mail[i] # l
  /\ mail' = Append(mail, l)
  /\ UNCHANGED <<seen, viewer, shown>>

\* Some of a user's letters are read.
Read(is) ==
  /\ seen' = seen \cup is
  /\ UNCHANGED <<mail, viewer, shown>>

\* Another user, or nobody, sits down at a screen, which is blank then.
TakeSeat(s, u) ==
  /\ viewer' = [viewer EXCEPT ![s] = u]
  /\ shown' = [shown EXCEPT ![s] = {}]
  /\ UNCHANGED <<mail, seen>>

\* Some of a user's letters come up on some of the user's screens.
Show(ss, is) ==
  /\ shown' = [s \in Screens |-> shown[s] \cup IF s \in ss THEN is ELSE {}]
  /\ UNCHANGED <<mail, seen, viewer>>

Next ==
  \/ \E l \in Letters : Post(l)
  \/ \E s \in Screens, u \in Users \cup {Nobody} : TakeSeat(s, u)
  \/ \E u \in Users : \E is \in SUBSET LettersTo(u) :
       Read(is) \/ \E ss \in SUBSET ScreensOf(u) : Show(ss, is)

Spec == Init /\ [][Next]_mailbox
=============================================================================
