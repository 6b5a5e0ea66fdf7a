------------------------------ MODULE Support ------------------------------
(***************************************************************************)
(* The support desk: tickets filed by signed-in users and, with an access  *)
(* key, by people who cannot sign in; the replies of both sides; and the   *)
(* unread badge, the only way an account learns of an operator's reply.    *)
(*                                                                         *)
(* Times have the granularity of one second, as in the database.  Reading  *)
(* a thread is two statements: the thread, then the mark that it was seen. *)
(***************************************************************************)
EXTENDS Naturals, Sequences

CONSTANTS
  Tickets,
  MaxMessages,   \* bound: messages of a ticket
  MaxTime        \* bound: seconds

VARIABLES
  now,
  ticket,    \* support_tickets: [status, linked, key, actor, updated, seen]
  thread,    \* ticket_messages: the authors of a ticket's messages, in order
  reading,   \* messages of the thread the owner's open request read, or NotReading
  shown,     \* how many of the thread's messages its owner has been shown
  covered    \* messages that arrived behind a read: while it was open or in its second

vars == <<now, ticket, thread, reading, shown, covered>>

NotReading == MaxMessages + 1
SupportAssumption == MaxMessages \in Nat \ {0}
Statuses == {"none", "open", "pending", "resolved", "rejected"}

Init ==
  /\ now = 1
  /\ ticket = [t \in Tickets |-> [status |-> "none", linked |-> FALSE, key |-> FALSE,
                                  actor |-> "user", updated |-> 0, seen |-> 0]]
  /\ thread = [t \in Tickets |-> <<>>]
  /\ reading = [t \in Tickets |-> NotReading]
  /\ shown = [t \in Tickets |-> 0]
  /\ covered = [t \in Tickets |-> {}]

Filed(t) == ticket[t].status # "none"

\* UnreadForUser: the operator spoke last, in a second after the last mark.
Unread(t) == ticket[t].linked /\ ticket[t].actor = "admin" /\ ticket[t].updated > ticket[t].seen

-----------------------------------------------------------------------------
\* CreateWithMeta: the row and its first message in one transaction.  A ticket
\* without an account gets the key that is its submitter's handle.
CreateWithMeta(t, signedIn) ==
  /\ ~Filed(t)
  /\ ticket' = [ticket EXCEPT ![t] = [status |-> "open", linked |-> signedIn, key |-> ~signedIn,
                                      actor |-> "user", updated |-> now, seen |-> 0]]
  /\ thread' = [thread EXCEPT ![t] = <<"user">>]
  /\ shown' = [shown EXCEPT ![t] = 1]
  /\ UNCHANGED <<now, reading, covered>>

\* appealSubmit: the account of the address is linked by a second statement,
\* which may fail or come behind a reply.
LinkAppeal(t) ==
  /\ Filed(t) /\ ticket[t].key /\ ~ticket[t].linked
  /\ ticket' = [ticket EXCEPT ![t].linked = TRUE]
  /\ UNCHANGED <<now, thread, reading, shown, covered>>

\* Mutant: the reply keeps the time of the last one.
ReplyUntimed(t, author) ==
  /\ Filed(t)
  /\ Len(thread[t]) < MaxMessages
  /\ thread' = [thread EXCEPT ![t] = Append(@, author)]
  /\ ticket' = [ticket EXCEPT ![t].status = IF author = "admin" THEN "pending" ELSE "open",
                              ![t].actor = author]

\* Reply: a message and who spoke last, in one transaction.
Reply(t, author) ==
  /\ Filed(t)
  /\ Len(thread[t]) < MaxMessages
  /\ thread' = [thread EXCEPT ![t] = Append(@, author)]
  /\ ticket' = [ticket EXCEPT ![t].status = IF author = "admin" THEN "pending" ELSE "open",
                              ![t].actor = author, ![t].updated = now]

\* adminReply: into a thread its owner may be reading, or has read this second.
AdminReply(t) ==
  /\ Reply(t, "admin")
  /\ covered' = [covered EXCEPT ![t] = IF reading[t] # NotReading \/ ticket[t].seen = now
                                       THEN @ \cup {Len(thread[t]) + 1} ELSE @]
  /\ UNCHANGED <<now, reading, shown>>

\* userReply and appealReply answer with the whole thread, and mark nothing.
UserReply(t) ==
  /\ Reply(t, "user")
  /\ shown' = [shown EXCEPT ![t] = Len(thread[t]) + 1]
  /\ UNCHANGED <<now, reading, covered>>

\* adminStatus: it touches the time of the ticket and not who spoke last.
SetStatus(t, status) ==
  /\ Filed(t)
  /\ ticket' = [ticket EXCEPT ![t].status = status, ![t].updated = now]
  /\ UNCHANGED <<now, thread, reading, shown, covered>>

\* userGet by the linked account and appealGet by the key: the thread is read ...
GetThread(t) ==
  /\ Filed(t)
  /\ reading[t] = NotReading
  /\ reading' = [reading EXCEPT ![t] = Len(thread[t])]
  /\ UNCHANGED <<now, ticket, thread, shown, covered>>

\* ... then marked seen as of now, and the answer shows what was read.  The
\* mark may fail; the answer is sent all the same.
MarkSeen(t) ==
  /\ reading[t] # NotReading
  /\ \/ ticket' = [ticket EXCEPT ![t].seen = now]
     \/ UNCHANGED ticket
  /\ shown' = [shown EXCEPT ![t] = IF @ > reading[t] THEN @ ELSE reading[t]]
  /\ reading' = [reading EXCEPT ![t] = NotReading]
  /\ UNCHANGED <<now, thread, covered>>

Tick ==
  /\ now < MaxTime
  /\ now' = now + 1
  /\ UNCHANGED <<ticket, thread, reading, shown, covered>>

Next ==
  \/ \E t \in Tickets, signedIn \in BOOLEAN : CreateWithMeta(t, signedIn)
  \/ \E t \in Tickets : LinkAppeal(t) \/ AdminReply(t) \/ UserReply(t)
  \/ \E t \in Tickets, s \in Statuses \ {"none"} : SetStatus(t, s)
  \/ \E t \in Tickets : GetThread(t) \/ MarkSeen(t)
  \/ Tick

Spec == Init /\ [][Next]_vars

-----------------------------------------------------------------------------
\* The operator's messages the owner has not been shown.
Hidden(t) == {i \in 1..Len(thread[t]) : i > shown[t] /\ thread[t][i] = "admin"}

TypeOK ==
  \A t \in Tickets :
    /\ ticket[t].status \in Statuses
    /\ ticket[t].seen <= now /\ ticket[t].updated <= now
    /\ shown[t] <= Len(thread[t]) /\ reading[t] \in 0..NotReading

\* An account with an unseen reply has its badge, but for replies that arrived
\* behind a read: between its two statements or in the second it marked.
MissedOnlyBehindRead ==
  \A t \in Tickets :
    ticket[t].linked /\ Hidden(t) \ covered[t] # {} => Unread(t)

\* Nobody is without a way back to a thread: an account or a key leads there.
ReachableByOwner == \A t \in Tickets : Filed(t) => ticket[t].linked \/ ticket[t].key

\* Who spoke last is who wrote the last message, whoever raced.
LastActorIsAuthor ==
  \A t \in Tickets : Filed(t) => ticket[t].actor = thread[t][Len(thread[t])]

\* The desk loses no thread, and no reply except behind a concurrent read.
SupportHolds == TypeOK /\ MissedOnlyBehindRead /\ ReachableByOwner /\ LastActorIsAuthor
=============================================================================
