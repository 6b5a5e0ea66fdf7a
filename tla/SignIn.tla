------------------------------- MODULE SignIn -------------------------------
(***************************************************************************)
(* Registration, login, emailed codes and password reset:                  *)
(* internal/saas/auth/handlers.go, db/email_codes.go and db/users.go.      *)
(*                                                                         *)
(* A handler's database statements are separate steps, so two handlers for *)
(* one email interleave and a crash may fall between any two of them.      *)
(* A code is the number of the mail it was generated for; 0 stands for a   *)
(* guess, which no stored code equals.                                     *)
(***************************************************************************)
EXTENDS Naturals

CONSTANTS
  Emails,
  Handlers,     \* concurrent requests
  MaxAttempts,  \* mismatches a stored code survives (5 in the code)
  MaxMails,     \* bound: codes generated
  MaxCrashes    \* bound: process deaths

VARIABLES
  user,       \* users, by email: NoUser or [verified, pw, home]
  code,       \* email_codes, by email and purpose: NoCode or [n, attempts, live]
  mails,      \* codes generated so far
  inbox,      \* codes delivered: [email, purpose, n]
  handler,    \* what each request is doing
  consumed,   \* codes accepted, as a set of [email, purpose, n, h, again]
  guesses,    \* mismatches answered, per generated code
  born,       \* accounts inserted, per email
  orphaned,   \* emails whose registration died before the workspace was made
  crashes

vars == <<user, code, mails, inbox, handler, consumed, guesses, born, orphaned, crashes>>

SignInAssumption == {MaxAttempts, MaxMails, MaxCrashes} \subseteq Nat

Purposes == {"verify", "reset"}
Passwords == {"first", "second"}
NoUser == [verified |-> FALSE, pw |-> "none", home |-> FALSE]
NoCode == [n |-> 0, attempts |-> 0, live |-> FALSE]
Guess == 0
Idle == [at |-> "idle"]

Init ==
  /\ user = [e \in Emails |-> NoUser]
  /\ code = [e \in Emails |-> [p \in Purposes |-> NoCode]]
  /\ mails = 0
  /\ inbox = {}
  /\ handler = [h \in Handlers |-> Idle]
  /\ consumed = {}
  /\ guesses = [n \in 1..MaxMails |-> 0]
  /\ born = [e \in Emails |-> 0]
  /\ orphaned = {}
  /\ crashes = 0

\* What somebody may type for an email: a code delivered to it, or a guess.
Typed(e) == {m.n : m \in {i \in inbox : i.email = e}} \cup {Guess}

At(h, pc) == handler[h].at = pc
Go(h, next) == handler' = [handler EXCEPT ![h] = next]

-----------------------------------------------------------------------------
(* The emailed codes.                                                      *)

\* PutEmailCode: store or replace, with no mismatch yet.
PutEmailCode(e, p) ==
  code' = [code EXCEPT ![e][p] = [n |-> mails + 1, attempts |-> 0, live |-> TRUE]]

\* sendCode: a reset for an unknown email does nothing; the limiter may refuse
\* (RateLimits); when the mail fails the stored code stays, unsent.
sendCode(e, p) ==
  /\ mails < MaxMails
  /\ p = "reset" => user[e] # NoUser
  /\ PutEmailCode(e, p)
  /\ mails' = mails + 1
  /\ \/ inbox' = inbox \cup {[email |-> e, purpose |-> p, n |-> mails + 1]}
     \/ inbox' = inbox
  /\ UNCHANGED <<user, handler, consumed, guesses, born, orphaned, crashes>>

\* Mutant: the stored value is not compared.
AcceptsGuess(e, p, c) ==
  code[e][p] # NoCode /\ code[e][p].live /\ code[e][p].attempts < MaxAttempts

\* The transaction of ConsumeEmailCode accepts c.
Accepts(e, p, c) ==
  /\ code[e][p] # NoCode
  /\ code[e][p].live
  /\ code[e][p].attempts < MaxAttempts
  /\ code[e][p].n = c

\* ConsumeEmailCode: a match or an expired code deletes the row, a mismatch is
\* counted, and after MaxAttempts mismatches nothing changes any more.
ConsumeEmailCode(h, e, p, c) ==
  LET row == code[e][p] IN
  \/ /\ Accepts(e, p, c)
     /\ code' = [code EXCEPT ![e][p] = NoCode]
     /\ consumed' = consumed \cup {[email |-> e, purpose |-> p, n |-> c, h |-> h,
                                    again |-> \E k \in consumed : k.n = c]}
     /\ UNCHANGED guesses
  \/ /\ row # NoCode /\ ~row.live
     /\ code' = [code EXCEPT ![e][p] = NoCode]
     /\ UNCHANGED <<consumed, guesses>>
  \/ /\ row # NoCode /\ row.live /\ row.attempts < MaxAttempts /\ row.n # c
     /\ code' = [code EXCEPT ![e][p].attempts = @ + 1]
     /\ guesses' = [guesses EXCEPT ![row.n] = @ + 1]
     /\ UNCHANGED consumed
  \/ /\ row = NoCode \/ (row.live /\ row.attempts >= MaxAttempts)
     /\ UNCHANGED <<code, consumed, guesses>>

\* Time passes and a stored code's expires_at with it.
ExpireCode(e, p) ==
  /\ code[e][p] # NoCode /\ code[e][p].live
  /\ code' = [code EXCEPT ![e][p].live = FALSE]
  /\ UNCHANGED <<user, mails, inbox, handler, consumed, guesses, born, orphaned, crashes>>

-----------------------------------------------------------------------------
(* The handlers.                                                           *)

\* register, up to EmailExists: a request for an email without an account.
register(h, e, c) ==
  /\ At(h, "idle")
  /\ user[e] = NoUser
  /\ Go(h, [at |-> "register", email |-> e, purpose |-> "verify", code |-> c])
  /\ UNCHANGED <<user, code, mails, inbox, consumed, guesses, born, orphaned, crashes>>

\* verifyEmail and resetPassword go to the code at once.
verifyEmail(h, e, c) ==
  /\ At(h, "idle")
  /\ Go(h, [at |-> "verify", email |-> e, purpose |-> "verify", code |-> c])
  /\ UNCHANGED <<user, code, mails, inbox, consumed, guesses, born, orphaned, crashes>>

resetPassword(h, e, c) ==
  /\ At(h, "idle")
  /\ Go(h, [at |-> "reset", email |-> e, purpose |-> "reset", code |-> c])
  /\ UNCHANGED <<user, code, mails, inbox, consumed, guesses, born, orphaned, crashes>>

After == [register |-> "insert", verify |-> "mark", reset |-> "update"]

\* The handler's ConsumeEmailCode, and its early return on any refusal.
CheckCode(h) ==
  /\ handler[h].at \in DOMAIN After
  /\ LET r == handler[h] IN
       /\ ConsumeEmailCode(h, r.email, r.purpose, r.code)
       /\ Go(h, IF Accepts(r.email, r.purpose, r.code) THEN [r EXCEPT !.at = After[r.at]] ELSE Idle)
  /\ UNCHANGED <<user, mails, inbox, born, orphaned, crashes>>

\* CreateUser, its first statement: the email column is unique, so a second
\* registration of one email fails here with its code already spent.
InsertUser(h) ==
  /\ At(h, "insert")
  /\ LET e == handler[h].email IN
       IF user[e] = NoUser
       THEN /\ user' = [user EXCEPT ![e] = [verified |-> TRUE,
                                            pw |-> "first", home |-> FALSE]]
            /\ born' = [born EXCEPT ![e] = @ + 1]
            /\ Go(h, [handler[h] EXCEPT !.at = "home"])
       ELSE Go(h, Idle) /\ UNCHANGED <<user, born>>
  /\ UNCHANGED <<code, mails, inbox, consumed, guesses, orphaned, crashes>>

\* CreatePersonalWorkspace: workspace, pointer and membership in a transaction.
CreatePersonalWorkspace(h) ==
  /\ At(h, "home")
  /\ user' = [user EXCEPT ![handler[h].email].home = TRUE]
  /\ Go(h, Idle)
  /\ UNCHANGED <<code, mails, inbox, consumed, guesses, born, orphaned, crashes>>

MarkEmailVerified(h) ==
  /\ At(h, "mark")
  /\ LET e == handler[h].email IN
       user' = IF user[e] = NoUser THEN user ELSE [user EXCEPT ![e].verified = TRUE]
  /\ Go(h, Idle)
  /\ UNCHANGED <<code, mails, inbox, consumed, guesses, born, orphaned, crashes>>

UpdateUserPassword(h) ==
  /\ At(h, "update")
  /\ LET e == handler[h].email IN
       \/ user[e] = NoUser /\ UNCHANGED user
       \/ user[e] # NoUser /\ \E pw \in Passwords : user' = [user EXCEPT ![e].pw = pw]
  /\ Go(h, Idle)
  /\ UNCHANGED <<code, mails, inbox, consumed, guesses, born, orphaned, crashes>>

\* The process dies: requests are lost, rows stay.
Crash ==
  /\ crashes < MaxCrashes
  /\ crashes' = crashes + 1
  /\ orphaned' = orphaned \cup {handler[h].email : h \in {k \in Handlers : At(k, "home")}}
  /\ handler' = [h \in Handlers |-> Idle]
  /\ UNCHANGED <<user, code, mails, inbox, consumed, guesses, born>>

Next ==
  \/ \E e \in Emails, p \in Purposes : sendCode(e, p) \/ ExpireCode(e, p)
  \/ \E h \in Handlers, e \in Emails : \E c \in Typed(e) :
       register(h, e, c) \/ verifyEmail(h, e, c) \/ resetPassword(h, e, c)
  \/ \E h \in Handlers : \/ CheckCode(h) \/ InsertUser(h) \/ CreatePersonalWorkspace(h)
                         \/ MarkEmailVerified(h) \/ UpdateUserPassword(h)
  \/ Crash

Spec == Init /\ [][Next]_vars

-----------------------------------------------------------------------------
Account == [verified : BOOLEAN, pw : Passwords, home : BOOLEAN]
Stored == [n : 1..MaxMails, attempts : 0..MaxAttempts, live : BOOLEAN]
Mail == [email : Emails, purpose : Purposes, n : 1..MaxMails]
PurposeOf ==
  [register |-> "verify", insert |-> "verify", home |-> "verify", verify |-> "verify",
   mark |-> "verify", reset |-> "reset", update |-> "reset"]
Request ==
  [at : {"idle"}] \cup
    {r \in [at : DOMAIN PurposeOf, email : Emails, purpose : Purposes, code : 0..MaxMails] :
       r.purpose = PurposeOf[r.at]}

TypeOK ==
  /\ user \in [Emails -> {NoUser} \cup Account]
  /\ code \in [Emails -> [Purposes -> {NoCode} \cup Stored]]
  /\ mails \in 0..MaxMails
  /\ inbox \subseteq Mail
  /\ handler \in [Handlers -> Request]
  /\ consumed \subseteq [email : Emails, purpose : Purposes, n : 0..MaxMails, h : Handlers, again : BOOLEAN]
  /\ guesses \in [1..MaxMails -> Nat]
  /\ born \in [Emails -> Nat]
  /\ orphaned \subseteq Emails
  /\ crashes \in 0..MaxCrashes

\* A delivered code is accepted once, for the email and the purpose it was
\* mailed for, however many requests present it together.
CodesSpentOnce ==
  \A k \in consumed :
    /\ ~k.again
    /\ [email |-> k.email, purpose |-> k.purpose, n |-> k.n] \in inbox

\* Across handlers, resends and expiries no generated code answers more than
\* MaxAttempts guesses.
GuessesBounded == \A n \in 1..MaxMails : guesses[n] <= MaxAttempts

\* Racing registrations, each with a valid code of its own, make one account,
\* and an account without its personal workspace has a registration still
\* working on it or lost to a crash.
OneAccountWithHome ==
  \A e \in Emails :
    /\ born[e] <= 1
    /\ (user[e] # NoUser /\ ~user[e].home) =>
         e \in orphaned \/ \E h \in Handlers : At(h, "home") /\ handler[h].email = e

SignInHolds == TypeOK /\ CodesSpentOnce /\ GuessesBounded /\ OneAccountWithHome

\* A password changes only by a request that spent the newest reset code
\* generated for the account's own inbox when it checked.
PasswordChange ==
  \A e \in Emails :
    (user[e] # NoUser /\ user'[e].pw # user[e].pw) =>
      \E h \in Handlers : /\ At(h, "update") /\ handler[h].email = e
                          /\ [email |-> e, purpose |-> "reset", n |-> handler[h].code] \in inbox
PasswordFromInbox == [][PasswordChange]_vars

-----------------------------------------------------------------------------
(* The inductive invariant: a number stands for one code, stored under one *)
(* email and purpose, mailed there if anywhere, and gone once it was       *)
(* accepted; what a request presents was mailed to its email; and an       *)
(* account, once made, stays.                                              *)

Stands(e, p, n) == code[e][p] # NoCode /\ code[e][p].n = n

NumbersUnique ==
  /\ \A e, f \in Emails, p, q \in Purposes, n \in 1..MaxMails :
       Stands(e, p, n) /\ Stands(f, q, n) => e = f /\ p = q
  /\ \A e \in Emails, p \in Purposes, n \in 1..MaxMails :
       Stands(e, p, n) =>
         /\ n <= mails /\ guesses[n] = code[e][p].attempts
         /\ \A m \in inbox : m.n = n => m.email = e /\ m.purpose = p
         /\ \A k \in consumed : k.n # n
  /\ \A m \in inbox : m.n <= mails
  /\ \A k \in consumed : k.n <= mails
  /\ \A n \in 1..MaxMails : n > mails => guesses[n] = 0

Presented ==
  \A h \in Handlers :
    /\ handler[h].at \in DOMAIN After /\ handler[h].code # Guess =>
         \E m \in inbox : m.email = handler[h].email /\ m.n = handler[h].code
    /\ At(h, "update") =>
         [email |-> handler[h].email, purpose |-> "reset", n |-> handler[h].code] \in inbox
    /\ At(h, "home") => user[handler[h].email] # NoUser

BornOnce == \A e \in Emails : born[e] = IF user[e] = NoUser THEN 0 ELSE 1

SignInInv == SignInHolds /\ NumbersUnique /\ Presented /\ BornOnce
=============================================================================
