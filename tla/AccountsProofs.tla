--------------------------- MODULE AccountsProofs ---------------------------
(***************************************************************************)
(* Theorems about the people's side, for every number of users, emails,    *)
(* codes, invites, keys, tokens, calls and requests, and every bound.      *)
(*                                                                         *)
(* The arguments.  Sign-in: a number stands for one code, stored under one *)
(* email and purpose and gone once it was accepted, so that what the       *)
(* transaction accepts was mailed there and is accepted for the first      *)
(* time.  Single sign-on: one request at most has spent a code it has not  *)
(* turned into a session, and a row's count of edits says whether what was *)
(* loaded still is the row.  Workspaces: an invite once issued stays its   *)
(* addressee's, so what a request found of it holds when it writes.        *)
(*                                                                         *)
(* Client tokens and API keys: what the requests under way may still cost  *)
(* is counted as spent (Room, BudgetRoom), and every set of requests that  *)
(* a token has under way was let in under a ceiling as high as the set is  *)
(* large (Covered).  Rate limiters: a list and the history of the calls it *)
(* let through agree as far back as any window looks (Mirrors), and a      *)
(* fixed window accounts for the calls of its own width and of the width   *)
(* before it (Fixed).  Service API: an answer, a handler and a refund row  *)
(* each name a row of a ledger that only grows; all the refunds of a       *)
(* charge that are about to be credited have one key, unless they raced    *)
(* (Reserved).  Referrals: an invitee, its registration, its conversion    *)
(* and the rows about it agree (SignupSound, ConversionSound), one         *)
(* releaser at most has marked a conversion it has not paid, and one job   *)
(* at most a tier (ReleaseSound, LadderSound, GrantsSound); a book that    *)
(* grows never lowers what an invitee has spent, so that what was earned   *)
(* stays earned (Climbed).                                                 *)
(***************************************************************************)
EXTENDS MCAccounts, WalletProofs

-----------------------------------------------------------------------------
(* Sign-in.                                                                *)

Numbers == S!CodesSpentOnce /\ S!GuessesBounded /\ S!NumbersUnique
Registered == S!OneAccountWithHome /\ S!BornOnce

\* The first state: no code, no request, no account.
LEMMA SignInInit == S!Init => S!SignInInv
<1> SUFFICES ASSUME S!Init PROVE S!SignInInv OBVIOUS
<1> USE AccountsAssumption DEF S!Init, S!SignInAssumption
<1>1. S!TypeOK
  <2>1. S!Idle \in S!Request BY DEF S!Idle, S!Request
  <2>2. code \in [Inboxes -> [S!Purposes -> {S!NoCode} \cup S!Stored]] OBVIOUS
  <2>3. mails \in 0..Mails /\ deaths \in 0..Deaths OBVIOUS
  <2>4. /\ user \in [Inboxes -> {S!NoUser} \cup S!Account] /\ signing \in [Handlers -> S!Request]
        /\ guesses \in [1..Mails -> Nat] /\ born \in [Inboxes -> Nat]
    BY <2>1
  <2> QED BY <2>2, <2>3, <2>4 DEF S!TypeOK
<1>2. \A e \in Inboxes, p \in S!Purposes : code[e][p] = S!NoCode OBVIOUS
<1>3. S!NumbersUnique BY <1>2 DEF S!NumbersUnique, S!Stands
<1>4. S!Presented BY DEF S!Presented, S!Idle, S!At, S!After
<1>5. S!CodesSpentOnce /\ S!GuessesBounded BY DEF S!CodesSpentOnce, S!GuessesBounded
<1>6. S!OneAccountWithHome /\ S!BornOnce BY DEF S!OneAccountWithHome, S!BornOnce
<1> QED BY <1>1, <1>3, <1>4, <1>5, <1>6 DEF S!SignInInv, S!SignInHolds

\* Only the request h moves on, to next.
LEMMA SignMoves ==
  ASSUME S!TypeOK, NEW h \in Handlers, NEW next, S!Go(h, next)
  PROVE  signing'[h] = next /\ \A g \in Handlers \ {h} : signing'[g] = signing[g]
BY DEF S!TypeOK, S!Go

\* A request under way names an email, and the purpose of its code.
LEMMA Asks ==
  ASSUME S!TypeOK, NEW h \in Handlers, signing[h].at # "idle"
  PROVE  /\ signing[h] \in [at : DOMAIN S!PurposeOf, email : Inboxes,
                            purpose : S!Purposes, code : 0..Mails]
         /\ signing[h].purpose = S!PurposeOf[signing[h].at]
BY DEF S!TypeOK, S!Request

\* A request that moves on for the same purpose keeps its email and its code.
LEMMA Moved ==
  ASSUME S!TypeOK, NEW h \in Handlers, signing[h].at # "idle", NEW pc \in DOMAIN S!PurposeOf,
         S!PurposeOf[pc] = S!PurposeOf[signing[h].at]
  PROVE  /\ [signing[h] EXCEPT !.at = pc] \in S!Request
         /\ [signing[h] EXCEPT !.at = pc].at = pc
         /\ [signing[h] EXCEPT !.at = pc].email = signing[h].email
         /\ [signing[h] EXCEPT !.at = pc].code = signing[h].code
BY Asks DEF S!Request

\* A row of email_codes, where there is one.
LEMMA Rows ==
  ASSUME S!TypeOK, NEW e \in Inboxes, NEW p \in S!Purposes, code[e][p] # S!NoCode
  PROVE  code[e][p] \in S!Stored
BY DEF S!TypeOK

\* What the transaction accepts was mailed to this email for this purpose.
LEMMA Accepted ==
  ASSUME S!SignInInv, NEW h \in Handlers, signing[h].at \in DOMAIN S!After,
         S!Accepts(signing[h].email, signing[h].purpose, signing[h].code)
  PROVE  /\ S!Stands(signing[h].email, signing[h].purpose, signing[h].code)
         /\ signing[h].code \in 1..Mails
         /\ [email |-> signing[h].email, purpose |-> signing[h].purpose, n |-> signing[h].code] \in inbox
<1> DEFINE e == signing[h].email
           p == signing[h].purpose
           c == signing[h].code
<1>1. e \in Inboxes /\ p \in S!Purposes BY Asks DEF S!SignInInv, S!SignInHolds, S!After
<1>2. S!Stands(e, p, c) BY DEF S!Accepts, S!Stands
<1>3. c \in 1..Mails BY <1>1, <1>2, Rows DEF S!Stands, S!Stored, S!SignInInv, S!SignInHolds
<1>4. PICK m \in inbox : m.email = e /\ m.n = c
  <2>1. c # S!Guess BY <1>3, AccountsAssumption DEF S!Guess, S!SignInAssumption
  <2>2. S!Presented BY DEF S!SignInInv
  <2> QED BY <2>1, <2>2 DEF S!Presented
<1>5. m.purpose = p BY <1>1, <1>2, <1>3, <1>4 DEF S!SignInInv, S!NumbersUnique
<1>6. m = [email |-> e, purpose |-> p, n |-> c]
  BY <1>4, <1>5 DEF S!SignInInv, S!SignInHolds, S!TypeOK, S!Mail
<1> QED BY <1>2, <1>3, <1>4, <1>6

\* The transaction: it accepts, forgets an expired code, counts a mismatch or
\* does nothing.
Consumes(h, e, p, c) ==
  /\ S!Accepts(e, p, c)
  /\ code' = [code EXCEPT ![e][p] = S!NoCode]
  /\ \E k : /\ consumed' = consumed \cup {k} /\ UNCHANGED guesses
            /\ k.email = e /\ k.purpose = p /\ k.n = c /\ ~k.again
            /\ k \in [email : Inboxes, purpose : S!Purposes, n : 0..Mails, h : Handlers, again : BOOLEAN]
Forgets(e, p) ==
  /\ code[e][p] # S!NoCode /\ ~code[e][p].live
  /\ code' = [code EXCEPT ![e][p] = S!NoCode]
  /\ UNCHANGED <<consumed, guesses>>
Counts(e, p, c) ==
  /\ code[e][p] # S!NoCode /\ code[e][p].attempts < Attempts
  /\ code' = [code EXCEPT ![e][p].attempts = @ + 1]
  /\ guesses' = [guesses EXCEPT ![code[e][p].n] = @ + 1]
  /\ UNCHANGED consumed

\* The transaction of a request in CheckCode is one of the four, and accepts for

\* the first time what it accepts.
LEMMA Consumption ==
  ASSUME S!SignInInv, NEW h \in Handlers, S!CheckCode(h)
  PROVE  LET r == signing[h] IN
         /\ r.email \in Inboxes /\ r.purpose \in S!Purposes
         /\ \/ Consumes(h, r.email, r.purpose, r.code)
            \/ ~S!Accepts(r.email, r.purpose, r.code) /\ Forgets(r.email, r.purpose)
            \/ ~S!Accepts(r.email, r.purpose, r.code) /\ Counts(r.email, r.purpose, r.code)
            \/ ~S!Accepts(r.email, r.purpose, r.code) /\ UNCHANGED <<code, consumed, guesses>>
<1> DEFINE e == signing[h].email
           p == signing[h].purpose
           c == signing[h].code
<1>1. /\ e \in Inboxes /\ p \in S!Purposes /\ c \in 0..Mails /\ signing[h].at \in DOMAIN S!After
      /\ S!ConsumeEmailCode(h, e, p, c)
  BY Asks DEF S!CheckCode, S!After, S!SignInInv, S!SignInHolds
<1>2. CASE S!Accepts(e, p, c)
  <2>1. S!Stands(e, p, c) /\ c \in 1..Mails BY <1>1, <1>2, Accepted
  <2>3. (\E k \in consumed : k.n = c) = FALSE BY <1>1, <2>1 DEF S!SignInInv, S!NumbersUnique
  <2>4. /\ code' = [code EXCEPT ![e][p] = S!NoCode] /\ UNCHANGED guesses
        /\ consumed' = consumed \cup {[email |-> e, purpose |-> p, n |-> c, h |-> h,
                                       again |-> \E k \in consumed : k.n = c]}
    <3>1. code[e][p] # S!NoCode /\ code[e][p].live /\ code[e][p].n = c /\ code[e][p].attempts < Attempts
      BY <1>2 DEF S!Accepts
    <3>2. code[e][p] \in S!Stored BY <1>1, <3>1, Rows DEF S!SignInInv, S!SignInHolds
    <3>3. ~(code[e][p].attempts >= Attempts)
      BY <3>1, <3>2, AccountsAssumption DEF S!Stored, S!SignInAssumption
    <3>4. /\ ~(code[e][p] # S!NoCode /\ ~code[e][p].live)
          /\ code[e][p].n = c
          /\ ~(code[e][p] = S!NoCode \/ (code[e][p].live /\ code[e][p].attempts >= Attempts))
      BY <3>1, <3>3
    <3>5. S!ConsumeEmailCode(h, e, p, c) BY <1>1
    <3> HIDE DEF e, p, c
    <3> QED BY <3>4, <3>5 DEF S!ConsumeEmailCode
  <2>5. [email |-> e, purpose |-> p, n |-> c, h |-> h, again |-> FALSE]
          \in [email : Inboxes, purpose : S!Purposes, n : 0..Mails, h : Handlers, again : BOOLEAN]
    BY <1>1
  <2> HIDE DEF e, p, c
  <2>6. Consumes(h, e, p, c) BY <1>1, <1>2, <2>3, <2>4, <2>5 DEF Consumes
  <2> QED BY <1>1, <2>6 DEF e, p, c
<1>3. CASE ~S!Accepts(e, p, c)
  BY <1>1, <1>3 DEF S!ConsumeEmailCode, Forgets, Counts
<1> QED BY <1>1, <1>2, <1>3

\* A mismatch that is counted leaves a stored code.
LEMMA CountedRow ==
  ASSUME NEW s \in S!Stored, s.attempts < Attempts
  PROVE  [s EXCEPT !.attempts = @ + 1] \in S!Stored
<1>1. Attempts \in Nat BY AccountsAssumption DEF S!SignInAssumption
<1>2. s.attempts + 1 \in 0..Attempts BY <1>1 DEF S!Stored
<1> QED BY <1>2 DEF S!Stored

LEMMA SignInTypes == S!SignInInv /\ [S!Next]_(S!vars) => S!TypeOK'
<1> SUFFICES ASSUME S!SignInInv, [S!Next]_(S!vars) PROVE S!TypeOK' OBVIOUS
<1>a. S!TypeOK BY DEF S!SignInInv, S!SignInHolds
<1>i. S!Idle \in S!Request BY DEF S!Idle, S!Request
<1> USE AccountsAssumption DEF S!SignInAssumption
<1>1. ASSUME NEW e \in Inboxes, NEW p \in S!Purposes, S!sendCode(e, p) PROVE S!TypeOK'
  <2>1. mails + 1 \in 1..Mails /\ mails + 1 \in 0..Mails BY <1>1, <1>a DEF S!sendCode, S!TypeOK
  <2>2. [n |-> mails + 1, attempts |-> 0, live |-> TRUE] \in S!Stored BY <2>1 DEF S!Stored
  <2>3. [email |-> e, purpose |-> p, n |-> mails + 1] \in S!Mail BY <2>1 DEF S!Mail
  <2>4. code' \in [Inboxes -> [S!Purposes -> {S!NoCode} \cup S!Stored]]
    <3> DEFINE new == [n |-> mails + 1, attempts |-> 0, live |-> TRUE]
    <3>1. code' = [code EXCEPT ![e][p] = new] BY <1>1 DEF S!sendCode, S!PutEmailCode
    <3>2. new \in S!Stored BY <2>2
    <3>3. code \in [Inboxes -> [S!Purposes -> {S!NoCode} \cup S!Stored]] BY <1>a DEF S!TypeOK
    <3> HIDE DEF new
    <3>4. [code[e] EXCEPT ![p] = new] \in [S!Purposes -> {S!NoCode} \cup S!Stored] BY <3>2, <3>3
    <3> QED BY <3>1, <3>3, <3>4
  <2>5. inbox' \subseteq S!Mail BY <1>1, <1>a, <2>3 DEF S!sendCode, S!TypeOK
  <2>6. mails' \in 0..Mails BY <1>1, <2>1 DEF S!sendCode
  <2> QED BY <1>1, <1>a, <2>4, <2>5, <2>6 DEF S!sendCode, S!TypeOK
<1>2. ASSUME NEW e \in Inboxes, NEW p \in S!Purposes, S!ExpireCode(e, p) PROVE S!TypeOK'
  <2>1. code[e][p] \in S!Stored BY <1>2, <1>a, Rows DEF S!ExpireCode
  <2>2. [code[e][p] EXCEPT !.live = FALSE] \in S!Stored BY <2>1 DEF S!Stored
  <2> DEFINE new == [code[e][p] EXCEPT !.live = FALSE]
  <2>3. code' = [code EXCEPT ![e][p] = new] BY <1>2 DEF S!ExpireCode
  <2>4. code \in [Inboxes -> [S!Purposes -> {S!NoCode} \cup S!Stored]] BY <1>a DEF S!TypeOK
  <2>5. code' \in [Inboxes -> [S!Purposes -> {S!NoCode} \cup S!Stored]]
    <3>1. new \in S!Stored BY <2>2
    <3> HIDE DEF new
    <3>2. [code[e] EXCEPT ![p] = new] \in [S!Purposes -> {S!NoCode} \cup S!Stored] BY <2>4, <3>1
    <3> QED BY <2>3, <2>4, <3>2
  <2> QED BY <1>2, <1>a, <2>5 DEF S!ExpireCode, S!TypeOK
<1>3. ASSUME NEW h \in Handlers, NEW e \in Inboxes, NEW c \in S!Typed(e),
             S!register(h, e, c) \/ S!verifyEmail(h, e, c) \/ S!resetPassword(h, e, c)
      PROVE  S!TypeOK'
  <2>1. c \in 0..Mails BY <1>a DEF S!Typed, S!TypeOK, S!Mail, S!Guess
  <2>2. \A pc \in DOMAIN S!PurposeOf :
          [at |-> pc, email |-> e, purpose |-> S!PurposeOf[pc], code |-> c] \in S!Request
    BY <2>1 DEF S!Request, S!PurposeOf, S!Purposes
  <2>3. PICK pc \in DOMAIN S!PurposeOf :
          S!Go(h, [at |-> pc, email |-> e, purpose |-> S!PurposeOf[pc], code |-> c])
    BY <1>3 DEF S!register, S!verifyEmail, S!resetPassword, S!PurposeOf
  <2>4. signing' \in [Handlers -> S!Request] BY <1>a, <2>2, <2>3 DEF S!Go, S!TypeOK
  <2> QED BY <1>3, <1>a, <2>4 DEF S!register, S!verifyEmail, S!resetPassword, S!TypeOK
<1>4. ASSUME NEW h \in Handlers, S!CheckCode(h) PROVE S!TypeOK'
  <2> DEFINE r == signing[h]
  <2>1. /\ r.email \in Inboxes /\ r.purpose \in S!Purposes
        /\ \/ Consumes(h, r.email, r.purpose, r.code)
           \/ Forgets(r.email, r.purpose)
           \/ Counts(r.email, r.purpose, r.code)
           \/ UNCHANGED <<code, consumed, guesses>>
    BY <1>4, Consumption
  <2>2. /\ r.at \in DOMAIN S!After /\ UNCHANGED <<user, mails, inbox, born, orphaned, deaths>>
        /\ \/ signing' = [signing EXCEPT ![h] = S!Idle]
           \/ signing' = [signing EXCEPT ![h] = [r EXCEPT !.at = S!After[r.at]]]
    BY <1>4 DEF S!CheckCode, S!Go
  <2>3. [r EXCEPT !.at = S!After[r.at]] \in S!Request
    BY <1>a, <2>2, Moved DEF S!After, S!PurposeOf
  <2>4. signing' \in [Handlers -> S!Request] BY <1>a, <1>i, <2>2, <2>3 DEF S!TypeOK
  <2> DEFINE e == r.email
             p == r.purpose
             c == r.code
  <2>5. CASE Consumes(h, e, p, c)
    BY <1>a, <2>1, <2>2, <2>4, <2>5 DEF Consumes, S!TypeOK
  <2>6. CASE Forgets(e, p)
    BY <1>a, <2>1, <2>2, <2>4, <2>6 DEF Forgets, S!TypeOK
  <2>7. CASE Counts(e, p, c)
    <3>1. code[e][p] \in S!Stored BY <1>a, <2>1, <2>7, Rows DEF Counts
    <3>2. [code[e][p] EXCEPT !.attempts = @ + 1] \in S!Stored
      <4>1. code[e][p].attempts < Attempts BY <2>7 DEF Counts
      <4> HIDE DEF e, p
      <4> QED BY <3>1, <4>1, CountedRow
    <3>3. code' \in [Inboxes -> [S!Purposes -> {S!NoCode} \cup S!Stored]]
      BY <1>a, <2>1, <2>7, <3>2 DEF Counts, S!TypeOK
    <3>4. guesses' \in [1..Mails -> Nat]
      <4>1. code[e][p].n \in 1..Mails BY <3>1 DEF S!Stored
      <4>2. guesses \in [1..Mails -> Nat] /\ guesses' = [guesses EXCEPT ![code[e][p].n] = @ + 1]
        BY <1>a, <2>7 DEF Counts, S!TypeOK
      <4> HIDE DEF e, p
      <4>3. guesses \in [1..Mails -> Nat] BY <4>2
      <4>4. guesses[code[e][p].n] \in Nat BY <4>1, <4>3
      <4>5. guesses[code[e][p].n] + 1 \in Nat BY <4>4
      <4> QED BY <4>1, <4>2, <4>5
    <3> QED BY <1>a, <2>2, <2>4, <2>7, <3>3, <3>4 DEF Counts, S!TypeOK
  <2>8. CASE UNCHANGED <<code, consumed, guesses>>
    BY <1>a, <2>2, <2>4, <2>8 DEF S!TypeOK
  <2> QED BY <2>1, <2>5, <2>6, <2>7, <2>8
<1>5. ASSUME NEW h \in Handlers, S!InsertUser(h) PROVE S!TypeOK'
  <2>1. S!At(h, "insert") BY <1>5 DEF S!InsertUser
  <2>2. signing[h].email \in Inboxes /\ [signing[h] EXCEPT !.at = "home"] \in S!Request
    BY <1>a, <2>1, Asks, Moved DEF S!At, S!PurposeOf
  <2>3. signing' \in [Handlers -> S!Request]
    BY <1>5, <1>a, <1>i, <2>2 DEF S!InsertUser, S!Go, S!TypeOK
  <2>4. [verified |-> TRUE, pw |-> "first", home |-> FALSE] \in S!Account
    BY DEF S!Account, S!Passwords
  <2>5. user' \in [Inboxes -> {S!NoUser} \cup S!Account]
    BY <1>5, <1>a, <2>2, <2>4 DEF S!InsertUser, S!TypeOK
  <2>6. born' \in [Inboxes -> Nat]
    <3>1. born \in [Inboxes -> Nat] /\ born[signing[h].email] + 1 \in Nat BY <1>a, <2>2 DEF S!TypeOK
    <3>2. born' = born \/ born' = [born EXCEPT ![signing[h].email] = @ + 1] BY <1>5 DEF S!InsertUser
    <3> QED BY <2>2, <3>1, <3>2
  <2> QED BY <1>5, <1>a, <2>3, <2>5, <2>6 DEF S!InsertUser, S!TypeOK
<1>6. ASSUME NEW h \in Handlers, S!CreatePersonalWorkspace(h) PROVE S!TypeOK'
  <2>1. signing[h].email \in Inboxes /\ user[signing[h].email] \in S!Account
    BY <1>6, <1>a, Asks DEF S!CreatePersonalWorkspace, S!At, S!SignInInv, S!Presented, S!TypeOK
  <2> QED BY <1>6, <1>a, <1>i, <2>1 DEF S!CreatePersonalWorkspace, S!Go, S!TypeOK, S!Account
<1>7. ASSUME NEW h \in Handlers, S!MarkEmailVerified(h) PROVE S!TypeOK'
  <2>1. signing[h].email \in Inboxes BY <1>7, <1>a, Asks DEF S!MarkEmailVerified, S!At
  <2>2. user' \in [Inboxes -> {S!NoUser} \cup S!Account]
    BY <1>7, <1>a, <2>1 DEF S!MarkEmailVerified, S!TypeOK, S!Account
  <2> QED BY <1>7, <1>a, <1>i, <2>2 DEF S!MarkEmailVerified, S!Go, S!TypeOK
<1>8. ASSUME NEW h \in Handlers, S!UpdateUserPassword(h) PROVE S!TypeOK'
  <2>1. signing[h].email \in Inboxes BY <1>8, <1>a, Asks DEF S!UpdateUserPassword, S!At
  <2>2. user' \in [Inboxes -> {S!NoUser} \cup S!Account]
    <3> DEFINE e == signing[h].email
    <3>1. CASE user[e] = S!NoUser BY <1>8, <1>a, <3>1 DEF S!UpdateUserPassword, S!TypeOK
    <3>2. CASE user[e] # S!NoUser
      <4>1. user[e] \in S!Account BY <1>a, <2>1, <3>2 DEF S!TypeOK
      <4>2. PICK pw \in S!Passwords : user' = [user EXCEPT ![e].pw = pw]
        BY <1>8, <3>2 DEF S!UpdateUserPassword
      <4>3. [user[e] EXCEPT !.pw = pw] \in S!Account BY <4>1 DEF S!Account
      <4> HIDE DEF e
      <4> QED BY <1>a, <4>2, <4>3 DEF S!TypeOK
    <3> QED BY <3>1, <3>2
  <2> QED BY <1>8, <1>a, <1>i, <2>2 DEF S!UpdateUserPassword, S!Go, S!TypeOK
<1>9. CASE S!Crash
  <2>1. \A h \in Handlers : S!At(h, "home") => signing[h].email \in Inboxes BY <1>a, Asks DEF S!At
  <2>2. signing' \in [Handlers -> S!Request] BY <1>9, <1>i DEF S!Crash
  <2> QED BY <1>9, <1>a, <2>1, <2>2 DEF S!Crash, S!TypeOK
<1>10. CASE UNCHANGED S!vars BY <1>10, <1>a DEF S!vars, S!TypeOK
<1> QED BY <1>1, <1>2, <1>3, <1>4, <1>5, <1>6, <1>7, <1>8, <1>9, <1>10 DEF S!Next

\* Numbers stay one code's: by sendCode, which takes a new one, by an expiry and

\* by each outcome of the transaction.
LEMMA SignInNumbers == S!SignInInv /\ S!TypeOK' /\ [S!Next]_(S!vars) => Numbers'
<1> SUFFICES ASSUME S!SignInInv, S!TypeOK', [S!Next]_(S!vars) PROVE Numbers' OBVIOUS
<1>a. S!TypeOK BY DEF S!SignInInv, S!SignInHolds
<1>b. S!CodesSpentOnce /\ S!GuessesBounded /\ S!NumbersUnique BY DEF S!SignInInv, S!SignInHolds
<1> USE AccountsAssumption DEF S!SignInAssumption
<1>0. ASSUME UNCHANGED <<code, mails, inbox, consumed, guesses>> PROVE Numbers'
  BY <1>0, <1>b DEF Numbers, S!CodesSpentOnce, S!GuessesBounded, S!NumbersUnique, S!Stands
<1>1. ASSUME NEW e \in Inboxes, NEW p \in S!Purposes, S!sendCode(e, p) PROVE Numbers'
  <2>1. /\ mails' = mails + 1 /\ mails \in Nat /\ mails + 1 \in 1..Mails
        /\ UNCHANGED <<consumed, guesses>>
        /\ inbox \subseteq inbox'
        /\ \A m \in inbox' : m \in inbox \/ (m.email = e /\ m.purpose = p /\ m.n = mails + 1)
    BY <1>1, <1>a DEF S!sendCode, S!TypeOK
  <2>2. /\ code'[e][p].n = mails + 1 /\ code'[e][p].attempts = 0
        /\ \A f \in Inboxes, q \in S!Purposes : f # e \/ q # p => code'[f][q] = code[f][q]
    BY <1>1, <1>a DEF S!sendCode, S!PutEmailCode, S!TypeOK
  <2>3. \A f \in Inboxes, q \in S!Purposes, n \in 1..Mails :
          S!Stands(f, q, n)' =>
            \/ f = e /\ q = p /\ n = mails + 1
            \/ n <= mails /\ (f # e \/ q # p) /\ S!Stands(f, q, n) /\ code'[f][q] = code[f][q]
    BY <1>b, <2>2 DEF S!Stands, S!NumbersUnique
  <2>4. S!CodesSpentOnce' BY <1>b, <2>1 DEF S!CodesSpentOnce
  <2>5. S!GuessesBounded' BY <1>b, <2>1 DEF S!GuessesBounded
  <2>6. S!NumbersUnique'
    <3>1. \A m \in inbox' : m.n <= mails' /\ m.n \in Nat
      <4>1. \A m \in inbox : m.n <= mails /\ m.n \in Nat
        BY <1>b, <1>a DEF S!NumbersUnique, S!TypeOK, S!Mail
      <4> QED BY <2>1, <4>1
    <3>2. \A k \in consumed' : k.n <= mails' /\ k.n <= mails /\ k.n \in Nat
      BY <1>b, <1>a, <2>1 DEF S!NumbersUnique, S!TypeOK
    <3>3. \A n \in 1..Mails : n > mails' => guesses'[n] = 0 BY <1>b, <2>1 DEF S!NumbersUnique
    <3>4. guesses[mails + 1] = 0 BY <1>b, <2>1 DEF S!NumbersUnique
    <3>5. \A m \in inbox : m.n <= mails BY <1>b DEF S!NumbersUnique
    <3>6. ASSUME NEW f \in Inboxes, NEW q \in S!Purposes, NEW n \in 1..Mails, S!Stands(f, q, n)'
          PROVE  /\ n <= mails' /\ guesses'[n] = code'[f][q].attempts
                 /\ \A m \in inbox' : m.n = n => m.email = f /\ m.purpose = q
                 /\ \A k \in consumed' : k.n # n
      <4>1. CASE f = e /\ q = p /\ n = mails + 1
        BY <2>1, <2>2, <3>2, <3>4, <3>5, <4>1
      <4>2. CASE n <= mails /\ S!Stands(f, q, n) /\ code'[f][q] = code[f][q]
        BY <1>b, <2>1, <4>2 DEF S!NumbersUnique
      <4> QED BY <2>3, <3>6, <4>1, <4>2
    <3>7. ASSUME NEW f \in Inboxes, NEW g \in Inboxes, NEW q \in S!Purposes, NEW s \in S!Purposes,
                 NEW n \in 1..Mails, S!Stands(f, q, n)', S!Stands(g, s, n)'
          PROVE  f = g /\ q = s
      BY <1>b, <2>1, <2>3, <3>7 DEF S!NumbersUnique
    <3> QED BY <3>1, <3>2, <3>3, <3>6, <3>7 DEF S!NumbersUnique
  <2> QED BY <2>4, <2>5, <2>6 DEF Numbers
<1>2. ASSUME NEW e \in Inboxes, NEW p \in S!Purposes, S!ExpireCode(e, p) PROVE Numbers'
  <2>1. UNCHANGED <<mails, inbox, consumed, guesses>> BY <1>2 DEF S!ExpireCode
  <2>2. code[e][p] \in S!Stored BY <1>2, <1>a, Rows DEF S!ExpireCode
  <2>3. \A f \in Inboxes, q \in S!Purposes :
          code'[f][q].n = code[f][q].n /\ code'[f][q].attempts = code[f][q].attempts
          /\ (code[f][q] = S!NoCode => code'[f][q] = S!NoCode)
    BY <1>2, <1>a, <2>2 DEF S!ExpireCode, S!TypeOK, S!Stored
  <2> QED
    BY <1>b, <2>1, <2>3 DEF Numbers, S!CodesSpentOnce, S!GuessesBounded, S!NumbersUnique, S!Stands
<1>3. ASSUME NEW h \in Handlers, S!CheckCode(h) PROVE Numbers'
  <2>1. PICK e \in Inboxes, p \in S!Purposes, c \in 0..Mails :
          e = signing[h].email /\ p = signing[h].purpose /\ c = signing[h].code
    BY <1>3, <1>a, Asks DEF S!CheckCode, S!After
  <2>2. \/ Consumes(h, e, p, c)
        \/ Forgets(e, p)
        \/ Counts(e, p, c)
        \/ UNCHANGED <<code, consumed, guesses>>
    BY <1>3, <2>1, Consumption
  <2>3. UNCHANGED <<mails, inbox>> BY <1>3 DEF S!CheckCode
  <2>4. CASE code' = [code EXCEPT ![e][p] = S!NoCode] /\ UNCHANGED <<consumed, guesses>>
    <3>1. \A f \in Inboxes, q \in S!Purposes, n \in 1..Mails :
            S!Stands(f, q, n)' => S!Stands(f, q, n) /\ code'[f][q] = code[f][q]
      BY <1>a, <2>4 DEF S!Stands, S!TypeOK
    <3> QED
      BY <1>b, <2>3, <2>4, <3>1 DEF Numbers, S!CodesSpentOnce, S!GuessesBounded, S!NumbersUnique
  <2>5. CASE Consumes(h, e, p, c)
    <3>1. /\ S!Stands(e, p, c) /\ c \in 1..Mails
          /\ [email |-> e, purpose |-> p, n |-> c] \in inbox
      BY <1>3, <2>1, <2>5, Accepted DEF S!CheckCode, Consumes
    <3>2. PICK k : /\ consumed' = consumed \cup {k} /\ UNCHANGED guesses
                   /\ k.email = e /\ k.purpose = p /\ k.n = c /\ ~k.again
      BY <2>5 DEF Consumes
    <3>3. code' = [code EXCEPT ![e][p] = S!NoCode] BY <2>5 DEF Consumes
    <3>4. \A f \in Inboxes, q \in S!Purposes, n \in 1..Mails :
            S!Stands(f, q, n)' => S!Stands(f, q, n) /\ code'[f][q] = code[f][q] /\ n # c
      BY <1>a, <1>b, <3>1, <3>3 DEF S!Stands, S!TypeOK, S!NumbersUnique
    <3>5. S!CodesSpentOnce' BY <1>b, <2>3, <3>1, <3>2 DEF S!CodesSpentOnce
    <3>6. S!GuessesBounded' BY <1>b, <3>2 DEF S!GuessesBounded
    <3>7. c <= mails BY <1>b, <3>1 DEF S!NumbersUnique
    <3>8. S!NumbersUnique' BY <1>b, <2>3, <3>2, <3>4, <3>7 DEF S!NumbersUnique
    <3> QED BY <3>5, <3>6, <3>8 DEF Numbers
  <2>6. CASE Counts(e, p, c)
    <3> DEFINE n0 == code[e][p].n
    <3>1. /\ code[e][p] \in S!Stored /\ S!Stands(e, p, n0) /\ n0 \in 1..Mails
      BY <1>a, <2>6, Rows DEF Counts, S!Stands, S!Stored
    <3>2. /\ code'[e][p] = [code[e][p] EXCEPT !.attempts = @ + 1]
          /\ \A f \in Inboxes, q \in S!Purposes : f # e \/ q # p => code'[f][q] = code[f][q]
      BY <1>a, <2>6 DEF Counts, S!TypeOK
    <3>3. code'[e][p].n = n0 /\ code'[e][p].attempts = code[e][p].attempts + 1
      BY <3>1, <3>2 DEF S!Stored
    <3>4. guesses[n0] = code[e][p].attempts BY <1>b, <3>1 DEF S!NumbersUnique
    <3>5. guesses'[n0] = guesses[n0] + 1 /\ \A n \in 1..Mails : n # n0 => guesses'[n] = guesses[n]
      BY <1>a, <2>6, <3>1 DEF Counts, S!TypeOK
    <3>6. code[e][p].attempts < Attempts /\ code[e][p].attempts \in Nat /\ UNCHANGED consumed
      BY <2>6, <3>1 DEF Counts, S!Stored
    <3>7. n0 <= mails BY <1>b, <3>1 DEF S!NumbersUnique
    <3>8. mails \in Nat BY <1>a DEF S!TypeOK
    <3> HIDE DEF n0
    <3>9. \A f \in Inboxes, q \in S!Purposes, n \in 1..Mails :
            S!Stands(f, q, n)' => /\ S!Stands(f, q, n)
                                  /\ \/ f = e /\ q = p /\ n = n0
                                     \/ n # n0 /\ code'[f][q] = code[f][q]
      <4> SUFFICES ASSUME NEW f \in Inboxes, NEW q \in S!Purposes, NEW n \in 1..Mails,
                          S!Stands(f, q, n)'
                   PROVE  /\ S!Stands(f, q, n)
                          /\ \/ f = e /\ q = p /\ n = n0
                             \/ n # n0 /\ code'[f][q] = code[f][q]
        OBVIOUS
      <4>1. CASE f = e /\ q = p BY <3>1, <3>3, <4>1 DEF S!Stands
      <4>2. CASE f # e \/ q # p
        <5>1. S!Stands(f, q, n) /\ code'[f][q] = code[f][q] BY <3>2, <4>2 DEF S!Stands
        <5> QED BY <1>b, <3>1, <4>2, <5>1 DEF S!NumbersUnique
      <4> QED BY <4>1, <4>2
    <3>10. S!GuessesBounded' BY <1>b, <3>4, <3>5, <3>6 DEF S!GuessesBounded
    <3>11. S!CodesSpentOnce' BY <1>b, <2>3, <3>6 DEF S!CodesSpentOnce
    <3>12. S!NumbersUnique'
      BY <1>b, <2>3, <3>3, <3>4, <3>5, <3>6, <3>7, <3>8, <3>9 DEF S!NumbersUnique
    <3> QED BY <3>10, <3>11, <3>12 DEF Numbers
  <2>7. CASE UNCHANGED <<code, consumed, guesses>> BY <1>0, <2>3, <2>7
  <2> QED BY <2>2, <2>4, <2>5, <2>6, <2>7 DEF Forgets
<1> QED BY <1>0, <1>1, <1>2, <1>3 DEF S!Next, S!vars, S!register, S!verifyEmail, S!resetPassword,
    S!InsertUser, S!CreatePersonalWorkspace,
      S!MarkEmailVerified, S!UpdateUserPassword, S!Crash

\* A request presents what was mailed to its email, or a guess; one that may
\* set a password presented the reset code.
Backed(r, box, us) ==
  /\ r.at \in DOMAIN S!After /\ r.code # S!Guess => \E m \in box : m.email = r.email /\ m.n = r.code
  /\ r.at = "update" => [email |-> r.email, purpose |-> "reset", n |-> r.code] \in box
  /\ r.at = "home" => us[r.email] # S!NoUser

\* It is enough that what moves is backed, since mails and accounts stay.
LEMMA PresentedKept ==
  ASSUME S!TypeOK, S!Presented, inbox \subseteq inbox',
         \A e \in Inboxes : user[e] # S!NoUser => user'[e] # S!NoUser,
         \A h \in Handlers : signing'[h] = signing[h] \/ Backed(signing'[h], inbox', user')
  PROVE  S!Presented'
<1>1. ASSUME NEW h \in Handlers PROVE Backed(signing'[h], inbox', user')
  <2>1. CASE signing'[h] = signing[h]
    <3>1. Backed(signing[h], inbox, user) BY DEF S!Presented, Backed, S!At
    <3>2. signing[h].at = "home" => signing[h].email \in Inboxes BY Asks
    <3> QED BY <2>1, <3>1, <3>2 DEF Backed
  <2> QED BY <2>1
<1> QED BY <1>1 DEF S!Presented, Backed, S!At

\* A request that waits presents nothing.
LEMMA IdleBacked == ASSUME NEW box, NEW us PROVE Backed(S!Idle, box, us)
BY DEF Backed, S!Idle, S!After

\* The updates keep an account and its workspace; only the password or the

\* verification changes.
LEMMA HomesKept ==
  ASSUME S!TypeOK, NEW h \in Handlers, S!MarkEmailVerified(h) \/ S!UpdateUserPassword(h)
  PROVE  \A e \in Inboxes : (user'[e] = S!NoUser <=> user[e] = S!NoUser) /\ user'[e].home = user[e].home
<1> TAKE e \in Inboxes
<1>1. signing[h].email \in Inboxes BY Asks DEF S!MarkEmailVerified, S!UpdateUserPassword, S!At
<1>2. CASE user[e] = S!NoUser BY <1>1, <1>2 DEF S!MarkEmailVerified, S!UpdateUserPassword, S!TypeOK
<1>3. CASE user[e] # S!NoUser
  <2>1. user[e] \in S!Account BY <1>3 DEF S!TypeOK
  <2>2. \/ user'[e] = user[e] \/ user'[e] = [user[e] EXCEPT !.verified = TRUE]
        \/ \E pw \in S!Passwords : user'[e] = [user[e] EXCEPT !.pw = pw]
    BY <1>1 DEF S!MarkEmailVerified, S!UpdateUserPassword, S!TypeOK
  <2>3. user'[e].home = user[e].home BY <2>1, <2>2 DEF S!Account
  <2>4. user'[e].pw \in S!Passwords BY <2>1, <2>2 DEF S!Account
  <2>5. user'[e] # S!NoUser BY <2>4 DEF S!Passwords, S!NoUser
  <2> QED BY <1>3, <2>3, <2>5
<1> QED BY <1>2, <1>3

\* No update takes an account away.
LEMMA AccountsKept ==
  ASSUME S!TypeOK, S!Presented, NEW h \in Handlers,
         S!CreatePersonalWorkspace(h) \/ S!MarkEmailVerified(h) \/ S!UpdateUserPassword(h)
  PROVE  \A e \in Inboxes : user[e] # S!NoUser => user'[e] # S!NoUser
<1>1. CASE S!CreatePersonalWorkspace(h)
  <2> SUFFICES ASSUME NEW e \in Inboxes, user[e] # S!NoUser PROVE user'[e] # S!NoUser OBVIOUS
  <2>1. user[e] \in S!Account BY DEF S!TypeOK
  <2>2. user'[e] = user[e] \/ user'[e] = [user[e] EXCEPT !.home = TRUE]
    BY <1>1 DEF S!CreatePersonalWorkspace, S!TypeOK
  <2>3. user'[e].pw = user[e].pw BY <2>1, <2>2 DEF S!Account
  <2> QED BY <2>1, <2>3 DEF S!Account, S!Passwords, S!NoUser
<1>2. CASE ~S!CreatePersonalWorkspace(h) BY <1>2, HomesKept
<1> QED BY <1>1, <1>2

\* What requests present stays backed by the inbox.
LEMMA SignInPresented == S!SignInInv /\ [S!Next]_(S!vars) => S!Presented'
<1> SUFFICES ASSUME S!SignInInv, [S!Next]_(S!vars) PROVE S!Presented' OBVIOUS
<1>a. S!TypeOK /\ S!Presented BY DEF S!SignInInv, S!SignInHolds
<1>b. Backed(S!Idle, inbox', user') BY IdleBacked
<1>1. ASSUME NEW e \in Inboxes, NEW p \in S!Purposes, S!sendCode(e, p) \/ S!ExpireCode(e, p)
      PROVE S!Presented'
  <2>1. inbox \subseteq inbox' /\ UNCHANGED <<user, signing>> BY <1>1 DEF S!sendCode, S!ExpireCode
  <2> QED BY <1>a, <2>1, PresentedKept
<1>2. ASSUME NEW h \in Handlers, NEW e \in Inboxes, NEW c \in S!Typed(e),
             S!register(h, e, c) \/ S!verifyEmail(h, e, c) \/ S!resetPassword(h, e, c)
      PROVE  S!Presented'
  <2>1. PICK r : /\ S!Go(h, r) /\ r.at \in DOMAIN S!After /\ r.at # "update" /\ r.at # "home"
                 /\ r.email = e /\ r.code = c
    BY <1>2 DEF S!register, S!verifyEmail, S!resetPassword, S!After
  <2>2. UNCHANGED <<user, inbox>> BY <1>2 DEF S!register, S!verifyEmail, S!resetPassword
  <2>3. c # S!Guess => \E m \in inbox : m.email = e /\ m.n = c BY DEF S!Typed
  <2>4. Backed(r, inbox', user') BY <2>1, <2>2, <2>3 DEF Backed
  <2>5. \A g \in Handlers : signing'[g] = signing[g] \/ Backed(signing'[g], inbox', user')
    BY <1>a, <2>1, <2>4, SignMoves
  <2> QED BY <1>a, <2>2, <2>5, PresentedKept
<1>3. ASSUME NEW h \in Handlers, S!CheckCode(h) PROVE S!Presented'
  <2>1. UNCHANGED <<user, inbox>> /\ signing[h].at \in DOMAIN S!After BY <1>3 DEF S!CheckCode
  <2>2. signing'[h] = S!Idle \/ /\ signing'[h] = [signing[h] EXCEPT !.at = S!After[signing[h].at]]
                                /\ S!Accepts(signing[h].email, signing[h].purpose, signing[h].code)
    BY <1>3, <1>a, SignMoves DEF S!CheckCode
  <2>3. \A g \in Handlers \ {h} : signing'[g] = signing[g] BY <1>3, <1>a, SignMoves DEF S!CheckCode
  <2>4. ASSUME S!Accepts(signing[h].email, signing[h].purpose, signing[h].code),
               NEW r, r = [signing[h] EXCEPT !.at = S!After[signing[h].at]]
        PROVE  Backed(r, inbox', user')
    <3>1. /\ r.at = S!After[signing[h].at] /\ r.email = signing[h].email /\ r.code = signing[h].code
          /\ signing[h].purpose = S!PurposeOf[signing[h].at]
      BY <2>1, <2>4, <1>a, Asks DEF S!After
    <3>2. r.at \notin DOMAIN S!After /\ r.at # "home" BY <2>1, <3>1 DEF S!After
    <3>3. r.at = "update" => signing[h].purpose = "reset" BY <2>1, <3>1 DEF S!After, S!PurposeOf
    <3>4. [email |-> signing[h].email, purpose |-> signing[h].purpose, n |-> signing[h].code] \in inbox
      BY <2>1, <2>4, Accepted
    <3> QED BY <2>1, <3>1, <3>2, <3>3, <3>4 DEF Backed
  <2>5. Backed(signing'[h], inbox', user') BY <1>b, <2>2, <2>4
  <2> QED BY <1>a, <2>1, <2>3, <2>5, PresentedKept
<1>4. ASSUME NEW h \in Handlers, S!InsertUser(h) PROVE S!Presented'
  <2>1. UNCHANGED inbox /\ S!At(h, "insert") BY <1>4 DEF S!InsertUser
  <2>2. signing[h].email \in Inboxes BY <2>1, <1>a, Asks DEF S!At
  <2>3. \A e \in Inboxes : user[e] # S!NoUser => user'[e] # S!NoUser
    BY <1>4, <1>a, <2>2 DEF S!InsertUser, S!TypeOK
  <2>4. CASE S!Go(h, S!Idle) BY <1>a, <1>b, <2>1, <2>3, <2>4, SignMoves, PresentedKept
  <2>5. CASE ~S!Go(h, S!Idle)
    <3>1. /\ S!Go(h, [signing[h] EXCEPT !.at = "home"])
          /\ user' = [user EXCEPT ![signing[h].email] = [verified |-> TRUE, pw |-> "first", home |-> FALSE]]
      BY <1>4, <2>5 DEF S!InsertUser
    <3>2. user'[signing[h].email] # S!NoUser BY <1>a, <2>2, <3>1 DEF S!TypeOK, S!NoUser
    <3>3. [signing[h] EXCEPT !.at = "home"].at = "home"
          /\ [signing[h] EXCEPT !.at = "home"].email = signing[h].email
      BY <2>1, <1>a, Moved DEF S!At, S!PurposeOf
    <3>4. Backed([signing[h] EXCEPT !.at = "home"], inbox', user') BY <3>2, <3>3 DEF Backed, S!After
    <3>5. /\ signing'[h] = [signing[h] EXCEPT !.at = "home"]
          /\ \A g \in Handlers \ {h} : signing'[g] = signing[g]
      BY <3>1, <1>a, SignMoves
    <3> QED BY <1>a, <2>1, <2>3, <3>4, <3>5, PresentedKept
  <2> QED BY <2>4, <2>5
<1>5. ASSUME NEW h \in Handlers,
             S!CreatePersonalWorkspace(h) \/ S!MarkEmailVerified(h) \/ S!UpdateUserPassword(h)
      PROVE  S!Presented'
  <2>1. UNCHANGED inbox /\ S!Go(h, S!Idle)
    BY <1>5 DEF S!CreatePersonalWorkspace, S!MarkEmailVerified, S!UpdateUserPassword
  <2>2. \A e \in Inboxes : user[e] # S!NoUser => user'[e] # S!NoUser BY <1>5, <1>a, AccountsKept
  <2> QED BY <1>a, <1>b, <2>1, <2>2, SignMoves, PresentedKept
<1>6. CASE S!Crash
  <2>1. \A h \in Handlers : signing'[h] = S!Idle BY <1>6 DEF S!Crash
  <2> QED BY <1>a, <1>b, <1>6, <2>1, PresentedKept DEF S!Crash
<1>7. CASE UNCHANGED S!vars BY <1>a, <1>7, PresentedKept DEF S!vars
<1> QED BY <1>1, <1>2, <1>3, <1>4, <1>5, <1>6, <1>7 DEF S!Next

\* An account keeps its workspace as long as nothing rewrites it, and its

\* registration goes on.
LEMMA RegisteredKept ==
  ASSUME Registered, UNCHANGED <<born, orphaned>>,
         \A e \in Inboxes : (user'[e] = S!NoUser <=> user[e] = S!NoUser) /\ user'[e].home = user[e].home,
         \A h \in Handlers : S!At(h, "home") => signing'[h] = signing[h]
  PROVE  Registered'
<1>1. S!BornOnce' BY DEF Registered, S!BornOnce
<1>2. S!OneAccountWithHome'
  <2>1. \A h \in Handlers : S!At(h, "home") => S!At(h, "home")' /\ signing'[h].email = signing[h].email
    BY DEF S!At
  <2> QED BY <2>1 DEF Registered, S!OneAccountWithHome
<1> QED BY <1>1, <1>2 DEF Registered

\* One account per email, with its workspace or its registration.
LEMMA SignInRegistered == S!SignInInv /\ [S!Next]_(S!vars) => Registered'
<1> SUFFICES ASSUME S!SignInInv, [S!Next]_(S!vars) PROVE Registered' OBVIOUS
<1>a. S!TypeOK /\ S!Presented BY DEF S!SignInInv, S!SignInHolds
<1>r. Registered BY DEF S!SignInInv, S!SignInHolds, Registered
<1>1. ASSUME NEW e \in Inboxes, NEW p \in S!Purposes, S!sendCode(e, p) \/ S!ExpireCode(e, p)
      PROVE Registered'
  <2>1. UNCHANGED <<user, signing, born, orphaned>> BY <1>1 DEF S!sendCode, S!ExpireCode
  <2> QED BY <1>r, <2>1, RegisteredKept
<1>2. ASSUME NEW h \in Handlers, NEW next, S!Go(h, next), ~S!At(h, "home"),
             UNCHANGED <<user, born, orphaned>>
      PROVE  Registered'
  <2>1. \A g \in Handlers : S!At(g, "home") => signing'[g] = signing[g] BY <1>2, <1>a, SignMoves
  <2> QED BY <1>2, <1>r, <2>1, RegisteredKept
<1>3. ASSUME NEW h \in Handlers, NEW e \in Inboxes, NEW c \in S!Typed(e),
             S!register(h, e, c) \/ S!verifyEmail(h, e, c) \/ S!resetPassword(h, e, c)
      PROVE  Registered'
  BY <1>2, <1>3 DEF S!register, S!verifyEmail, S!resetPassword, S!At
<1>4. ASSUME NEW h \in Handlers, S!CheckCode(h) PROVE Registered'
  <2>1. ~S!At(h, "home") BY <1>4 DEF S!CheckCode, S!At, S!After
  <2> QED BY <1>2, <1>4, <2>1 DEF S!CheckCode
<1>5. ASSUME NEW h \in Handlers, S!InsertUser(h) PROVE Registered'
  <2> DEFINE e == signing[h].email
  <2>1. S!At(h, "insert") /\ e \in Inboxes /\ ~S!At(h, "home")
    BY <1>5, <1>a, Asks DEF S!InsertUser, S!At
  <2>2. CASE user[e] # S!NoUser BY <1>2, <1>5, <2>1, <2>2 DEF S!InsertUser
  <2>3. CASE user[e] = S!NoUser
    <3>1. /\ user' = [user EXCEPT ![e] = [verified |-> TRUE, pw |-> "first", home |-> FALSE]]
          /\ born' = [born EXCEPT ![e] = @ + 1] /\ UNCHANGED orphaned
          /\ S!Go(h, [signing[h] EXCEPT !.at = "home"])
      BY <1>5, <2>3 DEF S!InsertUser
    <3>2. /\ signing'[h].at = "home" /\ signing'[h].email = e
          /\ \A g \in Handlers \ {h} : signing'[g] = signing[g]
      <4>1. /\ signing'[h] = [signing[h] EXCEPT !.at = "home"]
            /\ \A g \in Handlers \ {h} : signing'[g] = signing[g]
        BY <1>a, <3>1, SignMoves
      <4>2. [signing[h] EXCEPT !.at = "home"].at = "home" /\ [signing[h] EXCEPT !.at = "home"].email = e
        BY <1>a, <2>1, Moved DEF S!At, S!PurposeOf
      <4> QED BY <4>1, <4>2
    <3> HIDE DEF e
    <3>3. /\ user'[e] # S!NoUser /\ born'[e] = born[e] + 1
          /\ \A f \in Inboxes \ {e} : user'[f] = user[f] /\ born'[f] = born[f]
      BY <1>a, <2>1, <3>1 DEF S!TypeOK, S!NoUser
    <3>4. born[e] = 0 BY <1>r, <2>1, <2>3 DEF Registered, S!BornOnce
    <3>5. S!BornOnce' BY <1>r, <3>3, <3>4 DEF Registered, S!BornOnce
    <3>6. \A g \in Handlers : S!At(g, "home") => S!At(g, "home")' /\ signing'[g].email = signing[g].email
      BY <2>1, <3>2 DEF S!At
    <3>7. ASSUME NEW f \in Inboxes
          PROVE  /\ born'[f] <= 1
                 /\ (user'[f] # S!NoUser /\ ~user'[f].home) =>
                      f \in orphaned' \/ \E g \in Handlers : S!At(g, "home")' /\ signing'[g].email = f
      <4>1. CASE f = e BY <3>2, <3>3, <3>4, <4>1 DEF S!At
      <4>2. CASE f # e BY <1>r, <3>1, <3>3, <3>6, <4>2 DEF Registered, S!OneAccountWithHome
      <4> QED BY <4>1, <4>2
    <3>8. S!OneAccountWithHome' BY <3>7 DEF S!OneAccountWithHome
    <3> QED BY <3>5, <3>8 DEF Registered
  <2> QED BY <2>2, <2>3
<1>6. ASSUME NEW h \in Handlers, S!CreatePersonalWorkspace(h) PROVE Registered'
  <2> DEFINE e == signing[h].email
  <2>1. S!At(h, "home") /\ e \in Inboxes /\ user[e] # S!NoUser
    BY <1>6, <1>a, Asks DEF S!CreatePersonalWorkspace, S!At, S!Presented
  <2>2. user[e] \in S!Account BY <1>a, <2>1 DEF S!TypeOK
  <2>3. /\ user' = [user EXCEPT ![e].home = TRUE] /\ UNCHANGED <<born, orphaned>> /\ S!Go(h, S!Idle)
    BY <1>6 DEF S!CreatePersonalWorkspace
  <2>4. \A g \in Handlers \ {h} : signing'[g] = signing[g] BY <1>a, <2>3, SignMoves
  <2>5. \A g \in Handlers \ {h} : S!At(g, "home") => S!At(g, "home")' /\ signing'[g].email = signing[g].email
    BY <2>4 DEF S!At
  <2> HIDE DEF e
  <2>6. /\ user'[e] # S!NoUser /\ user'[e].home
        /\ \A f \in Inboxes \ {e} : user'[f] = user[f]
    BY <1>a, <2>1, <2>2, <2>3 DEF S!TypeOK, S!Account, S!NoUser
  <2>7. S!BornOnce' BY <1>r, <2>1, <2>3, <2>6 DEF Registered, S!BornOnce
  <2>8. ASSUME NEW f \in Inboxes
        PROVE  /\ born'[f] <= 1
               /\ (user'[f] # S!NoUser /\ ~user'[f].home) =>
                    f \in orphaned' \/ \E g \in Handlers : S!At(g, "home")' /\ signing'[g].email = f
    <3>1. CASE f = e BY <1>r, <2>3, <2>6, <3>1 DEF Registered, S!OneAccountWithHome
    <3>2. CASE f # e
      <4>1. \A g \in Handlers : signing[g].email = f => g # h BY <3>2 DEF e
      <4> QED BY <1>r, <2>3, <2>5, <2>6, <3>2, <4>1 DEF Registered, S!OneAccountWithHome
    <3> QED BY <3>1, <3>2
  <2>9. S!OneAccountWithHome' BY <2>8 DEF S!OneAccountWithHome
  <2> QED BY <2>7, <2>9 DEF Registered
<1>7. ASSUME NEW h \in Handlers, S!MarkEmailVerified(h) \/ S!UpdateUserPassword(h) PROVE Registered'
  <2>1. ~S!At(h, "home") /\ S!Go(h, S!Idle) /\ UNCHANGED <<born, orphaned>>
    BY <1>7 DEF S!MarkEmailVerified, S!UpdateUserPassword, S!At
  <2>2. \A g \in Handlers : S!At(g, "home") => signing'[g] = signing[g] BY <1>a, <2>1, SignMoves
  <2>3. \A e \in Inboxes : (user'[e] = S!NoUser <=> user[e] = S!NoUser) /\ user'[e].home = user[e].home
    BY <1>7, <1>a, HomesKept
  <2> QED BY <1>r, <2>1, <2>2, <2>3, RegisteredKept
<1>8. CASE S!Crash
  <2>1. UNCHANGED <<user, born>> /\ orphaned \subseteq orphaned'
        /\ \A h \in Handlers : S!At(h, "home") => signing[h].email \in orphaned'
    BY <1>8 DEF S!Crash
  <2> QED BY <1>r, <2>1 DEF Registered, S!BornOnce, S!OneAccountWithHome
<1>9. CASE UNCHANGED S!vars BY <1>r, <1>9, RegisteredKept DEF S!vars
<1> QED BY <1>1, <1>3, <1>4, <1>5, <1>6, <1>7, <1>8, <1>9 DEF S!Next

\* Only UpdateUserPassword rewrites a password.
LEMMA PasswordStep == S!SignInInv /\ [S!Next]_(S!vars) => S!PasswordChange
<1> SUFFICES ASSUME S!SignInInv, [S!Next]_(S!vars), NEW e \in Inboxes, user[e] # S!NoUser,
                    user'[e].pw # user[e].pw
             PROVE  \E h \in Handlers : /\ S!At(h, "update") /\ signing[h].email = e
                                        /\ [email |-> e, purpose |-> "reset", n |-> signing[h].code] \in inbox
  BY DEF S!PasswordChange
<1>a. S!TypeOK /\ S!Presented BY DEF S!SignInInv, S!SignInHolds
<1>1. ASSUME NEW h \in Handlers, S!InsertUser(h) PROVE FALSE
  <2>1. signing[h].email \in Inboxes BY <1>1, <1>a, Asks DEF S!InsertUser, S!At
  <2>2. e = signing[h].email \/ user'[e] = user[e] BY <1>1, <1>a, <2>1 DEF S!InsertUser, S!TypeOK
  <2>3. e = signing[h].email => user' = user BY <1>1 DEF S!InsertUser
  <2> QED BY <2>2, <2>3
<1>2. ASSUME NEW h \in Handlers, S!CreatePersonalWorkspace(h) \/ S!MarkEmailVerified(h) PROVE FALSE
  <2>1. signing[h].email \in Inboxes
    BY <1>2, <1>a, Asks DEF S!CreatePersonalWorkspace, S!MarkEmailVerified, S!At
  <2>2. user[e] \in S!Account BY <1>a DEF S!TypeOK
  <2>3. \/ user'[e] = user[e] \/ user'[e] = [user[e] EXCEPT !.home = TRUE]
        \/ user'[e] = [user[e] EXCEPT !.verified = TRUE]
    BY <1>2, <1>a, <2>1 DEF S!CreatePersonalWorkspace, S!MarkEmailVerified, S!TypeOK
  <2> QED BY <2>2, <2>3 DEF S!Account
<1>3. ASSUME NEW h \in Handlers, S!UpdateUserPassword(h)
      PROVE  /\ S!At(h, "update") /\ signing[h].email = e
             /\ [email |-> e, purpose |-> "reset", n |-> signing[h].code] \in inbox
  <2>1. S!At(h, "update") /\ signing[h].email \in Inboxes
    BY <1>3, <1>a, Asks DEF S!UpdateUserPassword, S!At
  <2>2. signing[h].email = e BY <1>3, <1>a, <2>1 DEF S!UpdateUserPassword, S!TypeOK
  <2> QED BY <1>a, <2>1, <2>2 DEF S!Presented
<1>4. ASSUME UNCHANGED user PROVE FALSE BY <1>4
<1> QED BY <1>1, <1>2, <1>3, <1>4 DEF S!Next, S!vars, S!sendCode, S!ExpireCode, S!register,
    S!verifyEmail, S!resetPassword,
      S!CheckCode, S!Crash

\* The inductive step of sign-in.
LEMMA SignInStep == S!SignInInv /\ [S!Next]_(S!vars) => S!SignInInv'
BY SignInTypes, SignInNumbers, SignInPresented, SignInRegistered
  DEF S!SignInInv, S!SignInHolds, Numbers, Registered

-----------------------------------------------------------------------------
(* Single sign-on.                                                          *)

Handoffs == O!RedeemedOnce /\ O!ReplayAnswerable /\ O!OneHolder /\ O!CodesOwned
Authority == O!AuthorityFromRow /\ O!EditsGrow

\* The first state: no code, no request.
LEMMA SsoInit == O!Init => O!SsoInv
<1> SUFFICES ASSUME O!Init PROVE O!SsoInv OBVIOUS
<1> USE AccountsAssumption DEF O!Init, O!SsoAssumption
<1>1. O!TypeOK
  <2>1. ASSUME NEW u \in Users PROVE row[u] \in O!Row /\ row[u].role \in O!Roles
    <3>1. row[u] \in {[role |-> r, disabled |-> FALSE, edits |-> 0] : r \in O!Roles} OBVIOUS
    <3>2. PICK r \in O!Roles : row[u] = [role |-> r, disabled |-> FALSE, edits |-> 0] BY <3>1
    <3> QED BY <3>2 DEF O!Row
  <2>3. row \in [Users -> O!Row] BY <2>1
  <2>2. O!Idle \in O!Request BY DEF O!Idle, O!Request
  <2> QED BY <2>1, <2>2, <2>3 DEF O!TypeOK
<1>2. \A h \in Handlers : redeeming[h].at = "idle" BY DEF O!Idle
<1> QED BY <1>1, <1>2 DEF O!SsoInv, O!SsoHolds, O!RedeemedOnce, O!ReplayAnswerable,
    O!AuthorityFromRow, O!OneHolder, O!Holds,
      O!CodesOwned, O!EditsGrow, O!At

\* Only the request h moves on, to next.
LEMMA SsoMoves ==
  ASSUME O!TypeOK, NEW h \in Handlers, NEW next, O!Go(h, next)
  PROVE  redeeming'[h] = next /\ \A g \in Handlers \ {h} : redeeming'[g] = redeeming[g]
BY DEF O!TypeOK, O!Go

\* Types are kept.
LEMMA SsoTypes == O!SsoInv /\ [O!Next]_(O!vars) => O!TypeOK'
<1> SUFFICES ASSUME O!SsoInv, [O!Next]_(O!vars) PROVE O!TypeOK' OBVIOUS
<1> USE AccountsAssumption DEF O!SsoAssumption, O!SsoInv, O!SsoHolds, O!At, O!TypeOK
<1>1. ASSUME NEW h \in Handlers, NEW s \in sessions, O!RequireUser(h, s) \/ O!LegacyAdminSSO(h, s)
      PROVE O!TypeOK'
  BY <1>1 DEF O!RequireUser, O!LegacyAdminSSO, O!Go, O!Request, O!Row
<1>2. ASSUME NEW h \in Handlers, NEW c \in SsoCodes, O!issueCode(h, c) PROVE O!TypeOK'
  BY <1>2 DEF O!issueCode, O!CreateSSOCode, O!Go, O!Request, O!Idle
<1>3. ASSUME NEW h \in Handlers, NEW c \in SsoCodes, O!RedeemSelect(h, c) PROVE O!TypeOK'
  BY <1>3 DEF O!RedeemSelect, O!Go, O!Request
<1>4. ASSUME NEW h \in Handlers, NEW u \in Users, O!updateUser(h, u) PROVE O!TypeOK'
  BY <1>4 DEF O!updateUser, O!Go, O!Request, O!Idle, O!Row
<1>5. ASSUME NEW h \in Handlers, O!Finish(h) PROVE O!TypeOK'
  BY <1>5 DEF O!Finish, O!Go, O!Request, O!Idle
<1>6. ASSUME NEW h \in Handlers, O!RedeemUpdate(h) PROVE O!TypeOK'
  <2>1. redeeming[h].code \in SsoCodes /\ redeeming[h].at = "selected"
    BY <1>6 DEF O!RedeemUpdate, O!Request
  <2>2. [redeeming[h] EXCEPT !.at = "spent"] \in O!Request
    <3>1. redeeming[h] \in [at : {"selected", "spent"}, code : SsoCodes] BY <2>1 DEF O!Request
    <3> QED BY <3>1 DEF O!Request
  <2>3. O!Idle \in O!Request BY DEF O!Idle, O!Request
  <2>4. redeeming' \in [Handlers -> O!Request] BY <1>6, <2>2, <2>3 DEF O!RedeemUpdate, O!Go
  <2>5. sso' \in [SsoCodes -> [st : {"free", "fresh", "used", "pruned"},
                             user : Users \cup {"none"}, expires : Nat]]
    <3>1. sso' = [sso EXCEPT ![redeeming[h].code].st = "used"] \/ sso' = sso
      BY <1>6 DEF O!RedeemUpdate
    <3> QED BY <2>1, <3>1
  <2>6. UNCHANGED <<clock, row, sessions, issued>> BY <1>6 DEF O!RedeemUpdate
  <2> QED BY <2>4, <2>5, <2>6
<1>7. ASSUME NEW h \in Handlers, O!ReloadUser(h) PROVE O!TypeOK'
  BY <1>7 DEF O!ReloadUser, O!Go, O!Request, O!Idle, O!OneHolder, O!Holds, O!CodesOwned, O!Row
<1>8. ASSUME NEW h \in Handlers, O!Issue(h) PROVE O!TypeOK'
  BY <1>8 DEF O!Issue, O!Go, O!Request, O!Idle
<1>9. CASE O!PruneSSOCodes BY <1>9 DEF O!PruneSSOCodes
<1>10. CASE O!Tick BY <1>10 DEF O!Tick
<1>11. CASE UNCHANGED O!vars BY <1>11 DEF O!vars
<1> QED BY <1>1, <1>2, <1>3, <1>4, <1>5, <1>6, <1>7, <1>8, <1>9, <1>10, <1>11 DEF O!Next

\* A request is vouched for by the row it loaded.
Vouched(r) ==
  r.at \in {"acting", "console", "issue"} =>
    /\ r.edits <= row[r.user].edits
    /\ row[r.user].edits = r.edits => ~row[r.user].disabled /\ row[r.user].role = r.role

\* The two parts about authority, request by request.
LEMMA AuthorityIs == Authority <=> \A h \in Handlers : Vouched(redeeming[h])
BY DEF Authority, O!AuthorityFromRow, O!EditsGrow, Vouched

\* While no row is edited it is enough that the request that moves is vouched for.
LEMMA AuthorityKept ==
  ASSUME O!TypeOK, Authority, UNCHANGED row, NEW h \in Handlers, NEW next, O!Go(h, next),
         Vouched(next)
  PROVE  Authority'
<1>1. \A r : Vouched(r)' <=> Vouched(r)
  <2> SUFFICES ASSUME NEW r PROVE Vouched(r)' <=> Vouched(r) OBVIOUS
  <2> QED BY DEF Vouched
<1>2. \A g \in Handlers : Vouched(redeeming'[g]) BY SsoMoves, AuthorityIs
<1> QED BY <1>1, <1>2 DEF Authority, O!AuthorityFromRow, O!EditsGrow, Vouched

\* Authority is kept: an edit of a row makes what was loaded of it outdated.
LEMMA SsoAuthority == O!SsoInv /\ [O!Next]_(O!vars) => Authority'
<1> SUFFICES ASSUME O!SsoInv, [O!Next]_(O!vars) PROVE Authority' OBVIOUS
<1> USE DEF O!SsoInv, O!SsoHolds, O!At
<1>a. Authority BY DEF Authority
<1>t. Vouched(O!Idle) BY DEF Vouched, O!Idle
<1>1. ASSUME NEW h \in Handlers, NEW s \in sessions, O!RequireUser(h, s) \/ O!LegacyAdminSSO(h, s)
      PROVE Authority'
  <2>1. row[s.user] \in O!Row BY DEF O!TypeOK
  <2> QED BY <1>1, <1>a, <2>1, AuthorityKept DEF O!RequireUser, O!LegacyAdminSSO, Vouched, O!Row
<1>2. ASSUME NEW h \in Handlers, NEW c \in SsoCodes, O!issueCode(h, c) PROVE Authority'
  BY <1>2, <1>a, <1>t, AuthorityKept DEF O!issueCode
<1>3. ASSUME NEW h \in Handlers, NEW c \in SsoCodes, O!RedeemSelect(h, c) PROVE Authority'
  BY <1>3, <1>a, AuthorityKept DEF O!RedeemSelect, Vouched
<1>4. ASSUME NEW h \in Handlers, NEW u \in Users, O!updateUser(h, u) PROVE Authority'
  <2>1. /\ row[u].edits \in Nat /\ row'[u].edits = row[u].edits + 1
        /\ \A v \in Users \ {u} : row'[v] = row[v]
    BY <1>4 DEF O!updateUser, O!TypeOK, O!Row
  <2>2. \A g \in Handlers : redeeming'[g] = redeeming[g] \/ redeeming'[g] = O!Idle
    BY <1>4, SsoMoves DEF O!updateUser
  <2>3. \A g \in Handlers : redeeming[g].at \in {"acting", "console", "issue"} =>
          redeeming[g].user \in Users /\ redeeming[g].edits \in Nat
    BY DEF O!TypeOK, O!Request
  <2> QED BY <1>a, <2>1, <2>2, <2>3 DEF Authority, O!AuthorityFromRow, O!EditsGrow, O!Idle
<1>5. ASSUME NEW h \in Handlers, O!Finish(h) PROVE Authority'
  BY <1>5, <1>a, <1>t, AuthorityKept DEF O!Finish
<1>6. ASSUME NEW h \in Handlers, O!RedeemUpdate(h) PROVE Authority'
  <2>1. Vouched([redeeming[h] EXCEPT !.at = "spent"])
    <3>1. redeeming[h] \in [at : {"selected", "spent"}, code : SsoCodes]
      BY <1>6 DEF O!RedeemUpdate, O!TypeOK, O!Request
    <3> QED BY <3>1 DEF Vouched
  <2> QED BY <1>6, <1>a, <1>t, <2>1, AuthorityKept DEF O!RedeemUpdate
<1>7. ASSUME NEW h \in Handlers, O!ReloadUser(h) PROVE Authority'
  <2>1. sso[redeeming[h].code].user \in Users 
    BY <1>7 DEF O!ReloadUser, O!TypeOK, O!Request, O!OneHolder, O!Holds, O!CodesOwned
  <2>2. row[sso[redeeming[h].code].user] \in O!Row BY <2>1 DEF O!TypeOK
  <2> DEFINE loaded == [at |-> "issue", code |-> redeeming[h].code,
                        user |-> sso[redeeming[h].code].user,
                        role |-> row[sso[redeeming[h].code].user].role,
                        edits |-> row[sso[redeeming[h].code].user].edits]
  <2>3. Vouched(O!Idle) BY DEF Vouched, O!Idle
  <2>4. ~row[sso[redeeming[h].code].user].disabled => Vouched(loaded)
    BY <2>2 DEF Vouched, O!Row
  <2>5. PICK next : O!Go(h, next) /\ Vouched(next) BY <1>7, <2>3, <2>4 DEF O!ReloadUser
  <2>6. UNCHANGED row BY <1>7 DEF O!ReloadUser
  <2> QED BY <1>a, <1>t, <2>5, <2>6, AuthorityKept
<1>8. ASSUME NEW h \in Handlers, O!Issue(h) PROVE Authority'
  BY <1>8, <1>a, <1>t, AuthorityKept DEF O!Issue
<1>9. CASE O!PruneSSOCodes \/ O!Tick \/ UNCHANGED O!vars
  BY <1>9, <1>a DEF O!PruneSSOCodes, O!Tick, O!vars, Authority, O!AuthorityFromRow, O!EditsGrow
<1> QED BY <1>1, <1>2, <1>3, <1>4, <1>5, <1>6, <1>7, <1>8, <1>9 DEF O!Next

\* A request that takes up no spent code keeps the parts about codes.
LEMMA HandoffsKept ==
  ASSUME O!TypeOK, O!TypeOK', Handoffs, UNCHANGED <<clock, sso, issued>>,
         NEW h \in Handlers, NEW next, O!Go(h, next),
         \A c \in SsoCodes : next.at \in {"spent", "issue"} /\ next.code = c => O!Holds(h, c),
         next.at = "selected" => sso[next.code].st # "free"
  PROVE  Handoffs'
<1>1. \A g \in Handlers, c \in SsoCodes : O!Holds(g, c)' => O!Holds(g, c) BY SsoMoves DEF O!Holds
<1> QED BY <1>1, SsoMoves DEF Handoffs, O!RedeemedOnce, O!ReplayAnswerable, O!OneHolder,
    O!CodesOwned, O!At

\* A code that was not spent has no session and nobody who is about to issue one.
LEMMA Unspent ==
  ASSUME O!TypeOK, Handoffs, NEW c \in SsoCodes, sso[c].st \notin {"used", "pruned"}
  PROVE  issued[c] = 0 /\ \A g \in Handlers : ~O!Holds(g, c)
<1>1. issued[c] = 0 BY DEF O!TypeOK, Handoffs, O!RedeemedOnce
<1>2. \A g \in Handlers : ~O!Holds(g, c) BY DEF Handoffs, O!OneHolder
<1> QED BY <1>1, <1>2

\* The parts about codes are kept: the UPDATE's guard lets one request spend one.
LEMMA SsoHandoffs == O!SsoInv /\ O!TypeOK' /\ [O!Next]_(O!vars) => Handoffs'
<1> SUFFICES ASSUME O!SsoInv, O!TypeOK', [O!Next]_(O!vars) PROVE Handoffs' OBVIOUS
<1> USE DEF O!SsoInv, O!SsoHolds, O!At
<1>a. Handoffs BY DEF Handoffs
<1>1. ASSUME NEW h \in Handlers, NEW s \in sessions, O!RequireUser(h, s) \/ O!LegacyAdminSSO(h, s)
      PROVE Handoffs'
  BY <1>1, <1>a, HandoffsKept DEF O!RequireUser, O!LegacyAdminSSO
<1>2. ASSUME NEW h \in Handlers, NEW c \in SsoCodes, O!issueCode(h, c) PROVE Handoffs'
  <2>1. redeeming[h].user \in Users BY <1>2 DEF O!issueCode, O!TypeOK, O!Request
  <2>2. /\ sso[c].st = "free" /\ sso'[c].st = "fresh" /\ sso'[c].user \in Users
        /\ \A d \in SsoCodes \ {c} : sso'[d] = sso[d]
    BY <1>2, <2>1 DEF O!issueCode, O!CreateSSOCode, O!TypeOK
  <2>3. \A g \in Handlers, d \in SsoCodes : O!Holds(g, d)' => O!Holds(g, d)
    BY <1>2, SsoMoves DEF O!issueCode, O!Holds, O!Idle
  <2>4. issued[c] = 0 /\ \A g \in Handlers : ~O!Holds(g, c) 
    BY <1>a, <2>2, Unspent
  <2>5. UNCHANGED <<clock, issued>> BY <1>2 DEF O!issueCode
  <2>6. \A g \in Handlers : redeeming'[g].at = "selected" =>
          redeeming'[g].code \in SsoCodes /\ redeeming'[g] = redeeming[g]
    BY <1>2, SsoMoves DEF O!issueCode, O!Idle, O!TypeOK, O!Request
  <2> QED
    BY <1>a, <2>2, <2>3, <2>4, <2>5, <2>6 DEF Handoffs, O!RedeemedOnce, O!ReplayAnswerable,
      O!OneHolder, O!CodesOwned
<1>3. ASSUME NEW h \in Handlers, NEW c \in SsoCodes, O!RedeemSelect(h, c) PROVE Handoffs'
  BY <1>3, <1>a, HandoffsKept DEF O!RedeemSelect
<1>4. ASSUME NEW h \in Handlers, NEW u \in Users, O!updateUser(h, u) PROVE Handoffs'
  BY <1>4, <1>a, HandoffsKept DEF O!updateUser, O!Idle
<1>5. ASSUME NEW h \in Handlers, O!Finish(h) PROVE Handoffs'
  BY <1>5, <1>a, HandoffsKept DEF O!Finish, O!Idle
<1>6. ASSUME NEW h \in Handlers, O!RedeemUpdate(h) PROVE Handoffs'
  <2> DEFINE c == redeeming[h].code
  <2>1. redeeming[h] \in [at : {"selected", "spent"}, code : SsoCodes]
    BY <1>6 DEF O!RedeemUpdate, O!TypeOK, O!Request
  <2>c. c \in SsoCodes BY <2>1
  <2>2. CASE sso[c].st = "fresh"
    <3>1. /\ sso'[c].st = "used" /\ sso'[c].user = sso[c].user
          /\ \A d \in SsoCodes \ {c} : sso'[d] = sso[d]
      BY <1>6, <2>1, <2>2 DEF O!RedeemUpdate, O!TypeOK
    <3>2. /\ redeeming'[h].at = "spent" /\ redeeming'[h].code = c
          /\ \A g \in Handlers \ {h} : redeeming'[g] = redeeming[g]
      BY <1>6, <2>1, <2>2, SsoMoves DEF O!RedeemUpdate
    <3>3. issued[c] = 0 /\ \A g \in Handlers : ~O!Holds(g, c)
      BY <1>a, <2>1, <2>2, Unspent
    <3>4. UNCHANGED <<clock, issued>> BY <1>6 DEF O!RedeemUpdate
    <3>5. \A g \in Handlers : redeeming[g].at = "selected" => redeeming[g].code \in SsoCodes
      BY DEF O!TypeOK, O!Request
    <3> HIDE DEF c
    <3>6. c \in SsoCodes BY <2>c
    <3>7. \A g \in Handlers, d \in SsoCodes : O!Holds(g, d)' => (g = h /\ d = c) \/ (d # c /\ O!Holds(g, d))
      BY <3>2, <3>3, <3>6 DEF O!Holds
    <3>8. O!RedeemedOnce' /\ O!ReplayAnswerable'
      BY <1>a, <2>2, <3>1, <3>4, <3>6 DEF Handoffs, O!RedeemedOnce, O!ReplayAnswerable
    <3>9. O!OneHolder' BY <1>a, <3>1, <3>3, <3>4, <3>6, <3>7 DEF Handoffs, O!OneHolder
    <3>10. O!CodesOwned' BY <1>a, <2>2, <3>1, <3>2, <3>5, <3>6 DEF Handoffs, O!CodesOwned
    <3> QED BY <3>8, <3>9, <3>10 DEF Handoffs
  <2>3. CASE sso[c].st # "fresh"
    BY <1>6, <1>a, <2>3, HandoffsKept DEF O!RedeemUpdate, O!Idle
  <2> QED BY <2>2, <2>3
<1>7. ASSUME NEW h \in Handlers, O!ReloadUser(h) PROVE Handoffs'
  <2>1. O!Holds(h, redeeming[h].code) BY <1>7 DEF O!ReloadUser, O!At, O!Holds
  <2>2. PICK next : /\ O!Go(h, next)
                    /\ next = O!Idle \/ (next.at = "issue" /\ next.code = redeeming[h].code)
    BY <1>7 DEF O!ReloadUser
  <2>3. UNCHANGED <<clock, sso, issued>> BY <1>7 DEF O!ReloadUser
  <2> QED BY <1>a, <2>1, <2>2, <2>3, HandoffsKept DEF O!Idle
<1>8. ASSUME NEW h \in Handlers, O!Issue(h) PROVE Handoffs'
  <2> DEFINE c == redeeming[h].code
  <2>1. c \in SsoCodes /\ O!Holds(h, c) BY <1>8 DEF O!Issue, O!TypeOK, O!Request, O!Holds
  <2>2. issued[c] = 0 /\ sso[c].st \in {"used", "pruned"} /\ \A g \in Handlers \ {h} : ~O!Holds(g, c)
    BY <1>a, <2>1 DEF Handoffs, O!OneHolder
  <2>3. issued'[c] = 1 /\ \A d \in SsoCodes \ {c} : issued'[d] = issued[d]
    BY <1>8, <2>1, <2>2 DEF O!Issue, O!TypeOK
  <2>4. redeeming'[h] = O!Idle /\ \A g \in Handlers \ {h} : redeeming'[g] = redeeming[g]
    BY <1>8, SsoMoves DEF O!Issue
  <2>5. UNCHANGED <<clock, sso>> BY <1>8 DEF O!Issue
  <2> HIDE DEF c
  <2> QED
    BY <1>a, <2>1, <2>2, <2>3, <2>4, <2>5 DEF Handoffs, O!RedeemedOnce, O!ReplayAnswerable,
      O!OneHolder, O!CodesOwned, O!Holds, O!Idle
<1>9. CASE O!PruneSSOCodes
  <2>1. \A c \in SsoCodes : \/ sso'[c] = sso[c]
                            \/ /\ sso[c].st \in {"fresh", "used"} /\ sso[c].expires + Grace < clock
                               /\ sso'[c].st = "pruned" /\ sso'[c].user = sso[c].user
                               /\ sso'[c].expires = sso[c].expires
    BY <1>9 DEF O!PruneSSOCodes, O!TypeOK
  <2>2. UNCHANGED <<clock, issued, redeeming>> BY <1>9 DEF O!PruneSSOCodes
  <2>3. \A g \in Handlers : redeeming[g].at = "selected" => redeeming[g].code \in SsoCodes
    BY DEF O!TypeOK, O!Request
  <2> QED
    BY <1>a, <2>1, <2>2, <2>3 DEF Handoffs, O!RedeemedOnce, O!ReplayAnswerable, O!OneHolder,
      O!CodesOwned, O!Holds
<1>10. CASE O!Tick
  <2>1. clock' = clock + 1 /\ UNCHANGED <<sso, issued, redeeming>> BY <1>10 DEF O!Tick
  <2>2. \A c \in SsoCodes : sso[c].expires + Grace \in Nat
    BY AccountsAssumption DEF O!TypeOK, O!SsoAssumption
  <2>3. clock \in Nat BY AccountsAssumption DEF O!TypeOK, O!SsoAssumption
  <2> QED
    BY <1>a, <2>1, <2>2, <2>3 DEF Handoffs, O!RedeemedOnce, O!ReplayAnswerable, O!OneHolder,
      O!CodesOwned, O!Holds
<1>11. CASE UNCHANGED O!vars
  BY <1>11, <1>a DEF O!vars, Handoffs, O!RedeemedOnce, O!ReplayAnswerable, O!OneHolder,
    O!CodesOwned, O!Holds
<1> QED BY <1>1, <1>2, <1>3, <1>4, <1>5, <1>6, <1>7, <1>8, <1>9, <1>10, <1>11 DEF O!Next

\* The inductive step of single sign-on.
LEMMA SsoStep == O!SsoInv /\ [O!Next]_(O!vars) => O!SsoInv'
BY SsoTypes, SsoAuthority, SsoHandoffs DEF O!SsoInv, O!SsoHolds, Authority, Handoffs

-----------------------------------------------------------------------------
(* Workspaces.                                                              *)

\* The first state: no invite, no member, no request.
LEMMA MembershipInit == W!Init => W!MembershipInv
<1> SUFFICES ASSUME W!Init PROVE W!MembershipInv OBVIOUS
<1> USE AccountsAssumption DEF W!Init, W!WorkspacesAssumption
<1>1. W!TypeOK
  <2>1. W!NoInvite \in [st : {"none", "pending", "accepted", "revoked"}, to : Users \cup {"nobody"},
                       role : W!Roles, live : BOOLEAN]
    BY DEF W!NoInvite, W!Roles
  <2>2. W!Idle \in W!Request BY DEF W!Idle, W!Request
  <2>3. issues \in 0..Issues OBVIOUS
  <2>4. /\ invite \in [Right -> [st : {"none", "pending", "accepted", "revoked"},
                     to : Users \cup {"nobody"}, role : W!Roles, live : BOOLEAN]]
        /\ inviting \in [Handlers -> W!Request]
    BY <2>1, <2>2
  <2>5. roles \in [Users -> {"none"} \cup W!Roles] OBVIOUS
  <2> QED BY <2>3, <2>4, <2>5 DEF W!TypeOK
<1> QED BY <1>1 DEF W!MembershipInv, W!MembershipHolds, W!AdminsPromoted, W!JoinsOwnInvites,
    W!Addressed, W!At, W!Idle, W!NoInvite

\* Only the request h moves on, to next.
LEMMA SpaceMoves ==
  ASSUME W!TypeOK, NEW h \in Handlers, NEW next, W!Go(h, next)
  PROVE  inviting'[h] = next /\ \A g \in Handlers \ {h} : inviting'[g] = inviting[g]
BY DEF W!TypeOK, W!Go

\* What a request at its place holds.
LEMMA Forms ==
  ASSUME W!TypeOK, NEW h \in Handlers
  PROVE  /\ W!At(h, "appoint") => inviting[h].user \in Users /\ inviting[h].role = "admin"
         /\ W!At(h, "admin") => inviting[h].user \in Users
         /\ W!At(h, "invite") => inviting[h].to \in Users /\ inviting[h].found \subseteq Right
         /\ W!At(h, "join") =>
              inviting[h].user \in Users /\ inviting[h].left \subseteq [id : Right, role : W!Roles]
BY DEF W!TypeOK, W!Request, W!At

\* Types are kept.
LEMMA MembershipTypes == W!MembershipInv /\ [W!Next]_(W!vars) => W!TypeOK'
<1> SUFFICES ASSUME W!MembershipInv, [W!Next]_(W!vars) PROVE W!TypeOK' OBVIOUS
<1>a. W!TypeOK BY DEF W!MembershipInv, W!MembershipHolds
<1>i. W!Idle \in W!Request BY DEF W!Idle, W!Request
<1> USE AccountsAssumption DEF W!WorkspacesAssumption
<1>1. ASSUME NEW h \in Handlers, NEW op \in Users, W!createWorkspace(h, op) PROVE W!TypeOK'
  BY <1>1, <1>a DEF W!createWorkspace, W!TypeOK, W!Go, W!Request, W!Roles
<1>2. ASSUME NEW u \in Users, NEW op \in Users, W!addWorkspaceMember(op, u) PROVE W!TypeOK'
  BY <1>2, <1>a DEF W!addWorkspaceMember, W!Upsert, W!TypeOK
<1>3. ASSUME NEW u \in Users, NEW op \in Users, W!removeWorkspaceMember(op, u) PROVE W!TypeOK'
  BY <1>3, <1>a DEF W!removeWorkspaceMember, W!TypeOK
<1>4. ASSUME NEW h \in Handlers, NEW u \in Users, W!RequireWorkspaceAdmin(h, u) PROVE W!TypeOK'
  BY <1>4, <1>a DEF W!RequireWorkspaceAdmin, W!TypeOK, W!Go, W!Request
<1>5. ASSUME NEW h \in Handlers, NEW u \in Users, W!updateMember(h, u) PROVE W!TypeOK'
  BY <1>5, <1>a, <1>i DEF W!updateMember, W!Upsert, W!TypeOK, W!Go
<1>6. ASSUME NEW h \in Handlers, NEW u \in Users, W!removeMember(h, u) PROVE W!TypeOK'
  BY <1>6, <1>a, <1>i DEF W!removeMember, W!TypeOK, W!Go
<1>7. ASSUME NEW h \in Handlers, NEW u \in Users, W!createInvite(h, u) PROVE W!TypeOK'
  BY <1>7, <1>a, <1>i DEF W!createInvite, W!TypeOK, W!Go, W!Request
<1>8. ASSUME NEW h \in Handlers, NEW u \in Users, W!ListPendingInvitesForEmail(h, u) PROVE W!TypeOK'
  <2> DEFINE mine == {i \in Right : invite[i].to = u /\ W!EffectiveStatus(i) = "pending"}
  <2>1. W!Go(h, [at |-> "join", user |-> u, left |-> {W!Read(i) : i \in mine}])
    BY <1>8 DEF W!ListPendingInvitesForEmail
  <2>2. \A i \in mine : W!Read(i) \in [id : Right, role : W!Roles] BY <1>a DEF W!Read, W!TypeOK
  <2>3. [at |-> "join", user |-> u, left |-> {W!Read(i) : i \in mine}] \in W!Request
    BY <2>2 DEF W!Request
  <2> QED BY <1>8, <1>a, <2>1, <2>3 DEF W!ListPendingInvitesForEmail, W!TypeOK, W!Go
<1>9. ASSUME NEW h \in Handlers, NEW i \in Right, W!revokeInvite(h, i) PROVE W!TypeOK'
  BY <1>9, <1>a, <1>i DEF W!revokeInvite, W!TypeOK, W!Go
<1>10. ASSUME NEW h \in Handlers, NEW i \in Right, W!resendInvite(h, i) PROVE W!TypeOK'
  BY <1>10, <1>a, <1>i DEF W!resendInvite, W!Issued, W!TypeOK, W!Go
<1>11. ASSUME NEW h \in Handlers, NEW i \in Right, NEW u \in Users, W!acceptInvite(h, u, i)
       PROVE W!TypeOK'
  <2>1. W!Read(i) \in [id : Right, role : W!Roles] BY <1>a DEF W!Read, W!TypeOK
  <2>2. [at |-> "join", user |-> u, left |-> {W!Read(i)}] \in W!Request BY <2>1 DEF W!Request
  <2> QED BY <1>11, <1>a, <2>2 DEF W!acceptInvite, W!TypeOK, W!Go
<1>12. ASSUME NEW h \in Handlers, W!Appoint(h) PROVE W!TypeOK'
  BY <1>12, <1>a, <1>i, Forms DEF W!Appoint, W!Upsert, W!TypeOK, W!Go, W!Roles
<1>13. ASSUME NEW h \in Handlers, W!CreateWorkspaceInvite(h) PROVE W!TypeOK'
  <2>1. inviting[h].to \in Users BY <1>13, <1>a, Forms DEF W!CreateWorkspaceInvite
  <2>2. PICK r \in W!Roles, i \in Right :
          /\ issues < Issues /\ issues' = issues + 1
          /\ invite' = [invite EXCEPT ![i] =
               IF inviting[h].found = {} THEN W!Issued(inviting[h].to, r)
               ELSE [W!Issued(inviting[h].to, r) EXCEPT !.st = invite[i].st]]
          /\ promoted' = IF r = "admin" THEN promoted \cup {inviting[h].to} ELSE promoted
    BY <1>13 DEF W!CreateWorkspaceInvite
  <2>3. invite' \in [Right -> [st : {"none", "pending", "accepted", "revoked"},
                            to : Users \cup {"nobody"}, role : W!Roles, live : BOOLEAN]]
    BY <1>a, <2>1, <2>2 DEF W!TypeOK, W!Issued
  <2>4. issues' \in 0..Issues BY <1>a, <2>2 DEF W!TypeOK
  <2> QED BY <1>13, <1>a, <1>i, <2>1, <2>2, <2>3, <2>4 DEF W!CreateWorkspaceInvite, W!TypeOK, W!Go
<1>14. ASSUME NEW h \in Handlers, W!AcceptWorkspaceInvite(h) PROVE W!TypeOK'
  <2>1. W!At(h, "join") BY <1>14 DEF W!AcceptWorkspaceInvite
  <2>2. PICK r \in inviting[h].left :
          /\ roles' = [roles EXCEPT ![inviting[h].user] = r.role]
          /\ invite' = [invite EXCEPT ![r.id].st = "accepted"]
          /\ W!Go(h, IF inviting[h].left = {r} THEN W!Idle ELSE [inviting[h] EXCEPT !.left = @ \ {r}])
    BY <1>14 DEF W!AcceptWorkspaceInvite
  <2>3. inviting[h] \in [at : {"join"}, user : Users, left : SUBSET [id : Right, role : W!Roles]]
    BY <1>a, <2>1 DEF W!TypeOK, W!Request, W!At
  <2>4. [inviting[h] EXCEPT !.left = @ \ {r}] \in W!Request BY <2>3 DEF W!Request
  <2>5. r \in [id : Right, role : W!Roles] BY <2>2, <2>3
  <2>6. roles' \in [Users -> {"none"} \cup W!Roles] BY <1>a, <2>2, <2>3, <2>5 DEF W!TypeOK
  <2>7. inviting' \in [Handlers -> W!Request] BY <1>a, <1>i, <2>2, <2>4 DEF W!TypeOK, W!Go
  <2>8. invite' \in [Right -> [st : {"none", "pending", "accepted", "revoked"},
                            to : Users \cup {"nobody"}, role : W!Roles, live : BOOLEAN]]
    <3>1. [invite[r.id] EXCEPT !.st = "accepted"] \in
            [st : {"none", "pending", "accepted", "revoked"}, to : Users \cup {"nobody"},
             role : W!Roles, live : BOOLEAN]
      BY <1>a, <2>5 DEF W!TypeOK
    <3> QED BY <1>a, <2>2, <2>5, <3>1 DEF W!TypeOK
  <2> QED BY <1>14, <1>a, <2>6, <2>7, <2>8 DEF W!AcceptWorkspaceInvite, W!TypeOK
<1>15. ASSUME NEW i \in Right, W!Expire(i) PROVE W!TypeOK'
  BY <1>15, <1>a DEF W!Expire, W!TypeOK
<1>16. CASE UNCHANGED W!vars BY <1>16, <1>a DEF W!vars, W!TypeOK
<1> QED BY <1>1, <1>2, <1>3, <1>4, <1>5, <1>6, <1>7, <1>8, <1>9, <1>10, <1>11, <1>12, <1>13, <1>14,
           <1>15, <1>16 DEF W!Next

Promotions == W!AdminsPromoted /\ W!Addressed /\ W!JoinsOwnInvites

\* Once issued, an invite stays one, to the same user, and a role it or a

\* member newly carries is on record; requests hold what the invites say.
LEMMA PromotionsKept ==
  ASSUME W!TypeOK, W!TypeOK', Promotions, promoted \subseteq promoted',
         \A u \in Users : roles'[u] = "admin" => roles[u] = "admin" \/ u \in promoted',
         \A i \in Right :
           /\ invite[i].st # "none" => invite'[i].st # "none" /\ invite'[i].to = invite[i].to
           /\ invite'[i].st # "none" => 
                   /\ invite'[i].to \in Users
                   /\ invite'[i].role = "admin" => invite'[i].to \in promoted',
         \A h \in Handlers :
           \/ inviting'[h] = inviting[h]
           \/ inviting'[h].at \notin {"invite", "join"}
           \/ /\ inviting'[h].at = "invite"
              /\ \A i \in inviting'[h].found : invite[i].st # "none" /\ invite[i].to = inviting'[h].to
           \/ /\ inviting'[h].at = "join"
              /\ \A r \in inviting'[h].left : 
                   /\ invite[r.id].st # "none" /\ invite[r.id].to = inviting'[h].user
                   /\ r.role = "admin" => inviting'[h].user \in promoted'
  PROVE  Promotions'
<1>1. W!AdminsPromoted' BY DEF Promotions, W!AdminsPromoted
<1>2. \A h \in Handlers : inviting'[h].at = "invite" =>
        \A i \in inviting'[h].found : i \in Right /\ invite[i].st # "none" /\ invite[i].to = inviting'[h].to
  BY Forms DEF W!TypeOK, W!Request, W!At, Promotions, W!Addressed
<1>3. \A h \in Handlers : inviting'[h].at = "join" =>
        \A r \in inviting'[h].left : 
           /\ r.id \in Right /\ invite[r.id].st # "none" /\ invite[r.id].to = inviting'[h].user
           /\ r.role = "admin" => inviting'[h].user \in promoted'
  BY Forms DEF W!TypeOK, W!Request, W!At, Promotions, W!Addressed, W!JoinsOwnInvites
<1>4. W!JoinsOwnInvites' BY <1>3 DEF W!JoinsOwnInvites, W!At
<1>5. W!Addressed' BY <1>2, <1>3 DEF W!Addressed, W!At
<1> QED BY <1>1, <1>4, <1>5 DEF Promotions

LEMMA MembershipStep == W!MembershipInv /\ W!TypeOK' /\ [W!Next]_(W!vars) => Promotions'
<1> SUFFICES ASSUME W!MembershipInv, W!TypeOK', [W!Next]_(W!vars) PROVE Promotions' OBVIOUS
<1>a. W!TypeOK /\ Promotions BY DEF W!MembershipInv, W!MembershipHolds, Promotions
<1>b. \A i \in Right : invite[i].st # "none" =>
        invite[i].to \in Users /\ (invite[i].role = "admin" => invite[i].to \in promoted)
  BY <1>a DEF Promotions, W!Addressed
<1>1. ASSUME NEW h \in Handlers, NEW op \in Users, W!createWorkspace(h, op) PROVE Promotions'
  BY <1>1, <1>a, <1>b, SpaceMoves, PromotionsKept DEF W!createWorkspace
<1>2. ASSUME NEW u \in Users, NEW op \in Users, W!addWorkspaceMember(op, u) PROVE Promotions'
  BY <1>2, <1>a, <1>b, PromotionsKept DEF W!addWorkspaceMember, W!Upsert, W!TypeOK
<1>3. ASSUME NEW u \in Users, NEW op \in Users, W!removeWorkspaceMember(op, u) PROVE Promotions'
  BY <1>3, <1>a, <1>b, PromotionsKept DEF W!removeWorkspaceMember, W!TypeOK
<1>4. ASSUME NEW h \in Handlers, NEW u \in Users, W!RequireWorkspaceAdmin(h, u) PROVE Promotions'
  BY <1>4, <1>a, <1>b, SpaceMoves, PromotionsKept DEF W!RequireWorkspaceAdmin
<1>5. ASSUME NEW h \in Handlers, NEW u \in Users, W!updateMember(h, u) PROVE Promotions'
  BY <1>5, <1>a, <1>b, SpaceMoves, PromotionsKept DEF W!updateMember, W!Upsert, W!TypeOK, W!Idle
<1>6. ASSUME NEW h \in Handlers, NEW u \in Users, W!removeMember(h, u) PROVE Promotions'
  BY <1>6, <1>a, <1>b, SpaceMoves, PromotionsKept DEF W!removeMember, W!TypeOK, W!Idle
<1>7. ASSUME NEW h \in Handlers, NEW u \in Users, W!createInvite(h, u) PROVE Promotions'
  BY <1>7, <1>a, <1>b, SpaceMoves, PromotionsKept DEF W!createInvite, W!Idle
<1>8. ASSUME NEW h \in Handlers, NEW u \in Users, W!ListPendingInvitesForEmail(h, u)
      PROVE Promotions'
  BY <1>8, <1>a, <1>b, SpaceMoves, PromotionsKept DEF W!ListPendingInvitesForEmail, W!Read,
    W!EffectiveStatus
<1>9. ASSUME NEW h \in Handlers, NEW i \in Right, W!revokeInvite(h, i) PROVE Promotions'
  BY <1>9, <1>a, <1>b, SpaceMoves, PromotionsKept DEF W!revokeInvite, W!TypeOK, W!Idle
<1>10. ASSUME NEW h \in Handlers, NEW i \in Right, W!resendInvite(h, i) PROVE Promotions'
  BY <1>10, <1>a, <1>b, SpaceMoves, PromotionsKept DEF W!resendInvite, W!Issued, W!TypeOK, W!Idle
<1>11. ASSUME NEW h \in Handlers, NEW i \in Right, NEW u \in Users, W!acceptInvite(h, u, i)
       PROVE Promotions'
  BY <1>11, <1>a, <1>b, SpaceMoves, PromotionsKept DEF W!acceptInvite, W!Read, W!EffectiveStatus
<1>12. ASSUME NEW h \in Handlers, W!Appoint(h) PROVE Promotions'
  BY <1>12, <1>a, <1>b, SpaceMoves, PromotionsKept, Forms DEF W!Appoint, W!Upsert, W!TypeOK, W!Idle
<1>13. ASSUME NEW h \in Handlers, W!CreateWorkspaceInvite(h) PROVE Promotions'
  <2>1. W!At(h, "invite") /\ inviting[h].to \in Users /\ W!Go(h, W!Idle) /\ UNCHANGED roles
    BY <1>13, <1>a, Forms DEF W!CreateWorkspaceInvite
  <2>2. PICK r \in W!Roles, i \in Right :
          /\ IF inviting[h].found = {} THEN invite[i].st = "none" ELSE i \in inviting[h].found
          /\ invite' = [invite EXCEPT ![i] =
               IF inviting[h].found = {} THEN W!Issued(inviting[h].to, r)
               ELSE [W!Issued(inviting[h].to, r) EXCEPT !.st = invite[i].st]]
          /\ promoted' = IF r = "admin" THEN promoted \cup {inviting[h].to} ELSE promoted
    BY <1>13 DEF W!CreateWorkspaceInvite
  <2>3. /\ invite'[i].to = inviting[h].to /\ invite'[i].role = r
        /\ \A j \in Right \ {i} : invite'[j] = invite[j]
    BY <1>a, <2>2 DEF W!TypeOK, W!Issued
  <2>4. invite[i].st # "none" => invite'[i].st # "none" /\ invite[i].to = inviting[h].to
    BY <1>a, <2>1, <2>2 DEF Promotions, W!Addressed, W!Issued, W!TypeOK
  <2> QED BY <1>a, <1>b, <2>1, <2>2, <2>3, <2>4, SpaceMoves, PromotionsKept DEF W!Idle
<1>14. ASSUME NEW h \in Handlers, W!AcceptWorkspaceInvite(h) PROVE Promotions'
  <2>1. W!At(h, "join") BY <1>14 DEF W!AcceptWorkspaceInvite
  <2>2. PICK r \in inviting[h].left :
          /\ roles' = [roles EXCEPT ![inviting[h].user] = r.role]
          /\ invite' = [invite EXCEPT ![r.id].st = "accepted"]
          /\ W!Go(h, IF inviting[h].left = {r} THEN W!Idle ELSE [inviting[h] EXCEPT !.left = @ \ {r}])
    BY <1>14 DEF W!AcceptWorkspaceInvite
  <2>3. inviting[h] \in [at : {"join"}, user : Users, left : SUBSET [id : Right, role : W!Roles]]
    BY <1>a, <2>1 DEF W!TypeOK, W!Request, W!At
  <2>4. \A q \in inviting[h].left :
          /\ invite[q.id].st # "none" /\ invite[q.id].to = inviting[h].user
          /\ q.role = "admin" => inviting[h].user \in promoted
    BY <1>a, <2>1 DEF Promotions, W!Addressed, W!JoinsOwnInvites
  <2>5. UNCHANGED promoted BY <1>14 DEF W!AcceptWorkspaceInvite
  <2>6. \A u \in Users : roles'[u] = "admin" => roles[u] = "admin" \/ u \in promoted
    BY <1>a, <2>2, <2>3, <2>4 DEF W!TypeOK
  <2>7. \A i \in Right :
          /\ invite[i].st # "none" => invite'[i].st # "none"
          /\ invite'[i].to = invite[i].to /\ invite'[i].role = invite[i].role
          /\ invite'[i].st # "none" => invite[i].st # "none"
    BY <1>a, <2>2, <2>3, <2>4 DEF W!TypeOK
  <2>8. \/ inviting'[h].at = "idle"
        \/ /\ inviting'[h].at = "join" /\ inviting'[h].user = inviting[h].user
           /\ inviting'[h].left \subseteq inviting[h].left
    BY <1>a, <2>2, <2>3, SpaceMoves DEF W!Idle
  <2>9. \A g \in Handlers \ {h} : inviting'[g] = inviting[g] BY <1>a, <2>2, SpaceMoves
  <2> QED BY <1>a, <1>b, <2>4, <2>5, <2>6, <2>7, <2>8, <2>9, PromotionsKept
<1>15. ASSUME NEW i \in Right, W!Expire(i) PROVE Promotions'
  BY <1>15, <1>a, <1>b, PromotionsKept DEF W!Expire, W!TypeOK
<1>16. CASE UNCHANGED W!vars
  BY <1>16, <1>a, <1>b, PromotionsKept DEF W!vars, Promotions, W!AdminsPromoted
<1> QED BY <1>1, <1>2, <1>3, <1>4, <1>5, <1>6, <1>7, <1>8, <1>9, <1>10, <1>11, <1>12, <1>13, <1>14,
           <1>15, <1>16 DEF W!Next

\* Only an acceptance marks an invite accepted.
LEMMA AcceptanceStep == W!MembershipInv /\ W!TypeOK' /\ [W!Next]_(W!vars) => W!Acceptance
<1> SUFFICES ASSUME W!MembershipInv, W!TypeOK', [W!Next]_(W!vars) PROVE W!Acceptance OBVIOUS
<1>a. W!TypeOK /\ Promotions BY DEF W!MembershipInv, W!MembershipHolds, Promotions
<1>b. ASSUME NEW h \in Handlers, W!AcceptWorkspaceInvite(h) PROVE W!Acceptance
  <2>1. W!At(h, "join") BY <1>b DEF W!AcceptWorkspaceInvite
  <2>2. PICK r \in inviting[h].left :
          /\ roles' = [roles EXCEPT ![inviting[h].user] = r.role]
          /\ invite' = [invite EXCEPT ![r.id].st = "accepted"]
    BY <1>b DEF W!AcceptWorkspaceInvite
  <2>3. inviting[h].user \in Users /\ r.role \in W!Roles /\ r.id \in Right
    BY <1>a, <2>1, <2>2, Forms
  <2>4. roles'[inviting[h].user] # "none" BY <1>a, <2>2, <2>3 DEF W!TypeOK, W!Roles
  <2>5. invite[r.id].to = inviting[h].user BY <1>a, <2>1, <2>2 DEF Promotions, W!JoinsOwnInvites
  <2>6. \A i \in Right \ {r.id} : invite'[i] = invite[i] BY <1>a, <2>2, <2>3 DEF W!TypeOK
  <2> QED BY <2>4, <2>5, <2>6 DEF W!Acceptance
<1>c. ASSUME \A i \in Right : invite'[i].st = "accepted" => invite[i].st = "accepted"
      PROVE W!Acceptance
  BY <1>c DEF W!Acceptance
<1>1. ASSUME NEW h \in Handlers, W!CreateWorkspaceInvite(h) PROVE W!Acceptance
  BY <1>1, <1>a, <1>c DEF W!CreateWorkspaceInvite, W!Issued, W!TypeOK
<1>2. ASSUME NEW h \in Handlers, NEW i \in Right, W!revokeInvite(h, i) \/ W!resendInvite(h, i)
      PROVE W!Acceptance
  BY <1>2, <1>a, <1>c DEF W!revokeInvite, W!resendInvite, W!Issued, W!TypeOK
<1>3. ASSUME NEW i \in Right, W!Expire(i) PROVE W!Acceptance
  BY <1>3, <1>a, <1>c DEF W!Expire, W!TypeOK
<1>4. ASSUME UNCHANGED invite PROVE W!Acceptance BY <1>4, <1>c
<1> QED BY <1>b, <1>1, <1>2, <1>3, <1>4 DEF W!Next, W!vars, W!createWorkspace,
    W!addWorkspaceMember, W!removeWorkspaceMember,
      W!RequireWorkspaceAdmin, W!updateMember, W!removeMember, W!createInvite,
      W!ListPendingInvitesForEmail,
      W!acceptInvite, W!Appoint

\* The inductive step of workspaces.
LEMMA SpacesStep == W!MembershipInv /\ [W!Next]_(W!vars) => W!MembershipInv'
BY MembershipTypes, MembershipStep DEF W!MembershipInv, W!MembershipHolds, Promotions

-----------------------------------------------------------------------------

(* The specification: one of them runs, and the others stand still.        *)

AccountsInv ==
  /\ component = "signin" => S!SignInInv
  /\ component = "sso" => O!SsoInv
  /\ component = "spaces" => W!MembershipInv

\* The invariant of the component that runs.
LEMMA AccountsInit == MCInit => AccountsInv
BY SignInInit, SsoInit, MembershipInit DEF MCInit, AccountsInv

\* A step of the whole is a step of the component that runs.
LEMMA SignInRuns ==
  ASSUME [MCNext]_all, component = "signin" PROVE component' = "signin" /\ [S!Next]_(S!vars)
BY DEF MCNext, all, signin, S!vars

LEMMA SsoRuns ==
  ASSUME [MCNext]_all, component = "sso" PROVE component' = "sso" /\ [O!Next]_(O!vars)
BY DEF MCNext, all, single, O!vars

LEMMA SpacesRun ==
  ASSUME [MCNext]_all, component = "spaces" PROVE component' = "spaces" /\ [W!Next]_(W!vars)
BY DEF MCNext, all, spaces, W!vars

\* The step of the component that runs keeps its invariant, the others have none.
LEMMA AccountsStep == AccountsInv /\ [MCNext]_all => AccountsInv'
<1> SUFFICES ASSUME AccountsInv, [MCNext]_all PROVE AccountsInv' OBVIOUS
<1>1. UNCHANGED component BY DEF MCNext, all
<1>2. CASE component = "signin" BY <1>1, <1>2, SignInRuns, SignInStep DEF AccountsInv
<1>3. CASE component = "sso" BY <1>1, <1>3, SsoRuns, SsoStep DEF AccountsInv
<1>4. CASE component = "spaces" BY <1>1, <1>4, SpacesRun, SpacesStep DEF AccountsInv
<1>5. CASE component \notin {"signin", "sso", "spaces"} BY <1>1, <1>5 DEF AccountsInv
<1> QED BY <1>2, <1>3, <1>4, <1>5

\* So it always holds.
LEMMA AccountsInvariant == MCSpec => []AccountsInv
BY AccountsInit, AccountsStep, PTL DEF MCSpec

\* An emailed code is accepted once, for the email and purpose it was mailed
\* for; no code outlasts more guesses than its attempts; racing registrations
\* make one account, with its workspace unless the process died in between.
THEOREM SignInCorrect == MCSpec => []SignInHolds
<1>1. AccountsInv => SignInHolds BY DEF AccountsInv, S!SignInInv, SignInHolds
<1> QED BY <1>1, AccountsInvariant, PTL

\* A password changes only by a reset code that was mailed to the account.
THEOREM PasswordsFromInbox == MCSpec => PasswordFromInbox
<1>1. AccountsInv /\ [MCNext]_all => [component = "signin" => S!PasswordChange]_all
  <2>1. ASSUME AccountsInv, [MCNext]_all, component = "signin" PROVE S!PasswordChange
    BY <2>1, SignInRuns, PasswordStep DEF AccountsInv
  <2> QED BY <2>1
<1> QED BY <1>1, AccountsInvariant, PTL DEF MCSpec, PasswordFromInbox

\* A handoff code becomes one session at most, a replay within the grace still
\* finds its row, and every request acts with the authority of the user's row.
THEOREM SsoCorrect == MCSpec => []SsoHolds
<1>1. AccountsInv => SsoHolds BY DEF AccountsInv, O!SsoInv, SsoHolds
<1> QED BY <1>1, AccountsInvariant, PTL

\* Nobody is an administrator of a space who was not made one, and requests
\* accept what was sent to their own user.
THEOREM MembershipCorrect == MCSpec => []MembershipHolds
<1>1. AccountsInv => MembershipHolds BY DEF AccountsInv, W!MembershipInv, MembershipHolds
<1> QED BY <1>1, AccountsInvariant, PTL

\* The step that marks an invite accepted makes its addressee a member.
THEOREM AcceptancesAreAtomic == MCSpec => AcceptanceIsAtomic
<1>1. AccountsInv /\ [MCNext]_all => [component = "spaces" => W!Acceptance]_all
  <2>1. ASSUME AccountsInv, [MCNext]_all, component = "spaces" PROVE W!Acceptance
    BY <2>1, SpacesRun, MembershipTypes, AcceptanceStep DEF AccountsInv
  <2> QED BY <2>1
<1> QED BY <1>1, AccountsInvariant, PTL DEF MCSpec, AcceptanceIsAtomic

-----------------------------------------------------------------------------
(* Client tokens.                                                           *)

Visit ==
  [pc : {"idle", "known", "funded", "serving", "leaving"},
   of : (Providers \cup {"none"}) \X (Tokens \cup {"none"}), cap : Nat, free : BOOLEAN]

\* The requests that hold a slot, those that were let in within a budget and
\* are still to be recorded, and those that are served under a ceiling.
Slots(k) == {r \in Handlers : visit[r].cap > 0 /\ visit[r].of = k}
Funded(t) ==
  {r \in Handlers : visit[r].pc \in {"funded", "serving"} /\ ~visit[r].free /\ visit[r].of[2] = t}
Served(k) == {r \in Slots(k) : visit[r].pc = "serving"}

TokensType ==
  /\ ceiling \in [Tokens -> Ceilings \cup {K!Gone}] /\ minted \subseteq Tokens
  /\ used \in [Tokens -> Nat] /\ outside \in [Tokens -> Nat]
  /\ inflight \in [Providers \X Tokens -> Nat]
  /\ visit \in [Handlers -> Visit]
  /\ panel.pc \in {"idle", "rename", "inherit", "merge"}
  /\ panel.pc # "idle" => panel.from \in Tokens /\ panel.to \in Tokens /\ panel.from # panel.to
  /\ \A t \in Tokens : K!Registered(t) => t \in minted
  /\ \A r \in Handlers : /\ visit[r].pc # "idle" => visit[r].of \in Providers \X Tokens
                         /\ visit[r].pc \in {"idle", "known", "funded"} => visit[r].cap = 0

\* What is still to be recorded of the budget is counted as spent.
BudgetRoom ==
  \A t \in Tokens :
    used[t] - outside[t] + Cardinality(Funded(t)) <= Weekly - 1 + Cardinality(Handlers)

\* Some request of any set of those served was given a ceiling as high as the
\* set is large: what is left when requests end is again such a set.
Covered ==
  \A k \in Providers \X Tokens : \A T \in SUBSET Served(k) :
    T # {} => \E r \in T : Cardinality(T) <= visit[r].cap

TokensInv ==
  /\ TokensType /\ BudgetRoom /\ Covered
  /\ \A k \in Providers \X Tokens : inflight[k] = Cardinality(Slots(k))

LEMMA TokensConstants ==
  /\ First \subseteq Tokens /\ IsFiniteSet(Handlers) /\ Scale \in [Providers -> Nat]
  /\ Ceilings \subseteq Nat /\ Default \in Nat /\ Weekly \in Nat /\ Weekly > 0
BY AccountsAssumption DEF K!ClientKeysAssumption, K!IsFiniteSet, IsFiniteSet

\* Sets of requests are counted by natural numbers.
LEMMA Counting ==
  ASSUME NEW T, T \subseteq Handlers
  PROVE  /\ IsFiniteSet(T) /\ Cardinality(T) \in Nat /\ Cardinality(Handlers) \in Nat
         /\ Cardinality(T) <= Cardinality(Handlers)
BY TokensConstants, FS_Subset, FS_CardinalityType

LEMMA OneMore ==
  ASSUME NEW T, T \subseteq Handlers, NEW r \in Handlers, r \notin T
  PROVE  Cardinality(T \cup {r}) = Cardinality(T) + 1
BY Counting, FS_AddElement

LEMMA OneLess ==
  ASSUME NEW T, T \subseteq Handlers, NEW r \in T
  PROVE  Cardinality(T \ {r}) = Cardinality(T) - 1
BY Counting, FS_RemoveElement

LEMMA TokensInit == ASSUME K!Init PROVE TokensInv
<1> USE TokensConstants
<1>1. /\ ceiling \in [Tokens -> Ceilings \cup {K!Gone}] /\ {t \in Tokens : K!Registered(t)} = First
      /\ used = [t \in Tokens |-> 0] /\ inflight = [k \in Providers \X Tokens |-> 0]
      /\ visit = [r \in Handlers |-> K!Idle] /\ panel = K!NoPanel /\ minted = First
      /\ outside = [t \in Tokens |-> 0]
  BY DEF K!Init
<1>2. K!Idle \in Visit /\ K!Idle.pc = "idle" /\ K!Idle.cap = 0 BY DEF K!Idle, Visit
<1>3. TokensType BY <1>1, <1>2 DEF TokensType, K!NoPanel
<1>4. \A k \in Providers \X Tokens : Slots(k) = {} BY <1>1, <1>2 DEF Slots
<1>5. \A t \in Tokens : Funded(t) = {} BY <1>1, <1>2 DEF Funded
<1>6. Cardinality({}) = 0 /\ Cardinality(Handlers) \in Nat BY FS_EmptySet, FS_CardinalityType
<1>7. BudgetRoom
  <2>1. 0 - 0 + 0 <= Weekly - 1 + Cardinality(Handlers) BY <1>6
  <2>2. \A t \in Tokens : used[t] = 0 /\ outside[t] = 0 /\ Cardinality(Funded(t)) = 0
    BY <1>1, <1>5, <1>6
  <2> QED BY <2>1, <2>2 DEF BudgetRoom
<1>8. Covered BY <1>4 DEF Covered, Served
<1> QED BY <1>1, <1>3, <1>4, <1>6, <1>7, <1>8 DEF TokensInv

\* A request's step that keeps its slot, or has none, and is not served for it.
LEMMA Quiet ==
  ASSUME TokensInv, NEW r \in Handlers, NEW q \in Visit, visit' = [visit EXCEPT ![r] = q],
         UNCHANGED <<ceiling, minted, panel, inflight>>,
         used' \in [Tokens -> Nat], outside' \in [Tokens -> Nat], BudgetRoom',
         q.pc # "idle" => q.of \in Providers \X Tokens,
         q.pc \in {"idle", "known", "funded"} => q.cap = 0,
         \/ q.cap = 0 /\ visit[r].cap = 0
         \/ q.cap = visit[r].cap /\ q.of = visit[r].of /\ q.pc # "serving"
  PROVE  TokensInv'
<1>1. TokensType BY DEF TokensInv
<1>2. visit'[r] = q /\ visit' \in [Handlers -> Visit]
      /\ \A s \in Handlers \ {r} : visit'[s] = visit[s]
  BY <1>1 DEF TokensType
<1>3. TokensType' BY <1>1, <1>2 DEF TokensType, K!Registered
<1>4. ASSUME NEW k \in Providers \X Tokens PROVE Slots(k)' = Slots(k)
  <2>1. \A s \in Handlers : visit'[s].cap > 0 /\ visit'[s].of = k <=> visit[s].cap > 0 /\ visit[s].of = k
    BY <1>2
  <2> QED BY <2>1 DEF Slots
<1>5. ASSUME NEW k \in Providers \X Tokens, NEW T \in SUBSET Served(k)', T # {}
      PROVE  \E s \in T : Cardinality(T) <= visit'[s].cap
  <2>1. \A s \in T : s \in Served(k) /\ visit'[s] = visit[s] BY <1>2, <1>5 DEF Served, Slots
  <2>2. T \in SUBSET Served(k) BY <2>1
  <2>3. PICK s \in T : Cardinality(T) <= visit[s].cap BY <1>5, <2>2 DEF TokensInv, Covered
  <2> QED BY <2>1, <2>3
<1>6. Covered' BY <1>5 DEF Covered
<1> QED BY <1>3, <1>4, <1>6 DEF TokensInv

\* A request's step that spends nothing, and is let in by no new budget.
LEMMA NotFunded ==
  ASSUME TokensInv, NEW r \in Handlers, NEW q \in Visit, visit' = [visit EXCEPT ![r] = q],
         UNCHANGED <<used, outside>>,
         q.pc \in {"funded", "serving"} /\ ~q.free =>
           visit[r].pc \in {"funded", "serving"} /\ ~visit[r].free /\ q.of = visit[r].of
  PROVE  BudgetRoom'
<1>1. TokensType /\ BudgetRoom BY DEF TokensInv
<1>2. visit'[r] = q /\ \A s \in Handlers \ {r} : visit'[s] = visit[s] BY <1>1 DEF TokensType
<1>3. ASSUME NEW t \in Tokens PROVE Cardinality(Funded(t)') <= Cardinality(Funded(t))
  <2>1. Funded(t)' \subseteq Funded(t) BY <1>2 DEF Funded
  <2>2. Funded(t) \subseteq Handlers BY DEF Funded
  <2> QED BY <2>1, <2>2, Counting, FS_Subset
<1>4. ASSUME NEW t \in Tokens
      PROVE  /\ Cardinality(Funded(t)) \in Nat /\ Cardinality(Funded(t)') \in Nat
             /\ Cardinality(Handlers) \in Nat /\ used[t] \in Nat /\ outside[t] \in Nat
  <2>1. Funded(t) \subseteq Handlers /\ Funded(t)' \subseteq Handlers BY DEF Funded
  <2> QED BY <1>1, <2>1, Counting DEF TokensType
<1> QED BY <1>1, <1>3, <1>4, TokensConstants DEF BudgetRoom

\* Where a request may go, and what it was.
LEMMA Visited ==
  ASSUME TokensInv, NEW r \in Handlers, NEW pc \in {"idle", "known", "funded", "serving", "leaving"}
  PROVE  /\ [visit[r] EXCEPT !.pc = pc] \in Visit /\ visit[r] \in Visit
         /\ [visit[r] EXCEPT !.pc = pc].pc = pc
         /\ [visit[r] EXCEPT !.pc = pc].of = visit[r].of
         /\ [visit[r] EXCEPT !.pc = pc].cap = visit[r].cap
         /\ [visit[r] EXCEPT !.pc = pc].free = visit[r].free
         /\ visit[r].pc # "idle" => visit[r].of \in Providers \X Tokens
         /\ visit[r].pc \in {"idle", "known", "funded"} => visit[r].cap = 0
         /\ K!Idle \in Visit /\ K!Idle.pc = "idle" /\ K!Idle.cap = 0
<1>1. visit[r] \in Visit BY DEF TokensInv, TokensType
<1> DEFINE v == visit[r]
<1>2. v \in Visit BY <1>1
<1> HIDE DEF v
<1>3. /\ [v EXCEPT !.pc = pc] \in Visit /\ [v EXCEPT !.pc = pc].pc = pc
      /\ [v EXCEPT !.pc = pc].of = v.of /\ [v EXCEPT !.pc = pc].cap = v.cap
      /\ [v EXCEPT !.pc = pc].free = v.free
  BY <1>2 DEF Visit
<1>4. K!Idle \in Visit /\ K!Idle.pc = "idle" /\ K!Idle.cap = 0 BY DEF K!Idle, Visit
<1> QED BY <1>1, <1>3, <1>4 DEF v, TokensInv, TokensType

LEMMA TokensRequest ==
  ASSUME TokensInv, NEW r \in Handlers,
         \/ \E p \in Providers, t \in Tokens : K!clientAuth(r, p, t)
         \/ K!WithinBudget(r) \/ K!OverBudget(r) \/ K!RateLimited(r) \/ K!Uncounted(r)
         \/ K!Counted(r) \/ K!Unanswered(r) \/ K!RecordClient(r) \/ K!Leave(r)
  PROVE  TokensInv'
<1>0. TokensType /\ BudgetRoom /\ Covered BY DEF TokensInv
<1>1. used \in [Tokens -> Nat] /\ outside \in [Tokens -> Nat] /\ visit \in [Handlers -> Visit]
  BY <1>0 DEF TokensType
<1>2. ASSUME NEW p \in Providers, NEW t \in Tokens, K!clientAuth(r, p, t) PROVE TokensInv'
  <2> DEFINE q == [K!Idle EXCEPT !.pc = "known", !.of = <<p, t>>]
  <2>1. /\ visit[r].pc = "idle" /\ visit' = [visit EXCEPT ![r] = q]
        /\ UNCHANGED <<ceiling, used, minted, outside, inflight, panel>>
    BY <1>2 DEF K!clientAuth, K!Become, K!stores
  <2>2. q \in Visit /\ q.pc = "known" /\ q.cap = 0 /\ q.of = <<p, t>> BY DEF K!Idle, Visit
  <2> HIDE DEF q
  <2>3. visit[r].cap = 0 BY <2>1, Visited
  <2>4. BudgetRoom' BY <2>1, <2>2, NotFunded
  <2>5. q.of \in Providers \X Tokens BY <2>2
  <2>6. used' \in [Tokens -> Nat] /\ outside' \in [Tokens -> Nat] BY <1>1, <2>1
  <2> QED BY <2>1, <2>2, <2>3, <2>4, <2>5, <2>6, Quiet
<1>3. CASE K!WithinBudget(r)
  <2> DEFINE q == [visit[r] EXCEPT !.pc = "funded", !.free = ~K!Registered(visit[r].of[2])]
  <2>1. /\ visit[r].pc = "known" /\ visit' = [visit EXCEPT ![r] = q]
        /\ ~K!Registered(visit[r].of[2]) \/ used[visit[r].of[2]] < Weekly
        /\ UNCHANGED <<ceiling, used, minted, outside, inflight, panel>>
    BY <1>3 DEF K!WithinBudget, K!Become, K!stores
  <2>2. visit[r] \in Visit /\ visit[r].of \in Providers \X Tokens /\ visit[r].cap = 0
    BY <2>1, Visited
  <2>3. /\ q \in Visit /\ q.pc = "funded" /\ q.cap = 0 /\ q.of = visit[r].of
        /\ q.free <=> ~K!Registered(visit[r].of[2])
    <3> DEFINE v == visit[r]
               b == ~K!Registered(v.of[2])
    <3>1. v \in Visit /\ b \in BOOLEAN /\ q = [v EXCEPT !.pc = "funded", !.free = b] BY <2>2
    <3> HIDE DEF v, b
    <3>2. /\ [v EXCEPT !.pc = "funded", !.free = b] \in Visit
          /\ [v EXCEPT !.pc = "funded", !.free = b].pc = "funded"
          /\ [v EXCEPT !.pc = "funded", !.free = b].cap = v.cap
          /\ [v EXCEPT !.pc = "funded", !.free = b].of = v.of
          /\ [v EXCEPT !.pc = "funded", !.free = b].free = b
      BY <3>1 DEF Visit
    <3> HIDE DEF q
    <3> QED BY <2>2, <3>1, <3>2 DEF v, b
  <2> HIDE DEF q
  <2>4. BudgetRoom'
    <3>1. CASE ~K!Registered(visit[r].of[2]) BY <2>1, <2>3, <3>1, NotFunded
    <3>2. CASE used[visit[r].of[2]] < Weekly
      <4>1. ASSUME NEW t \in Tokens
            PROVE  used[t] - outside[t] + Cardinality(Funded(t)') <= Weekly - 1 + Cardinality(Handlers)
        <5>1. Funded(t) \subseteq Handlers /\ Funded(t)' \subseteq Handlers BY DEF Funded
        <5>2. /\ Cardinality(Funded(t)) \in Nat /\ Cardinality(Handlers) \in Nat
              /\ Cardinality(Funded(t)') \in Nat /\ Cardinality(Funded(t)') <= Cardinality(Handlers)
              /\ used[t] \in Nat /\ outside[t] \in Nat
          BY <1>1, <5>1, Counting
        <5>3. CASE t = visit[r].of[2] BY <3>2, <5>2, <5>3, TokensConstants
        <5>4. CASE t # visit[r].of[2]
          <6>1. Funded(t)' \subseteq Funded(t) BY <1>1, <2>1, <2>3, <5>4 DEF Funded
          <6>2. Cardinality(Funded(t)') <= Cardinality(Funded(t))
            BY <5>1, <6>1, Counting, FS_Subset
          <6>3. used[t] - outside[t] + Cardinality(Funded(t)) <= Weekly - 1 + Cardinality(Handlers)
            BY <1>0 DEF BudgetRoom
          <6> QED BY <5>2, <6>2, <6>3, TokensConstants
        <5> QED BY <5>3, <5>4
      <4> QED BY <2>1, <4>1 DEF BudgetRoom
    <3> QED BY <2>1, <3>1, <3>2
  <2> QED BY <1>1, <2>1, <2>2, <2>3, <2>4, Quiet
<1>4. CASE K!OverBudget(r) \/ K!RateLimited(r)
  <2>1. /\ visit[r].pc \in {"known", "funded"} /\ visit' = [visit EXCEPT ![r] = K!Idle]
        /\ UNCHANGED <<ceiling, used, minted, outside, inflight, panel>>
    BY <1>4 DEF K!OverBudget, K!RateLimited, K!Become, K!stores
  <2>2. visit[r].cap = 0 /\ K!Idle \in Visit /\ K!Idle.pc = "idle" /\ K!Idle.cap = 0
    BY <2>1, Visited
  <2>3. BudgetRoom' BY <2>1, <2>2, NotFunded
  <2> QED BY <1>1, <2>1, <2>2, <2>3, Quiet
<1>5. CASE K!Uncounted(r)
  <2> DEFINE q == [visit[r] EXCEPT !.pc = "serving"]
  <2>1. /\ visit[r].pc = "funded" /\ visit' = [visit EXCEPT ![r] = q]
        /\ UNCHANGED <<ceiling, used, minted, outside, inflight, panel>>
    BY <1>5 DEF K!Uncounted, K!Go, K!Become, K!stores
  <2>2. /\ q \in Visit /\ q.pc = "serving" /\ q.of = visit[r].of /\ q.cap = visit[r].cap
        /\ q.free = visit[r].free /\ visit[r].of \in Providers \X Tokens /\ visit[r].cap = 0
    BY <2>1, Visited
  <2> HIDE DEF q
  <2>3. BudgetRoom' BY <2>1, <2>2, NotFunded
  <2> QED BY <1>1, <2>1, <2>2, <2>3, Quiet
<1>6. CASE K!Unanswered(r)
  <2> DEFINE q == [visit[r] EXCEPT !.pc = "leaving"]
  <2>1. /\ visit[r].pc = "serving" /\ visit' = [visit EXCEPT ![r] = q]
        /\ UNCHANGED <<ceiling, used, minted, outside, inflight, panel>>
    BY <1>6 DEF K!Unanswered, K!Go, K!Become, K!stores
  <2>2. /\ q \in Visit /\ q.pc = "leaving" /\ q.of = visit[r].of /\ q.cap = visit[r].cap
        /\ visit[r].of \in Providers \X Tokens
    BY <2>1, Visited
  <2> HIDE DEF q
  <2>3. BudgetRoom' BY <2>1, <2>2, NotFunded
  <2> QED BY <1>1, <2>1, <2>2, <2>3, Quiet
<1>7. CASE K!RecordClient(r)
  <2> DEFINE q == [visit[r] EXCEPT !.pc = "leaving"]
  <2>1. /\ visit[r].pc = "serving" /\ visit' = [visit EXCEPT ![r] = q]
        /\ used' = [used EXCEPT ![visit[r].of[2]] = @ + 1]
        /\ outside' = IF visit[r].free THEN [outside EXCEPT ![visit[r].of[2]] = @ + 1] ELSE outside
        /\ UNCHANGED <<ceiling, minted, inflight, panel>>
    BY <1>7 DEF K!RecordClient, K!Go, K!Become
  <2>2. /\ q \in Visit /\ q.pc = "leaving" /\ q.of = visit[r].of /\ q.cap = visit[r].cap
        /\ visit[r].of \in Providers \X Tokens
    BY <2>1, Visited
  <2> HIDE DEF q
  <2>3. used' \in [Tokens -> Nat] /\ outside' \in [Tokens -> Nat] BY <1>1, <2>1, <2>2
  <2>4. ASSUME NEW t \in Tokens
        PROVE  used'[t] - outside'[t] + Cardinality(Funded(t)') <= Weekly - 1 + Cardinality(Handlers)
    <3>1. Funded(t) \subseteq Handlers /\ Funded(t)' \subseteq Handlers BY DEF Funded
    <3>2. Funded(t)' = Funded(t) \ {r} BY <1>1, <2>1, <2>2 DEF Funded
    <3>3. /\ Cardinality(Funded(t)) \in Nat /\ Cardinality(Handlers) \in Nat
          /\ Cardinality(Funded(t)') \in Nat /\ used[t] \in Nat /\ outside[t] \in Nat
      BY <1>1, <3>1, Counting
    <3>4. used[t] - outside[t] + Cardinality(Funded(t)) <= Weekly - 1 + Cardinality(Handlers)
      BY <1>0 DEF BudgetRoom
    <3>5. Cardinality(Funded(t)') <= Cardinality(Funded(t)) BY <3>1, <3>2, Counting, FS_Subset
    <3>6. CASE t # visit[r].of[2]
      <4>1. used'[t] = used[t] /\ outside'[t] = outside[t] BY <1>1, <2>1, <2>2, <3>6
      <4> QED BY <3>3, <3>4, <3>5, <4>1, TokensConstants
    <3>7. CASE t = visit[r].of[2] /\ visit[r].free
      <4>1. used'[t] = used[t] + 1 /\ outside'[t] = outside[t] + 1 BY <1>1, <2>1, <2>2, <3>7
      <4> QED BY <3>3, <3>4, <3>5, <4>1, TokensConstants
    <3>8. CASE t = visit[r].of[2] /\ ~visit[r].free
      <4>1. used'[t] = used[t] + 1 /\ outside'[t] = outside[t] BY <1>1, <2>1, <2>2, <3>8
      <4>2. r \in Funded(t) BY <2>1, <3>8 DEF Funded
      <4>3. Cardinality(Funded(t)') = Cardinality(Funded(t)) - 1 BY <3>1, <3>2, <4>2, OneLess
      <4> QED BY <3>3, <3>4, <4>1, <4>3, TokensConstants
    <3> QED BY <3>6, <3>7, <3>8
  <2>5. BudgetRoom' BY <2>4 DEF BudgetRoom
  <2> QED BY <1>1, <2>1, <2>2, <2>3, <2>5, Quiet
<1>8. CASE K!Leave(r)
  <2>1. /\ visit[r].pc = "leaving" /\ visit' = [visit EXCEPT ![r] = K!Idle]
        /\ inflight' = IF visit[r].cap > 0 THEN [inflight EXCEPT ![visit[r].of] = @ - 1] ELSE inflight
        /\ UNCHANGED <<ceiling, used, minted, outside, panel>>
    BY <1>8 DEF K!Leave, K!Become, K!stores
  <2>2. /\ visit[r] \in Visit /\ visit[r].of \in Providers \X Tokens
        /\ K!Idle \in Visit /\ K!Idle.pc = "idle" /\ K!Idle.cap = 0
    BY <2>1, Visited
  <2>3. BudgetRoom' BY <2>1, <2>2, NotFunded
  <2>4. CASE visit[r].cap = 0
    <3>1. inflight' = inflight /\ used' \in [Tokens -> Nat] /\ outside' \in [Tokens -> Nat]
      BY <1>1, <2>1, <2>4
    <3> QED BY <2>1, <2>2, <2>3, <2>4, <3>1, Quiet
  <2>5. CASE visit[r].cap > 0
    <3>1. visit'[r] = K!Idle /\ visit' \in [Handlers -> Visit]
          /\ \A s \in Handlers \ {r} : visit'[s] = visit[s]
      BY <1>1, <2>1, <2>2
    <3>2. ASSUME NEW k \in Providers \X Tokens
          PROVE  /\ inflight'[k] = Cardinality(Slots(k)') /\ inflight'[k] \in Nat
                 /\ Slots(k)' = Slots(k) \ {r}
      <4>1. Slots(k)' = Slots(k) \ {r} BY <2>2, <3>1 DEF Slots
      <4>2. Slots(k) \subseteq Handlers /\ Slots(k)' \subseteq Handlers BY DEF Slots
      <4>3. Cardinality(Slots(k)) \in Nat /\ Cardinality(Slots(k)') \in Nat BY <4>2, Counting
      <4>4. inflight[k] = Cardinality(Slots(k)) BY DEF TokensInv
      <4>5. inflight \in [Providers \X Tokens -> Nat] BY <1>0 DEF TokensType
      <4>6. CASE k = visit[r].of
        <5>1. r \in Slots(k) BY <2>5, <4>6 DEF Slots
        <5>2. Cardinality(Slots(k)') = Cardinality(Slots(k)) - 1 BY <4>1, <4>2, <5>1, OneLess
        <5>3. inflight'[k] = inflight[k] - 1 BY <2>1, <2>5, <4>5, <4>6
        <5> QED BY <4>1, <4>3, <4>4, <5>2, <5>3
      <4>7. CASE k # visit[r].of
        <5>1. Slots(k)' = Slots(k) BY <4>1, <4>7 DEF Slots
        <5>2. inflight'[k] = inflight[k] BY <2>1, <2>2, <2>5, <4>5, <4>7
        <5> QED BY <4>1, <4>3, <4>4, <5>1, <5>2
      <4> QED BY <4>6, <4>7
    <3>3. inflight' \in [Providers \X Tokens -> Nat]
      <4>1. inflight' \in [Providers \X Tokens -> Int]
        BY <1>0, <2>1, <2>2, <2>5 DEF TokensType
      <4> QED BY <3>2, <4>1
    <3>4. TokensType' BY <1>0, <2>1, <2>2, <3>1, <3>3 DEF TokensType, K!Registered
    <3>5. ASSUME NEW k \in Providers \X Tokens, NEW T \in SUBSET Served(k)', T # {}
          PROVE  \E s \in T : Cardinality(T) <= visit'[s].cap
      <4>1. \A s \in T : s \in Served(k) /\ visit'[s] = visit[s] BY <2>2, <3>1, <3>5 DEF Served, Slots
      <4>2. T \in SUBSET Served(k) BY <4>1
      <4>3. PICK s \in T : Cardinality(T) <= visit[s].cap BY <1>0, <3>5, <4>2 DEF Covered
      <4> QED BY <4>1, <4>3
    <3>6. Covered' BY <3>5 DEF Covered
    <3> QED BY <2>3, <3>2, <3>4, <3>6 DEF TokensInv
  <2>6. visit[r].cap \in Nat BY <2>2 DEF Visit
  <2> QED BY <2>4, <2>5, <2>6
<1>9. CASE K!Counted(r)
  <2> DEFINE of == visit[r].of
             cap == K!clientMaxConcurrent(of[1], of[2])
             n == inflight[of] + 1
             over == K!OverCeiling(n, cap)
             q == [visit[r] EXCEPT !.cap = cap, !.pc = IF over THEN "leaving" ELSE "serving"]
  <2>1. /\ visit[r].pc = "funded" /\ cap > 0 /\ visit' = [visit EXCEPT ![r] = q]
        /\ inflight' = [inflight EXCEPT ![of] = n]
        /\ UNCHANGED <<ceiling, used, minted, outside, panel>>
    BY <1>9 DEF K!Counted, K!Become, K!stores
  <2>2. visit[r] \in Visit /\ of \in Providers \X Tokens /\ visit[r].cap = 0 BY <2>1, Visited
  <2>3. cap \in Nat
    <3>1. ceiling[of[2]] \in Nat \cup {-1} /\ Scale[of[1]] \in Nat /\ Default \in Nat
      BY <1>0, <2>2, TokensConstants DEF TokensType, K!Gone
    <3> HIDE DEF of
    <3> DEFINE a == IF ceiling[of[2]] > 0 THEN ceiling[of[2]] ELSE Default
               b == Scale[of[1]]
    <3>2. a \in Nat /\ b \in Nat BY <3>1
    <3>3. cap = a * b BY DEF K!clientMaxConcurrent
    <3> HIDE DEF a, b, cap
    <3>4. a * b \in Nat BY <3>2
    <3> QED BY <3>3, <3>4
  <2>4. /\ q \in Visit /\ q.cap = cap /\ q.of = of /\ q.free = visit[r].free
        /\ q.pc \in {"leaving", "serving"} /\ (q.pc = "serving" => ~over)
    <3> DEFINE v == visit[r]
               pc == IF over THEN "leaving" ELSE "serving"
    <3>1. v \in Visit /\ pc \in {"leaving", "serving"} /\ (pc = "serving" => ~over)
          /\ q = [v EXCEPT !.cap = cap, !.pc = pc]
      BY <2>2
    <3> HIDE DEF v, pc, cap, over
    <3>2. /\ [v EXCEPT !.cap = cap, !.pc = pc] \in Visit
          /\ [v EXCEPT !.cap = cap, !.pc = pc].cap = cap
          /\ [v EXCEPT !.cap = cap, !.pc = pc].pc = pc
          /\ [v EXCEPT !.cap = cap, !.pc = pc].of = v.of
          /\ [v EXCEPT !.cap = cap, !.pc = pc].free = v.free
      BY <2>3, <3>1 DEF Visit
    <3> HIDE DEF q
    <3> QED BY <3>1, <3>2 DEF v
  <2>5. ~over <=> n <= cap
    <3>1. n \in Nat BY <1>0, <2>2 DEF TokensType
    <3> HIDE DEF n, cap
    <3> QED BY <2>3, <3>1 DEF K!OverCeiling
  <2> HIDE DEF q, cap, over
  <2>6. BudgetRoom' BY <2>1, <2>4, NotFunded
  <2>7. visit'[r] = q /\ visit' \in [Handlers -> Visit]
        /\ \A s \in Handlers \ {r} : visit'[s] = visit[s]
    BY <1>1, <2>1, <2>4
  <2>8. ASSUME NEW k \in Providers \X Tokens
        PROVE  /\ inflight'[k] = Cardinality(Slots(k)') /\ inflight'[k] \in Nat
               /\ Slots(k)' = Slots(k) \cup (IF k = of THEN {r} ELSE {})
               /\ Slots(k)' \subseteq Handlers
    <3>1. r \notin Slots(k) BY <2>2 DEF Slots
    <3>2. Slots(k)' = Slots(k) \cup (IF k = of THEN {r} ELSE {})
      BY <2>1, <2>4, <2>7, <3>1 DEF Slots
    <3>3. Slots(k) \subseteq Handlers /\ Slots(k)' \subseteq Handlers BY DEF Slots
    <3>4. Cardinality(Slots(k)) \in Nat /\ inflight[k] = Cardinality(Slots(k))
      BY <3>3, Counting DEF TokensInv
    <3>5. inflight \in [Providers \X Tokens -> Nat] BY <1>0 DEF TokensType
    <3>6. CASE k = of
      <4>1. Cardinality(Slots(k)') = Cardinality(Slots(k)) + 1
        BY <3>1, <3>2, <3>3, <3>6, OneMore
      <4>2. inflight'[k] = inflight[k] + 1 BY <2>1, <3>5, <3>6
      <4> QED BY <3>2, <3>3, <3>4, <4>1, <4>2
    <3>7. CASE k # of
      <4>1. inflight'[k] = inflight[k] BY <2>1, <3>5, <3>7
      <4>2. Slots(k)' = Slots(k) BY <3>2, <3>7
      <4> QED BY <3>2, <3>3, <3>4, <3>7, <4>1, <4>2
    <3> QED BY <3>6, <3>7
  <2>9. inflight' \in [Providers \X Tokens -> Nat]
    BY <1>0, <2>1, <2>8 DEF TokensType
  <2>10. TokensType' BY <1>0, <2>1, <2>2, <2>4, <2>7, <2>9 DEF TokensType, K!Registered
  <2>11. ASSUME NEW k \in Providers \X Tokens, NEW T \in SUBSET Served(k)', T # {}
         PROVE  \E s \in T : Cardinality(T) <= visit'[s].cap
    <3>1. CASE r \in T
      <4>1. visit'[r].of = k /\ visit'[r].pc = "serving" BY <2>11, <3>1 DEF Served, Slots
      <4>2. k = of /\ n <= cap BY <2>4, <2>5, <2>7, <4>1
      <4>3. inflight'[k] = n BY <1>0, <2>1, <2>2, <4>2 DEF TokensType
      <4>4. Slots(k)' \subseteq Handlers /\ T \subseteq Slots(k)' BY <2>8, <2>11 DEF Served
      <4>5. /\ Cardinality(T) <= Cardinality(Slots(k)')
            /\ Cardinality(T) \in Nat /\ Cardinality(Slots(k)') \in Nat
        BY <4>4, Counting, FS_Subset, FS_CardinalityType
      <4>6. inflight'[k] = Cardinality(Slots(k)') BY <2>8
      <4>7. visit'[r].cap = cap BY <2>4, <2>7
      <4> HIDE DEF n
      <4> QED BY <2>3, <3>1, <4>2, <4>3, <4>5, <4>6, <4>7
    <3>2. CASE r \notin T
      <4>1. \A s \in T : s \in Served(k) /\ visit'[s] = visit[s]
        BY <2>7, <2>11, <3>2 DEF Served, Slots
      <4>2. T \in SUBSET Served(k) BY <4>1
      <4>3. PICK s \in T : Cardinality(T) <= visit[s].cap BY <1>0, <2>11, <4>2 DEF Covered
      <4> QED BY <4>1, <4>3
    <3> QED BY <3>1, <3>2
  <2>12. Covered' BY <2>11 DEF Covered
  <2> QED BY <2>6, <2>8, <2>10, <2>12 DEF TokensInv
<1> QED BY <1>2, <1>3, <1>4, <1>5, <1>6, <1>7, <1>8, <1>9

\* The token panel edits the tokens, and a reset or a merge moves what was spent.
LEMMA TokensEdited ==
  ASSUME TokensInv, UNCHANGED <<visit, inflight>>, TokensType', BudgetRoom'
  PROVE  TokensInv'
<1>1. \A k \in Providers \X Tokens : Slots(k)' = Slots(k) /\ Served(k)' = Served(k)
  BY DEF Slots, Served
<1>2. Covered' BY <1>1 DEF TokensInv, Covered
<1> QED BY <1>1, <1>2 DEF TokensInv

LEMMA UsageMoved ==
  ASSUME TokensInv, panel.pc # "idle", K!MoveUsage, UNCHANGED visit
  PROVE  used' \in [Tokens -> Nat] /\ outside' \in [Tokens -> Nat] /\ BudgetRoom'
<1>1. /\ used \in [Tokens -> Nat] /\ outside \in [Tokens -> Nat] /\ BudgetRoom
      /\ panel.from \in Tokens /\ panel.to \in Tokens /\ panel.from # panel.to
  BY DEF TokensInv, TokensType
<1>2. /\ used' = [used EXCEPT ![panel.from] = 0, ![panel.to] = @ + used[panel.from]]
      /\ outside' = [outside EXCEPT ![panel.from] = 0, ![panel.to] = @ + used[panel.from]]
  BY DEF K!MoveUsage
<1>3. ASSUME NEW t \in Tokens
      PROVE  /\ used'[t] \in Nat /\ outside'[t] \in Nat
             /\ used'[t] - outside'[t] + Cardinality(Funded(t)') <= Weekly - 1 + Cardinality(Handlers)
  <2>1. Funded(t)' = Funded(t) /\ Funded(t) \subseteq Handlers BY DEF Funded
  <2>2. /\ Cardinality(Funded(t)) \in Nat /\ Cardinality(Handlers) \in Nat
        /\ Cardinality(Funded(t)) <= Cardinality(Handlers)
    BY <2>1, Counting
  <2>3. used[t] - outside[t] + Cardinality(Funded(t)) <= Weekly - 1 + Cardinality(Handlers)
    BY <1>1 DEF BudgetRoom
  <2>4. used[t] \in Nat /\ outside[t] \in Nat /\ used[panel.from] \in Nat BY <1>1
  <2>5. CASE t = panel.from
    <3>1. used'[t] = 0 /\ outside'[t] = 0 BY <1>1, <1>2, <2>5
    <3> QED BY <2>1, <2>2, <3>1, TokensConstants
  <2>6. CASE t = panel.to
    <3>1. used'[t] = used[t] + used[panel.from] /\ outside'[t] = outside[t] + used[panel.from]
      BY <1>1, <1>2, <2>6
    <3> QED BY <2>1, <2>2, <2>3, <2>4, <3>1, TokensConstants
  <2>7. CASE t \notin {panel.from, panel.to}
    <3>1. used'[t] = used[t] /\ outside'[t] = outside[t] BY <1>1, <1>2, <2>7
    <3> QED BY <2>1, <2>3, <2>4, <3>1
  <2> QED BY <2>5, <2>6, <2>7
<1>4. used' \in [Tokens -> Nat] /\ outside' \in [Tokens -> Nat] BY <1>1, <1>2
<1> QED BY <1>3, <1>4 DEF BudgetRoom

LEMMA TokensStep == ASSUME TokensInv, K!Next \/ UNCHANGED tokens PROVE TokensInv'
<1>0. TokensType /\ BudgetRoom BY DEF TokensInv
<1>1. ASSUME UNCHANGED <<used, outside, visit>> PROVE BudgetRoom'
  <2>1. \A t \in Tokens : Funded(t)' = Funded(t) BY <1>1 DEF Funded
  <2> QED BY <1>0, <1>1, <2>1 DEF BudgetRoom
<1>2. ASSUME NEW t \in Tokens, NEW c \in Ceilings,
             K!handleCreateToken(t, c) \/ K!handlePatchToken(t, c)
      PROVE  TokensInv'
  <2>1. /\ ceiling' = [ceiling EXCEPT ![t] = c] /\ minted' \subseteq minted \cup {t}
        /\ minted \subseteq minted' /\ (t \in minted' \/ K!Registered(t))
        /\ UNCHANGED <<used, outside, inflight, visit, panel>>
    BY <1>2 DEF K!handleCreateToken, K!handlePatchToken
  <2>2. TokensType' BY <1>0, <2>1 DEF TokensType, K!Registered
  <2> QED BY <1>1, <2>1, <2>2, TokensEdited
<1>3. ASSUME NEW t \in Tokens, K!handleDeleteToken(t) PROVE TokensInv'
  <2>1. /\ ceiling' = [ceiling EXCEPT ![t] = K!Gone]
        /\ UNCHANGED <<used, outside, minted, inflight, visit, panel>>
    BY <1>3 DEF K!handleDeleteToken
  <2>2. TokensType' BY <1>0, <2>1 DEF TokensType, K!Registered
  <2> QED BY <1>1, <2>1, <2>2, TokensEdited
<1>4. ASSUME NEW t \in Tokens, NEW u \in Tokens, K!handleResetToken(t, u) PROVE TokensInv'
  <2>1. /\ K!Registered(t) /\ u \notin minted
        /\ ceiling' = [ceiling EXCEPT ![u] = ceiling[t], ![t] = K!Gone]
        /\ minted' = minted \cup {u} /\ panel' = [pc |-> "rename", from |-> t, to |-> u]
        /\ UNCHANGED <<used, outside, inflight, visit>>
    BY <1>4 DEF K!handleResetToken
  <2>2. t # u BY <1>0, <2>1 DEF TokensType
  <2>3. TokensType' BY <1>0, <2>1, <2>2 DEF TokensType, K!Registered
  <2> QED BY <1>1, <2>1, <2>3, TokensEdited
<1>5. ASSUME NEW t \in Tokens, NEW u \in Tokens, K!handleInheritToken(t, u) PROVE TokensInv'
  <2>1. /\ u # t /\ panel' = [pc |-> "inherit", from |-> u, to |-> t]
        /\ UNCHANGED <<ceiling, used, minted, outside, inflight, visit>>
    BY <1>5 DEF K!handleInheritToken, K!stores
  <2>2. TokensType' BY <1>0, <2>1 DEF TokensType, K!Registered
  <2> QED BY <1>1, <2>1, <2>2, TokensEdited
<1>6. CASE K!RenameClient \/ K!MergeClient
  <2>1. panel.pc # "idle" /\ K!MoveUsage /\ panel' = K!NoPanel
        /\ UNCHANGED <<ceiling, minted, inflight, visit>>
    BY <1>6 DEF K!RenameClient, K!MergeClient, K!EndPanel
  <2>2. used' \in [Tokens -> Nat] /\ outside' \in [Tokens -> Nat] /\ BudgetRoom'
    BY <2>1, UsageMoved
  <2>3. TokensType' BY <1>0, <2>1, <2>2 DEF TokensType, K!Registered, K!NoPanel
  <2> QED BY <2>1, <2>2, <2>3, TokensEdited
<1>7. CASE K!RenameFails \/ K!SourceRegistered
  <2>1. panel' = K!NoPanel /\ UNCHANGED <<ceiling, minted, inflight, visit, used, outside>>
    BY <1>7 DEF K!RenameFails, K!SourceRegistered, K!EndPanel
  <2>2. TokensType' BY <1>0, <2>1 DEF TokensType, K!Registered, K!NoPanel
  <2> QED BY <1>1, <2>1, <2>2, TokensEdited
<1>8. CASE K!SourceOrphan
  <2>1. /\ panel.pc = "inherit" /\ panel' = [panel EXCEPT !.pc = "merge"]
        /\ UNCHANGED <<ceiling, used, minted, outside, inflight, visit>>
    BY <1>8 DEF K!SourceOrphan, K!stores
  <2>2. /\ panel'.from = panel.from /\ panel'.to = panel.to /\ panel'.pc \in {"merge", "inherit"}
    BY <1>0, <2>1 DEF TokensType
  <2>3. TokensType' BY <1>0, <2>1, <2>2 DEF TokensType, K!Registered
  <2> QED BY <1>1, <2>1, <2>3, TokensEdited
<1>9. CASE UNCHANGED tokens
  <2>1. UNCHANGED <<ceiling, used, inflight, visit, panel, minted, outside>> BY <1>9 DEF tokens
  <2>2. TokensType' BY <1>0, <2>1 DEF TokensType, K!Registered
  <2> QED BY <1>1, <2>1, <2>2, TokensEdited
<1>10. ASSUME NEW r \in Handlers,
              \/ \E p \in Providers, t \in Tokens : K!clientAuth(r, p, t)
              \/ K!WithinBudget(r) \/ K!OverBudget(r) \/ K!RateLimited(r) \/ K!Uncounted(r)
              \/ K!Counted(r) \/ K!Unanswered(r) \/ K!RecordClient(r) \/ K!Leave(r)
       PROVE  TokensInv'
  BY <1>10, TokensRequest
<1> QED
  BY <1>2, <1>3, <1>4, <1>5, <1>6, <1>7, <1>8, <1>9, <1>10 DEF K!Next

LEMMA TokensHold == ASSUME TokensInv PROVE K!ClientKeysHold
<1>0. TokensType /\ BudgetRoom /\ Covered BY DEF TokensInv
<1>1. \A T : K!Cardinality(T) = Cardinality(T) BY DEF K!Cardinality, Cardinality
<1>2. ASSUME NEW k \in Providers \X Tokens
      PROVE  inflight[k] = Cardinality(Slots(k)) /\ inflight[k] \in 0..Cardinality(Handlers)
  <2>1. Slots(k) \subseteq Handlers BY DEF Slots
  <2>2. inflight[k] = Cardinality(Slots(k)) BY DEF TokensInv
  <2> QED BY <2>1, <2>2, Counting
<1>3. K!TypeOK
  <2>1. inflight \in [Providers \X Tokens -> 0..Cardinality(Handlers)] BY <1>0, <1>2 DEF TokensType
  <2> QED BY <1>0, <1>1, <2>1 DEF K!TypeOK, TokensType, Visit
<1>4. ASSUME NEW t \in Tokens PROVE used[t] - outside[t] < Weekly + Cardinality(Handlers)
  <2>1. Funded(t) \subseteq Handlers BY DEF Funded
  <2>2. Cardinality(Funded(t)) \in Nat /\ Cardinality(Handlers) \in Nat BY <2>1, Counting
  <2>3. used[t] - outside[t] + Cardinality(Funded(t)) <= Weekly - 1 + Cardinality(Handlers)
    BY <1>0 DEF BudgetRoom
  <2>4. used[t] \in Nat /\ outside[t] \in Nat BY <1>0 DEF TokensType
  <2> QED BY <2>2, <2>3, <2>4, TokensConstants
<1>5. K!BudgetHeld BY <1>1, <1>4 DEF K!BudgetHeld
<1>6. ASSUME NEW k \in Providers \X Tokens
      PROVE  LET set == {r \in Handlers : visit[r].pc = "serving" /\ visit[r].cap > 0 /\ visit[r].of = k}
             IN  set # {} => \E r \in set : K!Cardinality(set) <= visit[r].cap
  <2>1. {r \in Handlers : visit[r].pc = "serving" /\ visit[r].cap > 0 /\ visit[r].of = k} = Served(k)
    BY DEF Served, Slots
  <2>2. Served(k) # {} => \E r \in Served(k) : Cardinality(Served(k)) <= visit[r].cap
    BY <1>0 DEF Covered
  <2> QED BY <1>1, <2>1, <2>2
<1>7. K!CeilingHeld BY <1>6 DEF K!CeilingHeld
<1>8. K!SlotsReturned BY <1>1, <1>2 DEF K!SlotsReturned, Slots
<1> QED BY <1>3, <1>5, <1>7, <1>8 DEF K!ClientKeysHold

-----------------------------------------------------------------------------
(* API keys and their caps.                                                 *)

Asked ==
  [pc : {"idle", "insert", "resolved", "serving"}, key : Right \cup {"none"},
   admin : Nat, good : BOOLEAN]
KeyRows == [st : {"none", "live", "disabled", "deleted"}, secret : Nat, admin : Nat]
Ledgers == [Right \X (0..MaxDay) -> Nat]

\* The requests q that are served on some of the keys, and what they may cost.
Admitted(q, keys) == {r \in Handlers : q[r].pc = "serving" /\ q[r].key \in keys}
Pending(q, keys) == Cardinality(Admitted(q, keys)) * C!MaxBill

\* The days that count for the day's and for the month's cap on day d.
MonthOf(d) == {e \in 0..d : C!month(e) = C!month(d)}

\* What is charged in the ledger s, and what the requests served may still
\* cost, stay below the cap and its slack.
Room(s, q, keys, days, cap) ==
  cap = 0 \/ SumFunctionOnSet(s, keys \X days) + Pending(q, keys) < cap + C!Slack

\* The ledger s with a charge of a on key k and day d.
Charged(s, k, d, a) == [s EXCEPT ![<<k, d>>] = @ + a]

Rooms(s, q, d) ==
  /\ Room(s, q, Right, {d}, DayCap) /\ Room(s, q, Right, MonthOf(d), MonthCap)
  /\ \A u \in Holders : Room(s, q, C!KeysOf(u), MonthOf(d), MemberCap)
  /\ \A k \in Right : Room(s, q, {k}, {d}, KeyDay) /\ Room(s, q, {k}, MonthOf(d), KeyMonth)

CapsType ==
  /\ day \in 0..MaxDay /\ space \in {"open", "disabled"} /\ belongs \subseteq Holders
  /\ key \in [Right -> KeyRows]
  /\ request \in [Handlers -> Asked]
  /\ \A r \in Handlers : request[r].pc # "idle" => request[r].key \in Right
  /\ spent \in Ledgers
  /\ \A c \in Right \X (0..MaxDay) : c[2] > day => spent[c] = 0

CapsInv == CapsType /\ Rooms(spent, request, day) /\ C!ServedAsMember

LEMMA CapsConstants ==
  /\ IsFiniteSet(Right) /\ IsFiniteSet(Handlers) /\ Owner \in [Right -> Holders]
  /\ Bills \subseteq Nat /\ C!MaxBill \in Nat /\ \A b \in Bills : C!MaxBill >= b
  /\ DayCap \in Nat /\ MonthCap \in Nat /\ MemberCap \in Nat /\ KeyDay \in Nat
  /\ KeyMonth \in Nat /\ MaxDay \in Nat /\ AdminCaps \subseteq Nat
  /\ DaysPerMonth \in Nat \ {0}
<1>1. C!SpendCapsAssumption BY AccountsAssumption
<1>2. \E b \in Bills : \A c \in Bills : b >= c BY <1>1 DEF C!SpendCapsAssumption
<1>3. C!MaxBill \in Bills /\ \A c \in Bills : C!MaxBill >= c BY <1>2 DEF C!MaxBill
<1> QED BY <1>1, <1>3 DEF C!SpendCapsAssumption, C!IsFiniteSet, IsFiniteSet

\* The month of an earlier day is no later.
LEMMA MonthsInOrder ==
  ASSUME NEW d \in Nat, NEW e \in Nat, d <= e
  PROVE  /\ C!month(d) \in Nat /\ C!month(e) \in Nat /\ C!month(d) <= C!month(e)
<1> DEFINE n == DaysPerMonth
           p == d \div n
           q == e \div n
<1>0. n \in Nat /\ n > 0 BY CapsConstants
<1>1. /\ p \in Nat /\ q \in Nat /\ d >= n * p /\ e < n * q + n
  BY <1>0
<1>2. ~ (p >= q + 1)
  <2> HIDE DEF p, q, n
  <2> SUFFICES ASSUME p >= q + 1 PROVE FALSE OBVIOUS
  <2>1. PICK j \in Nat : p = q + 1 + j BY <1>1
  <2>2. n * p = n * q + n + n * j BY <1>0, <1>1, <2>1
  <2>3. n * j \in Nat /\ n * q \in Nat BY <1>0, <1>1
  <2> QED BY <1>0, <1>1, <2>2, <2>3
<1> QED BY <1>1, <1>2 DEF C!month

LEMMA SumsAgree ==
  ASSUME NEW keys, NEW days
  PROVE  C!SumOf(keys, days) = SumFunctionOnSet(spent, keys \X days)
BY DEF C!SumOf, C!SumFunctionOnSet, C!FoldFunctionOnSet, C!MapThenFoldSet,
       SumFunctionOnSet, FoldFunctionOnSet, MapThenFoldSet

\* Keys and days of the ledger are finitely many.
LEMMA LedgerPart ==
  ASSUME NEW s \in Ledgers, NEW keys, keys \subseteq Right, NEW days, days \subseteq 0..MaxDay
  PROVE  /\ IsFiniteSet(keys \X days) /\ keys \X days \subseteq Right \X (0..MaxDay)
         /\ \A c \in keys \X days : s[c] \in Nat
         /\ SumFunctionOnSet(s, keys \X days) \in Nat
<1>1. IsFiniteSet(keys) /\ IsFiniteSet(days)
  <2>1. IsFiniteSet(0..MaxDay) BY CapsConstants, FS_Interval
  <2> QED BY <2>1, CapsConstants, FS_Subset
<1>2. IsFiniteSet(keys \X days) BY <1>1, FS_Product
<1>3. keys \X days \subseteq Right \X (0..MaxDay) OBVIOUS
<1>4. \A c \in keys \X days : s[c] \in Nat BY <1>3 DEF Ledgers
<1> QED BY <1>2, <1>3, <1>4, SumNat

\* What requests may cost grows with them, up to the slack.
LEMMA PendingBounds ==
  ASSUME NEW q, NEW keys
  PROVE  Pending(q, keys) \in Nat /\ C!Slack \in Nat /\ Pending(q, keys) <= C!Slack
<1> DEFINE a == Cardinality(Admitted(q, keys))
           b == Cardinality(Handlers)
           m == C!MaxBill
<1>1. Admitted(q, keys) \subseteq Handlers BY DEF Admitted
<1>2. a \in Nat /\ b \in Nat /\ a <= b BY <1>1, Counting
<1>3. m \in Nat BY CapsConstants
<1>4. C!Slack = b * m BY DEF C!Slack, C!Cardinality, Cardinality
<1>5. Pending(q, keys) = a * m BY DEF Pending
<1> HIDE DEF a, b, m
<1>6. PICK j \in Nat : b = a + j BY <1>2
<1>7. b * m = a * m + j * m /\ a * m \in Nat /\ j * m \in Nat BY <1>2, <1>3, <1>6
<1> QED BY <1>4, <1>5, <1>7

LEMMA PendingGrows ==
  ASSUME NEW q, NEW p, NEW keys, Admitted(p, keys) \subseteq Admitted(q, keys)
  PROVE  Pending(p, keys) <= Pending(q, keys)
<1> DEFINE a == Cardinality(Admitted(p, keys))
           b == Cardinality(Admitted(q, keys))
           m == C!MaxBill
<1>1. Admitted(q, keys) \subseteq Handlers /\ Admitted(p, keys) \subseteq Handlers BY DEF Admitted
<1>2. a \in Nat /\ b \in Nat /\ a <= b BY <1>1, Counting, FS_Subset
<1>3. m \in Nat BY CapsConstants
<1>5. Pending(p, keys) = a * m /\ Pending(q, keys) = b * m BY DEF Pending
<1> HIDE DEF a, b, m
<1>6. PICK j \in Nat : b = a + j BY <1>2
<1>7. b * m = a * m + j * m /\ a * m \in Nat /\ j * m \in Nat BY <1>2, <1>3, <1>6
<1> QED BY <1>5, <1>7

\* A request that ends no longer costs what it might.
LEMMA PendingEnds ==
  ASSUME NEW q, NEW p, NEW keys, NEW r \in Admitted(q, keys),
         Admitted(p, keys) = Admitted(q, keys) \ {r}
  PROVE  Pending(p, keys) + C!MaxBill = Pending(q, keys)
<1> DEFINE a == Cardinality(Admitted(p, keys))
           b == Cardinality(Admitted(q, keys))
           m == C!MaxBill
<1>1. Admitted(q, keys) \subseteq Handlers /\ Admitted(p, keys) \subseteq Handlers BY DEF Admitted
<1>2. a \in Nat /\ b \in Nat BY <1>1, Counting
<1>4. a = b - 1 BY <1>1, OneLess
<1>3. m \in Nat BY CapsConstants
<1>5. Pending(p, keys) = a * m /\ Pending(q, keys) = b * m BY DEF Pending
<1> HIDE DEF a, b, m
<1>6. b = a + 1 BY <1>2, <1>4
<1>7. b * m = a * m + m /\ a * m \in Nat BY <1>2, <1>3, <1>6
<1> QED BY <1>3, <1>5, <1>7 DEF m

-----------------------------------------------------------------------------
(* How a step moves the room under the caps.                                *)

\* Nothing is charged, and nobody comes: the room does not shrink.
LEMMA RoomKept ==
  ASSUME NEW s \in Ledgers, NEW q, NEW p, NEW keys, keys \subseteq Right,
         NEW days, days \subseteq 0..MaxDay, NEW cap \in Nat,
         Room(s, q, keys, days, cap), Admitted(p, keys) \subseteq Admitted(q, keys)
  PROVE  Room(s, p, keys, days, cap)
<1>1. Pending(p, keys) <= Pending(q, keys) BY PendingGrows
<1>2. SumFunctionOnSet(s, keys \X days) \in Nat BY LedgerPart
<1>3. Pending(p, keys) \in Nat /\ Pending(q, keys) \in Nat /\ C!Slack \in Nat BY PendingBounds
<1> QED BY <1>1, <1>2, <1>3 DEF Room

\* A request that finds the charges under the cap finds room for all requests.
LEMMA RoomFound ==
  ASSUME NEW s \in Ledgers, NEW p, NEW keys, keys \subseteq Right,
         NEW days, days \subseteq 0..MaxDay, NEW cap \in Nat,
         cap = 0 \/ SumFunctionOnSet(s, keys \X days) < cap
  PROVE  Room(s, p, keys, days, cap)
<1>2. SumFunctionOnSet(s, keys \X days) \in Nat BY LedgerPart
<1>3. Pending(p, keys) \in Nat /\ C!Slack \in Nat /\ Pending(p, keys) <= C!Slack BY PendingBounds
<1> QED BY <1>2, <1>3 DEF Room

\* A charge takes no more than what its request held.
LEMMA RoomCharged ==
  ASSUME NEW s \in Ledgers, NEW q, NEW p, NEW keys, keys \subseteq Right,
         NEW days, days \subseteq 0..MaxDay, NEW cap \in Nat,
         Room(s, q, keys, days, cap),
         NEW k \in Right, NEW r \in Admitted(q, {k}),
         \A h \in Handlers : h \in Admitted(p, keys) <=> h \in Admitted(q, keys) /\ h # r,
         NEW d \in days, NEW a \in Bills
  PROVE  Room(Charged(s, k, d, a), p, keys, days, cap)
<1> DEFINE t == Charged(s, k, d, a)
           A == keys \X days
<1>0. a \in Nat /\ a <= C!MaxBill /\ C!MaxBill \in Nat BY CapsConstants
<1>r. r \in Handlers /\ q[r].pc = "serving" /\ q[r].key = k BY DEF Admitted
<1>1. /\ IsFiniteSet(A) /\ A \subseteq Right \X (0..MaxDay)
      /\ \A c \in A : s[c] \in Int
  <2>1. \A c \in A : s[c] \in Nat BY LedgerPart
  <2>2. IsFiniteSet(A) /\ A \subseteq Right \X (0..MaxDay) BY LedgerPart
  <2> QED BY <2>1, <2>2
<1>2. /\ t[<<k, d>>] = s[<<k, d>>] + a
      /\ \A c \in Right \X (0..MaxDay) : c # <<k, d>> => t[c] = s[c]
  BY DEF Ledgers, Charged
<1>3. Pending(p, keys) \in Nat /\ Pending(q, keys) \in Nat /\ C!Slack \in Nat BY PendingBounds
<1>4. CASE k \in keys
  <2>1. SumFunctionOnSet(t, A) = SumFunctionOnSet(s, A) + a
    <3>1. <<k, d>> \in A BY <1>4
    <3>2. \A c \in A \ {<<k, d>>} : t[c] = s[c] BY <1>1, <1>2
    <3>3. t[<<k, d>>] = s[<<k, d>>] + a /\ a \in Int /\ \A c \in A : s[c] \in Int
      BY <1>0, <1>1, <1>2
    <3> HIDE DEF t, A
    <3> QED BY <1>1, <3>1, <3>2, <3>3, SumChange
  <2>2. r \in Admitted(q, keys) /\ Admitted(p, keys) = Admitted(q, keys) \ {r}
    BY <1>r, <1>4 DEF Admitted
  <2>3. Pending(p, keys) + C!MaxBill = Pending(q, keys) BY <2>2, PendingEnds
  <2>4. Room(s, q, keys, days, cap) OBVIOUS
  <2> HIDE DEF t
  <2>5. SumFunctionOnSet(s, A) \in Nat BY LedgerPart
  <2>6. cap = 0 \/ SumFunctionOnSet(t, A) + Pending(p, keys) < cap + C!Slack
    <3> HIDE DEF A
    <3>1. cap = 0 \/ SumFunctionOnSet(s, A) + Pending(q, keys) < cap + C!Slack
      BY <2>4 DEF Room, A
    <3> QED BY <1>0, <1>3, <2>1, <2>3, <2>5, <3>1
  <2> QED BY <2>6 DEF Room, t
<1>5. CASE k \notin keys
  <2>1. SumFunctionOnSet(t, A) = SumFunctionOnSet(s, A)
    <3>1. \A c \in A : s[c] \in Int /\ s[c] = t[c] BY <1>1, <1>2, <1>5
    <3> HIDE DEF t, A
    <3> QED BY <1>1, <3>1, SumAgree
  <2>2. Admitted(p, keys) = Admitted(q, keys) BY <1>r, <1>5 DEF Admitted
  <2>3. Room(s, p, keys, days, cap) BY <2>2, RoomKept
  <2> HIDE DEF t
  <2> QED BY <2>1, <2>3 DEF Room, t
<1> QED BY <1>4, <1>5

\* Days on which nothing was charged leave the whole room.
LEMMA RoomOfNewDay ==
  ASSUME NEW s \in Ledgers, NEW q, NEW keys, keys \subseteq Right,
         NEW days, days \subseteq 0..MaxDay, NEW cap \in Nat,
         \A c \in keys \X days : s[c] = 0
  PROVE  Room(s, q, keys, days, cap)
<1>1. SumFunctionOnSet(s, keys \X days) = 0 BY LedgerPart, SumOfZeros
<1>2. cap = 0 \/ SumFunctionOnSet(s, keys \X days) < cap BY <1>1
<1> QED BY <1>2, RoomFound

\* A day more, on which nothing was charged, changes nothing.
LEMMA RoomOfLongerMonth ==
  ASSUME NEW s \in Ledgers, NEW q, NEW keys, keys \subseteq Right,
         NEW days, days \subseteq 0..MaxDay, NEW cap \in Nat, NEW e \in 0..MaxDay, e \notin days,
         \A k \in keys : s[<<k, e>>] = 0, Room(s, q, keys, days, cap)
  PROVE  Room(s, q, keys, days \cup {e}, cap)
<1> DEFINE A == keys \X days
           B == keys \X {e}
<1>1. keys \X (days \cup {e}) = A \cup B /\ A \cap B = {} OBVIOUS
<1>2. /\ IsFiniteSet(A) /\ \A c \in A : s[c] \in Nat
      /\ SumFunctionOnSet(s, A) \in Nat
  BY LedgerPart
<1>3. IsFiniteSet(B) /\ \A c \in B : s[c] \in Nat
  <2>1. {e} \subseteq 0..MaxDay OBVIOUS
  <2> QED BY <2>1, LedgerPart
<1>4. \A c \in B : s[c] = 0 OBVIOUS
<1>5. Room(s, q, keys, days, cap) OBVIOUS
<1>6. SumFunctionOnSet(s, A \cup B) = SumFunctionOnSet(s, A)
  <2>1. \A c \in A \cup B : s[c] \in Int BY <1>2, <1>3
  <2>2. SumFunctionOnSet(s, B) = 0
    <3> HIDE DEF B
    <3> QED BY <1>3, <1>4, SumOfZeros
  <2> HIDE DEF A, B
  <2>3. SumFunctionOnSet(s, A \cup B) = SumFunctionOnSet(s, A) + SumFunctionOnSet(s, B)
    BY <1>1, <1>2, <1>3, <2>1, SumUnion
  <2> QED BY <1>2, <2>2, <2>3
<1> QED BY <1>1, <1>5, <1>6 DEF Room

-----------------------------------------------------------------------------
(* The caps hold, step by step.                                             *)

LEMMA RoomsType ==
  ASSUME NEW d \in 0..MaxDay
  PROVE  /\ MonthOf(d) \subseteq 0..MaxDay /\ d \in MonthOf(d) /\ {d} \subseteq 0..MaxDay
         /\ \A u \in Holders : C!KeysOf(u) \subseteq Right
         /\ \A k \in Right : {k} \subseteq Right
<1>1. MaxDay \in Nat BY CapsConstants
<1> QED BY <1>1 DEF MonthOf, C!KeysOf

\* A step that charges nothing and serves nobody new keeps every cap.
LEMMA RoomsKept ==
  ASSUME NEW s \in Ledgers, NEW q, NEW p, NEW d \in 0..MaxDay, Rooms(s, q, d),
         \A r \in Handlers : p[r].pc = "serving" => q[r].pc = "serving" /\ q[r].key = p[r].key
  PROVE  Rooms(s, p, d)
<1>1. \A keys : Admitted(p, keys) \subseteq Admitted(q, keys) BY DEF Admitted
<1>2. Room(s, p, Right, {d}, DayCap) /\ Room(s, p, Right, MonthOf(d), MonthCap)
  BY <1>1, CapsConstants, RoomsType, RoomKept DEF Rooms
<1>3. \A u \in Holders : Room(s, p, C!KeysOf(u), MonthOf(d), MemberCap)
  BY <1>1, CapsConstants, RoomsType, RoomKept DEF Rooms
<1>4. \A k \in Right : Room(s, p, {k}, {d}, KeyDay) /\ Room(s, p, {k}, MonthOf(d), KeyMonth)
  BY <1>1, CapsConstants, RoomsType, RoomKept DEF Rooms
<1> QED BY <1>2, <1>3, <1>4 DEF Rooms

LEMMA RoomsCharged ==
  ASSUME NEW s \in Ledgers, NEW q, NEW p, NEW d \in 0..MaxDay, Rooms(s, q, d),
         NEW k \in Right, NEW r \in Admitted(q, {k}), NEW a \in Bills,
         p[r].pc # "serving", \A h \in Handlers \ {r} : p[h] = q[h]
  PROVE  Rooms(Charged(s, k, d, a), p, d)
<1> DEFINE t == Charged(s, k, d, a)
<1>1. \A keys : \A h \in Handlers :
        h \in Admitted(p, keys) <=> h \in Admitted(q, keys) /\ h # r
  BY DEF Admitted
<1>2. ASSUME NEW keys, keys \subseteq Right, NEW days, days \subseteq 0..MaxDay, d \in days,
             NEW cap \in Nat, Room(s, q, keys, days, cap)
      PROVE  Room(t, p, keys, days, cap)
  <2>1. \A h \in Handlers : h \in Admitted(p, keys) <=> h \in Admitted(q, keys) /\ h # r
    BY <1>1
  <2>2. /\ r \in Handlers /\ s \in Ledgers /\ d \in days
        /\ keys \subseteq Right /\ days \subseteq 0..MaxDay /\ Room(s, q, keys, days, cap)
    BY <1>2 DEF Admitted
  <2> QED BY <2>1, <2>2, RoomCharged
<1> HIDE DEF t
<1>3. d \in {d} OBVIOUS
<1>4. Room(t, p, Right, {d}, DayCap) /\ Room(t, p, Right, MonthOf(d), MonthCap)
  BY <1>2, <1>3, CapsConstants, RoomsType DEF Rooms
<1>5. \A u \in Holders : Room(t, p, C!KeysOf(u), MonthOf(d), MemberCap)
  BY <1>2, CapsConstants, RoomsType DEF Rooms
<1>6. \A j \in Right : Room(t, p, {j}, {d}, KeyDay) /\ Room(t, p, {j}, MonthOf(d), KeyMonth)
  BY <1>2, <1>3, CapsConstants, RoomsType DEF Rooms
<1> QED BY <1>4, <1>5, <1>6 DEF Rooms, t

\* At midnight the day's charges count from nothing, and the month's do or
\* stay as they are.
LEMMA RoomsOfNewDay ==
  ASSUME NEW s \in Ledgers, NEW q, NEW d \in 0..MaxDay, d < MaxDay, Rooms(s, q, d),
         \A c \in Right \X (0..MaxDay) : c[2] > d => s[c] = 0
  PROVE  Rooms(s, q, d + 1)
<1> DEFINE e == d + 1
<1>0. MaxDay \in Nat /\ d \in Nat /\ e \in 0..MaxDay /\ e \in Nat BY CapsConstants
<1>1. ASSUME NEW keys, keys \subseteq Right, NEW cap \in Nat
      PROVE  Room(s, q, keys, {e}, cap)
  <2>1. \A c \in keys \X {e} : c \in Right \X (0..MaxDay) /\ c[2] > d BY <1>0, <1>1
  <2>2. {e} \subseteq 0..MaxDay BY <1>0
  <2> HIDE DEF e
  <2> QED BY <1>1, <2>1, <2>2, RoomOfNewDay
<1>2. ASSUME NEW keys, keys \subseteq Right, NEW cap \in Nat, Room(s, q, keys, MonthOf(d), cap)
      PROVE  Room(s, q, keys, MonthOf(e), cap)
  <2>1. CASE C!month(e) = C!month(d)
    <3>1. MonthOf(e) = MonthOf(d) \cup {e} BY <1>0, <2>1 DEF MonthOf
    <3>2. \A k \in keys : s[<<k, e>>] = 0
      <4>1. \A k \in keys : <<k, e>> \in Right \X (0..MaxDay) /\ <<k, e>>[2] > d
        BY <1>0, <1>2
      <4> HIDE DEF e
      <4> QED BY <4>1
    <3>3. e \notin MonthOf(d) BY <1>0 DEF MonthOf
    <3> HIDE DEF e
    <3> QED BY <1>0, <1>2, <3>1, <3>2, <3>3, RoomsType, RoomOfLongerMonth
  <2>2. CASE C!month(e) # C!month(d)
    <3>1. \A f \in 0..d : C!month(f) # C!month(e)
      <4> SUFFICES ASSUME NEW f \in 0..d, C!month(f) = C!month(e) PROVE FALSE OBVIOUS
      <4>1. f \in Nat /\ f <= d /\ d <= e BY <1>0
      <4>2. C!month(f) <= C!month(d) /\ C!month(d) <= C!month(e)
            /\ C!month(d) \in Nat /\ C!month(e) \in Nat
        BY <1>0, <4>1, MonthsInOrder
      <4> HIDE DEF e
      <4> QED BY <2>2, <4>2
    <3>2. MonthOf(e) = {e} BY <1>0, <3>1 DEF MonthOf
    <3> HIDE DEF e
    <3> QED BY <1>1, <1>2, <3>2
  <2> QED BY <2>1, <2>2
<1> HIDE DEF e
<1>3. Room(s, q, Right, {e}, DayCap) /\ Room(s, q, Right, MonthOf(e), MonthCap)
  BY <1>1, <1>2, CapsConstants DEF Rooms
<1>4. \A u \in Holders : Room(s, q, C!KeysOf(u), MonthOf(e), MemberCap)
  BY <1>2, CapsConstants, RoomsType DEF Rooms
<1>5. \A k \in Right : Room(s, q, {k}, {e}, KeyDay) /\ Room(s, q, {k}, MonthOf(e), KeyMonth)
  BY <1>1, <1>2, CapsConstants, RoomsType DEF Rooms
<1>6. Rooms(s, q, e) BY <1>3, <1>4, <1>5 DEF Rooms
<1> QED BY <1>6 DEF e

LEMMA CapsInit == ASSUME C!Init PROVE CapsInv
<1>1. /\ day = 0 /\ space = "open" /\ belongs = Holders
      /\ key = [k \in Right |-> [st |-> "none", secret |-> 0, admin |-> 0]]
      /\ request = [r \in Handlers |-> C!Idle]
      /\ spent = [c \in Right \X (0..MaxDay) |-> 0]
  BY DEF C!Init
<1>2. C!Idle \in Asked /\ C!Idle.pc = "idle" BY DEF C!Idle, Asked
<1>3. CapsType BY <1>1, <1>2, CapsConstants DEF CapsType, Ledgers, KeyRows
<1>4. ASSUME NEW keys, keys \subseteq Right, NEW days, days \subseteq 0..MaxDay, NEW cap \in Nat
      PROVE  Room(spent, request, keys, days, cap)
  <2>1. spent \in Ledgers BY <1>3 DEF CapsType
  <2>2. \A c \in keys \X days : spent[c] = 0 BY <1>1, <1>4
  <2> QED BY <1>4, <2>1, <2>2, RoomOfNewDay
<1>5. day \in 0..MaxDay BY <1>3 DEF CapsType
<1>6. Rooms(spent, request, day) BY <1>4, <1>5, CapsConstants, RoomsType DEF Rooms
<1>7. C!ServedAsMember BY <1>1, <1>2 DEF C!ServedAsMember
<1> QED BY <1>3, <1>6, <1>7 DEF CapsInv

\* A step that charges nothing: what it owes to the invariant.
LEMMA CapsFree ==
  ASSUME CapsInv, CapsType', C!ServedAsMember', UNCHANGED <<day, spent>>,
         \A r \in Handlers : request'[r].pc = "serving"
           => request[r].pc = "serving" /\ request[r].key = request'[r].key
  PROVE  CapsInv'
<1>1. spent \in Ledgers /\ day \in 0..MaxDay /\ Rooms(spent, request, day)
  BY DEF CapsInv, CapsType
<1>2. Rooms(spent, request', day) BY <1>1, RoomsKept
<1>3. Rooms(spent', request', day') BY <1>2
<1> QED BY <1>3 DEF CapsInv

\* One request's record changes.
LEMMA AskedChange ==
  ASSUME CapsType, UNCHANGED <<day, space, spent, belongs, key>>, NEW r \in Handlers, NEW v \in Asked,
         request' = [request EXCEPT ![r] = v], v.pc # "idle" => v.key \in Right
  PROVE  /\ CapsType' /\ request'[r] = v
         /\ \A h \in Handlers \ {r} : request'[h] = request[h]
<1>1. /\ request \in [Handlers -> Asked]
      /\ \A h \in Handlers : request[h].pc # "idle" => request[h].key \in Right
  BY DEF CapsType
<1>2. /\ request' \in [Handlers -> Asked] /\ request'[r] = v
      /\ \A h \in Handlers \ {r} : request'[h] = request[h]
  BY <1>1
<1>3. (\A h \in Handlers : request[h].pc # "idle" => request[h].key \in Right)'
  BY <1>1, <1>2
<1> QED BY <1>2, <1>3 DEF CapsType

\* One request's record changes, and it is not served.
LEMMA AskedFree ==
  ASSUME CapsInv, UNCHANGED <<day, space, spent, belongs, key>>, NEW r \in Handlers, NEW v \in Asked,
         request' = [request EXCEPT ![r] = v], v.pc # "idle" => v.key \in Right,
         v.pc # "serving", v.pc = "resolved" => v.good
  PROVE  CapsInv'
<1>0. CapsType /\ C!ServedAsMember BY DEF CapsInv
<1>1. /\ CapsType' /\ request'[r] = v
      /\ \A h \in Handlers \ {r} : request'[h] = request[h]
  BY <1>0, AskedChange
<1>2. C!ServedAsMember' BY <1>0, <1>1 DEF C!ServedAsMember
<1> QED BY <1>1, <1>2, CapsFree

LEMMA IdleAsked == C!Idle \in Asked /\ C!Idle.pc = "idle"
BY DEF C!Idle, Asked

LEMMA CapsOfCreate ==
  ASSUME CapsInv, NEW r \in Handlers, NEW k \in Right, C!create(r, k) PROVE CapsInv'
<1> DEFINE v == [pc |-> "insert", key |-> k, admin |-> 0, good |-> FALSE]
<1>1. request' = [request EXCEPT ![r] = v] /\ UNCHANGED <<day, space, spent, belongs, key>>
  BY DEF C!create
<1>2. v \in Asked /\ v.pc = "insert" /\ v.key = k BY DEF Asked
<1> HIDE DEF v
<1> QED BY <1>1, <1>2, AskedFree

LEMMA CapsOfResolve ==
  ASSUME CapsInv, NEW r \in Handlers, NEW k \in Right, NEW s \in 1..MaxSecrets,
         C!resolveToken(r, k, s)
  PROVE  CapsInv'
<1> DEFINE w == [pc |-> "resolved", key |-> k, admin |-> key[k].admin,
                 good |-> key[k].st = "live" /\ space = "open" /\ Owner[k] \in belongs]
           v == IF C!Disabled(k) THEN C!Idle ELSE w
<1>1. /\ request' = [request EXCEPT ![r] = v] /\ UNCHANGED <<day, space, spent, belongs, key>>
      /\ key[k].st \in {"live", "disabled"}
  BY DEF C!resolveToken
<1>2. key[k].admin \in Nat /\ space \in {"open", "disabled"}
  BY DEF CapsInv, CapsType, KeyRows
<1>3. w \in Asked /\ w.pc = "resolved" /\ w.key = k BY <1>2 DEF Asked
<1>4. ~C!Disabled(k) => w.good BY <1>1, <1>2 DEF C!Disabled
<1>5. v \in Asked /\ (v.pc # "idle" => v.key \in Right) /\ v.pc # "serving"
      /\ (v.pc = "resolved" => v.good)
  <2> HIDE DEF w
  <2> QED BY <1>3, <1>4, IdleAsked
<1> HIDE DEF v
<1> QED BY <1>1, <1>5, AskedFree

\* The key's row changes, and no request.
LEMMA KeyFree ==
  ASSUME CapsInv, key' \in [Right -> KeyRows], belongs' \subseteq Holders,
         space' \in {"open", "disabled"}, UNCHANGED <<day, spent, request>>
  PROVE  CapsInv'
<1>1. CapsType' BY DEF CapsInv, CapsType
<1>2. C!ServedAsMember' BY DEF CapsInv, C!ServedAsMember
<1> QED BY <1>1, <1>2, CapsFree

LEMMA CapsOfInsert ==
  ASSUME CapsInv, NEW r \in Handlers, C!CreateUserToken(r) PROVE CapsInv'
<1> DEFINE k == request[r].key
<1>1. /\ request[r].pc = "insert"
      /\ key' = [key EXCEPT ![k] = [st |-> "live", secret |-> 1, admin |-> 0]]
      /\ request' = [request EXCEPT ![r] = C!Idle] /\ UNCHANGED <<day, space, spent, belongs>>
  BY DEF C!CreateUserToken
<1>2. /\ key \in [Right -> KeyRows] /\ request \in [Handlers -> Asked]
      /\ \A h \in Handlers : request[h].pc # "idle" => request[h].key \in Right
  BY DEF CapsInv, CapsType
<1>3. key' \in [Right -> KeyRows] BY <1>1, <1>2 DEF KeyRows
<1>4. /\ request' \in [Handlers -> Asked] /\ request'[r] = C!Idle
      /\ \A h \in Handlers \ {r} : request'[h] = request[h]
  BY <1>1, <1>2, IdleAsked
<1>5. (\A h \in Handlers : request[h].pc # "idle" => request[h].key \in Right)'
  BY <1>2, <1>4, IdleAsked
<1>6. CapsType' BY <1>1, <1>3, <1>4, <1>5 DEF CapsInv, CapsType
<1>7. C!ServedAsMember' BY <1>4, IdleAsked DEF CapsInv, C!ServedAsMember
<1>8. \A h \in Handlers : request'[h].pc = "serving"
        => request[h].pc = "serving" /\ request[h].key = request'[h].key
  BY <1>4, IdleAsked
<1> QED BY <1>1, <1>6, <1>7, <1>8, CapsFree

LEMMA CapsOfKeys ==
  ASSUME CapsInv, NEW k \in Right,
         \/ C!UpdateUserToken(k) \/ C!RotateUserToken(k) \/ C!DeleteUserToken(k)
         \/ C!SetTokenAdminMonthlyCap(k)
  PROVE  CapsInv'
<1>1. /\ key \in [Right -> KeyRows] /\ belongs \subseteq Holders
      /\ space \in {"open", "disabled"}
  BY DEF CapsInv, CapsType
<1>2. key[k] \in KeyRows BY <1>1
<1>3. \E v \in KeyRows : key' = [key EXCEPT ![k] = v]
  <2>1. CASE C!UpdateUserToken(k)
    <3> DEFINE v == [key[k] EXCEPT !.st = IF @ = "live" THEN "disabled" ELSE "live"]
    <3>1. key' = [key EXCEPT ![k] = v] BY <1>1, <2>1 DEF C!UpdateUserToken
    <3>2. v \in KeyRows BY <1>2 DEF KeyRows
    <3> HIDE DEF v
    <3> QED BY <3>1, <3>2
  <2>2. CASE C!RotateUserToken(k)
    <3> DEFINE v == [key[k] EXCEPT !.secret = @ + 1]
    <3>1. key' = [key EXCEPT ![k] = v] BY <1>1, <2>2 DEF C!RotateUserToken
    <3>2. v \in KeyRows BY <1>2 DEF KeyRows
    <3> HIDE DEF v
    <3> QED BY <3>1, <3>2
  <2>3. CASE C!DeleteUserToken(k)
    <3> DEFINE v == [st |-> "deleted", secret |-> 0, admin |-> 0]
    <3>1. key' = [key EXCEPT ![k] = v] BY <1>1, <2>3 DEF C!DeleteUserToken
    <3>2. v \in KeyRows BY DEF KeyRows
    <3> HIDE DEF v
    <3> QED BY <3>1, <3>2
  <2>4. CASE C!SetTokenAdminMonthlyCap(k)
    <3>1. PICK c \in AdminCaps : key' = [key EXCEPT ![k].admin = c]
      BY <2>4 DEF C!SetTokenAdminMonthlyCap
    <3> DEFINE v == [key[k] EXCEPT !.admin = c]
    <3>2. key' = [key EXCEPT ![k] = v] BY <1>1, <3>1
    <3>3. v \in KeyRows BY <1>2, CapsConstants DEF KeyRows
    <3> HIDE DEF v
    <3> QED BY <3>2, <3>3
  <2> QED BY <2>1, <2>2, <2>3, <2>4
<1>4. key' \in [Right -> KeyRows] BY <1>1, <1>3
<1>5. UNCHANGED <<day, space, spent, request, belongs>>
  BY DEF C!UpdateUserToken, C!RotateUserToken, C!DeleteUserToken, C!SetTokenAdminMonthlyCap
<1> QED BY <1>1, <1>4, <1>5, KeyFree

\* The tighter of two caps on a key is no looser than its own.
LEMMA TighterCap ==
  ASSUME NEW own \in Nat, NEW admin \in Nat, NEW sum \in Nat,
         C!effectiveMonthlyCap(own, admin) = 0 \/ sum < C!effectiveMonthlyCap(own, admin)
  PROVE  own = 0 \/ sum < own
BY DEF C!effectiveMonthlyCap

LEMMA CapsOfPreCheck ==
  ASSUME CapsInv, NEW r \in Handlers, C!PreCheck(r) PROVE CapsInv'
<1>0. /\ CapsType /\ C!ServedAsMember /\ Rooms(spent, request, day) /\ spent \in Ledgers
      /\ day \in 0..MaxDay /\ request[r] \in Asked
  BY DEF CapsInv, CapsType
<1>1. /\ request[r].pc = "resolved" /\ UNCHANGED <<day, space, spent, belongs, key>>
      /\ request' = [request EXCEPT ![r] = IF C!Passes(r) THEN [@ EXCEPT !.pc = "serving"]
                                           ELSE C!Idle]
  BY DEF C!PreCheck
<1>2. CASE ~C!Passes(r)
  <2>1. request' = [request EXCEPT ![r] = C!Idle] BY <1>1, <1>2
  <2> QED BY <1>1, <2>1, IdleAsked, AskedFree
<1>3. CASE C!Passes(r)
  <2> DEFINE v == [request[r] EXCEPT !.pc = "serving"]
             k == request[r].key
  <2>1. k \in Right /\ request[r].good /\ request[r].admin \in Nat /\ Owner[k] \in Holders
    BY <1>0, <1>1, CapsConstants DEF CapsType, C!ServedAsMember, Asked
  <2>2. v \in Asked /\ v.pc = "serving" /\ v.key = k /\ v.good BY <1>0, <2>1 DEF Asked
  <2>3. request' = [request EXCEPT ![r] = v] BY <1>1, <1>3
  <2>4. /\ C!Under(Right, C!Today, DayCap) /\ C!Under(Right, C!ThisMonth, MonthCap)
        /\ C!Under(C!KeysOf(Owner[k]), C!ThisMonth, MemberCap)
        /\ C!Under({k}, C!Today, KeyDay)
        /\ C!Under({k}, C!ThisMonth, C!effectiveMonthlyCap(KeyMonth, request[r].admin))
    BY <1>3 DEF C!Passes
  <2> HIDE DEF v
  <2>5. CapsType' /\ request'[r] = v /\ \A h \in Handlers \ {r} : request'[h] = request[h]
    BY <1>0, <1>1, <2>1, <2>2, <2>3, AskedChange
  <2>6. C!ServedAsMember' BY <1>0, <2>2, <2>5 DEF C!ServedAsMember
  <2> HIDE DEF k
  <2>7. \A keys : \A days : \A cap : C!Under(keys, days, cap) <=>
          (cap = 0 \/ SumFunctionOnSet(spent, keys \X days) < cap)
    BY SumsAgree DEF C!Under
  <2>8. C!Today = {day} /\ C!ThisMonth = MonthOf(day) BY DEF C!Today, C!ThisMonth, MonthOf
  <2>9. ASSUME NEW keys, keys \subseteq Right, NEW days, days \subseteq 0..MaxDay,
               NEW cap \in Nat, Room(spent, request, keys, days, cap),
               k \in keys => C!Under(keys, days, cap)
        PROVE  Room(spent, request', keys, days, cap)
    <3>1. CASE k \in keys
      <4>1. cap = 0 \/ SumFunctionOnSet(spent, keys \X days) < cap BY <2>7, <2>9, <3>1
      <4> QED BY <1>0, <2>9, <4>1, RoomFound
    <3>2. CASE k \notin keys
      <4>1. Admitted(request', keys) \subseteq Admitted(request, keys)
        BY <2>2, <2>5, <3>2 DEF Admitted
      <4> QED BY <1>0, <2>9, <4>1, RoomKept
    <3> QED BY <3>1, <3>2
  <2>10. /\ Room(spent, request', Right, {day}, DayCap)
         /\ Room(spent, request', Right, MonthOf(day), MonthCap)
    BY <1>0, <2>4, <2>8, <2>9, CapsConstants, RoomsType DEF Rooms
  <2>11. \A u \in Holders : Room(spent, request', C!KeysOf(u), MonthOf(day), MemberCap)
    <3> TAKE u \in Holders
    <3>1. k \in C!KeysOf(u) => u = Owner[k] BY DEF C!KeysOf
    <3>2. C!KeysOf(u) \subseteq Right /\ MonthOf(day) \subseteq 0..MaxDay BY <1>0, RoomsType
    <3>3. Room(spent, request, C!KeysOf(u), MonthOf(day), MemberCap) BY <1>0 DEF Rooms
    <3> QED BY <2>4, <2>8, <2>9, <3>1, <3>2, <3>3, CapsConstants
  <2>12. \A j \in Right : /\ Room(spent, request', {j}, {day}, KeyDay)
                          /\ Room(spent, request', {j}, MonthOf(day), KeyMonth)
    <3> TAKE j \in Right
    <3>1. C!Under({k}, MonthOf(day), KeyMonth)
      <4> DEFINE sum == SumFunctionOnSet(spent, {k} \X MonthOf(day))
                 eff == C!effectiveMonthlyCap(KeyMonth, request[r].admin)
      <4>1. sum \in Nat
        <5>1. {k} \subseteq Right /\ MonthOf(day) \subseteq 0..MaxDay BY <1>0, <2>1, RoomsType
        <5> QED BY <1>0, <5>1, LedgerPart
      <4>2. eff = 0 \/ sum < eff BY <2>4, <2>7, <2>8
      <4>3. KeyMonth = 0 \/ sum < KeyMonth
        <5> HIDE DEF sum
        <5> QED BY <2>1, <4>1, <4>2, TighterCap, CapsConstants
      <4> QED BY <2>7, <4>3
    <3>2. k \in {j} => k = j OBVIOUS
    <3>3. {j} \subseteq Right /\ MonthOf(day) \subseteq 0..MaxDay /\ {day} \subseteq 0..MaxDay
      BY <1>0, RoomsType
    <3>4. /\ Room(spent, request, {j}, {day}, KeyDay)
          /\ Room(spent, request, {j}, MonthOf(day), KeyMonth)
      BY <1>0 DEF Rooms
    <3> QED BY <2>4, <2>8, <2>9, <3>1, <3>2, <3>3, <3>4, CapsConstants
  <2>13. Rooms(spent', request', day')
    <3>1. Rooms(spent, request', day) BY <2>10, <2>11, <2>12 DEF Rooms
    <3> QED BY <1>1, <3>1
  <2> QED BY <2>5, <2>6, <2>13 DEF CapsInv
<1> QED BY <1>2, <1>3

LEMMA CapsOfCharge ==
  ASSUME CapsInv, NEW r \in Handlers, C!Charge(r) PROVE CapsInv'
<1> DEFINE k == request[r].key
<1>0. /\ CapsType /\ C!ServedAsMember /\ Rooms(spent, request, day) /\ spent \in Ledgers
      /\ day \in 0..MaxDay
  BY DEF CapsInv, CapsType
<1>1. /\ request[r].pc = "serving" /\ request' = [request EXCEPT ![r] = C!Idle]
      /\ UNCHANGED <<day, space, belongs, key>>
  BY DEF C!Charge
<1>2. PICK a \in Bills : spent' = Charged(spent, k, day, a) BY DEF C!Charge, Charged
<1>3. k \in Right BY <1>0, <1>1 DEF CapsType
<1>4. /\ request' \in [Handlers -> Asked] /\ request'[r] = C!Idle
      /\ \A h \in Handlers \ {r} : request'[h] = request[h]
  BY <1>0, <1>1, IdleAsked DEF CapsType
<1>5. request'[r].pc # "serving" /\ request'[r].pc = "idle" BY <1>4, IdleAsked
<1> HIDE DEF k
<1>k. request[r].key = k BY DEF k
<1>6. Rooms(spent', request', day')
  <2>1. Rooms(Charged(spent, k, day, a), request', day)
    <3>1. r \in Admitted(request, {k}) BY <1>1, <1>k DEF Admitted
    <3> QED BY <1>0, <1>1, <1>3, <1>4, <1>5, <3>1, RoomsCharged
  <2> QED BY <1>1, <1>2, <2>1
<1>7. CapsType'
  <2>1. a \in Nat BY CapsConstants
  <2>2. <<k, day>> \in Right \X (0..MaxDay) BY <1>0, <1>3
  <2>3. /\ spent' \in Ledgers
        /\ \A c \in Right \X (0..MaxDay) : c # <<k, day>> => spent'[c] = spent[c]
    BY <1>0, <1>2, <2>1, <2>2 DEF Ledgers, Charged
  <2>4. \A c \in Right \X (0..MaxDay) : c[2] > day => c # <<k, day>>
    BY <1>0, CapsConstants
  <2>5. (\A c \in Right \X (0..MaxDay) : c[2] > day => spent[c] = 0)'
    BY <1>0, <1>1, <2>3, <2>4 DEF CapsType
  <2>6. (\A h \in Handlers : request[h].pc # "idle" => request[h].key \in Right)'
    BY <1>0, <1>4, <1>5 DEF CapsType
  <2> QED BY <1>0, <1>1, <1>4, <2>3, <2>5, <2>6 DEF CapsType
<1>8. C!ServedAsMember' BY <1>0, <1>4, <1>5 DEF C!ServedAsMember
<1> QED BY <1>6, <1>7, <1>8 DEF CapsInv

LEMMA CapsOfMidnight == ASSUME CapsInv, C!Midnight PROVE CapsInv'
<1>0. /\ CapsType /\ C!ServedAsMember /\ Rooms(spent, request, day) /\ spent \in Ledgers
      /\ day \in 0..MaxDay /\ \A c \in Right \X (0..MaxDay) : c[2] > day => spent[c] = 0
  BY DEF CapsInv, CapsType
<1>1. day < MaxDay /\ day' = day + 1 /\ UNCHANGED <<space, spent, request, belongs, key>>
  BY DEF C!Midnight
<1>2. Rooms(spent', request', day')
  <2>1. Rooms(spent, request, day + 1) BY <1>0, <1>1, RoomsOfNewDay
  <2> QED BY <1>1, <2>1
<1>3. CapsType'
  <2>1. day' \in 0..MaxDay BY <1>0, <1>1, CapsConstants
  <2>2. (\A c \in Right \X (0..MaxDay) : c[2] > day => spent[c] = 0)'
    BY <1>0, <1>1, CapsConstants
  <2> QED BY <1>0, <1>1, <2>1, <2>2 DEF CapsType
<1>4. C!ServedAsMember' BY <1>0, <1>1 DEF C!ServedAsMember
<1> QED BY <1>2, <1>3, <1>4 DEF CapsInv

\* Every step of the API keys keeps the invariant.
LEMMA CapsStep == ASSUME CapsInv, C!Next \/ UNCHANGED caps PROVE CapsInv'
<1>1. CASE UNCHANGED caps
  BY <1>1, KeyFree DEF caps, CapsInv, CapsType
<1>2. CASE \E r \in Handlers, k \in Right :
             C!create(r, k) \/ \E s \in 1..MaxSecrets : C!resolveToken(r, k, s)
  BY <1>2, CapsOfCreate, CapsOfResolve
<1>3. CASE \E r \in Handlers : C!CreateUserToken(r) \/ C!PreCheck(r) \/ C!Charge(r)
  BY <1>3, CapsOfInsert, CapsOfPreCheck, CapsOfCharge
<1>4. CASE \E k \in Right : \/ C!UpdateUserToken(k) \/ C!RotateUserToken(k)
                            \/ C!DeleteUserToken(k) \/ C!SetTokenAdminMonthlyCap(k)
  BY <1>4, CapsOfKeys
<1>5. CASE (\E u \in Holders : C!RemoveWorkspaceMember(u)) \/ C!UpdateWorkspace
  BY <1>5, KeyFree DEF C!RemoveWorkspaceMember, C!UpdateWorkspace, CapsInv, CapsType
<1>6. CASE C!Midnight BY <1>6, CapsOfMidnight
<1> QED BY <1>1, <1>2, <1>3, <1>4, <1>5, <1>6 DEF C!Next

\* The invariant is what the runs check, and more.
LEMMA CapsAreHeld == ASSUME CapsInv PROVE C!CapsHold
<1>0. spent \in Ledgers /\ day \in 0..MaxDay /\ Rooms(spent, request, day)
  BY DEF CapsInv, CapsType
<1>1. C!TypeOK BY DEF CapsInv, CapsType, C!TypeOK, KeyRows, Asked
<1>2. ASSUME NEW keys, keys \subseteq Right, NEW days, days \subseteq 0..MaxDay, NEW cap \in Nat,
             Room(spent, request, keys, days, cap)
      PROVE  C!Within(keys, days, cap)
  <2>1. SumFunctionOnSet(spent, keys \X days) \in Nat BY <1>0, <1>2, LedgerPart
  <2>2. Pending(request, keys) \in Nat /\ C!Slack \in Nat BY PendingBounds
  <2>3. C!SumOf(keys, days) = SumFunctionOnSet(spent, keys \X days) BY SumsAgree
  <2> QED BY <1>2, <2>1, <2>2, <2>3 DEF Room, C!Within
<1>3. C!Today = {day} /\ C!ThisMonth = MonthOf(day) BY DEF C!Today, C!ThisMonth, MonthOf
<1>4. C!Within(Right, {day}, DayCap) /\ C!Within(Right, MonthOf(day), MonthCap)
  BY <1>0, <1>2, CapsConstants, RoomsType DEF Rooms
<1>5. \A u \in Holders : C!Within(C!KeysOf(u), MonthOf(day), MemberCap)
  BY <1>0, <1>2, CapsConstants, RoomsType DEF Rooms
<1>6. \A k \in Right : C!Within({k}, {day}, KeyDay) /\ C!Within({k}, MonthOf(day), KeyMonth)
  BY <1>0, <1>2, CapsConstants, RoomsType DEF Rooms
<1>7. C!OvershootBounded BY <1>3, <1>4, <1>5, <1>6 DEF C!OvershootBounded
<1> QED BY <1>1, <1>7 DEF CapsInv, C!CapsHold

-----------------------------------------------------------------------------
(* The rate limiters.                                                       *)

Stamps == [0..LastTick -> Nat]

\* The ticks less than `width` before t, and the calls of f in them.
Young(width, t) == {s \in 0..LastTick : s + width > t}
Lately(f, width, t) == SumFunctionOnSet(f, Young(width, t))

\* Some window of wins has no room for another call.
Full(f, wins, t) == \E w \in wins : Lately(f, w.width, t) >= w.max

\* A list and the history of the calls let through agree as far back as any
\* window looks.
Mirrors(v, a, width, t) == \A s \in Young(width, t) : v[s] = a[s]

Sliding(v, a, t) ==
  /\ \A k \in Emails \cup IPs : Mirrors(v[k], a[k], Longest, t)
  /\ \A e \in Emails, w \in EmailWins : Lately(a[e], w.width, t) <= w.max
  /\ \A i \in IPs, w \in IpWins : Lately(a[i], w.width, t) <= w.max

Claims(v, a, t) ==
  Mirrors(v, a, ClaimWidth + 1, t) /\ Lately(a, ClaimWidth + 1, t) <= ClaimMax

\* The calls since the window's start and those in its width before it.
SinceStart(w) == {s \in 0..LastTick : s >= w.start}
BeforeStart(w) == {s \in 0..LastTick : s < w.start /\ s + UserWidth > w.start}

Fixed(w, a, t) ==
  /\ SumFunctionOnSet(a, SinceStart(w)) = w.count
  /\ SumFunctionOnSet(a, BeforeStart(w)) <= UserMax
  /\ \A s \in 0..LastTick : a[s] # 0 => s <= t /\ s < w.start + UserWidth
  /\ w.count = 0 => \A s \in 0..LastTick : a[s] = 0

Earned(x, a, c, u, t) ==
  /\ x \in Emails => Full(a[x], EmailWins, t)
  /\ x \in IPs => Full(a[x], IpWins, t)
  /\ x = "claim" => Lately(c, ClaimWidth + 1, t) >= ClaimMax
  /\ x = "user" => Lately(u, UserWidth, t) >= UserMax

LimitsType ==
  /\ tick \in 0..LastTick
  /\ events \in [Emails \cup IPs -> Stamps] /\ asked \in [Emails \cup IPs -> Stamps]
  /\ hits \in Stamps /\ claimed \in Stamps /\ entered \in Stamps
  /\ window \in [start : 0..LastTick, count : 0..UserMax] /\ window.start <= tick
  /\ refused \in {"no", "claim", "user"} \cup Emails \cup IPs

LimitsInv ==
  /\ LimitsType
  /\ Sliding(events, asked, tick) /\ Claims(hits, claimed, tick) /\ Fixed(window, entered, tick)
  /\ Earned(refused, asked, claimed, entered, tick)

LEMMA LimitsConstants ==
  /\ Emails \cap IPs = {} /\ NoIP \notin Emails \cup IPs
  /\ {"no", "claim", "user"} \cap (Emails \cup IPs) = {}
  /\ EmailWins \cup IpWins \subseteq [max : Nat, width : 1..Longest]
  /\ Longest \in Nat /\ LastTick \in Nat
  /\ ClaimMax \in Nat \ {0} /\ ClaimWidth \in Nat \ {0}
  /\ UserMax \in Nat \ {0} /\ UserWidth \in Nat \ {0}
BY AccountsAssumption DEF L!RateLimitsAssumption, L!LimiterKeys

LEMMA TickSets ==
  /\ IsFiniteSet(0..LastTick)
  /\ \A T : T \subseteq 0..LastTick => IsFiniteSet(T)
<1>1. IsFiniteSet(0..LastTick) BY LimitsConstants, FS_Interval
<1> QED BY <1>1, FS_Subset

LEMMA StampSum ==
  ASSUME NEW f \in Stamps, NEW T, T \subseteq 0..LastTick
  PROVE  IsFiniteSet(T) /\ (\A s \in T : f[s] \in Nat) /\ SumFunctionOnSet(f, T) \in Nat
<1>1. IsFiniteSet(T) BY TickSets
<1>2. \A s \in T : f[s] \in Nat BY DEF Stamps
<1> QED BY <1>1, <1>2, SumNat

LEMMA StampSubset ==
  ASSUME NEW f \in Stamps, NEW T, T \subseteq 0..LastTick, NEW U, U \subseteq T
  PROVE  SumFunctionOnSet(f, U) <= SumFunctionOnSet(f, T)
BY StampSum, SumSubset

\* One call more at t counts once, in every set of ticks with t.
LEMMA OneCallMore ==
  ASSUME NEW f \in Stamps, NEW t \in 0..LastTick, NEW g, g = [f EXCEPT ![t] = @ + 1]
  PROVE  /\ g \in Stamps /\ g[t] = f[t] + 1 /\ \A s \in 0..LastTick : s # t => g[s] = f[s]
         /\ \A T \in SUBSET (0..LastTick) :
              /\ t \in T => SumFunctionOnSet(g, T) = SumFunctionOnSet(f, T) + 1
              /\ t \notin T => SumFunctionOnSet(g, T) = SumFunctionOnSet(f, T)
<1> DEFINE h == [f EXCEPT ![t] = @ + 1]
<1>1. h \in Stamps /\ h[t] = f[t] + 1 /\ \A s \in 0..LastTick : s # t => h[s] = f[s]
  BY DEF Stamps
<1>2. g = h OBVIOUS
<1> HIDE DEF h
<1>3. \A T \in SUBSET (0..LastTick) :
        /\ t \in T => SumFunctionOnSet(h, T) = SumFunctionOnSet(f, T) + 1
        /\ t \notin T => SumFunctionOnSet(h, T) = SumFunctionOnSet(f, T)
  <2> TAKE T \in SUBSET (0..LastTick)
  <2>1. IsFiniteSet(T) BY TickSets
  <2>2. \A s \in T : f[s] \in Int BY DEF Stamps
  <2>3. ASSUME t \in T PROVE SumFunctionOnSet(h, T) = SumFunctionOnSet(f, T) + 1
    <3>1. \A s \in T \ {t} : h[s] = f[s] BY <1>1
    <3>2. 1 \in Int /\ h[t] = f[t] + 1 BY <1>1
    <3> QED BY <2>1, <2>2, <2>3, <3>1, <3>2, SumChange
  <2>4. ASSUME t \notin T PROVE SumFunctionOnSet(h, T) = SumFunctionOnSet(f, T)
    <3>1. \A s \in T : f[s] \in Int /\ f[s] = h[s] BY <1>1, <2>2, <2>4
    <3> QED BY <2>1, <3>1, SumAgree
  <2> QED BY <2>3, <2>4
<1> QED BY <1>1, <1>2, <1>3

LEMMA YoungTicks == \A width : \A t : Young(width, t) \subseteq 0..LastTick
BY DEF Young

LEMMA LatelyType ==
  ASSUME NEW f \in Stamps, NEW width, NEW t
  PROVE  Lately(f, width, t) \in Nat
BY YoungTicks, StampSum DEF Lately

LEMMA LatelyShrinks ==
  ASSUME NEW f \in Stamps, NEW width \in Nat, NEW t \in Nat
  PROVE  /\ Young(width, t + 1) \subseteq Young(width, t)
         /\ Lately(f, width, t + 1) <= Lately(f, width, t)
<1>1. Young(width, t + 1) \subseteq Young(width, t) BY LimitsConstants DEF Young
<1> QED BY <1>1, YoungTicks, StampSubset DEF Lately

LEMMA LatelyOneMore ==
  ASSUME NEW f \in Stamps, NEW t \in 0..LastTick, NEW width \in Nat \ {0}
  PROVE  Lately([f EXCEPT ![t] = @ + 1], width, t) = Lately(f, width, t) + 1
<1>1. t \in Young(width, t) BY LimitsConstants DEF Young
<1> QED BY <1>1, YoungTicks, OneCallMore DEF Lately

\* Lists that agree fill the same windows.
LEMMA LatelyMirrored ==
  ASSUME NEW f \in Stamps, NEW g \in Stamps, NEW longest \in Nat, NEW width \in Nat,
         width <= longest, NEW t \in Nat, Mirrors(f, g, longest, t)
  PROVE  Lately(f, width, t) = Lately(g, width, t)
<1>1. Young(width, t) \subseteq Young(longest, t) BY LimitsConstants DEF Young
<1>2. \A s \in Young(width, t) : f[s] = g[s] BY <1>1 DEF Mirrors
<1>3. IsFiniteSet(Young(width, t)) /\ \A s \in Young(width, t) : f[s] \in Int
  BY YoungTicks, StampSum
<1> QED BY <1>2, <1>3, SumAgree DEF Lately

\* What is dropped is no longer looked at.
LEMMA KeptMirrors ==
  ASSUME NEW f \in Stamps, NEW g, NEW width, Mirrors(f, g, width, tick)
  PROVE  L!Kept(f, width) \in Stamps /\ Mirrors(L!Kept(f, width), g, width, tick)
<1>1. /\ L!Kept(f, width) = [s \in 0..LastTick |-> IF s \in Young(width, tick) THEN f[s] ELSE 0]
  BY DEF L!Kept, L!Since, L!Times, Young
<1> QED BY <1>1, YoungTicks DEF Stamps, Mirrors

\* The same call is recorded in both.
LEMMA RecordMirrors ==
  ASSUME NEW f \in Stamps, NEW g \in Stamps, NEW width, NEW t \in 0..LastTick,
         Mirrors(f, g, width, t)
  PROVE  Mirrors([f EXCEPT ![t] = @ + 1], [g EXCEPT ![t] = @ + 1], width, t)
BY YoungTicks DEF Stamps, Mirrors

LEMMA RecentIsLately ==
  ASSUME NEW f, NEW width PROVE L!Recent(f, width) = Lately(f, width, tick)
BY DEF L!Recent, L!Since, L!Times, Lately, Young, L!SumFunctionOnSet, L!FoldFunctionOnSet,
       L!MapThenFoldSet, SumFunctionOnSet, FoldFunctionOnSet, MapThenFoldSet

LEMMA WindowSizes ==
  ASSUME NEW w \in EmailWins \cup IpWins
  PROVE  w.max \in Nat /\ w.width \in Nat \ {0} /\ w.width <= Longest
BY LimitsConstants

\* A window is full or has room.
LEMMA CheckIsRoom ==
  ASSUME NEW f \in Stamps, NEW wins, wins \subseteq EmailWins \cup IpWins, LimitsType
  PROVE  /\ L!check(f, wins) => \A w \in wins : Lately(f, w.width, tick) < w.max
         /\ ~L!check(f, wins) <=> Full(f, wins, tick)
<1>1. \A w \in wins : w.max \in Nat /\ Lately(f, w.width, tick) \in Nat
  BY WindowSizes, LatelyType
<1>2. \A w \in wins : L!Recent(f, w.width) = Lately(f, w.width, tick) BY RecentIsLately
<1> QED BY <1>1, <1>2 DEF L!check, Full

LEMMA FullMirrored ==
  ASSUME NEW f \in Stamps, NEW g \in Stamps, NEW wins, wins \subseteq EmailWins \cup IpWins,
         NEW t \in Nat, Mirrors(f, g, Longest, t)
  PROVE  \A w \in wins : Lately(f, w.width, t) = Lately(g, w.width, t)
BY WindowSizes, LatelyMirrored, LimitsConstants

LEMMA LimitsInit == ASSUME L!Init PROVE LimitsInv
<1> DEFINE none == [s \in 0..LastTick |-> 0]
<1>1. /\ tick = 0 /\ events = [k \in Emails \cup IPs |-> none]
      /\ asked = [k \in Emails \cup IPs |-> none] /\ hits = none /\ claimed = none
      /\ entered = none /\ window = [start |-> 0, count |-> 0] /\ refused = "no"
  BY DEF L!Init, L!LimiterKeys, L!NoCalls, L!NoWindow, L!Times
<1>2. none \in Stamps /\ \A s \in 0..LastTick : none[s] = 0 BY DEF Stamps
<1> HIDE DEF none
<1>3. \A T \in SUBSET (0..LastTick) : SumFunctionOnSet(none, T) = 0
  <2> TAKE T \in SUBSET (0..LastTick)
  <2>1. IsFiniteSet(T) /\ \A s \in T : none[s] = 0 BY <1>2, TickSets
  <2> QED BY <2>1, SumOfZeros
<1>4. \A width : Lately(none, width, 0) = 0 BY <1>3, YoungTicks DEF Lately
<1>5. LimitsType BY <1>1, <1>2, LimitsConstants DEF LimitsType
<1>6. Sliding(events, asked, tick)
  <2>1. \A w \in EmailWins \cup IpWins : Lately(none, w.width, 0) <= w.max
    BY <1>4, WindowSizes
  <2> QED BY <1>1, <2>1 DEF Sliding, Mirrors
<1>7. Claims(hits, claimed, tick) BY <1>1, <1>4, LimitsConstants DEF Claims, Mirrors
<1>8. Fixed(window, entered, tick)
  <2>1. SinceStart(window) \in SUBSET (0..LastTick) /\ BeforeStart(window) \in SUBSET (0..LastTick)
    BY DEF SinceStart, BeforeStart
  <2>2. window.count = 0 BY <1>1
  <2> QED BY <1>1, <1>2, <1>3, <2>1, <2>2, LimitsConstants DEF Fixed
<1>9. Earned(refused, asked, claimed, entered, tick) BY <1>1, LimitsConstants DEF Earned
<1> QED BY <1>5, <1>6, <1>7, <1>8, <1>9 DEF LimitsInv

\* Time passes: every window forgets, and refusals are forgotten.
LEMMA LimitsOfTick == ASSUME LimitsInv, L!Tick PROVE LimitsInv'
<1>0. /\ LimitsType /\ Sliding(events, asked, tick) /\ Claims(hits, claimed, tick)
      /\ Fixed(window, entered, tick)
  BY DEF LimitsInv
<1>1. /\ tick < LastTick /\ tick' = tick + 1 /\ refused' = "no"
      /\ UNCHANGED <<events, hits, window, asked, claimed, entered>>
  BY DEF L!Tick
<1>2. /\ tick \in Nat /\ \A k \in Emails \cup IPs : asked[k] \in Stamps
      /\ claimed \in Stamps /\ window.start \in Nat
  BY <1>0, LimitsConstants DEF LimitsType
<1>3. LimitsType' BY <1>0, <1>1, LimitsConstants DEF LimitsType
<1>4. \A width \in Nat : Young(width, tick + 1) \subseteq Young(width, tick)
  BY <1>2, LimitsConstants DEF Young
<1>5. Sliding(events, asked, tick + 1)
  <2>1. \A k \in Emails \cup IPs : Mirrors(events[k], asked[k], Longest, tick + 1)
    BY <1>0, <1>4, LimitsConstants DEF Sliding, Mirrors
  <2>2. ASSUME NEW k \in Emails \cup IPs, NEW w \in EmailWins \cup IpWins,
               Lately(asked[k], w.width, tick) <= w.max
        PROVE  Lately(asked[k], w.width, tick + 1) <= w.max
    <3>1. w.max \in Nat /\ w.width \in Nat BY WindowSizes
    <3>2. /\ Lately(asked[k], w.width, tick + 1) <= Lately(asked[k], w.width, tick)
          /\ Lately(asked[k], w.width, tick + 1) \in Nat /\ Lately(asked[k], w.width, tick) \in Nat
      BY <1>2, <3>1, LatelyShrinks, LatelyType
    <3> QED BY <2>2, <3>1, <3>2
  <2> QED BY <1>0, <2>1, <2>2 DEF Sliding
<1>6. Claims(hits, claimed, tick + 1)
  <2>1. ClaimWidth + 1 \in Nat /\ ClaimMax \in Nat BY LimitsConstants
  <2>2. Mirrors(hits, claimed, ClaimWidth + 1, tick + 1) BY <1>0, <1>4, <2>1 DEF Claims, Mirrors
  <2>3. /\ Lately(claimed, ClaimWidth + 1, tick + 1) <= Lately(claimed, ClaimWidth + 1, tick)
        /\ Lately(claimed, ClaimWidth + 1, tick + 1) \in Nat
        /\ Lately(claimed, ClaimWidth + 1, tick) \in Nat
    BY <1>2, <2>1, LatelyShrinks, LatelyType
  <2>4. Lately(claimed, ClaimWidth + 1, tick) <= ClaimMax BY <1>0 DEF Claims
  <2> QED BY <2>1, <2>2, <2>3, <2>4 DEF Claims
<1>7. Fixed(window, entered, tick + 1)
  <2>1. \A s \in 0..LastTick : entered[s] # 0 => s <= tick + 1
    BY <1>0, <1>2, LimitsConstants DEF Fixed
  <2> QED BY <1>0, <2>1 DEF Fixed
<1>8. Earned(refused', asked', claimed', entered', tick')
  BY <1>1, LimitsConstants DEF Earned
<1>9. Sliding(events', asked', tick') /\ Claims(hits', claimed', tick')
      /\ Fixed(window', entered', tick')
  BY <1>1, <1>5, <1>6, <1>7
<1> QED BY <1>3, <1>8, <1>9 DEF LimitsInv

LEMMA RecordStamps ==
  ASSUME NEW f \in Stamps, NEW t \in 0..LastTick
  PROVE  [f EXCEPT ![t] = @ + 1] \in Stamps
BY DEF Stamps

\* A code is asked for under an email, from an address.
LEMMA LimitsOfAllow ==
  ASSUME LimitsInv, NEW e \in Emails, NEW ip \in IPs \cup {NoIP}, L!Allow(e, ip)
  PROVE  LimitsInv'
<1> DEFINE live == [k \in Emails \cup IPs |-> L!Kept(events[k], Longest)]
           keys == IF ip = NoIP THEN {e} ELSE {e, ip}
           ok == L!check(live[e], EmailWins) /\ (ip # NoIP => L!check(live[ip], IpWins))
<1>0. /\ LimitsType /\ Sliding(events, asked, tick) /\ tick \in 0..LastTick /\ tick \in Nat
      /\ \A k \in Emails \cup IPs : events[k] \in Stamps /\ asked[k] \in Stamps
  BY LimitsConstants DEF LimitsInv, LimitsType
<1>1. /\ events' = IF ok THEN [k \in Emails \cup IPs |->
                                 IF k \in keys THEN [live[k] EXCEPT ![tick] = @ + 1] ELSE live[k]]
                   ELSE live
      /\ asked' = IF ok THEN [k \in Emails \cup IPs |->
                                IF k \in keys THEN [asked[k] EXCEPT ![tick] = @ + 1] ELSE asked[k]]
                  ELSE asked
      /\ refused' = IF ok THEN "no" ELSE IF L!check(live[e], EmailWins) THEN ip ELSE e
      /\ UNCHANGED <<tick, hits, window, claimed, entered>>
  BY DEF L!Allow, L!gcLocked, L!LimiterKeys, L!Record
<1>2. ASSUME NEW k \in Emails \cup IPs
      PROVE  /\ live[k] \in Stamps /\ Mirrors(live[k], asked[k], Longest, tick)
             /\ [live[k] EXCEPT ![tick] = @ + 1] \in Stamps
             /\ [asked[k] EXCEPT ![tick] = @ + 1] \in Stamps
             /\ Mirrors([live[k] EXCEPT ![tick] = @ + 1], [asked[k] EXCEPT ![tick] = @ + 1],
                        Longest, tick)
  <2>1. live[k] \in Stamps /\ Mirrors(live[k], asked[k], Longest, tick)
    <3>1. Mirrors(events[k], asked[k], Longest, tick) BY <1>0 DEF Sliding
    <3> QED BY <1>0, <3>1, KeptMirrors
  <2> HIDE DEF live
  <2>2. /\ [live[k] EXCEPT ![tick] = @ + 1] \in Stamps
        /\ [asked[k] EXCEPT ![tick] = @ + 1] \in Stamps
    BY <1>0, <2>1, RecordStamps
  <2> QED BY <1>0, <2>1, <2>2, RecordMirrors
<1>3. ASSUME NEW k \in Emails \cup IPs, NEW wins, wins \subseteq EmailWins \cup IpWins
      PROVE  /\ L!check(live[k], wins) => \A w \in wins : Lately(asked[k], w.width, tick) < w.max
             /\ ~L!check(live[k], wins) => Full(asked[k], wins, tick)
  <2>1. live[k] \in Stamps /\ Mirrors(live[k], asked[k], Longest, tick) BY <1>2
  <2> HIDE DEF live
  <2>2. \A w \in wins : Lately(live[k], w.width, tick) = Lately(asked[k], w.width, tick)
    BY <1>0, <1>3, <2>1, FullMirrored
  <2> QED BY <1>0, <1>3, <2>1, <2>2, CheckIsRoom DEF Full
<1>4. e \in Emails \cup IPs /\ (ip # NoIP => ip \in IPs /\ ip \in Emails \cup IPs) OBVIOUS
<1> HIDE DEF live, ok
<1>5. LimitsType'
  <2>1. events' \in [Emails \cup IPs -> Stamps]
    <3>1. \A k \in Emails \cup IPs : events'[k] \in Stamps
      BY <1>1, <1>2 DEF live
    <3>2. events' = [k \in Emails \cup IPs |-> events'[k]] BY <1>1 DEF live
    <3> HIDE DEF keys
    <3> QED BY <3>1, <3>2
  <2>2. asked' \in [Emails \cup IPs -> Stamps]
    <3>1. \A k \in Emails \cup IPs : asked'[k] \in Stamps BY <1>0, <1>1, <1>2
    <3>2. asked \in [Emails \cup IPs -> Stamps] BY <1>0 DEF LimitsType
    <3>3. asked' = [k \in Emails \cup IPs |-> asked'[k]] BY <1>1, <3>2
    <3> HIDE DEF keys
    <3> QED BY <3>1, <3>3
  <2>3. refused' \in {"no", "claim", "user"} \cup Emails \cup IPs
    <3>1. ip = NoIP => (ok <=> L!check(live[e], EmailWins)) BY DEF ok
    <3> QED BY <1>1, <1>4, <3>1
  <2> QED BY <1>0, <1>1, <2>1, <2>2, <2>3 DEF LimitsType
<1>6. Sliding(events', asked', tick')
  <2>1. \A k \in Emails \cup IPs : Mirrors(events'[k], asked'[k], Longest, tick)
    <3> TAKE k \in Emails \cup IPs
    <3>1. live[k] = L!Kept(events[k], Longest) BY DEF live
    <3>2. CASE ~ok BY <1>1, <1>2, <3>2
    <3>3. CASE ok /\ k \notin keys
      <4>1. events'[k] = live[k] /\ asked'[k] = asked[k] BY <1>1, <3>3
      <4> QED BY <1>2, <4>1
    <3>4. CASE ok /\ k \in keys
      <4>1. /\ events'[k] = [live[k] EXCEPT ![tick] = @ + 1]
            /\ asked'[k] = [asked[k] EXCEPT ![tick] = @ + 1]
        BY <1>1, <3>4
      <4> QED BY <1>2, <4>1
    <3> QED BY <3>2, <3>3, <3>4
  <2>2. ASSUME NEW k \in Emails \cup IPs, NEW wins, wins \subseteq EmailWins \cup IpWins,
               \A w \in wins : Lately(asked[k], w.width, tick) <= w.max,
               ok /\ k \in keys => L!check(live[k], wins)
        PROVE  \A w \in wins : Lately(asked'[k], w.width, tick) <= w.max
    <3>1. CASE ok /\ k \in keys
      <4>1. asked'[k] = [asked[k] EXCEPT ![tick] = @ + 1] BY <1>1, <3>1
      <4>2. \A w \in wins : Lately(asked[k], w.width, tick) < w.max BY <1>3, <2>2, <3>1
      <4> TAKE w \in wins
      <4>3. w.max \in Nat /\ w.width \in Nat \ {0} BY <2>2, WindowSizes
      <4>4. Lately(asked'[k], w.width, tick) = Lately(asked[k], w.width, tick) + 1
        BY <1>0, <4>1, <4>3, LatelyOneMore
      <4>5. Lately(asked[k], w.width, tick) \in Nat BY <1>0, LatelyType
      <4> QED BY <4>2, <4>3, <4>4, <4>5
    <3>2. CASE ~(ok /\ k \in keys)
      <4>1. asked'[k] = asked[k] BY <1>1, <3>2
      <4> QED BY <2>2, <4>1
    <3> QED BY <3>1, <3>2
  <2>3. \A k \in Emails : k \in keys => k = e BY LimitsConstants
  <2>4. \A k \in IPs : k \in keys => k = ip /\ ip # NoIP BY LimitsConstants
  <2>5. ok => L!check(live[e], EmailWins) /\ (ip # NoIP => L!check(live[ip], IpWins))
    BY DEF ok
  <2> HIDE DEF keys
  <2>6. \A k \in Emails : \A w \in EmailWins : Lately(asked'[k], w.width, tick) <= w.max
    <3> TAKE k \in Emails
    <3>1. \A w \in EmailWins : Lately(asked[k], w.width, tick) <= w.max BY <1>0 DEF Sliding
    <3>2. ok /\ k \in keys => L!check(live[k], EmailWins) BY <2>3, <2>5
    <3> QED BY <2>2, <3>1, <3>2
  <2>7. \A k \in IPs : \A w \in IpWins : Lately(asked'[k], w.width, tick) <= w.max
    <3> TAKE k \in IPs
    <3>1. \A w \in IpWins : Lately(asked[k], w.width, tick) <= w.max BY <1>0 DEF Sliding
    <3>2. ok /\ k \in keys => L!check(live[k], IpWins) BY <2>4, <2>5
    <3> QED BY <2>2, <3>1, <3>2
  <2> QED BY <1>1, <2>1, <2>6, <2>7 DEF Sliding
<1>7. Earned(refused', asked', claimed', entered', tick')
  <2>1. CASE ok BY <1>1, <2>1, LimitsConstants DEF Earned
  <2>2. CASE ~ok
    <3>1. asked' = asked /\ tick' = tick BY <1>1, <2>2
    <3>2. CASE ~L!check(live[e], EmailWins)
      <4>1. refused' = e BY <1>1, <2>2, <3>2
      <4>2. Full(asked[e], EmailWins, tick) BY <1>3, <3>2
      <4> QED BY <3>1, <4>1, <4>2, LimitsConstants DEF Earned
    <3>3. CASE L!check(live[e], EmailWins)
      <4>1. refused' = ip BY <1>1, <2>2, <3>3
      <4>2. ip \in IPs /\ ~L!check(live[ip], IpWins) BY <2>2, <3>3 DEF ok
      <4>3. Full(asked[ip], IpWins, tick) BY <1>3, <1>4, <4>2
      <4> QED BY <3>1, <4>1, <4>2, <4>3, LimitsConstants DEF Earned
    <3> QED BY <3>2, <3>3
  <2> QED BY <2>1, <2>2
<1>8. Claims(hits', claimed', tick') /\ Fixed(window', entered', tick') BY <1>1 DEF LimitsInv
<1> QED BY <1>5, <1>6, <1>7, <1>8 DEF LimitsInv

\* A gift is claimed.
LEMMA LimitsOfClaim == ASSUME LimitsInv, L!ClaimAllow PROVE LimitsInv'
<1> DEFINE kept == L!Kept(hits, ClaimWidth + 1)
           ok == L!Recent(hits, ClaimWidth + 1) < ClaimMax
<1>0. /\ LimitsType /\ Claims(hits, claimed, tick) /\ tick \in 0..LastTick /\ tick \in Nat
      /\ hits \in Stamps /\ claimed \in Stamps /\ ClaimWidth + 1 \in Nat \ {0}
  BY LimitsConstants DEF LimitsInv, LimitsType
<1>1. /\ hits' = IF ok THEN [kept EXCEPT ![tick] = @ + 1] ELSE kept
      /\ claimed' = IF ok THEN [claimed EXCEPT ![tick] = @ + 1] ELSE claimed
      /\ refused' = IF ok THEN "no" ELSE "claim"
      /\ UNCHANGED <<tick, events, window, asked, entered>>
  BY DEF L!ClaimAllow, L!Record
<1>2. /\ Mirrors(hits, claimed, ClaimWidth + 1, tick)
      /\ Lately(claimed, ClaimWidth + 1, tick) <= ClaimMax
  BY <1>0 DEF Claims
<1>3. kept \in Stamps /\ Mirrors(kept, claimed, ClaimWidth + 1, tick)
  BY <1>0, <1>2, KeptMirrors
<1>4. ok <=> Lately(claimed, ClaimWidth + 1, tick) < ClaimMax
  <2>1. Lately(hits, ClaimWidth + 1, tick) = Lately(claimed, ClaimWidth + 1, tick)
    <3>1. ClaimWidth + 1 <= ClaimWidth + 1 /\ ClaimWidth + 1 \in Nat BY <1>0
    <3> QED BY <1>0, <1>2, <3>1, LatelyMirrored
  <2> QED BY <2>1, RecentIsLately
<1> HIDE DEF kept, ok
<1>5. Lately(claimed, ClaimWidth + 1, tick) \in Nat BY <1>0, LatelyType
<1>6. CASE ok
  <2>1. hits' = [kept EXCEPT ![tick] = @ + 1] /\ claimed' = [claimed EXCEPT ![tick] = @ + 1]
    BY <1>1, <1>6
  <2>2. hits' \in Stamps /\ claimed' \in Stamps BY <1>0, <1>3, <2>1, RecordStamps
  <2>3. Mirrors(hits', claimed', ClaimWidth + 1, tick) BY <1>0, <1>3, <2>1, RecordMirrors
  <2>4. Lately(claimed', ClaimWidth + 1, tick) = Lately(claimed, ClaimWidth + 1, tick) + 1
    BY <1>0, <2>1, LatelyOneMore
  <2>5. Claims(hits', claimed', tick')
    BY <1>1, <1>4, <1>5, <1>6, <2>3, <2>4, LimitsConstants DEF Claims
  <2>6. LimitsType' BY <1>0, <1>1, <1>6, <2>2 DEF LimitsType
  <2>7. Earned(refused', asked', claimed', entered', tick')
    BY <1>1, <1>6, LimitsConstants DEF Earned
  <2>8. Sliding(events', asked', tick') /\ Fixed(window', entered', tick')
    BY <1>1 DEF LimitsInv
  <2> QED BY <2>5, <2>6, <2>7, <2>8 DEF LimitsInv
<1>7. CASE ~ok
  <2>1. hits' = kept /\ claimed' = claimed /\ refused' = "claim" BY <1>1, <1>7
  <2>2. Claims(hits', claimed', tick') BY <1>1, <1>2, <1>3, <2>1 DEF Claims
  <2>3. LimitsType' BY <1>0, <1>1, <1>3, <2>1 DEF LimitsType
  <2>4. Lately(claimed, ClaimWidth + 1, tick) >= ClaimMax
    BY <1>4, <1>5, <1>7, LimitsConstants
  <2>5. Earned(refused', asked', claimed', entered', tick')
    BY <1>1, <2>1, <2>4, LimitsConstants DEF Earned
  <2>6. Sliding(events', asked', tick') /\ Fixed(window', entered', tick')
    BY <1>1 DEF LimitsInv
  <2> QED BY <2>2, <2>3, <2>5, <2>6 DEF LimitsInv
<1> QED BY <1>6, <1>7

\* The list of a key whose calls have all aged out is dropped.
LEMMA LimitsOfGc == ASSUME LimitsInv, L!ClaimGc PROVE LimitsInv'
<1>1. /\ \A s \in Young(ClaimWidth + 1, tick) : hits[s] = 0
      /\ hits' = [s \in 0..LastTick |-> 0]
      /\ UNCHANGED <<tick, events, window, asked, claimed, entered, refused>>
  BY DEF L!ClaimGc, L!Since, L!Times, L!NoCalls, Young
<1>2. hits' \in Stamps BY <1>1 DEF Stamps
<1>3. Claims(hits', claimed', tick')
  <2>1. \A s \in Young(ClaimWidth + 1, tick) : hits'[s] = hits[s] BY <1>1, YoungTicks
  <2> QED BY <1>1, <2>1 DEF LimitsInv, Claims, Mirrors
<1>4. LimitsType' BY <1>1, <1>2 DEF LimitsInv, LimitsType
<1>5. /\ Sliding(events', asked', tick') /\ Fixed(window', entered', tick')
      /\ Earned(refused', asked', claimed', entered', tick')
  BY <1>1 DEF LimitsInv
<1> QED BY <1>3, <1>4, <1>5 DEF LimitsInv

\* A user asks for a single sign-on code.
LEMMA LimitsOfUser == ASSUME LimitsInv, L!UserAllow PROVE LimitsInv'
<1> DEFINE fresh == window = [start |-> 0, count |-> 0] \/ tick - window.start >= UserWidth
           ok == fresh \/ window.count < UserMax
           more == [entered EXCEPT ![tick] = @ + 1]
<1>0. /\ LimitsType /\ Fixed(window, entered, tick) /\ tick \in 0..LastTick /\ tick \in Nat
      /\ window \in [start : 0..LastTick, count : 0..UserMax] /\ window.start <= tick
      /\ entered \in Stamps
  BY LimitsConstants DEF LimitsInv, LimitsType
<1>c. UserMax \in Nat /\ UserMax > 0 /\ UserWidth \in Nat /\ UserWidth > 0 /\ LastTick \in Nat
  BY LimitsConstants
<1>w. /\ window.start \in Nat /\ window.count \in Nat /\ window.count <= UserMax
      /\ window.start \in 0..LastTick
  BY <1>0, <1>c
<1>f. /\ SumFunctionOnSet(entered, SinceStart(window)) = window.count
      /\ SumFunctionOnSet(entered, BeforeStart(window)) <= UserMax
      /\ \A s \in 0..LastTick : entered[s] # 0 => s <= tick /\ s < window.start + UserWidth
      /\ window.count = 0 => \A s \in 0..LastTick : entered[s] = 0
  BY <1>0 DEF Fixed
<1>1. /\ window' = IF fresh THEN [start |-> tick, count |-> 1]
                   ELSE IF ok THEN [window EXCEPT !.count = @ + 1] ELSE window
      /\ entered' = IF ok THEN more ELSE entered
      /\ refused' = IF ok THEN "no" ELSE "user"
      /\ UNCHANGED <<tick, events, hits, asked, claimed>>
  BY DEF L!UserAllow, L!Record, L!NoWindow
<1>2. /\ more \in Stamps /\ more[tick] = entered[tick] + 1
      /\ \A s \in 0..LastTick : s # tick => more[s] = entered[s]
      /\ \A T \in SUBSET (0..LastTick) :
           /\ tick \in T => SumFunctionOnSet(more, T) = SumFunctionOnSet(entered, T) + 1
           /\ tick \notin T => SumFunctionOnSet(more, T) = SumFunctionOnSet(entered, T)
  <2>1. more \in Stamps /\ more[tick] = entered[tick] + 1 BY <1>0 DEF Stamps
  <2>2. \A s \in 0..LastTick : s # tick => more[s] = entered[s] BY <1>0 DEF Stamps
  <2>3. \A T \in SUBSET (0..LastTick) :
          /\ tick \in T => SumFunctionOnSet(more, T) = SumFunctionOnSet(entered, T) + 1
          /\ tick \notin T => SumFunctionOnSet(more, T) = SumFunctionOnSet(entered, T)
    BY <1>0, OneCallMore
  <2> HIDE DEF more
  <2> QED BY <2>1, <2>2, <2>3
<1>3. \A w : SinceStart(w) \in SUBSET (0..LastTick) /\ BeforeStart(w) \in SUBSET (0..LastTick)
  BY DEF SinceStart, BeforeStart
<1>n. entered[tick] \in Nat BY <1>0 DEF Stamps
<1> HIDE DEF more
<1>4. CASE fresh
  <2> DEFINE w == [start |-> tick, count |-> 1]
  <2>0. w \in [start : 0..LastTick, count : 0..UserMax] /\ w.start = tick /\ w.count = 1
    BY <1>0, <1>c
  <2>1. window' = w /\ entered' = more /\ refused' = "no" BY <1>1, <1>4
  <2>2. \A s \in 0..LastTick : s >= tick => entered[s] = 0
    <3>1. CASE window.count = 0 BY <1>f, <3>1
    <3>2. CASE tick - window.start >= UserWidth
      <4> SUFFICES ASSUME NEW s \in 0..LastTick, s >= tick, entered[s] # 0 PROVE FALSE
        OBVIOUS
      <4>1. s < window.start + UserWidth /\ s \in Nat BY <1>f, <1>c
      <4> HIDE DEF fresh
      <4> QED BY <1>0, <1>c, <1>w, <3>2, <4>1
    <3>3. window = [start |-> 0, count |-> 0] => window.count = 0 OBVIOUS
    <3> QED BY <1>4, <3>1, <3>2, <3>3
  <2>3. SumFunctionOnSet(entered, BeforeStart(w)) <= UserMax
    <3>1. CASE window.count = 0
      <4>1. \A s \in BeforeStart(w) : entered[s] = 0 BY <1>3, <1>f, <3>1
      <4>2. SumFunctionOnSet(entered, BeforeStart(w)) = 0 BY <1>3, <4>1, TickSets, SumOfZeros
      <4> QED BY <1>c, <4>2
    <3>2. CASE tick - window.start >= UserWidth
      <4>1. BeforeStart(w) \subseteq SinceStart(window)
        <5> HIDE DEF fresh
        <5> QED BY <1>0, <1>c, <1>w, <2>0, <3>2 DEF BeforeStart, SinceStart
      <4>2. SumFunctionOnSet(entered, BeforeStart(w)) <= SumFunctionOnSet(entered, SinceStart(window))
        BY <1>0, <1>3, <4>1, StampSubset
      <4>3. SumFunctionOnSet(entered, BeforeStart(w)) \in Nat BY <1>0, <1>3, StampSum
      <4> QED BY <1>c, <1>f, <1>w, <4>2, <4>3
    <3>3. window = [start |-> 0, count |-> 0] => window.count = 0 OBVIOUS
    <3> QED BY <1>4, <3>1, <3>2, <3>3
  <2> HIDE DEF w, fresh, ok
  <2>4. SumFunctionOnSet(more, SinceStart(w)) = 1
    <3>1. tick \in SinceStart(w) BY <1>0, <2>0 DEF SinceStart
    <3>2. \A s \in SinceStart(w) : entered[s] = 0 BY <2>0, <2>2 DEF SinceStart
    <3>3. SumFunctionOnSet(entered, SinceStart(w)) = 0 BY <1>3, <3>2, TickSets, SumOfZeros
    <3> QED BY <1>2, <1>3, <3>1, <3>3
  <2>5. SumFunctionOnSet(more, BeforeStart(w)) <= UserMax
    <3>1. tick \notin BeforeStart(w) BY <1>0, <2>0 DEF BeforeStart
    <3> QED BY <1>2, <1>3, <2>3, <3>1
  <2>6. \A s \in 0..LastTick : more[s] # 0 => s <= tick /\ s < w.start + UserWidth
    <3> TAKE s \in 0..LastTick
    <3>1. CASE s = tick BY <1>0, <1>c, <2>0, <3>1
    <3>2. CASE s # tick
      <4>1. more[s] # 0 => s <= tick /\ s \in Nat BY <1>2, <1>f, <1>c, <3>2
      <4> QED BY <1>0, <1>c, <2>0, <4>1
    <3> QED BY <3>1, <3>2
  <2>7. Fixed(w, more, tick) BY <2>0, <2>4, <2>5, <2>6 DEF Fixed
  <2>8. Fixed(window', entered', tick') BY <1>1, <2>1, <2>7
  <2>9. LimitsType' BY <1>0, <1>1, <1>2, <2>0, <2>1 DEF LimitsType
  <2>10. Earned(refused', asked', claimed', entered', tick')
    BY <2>1, LimitsConstants DEF Earned
  <2>11. Sliding(events', asked', tick') /\ Claims(hits', claimed', tick')
    BY <1>1 DEF LimitsInv
  <2> QED BY <2>8, <2>9, <2>10, <2>11 DEF LimitsInv
<1>5. CASE ~fresh /\ ok
  <2> DEFINE w == [window EXCEPT !.count = @ + 1]
  <2>0. /\ w \in [start : 0..LastTick, count : 0..UserMax]
        /\ w.start = window.start /\ w.count = window.count + 1
    BY <1>0, <1>c, <1>w, <1>5
  <2>1. window' = w /\ entered' = more /\ refused' = "no" BY <1>1, <1>5
  <2>n. tick < window.start + UserWidth BY <1>0, <1>c, <1>w, <1>5
  <2> HIDE DEF w, fresh, ok
  <2>2. SinceStart(w) = SinceStart(window) /\ BeforeStart(w) = BeforeStart(window) BY <2>0 DEF SinceStart, BeforeStart
  <2>4. SumFunctionOnSet(more, SinceStart(w)) = w.count
    <3>1. tick \in SinceStart(w) BY <1>0, <2>0 DEF SinceStart
    <3> QED BY <1>2, <1>3, <1>f, <2>0, <2>2, <3>1
  <2>5. SumFunctionOnSet(more, BeforeStart(w)) <= UserMax
    <3>1. tick \notin BeforeStart(w) BY <1>0, <1>w, <2>0 DEF BeforeStart
    <3> QED BY <1>2, <1>3, <1>f, <2>2, <3>1
  <2>6. \A s \in 0..LastTick : more[s] # 0 => s <= tick /\ s < w.start + UserWidth
    <3> TAKE s \in 0..LastTick
    <3>1. CASE s = tick BY <1>0, <2>0, <2>n, <3>1
    <3>2. CASE s # tick BY <1>2, <1>f, <2>0, <3>2
    <3> QED BY <3>1, <3>2
  <2>7. Fixed(w, more, tick)
    <3>1. w.count # 0 BY <1>w, <2>0
    <3> QED BY <2>4, <2>5, <2>6, <3>1 DEF Fixed
  <2>8. Fixed(window', entered', tick') BY <1>1, <2>1, <2>7
  <2>9. LimitsType' BY <1>0, <1>1, <1>2, <2>0, <2>1 DEF LimitsType
  <2>10. Earned(refused', asked', claimed', entered', tick')
    BY <2>1, LimitsConstants DEF Earned
  <2>11. Sliding(events', asked', tick') /\ Claims(hits', claimed', tick')
    BY <1>1 DEF LimitsInv
  <2> QED BY <2>8, <2>9, <2>10, <2>11 DEF LimitsInv
<1>6. CASE ~fresh /\ ~ok
  <2>1. window' = window /\ entered' = entered /\ refused' = "user" BY <1>1, <1>6
  <2>2. window.count = UserMax BY <1>c, <1>w, <1>6
  <2>n. tick < window.start + UserWidth BY <1>0, <1>c, <1>w, <1>6
  <2> HIDE DEF fresh, ok
  <2>3. SinceStart(window) \subseteq Young(UserWidth, tick)
    BY <1>0, <1>c, <1>w, <2>n DEF SinceStart, Young
  <2>4. Lately(entered, UserWidth, tick) >= UserMax
    <3>1. SumFunctionOnSet(entered, SinceStart(window)) <= Lately(entered, UserWidth, tick)
      BY <1>0, <2>3, YoungTicks, StampSubset DEF Lately
    <3>2. Lately(entered, UserWidth, tick) \in Nat BY <1>0, LatelyType
    <3> QED BY <1>c, <1>f, <2>2, <3>1, <3>2
  <2>5. Earned(refused', asked', claimed', entered', tick')
    BY <1>1, <2>1, <2>4, LimitsConstants DEF Earned
  <2>6. LimitsType' BY <1>0, <1>1, <2>1 DEF LimitsType
  <2>7. /\ Sliding(events', asked', tick') /\ Claims(hits', claimed', tick')
        /\ Fixed(window', entered', tick')
    BY <1>1, <2>1 DEF LimitsInv
  <2> QED BY <2>5, <2>6, <2>7 DEF LimitsInv
<1> QED BY <1>4, <1>5, <1>6

\* Every step of the limiters keeps the invariant.
LEMMA LimitsStep == ASSUME LimitsInv, Limited \/ UNCHANGED limits PROVE LimitsInv'
<1>1. CASE UNCHANGED limits BY <1>1 DEF limits, LimitsInv, LimitsType
<1> QED BY <1>1, LimitsOfTick, LimitsOfAllow, LimitsOfClaim, LimitsOfGc, LimitsOfUser
        DEF Limited

\* The invariant is what the runs check, and more.
LEMMA LimitsAreHeld == ASSUME LimitsInv PROVE L!LimitsHold
<1>0. /\ LimitsType /\ Sliding(events, asked, tick) /\ Claims(hits, claimed, tick)
      /\ Fixed(window, entered, tick) /\ Earned(refused, asked, claimed, entered, tick)
      /\ tick \in Nat /\ entered \in Stamps /\ UserMax \in Nat
      /\ \A k \in Emails \cup IPs : asked[k] \in Stamps
  BY LimitsConstants DEF LimitsInv, LimitsType
<1>1. L!TypeOK
  <2>1. window.start \in 0..tick /\ window.count \in 0..UserMax
    BY <1>0, LimitsConstants DEF LimitsType
  <2> QED BY <1>0, <2>1 DEF LimitsType, L!TypeOK, L!Times, L!LimiterKeys, Stamps
<1>2. L!WindowsKept
  BY <1>0, RecentIsLately DEF L!WindowsKept, Sliding, Claims
<1>3. L!TwiceAtMost
  <2> DEFINE A == SinceStart(window)
             B == BeforeStart(window)
             Y == Young(UserWidth, tick)
  <2>1. /\ A \subseteq 0..LastTick /\ B \subseteq 0..LastTick /\ A \cup B \subseteq 0..LastTick
        /\ A \cap B = {}
    BY <1>0, LimitsConstants DEF SinceStart, BeforeStart, LimitsType
  <2>2. Y \subseteq A \cup B
    BY <1>0, LimitsConstants DEF Young, SinceStart, BeforeStart, LimitsType
  <2>3. IsFiniteSet(A) /\ IsFiniteSet(B) /\ \A s \in A \cup B : entered[s] \in Int
    BY <1>0, <2>1, TickSets DEF Stamps
  <2>4. /\ SumFunctionOnSet(entered, A) \in Nat /\ SumFunctionOnSet(entered, B) \in Nat
        /\ SumFunctionOnSet(entered, Y) \in Nat
    BY <1>0, <2>1, YoungTicks, StampSum
  <2>5. SumFunctionOnSet(entered, A) <= UserMax /\ SumFunctionOnSet(entered, B) <= UserMax
    BY <1>0, LimitsConstants DEF Fixed, LimitsType
  <2> HIDE DEF A, B, Y
  <2>6. SumFunctionOnSet(entered, A \cup B) =
          SumFunctionOnSet(entered, A) + SumFunctionOnSet(entered, B)
    BY <2>1, <2>3, SumUnion
  <2>7. SumFunctionOnSet(entered, Y) <= SumFunctionOnSet(entered, A \cup B)
    BY <1>0, <2>1, <2>2, StampSubset
  <2>8. SumFunctionOnSet(entered, Y) <= 2 * UserMax BY <1>0, <2>4, <2>5, <2>6, <2>7
  <2>9. L!Recent(entered, UserWidth) = SumFunctionOnSet(entered, Y)
    BY RecentIsLately DEF Lately, Y
  <2> QED BY <2>8, <2>9 DEF L!TwiceAtMost
<1>4. L!RefusalEarned
  <2>1. \A k \in Emails \cup IPs : /\ ~L!check(asked[k], EmailWins) <=> Full(asked[k], EmailWins, tick)
                                   /\ ~L!check(asked[k], IpWins) <=> Full(asked[k], IpWins, tick)
    BY <1>0, CheckIsRoom
  <2> QED BY <1>0, <2>1, RecentIsLately DEF L!RefusalEarned, Earned
<1> QED BY <1>1, <1>2, <1>3, <1>4 DEF L!LimitsHold

-----------------------------------------------------------------------------
(* Referrals, of any story: whoever invites whom, with whatever tiers.      *)

BookRow(st) ==
  [ws : Purses, user : Parties, kind : {"adjust", "charge"}, amount : Int,
   ref : ((R(st)!BonusRefs \cup {"trial", "spend"}) \X (st.invitees \cup Nat)), key : {NoKey}]
SomeJob(st) ==
  [pc : R(st)!JobPcs, invitee : st.invitees, active : BOOLEAN, fraud : BOOLEAN,
   matched : BOOLEAN, inviteeBonus : Nat, inviterBonus : Nat, paid : BOOLEAN,
   tiers : SUBSET DOMAIN st.tiers]
Conversion ==
  [recorded : {TRUE}, inviteeBonus : Nat, inviterBonus : Nat, fraud : BOOLEAN,
   paid : BOOLEAN, at : Nat]
NoConversion == [recorded |-> FALSE]
Idler == [pc |-> "idle"]

\* The rows of book l for ref, and what invitee i has spent in it.
RowsOf(l, ref) == {k \in DOMAIN l : l[k].ref = ref}
Spends(l, i) ==
  Total([k \in 1..Len(l) |-> IF l[k].user = i /\ l[k].kind = "charge" THEN -l[k].amount ELSE 0])
WelcomeRows(l, i) == RowsOf(l, <<"ref_invitee", i>>) \cup RowsOf(l, <<"trial", i>>)
InviterRows(l, i) == RowsOf(l, <<"ref_inviter", i>>)
TierRowsOf(l, u, k) == {n \in RowsOf(l, <<"ref_tier", k>>) : l[n].user = u}
AtMostOne(T) == \A x, y \in T : x = y

EarlyPcs == {"new", "budget", "price", "insert"}
PayingPcs == {"invitee", "inviter", "bump", "count", "tier", "tiercredit"}
ReleasePcs == {"pending", "gates", "mark", "pay", "count", "tier", "tiercredit"}

\* The registration j of invitee i, whose conversion is c, over book l.
SignupSound(j, c, l, i, m) ==
  /\ j.invitee = i /\ j.pc \in EarlyPcs \cup PayingPcs \cup {"tail", "done"}
  /\ j.paid <=> ~(m.rewardOn = "first_spend" /\ j.inviterBonus > 0)
  /\ j.pc \in EarlyPcs => ~c.recorded /\ ~j.matched
  /\ j.pc \in PayingPcs => j.matched /\ ~j.fraud
  /\ j.pc \in {"invitee", "inviter"} =>
       /\ c.recorded /\ c.inviteeBonus = j.inviteeBonus /\ c.inviterBonus = j.inviterBonus
       /\ c.paid = j.paid /\ InviterRows(l, i) = {}
  /\ AtMostOne(WelcomeRows(l, i))
  /\ j.pc \in EarlyPcs \cup {"invitee"} \/ j.fraud \/ (j.pc = "tail" /\ ~j.matched)
       => WelcomeRows(l, i) = {}

\* What is paid for a conversion is on record in it, and a deferred reward has
\* been earned.
ConversionSound(c, l, i, m) ==
  /\ \A k \in RowsOf(l, <<"ref_invitee", i>>) : c.recorded /\ l[k].amount = c.inviteeBonus
  /\ AtMostOne(InviterRows(l, i))
  /\ \A k \in InviterRows(l, i) :
       c.recorded /\ c.paid /\ c.inviterBonus > 0 /\ l[k].amount = c.inviterBonus
  /\ Spends(l, i) \in Nat
  /\ c.recorded /\ ~c.paid => c.inviterBonus > 0
  /\ c.recorded /\ c.paid /\ c.inviterBonus > 0 /\ m.rewardOn = "first_spend" =>
       Spends(l, i) >= m.minSpend

\* The releaser q of an invitee in stage pc, whose conversion is c.
ReleaseSound(q, pc, c, l, m) ==
  /\ q.pc \in ReleasePcs /\ pc = "done"
  /\ q.pc \in {"gates", "mark", "pay"} => c.recorded /\ q.inviterBonus = c.inviterBonus
  /\ q.pc = "mark" => Spends(l, q.invitee) >= m.minSpend
  /\ q.pc = "pay" => c.paid /\ c.inviterBonus > 0 /\ InviterRows(l, q.invitee) = {}

\* The invitees who have earned user u a deferred reward.
Earners(st, cs, l, m, u) ==
  {i \in st.invitees : /\ cs[i].recorded /\ st.inviter[i] = u
                       /\ cs[i].inviterBonus > 0 /\ Spends(l, i) >= m.minSpend}
Climbed(st, k, u, cs, l, m) ==
  m.rewardOn = "first_spend" => st.tiers[k].threshold <= Cardinality(Earners(st, cs, l, m, u))

\* The job q that grants tiers, with the grants g.
Least(T) == CHOOSE k \in T : \A l \in T : k <= l
Climber(st, q) == st.inviter[q.invitee]
LadderSound(st, q, g, cs, l, m) ==
  /\ q.pc \in {"tier", "tiercredit"} => \A k \in q.tiers : Climbed(st, k, Climber(st, q), cs, l, m)
  /\ q.pc = "tiercredit" =>
       /\ q.tiers # {} /\ <<Climber(st, q), Least(q.tiers)>> \in g
       /\ TierRowsOf(l, Climber(st, q), Least(q.tiers)) = {}
GrantSound(st, u, k, g, cs, l, m) ==
  /\ AtMostOne(TierRowsOf(l, u, k))
  /\ TierRowsOf(l, u, k) # {} => <<u, k>> \in g
  /\ <<u, k>> \in g => Climbed(st, k, u, cs, l, m)

\* What is on record is paid, or about to be.
SignupPaid(i, j, c, l, releasing) ==
  c.recorded /\ ~c.fraud =>
    /\ c.inviteeBonus > 0 => RowsOf(l, <<"ref_invitee", i>>) # {} \/ j.pc = "invitee"
    /\ c.inviterBonus > 0 /\ c.paid =>
         InviterRows(l, i) # {} \/ j.pc \in {"invitee", "inviter"} \/ releasing
Releasing(jobs, i) == \E r \in Handlers : jobs[r].pc = "pay" /\ jobs[r].invitee = i
Work(st) == st.invitees \cup Handlers
PayingTier(st, jobs, u, k) ==
  \E p \in Work(st) : /\ jobs[p].pc = "tiercredit"
                        /\ Climber(st, jobs[p]) = u /\ Least(jobs[p].tiers) = k

\* What a step sees: the jobs jb, conversions cs, book l, grants g, campaign m.
RefShape(st, jb, cs, l, g, m) ==
  /\ l \in Seq(BookRow(st))
  /\ m \in [status : {"active", "paused"}, inviteeBonus : Nat, inviterBonus : Nat,
             rewardOn : {"signup", "first_spend"}, maxRewarded : Nat,
             dailyBudget : Nat, minSpend : Nat, dailyInviteCap : Nat]
  /\ cs \in [st.invitees -> {NoConversion} \cup Conversion]
  /\ g \subseteq Parties \X DOMAIN st.tiers
  /\ jb \in [Work(st) -> {Idler} \cup SomeJob(st)]
  /\ \A i \in st.invitees : jb[i] \in SomeJob(st)

Signups(st, jb, cs, l, m) ==
  \A i \in st.invitees : SignupSound(jb[i], cs[i], l, i, m) /\ ConversionSound(cs[i], l, i, m)
Releases(jb, cs, l, m) ==
  \A r \in Handlers : jb[r] # Idler =>
    ReleaseSound(jb[r], jb[jb[r].invitee].pc, cs[jb[r].invitee], l, m)
OnePayer(jb) ==
  \A r, s \in Handlers :
    jb[r].pc = "pay" /\ jb[s].pc = "pay" /\ jb[r].invitee = jb[s].invitee => r = s
Ladders(st, jb, g, cs, l, m) == \A p \in Work(st) : LadderSound(st, jb[p], g, cs, l, m)
OnePayerOfTier(st, jb) ==
  \A p, q \in Work(st) :
    /\ jb[p].pc = "tiercredit" /\ jb[q].pc = "tiercredit"
    /\ Climber(st, jb[p]) = Climber(st, jb[q]) /\ Least(jb[p].tiers) = Least(jb[q].tiers)
    => p = q
GrantsSound(st, g, cs, l, m) ==
  \A u \in Parties : \A k \in DOMAIN st.tiers : GrantSound(st, u, k, g, cs, l, m)
PaidUp(st, jb, cs, g, l) ==
  /\ \A i \in st.invitees : SignupPaid(i, jb[i], cs[i], l, Releasing(jb, i))
  /\ \A x \in g : TierRowsOf(l, x[1], x[2]) # {} \/ PayingTier(st, jb, x[1], x[2])
RefSound(st, jb, cs, l, g, m, f) ==
  /\ Signups(st, jb, cs, l, m) /\ Releases(jb, cs, l, m) /\ OnePayer(jb)
  /\ Ladders(st, jb, g, cs, l, m) /\ OnePayerOfTier(st, jb) /\ GrantsSound(st, g, cs, l, m)
  /\ f = 0 => PaidUp(st, jb, cs, g, l)

ReferralInv(st) ==
  /\ RefShape(st, job, conv, book, granted, campaign)
  /\ RefSound(st, job, conv, book, granted, campaign, faults)
  /\ purse \in [Purses -> Int] /\ invites \in [Parties -> Nat]
  /\ now \in Nat /\ midnight \in Nat /\ faults \in Nat

\* Books l and n say the same of invitee i.
SameBooks(l, n, i) ==
  /\ WelcomeRows(n, i) = WelcomeRows(l, i) /\ InviterRows(n, i) = InviterRows(l, i)
  /\ RowsOf(n, <<"ref_invitee", i>>) = RowsOf(l, <<"ref_invitee", i>>)
  /\ \A k \in RowsOf(l, <<"ref_invitee", i>>) \cup InviterRows(l, i) : n[k].amount = l[k].amount
  /\ Spends(n, i) = Spends(l, i)

LEMMA ReferralConstants ==
  ASSUME NEW st, R(st)!ReferralAssumption
  PROVE  /\ IsFiniteSet(st.invitees) /\ st.invitees \subseteq Parties
         /\ st.inviter \in [st.invitees -> Parties] /\ HomeOf \in [Parties -> Purses]
         /\ st.tiers \in Seq([threshold : Nat \ {0}, bonus : Nat \ {0}])
         /\ DOMAIN st.tiers \subseteq Nat /\ st.invitees \cap Handlers = {}
         /\ Welcome \in Nat /\ DayTicks \in Nat \ {0}
<1>1. IsFiniteSet(st.invitees) BY DEF R!ReferralAssumption, R!IsFiniteSet, IsFiniteSet
<1>2. st.tiers \in Seq([threshold : Nat \ {0}, bonus : Nat \ {0}])
  BY DEF R!ReferralAssumption
<1>3. DOMAIN st.tiers \subseteq Nat BY <1>2
<1> QED BY <1>1, <1>2, <1>3 DEF R!ReferralAssumption

\* A row appended to a book.
LEMMA BookAppends ==
  ASSUME NEW st, NEW l \in Seq(BookRow(st)), NEW r \in BookRow(st)
  PROVE  Append(l, r) \in Seq(BookRow(st)) /\ Grown(l, Append(l, r), r)
<1> DEFINE n == Append(l, r)
<1>1. /\ n \in Seq(BookRow(st)) /\ Len(n) = Len(l) + 1 /\ Len(l) \in Nat
      /\ n[Len(l) + 1] = r /\ \A k \in 1..Len(l) : n[k] = l[k]
  OBVIOUS
<1>2. DOMAIN l = 1..Len(l) /\ DOMAIN n = 1..Len(n) BY <1>1
<1> QED BY <1>1, <1>2 DEF Grown

LEMMA RowsGrow ==
  ASSUME NEW l, NEW n, NEW r, Grown(l, n, r), NEW ref
  PROVE  /\ \A k \in RowsOf(l, ref) : k \in RowsOf(n, ref) /\ n[k] = l[k]
         /\ r.ref # ref => RowsOf(n, ref) = RowsOf(l, ref)
         /\ r.ref = ref => RowsOf(n, ref) = RowsOf(l, ref) \cup {Len(l) + 1}
         /\ n[Len(l) + 1] = r
<1>1. /\ Len(l) \in Nat /\ DOMAIN l = 1..Len(l) /\ DOMAIN n = 1..(Len(l) + 1)
      /\ \A k \in DOMAIN l : n[k] = l[k]
      /\ n[Len(l) + 1] = r
  BY DEF Grown
<1>2. DOMAIN n = DOMAIN l \cup {Len(l) + 1} /\ Len(l) + 1 \notin DOMAIN l BY <1>1
<1> QED BY <1>1, <1>2 DEF RowsOf

\* What is spent is what the charges take.
LEMMA SpendsGrow ==
  ASSUME NEW st, NEW l \in Seq(BookRow(st)), NEW r \in BookRow(st), NEW i
  PROVE  /\ Spends(l, i) \in Int
         /\ r.user = i /\ r.kind = "charge" => Spends(Append(l, r), i) = Spends(l, i) - r.amount
         /\ ~(r.user = i /\ r.kind = "charge") => Spends(Append(l, r), i) = Spends(l, i)
<1> DEFINE n == Append(l, r)
           cost(x) == IF x.user = i /\ x.kind = "charge" THEN -x.amount ELSE 0
           s == [k \in 1..Len(l) |-> cost(l[k])]
           t == [k \in 1..Len(n) |-> cost(n[k])]
<1>1. /\ Len(l) \in Nat /\ Len(n) = Len(l) + 1 /\ n[Len(l) + 1] = r
      /\ \A k \in 1..Len(l) : n[k] = l[k] /\ l[k] \in BookRow(st)
  OBVIOUS
<1>2. \A x \in BookRow(st) : cost(x) \in Int BY DEF BookRow
<1> HIDE DEF n, cost
<1>3. s \in Seq(Int) /\ Len(s) = Len(l)
  <2>1. \A k \in 1..Len(l) : cost(l[k]) \in Int BY <1>1, <1>2
  <2> DEFINE e(k) == cost(l[k])
  <2> HIDE DEF e
  <2>2. \A k \in 1..Len(l) : e(k) \in Int BY <2>1 DEF e
  <2>3. [k \in 1..Len(l) |-> e(k)] \in Seq(Int) /\ Len([k \in 1..Len(l) |-> e(k)]) = Len(l)
    BY <1>1, <2>2
  <2> QED BY <2>3 DEF e
<1>4. cost(r) \in Int BY <1>2
<1>5. t = Append(s, cost(r))
  <2> DEFINE d == cost(r)
  <2> HIDE DEF d
  <2>1. /\ Append(s, d) = [k \in 1..(Len(l) + 1) |-> IF k = Len(l) + 1 THEN d ELSE s[k]]
    BY <1>3, <1>4
  <2>2. \A k \in 1..(Len(l) + 1) : cost(n[k]) = IF k = Len(l) + 1 THEN d ELSE s[k]
    BY <1>1 DEF d
  <2>3. t = [k \in 1..(Len(l) + 1) |-> cost(n[k])] BY <1>1
  <2> QED BY <2>1, <2>2, <2>3 DEF d
<1>6. Spends(l, i) = Total(s) /\ Spends(n, i) = Total(t) BY DEF Spends, cost
<1> HIDE DEF s, t
<1>7. Total(t) = Total(s) + cost(r) BY <1>3, <1>4, <1>5, TotalAppend
<1>8. Total(s) \in Int BY <1>3, TotalType
<1>9. /\ r.user = i /\ r.kind = "charge" => cost(r) = -r.amount
      /\ ~(r.user = i /\ r.kind = "charge") => cost(r) = 0
  BY DEF cost
<1>10. r.amount \in Int BY DEF BookRow
<1> QED BY <1>6, <1>7, <1>8, <1>9, <1>10 DEF n

\* Those who earned a reward have earned it for good.
LEMMA ClimbedStays ==
  ASSUME NEW st, R(st)!ReferralAssumption, NEW l, NEW n, NEW cs, NEW ds, NEW k \in DOMAIN st.tiers,
         NEW u, NEW m, NEW w, m.minSpend \in Nat, w.minSpend = m.minSpend, w.rewardOn = m.rewardOn,
         \A i \in st.invitees :
           Spends(l, i) \in Int /\ Spends(n, i) \in Int /\ Spends(n, i) >= Spends(l, i),
         \A i \in st.invitees : cs[i].recorded =>
           ds[i].recorded /\ ds[i].inviterBonus = cs[i].inviterBonus,
         Climbed(st, k, u, cs, l, m)
  PROVE  Climbed(st, k, u, ds, n, w)
<1>1. Earners(st, cs, l, m, u) \subseteq Earners(st, ds, n, w, u)
  <2> DEFINE a(i) == Spends(l, i)
             b(i) == Spends(n, i)
  <2> HIDE DEF a, b
  <2>1. \A i \in st.invitees : a(i) \in Int /\ b(i) \in Int /\ b(i) >= a(i) BY DEF a, b
  <2>2. \A i \in st.invitees : a(i) >= m.minSpend => b(i) >= w.minSpend BY <2>1
  <2>3. ASSUME NEW i \in Earners(st, cs, l, m, u) PROVE i \in Earners(st, ds, n, w, u)
    <3>1. i \in st.invitees /\ cs[i].recorded /\ st.inviter[i] = u /\ cs[i].inviterBonus > 0
      BY DEF Earners
    <3>2. a(i) >= m.minSpend BY DEF Earners, a
    <3>3. ds[i].recorded /\ ds[i].inviterBonus > 0 BY <3>1
    <3>4. b(i) >= w.minSpend BY <2>2, <3>1, <3>2
    <3>5. Spends(n, i) >= w.minSpend BY <3>4 DEF b
    <3> QED BY <3>1, <3>3, <3>5 DEF Earners
  <2> QED BY <2>3
<1>2. Earners(st, ds, n, w, u) \subseteq st.invitees BY DEF Earners
<1>3. IsFiniteSet(Earners(st, ds, n, w, u)) BY <1>2, ReferralConstants, FS_Subset
<1>4. /\ Cardinality(Earners(st, cs, l, m, u)) <= Cardinality(Earners(st, ds, n, w, u))
      /\ IsFiniteSet(Earners(st, cs, l, m, u))
  BY <1>1, <1>3, FS_Subset
<1>5. /\ Cardinality(Earners(st, cs, l, m, u)) \in Nat /\ Cardinality(Earners(st, ds, n, w, u)) \in Nat
  BY <1>3, <1>4, FS_CardinalityType
<1>6. st.tiers[k].threshold \in Nat
  <2> DEFINE T == [threshold : Nat \ {0}, bonus : Nat \ {0}]
  <2>1. st.tiers \in Seq(T) BY ReferralConstants
  <2> HIDE DEF T
  <2>2. st.tiers[k] \in T BY <2>1
  <2> QED BY <2>2 DEF T
<1> QED BY <1>4, <1>5, <1>6 DEF Climbed

\* A step of the registration of i that is not on its way through the tiers.
LEMMA RegistrationMoves ==
  ASSUME NEW st, R(st)!ReferralAssumption, NEW jb, NEW cs, NEW l, NEW g, NEW m, NEW f \in Nat,
         RefShape(st, jb, cs, l, g, m), RefSound(st, jb, cs, l, g, m, f),
         NEW i \in st.invitees, NEW j \in SomeJob(st), NEW c \in {NoConversion} \cup Conversion,
         NEW n, NEW h \in Nat, NEW jd, NEW ds,
         jd = [jb EXCEPT ![i] = j], ds = [cs EXCEPT ![i] = c],
         jb[i].pc \notin {"done", "tiercredit"}, j.pc \notin {"tier", "tiercredit"},
         SignupSound(j, c, n, i, m), ConversionSound(c, n, i, m),
         cs[i].recorded => c.recorded /\ c.inviterBonus = cs[i].inviterBonus,
         \A x \in st.invitees \ {i} : SameBooks(l, n, x), Spends(n, i) = Spends(l, i),
         \A u \in Parties : \A k \in DOMAIN st.tiers : TierRowsOf(n, u, k) = TierRowsOf(l, u, k),
         h = 0 => f = 0 /\ SignupPaid(i, j, c, n, FALSE)
  PROVE  RefSound(st, jd, ds, n, g, m, h)
<1>1. /\ Signups(st, jb, cs, l, m) /\ Releases(jb, cs, l, m) /\ OnePayer(jb)
      /\ Ladders(st, jb, g, cs, l, m) /\ OnePayerOfTier(st, jb) /\ GrantsSound(st, g, cs, l, m)
      /\ f = 0 => PaidUp(st, jb, cs, g, l)
  BY DEF RefSound
<1>2. /\ jd[i] = j /\ \A p \in Work(st) \ {i} : jd[p] = jb[p]
      /\ ds[i] = c /\ \A x \in st.invitees \ {i} : ds[x] = cs[x]
      /\ i \in Work(st) /\ i \notin Handlers /\ Handlers \subseteq Work(st)
      /\ st.invitees \subseteq Work(st)
  BY ReferralConstants DEF RefShape, Work
<1>3. \A r \in Handlers : jd[r] = jb[r] BY <1>2
<1>4. ASSUME NEW x \in st.invitees \ {i}
      PROVE  SignupSound(jd[x], ds[x], n, x, m) /\ ConversionSound(ds[x], n, x, m)
  <2>1. jd[x] = jb[x] /\ ds[x] = cs[x] BY <1>2
  <2>2. SignupSound(jb[x], cs[x], l, x, m) /\ ConversionSound(cs[x], l, x, m) BY <1>1 DEF Signups
  <2>3. SameBooks(l, n, x) OBVIOUS
  <2>4. SignupSound(jb[x], cs[x], n, x, m) BY <2>2, <2>3 DEF SignupSound, SameBooks
  <2>5. ConversionSound(cs[x], n, x, m) BY <2>2, <2>3 DEF ConversionSound, SameBooks
  <2> QED BY <2>1, <2>4, <2>5
<1>5. Signups(st, jd, ds, n, m) BY <1>2, <1>4 DEF Signups
<1>6. Releases(jd, ds, n, m)
  <2>1. ASSUME NEW r \in Handlers, jd[r] # Idler
        PROVE  ReleaseSound(jd[r], jd[jd[r].invitee].pc, ds[jd[r].invitee], n, m)
    <3> DEFINE x == jb[r].invitee
    <3>1. jb[r] \in SomeJob(st) BY <1>2, <1>3, <2>1 DEF RefShape
    <3>2. x \in st.invitees BY <3>1 DEF SomeJob
    <3>3. ReleaseSound(jb[r], jb[x].pc, cs[x], l, m) BY <1>1, <1>3, <2>1 DEF Releases
    <3>4. x # i BY <3>3 DEF ReleaseSound
    <3>5. jd[x] = jb[x] /\ ds[x] = cs[x] /\ SameBooks(l, n, x) BY <1>2, <3>2, <3>4
    <3> HIDE DEF x
    <3>6. ReleaseSound(jb[r], jb[x].pc, cs[x], n, m)
      BY <3>3, <3>5 DEF ReleaseSound, SameBooks, x
    <3> QED BY <1>3, <3>5, <3>6 DEF x
  <2> QED BY <2>1 DEF Releases
<1>7. OnePayer(jd) BY <1>1, <1>3 DEF OnePayer
<1>8. \A x \in st.invitees : Spends(n, x) = Spends(l, x) BY DEF SameBooks
<1>9. \A x \in st.invitees : Spends(n, x) \in Int /\ Spends(l, x) \in Int /\ Spends(n, x) >= Spends(l, x)
  <2>1. \A x \in st.invitees : Spends(l, x) \in Nat BY <1>1 DEF Signups, ConversionSound
  <2> QED BY <1>8, <2>1
<1>10. \A x \in st.invitees : cs[x].recorded => ds[x].recorded /\ ds[x].inviterBonus = cs[x].inviterBonus
  BY <1>2
<1>11. m.minSpend \in Nat BY DEF RefShape
<1>12. ASSUME NEW u, NEW k \in DOMAIN st.tiers, Climbed(st, k, u, cs, l, m)
       PROVE  Climbed(st, k, u, ds, n, m)
  BY ONLY R(st)!ReferralAssumption, <1>9, <1>10, <1>11, <1>12, ClimbedStays, Zenon
<1>13. ASSUME NEW p \in Work(st), jd[p].pc \in {"tier", "tiercredit"}
       PROVE  /\ p # i /\ jd[p] = jb[p] /\ jb[p] \in SomeJob(st)
              /\ jb[p].tiers \subseteq DOMAIN st.tiers /\ Climber(st, jb[p]) \in Parties
  <2>1. p # i /\ jd[p] = jb[p] BY <1>2, <1>13
  <2>2. jb[p] \in SomeJob(st) BY <1>13, <2>1 DEF RefShape, Idler
  <2>3. jb[p].tiers \subseteq DOMAIN st.tiers /\ jb[p].invitee \in st.invitees
    BY <2>2 DEF SomeJob
  <2> QED BY <2>1, <2>2, <2>3, ReferralConstants DEF Climber
<1>14. Ladders(st, jd, g, ds, n, m)
  <2>1. ASSUME NEW p \in Work(st), jd[p].pc \in {"tier", "tiercredit"}
        PROVE  LadderSound(st, jd[p], g, ds, n, m)
    <3>1. /\ jd[p] = jb[p] /\ jb[p].tiers \subseteq DOMAIN st.tiers /\ Climber(st, jb[p]) \in Parties
      BY <1>13, <2>1
    <3>2. LadderSound(st, jb[p], g, cs, l, m) BY <1>1 DEF Ladders
    <3>3. \A k \in jb[p].tiers : Climbed(st, k, Climber(st, jb[p]), ds, n, m)
      BY <1>12, <2>1, <3>1, <3>2 DEF LadderSound
    <3>4. jb[p].pc = "tiercredit" =>
            /\ jb[p].tiers # {} /\ <<Climber(st, jb[p]), Least(jb[p].tiers)>> \in g
            /\ TierRowsOf(n, Climber(st, jb[p]), Least(jb[p].tiers)) = {}
      BY <3>1, <3>2 DEF LadderSound, RefShape
    <3> QED BY <3>1, <3>3, <3>4 DEF LadderSound
  <2> QED BY <2>1 DEF Ladders, LadderSound
<1>15. OnePayerOfTier(st, jd) BY <1>1, <1>13 DEF OnePayerOfTier
<1>16. GrantsSound(st, g, ds, n, m)
  <2>1. ASSUME NEW u \in Parties, NEW k \in DOMAIN st.tiers PROVE GrantSound(st, u, k, g, ds, n, m)
    <3>1. GrantSound(st, u, k, g, cs, l, m) BY <1>1 DEF GrantsSound
    <3> QED BY <1>12, <3>1 DEF GrantSound
  <2> QED BY <2>1 DEF GrantsSound
<1>17. ASSUME h = 0 PROVE PaidUp(st, jd, ds, g, n)
  <2>1. PaidUp(st, jb, cs, g, l) BY <1>1, <1>17
  <2>2. ASSUME NEW x \in st.invitees PROVE SignupPaid(x, jd[x], ds[x], n, Releasing(jd, x))
    <3>1. CASE x = i BY <1>2, <1>17, <3>1 DEF SignupPaid
    <3>2. CASE x # i
      <4>1. jd[x] = jb[x] /\ ds[x] = cs[x] /\ SameBooks(l, n, x) BY <1>2, <3>2
      <4>2. SignupPaid(x, jb[x], cs[x], l, Releasing(jb, x)) BY <2>1 DEF PaidUp
      <4>3. Releasing(jd, x) <=> Releasing(jb, x) BY <1>3 DEF Releasing
      <4> QED BY <4>1, <4>2, <4>3 DEF SignupPaid, SameBooks
    <3> QED BY <3>1, <3>2
  <2>3. ASSUME NEW x \in g
        PROVE  TierRowsOf(n, x[1], x[2]) # {} \/ PayingTier(st, jd, x[1], x[2])
    <3>1. x[1] \in Parties /\ x[2] \in DOMAIN st.tiers BY DEF RefShape
    <3>2. TierRowsOf(l, x[1], x[2]) # {} \/ PayingTier(st, jb, x[1], x[2]) BY <2>1 DEF PaidUp
    <3>3. ASSUME PayingTier(st, jb, x[1], x[2]) PROVE PayingTier(st, jd, x[1], x[2])
      BY <1>2, <3>3 DEF PayingTier
    <3> QED BY <3>1, <3>2, <3>3
  <2> QED BY <2>2, <2>3 DEF PaidUp
<1> QED BY <1>5, <1>6, <1>7, <1>14, <1>15, <1>16, <1>17 DEF RefSound

\* What the step owes to the invariant, when job r becomes q, the conversion of
\* invitee i becomes c and the book n.
ReleaserMove(st, jb, cs, l, m, f, r, i, q, c, n, h) ==
  /\ jb[i].pc = "done" /\ jb[r].pc # "tiercredit" /\ q.pc \notin {"tier", "tiercredit"}
  /\ jb[r] # Idler => jb[r].invitee = i
  /\ q # Idler => q.invitee = i
  /\ c.recorded = cs[i].recorded
  /\ c.recorded => /\ c.inviteeBonus = cs[i].inviteeBonus /\ c.inviterBonus = cs[i].inviterBonus
                   /\ c.fraud = cs[i].fraud /\ (cs[i].paid => c.paid)
  /\ ConversionSound(c, n, i, m) /\ Spends(n, i) >= Spends(l, i)
  /\ WelcomeRows(n, i) = WelcomeRows(l, i)
  /\ RowsOf(n, <<"ref_invitee", i>>) = RowsOf(l, <<"ref_invitee", i>>)
  /\ q # Idler => ReleaseSound(q, "done", c, n, m)
  /\ InviterRows(n, i) = InviterRows(l, i) \/ jb[r].pc = "pay"
  /\ q.pc = "pay" => ~cs[i].paid
  /\ \A x \in st.invitees \ {i} : SameBooks(l, n, x)
  /\ \A u \in Parties : \A k \in DOMAIN st.tiers : TierRowsOf(n, u, k) = TierRowsOf(l, u, k)
  /\ h = 0 => f = 0
  /\ h = 0 => \/ c = cs[i] /\ jb[r].pc # "pay" /\ InviterRows(n, i) = InviterRows(l, i)
              \/ q.pc = "pay" \/ InviterRows(n, i) # {}

\* A step of the releaser r of the deferred reward for i, or a charge of i
\* that starts it.
LEMMA ReleaserMoves ==
  ASSUME NEW st, R(st)!ReferralAssumption, NEW jb, NEW cs, NEW l, NEW g, NEW m, NEW f \in Nat,
         RefShape(st, jb, cs, l, g, m), RefSound(st, jb, cs, l, g, m, f),
         NEW r \in Handlers, NEW i \in st.invitees, NEW q \in {Idler} \cup SomeJob(st),
         NEW c \in {NoConversion} \cup Conversion, NEW n, NEW h \in Nat, NEW jd, NEW ds,
         jd = [jb EXCEPT ![r] = q], ds = [cs EXCEPT ![i] = c],
         ReleaserMove(st, jb, cs, l, m, f, r, i, q, c, n, h)
  PROVE  RefSound(st, jd, ds, n, g, m, h)
<1>0. /\ jb[i].pc = "done" /\ jb[r].pc # "tiercredit" /\ q.pc \notin {"tier", "tiercredit"}
      /\ jb[r] # Idler => jb[r].invitee = i
      /\ q # Idler => q.invitee = i
      /\ c.recorded = cs[i].recorded
      /\ c.recorded => /\ c.inviteeBonus = cs[i].inviteeBonus /\ c.inviterBonus = cs[i].inviterBonus
                       /\ c.fraud = cs[i].fraud /\ (cs[i].paid => c.paid)
      /\ ConversionSound(c, n, i, m) /\ Spends(n, i) >= Spends(l, i)
      /\ WelcomeRows(n, i) = WelcomeRows(l, i)
      /\ RowsOf(n, <<"ref_invitee", i>>) = RowsOf(l, <<"ref_invitee", i>>)
      /\ q # Idler => ReleaseSound(q, "done", c, n, m)
      /\ InviterRows(n, i) = InviterRows(l, i) \/ jb[r].pc = "pay"
      /\ q.pc = "pay" => ~cs[i].paid
      /\ \A x \in st.invitees \ {i} : SameBooks(l, n, x)
      /\ \A u \in Parties : \A k \in DOMAIN st.tiers : TierRowsOf(n, u, k) = TierRowsOf(l, u, k)
      /\ h = 0 => f = 0
      /\ h = 0 => \/ c = cs[i] /\ jb[r].pc # "pay" /\ InviterRows(n, i) = InviterRows(l, i)
                  \/ q.pc = "pay" \/ InviterRows(n, i) # {}
  BY DEF ReleaserMove
<1> USE <1>0
<1>1. /\ Signups(st, jb, cs, l, m) /\ Releases(jb, cs, l, m) /\ OnePayer(jb)
      /\ Ladders(st, jb, g, cs, l, m) /\ OnePayerOfTier(st, jb) /\ GrantsSound(st, g, cs, l, m)
      /\ f = 0 => PaidUp(st, jb, cs, g, l)
  BY DEF RefSound
<1>2. /\ jd[r] = q /\ \A p \in Work(st) \ {r} : jd[p] = jb[p]
      /\ ds[i] = c /\ \A x \in st.invitees \ {i} : ds[x] = cs[x]
      /\ r \in Work(st) /\ r \notin st.invitees /\ Handlers \subseteq Work(st)
      /\ st.invitees \subseteq Work(st)
  BY ReferralConstants DEF RefShape, Work
<1>3. \A x \in st.invitees : jd[x] = jb[x] BY <1>2
<1>4. ASSUME NEW x \in st.invitees
      PROVE  SignupSound(jd[x], ds[x], n, x, m) /\ ConversionSound(ds[x], n, x, m)
  <2>1. SignupSound(jb[x], cs[x], l, x, m) /\ ConversionSound(cs[x], l, x, m) BY <1>1 DEF Signups
  <2>2. CASE x = i
    <3>1. SignupSound(jb[i], c, n, i, m)
      BY <2>1, <2>2 DEF SignupSound, EarlyPcs, PayingPcs
    <3> QED BY <1>2, <1>3, <2>2, <3>1
  <2>3. CASE x # i
    <3>1. jd[x] = jb[x] /\ ds[x] = cs[x] /\ SameBooks(l, n, x) BY <1>2, <1>3, <2>3
    <3>2. SignupSound(jb[x], cs[x], n, x, m) BY <2>1, <3>1 DEF SignupSound, SameBooks
    <3>3. ConversionSound(cs[x], n, x, m) BY <2>1, <3>1 DEF ConversionSound, SameBooks
    <3> QED BY <3>1, <3>2, <3>3
  <2> QED BY <2>2, <2>3
<1>5. Signups(st, jd, ds, n, m) BY <1>4 DEF Signups
<1>6. \A x \in st.invitees : Spends(n, x) \in Int /\ Spends(l, x) \in Int /\ Spends(n, x) >= Spends(l, x)
  <2>1. \A x \in st.invitees : Spends(l, x) \in Nat /\ Spends(n, x) \in Nat
    BY <1>1, <1>4 DEF Signups, ConversionSound
  <2>2. \A x \in st.invitees \ {i} : Spends(n, x) = Spends(l, x) BY DEF SameBooks
  <2> QED BY <2>1, <2>2
<1>7. m.minSpend \in Nat BY DEF RefShape
\* A second releaser that pays would have found the reward paid.
<1>8. ASSUME NEW s \in Handlers, s # r, jb[s].pc = "pay", jb[s].invitee = i
      PROVE  jb[r].pc # "pay" /\ cs[i].paid /\ InviterRows(l, i) = {}
  <2>1. jb[s] # Idler BY <1>8 DEF Idler
  <2>2. ReleaseSound(jb[s], jb[i].pc, cs[i], l, m) BY <1>1, <1>8, <2>1 DEF Releases
  <2>3. cs[i].paid /\ InviterRows(l, i) = {} BY <1>8, <2>2 DEF ReleaseSound
  <2>4. ASSUME jb[r].pc = "pay" PROVE FALSE
    <3>1. jb[r].invitee = i BY <2>4 DEF Idler
    <3> QED BY <1>1, <1>8, <2>4, <3>1 DEF OnePayer
  <2> QED BY <2>3, <2>4
<1>9. Releases(jd, ds, n, m)
  <2>1. ASSUME NEW s \in Handlers, jd[s] # Idler
        PROVE  ReleaseSound(jd[s], jd[jd[s].invitee].pc, ds[jd[s].invitee], n, m)
    <3>1. CASE s = r BY <1>2, <1>3, <2>1, <3>1
    <3>2. CASE s # r
      <4> DEFINE x == jb[s].invitee
      <4>1. jd[s] = jb[s] /\ s \in Work(st) BY <1>2, <3>2
      <4>2. jb[s] \in SomeJob(st) BY <2>1, <4>1 DEF RefShape
      <4>3. x \in st.invitees BY <4>2 DEF SomeJob
      <4>4. ReleaseSound(jb[s], jb[x].pc, cs[x], l, m) BY <1>1, <2>1, <4>1 DEF Releases
      <4>5. CASE x = i
        <5>1. jb[s].pc = "mark" => Spends(n, i) >= m.minSpend
          BY <1>6, <1>7, <4>4, <4>5 DEF ReleaseSound
        <5>2. jb[s].pc = "pay" => c.paid /\ c.inviterBonus > 0 /\ InviterRows(n, i) = {}
          BY <1>8, <3>2, <4>4, <4>5 DEF ReleaseSound, Conversion, NoConversion
        <5>3. jb[s].pc \in {"gates", "mark", "pay"} => c.recorded /\ jb[s].inviterBonus = c.inviterBonus
          BY <4>4, <4>5 DEF ReleaseSound
        <5>4. ReleaseSound(jb[s], "done", c, n, m)
          BY <4>4, <4>5, <5>1, <5>2, <5>3 DEF ReleaseSound
        <5> QED BY <1>2, <1>3, <4>1, <4>5, <5>4
      <4>6. CASE x # i
        <5>1. jd[x] = jb[x] /\ ds[x] = cs[x] /\ SameBooks(l, n, x) BY <1>2, <1>3, <4>3, <4>6
        <5> HIDE DEF x
        <5>2. ReleaseSound(jb[s], jb[x].pc, cs[x], n, m)
          BY <4>4, <5>1 DEF ReleaseSound, SameBooks, x
        <5> QED BY <4>1, <5>1, <5>2 DEF x
      <4> QED BY <4>5, <4>6
    <3> QED BY <3>1, <3>2
  <2> QED BY <2>1 DEF Releases
<1>10. OnePayer(jd)
  <2>1. ASSUME NEW s \in Handlers, s # r, jd[s].pc = "pay", jd[r].pc = "pay",
               jd[s].invitee = jd[r].invitee
        PROVE  FALSE
    <3>1. jd[s] = jb[s] /\ q.pc = "pay" /\ ~cs[i].paid BY <1>2, <2>1
    <3>2. q.invitee = i BY <3>1 DEF Idler
    <3> QED BY <1>2, <1>8, <2>1, <3>1, <3>2
  <2>2. \A s, t \in Handlers \ {r} : jd[s] = jb[s] /\ jd[t] = jb[t] BY <1>2
  <2> QED BY <1>1, <2>1, <2>2 DEF OnePayer
<1>11. \A x \in st.invitees : cs[x].recorded => ds[x].recorded /\ ds[x].inviterBonus = cs[x].inviterBonus
  BY <1>2
<1>12. ASSUME NEW u, NEW k \in DOMAIN st.tiers, Climbed(st, k, u, cs, l, m)
       PROVE  Climbed(st, k, u, ds, n, m)
  BY ONLY R(st)!ReferralAssumption, <1>6, <1>7, <1>11, <1>12, ClimbedStays, Zenon
<1>13. ASSUME NEW p \in Work(st), jd[p].pc \in {"tier", "tiercredit"}
       PROVE  /\ p # r /\ jd[p] = jb[p] /\ jb[p] \in SomeJob(st)
              /\ jb[p].tiers \subseteq DOMAIN st.tiers /\ Climber(st, jb[p]) \in Parties
  <2>1. p # r /\ jd[p] = jb[p] BY <1>2, <1>13
  <2>2. jb[p] \in SomeJob(st) BY <1>13, <2>1 DEF RefShape, Idler
  <2>3. jb[p].tiers \subseteq DOMAIN st.tiers /\ jb[p].invitee \in st.invitees
    BY <2>2 DEF SomeJob
  <2> QED BY <2>1, <2>2, <2>3, ReferralConstants DEF Climber
<1>14. Ladders(st, jd, g, ds, n, m)
  <2>1. ASSUME NEW p \in Work(st), jd[p].pc \in {"tier", "tiercredit"}
        PROVE  LadderSound(st, jd[p], g, ds, n, m)
    <3>1. /\ jd[p] = jb[p] /\ jb[p].tiers \subseteq DOMAIN st.tiers /\ Climber(st, jb[p]) \in Parties
      BY <1>13, <2>1
    <3>2. LadderSound(st, jb[p], g, cs, l, m) BY <1>1 DEF Ladders
    <3>3. \A k \in jb[p].tiers : Climbed(st, k, Climber(st, jb[p]), ds, n, m)
      BY <1>12, <2>1, <3>1, <3>2 DEF LadderSound
    <3>4. jb[p].pc = "tiercredit" =>
            /\ jb[p].tiers # {} /\ <<Climber(st, jb[p]), Least(jb[p].tiers)>> \in g
            /\ TierRowsOf(n, Climber(st, jb[p]), Least(jb[p].tiers)) = {}
      BY <3>1, <3>2 DEF LadderSound, RefShape
    <3> QED BY <3>1, <3>3, <3>4 DEF LadderSound
  <2> QED BY <2>1 DEF Ladders, LadderSound
<1>15. OnePayerOfTier(st, jd) BY <1>1, <1>13 DEF OnePayerOfTier
<1>16. GrantsSound(st, g, ds, n, m)
  <2>1. ASSUME NEW u \in Parties, NEW k \in DOMAIN st.tiers PROVE GrantSound(st, u, k, g, ds, n, m)
    <3>1. GrantSound(st, u, k, g, cs, l, m) BY <1>1 DEF GrantsSound
    <3> QED BY <1>12, <3>1 DEF GrantSound
  <2> QED BY <2>1 DEF GrantsSound
<1>17. ASSUME h = 0 PROVE PaidUp(st, jd, ds, g, n)
  <2>1. PaidUp(st, jb, cs, g, l) BY <1>1, <1>17
  <2>2. ASSUME NEW x \in st.invitees PROVE SignupPaid(x, jd[x], ds[x], n, Releasing(jd, x))
    <3>1. SignupPaid(x, jb[x], cs[x], l, Releasing(jb, x)) BY <2>1 DEF PaidUp
    <3>2. CASE x = i
      <4>1. jd[i] = jb[i] /\ ds[i] = c BY <1>2, <1>3
      <4>2. CASE c = cs[i] /\ jb[r].pc # "pay" /\ InviterRows(n, i) = InviterRows(l, i)
        <5>1. Releasing(jb, i) => Releasing(jd, i) BY <1>2, <4>2 DEF Releasing
        <5> QED BY <3>1, <3>2, <4>1, <4>2, <5>1 DEF SignupPaid
      <4>3. CASE q.pc = "pay"
        <5>1. Releasing(jd, i) BY <1>2, <4>3 DEF Releasing, Idler
        <5> QED BY <3>1, <3>2, <4>1, <5>1 DEF SignupPaid
      <4>4. CASE InviterRows(n, i) # {}
        BY <3>1, <3>2, <4>1, <4>4 DEF SignupPaid
      <4> QED BY <1>17, <4>2, <4>3, <4>4
    <3>3. CASE x # i
      <4>1. jd[x] = jb[x] /\ ds[x] = cs[x] /\ SameBooks(l, n, x) BY <1>2, <1>3, <3>3
      <4>2. ASSUME Releasing(jb, x) PROVE Releasing(jd, x)
        <5>1. PICK s \in Handlers : jb[s].pc = "pay" /\ jb[s].invitee = x
          BY <4>2 DEF Releasing
        <5>2. s # r BY <3>3, <5>1 DEF Idler
        <5> QED BY <1>2, <5>1, <5>2 DEF Releasing
      <4> QED BY <3>1, <4>1, <4>2 DEF SignupPaid, SameBooks
    <3> QED BY <3>2, <3>3
  <2>3. ASSUME NEW x \in g
        PROVE  TierRowsOf(n, x[1], x[2]) # {} \/ PayingTier(st, jd, x[1], x[2])
    <3>1. x[1] \in Parties /\ x[2] \in DOMAIN st.tiers BY DEF RefShape
    <3>2. TierRowsOf(l, x[1], x[2]) # {} \/ PayingTier(st, jb, x[1], x[2]) BY <2>1 DEF PaidUp
    <3>3. ASSUME PayingTier(st, jb, x[1], x[2]) PROVE PayingTier(st, jd, x[1], x[2])
      BY <1>2, <3>3 DEF PayingTier
    <3> QED BY <3>1, <3>2, <3>3
  <2> QED BY <2>2, <2>3 DEF PaidUp
<1> QED BY <1>5, <1>9, <1>10, <1>14, <1>15, <1>16, <1>17 DEF RefSound

\* What the step owes to the invariant, when job p becomes q, the book n and
\* the grants e.
LadderMove(st, jb, cs, l, g, m, f, p, q, n, e, h) ==
  /\ g \subseteq e /\ jb[p] \in SomeJob(st) /\ jb[p].pc \in {"count", "tier", "tiercredit"}
  /\ q # Idler => /\ q.pc \in {"tier", "tiercredit"} \/ (q.pc = "tail" /\ p \in st.invitees)
                  /\ q.invitee = jb[p].invitee /\ q.fraud = jb[p].fraud /\ q.matched = jb[p].matched
                  /\ q.inviterBonus = jb[p].inviterBonus /\ q.paid = jb[p].paid
  /\ q = Idler => p \in Handlers
  /\ \A x \in st.invitees : SameBooks(l, n, x)
  /\ LadderSound(st, q, e, cs, n, m)
  /\ \A u \in Parties : \A k \in DOMAIN st.tiers : GrantSound(st, u, k, e, cs, n, m)
  /\ \A u \in Parties : \A k \in DOMAIN st.tiers :
       TierRowsOf(n, u, k) = TierRowsOf(l, u, k)
         \/ (jb[p].pc = "tiercredit" /\ u = Climber(st, jb[p]) /\ k = Least(jb[p].tiers))
  /\ q.pc = "tiercredit" => \A s \in Work(st) \ {p} :
       ~(jb[s].pc = "tiercredit" /\ Climber(st, jb[s]) = Climber(st, q) /\ Least(jb[s].tiers) = Least(q.tiers))
  /\ h = 0 => f = 0
  /\ h = 0 => (jb[p].pc = "tiercredit" =>
                  TierRowsOf(n, Climber(st, jb[p]), Least(jb[p].tiers)) # {})
  /\ h = 0 => \A x \in e \ g : q.pc = "tiercredit" /\ x[1] = Climber(st, q) /\ x[2] = Least(q.tiers)

\* A step of job p on its way through the tiers.
LEMMA LadderMoves ==
  ASSUME NEW st, R(st)!ReferralAssumption, NEW jb, NEW cs, NEW l, NEW g, NEW m, NEW f \in Nat,
         RefShape(st, jb, cs, l, g, m), RefSound(st, jb, cs, l, g, m, f),
         NEW p \in Work(st), NEW q \in {Idler} \cup SomeJob(st), NEW n, NEW h \in Nat, NEW jd, NEW e,
         jd = [jb EXCEPT ![p] = q], LadderMove(st, jb, cs, l, g, m, f, p, q, n, e, h)
  PROVE  RefSound(st, jd, cs, n, e, m, h)
<1>0. /\ g \subseteq e /\ jb[p] \in SomeJob(st) /\ jb[p].pc \in {"count", "tier", "tiercredit"}
      /\ q # Idler => /\ q.pc \in {"tier", "tiercredit"} \/ (q.pc = "tail" /\ p \in st.invitees)
                      /\ q.invitee = jb[p].invitee /\ q.fraud = jb[p].fraud /\ q.matched = jb[p].matched
                      /\ q.inviterBonus = jb[p].inviterBonus /\ q.paid = jb[p].paid
      /\ q = Idler => p \in Handlers
      /\ \A x \in st.invitees : SameBooks(l, n, x)
      /\ LadderSound(st, q, e, cs, n, m)
      /\ \A u \in Parties : \A k \in DOMAIN st.tiers : GrantSound(st, u, k, e, cs, n, m)
      /\ \A u \in Parties : \A k \in DOMAIN st.tiers :
           TierRowsOf(n, u, k) = TierRowsOf(l, u, k)
             \/ (jb[p].pc = "tiercredit" /\ u = Climber(st, jb[p]) /\ k = Least(jb[p].tiers))
      /\ q.pc = "tiercredit" => \A s \in Work(st) \ {p} :
           ~(jb[s].pc = "tiercredit" /\ Climber(st, jb[s]) = Climber(st, q) /\ Least(jb[s].tiers) = Least(q.tiers))
      /\ h = 0 => f = 0
      /\ h = 0 => (jb[p].pc = "tiercredit" =>
                      TierRowsOf(n, Climber(st, jb[p]), Least(jb[p].tiers)) # {})
      /\ h = 0 => \A x \in e \ g : q.pc = "tiercredit" /\ x[1] = Climber(st, q) /\ x[2] = Least(q.tiers)
  BY DEF LadderMove
<1> USE <1>0
<1>1. /\ Signups(st, jb, cs, l, m) /\ Releases(jb, cs, l, m) /\ OnePayer(jb)
      /\ Ladders(st, jb, g, cs, l, m) /\ OnePayerOfTier(st, jb)
      /\ f = 0 => PaidUp(st, jb, cs, g, l)
  BY DEF RefSound
<1>2. /\ jd[p] = q /\ \A s \in Work(st) \ {p} : jd[s] = jb[s]
      /\ Handlers \subseteq Work(st) /\ st.invitees \subseteq Work(st)
  BY DEF RefShape, Work
<1>3. ASSUME NEW x \in st.invitees
      PROVE  SignupSound(jd[x], cs[x], n, x, m) /\ ConversionSound(cs[x], n, x, m)
  <2>1. SignupSound(jb[x], cs[x], l, x, m) /\ ConversionSound(cs[x], l, x, m) BY <1>1 DEF Signups
  <2>2. SameBooks(l, n, x) OBVIOUS
  <2>3. ConversionSound(cs[x], n, x, m) BY <2>1, <2>2 DEF ConversionSound, SameBooks
  <2>4. SignupSound(jb[x], cs[x], n, x, m) BY <2>1, <2>2 DEF SignupSound, SameBooks
  <2>5. CASE x = p
    <3>1. q # Idler BY <2>5, ReferralConstants
    <3>2. SignupSound(q, cs[x], n, x, m)
      BY <2>4, <2>5, <3>1 DEF SignupSound, EarlyPcs, PayingPcs
    <3> QED BY <1>2, <2>3, <2>5, <3>2
  <2>6. CASE x # p BY <1>2, <2>3, <2>4, <2>6
  <2> QED BY <2>5, <2>6
<1>4. Signups(st, jd, cs, n, m) BY <1>3 DEF Signups
<1>5. Releases(jd, cs, n, m)
  <2>1. ASSUME NEW r \in Handlers, jd[r] # Idler
        PROVE  ReleaseSound(jd[r], jd[jd[r].invitee].pc, cs[jd[r].invitee], n, m)
    <3> DEFINE x == jb[r].invitee
    <3>1. jb[r] # Idler /\ jd[r].invitee = jb[r].invitee /\ jd[r].inviterBonus = jb[r].inviterBonus
      <4>1. CASE r = p BY <1>2, <2>1, <4>1 DEF Idler
      <4>2. CASE r # p BY <1>2, <2>1, <4>2
      <4> QED BY <4>1, <4>2
    <3>2. jb[r] \in SomeJob(st) BY <1>2, <3>1 DEF RefShape
    <3>3. x \in st.invitees BY <3>2 DEF SomeJob
    <3>4. ReleaseSound(jb[r], jb[x].pc, cs[x], l, m) BY <1>1, <3>1 DEF Releases
    <3>5. x # p BY <3>4 DEF ReleaseSound
    <3>6. jd[x] = jb[x] /\ SameBooks(l, n, x) BY <1>2, <3>3, <3>5
    <3> HIDE DEF x
    <3>7. ReleaseSound(jb[r], jb[x].pc, cs[x], n, m)
      BY <3>4, <3>6 DEF ReleaseSound, SameBooks, x
    <3>8. CASE r # p
      <4>1. jd[r] = jb[r] BY <1>2, <3>8
      <4> QED BY <3>6, <3>7, <4>1 DEF x
    <3>9. CASE r = p
      <4>1. jd[r] = q /\ q.pc \in {"tier", "tiercredit"}
        BY <1>2, <2>1, <3>9, ReferralConstants
      <4>2. ReleaseSound(q, jb[x].pc, cs[x], n, m)
        BY <3>7, <3>9, <4>1 DEF ReleaseSound, ReleasePcs
      <4> QED BY <3>1, <3>6, <4>1, <4>2 DEF x
    <3> QED BY <3>8, <3>9
  <2> QED BY <2>1 DEF Releases
<1>6. q.pc # "pay" /\ jb[p].pc # "pay" BY DEF Idler
<1>7. OnePayer(jd) BY <1>1, <1>2, <1>6 DEF OnePayer
<1>8. ASSUME NEW s \in Work(st), jb[s].pc \in {"tier", "tiercredit"}
      PROVE  /\ jb[s].tiers \subseteq DOMAIN st.tiers /\ Climber(st, jb[s]) \in Parties
             /\ LadderSound(st, jb[s], g, cs, l, m)
  <2>1. jb[s] \in SomeJob(st) BY <1>8 DEF RefShape, Idler
  <2>2. jb[s].tiers \subseteq DOMAIN st.tiers /\ jb[s].invitee \in st.invitees
    BY <2>1 DEF SomeJob
  <2> QED BY <1>1, <2>2, ReferralConstants DEF Climber, Ladders
<1>9. \A x \in st.invitees : Spends(n, x) \in Int /\ Spends(l, x) \in Int /\ Spends(n, x) >= Spends(l, x)
  <2>1. \A x \in st.invitees : Spends(l, x) \in Nat BY <1>1 DEF Signups, ConversionSound
  <2>2. \A x \in st.invitees : Spends(n, x) = Spends(l, x) BY DEF SameBooks
  <2> QED BY <2>1, <2>2
<1>10. m.minSpend \in Nat BY DEF RefShape
<1>11. ASSUME NEW u, NEW k \in DOMAIN st.tiers, Climbed(st, k, u, cs, l, m)
       PROVE  Climbed(st, k, u, cs, n, m)
  BY <1>9, <1>10, <1>11, ClimbedStays
<1>12. Ladders(st, jd, e, cs, n, m)
  <2>1. ASSUME NEW s \in Work(st), s # p, jb[s].pc \in {"tier", "tiercredit"}
        PROVE  LadderSound(st, jb[s], e, cs, n, m)
    <3> DEFINE u == Climber(st, jb[s])
               k == Least(jb[s].tiers)
    <3>1. jb[s].tiers \subseteq DOMAIN st.tiers /\ u \in Parties /\ LadderSound(st, jb[s], g, cs, l, m)
      BY <1>8, <2>1
    <3>2. \A t \in jb[s].tiers : Climbed(st, t, u, cs, n, m)
      BY <1>11, <2>1, <3>1 DEF LadderSound
    <3>3. ASSUME jb[s].pc = "tiercredit"
          PROVE  jb[s].tiers # {} /\ <<u, k>> \in e /\ TierRowsOf(n, u, k) = {}
      <4>1. jb[s].tiers # {} /\ <<u, k>> \in g /\ TierRowsOf(l, u, k) = {}
        BY <3>1, <3>3 DEF LadderSound
      <4>2. k \in DOMAIN st.tiers BY <4>1 DEF RefShape
      <4>3. ~(jb[p].pc = "tiercredit" /\ u = Climber(st, jb[p]) /\ k = Least(jb[p].tiers))
        BY <1>1, <2>1, <3>3 DEF OnePayerOfTier
      <4> QED BY <3>1, <4>1, <4>2, <4>3
    <3> QED BY <3>2, <3>3 DEF LadderSound
  <2>2. \A s \in Work(st) : jd[s].pc \notin {"tier", "tiercredit"} => LadderSound(st, jd[s], e, cs, n, m)
    BY DEF LadderSound
  <2> QED BY <1>2, <2>1, <2>2 DEF Ladders
<1>13. OnePayerOfTier(st, jd)
  <2>1. \A s, t \in Work(st) \ {p} : jd[s] = jb[s] /\ jd[t] = jb[t] BY <1>2
  <2> QED BY <1>1, <1>2, <2>1 DEF OnePayerOfTier
<1>14. GrantsSound(st, e, cs, n, m) BY DEF GrantsSound
<1>15. ASSUME h = 0 PROVE PaidUp(st, jd, cs, e, n)
  <2>1. PaidUp(st, jb, cs, g, l) BY <1>1, <1>15
  <2>2. ASSUME NEW x \in st.invitees PROVE SignupPaid(x, jd[x], cs[x], n, Releasing(jd, x))
    <3>1. SignupPaid(x, jb[x], cs[x], l, Releasing(jb, x)) BY <2>1 DEF PaidUp
    <3>2. SameBooks(l, n, x) OBVIOUS
    <3>3. Releasing(jb, x) => Releasing(jd, x) BY <1>2, <1>6 DEF Releasing
    <3>4. jb[x].pc \in {"invitee", "inviter"} => jd[x] = jb[x] BY <1>2
    <3> QED BY <3>1, <3>2, <3>3, <3>4 DEF SignupPaid, SameBooks
  <2>3. ASSUME NEW x \in e
        PROVE  TierRowsOf(n, x[1], x[2]) # {} \/ PayingTier(st, jd, x[1], x[2])
    <3>1. CASE x \notin g
      <4>1. q.pc = "tiercredit" /\ x[1] = Climber(st, q) /\ x[2] = Least(q.tiers) BY <1>15, <3>1
      <4> QED BY <1>2, <4>1 DEF PayingTier
    <3>2. CASE x \in g
      <4>1. x[1] \in Parties /\ x[2] \in DOMAIN st.tiers BY <3>2 DEF RefShape
      <4>2. TierRowsOf(l, x[1], x[2]) # {} \/ PayingTier(st, jb, x[1], x[2])
        BY <2>1, <3>2 DEF PaidUp
      <4>3. CASE jb[p].pc = "tiercredit" /\ x[1] = Climber(st, jb[p]) /\ x[2] = Least(jb[p].tiers)
        BY <1>15, <4>3
      <4>4. CASE ~(jb[p].pc = "tiercredit" /\ x[1] = Climber(st, jb[p]) /\ x[2] = Least(jb[p].tiers))
        <5>1. TierRowsOf(n, x[1], x[2]) = TierRowsOf(l, x[1], x[2]) BY <4>1, <4>4
        <5>2. ASSUME PayingTier(st, jb, x[1], x[2]) PROVE PayingTier(st, jd, x[1], x[2])
          BY <1>2, <4>4, <5>2 DEF PayingTier
        <5> QED BY <4>2, <5>1, <5>2
      <4> QED BY <4>3, <4>4
    <3> QED BY <3>1, <3>2
  <2> QED BY <2>2, <2>3 DEF PaidUp
<1> QED BY <1>4, <1>5, <1>7, <1>12, <1>13, <1>14, <1>15 DEF RefSound

\* Book n is book l and one more row, r; where that row is.
OneMoreRow(st, l, n, r) == l \in Seq(BookRow(st)) /\ r \in BookRow(st) /\ n = Append(l, r)
Newest(l) == Len(l) + 1

\* What a row says: a bonus or a charge of invitee i leaves the others' rows
\* and the tiers' as they were; a bonus changes nobody's spending.
LEMMA RowAboutInvitee ==
  ASSUME NEW st, NEW l, NEW n, NEW r, OneMoreRow(st, l, n, r), NEW w, NEW i, r.ref = <<w, i>>,
         w # "ref_tier", r.kind = "adjust" \/ r.user = i
  PROVE  /\ \A x : x # i => SameBooks(l, n, x)
         /\ \A u, k : TierRowsOf(n, u, k) = TierRowsOf(l, u, k)
         /\ r.kind = "adjust" => \A x : Spends(n, x) = Spends(l, x)
<1>1. Grown(l, n, r) BY BookAppends DEF OneMoreRow
<1>0. ASSUME NEW ref, NEW k \in RowsOf(l, ref) PROVE n[k] = l[k]
  <2>1. \A x \in RowsOf(l, ref) : x \in RowsOf(n, ref) /\ n[x] = l[x]
    BY ONLY <1>1, RowsGrow, ZenonT(60)
  <2> QED BY <2>1
<1>2. ASSUME NEW x, x # i PROVE SameBooks(l, n, x)
  <2>1. ASSUME NEW what PROVE RowsOf(n, <<what, x>>) = RowsOf(l, <<what, x>>)
    <3>1. r.ref # <<what, x>> BY <1>2
    <3> QED BY <1>1, <3>1, RowsGrow DEF Newest
  <2>2. \A k \in RowsOf(l, <<"ref_invitee", x>>) \cup InviterRows(l, x) : n[k].amount = l[k].amount
    BY <1>0 DEF InviterRows
  <2>3. ~(r.user = x /\ r.kind = "charge") BY <1>2
  <2>4. Spends(n, x) = Spends(l, x) BY <2>3, SpendsGrow DEF OneMoreRow
  <2> QED BY <2>1, <2>2, <2>4 DEF SameBooks, WelcomeRows, InviterRows
<1>3. ASSUME NEW u, NEW k PROVE TierRowsOf(n, u, k) = TierRowsOf(l, u, k)
  <2>1. r.ref # <<"ref_tier", k>> OBVIOUS
  <2>2. RowsOf(n, <<"ref_tier", k>>) = RowsOf(l, <<"ref_tier", k>>) BY <1>1, <2>1, RowsGrow DEF Newest
  <2>3. \A x \in RowsOf(l, <<"ref_tier", k>>) : n[x] = l[x] BY <1>0
  <2> QED BY <2>2, <2>3 DEF TierRowsOf
<1>4. ASSUME r.kind = "adjust", NEW x PROVE Spends(n, x) = Spends(l, x)
  <2>1. ~(r.user = x /\ r.kind = "charge") BY <1>4
  <2> QED BY <2>1, SpendsGrow DEF OneMoreRow
<1> QED BY <1>2, <1>3, <1>4

LEMMA RowAboutTier ==
  ASSUME NEW st, NEW l, NEW n, NEW r, OneMoreRow(st, l, n, r), NEW t, r.ref = <<"ref_tier", t>>,
         r.kind = "adjust"
  PROVE  /\ \A x : SameBooks(l, n, x)
         /\ \A u, k : TierRowsOf(n, u, k) = TierRowsOf(l, u, k) \/ (u = r.user /\ k = t)
         /\ TierRowsOf(n, r.user, t) = TierRowsOf(l, r.user, t) \cup {Newest(l)}
<1>1. Grown(l, n, r) BY BookAppends DEF OneMoreRow
<1>0. ASSUME NEW ref, NEW k \in RowsOf(l, ref) PROVE n[k] = l[k]
  <2>1. \A x \in RowsOf(l, ref) : x \in RowsOf(n, ref) /\ n[x] = l[x]
    BY ONLY <1>1, RowsGrow, ZenonT(60)
  <2> QED BY <2>1
<1>2. ASSUME NEW x PROVE SameBooks(l, n, x)
  <2>1. ASSUME NEW what, what # "ref_tier" PROVE RowsOf(n, <<what, x>>) = RowsOf(l, <<what, x>>)
    <3>1. r.ref # <<what, x>> BY <2>1
    <3> QED BY <1>1, <3>1, RowsGrow DEF Newest
  <2>2. \A k \in RowsOf(l, <<"ref_invitee", x>>) \cup InviterRows(l, x) : n[k].amount = l[k].amount
    BY <1>0 DEF InviterRows
  <2>3. ~(r.user = x /\ r.kind = "charge") OBVIOUS
  <2>4. Spends(n, x) = Spends(l, x) BY <2>3, SpendsGrow DEF OneMoreRow
  <2>5. /\ RowsOf(n, <<"ref_invitee", x>>) = RowsOf(l, <<"ref_invitee", x>>)
        /\ RowsOf(n, <<"ref_inviter", x>>) = RowsOf(l, <<"ref_inviter", x>>)
        /\ RowsOf(n, <<"trial", x>>) = RowsOf(l, <<"trial", x>>)
    BY <2>1
  <2> QED BY <2>2, <2>4, <2>5 DEF SameBooks, WelcomeRows, InviterRows
<1>3. ASSUME NEW u, NEW k, ~(u = r.user /\ k = t) PROVE TierRowsOf(n, u, k) = TierRowsOf(l, u, k)
  <2>1. \A x \in RowsOf(l, <<"ref_tier", k>>) : n[x] = l[x] BY <1>0
  <2>2. CASE k # t
    <3>1. r.ref # <<"ref_tier", k>> BY <2>2
    <3>2. RowsOf(n, <<"ref_tier", k>>) = RowsOf(l, <<"ref_tier", k>>) BY <1>1, <3>1, RowsGrow DEF Newest
    <3> QED BY <2>1, <3>2 DEF TierRowsOf
  <2>3. CASE k = t
    <3>1. RowsOf(n, <<"ref_tier", k>>) = RowsOf(l, <<"ref_tier", k>>) \cup {Newest(l)}
      BY <1>1, <2>3, RowsGrow DEF Newest
    <3>2. n[Newest(l)].user # u BY <1>1, <1>3, <2>3, RowsGrow DEF Newest
    <3> QED BY <2>1, <3>1, <3>2 DEF TierRowsOf
  <2> QED BY <2>2, <2>3
<1>4. TierRowsOf(n, r.user, t) = TierRowsOf(l, r.user, t) \cup {Newest(l)}
  <2>1. RowsOf(n, <<"ref_tier", t>>) = RowsOf(l, <<"ref_tier", t>>) \cup {Newest(l)}
    BY <1>1, RowsGrow DEF Newest
  <2>2. \A x \in RowsOf(l, <<"ref_tier", t>>) : n[x] = l[x] BY <1>0
  <2>3. n[Newest(l)].user = r.user BY <1>1, RowsGrow DEF Newest
  <2> QED BY <2>1, <2>2, <2>3 DEF TierRowsOf
<1> QED BY <1>2, <1>3, <1>4

\* Row k of book n is new, says r, and is for purpose w of invitee i.
Adds(l, n, k, r, w, i) ==
  /\ n[k] = r
  /\ \A x \in RowsOf(l, <<"ref_invitee", i>>) \cup InviterRows(l, i) : n[x] = l[x]
  /\ w = "ref_invitee" =>
         /\ RowsOf(n, <<"ref_invitee", i>>) = RowsOf(l, <<"ref_invitee", i>>) \cup {k}
         /\ WelcomeRows(n, i) = WelcomeRows(l, i) \cup {k}
  /\ w # "ref_invitee" => RowsOf(n, <<"ref_invitee", i>>) = RowsOf(l, <<"ref_invitee", i>>)
  /\ w = "trial" => WelcomeRows(n, i) = WelcomeRows(l, i) \cup {k}
  /\ w \notin {"trial", "ref_invitee"} => WelcomeRows(n, i) = WelcomeRows(l, i)
  /\ w = "ref_inviter" => InviterRows(n, i) = InviterRows(l, i) \cup {k}
  /\ w # "ref_inviter" => InviterRows(n, i) = InviterRows(l, i)

\* The rows of invitee i itself.
LEMMA RowOfInvitee ==
  ASSUME NEW st, NEW l, NEW n, NEW r, OneMoreRow(st, l, n, r), NEW w, NEW i, r.ref = <<w, i>>
  PROVE  Adds(l, n, Newest(l), r, w, i)
<1>1. Grown(l, n, r) BY BookAppends DEF OneMoreRow
<1>0. ASSUME NEW ref, NEW y \in RowsOf(l, ref) PROVE n[y] = l[y]
  <2>1. \A x \in RowsOf(l, ref) : x \in RowsOf(n, ref) /\ n[x] = l[x]
    BY ONLY <1>1, RowsGrow, ZenonT(60)
  <2> QED BY <2>1
<1>2. ASSUME NEW what
      PROVE  /\ w = what => RowsOf(n, <<what, i>>) = RowsOf(l, <<what, i>>) \cup {Newest(l)}
             /\ w # what => RowsOf(n, <<what, i>>) = RowsOf(l, <<what, i>>)
             /\ \A x \in RowsOf(l, <<what, i>>) : n[x] = l[x]
  <2>1. w = what => r.ref = <<what, i>> OBVIOUS
  <2>2. w # what => r.ref # <<what, i>> OBVIOUS
  <2>3. w = what => RowsOf(n, <<what, i>>) = RowsOf(l, <<what, i>>) \cup {Newest(l)}
    BY <1>1, <2>1, RowsGrow DEF Newest
  <2>4. w # what => RowsOf(n, <<what, i>>) = RowsOf(l, <<what, i>>) BY <1>1, <2>2, RowsGrow DEF Newest
  <2> QED BY <1>0, <2>3, <2>4
<1>3. n[Newest(l)] = r BY <1>1, RowsGrow DEF Newest
<1>4. ASSUME NEW what
      PROVE  RowsOf(n, <<what, i>>) = IF w = what THEN RowsOf(l, <<what, i>>) \cup {Newest(l)}
                                                  ELSE RowsOf(l, <<what, i>>)
  BY <1>2
<1>5. \A x \in RowsOf(l, <<"ref_invitee", i>>) \cup InviterRows(l, i) : n[x] = l[x]
  BY <1>2 DEF InviterRows
<1> QED BY <1>3, <1>4, <1>5 DEF WelcomeRows, InviterRows, Adds

\* What a posting does to the wallets: one row.
LEMMA BookPosts ==
  ASSUME NEW st, R(st)!ReferralAssumption, book \in Seq(BookRow(st)), purse \in [Purses -> Int],
         NEW u \in Parties, NEW kind \in {"adjust", "charge"}, NEW amount \in Int,
         NEW ref \in (R(st)!BonusRefs \cup {"trial", "spend"}) \X (st.invitees \cup Nat),
         R(st)!AddBalanceTx(u, kind, amount, ref, TRUE)
  PROVE  \E r \in BookRow(st) :
           /\ r.user = u /\ r.kind = kind /\ r.amount = amount /\ r.ref = ref
           /\ book' = Append(book, r) /\ book' \in Seq(BookRow(st)) /\ purse' \in [Purses -> Int]
<1> DEFINE r == [ws |-> HomeOf[u], user |-> u, kind |-> kind, amount |-> amount, ref |-> ref, key |-> NoKey]
<1>1. HomeOf[u] \in Purses BY ReferralConstants
<1>2. r \in BookRow(st) BY <1>1 DEF BookRow
<1>3. book' = Append(book, r) /\ purse' = [purse EXCEPT ![r.ws] = @ + r.amount]
  BY DEF R!AddBalanceTx, R!addWorkspaceBalanceTx, R!Post, R!Row
<1>4. r.user = u /\ r.kind = kind /\ r.amount = amount /\ r.ref = ref /\ r.ws \in Purses
  BY <1>1
<1> HIDE DEF r
<1>5. purse' \in [Purses -> Int] BY <1>3, <1>4
<1>6. book' \in Seq(BookRow(st)) BY <1>2, <1>3, BookAppends
<1> QED BY <1>2, <1>3, <1>4, <1>5, <1>6

\* A job that moves leaves the shape as it was.
LEMMA JobShape ==
  ASSUME NEW st, NEW jb, NEW cs, NEW l, NEW g, NEW m, RefShape(st, jb, cs, l, g, m),
         NEW p \in Work(st), NEW q \in {Idler} \cup SomeJob(st), p \in st.invitees => q \in SomeJob(st),
         NEW ds \in [st.invitees -> {NoConversion} \cup Conversion], NEW n \in Seq(BookRow(st)),
         NEW e, e \subseteq Parties \X DOMAIN st.tiers
  PROVE  RefShape(st, [jb EXCEPT ![p] = q], ds, n, e, m)
BY DEF RefShape

LEMMA SameBookIsSame ==
  ASSUME NEW l, NEW i PROVE SameBooks(l, l, i)
BY DEF SameBooks

LEMMA RegistrationStep ==
  ASSUME NEW st, R(st)!ReferralAssumption, ReferralInv(st), NEW i \in st.invitees,
         NEW j \in SomeJob(st), NEW c \in {NoConversion} \cup Conversion,
         job' = [job EXCEPT ![i] = j], conv' = [conv EXCEPT ![i] = c],
         UNCHANGED <<campaign, granted, now, midnight>>,
         book' \in Seq(BookRow(st)), purse' \in [Purses -> Int], invites' \in [Parties -> Nat],
         job[i].pc \notin {"done", "tiercredit"}, j.pc \notin {"tier", "tiercredit"},
         SignupSound(j, c, book', i, campaign), ConversionSound(c, book', i, campaign),
         conv[i].recorded => c.recorded /\ c.inviterBonus = conv[i].inviterBonus,
         \A x \in st.invitees \ {i} : SameBooks(book, book', x), Spends(book', i) = Spends(book, i),
         \A u \in Parties : \A k \in DOMAIN st.tiers : TierRowsOf(book', u, k) = TierRowsOf(book, u, k),
         faults' \in Nat, faults' = 0 => faults = 0 /\ SignupPaid(i, j, c, book', FALSE)
  PROVE  ReferralInv(st)'
<1> DEFINE jd == job'
           ds == conv'
           n == book'
           h == faults'
<1>1. /\ RefShape(st, job, conv, book, granted, campaign)
      /\ RefSound(st, job, conv, book, granted, campaign, faults)
      /\ now \in Nat /\ midnight \in Nat /\ faults \in Nat
  BY DEF ReferralInv
<1>2. ds \in [st.invitees -> {NoConversion} \cup Conversion] BY <1>1 DEF RefShape
<1>3. granted \subseteq Parties \X DOMAIN st.tiers /\ i \in Work(st) BY <1>1 DEF RefShape, Work
<1>4. RefShape(st, jd, ds, n, granted, campaign) BY <1>1, <1>2, <1>3, JobShape
<1>5. h = 0 => faults = 0 /\ SignupPaid(i, j, c, n, FALSE) OBVIOUS
<1>6. h \in Nat /\ jd = [job EXCEPT ![i] = j] /\ ds = [conv EXCEPT ![i] = c] OBVIOUS
<1>7. /\ SignupSound(j, c, n, i, campaign) /\ ConversionSound(c, n, i, campaign)
      /\ \A x \in st.invitees \ {i} : SameBooks(book, n, x)
      /\ Spends(n, i) = Spends(book, i)
      /\ \A u \in Parties : \A k \in DOMAIN st.tiers : TierRowsOf(n, u, k) = TierRowsOf(book, u, k)
  OBVIOUS
<1>8. RefSound(st, jd, ds, n, granted, campaign, h)
  <2> HIDE DEF jd, ds, n, h
  <2> QED BY <1>1, <1>5, <1>6, <1>7, RegistrationMoves
<1> QED BY <1>1, <1>4, <1>8 DEF ReferralInv

\* What an invitee's registration and conversion are known to be.
LEMMA RegistrationFacts ==
  ASSUME NEW st, R(st)!ReferralAssumption, ReferralInv(st), NEW i \in st.invitees
  PROVE  /\ job[i] \in SomeJob(st) /\ conv[i] \in {NoConversion} \cup Conversion
         /\ job \in [Work(st) -> {Idler} \cup SomeJob(st)] /\ i \in Work(st)
         /\ conv = [conv EXCEPT ![i] = conv[i]]
         /\ SignupSound(job[i], conv[i], book, i, campaign)
         /\ ConversionSound(conv[i], book, i, campaign)
         /\ faults = 0 => SignupPaid(i, job[i], conv[i], book, Releasing(job, i))
         /\ book \in Seq(BookRow(st)) /\ purse \in [Purses -> Int] /\ invites \in [Parties -> Nat]
         /\ now \in Nat /\ faults \in Nat
<1>1. /\ RefShape(st, job, conv, book, granted, campaign)
      /\ RefSound(st, job, conv, book, granted, campaign, faults)
  BY DEF ReferralInv
<1>2. /\ Signups(st, job, conv, book, campaign)
      /\ faults = 0 => PaidUp(st, job, conv, granted, book)
  BY <1>1 DEF RefSound
<1>3. /\ SignupSound(job[i], conv[i], book, i, campaign)
      /\ ConversionSound(conv[i], book, i, campaign)
      /\ faults = 0 => SignupPaid(i, job[i], conv[i], book, Releasing(job, i))
  BY <1>2 DEF Signups, PaidUp
<1>4. /\ job[i] \in SomeJob(st) /\ conv[i] \in {NoConversion} \cup Conversion
      /\ job \in [Work(st) -> {Idler} \cup SomeJob(st)] /\ i \in Work(st)
      /\ conv = [conv EXCEPT ![i] = conv[i]]
      /\ book \in Seq(BookRow(st))
  BY <1>1 DEF RefShape, Work
<1> QED BY <1>3, <1>4 DEF ReferralInv

\* A registration of which no releaser is there, and that moves without a word.
LEMMA QuietRegistration ==
  ASSUME NEW st, R(st)!ReferralAssumption, ReferralInv(st), NEW i \in st.invitees,
         NEW j \in SomeJob(st), job' = [job EXCEPT ![i] = j],
         UNCHANGED <<purse, book, campaign, conv, granted, now, midnight>>,
         invites' \in [Parties -> Nat],
         job[i].pc \notin {"done", "tiercredit"}, j.pc \notin {"tier", "tiercredit"},
         SignupSound(j, conv[i], book, i, campaign),
         faults' \in Nat, faults' = 0 => faults = 0 /\ SignupPaid(i, j, conv[i], book, FALSE)
  PROVE  ReferralInv(st)'
<1>1. /\ conv[i] \in {NoConversion} \cup Conversion /\ conv' = [conv EXCEPT ![i] = conv[i]]
      /\ ConversionSound(conv[i], book', i, campaign)
      /\ book' \in Seq(BookRow(st)) /\ purse' \in [Purses -> Int]
  BY RegistrationFacts
<1>2. /\ \A x \in st.invitees \ {i} : SameBooks(book, book', x)
      /\ Spends(book', i) = Spends(book, i)
      /\ \A u \in Parties : \A k \in DOMAIN st.tiers : TierRowsOf(book', u, k) = TierRowsOf(book, u, k)
  BY SameBookIsSame
<1>3. SignupSound(j, conv[i], book', i, campaign) OBVIOUS
<1>4. faults' = 0 => faults = 0 /\ SignupPaid(i, j, conv[i], book', FALSE) OBVIOUS
<1> QED BY <1>1, <1>2, <1>3, <1>4, RegistrationStep

\* Where a registration that is early or past its bonuses may go without a word.
LEMMA QuietSignup ==
  ASSUME NEW st, NEW i \in st.invitees, NEW j \in SomeJob(st), NEW k \in SomeJob(st), NEW c,
         NEW l, NEW m, SignupSound(j, c, l, i, m),
         k.invitee = j.invitee, k.matched = j.matched
  PROVE  /\ (/\ j.pc \in EarlyPcs /\ k.pc \in EarlyPcs
             /\ (k.paid <=> ~(m.rewardOn = "first_spend" /\ k.inviterBonus > 0)))
              => SignupSound(k, c, l, i, m)
         /\ (/\ k.fraud = j.fraud /\ k.paid = j.paid /\ k.inviterBonus = j.inviterBonus
             /\ j.pc \in EarlyPcs \cup {"invitee"} /\ k.pc = "tail")
              => SignupSound(k, c, l, i, m)
<1> DEFINE none == WelcomeRows(l, i) = {}
           once == AtMostOne(WelcomeRows(l, i))
           late == m.rewardOn = "first_spend"
<1> HIDE DEF none, once, late
<1>1. /\ j.invitee = i
      /\ j.pc \in EarlyPcs => ~c.recorded /\ ~j.matched
      /\ j.paid <=> ~(late /\ j.inviterBonus > 0)
      /\ once
      /\ j.pc \in EarlyPcs \cup {"invitee"} => none
  BY DEF SignupSound, none, once, late
<1>2. ASSUME j.pc \in EarlyPcs, k.pc \in EarlyPcs, k.paid <=> ~(late /\ k.inviterBonus > 0)
      PROVE  SignupSound(k, c, l, i, m)
  <2>1. /\ k.invitee = i /\ ~c.recorded /\ ~k.matched /\ once /\ none
        /\ k.pc \notin PayingPcs \cup {"invitee", "inviter", "tail", "done"}
    BY <1>1, <1>2 DEF EarlyPcs, PayingPcs
  <2> QED BY <1>2, <2>1 DEF SignupSound, none, once, late
<1>3. ASSUME k.fraud = j.fraud, k.paid = j.paid, k.inviterBonus = j.inviterBonus,
             j.pc \in EarlyPcs \cup {"invitee"}, k.pc = "tail"
      PROVE  SignupSound(k, c, l, i, m)
  <2>1. /\ k.invitee = i /\ once /\ none /\ (k.paid <=> ~(late /\ k.inviterBonus > 0))
        /\ k.pc \notin EarlyPcs \cup PayingPcs \cup {"invitee", "inviter"}
    BY <1>1, <1>3 DEF EarlyPcs, PayingPcs
  <2> QED BY <1>3, <2>1 DEF SignupSound, none, once, late
<1> QED BY <1>2, <1>3, Zenon DEF late

LEMMA InviteGranted ==
  ASSUME NEW st, R(st)!ReferralAssumption, ReferralInv(st), NEW i \in st.invitees,
         R(st)!grantInvite(i) \/ R(st)!CheckBudget(i) \/ R(st)!PriceConversion(i)
  PROVE  ReferralInv(st)'
<1>1. /\ job[i] \in SomeJob(st) /\ job \in [Work(st) -> {Idler} \cup SomeJob(st)] /\ i \in Work(st)
      /\ SignupSound(job[i], conv[i], book, i, campaign)
      /\ invites \in [Parties -> Nat] /\ faults \in Nat
  BY RegistrationFacts
<1>2. campaign.inviteeBonus \in Nat /\ campaign.inviterBonus \in Nat
  BY DEF ReferralInv, RefShape
<1>3. UNCHANGED <<purse, book, campaign, conv, granted, invites, now, midnight, faults>>
  BY DEF R!grantInvite, R!CheckBudget, R!PriceConversion
<1>4. job[i].pc \in EarlyPcs
  BY DEF R!grantInvite, R!CheckBudget, R!PriceConversion, R!At, EarlyPcs
<1>5. \E j \in SomeJob(st) :
        /\ job' = [job EXCEPT ![i] = j] /\ j.pc \in EarlyPcs
        /\ j.invitee = job[i].invitee /\ j.matched = job[i].matched
        /\ j.paid <=> ~(campaign.rewardOn = "first_spend" /\ j.inviterBonus > 0)
  <2>0. job[i].paid <=> ~(campaign.rewardOn = "first_spend" /\ job[i].inviterBonus > 0)
    BY <1>1 DEF SignupSound
  <2>1. CASE R(st)!grantInvite(i)
    <3>1. PICK fraud \in BOOLEAN :
            job' = [job EXCEPT ![i].pc = IF campaign.status = "active" /\ ~fraud THEN "budget" ELSE "insert",
                               ![i].active = (campaign.status = "active"), ![i].fraud = fraud]
      BY <2>1 DEF R!grantInvite
    <3> DEFINE pc == IF campaign.status = "active" /\ ~fraud THEN "budget" ELSE "insert"
               active == campaign.status = "active"
               j == [job[i] EXCEPT !.pc = pc, !.active = active, !.fraud = fraud]
    <3>2. pc \in EarlyPcs /\ pc \in R(st)!JobPcs /\ active \in BOOLEAN BY DEF EarlyPcs, R!JobPcs
    <3> HIDE DEF pc, active
    <3>3. /\ j \in SomeJob(st) /\ j.pc = pc /\ j.invitee = job[i].invitee /\ j.matched = job[i].matched
          /\ j.paid = job[i].paid /\ j.inviterBonus = job[i].inviterBonus
      BY <1>1, <3>2 DEF SomeJob
    <3>4. job' = [job EXCEPT ![i] = j] BY <1>1, <3>1 DEF pc, active
    <3> QED BY <2>0, <3>2, <3>3, <3>4
  <2>2. CASE R(st)!CheckBudget(i)
    <3> DEFINE pc == IF R(st)!capTripped THEN "insert" ELSE "price"
               j == [job[i] EXCEPT !.pc = pc]
    <3>2. pc \in EarlyPcs /\ pc \in R(st)!JobPcs BY DEF EarlyPcs, R!JobPcs
    <3>1. job' = [job EXCEPT ![i].pc = pc] BY <2>2 DEF R!CheckBudget, R!Goto
    <3> HIDE DEF pc
    <3>3. /\ j \in SomeJob(st) /\ j.pc = pc /\ j.invitee = job[i].invitee /\ j.matched = job[i].matched
          /\ j.paid = job[i].paid /\ j.inviterBonus = job[i].inviterBonus
      BY <1>1, <3>2 DEF SomeJob
    <3>4. job' = [job EXCEPT ![i] = j] BY <1>1, <3>1
    <3> QED BY <2>0, <3>2, <3>3, <3>4
  <2>3. CASE R(st)!PriceConversion(i)
    <3> DEFINE bonus == IF R(st)!OverCaps(st.inviter[i]) THEN 0 ELSE campaign.inviterBonus
               paid == ~(campaign.rewardOn = "first_spend" /\ bonus > 0)
               j == [job[i] EXCEPT !.pc = "insert", !.inviteeBonus = campaign.inviteeBonus,
                                   !.inviterBonus = bonus, !.paid = paid]
    <3>1. job' = [job EXCEPT ![i].pc = "insert", ![i].inviteeBonus = campaign.inviteeBonus,
                             ![i].inviterBonus = bonus, ![i].paid = paid]
      BY <2>3 DEF R!PriceConversion, R!Deferred
    <3>2. bonus \in Nat BY <1>2
    <3>3. paid \in BOOLEAN /\ "insert" \in EarlyPcs /\ "insert" \in R(st)!JobPcs
      BY DEF EarlyPcs, R!JobPcs
    <3>4. paid <=> ~(campaign.rewardOn = "first_spend" /\ bonus > 0) OBVIOUS
    <3> HIDE DEF bonus, paid
    <3>5. /\ j \in SomeJob(st) /\ j.pc = "insert" /\ j.invitee = job[i].invitee /\ j.matched = job[i].matched
          /\ j.paid = paid /\ j.inviterBonus = bonus
      BY <1>1, <1>2, <3>2, <3>3 DEF SomeJob
    <3>6. job' = [job EXCEPT ![i] = j] BY <1>1, <3>1
    <3> QED BY <3>3, <3>4, <3>5, <3>6
  <2> QED BY <2>1, <2>2, <2>3
<1>6. PICK j \in SomeJob(st) :
        /\ job' = [job EXCEPT ![i] = j] /\ j.pc \in EarlyPcs
        /\ j.invitee = job[i].invitee /\ j.matched = job[i].matched
        /\ j.paid <=> ~(campaign.rewardOn = "first_spend" /\ j.inviterBonus > 0)
  BY <1>5
<1>7. SignupSound(j, conv[i], book, i, campaign) BY <1>1, <1>4, <1>6, QuietSignup
<1>8. ~conv[i].recorded BY <1>1, <1>4 DEF SignupSound
<1>9. SignupPaid(i, j, conv[i], book, FALSE) BY <1>8 DEF SignupPaid
<1>10. job[i].pc \notin {"done", "tiercredit"} /\ j.pc \notin {"tier", "tiercredit"}
  BY <1>4, <1>6 DEF EarlyPcs
<1>11. /\ invites' \in [Parties -> Nat] /\ faults' \in Nat
       /\ faults' = 0 => faults = 0 /\ SignupPaid(i, j, conv[i], book, FALSE)
       /\ UNCHANGED <<purse, book, campaign, conv, granted, now, midnight>>
  BY <1>1, <1>3, <1>9
<1> QED BY <1>6, <1>7, <1>10, <1>11, QuietRegistration

LEMMA ConversionInserted ==
  ASSUME NEW st, R(st)!ReferralAssumption, ReferralInv(st), NEW i \in st.invitees,
         R(st)!insertConversion(i)
  PROVE  ReferralInv(st)'
<1> DEFINE pc == IF job[i].fraud THEN "tail" ELSE "invitee"
           matched == ~job[i].fraud \/ job[i].active
           j == [job[i] EXCEPT !.pc = pc, !.matched = matched]
           c == [recorded |-> TRUE, inviteeBonus |-> job[i].inviteeBonus,
                 inviterBonus |-> job[i].inviterBonus, fraud |-> job[i].fraud,
                 paid |-> job[i].paid, at |-> now]
<1>1. /\ job[i] \in SomeJob(st) /\ job \in [Work(st) -> {Idler} \cup SomeJob(st)] /\ i \in Work(st)
      /\ SignupSound(job[i], conv[i], book, i, campaign)
      /\ ConversionSound(conv[i], book, i, campaign)
      /\ book \in Seq(BookRow(st)) /\ purse \in [Purses -> Int]
      /\ invites \in [Parties -> Nat] /\ now \in Nat /\ faults \in Nat
  BY RegistrationFacts
<1>2. /\ job[i].pc = "insert" /\ conv' = [conv EXCEPT ![i] = c]
      /\ job' = [job EXCEPT ![i].pc = pc, ![i].matched = matched]
      /\ UNCHANGED <<purse, book, campaign, granted, invites, now, midnight, faults>>
  BY DEF R!insertConversion, R!At
<1>3. /\ pc \in {"tail", "invitee"} /\ matched \in BOOLEAN /\ (pc = "tail" <=> job[i].fraud)
      /\ (~job[i].fraud => matched)
  BY <1>1 DEF SomeJob
<1> HIDE DEF pc, matched
<1>4. job' = [job EXCEPT ![i] = j] BY <1>1, <1>2
<1>5. /\ j \in SomeJob(st) /\ j.pc = pc /\ j.matched = matched /\ j.invitee = job[i].invitee
      /\ j.fraud = job[i].fraud /\ j.paid = job[i].paid /\ j.inviterBonus = job[i].inviterBonus
      /\ j.inviteeBonus = job[i].inviteeBonus
  BY <1>1, <1>3 DEF SomeJob, R!JobPcs
<1>6. /\ c \in Conversion /\ c.recorded /\ c.inviteeBonus = j.inviteeBonus
      /\ c.inviterBonus = j.inviterBonus /\ c.fraud = j.fraud /\ c.paid = j.paid
  BY <1>1, <1>5 DEF SomeJob, Conversion
<1> HIDE DEF j, c
<1>7. /\ ~conv[i].recorded /\ WelcomeRows(book, i) = {}
      /\ job[i].invitee = i
      /\ job[i].paid <=> ~(campaign.rewardOn = "first_spend" /\ job[i].inviterBonus > 0)
  BY <1>1, <1>2 DEF SignupSound, EarlyPcs
<1>8. InviterRows(book, i) = {} /\ RowsOf(book, <<"ref_invitee", i>>) = {}
  BY <1>1, <1>7 DEF ConversionSound
<1>9. SignupSound(j, c, book, i, campaign)
  BY <1>3, <1>5, <1>6, <1>7, <1>8 DEF SignupSound, EarlyPcs, PayingPcs, AtMostOne
<1>10. c.inviterBonus \in Nat BY <1>6 DEF Conversion
<1>11. Spends(book, i) \in Nat BY <1>1 DEF ConversionSound
<1>12. ConversionSound(c, book, i, campaign)
  BY <1>5, <1>6, <1>7, <1>8, <1>10, <1>11 DEF ConversionSound, AtMostOne
<1>13. SignupPaid(i, j, c, book, FALSE) BY <1>3, <1>5, <1>6 DEF SignupPaid
<1>14. job[i].pc \notin {"done", "tiercredit"} /\ j.pc \notin {"tier", "tiercredit"}
  BY <1>2, <1>3, <1>5
<1>15. /\ \A x \in st.invitees \ {i} : SameBooks(book, book', x)
       /\ Spends(book', i) = Spends(book, i)
       /\ \A u \in Parties : \A k \in DOMAIN st.tiers : TierRowsOf(book', u, k) = TierRowsOf(book, u, k)
  BY <1>2, SameBookIsSame
<1>16. /\ SignupSound(j, c, book', i, campaign) /\ ConversionSound(c, book', i, campaign)
       /\ book' \in Seq(BookRow(st)) /\ purse' \in [Purses -> Int] /\ invites' \in [Parties -> Nat]
       /\ UNCHANGED <<campaign, granted, now, midnight>> /\ faults' \in Nat
       /\ faults' = 0 => faults = 0 /\ SignupPaid(i, j, c, book', FALSE)
       /\ conv[i].recorded => c.recorded /\ c.inviterBonus = conv[i].inviterBonus
  BY <1>1, <1>2, <1>7, <1>9, <1>12, <1>13
<1> QED BY <1>2, <1>4, <1>5, <1>6, <1>14, <1>15, <1>16, RegistrationStep

\* Whether the row is written or not, job j and conversion c stay sound.
CreditSound(l, c, m, f, i, j, w, amount, cond) ==
  \A n, k, r : (/\ ~cond => n = l
                /\ cond => Adds(l, n, k, r, w, i) /\ r.amount = amount
                /\ Spends(n, i) = Spends(l, i))
               => /\ SignupSound(j, c, n, i, m) /\ ConversionSound(c, n, i, m)
                  /\ f = 0 => SignupPaid(i, j, c, n, FALSE)

\* A credit of the registration of i: at most one row, about i.
LEMMA SignupCredits ==
  ASSUME NEW st, R(st)!ReferralAssumption, ReferralInv(st), NEW i \in st.invitees,
         NEW w \in {"ref_invitee", "ref_inviter", "trial"}, NEW u \in Parties, NEW amount \in Nat,
         NEW cond \in BOOLEAN, NEW pc \in R(st)!JobPcs, NEW j, j = [job[i] EXCEPT !.pc = pc],
         R(st)!CreditIf(cond, u, amount, <<w, i>>), R(st)!Goto(i, pc),
         UNCHANGED <<campaign, conv, granted, invites, now, midnight>>,
         faults' = faults, job[i].pc \notin {"done", "tiercredit"}, pc \notin {"tier", "tiercredit"},
         CreditSound(book, conv[i], campaign, faults, i, j, w, amount, cond)
  PROVE  ReferralInv(st)'
<1>1. /\ job[i] \in SomeJob(st) /\ job \in [Work(st) -> {Idler} \cup SomeJob(st)] /\ i \in Work(st)
      /\ conv[i] \in {NoConversion} \cup Conversion /\ conv = [conv EXCEPT ![i] = conv[i]]
      /\ book \in Seq(BookRow(st)) /\ purse \in [Purses -> Int]
      /\ invites \in [Parties -> Nat] /\ faults \in Nat
  BY RegistrationFacts
<1>2. j \in SomeJob(st) /\ j.pc = pc /\ job' = [job EXCEPT ![i] = j]
  BY <1>1 DEF SomeJob, R!Goto
<1>3. CASE ~cond
  <2>1. book' = book /\ purse' = purse BY <1>3 DEF R!CreditIf, R!walletVars
  <2>2. /\ SignupSound(j, conv[i], book, i, campaign)
        /\ faults = 0 => SignupPaid(i, j, conv[i], book, FALSE)
    BY <1>3 DEF CreditSound
  <2>3. /\ UNCHANGED <<purse, book, campaign, conv, granted, now, midnight>>
        /\ invites' \in [Parties -> Nat] /\ faults' \in Nat
        /\ faults' = 0 => faults = 0 /\ SignupPaid(i, j, conv[i], book, FALSE)
    BY <1>1, <2>1, <2>2
  <2> QED BY <1>2, <2>2, <2>3, QuietRegistration
<1>4. CASE cond
  <2>1. R(st)!AddBalanceTx(u, "adjust", amount, <<w, i>>, TRUE)
    BY <1>4 DEF R!CreditIf, R!Credit
  <2>2. <<w, i>> \in (R(st)!BonusRefs \cup {"trial", "spend"}) \X (st.invitees \cup Nat)
    BY DEF R!BonusRefs
  <2>3. amount \in Int OBVIOUS
  <2>4. PICK r \in BookRow(st) :
          /\ r.user = u /\ r.kind = "adjust" /\ r.amount = amount /\ r.ref = <<w, i>>
          /\ book' = Append(book, r) /\ book' \in Seq(BookRow(st)) /\ purse' \in [Purses -> Int]
    BY <1>1, <2>1, <2>2, <2>3, BookPosts
  <2> DEFINE n == book'
             k == Newest(book)
  <2>5. OneMoreRow(st, book, n, r) BY <1>1, <2>4 DEF OneMoreRow
  <2> HIDE DEF n, k
  <2>6. w # "ref_tier" /\ book \in Seq(BookRow(st)) /\ r.ref = <<w, i>>
        /\ (r.kind = "adjust" \/ r.user = i) /\ r.kind = "adjust"
    BY <1>1, <2>4
  <2>7. /\ \A x : x # i => SameBooks(book, n, x)
        /\ \A v, t : TierRowsOf(n, v, t) = TierRowsOf(book, v, t)
        /\ \A x : Spends(n, x) = Spends(book, x)
    BY ONLY <2>5, <2>6, RowAboutInvitee
  <2>8. Adds(book, n, k, r, w, i) BY ONLY <2>5, <2>6, RowOfInvitee DEF k
  <2>9. r.amount = amount BY <2>4
  <2>10. Spends(n, i) = Spends(book, i) BY <2>7
  <2>11. /\ SignupSound(j, conv[i], n, i, campaign)
         /\ ConversionSound(conv[i], n, i, campaign)
         /\ faults = 0 => SignupPaid(i, j, conv[i], n, FALSE)
    BY <1>4, <2>8, <2>9, <2>10 DEF CreditSound
  <2>12. /\ SignupSound(j, conv[i], book', i, campaign) /\ ConversionSound(conv[i], book', i, campaign)
         /\ book' \in Seq(BookRow(st)) /\ purse' \in [Purses -> Int] /\ invites' \in [Parties -> Nat]
         /\ UNCHANGED <<campaign, granted, now, midnight>> /\ faults' \in Nat
         /\ faults' = 0 => faults = 0 /\ SignupPaid(i, j, conv[i], book', FALSE)
         /\ conv' = [conv EXCEPT ![i] = conv[i]]
    BY <1>1, <2>4, <2>11 DEF n
  <2>13. /\ \A x \in st.invitees \ {i} : SameBooks(book, book', x)
         /\ Spends(book', i) = Spends(book, i)
         /\ \A v \in Parties : \A t \in DOMAIN st.tiers : TierRowsOf(book', v, t) = TierRowsOf(book, v, t)
    BY <2>7 DEF n
  <2>14. j.pc \notin {"tier", "tiercredit"} BY <1>2
  <2> QED BY <1>1, <1>2, <2>12, <2>13, <2>14, RegistrationStep
<1> QED BY <1>3, <1>4

LEMMA SignupCredited ==
  ASSUME NEW st, R(st)!ReferralAssumption, ReferralInv(st), NEW i \in st.invitees,
         R(st)!CreditInvitee(i) \/ R(st)!CreditInviter(i) \/ R(st)!RegisterTail(i)
  PROVE  ReferralInv(st)'
<1>1. /\ job[i] \in SomeJob(st) /\ SignupSound(job[i], conv[i], book, i, campaign)
      /\ ConversionSound(conv[i], book, i, campaign)
      /\ faults = 0 => SignupPaid(i, job[i], conv[i], book, Releasing(job, i))
  BY RegistrationFacts
<1>2. /\ job[i].inviteeBonus \in Nat /\ job[i].inviterBonus \in Nat /\ job[i].paid \in BOOLEAN
      /\ job[i].matched \in BOOLEAN /\ job[i].fraud \in BOOLEAN
      /\ st.inviter[i] \in Parties /\ i \in Parties /\ Welcome \in Nat
  BY <1>1, ReferralConstants DEF SomeJob
<1>3. CASE R(st)!CreditInvitee(i)
  <2> DEFINE cond == job[i].inviteeBonus > 0
             j == [job[i] EXCEPT !.pc = "inviter"]
  <2>1. /\ job[i].pc = "invitee" /\ UNCHANGED <<campaign, conv, granted, invites, now, midnight, faults>>
        /\ R(st)!CreditIf(cond, i, job[i].inviteeBonus, <<"ref_invitee", i>>)
        /\ R(st)!Goto(i, "inviter")
    BY <1>3 DEF R!CreditInvitee, R!At, R!BonusRef
  <2>2. cond \in BOOLEAN /\ "inviter" \in R(st)!JobPcs BY DEF R!JobPcs
  <2>3. /\ j.pc = "inviter" /\ j.invitee = job[i].invitee /\ j.fraud = job[i].fraud
        /\ j.matched = job[i].matched /\ j.paid = job[i].paid
        /\ j.inviteeBonus = job[i].inviteeBonus /\ j.inviterBonus = job[i].inviterBonus
    BY <1>1 DEF SomeJob
  <2> HIDE DEF j
  <2>4. /\ job[i].invitee = i /\ job[i].matched /\ ~job[i].fraud /\ conv[i].recorded
        /\ conv[i].inviteeBonus = job[i].inviteeBonus /\ conv[i].inviterBonus = job[i].inviterBonus
        /\ conv[i].paid = job[i].paid /\ InviterRows(book, i) = {} /\ WelcomeRows(book, i) = {}
        /\ job[i].paid <=> ~(campaign.rewardOn = "first_spend" /\ job[i].inviterBonus > 0)
    BY <1>1, <2>1 DEF SignupSound, PayingPcs
  <2>5. RowsOf(book, <<"ref_invitee", i>>) = {} BY <2>4 DEF WelcomeRows
  <2>6. ASSUME NEW n, NEW k, NEW r, ~cond => n = book,
               cond => Adds(book, n, k, r, "ref_invitee", i) /\ r.amount = job[i].inviteeBonus,
               Spends(n, i) = Spends(book, i)
        PROVE  /\ SignupSound(j, conv[i], n, i, campaign)
               /\ ConversionSound(conv[i], n, i, campaign)
               /\ faults = 0 => SignupPaid(i, j, conv[i], n, FALSE)
    <3>1. /\ cond => RowsOf(n, <<"ref_invitee", i>>) = {k} /\ WelcomeRows(n, i) = {k}
                     /\ n[k].amount = conv[i].inviteeBonus
          /\ ~cond => RowsOf(n, <<"ref_invitee", i>>) = {} /\ WelcomeRows(n, i) = {}
          /\ InviterRows(n, i) = {}
      BY <2>4, <2>5, <2>6 DEF Adds
    <3> HIDE DEF cond
    <3>2. SignupSound(j, conv[i], n, i, campaign)
      BY <2>3, <2>4, <3>1 DEF SignupSound, EarlyPcs, PayingPcs, AtMostOne
    <3>3. ConversionSound(conv[i], n, i, campaign)
      BY <1>1, <2>4, <2>6, <3>1 DEF ConversionSound, AtMostOne
    <3>4. SignupPaid(i, j, conv[i], n, FALSE) BY <2>3, <2>4, <3>1 DEF SignupPaid, cond
    <3> QED BY <3>2, <3>3, <3>4
  <2> HIDE DEF cond
  <2>10. CreditSound(book, conv[i], campaign, faults, i, j, "ref_invitee", job[i].inviteeBonus, cond)
    BY ONLY <2>6 DEF CreditSound
  <2>7. "ref_invitee" \in {"ref_invitee", "ref_inviter", "trial"}
        /\ job[i].pc \notin {"done", "tiercredit"} /\ "inviter" \notin {"tier", "tiercredit"}
    BY <2>1
  <2>8. j = [job[i] EXCEPT !.pc = "inviter"] BY DEF j
  <2>9. UNCHANGED <<campaign, conv, granted, invites, now, midnight>> /\ faults' = faults BY <2>1
  <2>11. /\ R(st)!CreditIf(cond, i, job[i].inviteeBonus, <<"ref_invitee", i>>)
         /\ R(st)!Goto(i, "inviter")
    BY <2>1
  <2>12. i \in Parties /\ job[i].inviteeBonus \in Nat BY <1>2
  <2> QED BY <2>2, <2>7, <2>8, <2>9, <2>10, <2>11, <2>12, SignupCredits
<1>4. CASE R(st)!CreditInviter(i)
  <2> DEFINE cond == job[i].paid /\ job[i].inviterBonus > 0
             j == [job[i] EXCEPT !.pc = "bump"]
  <2>1. /\ job[i].pc = "inviter" /\ UNCHANGED <<campaign, conv, granted, invites, now, midnight, faults>>
        /\ R(st)!CreditIf(cond, st.inviter[i], job[i].inviterBonus, <<"ref_inviter", i>>)
        /\ R(st)!Goto(i, "bump")
    BY <1>4 DEF R!CreditInviter, R!At, R!BonusRef
  <2>2. cond \in BOOLEAN /\ "bump" \in R(st)!JobPcs BY <1>2 DEF R!JobPcs
  <2>3. /\ j.pc = "bump" /\ j.invitee = job[i].invitee /\ j.fraud = job[i].fraud
        /\ j.matched = job[i].matched /\ j.paid = job[i].paid
        /\ j.inviteeBonus = job[i].inviteeBonus /\ j.inviterBonus = job[i].inviterBonus
    BY <1>1 DEF SomeJob
  <2> HIDE DEF j
  <2>4. /\ job[i].invitee = i /\ job[i].matched /\ ~job[i].fraud /\ conv[i].recorded
        /\ conv[i].inviteeBonus = job[i].inviteeBonus /\ conv[i].inviterBonus = job[i].inviterBonus
        /\ conv[i].paid = job[i].paid /\ InviterRows(book, i) = {}
        /\ AtMostOne(WelcomeRows(book, i))
        /\ job[i].paid <=> ~(campaign.rewardOn = "first_spend" /\ job[i].inviterBonus > 0)
    BY <1>1, <2>1 DEF SignupSound, PayingPcs
  <2>6. ASSUME NEW n, NEW k, NEW r, ~cond => n = book,
               cond => Adds(book, n, k, r, "ref_inviter", i) /\ r.amount = job[i].inviterBonus,
               Spends(n, i) = Spends(book, i)
        PROVE  /\ SignupSound(j, conv[i], n, i, campaign)
               /\ ConversionSound(conv[i], n, i, campaign)
               /\ faults = 0 => SignupPaid(i, j, conv[i], n, FALSE)
    <3>1. /\ cond => InviterRows(n, i) = {k} /\ n[k].amount = conv[i].inviterBonus
          /\ ~cond => InviterRows(n, i) = {}
          /\ RowsOf(n, <<"ref_invitee", i>>) = RowsOf(book, <<"ref_invitee", i>>)
          /\ \A x \in RowsOf(n, <<"ref_invitee", i>>) : n[x] = book[x]
          /\ WelcomeRows(n, i) = WelcomeRows(book, i)
      BY <2>4, <2>6 DEF Adds
    <3>0. cond <=> conv[i].paid /\ conv[i].inviterBonus > 0 BY <2>4
    <3> HIDE DEF cond
    <3>2. SignupSound(j, conv[i], n, i, campaign)
      BY <2>3, <2>4, <3>1 DEF SignupSound, EarlyPcs, PayingPcs
    <3>3. ConversionSound(conv[i], n, i, campaign)
      BY <1>1, <2>4, <2>6, <3>0, <3>1 DEF ConversionSound, AtMostOne
    <3>4. faults = 0 => SignupPaid(i, j, conv[i], n, FALSE)
      BY <1>1, <2>1, <2>3, <2>4, <3>0, <3>1 DEF SignupPaid
    <3> QED BY <3>2, <3>3, <3>4
  <2> HIDE DEF cond
  <2>10. CreditSound(book, conv[i], campaign, faults, i, j, "ref_inviter", job[i].inviterBonus, cond)
    BY ONLY <2>6 DEF CreditSound
  <2>7. "ref_inviter" \in {"ref_invitee", "ref_inviter", "trial"}
        /\ job[i].pc \notin {"done", "tiercredit"} /\ "bump" \notin {"tier", "tiercredit"}
    BY <2>1
  <2>8. j = [job[i] EXCEPT !.pc = "bump"] BY DEF j
  <2>9. UNCHANGED <<campaign, conv, granted, invites, now, midnight>> /\ faults' = faults BY <2>1
  <2> QED BY <1>2, <2>1, <2>2, <2>7, <2>8, <2>9, <2>10, SignupCredits, ZenonT(60)
<1>5. CASE R(st)!RegisterTail(i)
  <2> DEFINE cond == ~job[i].matched /\ ~job[i].fraud /\ Welcome > 0
             j == [job[i] EXCEPT !.pc = "done"]
  <2>1. /\ job[i].pc = "tail" /\ UNCHANGED <<campaign, conv, granted, invites, now, midnight, faults>>
        /\ R(st)!CreditIf(cond, i, Welcome, <<"trial", i>>)
        /\ R(st)!Goto(i, "done")
    BY <1>5 DEF R!RegisterTail, R!At, R!BonusRef
  <2>2. cond \in BOOLEAN /\ "done" \in R(st)!JobPcs BY <1>2 DEF R!JobPcs
  <2>3. /\ j.pc = "done" /\ j.invitee = job[i].invitee /\ j.fraud = job[i].fraud
        /\ j.matched = job[i].matched /\ j.paid = job[i].paid
        /\ j.inviteeBonus = job[i].inviteeBonus /\ j.inviterBonus = job[i].inviterBonus
    BY <1>1 DEF SomeJob
  <2> HIDE DEF j
  <2>4. /\ job[i].invitee = i /\ AtMostOne(WelcomeRows(book, i))
        /\ job[i].paid <=> ~(campaign.rewardOn = "first_spend" /\ job[i].inviterBonus > 0)
        /\ cond => WelcomeRows(book, i) = {}
        /\ job[i].fraud => WelcomeRows(book, i) = {} /\ ~cond
    BY <1>1, <2>1 DEF SignupSound, EarlyPcs, PayingPcs
  <2>6. ASSUME NEW n, NEW k, NEW r, ~cond => n = book,
               cond => Adds(book, n, k, r, "trial", i) /\ r.amount = Welcome,
               Spends(n, i) = Spends(book, i)
        PROVE  /\ SignupSound(j, conv[i], n, i, campaign)
               /\ ConversionSound(conv[i], n, i, campaign)
               /\ faults = 0 => SignupPaid(i, j, conv[i], n, FALSE)
    <3>1. /\ InviterRows(n, i) = InviterRows(book, i)
          /\ cond => WelcomeRows(n, i) = {k}
          /\ ~cond => WelcomeRows(n, i) = WelcomeRows(book, i)
          /\ RowsOf(n, <<"ref_invitee", i>>) = RowsOf(book, <<"ref_invitee", i>>)
          /\ \A x \in RowsOf(n, <<"ref_invitee", i>>) \cup InviterRows(n, i) : n[x] = book[x]
      BY <2>4, <2>6 DEF Adds
    <3> HIDE DEF cond
    <3>2. SignupSound(j, conv[i], n, i, campaign)
      BY <2>3, <2>4, <3>1 DEF SignupSound, EarlyPcs, PayingPcs, AtMostOne
    <3>3. ConversionSound(conv[i], n, i, campaign)
      BY <1>1, <2>6, <3>1 DEF ConversionSound
    <3>4. faults = 0 => SignupPaid(i, j, conv[i], n, FALSE)
      <4>1. ASSUME faults = 0, Releasing(job, i) PROVE FALSE
        <5>1. RefSound(st, job, conv, book, granted, campaign, faults) BY DEF ReferralInv
        <5>2. PICK s \in Handlers : job[s].pc = "pay" /\ job[s].invitee = i BY <4>1 DEF Releasing
        <5>3. job[s] # Idler BY <5>2 DEF Idler
        <5>4. ReleaseSound(job[s], job[i].pc, conv[i], book, campaign)
          BY <5>1, <5>2, <5>3 DEF RefSound, Releases
        <5> QED BY <2>1, <5>4 DEF ReleaseSound
      <4> QED BY <1>1, <2>1, <2>3, <3>1, <4>1 DEF SignupPaid
    <3> QED BY <3>2, <3>3, <3>4
  <2> HIDE DEF cond
  <2>10. CreditSound(book, conv[i], campaign, faults, i, j, "trial", Welcome, cond)
    BY ONLY <2>6 DEF CreditSound
  <2>7. "trial" \in {"ref_invitee", "ref_inviter", "trial"}
        /\ job[i].pc \notin {"done", "tiercredit"} /\ "done" \notin {"tier", "tiercredit"}
    BY <2>1
  <2>8. j = [job[i] EXCEPT !.pc = "done"] BY DEF j
  <2>9. UNCHANGED <<campaign, conv, granted, invites, now, midnight>> /\ faults' = faults BY <2>1
  <2> QED BY <1>2, <2>1, <2>2, <2>7, <2>8, <2>9, <2>10, SignupCredits, ZenonT(60)
<1> QED BY <1>3, <1>4, <1>5

\* A registration that is under way has no releaser.
LEMMA NotReleasing ==
  ASSUME NEW st, ReferralInv(st), NEW i \in st.invitees, job[i].pc # "done"
  PROVE  ~Releasing(job, i)
<1>1. ASSUME Releasing(job, i) PROVE FALSE
  <2>1. Releases(job, conv, book, campaign) BY DEF ReferralInv, RefSound
  <2>2. PICK s \in Handlers : job[s].pc = "pay" /\ job[s].invitee = i BY <1>1 DEF Releasing
  <2>3. job[s] # Idler BY <2>2 DEF Idler
  <2>4. ReleaseSound(job[s], job[i].pc, conv[i], book, campaign) BY <2>1, <2>2, <2>3 DEF Releases
  <2> QED BY <2>4 DEF ReleaseSound
<1> QED BY <1>1

LEMMA InvitesBumped ==
  ASSUME NEW st, R(st)!ReferralAssumption, ReferralInv(st), NEW i \in st.invitees, R(st)!BumpInvites(i)
  PROVE  ReferralInv(st)'
<1> DEFINE pc == IF job[i].active THEN "count" ELSE "tail"
           j == [job[i] EXCEPT !.pc = pc]
<1>1. /\ job[i] \in SomeJob(st) /\ job \in [Work(st) -> {Idler} \cup SomeJob(st)] /\ i \in Work(st)
      /\ SignupSound(job[i], conv[i], book, i, campaign)
      /\ faults = 0 => SignupPaid(i, job[i], conv[i], book, Releasing(job, i))
      /\ invites \in [Parties -> Nat] /\ faults \in Nat
  BY RegistrationFacts
<1>2. /\ job[i].pc = "bump" /\ job' = [job EXCEPT ![i].pc = pc]
      /\ invites' = [invites EXCEPT ![st.inviter[i]] = @ + 1]
      /\ UNCHANGED <<purse, book, campaign, conv, granted, now, midnight, faults>>
  BY DEF R!BumpInvites, R!At, R!Goto
<1>3. pc \in {"count", "tail"} OBVIOUS
<1> HIDE DEF pc
<1>4. pc \in R(st)!JobPcs BY <1>3 DEF R!JobPcs
<1>5. /\ j \in SomeJob(st) /\ j.pc = pc /\ j.invitee = job[i].invitee /\ j.fraud = job[i].fraud
      /\ j.matched = job[i].matched /\ j.paid = job[i].paid /\ j.inviterBonus = job[i].inviterBonus
  BY <1>1, <1>4 DEF SomeJob
<1>6. job' = [job EXCEPT ![i] = j] BY <1>1, <1>2
<1> HIDE DEF j
<1>7. SignupSound(j, conv[i], book, i, campaign)
  BY <1>1, <1>2, <1>3, <1>5 DEF SignupSound, EarlyPcs, PayingPcs
<1>8. ~Releasing(job, i) BY <1>2, NotReleasing
<1>9. faults = 0 => SignupPaid(i, j, conv[i], book, FALSE)
  BY <1>1, <1>2, <1>8 DEF SignupPaid
<1>10. invites' \in [Parties -> Nat]
  <2> DEFINE u == st.inviter[i]
  <2>1. u \in Parties BY ReferralConstants
  <2> HIDE DEF u
  <2>2. invites' = [invites EXCEPT ![u] = invites[u] + 1] BY <1>1, <1>2 DEF u
  <2> QED BY <1>1, <2>1, <2>2
<1>11. job[i].pc \notin {"done", "tiercredit"} /\ j.pc \notin {"tier", "tiercredit"}
  BY <1>2, <1>3, <1>5
<1>12. /\ UNCHANGED <<purse, book, campaign, conv, granted, now, midnight>> /\ faults' \in Nat
       /\ faults' = 0 => faults = 0 /\ SignupPaid(i, j, conv[i], book, FALSE)
  BY <1>1, <1>2, <1>9
<1> QED BY <1>5, <1>6, <1>7, <1>10, <1>11, <1>12, QuietRegistration

\* What is known of the releaser r of the reward for invitee i.
LEMMA ReleaserFacts ==
  ASSUME NEW st, R(st)!ReferralAssumption, ReferralInv(st), NEW r \in Handlers, job[r].pc # "idle"
  PROVE  /\ job[r] \in SomeJob(st) /\ job[r].invitee \in st.invitees
         /\ job[job[r].invitee].pc = "done" /\ job[r] # Idler /\ job[r].pc \in ReleasePcs
         /\ ReleaseSound(job[r], "done", conv[job[r].invitee], book, campaign)
         /\ r \in Work(st) /\ r \notin st.invitees
<1>1. /\ RefShape(st, job, conv, book, granted, campaign)
      /\ Releases(job, conv, book, campaign)
  BY DEF ReferralInv, RefSound
<1>2. r \in Work(st) /\ r \notin st.invitees BY ReferralConstants DEF Work
<1>3. job[r] # Idler BY DEF Idler
<1>4. job[r] \in SomeJob(st) BY <1>1, <1>2, <1>3 DEF RefShape
<1>5. ReleaseSound(job[r], job[job[r].invitee].pc, conv[job[r].invitee], book, campaign)
  BY <1>1, <1>3 DEF Releases
<1>6. job[job[r].invitee].pc = "done" /\ job[r].pc \in ReleasePcs BY <1>5 DEF ReleaseSound
<1>7. job[r].invitee \in st.invitees BY <1>4 DEF SomeJob
<1> QED BY <1>2, <1>3, <1>4, <1>5, <1>6, <1>7

LEMMA ReleaserStep ==
  ASSUME NEW st, R(st)!ReferralAssumption, ReferralInv(st), NEW r \in Handlers, NEW i \in st.invitees,
         NEW q \in {Idler} \cup SomeJob(st), NEW c \in {NoConversion} \cup Conversion,
         job' = [job EXCEPT ![r] = q], conv' = [conv EXCEPT ![i] = c],
         UNCHANGED <<campaign, granted, invites, now, midnight>>,
         book' \in Seq(BookRow(st)), purse' \in [Purses -> Int],
         faults' \in Nat,
         ReleaserMove(st, job, conv, book, campaign, faults, r, i, q, c, book', faults')
  PROVE  ReferralInv(st)'
<1> DEFINE jd == job'
           ds == conv'
           n == book'
           h == faults'
<1>1. /\ RefShape(st, job, conv, book, granted, campaign)
      /\ RefSound(st, job, conv, book, granted, campaign, faults)
      /\ now \in Nat /\ midnight \in Nat /\ faults \in Nat /\ invites \in [Parties -> Nat]
  BY DEF ReferralInv
<1>2. ds \in [st.invitees -> {NoConversion} \cup Conversion] BY <1>1 DEF RefShape
<1>3. granted \subseteq Parties \X DOMAIN st.tiers /\ r \in Work(st) /\ r \notin st.invitees
  BY <1>1, ReferralConstants DEF RefShape, Work
<1>4. RefShape(st, jd, ds, n, granted, campaign) BY <1>1, <1>2, <1>3, JobShape
<1>5. h \in Nat /\ jd = [job EXCEPT ![r] = q] /\ ds = [conv EXCEPT ![i] = c] OBVIOUS
<1>6. ReleaserMove(st, job, conv, book, campaign, faults, r, i, q, c, n, h) OBVIOUS
<1>8. RefSound(st, jd, ds, n, granted, campaign, h)
  <2> HIDE DEF jd, ds, n, h
  <2> QED BY <1>1, <1>5, <1>6, ReleaserMoves
<1> QED BY <1>1, <1>4, <1>8 DEF ReferralInv

\* A releaser that moves, or ends, without a word.
LEMMA QuietReleaser ==
  ASSUME NEW st, R(st)!ReferralAssumption, ReferralInv(st), NEW r \in Handlers,
         job[r].pc \notin {"idle", "tiercredit", "pay"} \/ (job[r].pc = "pay" /\ faults' # 0),
         NEW q \in {Idler} \cup SomeJob(st), job' = [job EXCEPT ![r] = q],
         UNCHANGED <<purse, book, campaign, conv, granted, invites, now, midnight>>,
         q.pc \notin {"tier", "tiercredit", "pay"}, q # Idler => q.invitee = job[r].invitee,
         q # Idler => ReleaseSound(q, "done", conv[job[r].invitee], book, campaign),
         faults' \in Nat, faults' = 0 => faults = 0
  PROVE  ReferralInv(st)'
<1> DEFINE i == job[r].invitee
<1>1. job[r].pc # "idle" OBVIOUS
<1>2. i \in st.invitees /\ job[i].pc = "done" /\ job[r] # Idler BY <1>1, ReleaserFacts
<1> HIDE DEF i
<1>3. /\ conv[i] \in {NoConversion} \cup Conversion /\ conv = [conv EXCEPT ![i] = conv[i]]
      /\ ConversionSound(conv[i], book, i, campaign)
      /\ book \in Seq(BookRow(st)) /\ purse \in [Purses -> Int] /\ Spends(book, i) \in Nat
  BY <1>2, RegistrationFacts DEF ConversionSound
<1>4. /\ ConversionSound(conv[i], book', i, campaign) /\ Spends(book', i) >= Spends(book, i)
      /\ WelcomeRows(book', i) = WelcomeRows(book, i)
      /\ RowsOf(book', <<"ref_invitee", i>>) = RowsOf(book, <<"ref_invitee", i>>)
      /\ InviterRows(book', i) = InviterRows(book, i)
      /\ \A u \in Parties : \A k \in DOMAIN st.tiers : TierRowsOf(book', u, k) = TierRowsOf(book, u, k)
      /\ conv' = [conv EXCEPT ![i] = conv[i]] /\ book' \in Seq(BookRow(st)) /\ purse' \in [Purses -> Int]
      /\ UNCHANGED <<campaign, granted, invites, now, midnight>>
  BY <1>3
<1>5. \A x \in st.invitees \ {i} : SameBooks(book, book', x) BY SameBookIsSame
<1>6. /\ q # Idler => ReleaseSound(q, "done", conv[i], book', campaign)
      /\ q # Idler => q.invitee = i
      /\ job[r].pc # "tiercredit" /\ q.pc \notin {"tier", "tiercredit"} /\ q.pc # "pay"
  BY DEF i
<1>7. faults' = 0 => conv[i] = conv[i] /\ job[r].pc # "pay" /\ InviterRows(book', i) = InviterRows(book, i)
  BY <1>4
<1>8. job[r] # Idler => job[r].invitee = i BY DEF i
<1>10. ReleaserMove(st, job, conv, book, campaign, faults, r, i, q, conv[i], book', faults')
  BY <1>2, <1>4, <1>5, <1>6, <1>7, <1>8 DEF ReleaserMove
<1> QED BY <1>2, <1>3, <1>4, <1>6, <1>10, ReleaserStep

LEMMA SpendsIsSpends ==
  ASSUME NEW st, NEW i PROVE R(st)!inviteeSpend(i) = Spends(book, i)
<1>1. \A s : R(st)!Total(s) = Total(s) BY DEF R!Total, R!Partial, Total, Partial
<1> QED BY <1>1 DEF R!inviteeSpend, Spends

\* A job that leaves: a registration for its tail, a releaser for good.
LEMMA LeaveIsIdle ==
  ASSUME NEW st, NEW r, r \notin st.invitees, R(st)!Leave(r)
  PROVE  job' = [job EXCEPT ![r] = Idler]
BY DEF R!Leave, R!IdleReleaser, Idler

LEMMA Spent ==
  ASSUME NEW st, R(st)!ReferralAssumption, ReferralInv(st), NEW i \in st.invitees, NEW r \in Handlers,
         R(st)!Spend(i, r)
  PROVE  ReferralInv(st)'
<1> DEFINE q == R(st)!Fresh(i, "pending")
<1>1. /\ conv[i] \in {NoConversion} \cup Conversion /\ conv = [conv EXCEPT ![i] = conv[i]]
      /\ ConversionSound(conv[i], book, i, campaign)
      /\ book \in Seq(BookRow(st)) /\ purse \in [Purses -> Int] /\ faults \in Nat
      /\ SignupSound(job[i], conv[i], book, i, campaign)
  BY RegistrationFacts
<1>2. /\ job[i].pc = "done" /\ job[r].pc = "idle" /\ job' = [job EXCEPT ![r] = q]
      /\ R(st)!AddBalanceTx(i, "charge", -1, <<"spend", i>>, TRUE)
      /\ UNCHANGED <<campaign, conv, granted, invites, now, midnight, faults>>
  BY DEF R!Spend, R!At, R!BonusRef
<1>3. job[r] = Idler
  <2>1. job[r] \in {Idler} \cup SomeJob(st) BY DEF ReferralInv, RefShape, Work
  <2>2. "idle" \notin R(st)!JobPcs BY DEF R!JobPcs
  <2>3. job[r] \notin SomeJob(st) BY <1>2, <2>2 DEF SomeJob
  <2> QED BY <2>1, <2>3
<1>4. q \in SomeJob(st) /\ q.pc = "pending" /\ q.invitee = i
  <2>1. "pending" \in R(st)!JobPcs BY DEF R!JobPcs
  <2> QED BY <2>1 DEF R!Fresh, SomeJob
<1> HIDE DEF q
<1>5. i \in Parties /\ -1 \in Int BY ReferralConstants
<1>6. <<"spend", i>> \in (R(st)!BonusRefs \cup {"trial", "spend"}) \X (st.invitees \cup Nat)
  OBVIOUS
<1>7. PICK entry \in BookRow(st) :
        /\ entry.user = i /\ entry.kind = "charge" /\ entry.amount = -1 /\ entry.ref = <<"spend", i>>
        /\ book' = Append(book, entry) /\ book' \in Seq(BookRow(st)) /\ purse' \in [Purses -> Int]
  BY <1>1, <1>2, <1>5, <1>6, BookPosts
<1> DEFINE n == book'
<1>8. OneMoreRow(st, book, n, entry) /\ entry.ref = <<"spend", i>> /\ entry.user = i /\ n \in Seq(BookRow(st))
  BY <1>1, <1>7 DEF OneMoreRow
<1>9. Spends(n, i) = Spends(book, i) + 1
  <2>1. Spends(n, i) = Spends(book, i) - entry.amount BY <1>1, <1>7, SpendsGrow
  <2>2. Spends(book, i) \in Nat BY <1>1 DEF ConversionSound
  <2> QED BY <1>7, <2>1, <2>2
<1> HIDE DEF n
<1>10. /\ \A x : x # i => SameBooks(book, n, x)
       /\ \A v, t : TierRowsOf(n, v, t) = TierRowsOf(book, v, t)
  BY <1>8, RowAboutInvitee
<1>11. Adds(book, n, Newest(book), entry, "spend", i) BY <1>8, RowOfInvitee
<1>12. /\ WelcomeRows(n, i) = WelcomeRows(book, i) /\ InviterRows(n, i) = InviterRows(book, i)
       /\ RowsOf(n, <<"ref_invitee", i>>) = RowsOf(book, <<"ref_invitee", i>>)
       /\ \A x \in RowsOf(book, <<"ref_invitee", i>>) \cup InviterRows(book, i) : n[x] = book[x]
  BY <1>11 DEF Adds
<1>13. Spends(n, i) \in Nat /\ Spends(book, i) \in Nat /\ Spends(n, i) >= Spends(book, i)
  BY <1>1, <1>9 DEF ConversionSound
<1>14. campaign.minSpend \in Nat BY DEF ReferralInv, RefShape
<1>15. ConversionSound(conv[i], n, i, campaign)
  <2>1. /\ \A k \in RowsOf(n, <<"ref_invitee", i>>) : conv[i].recorded /\ n[k].amount = conv[i].inviteeBonus
        /\ AtMostOne(InviterRows(n, i))
        /\ \A k \in InviterRows(n, i) :
             conv[i].recorded /\ conv[i].paid /\ conv[i].inviterBonus > 0 /\ n[k].amount = conv[i].inviterBonus
        /\ conv[i].recorded /\ ~conv[i].paid => conv[i].inviterBonus > 0
    BY <1>1, <1>12 DEF ConversionSound
  <2>2. Spends(book, i) >= campaign.minSpend => Spends(n, i) >= campaign.minSpend
    BY <1>13, <1>14
  <2>3. conv[i].recorded /\ conv[i].paid /\ conv[i].inviterBonus > 0 /\ campaign.rewardOn = "first_spend" =>
          Spends(n, i) >= campaign.minSpend
    BY <1>1, <2>2 DEF ConversionSound
  <2> QED BY <1>13, <2>1, <2>3 DEF ConversionSound
<1>16. ReleaseSound(q, "done", conv[i], n, campaign) BY <1>4 DEF ReleaseSound, ReleasePcs
<1>17. Idler.pc = "idle" BY DEF Idler
<1>18. ReleaserMove(st, job, conv, book, campaign, faults, r, i, q, conv[i], n, faults)
  BY <1>2, <1>3, <1>4, <1>10, <1>12, <1>13, <1>15, <1>16, <1>17 DEF ReleaserMove
<1>19. /\ ReleaserMove(st, job, conv, book, campaign, faults, r, i, q, conv[i], book', faults')
       /\ conv' = [conv EXCEPT ![i] = conv[i]] /\ faults' \in Nat
       /\ UNCHANGED <<campaign, granted, invites, now, midnight>>
  BY <1>1, <1>2, <1>18 DEF n
<1> QED BY <1>1, <1>2, <1>4, <1>7, <1>19, ReleaserStep

LEMMA ReleaseLooked ==
  ASSUME NEW st, R(st)!ReferralAssumption, ReferralInv(st), NEW r \in Handlers,
         R(st)!ReleasePending(r) \/ R(st)!ReleaseGates(r)
  PROVE  ReferralInv(st)'
<1> DEFINE i == job[r].invitee
<1>1. /\ job[r].pc \in {"pending", "gates"} /\ faults' = faults
      /\ UNCHANGED <<purse, book, campaign, conv, granted, invites, now, midnight>>
  BY DEF R!ReleasePending, R!ReleaseGates, R!At
<1>2. job[r].pc # "idle" /\ job[r].pc \notin {"idle", "tiercredit", "pay"} BY <1>1
<1>3. /\ job[r] \in SomeJob(st) /\ i \in st.invitees
      /\ ReleaseSound(job[r], "done", conv[i], book, campaign)
      /\ r \in Work(st) /\ r \notin st.invitees
  BY <1>2, ReleaserFacts
<1>4. conv[i] \in {NoConversion} \cup Conversion /\ faults \in Nat
      /\ ConversionSound(conv[i], book, i, campaign)
      /\ job \in [Work(st) -> {Idler} \cup SomeJob(st)]
  BY <1>3, RegistrationFacts
<1>5. ASSUME job' = [job EXCEPT ![r] = Idler] PROVE ReferralInv(st)'
  <2>1. Idler \in {Idler} \cup SomeJob(st) /\ Idler.pc \notin {"tier", "tiercredit", "pay"}
    BY DEF Idler
  <2>3. faults' \in Nat /\ (faults' = 0 => faults = 0) BY <1>1, <1>4
  <2> QED BY <1>1, <1>2, <1>5, <2>1, <2>3, QuietReleaser
<1>6. ASSUME NEW q \in SomeJob(st), job' = [job EXCEPT ![r] = q], q.pc \in {"gates", "mark"}, q.invitee = i,
             ReleaseSound(q, "done", conv[i], book, campaign)
      PROVE  ReferralInv(st)'
  <2>1. q.pc \notin {"tier", "tiercredit", "pay"} /\ q.invitee = job[r].invitee BY <1>6
  <2>2. ReleaseSound(q, "done", conv[job[r].invitee], book, campaign) BY <1>6
  <2>3. faults' \in Nat /\ (faults' = 0 => faults = 0) BY <1>1, <1>4
  <2> QED BY <1>1, <1>2, <1>6, <2>1, <2>2, <2>3, QuietReleaser
<1>7. CASE R(st)!ReleasePending(r)
  <2>1. job' = [job EXCEPT ![r] =
           IF R(st)!Owed(i) THEN [job[r] EXCEPT !.pc = "gates", !.inviterBonus = conv[i].inviterBonus]
           ELSE Idler]
    BY <1>3, <1>4, <1>7 DEF R!ReleasePending, R!IdleReleaser, Idler
  <2>2. CASE ~R(st)!Owed(i) BY <1>5, <2>1, <2>2
  <2>3. CASE R(st)!Owed(i)
    <3> DEFINE q == [job[r] EXCEPT !.pc = "gates", !.inviterBonus = conv[i].inviterBonus]
    <3>1. conv[i].recorded /\ conv[i].inviterBonus \in Nat
      <4>1. conv[i].recorded BY <2>3 DEF R!Owed
      <4>2. conv[i] \in Conversion BY <1>4, <4>1 DEF NoConversion
      <4> QED BY <4>1, <4>2 DEF Conversion
    <3>2. "gates" \in R(st)!JobPcs BY DEF R!JobPcs
    <3>3. q \in SomeJob(st) /\ q.pc = "gates" /\ q.invitee = i /\ q.inviterBonus = conv[i].inviterBonus
      BY <1>3, <3>1, <3>2 DEF SomeJob
    <3>4. job' = [job EXCEPT ![r] = q] BY <2>1, <2>3
    <3> HIDE DEF q
    <3>5. ReleaseSound(q, "done", conv[i], book, campaign) BY <3>1, <3>3 DEF ReleaseSound, ReleasePcs
    <3> QED BY <1>6, <3>3, <3>4, <3>5
  <2> QED BY <2>2, <2>3
<1>8. CASE R(st)!ReleaseGates(r)
  <2>1. CASE R(st)!capTripped \/ ~R(st)!Earned(i)
    <3>1. R(st)!Leave(r) BY <1>8, <2>1 DEF R!ReleaseGates
    <3> QED BY <1>3, <1>5, <3>1, LeaveIsIdle
  <2>2. CASE ~(R(st)!capTripped \/ ~R(st)!Earned(i))
    <3> DEFINE q == [job[r] EXCEPT !.pc = "mark"]
    <3>1. job' = [job EXCEPT ![r].pc = "mark"] /\ job[r].pc = "gates"
      BY <1>8, <2>2 DEF R!ReleaseGates, R!Goto, R!At
    <3>2. "mark" \in R(st)!JobPcs BY DEF R!JobPcs
    <3>3. /\ q \in SomeJob(st) /\ q.pc = "mark" /\ q.invitee = i /\ q.inviterBonus = job[r].inviterBonus
          /\ job' = [job EXCEPT ![r] = q]
      BY <1>3, <1>4, <3>1, <3>2 DEF SomeJob
    <3>4. campaign.minSpend > 0 => Spends(book, i) >= campaign.minSpend
      BY <2>2, SpendsIsSpends DEF R!Earned
    <3>5. Spends(book, i) \in Nat /\ campaign.minSpend \in Nat
      BY <1>4 DEF ConversionSound, ReferralInv, RefShape
    <3>6. Spends(book, i) >= campaign.minSpend BY <3>4, <3>5
    <3> HIDE DEF q
    <3>7. ReleaseSound(q, "done", conv[i], book, campaign)
      BY <1>3, <3>1, <3>3, <3>6 DEF ReleaseSound, ReleasePcs
    <3> QED BY <1>6, <3>3, <3>7
  <2> QED BY <2>1, <2>2
<1> QED BY <1>7, <1>8

LEMMA ReleaseMarked ==
  ASSUME NEW st, R(st)!ReferralAssumption, ReferralInv(st), NEW r \in Handlers, R(st)!ReleaseMark(r)
  PROVE  ReferralInv(st)'
<1> DEFINE i == job[r].invitee
<1>1. /\ job[r].pc = "mark" /\ faults' = faults
      /\ UNCHANGED <<purse, book, campaign, granted, invites, now, midnight>>
  BY DEF R!ReleaseMark, R!At
<1>2. job[r].pc # "idle" /\ job[r].pc \notin {"idle", "tiercredit", "pay"} BY <1>1
<1>3. /\ job[r] \in SomeJob(st) /\ i \in st.invitees /\ job[i].pc = "done"
      /\ ReleaseSound(job[r], "done", conv[i], book, campaign)
      /\ r \in Work(st) /\ r \notin st.invitees
  BY <1>2, ReleaserFacts
<1>4. /\ conv[i] \in {NoConversion} \cup Conversion /\ faults \in Nat
      /\ ConversionSound(conv[i], book, i, campaign)
      /\ job \in [Work(st) -> {Idler} \cup SomeJob(st)]
      /\ conv = [conv EXCEPT ![i] = conv[i]]
      /\ book \in Seq(BookRow(st)) /\ purse \in [Purses -> Int]
  BY <1>3, RegistrationFacts
<1>5. CASE conv[i].paid
  <2>1. R(st)!Leave(r) /\ conv' = conv BY <1>5 DEF R!ReleaseMark
  <2>2. job' = [job EXCEPT ![r] = Idler] BY <1>3, <2>1, LeaveIsIdle
  <2>3. Idler \in {Idler} \cup SomeJob(st) /\ Idler.pc \notin {"tier", "tiercredit", "pay"}
    BY DEF Idler
  <2>4. faults' \in Nat /\ (faults' = 0 => faults = 0) BY <1>1, <1>4
  <2> QED BY <1>1, <1>2, <2>1, <2>2, <2>3, <2>4, QuietReleaser
<1>6. CASE ~conv[i].paid
  <2> DEFINE q == [job[r] EXCEPT !.pc = "pay"]
             c == [conv[i] EXCEPT !.paid = TRUE]
  <2>1. job' = [job EXCEPT ![r].pc = "pay"] /\ conv' = [conv EXCEPT ![i].paid = TRUE]
    BY <1>6 DEF R!ReleaseMark, R!Goto
  <2>2. "pay" \in R(st)!JobPcs BY DEF R!JobPcs
  <2>3. /\ q \in SomeJob(st) /\ q.pc = "pay" /\ q.invitee = i /\ q.inviterBonus = job[r].inviterBonus
        /\ job' = [job EXCEPT ![r] = q]
    BY <1>3, <1>4, <2>1, <2>2 DEF SomeJob
  <2>4. /\ conv[i].recorded /\ job[r].inviterBonus = conv[i].inviterBonus
        /\ Spends(book, i) >= campaign.minSpend
    BY <1>1, <1>3 DEF ReleaseSound
  <2>5. conv[i] \in Conversion BY <1>4, <2>4 DEF NoConversion
  <2>6. /\ c \in Conversion /\ c.recorded /\ c.paid /\ c.inviteeBonus = conv[i].inviteeBonus
        /\ c.inviterBonus = conv[i].inviterBonus /\ c.fraud = conv[i].fraud
    BY <2>4, <2>5 DEF Conversion
  <2>7. conv' = [conv EXCEPT ![i] = c] BY <2>1
  <2> HIDE DEF q, c
  <2>8. /\ conv[i].inviterBonus > 0 /\ InviterRows(book, i) = {}
        /\ \A k \in RowsOf(book, <<"ref_invitee", i>>) : book[k].amount = conv[i].inviteeBonus
        /\ Spends(book, i) \in Nat
    BY <1>4, <1>6, <2>4 DEF ConversionSound
  <2>9. ConversionSound(c, book, i, campaign)
    BY <2>4, <2>6, <2>8 DEF ConversionSound, AtMostOne
  <2>10. ReleaseSound(q, "done", c, book, campaign)
    BY <2>3, <2>4, <2>6, <2>8 DEF ReleaseSound, ReleasePcs
  <2>11. Spends(book, i) >= Spends(book, i) BY <2>8
  <2>12. ReleaserMove(st, job, conv, book, campaign, faults, r, i, q, c, book, faults)
    BY <1>1, <1>3, <1>6, <2>3, <2>4, <2>6, <2>8, <2>9, <2>10, <2>11, SameBookIsSame DEF ReleaserMove
  <2>13. /\ ReleaserMove(st, job, conv, book, campaign, faults, r, i, q, c, book', faults')
         /\ book' \in Seq(BookRow(st)) /\ purse' \in [Purses -> Int] /\ faults' \in Nat
         /\ UNCHANGED <<campaign, granted, invites, now, midnight>>
    BY <1>1, <1>4, <2>12
  <2> HIDE DEF i
  <2> QED BY <1>3, <2>3, <2>6, <2>7, <2>13, ReleaserStep
<1> QED BY <1>5, <1>6

LEMMA ReleasePaid ==
  ASSUME NEW st, R(st)!ReferralAssumption, ReferralInv(st), NEW r \in Handlers, R(st)!ReleasePay(r)
  PROVE  ReferralInv(st)'
<1> DEFINE i == job[r].invitee
           u == st.inviter[i]
           amount == job[r].inviterBonus
<1>1. /\ job[r].pc = "pay" /\ faults' = faults
      /\ R(st)!AddBalanceTx(u, "adjust", amount, <<"ref_inviter", i>>, TRUE)
      /\ UNCHANGED <<campaign, conv, granted, invites, now, midnight>>
  BY DEF R!ReleasePay, R!At, R!Credit, R!BonusRef
<1>2. job[r].pc # "idle" BY <1>1
<1>3. /\ job[r] \in SomeJob(st) /\ i \in st.invitees /\ job[i].pc = "done"
      /\ ReleaseSound(job[r], "done", conv[i], book, campaign)
      /\ r \in Work(st) /\ r \notin st.invitees
  BY <1>2, ReleaserFacts
<1>4. /\ conv[i] \in {NoConversion} \cup Conversion /\ faults \in Nat
      /\ ConversionSound(conv[i], book, i, campaign)
      /\ job \in [Work(st) -> {Idler} \cup SomeJob(st)]
      /\ conv = [conv EXCEPT ![i] = conv[i]]
      /\ book \in Seq(BookRow(st)) /\ purse \in [Purses -> Int]
  BY <1>3, RegistrationFacts
<1>5. PICK q \in {Idler} \cup SomeJob(st) :
        /\ job' = [job EXCEPT ![r] = q] /\ (q # Idler => q.pc = "count" /\ q.invitee = i)
  <2>1. CASE campaign.status = "active"
    <3> DEFINE q == [job[r] EXCEPT !.pc = "count"]
    <3>1. job' = [job EXCEPT ![r].pc = "count"] BY <2>1 DEF R!ReleasePay, R!Goto
    <3>2. "count" \in R(st)!JobPcs BY DEF R!JobPcs
    <3>3. q \in SomeJob(st) /\ q.pc = "count" /\ q.invitee = i /\ job' = [job EXCEPT ![r] = q]
      BY <1>3, <1>4, <3>1, <3>2 DEF SomeJob
    <3> QED BY <3>3
  <2>2. CASE campaign.status # "active"
    <3>1. R(st)!Leave(r) BY <2>2 DEF R!ReleasePay
    <3> QED BY <1>3, <3>1, LeaveIsIdle
  <2> QED BY <2>1, <2>2
<1>6. u \in Parties /\ amount \in Int BY <1>3, ReferralConstants DEF SomeJob
<1>7. <<"ref_inviter", i>> \in (R(st)!BonusRefs \cup {"trial", "spend"}) \X (st.invitees \cup Nat)
  BY <1>3 DEF R!BonusRefs
<1>8. /\ conv[i].recorded /\ amount = conv[i].inviterBonus /\ conv[i].paid /\ conv[i].inviterBonus > 0
      /\ InviterRows(book, i) = {}
  BY <1>1, <1>3 DEF ReleaseSound
<1> HIDE DEF i, u, amount
<1>9. PICK entry \in BookRow(st) :
        /\ entry.user = u /\ entry.kind = "adjust" /\ entry.amount = amount /\ entry.ref = <<"ref_inviter", i>>
        /\ book' = Append(book, entry) /\ book' \in Seq(BookRow(st)) /\ purse' \in [Purses -> Int]
  BY <1>1, <1>4, <1>6, <1>7, BookPosts
<1> DEFINE n == book'
<1>10. OneMoreRow(st, book, n, entry) /\ entry.ref = <<"ref_inviter", i>> /\ entry.kind = "adjust"
  BY <1>4, <1>9 DEF OneMoreRow
<1> HIDE DEF n
<1>11. /\ \A x : x # i => SameBooks(book, n, x)
       /\ \A v, t : TierRowsOf(n, v, t) = TierRowsOf(book, v, t)
       /\ \A x : Spends(n, x) = Spends(book, x)
  BY <1>10, RowAboutInvitee
<1>12. Adds(book, n, Newest(book), entry, "ref_inviter", i) BY <1>10, RowOfInvitee
<1>13. /\ WelcomeRows(n, i) = WelcomeRows(book, i) /\ InviterRows(n, i) = {Newest(book)}
       /\ n[Newest(book)].amount = conv[i].inviterBonus
       /\ RowsOf(n, <<"ref_invitee", i>>) = RowsOf(book, <<"ref_invitee", i>>)
       /\ \A x \in RowsOf(book, <<"ref_invitee", i>>) : n[x] = book[x]
  BY <1>8, <1>9, <1>12 DEF Adds
<1>14. Spends(n, i) \in Nat /\ Spends(n, i) = Spends(book, i) /\ Spends(n, i) >= Spends(book, i)
  BY <1>4, <1>11 DEF ConversionSound
<1>15. ConversionSound(conv[i], n, i, campaign)
  BY <1>4, <1>8, <1>13, <1>14 DEF ConversionSound, AtMostOne
<1>16. q # Idler => ReleaseSound(q, "done", conv[i], n, campaign)
  BY <1>5 DEF ReleaseSound, ReleasePcs
<1>17. q.pc \notin {"tier", "tiercredit", "pay"} BY <1>5 DEF Idler
<1>18. job[r].invitee = i BY DEF i
<1>19. ReleaserMove(st, job, conv, book, campaign, faults, r, i, q, conv[i], n, faults)
  BY <1>1, <1>3, <1>5, <1>11, <1>13, <1>14, <1>15, <1>16, <1>17, <1>18 DEF ReleaserMove
<1>20. /\ ReleaserMove(st, job, conv, book, campaign, faults, r, i, q, conv[i], book', faults')
       /\ conv' = [conv EXCEPT ![i] = conv[i]] /\ faults' \in Nat
       /\ UNCHANGED <<campaign, granted, invites, now, midnight>>
  BY <1>1, <1>4, <1>19 DEF n
<1>21. i \in st.invitees /\ conv[i] \in {NoConversion} \cup Conversion BY <1>3, <1>4 DEF i
<1> QED BY <1>5, <1>9, <1>20, <1>21, ReleaserStep

LEMMA LadderStep ==
  ASSUME NEW st, R(st)!ReferralAssumption, ReferralInv(st), NEW p \in Work(st),
         NEW q \in {Idler} \cup SomeJob(st), p \in st.invitees => q \in SomeJob(st),
         job' = [job EXCEPT ![p] = q], UNCHANGED <<conv, campaign, invites, now, midnight>>,
         book' \in Seq(BookRow(st)), purse' \in [Purses -> Int], faults' \in Nat,
         granted' \subseteq Parties \X DOMAIN st.tiers,
         LadderMove(st, job, conv, book, granted, campaign, faults, p, q, book', granted', faults')
  PROVE  ReferralInv(st)'
<1> DEFINE jd == job'
           n == book'
           e == granted'
           h == faults'
<1>1. /\ RefShape(st, job, conv, book, granted, campaign)
      /\ RefSound(st, job, conv, book, granted, campaign, faults)
      /\ now \in Nat /\ midnight \in Nat /\ faults \in Nat /\ invites \in [Parties -> Nat]
  BY DEF ReferralInv
<1>2. conv \in [st.invitees -> {NoConversion} \cup Conversion] BY <1>1 DEF RefShape
<1>3. RefShape(st, jd, conv, n, e, campaign) BY <1>1, <1>2, JobShape
<1>4. h \in Nat /\ jd = [job EXCEPT ![p] = q] OBVIOUS
<1>5. LadderMove(st, job, conv, book, granted, campaign, faults, p, q, n, e, h) OBVIOUS
<1>6. RefSound(st, jd, conv, n, e, campaign, h)
  <2> HIDE DEF jd, n, e, h
  <2> QED BY <1>1, <1>4, <1>5, LadderMoves
<1> QED BY <1>1, <1>3, <1>6 DEF ReferralInv

\* What is known of a job p on its way through the tiers.
LEMMA LadderFacts ==
  ASSUME NEW st, R(st)!ReferralAssumption, ReferralInv(st), NEW p \in Work(st),
         job[p].pc \in {"count", "tier", "tiercredit"}
  PROVE  /\ job[p] \in SomeJob(st) /\ job \in [Work(st) -> {Idler} \cup SomeJob(st)]
         /\ Climber(st, job[p]) \in Parties /\ job[p].tiers \subseteq DOMAIN st.tiers
         /\ LadderSound(st, job[p], granted, conv, book, campaign)
         /\ \A u \in Parties : \A k \in DOMAIN st.tiers : GrantSound(st, u, k, granted, conv, book, campaign)
         /\ job[p].tiers # {} => /\ Least(job[p].tiers) \in job[p].tiers
                                 /\ Least(job[p].tiers) \in DOMAIN st.tiers
         /\ granted \subseteq Parties \X DOMAIN st.tiers /\ book \in Seq(BookRow(st))
         /\ purse \in [Purses -> Int] /\ faults \in Nat
<1>1. /\ RefShape(st, job, conv, book, granted, campaign)
      /\ Ladders(st, job, granted, conv, book, campaign) /\ GrantsSound(st, granted, conv, book, campaign)
      /\ purse \in [Purses -> Int] /\ faults \in Nat
  BY DEF ReferralInv, RefSound
<1>2. job[p] \in SomeJob(st) BY <1>1 DEF RefShape, Idler
<1>3. Climber(st, job[p]) \in Parties /\ job[p].tiers \subseteq DOMAIN st.tiers
  BY <1>2, ReferralConstants DEF SomeJob, Climber
<1>4. ASSUME job[p].tiers # {} PROVE Least(job[p].tiers) \in job[p].tiers
  <2>1. job[p].tiers \in SUBSET Nat BY <1>3, ReferralConstants
  <2>2. PICK x \in job[p].tiers : \A y \in job[p].tiers : x <= y BY <1>4, <2>1, NatSetMin
  <2> QED BY <2>2 DEF Least
<1> QED BY <1>1, <1>2, <1>3, <1>4 DEF RefShape, Ladders, GrantsSound

\* A job that moves on the ladder without a word and without a grant.
LEMMA QuietLadder ==
  ASSUME NEW st, R(st)!ReferralAssumption, ReferralInv(st), NEW p \in Work(st),
         NEW q \in {Idler} \cup SomeJob(st), q = Idler => p \in Handlers \ st.invitees,
         job' = [job EXCEPT ![p] = q],
         UNCHANGED <<purse, book, conv, granted, campaign, invites, now, midnight>>,
         faults' \in Nat, faults' = 0 => faults = 0,
         job[p].pc \in {"count", "tier"} \/ (job[p].pc = "tiercredit" /\ faults' # 0),
         q # Idler => /\ q.pc = "tier" \/ (q.pc = "tail" /\ p \in st.invitees)
                      /\ q.invitee = job[p].invitee /\ q.fraud = job[p].fraud /\ q.matched = job[p].matched
                      /\ q.inviterBonus = job[p].inviterBonus /\ q.paid = job[p].paid,
         LadderSound(st, q, granted, conv, book, campaign)
  PROVE  ReferralInv(st)'
<1>1. job[p].pc \in {"count", "tier", "tiercredit"} OBVIOUS
<1>2. /\ job[p] \in SomeJob(st)
      /\ \A u \in Parties : \A k \in DOMAIN st.tiers : GrantSound(st, u, k, granted, conv, book, campaign)
      /\ granted \subseteq Parties \X DOMAIN st.tiers /\ book \in Seq(BookRow(st))
      /\ purse \in [Purses -> Int] /\ faults \in Nat
  BY <1>1, LadderFacts
<1>3. q.pc # "tiercredit" BY DEF Idler
<1>4. LadderMove(st, job, conv, book, granted, campaign, faults, p, q, book, granted, faults')
  BY <1>1, <1>2, <1>3, SameBookIsSame DEF LadderMove
<1>5. LadderMove(st, job, conv, book, granted, campaign, faults, p, q, book', granted', faults')
  BY <1>4
<1>6. book' \in Seq(BookRow(st)) /\ purse' \in [Purses -> Int] /\ granted' \subseteq Parties \X DOMAIN st.tiers
  BY <1>2
<1>7. p \in st.invitees => q \in SomeJob(st) OBVIOUS
<1>8. UNCHANGED <<conv, campaign, invites, now, midnight>> OBVIOUS
<1> QED BY <1>5, <1>6, <1>7, <1>8, LadderStep

LEMMA MilestonesChecked ==
  ASSUME NEW st, R(st)!ReferralAssumption, ReferralInv(st), NEW p \in Work(st), R(st)!checkMilestones(p)
  PROVE  ReferralInv(st)'
<1> DEFINE u == Climber(st, job[p])
           qualified == {i \in R(st)!Conversions(u) : ~conv[i].fraud /\ conv[i].paid /\ conv[i].inviterBonus > 0}
           reached == {k \in DOMAIN st.tiers : st.tiers[k].threshold <= Cardinality(qualified)}
           q == [job[p] EXCEPT !.pc = "tier", !.tiers = reached]
<1>1. \A T : R(st)!Cardinality(T) = Cardinality(T) BY DEF R!Cardinality, Cardinality
<1>2. /\ job[p].pc = "count"
      /\ UNCHANGED <<purse, book, campaign, conv, granted, invites, now, midnight, faults>>
      /\ job' = [job EXCEPT ![p].pc = "tier", ![p].tiers = reached]
  <2>1. R(st)!countQualifiedInvites(u) = Cardinality(qualified)
    BY <1>1 DEF R!countQualifiedInvites
  <2>2. \A k : R(st)!Reached(st.tiers[k], R(st)!countQualifiedInvites(u))
               <=> st.tiers[k].threshold <= Cardinality(qualified)
    BY <2>1 DEF R!Reached
  <2>3. {k \in DOMAIN st.tiers : R(st)!Reached(st.tiers[k], R(st)!countQualifiedInvites(u))} = reached
    BY <2>2
  <2>4. job' = [job EXCEPT ![p].pc = "tier", ![p].tiers =
                  {k \in DOMAIN st.tiers : R(st)!Reached(st.tiers[k], R(st)!countQualifiedInvites(u))}]
    BY DEF R!checkMilestones, Climber
  <2> QED BY <2>3, <2>4 DEF R!checkMilestones, R!At
<1>3. job[p] \in SomeJob(st) /\ job \in [Work(st) -> {Idler} \cup SomeJob(st)] /\ u \in Parties /\ faults \in Nat
  BY <1>2, LadderFacts
<1>4. \A k \in reached : Climbed(st, k, u, conv, book, campaign)
  <2>1. ASSUME campaign.rewardOn = "first_spend"
        PROVE  qualified \subseteq Earners(st, conv, book, campaign, u)
    <3>1. ASSUME NEW i \in qualified PROVE i \in Earners(st, conv, book, campaign, u)
      <4>1. /\ i \in st.invitees /\ conv[i].recorded /\ st.inviter[i] = u /\ conv[i].paid
            /\ conv[i].inviterBonus > 0
        BY DEF R!Conversions
      <4>2. ConversionSound(conv[i], book, i, campaign) BY <4>1, RegistrationFacts
      <4>3. Spends(book, i) >= campaign.minSpend BY <2>1, <4>1, <4>2 DEF ConversionSound
      <4> QED BY <4>1, <4>3 DEF Earners
    <3> QED BY <3>1
  <2>2. IsFiniteSet(Earners(st, conv, book, campaign, u))
    <3>1. Earners(st, conv, book, campaign, u) \subseteq st.invitees BY DEF Earners
    <3> QED BY <3>1, ReferralConstants, FS_Subset
  <2> DEFINE E == Earners(st, conv, book, campaign, u)
  <2>3. ASSUME NEW k \in reached, campaign.rewardOn = "first_spend"
        PROVE  st.tiers[k].threshold <= Cardinality(E)
    <3> HIDE DEF qualified, E
    <3>1. IsFiniteSet(qualified) /\ Cardinality(qualified) <= Cardinality(E)
      BY <2>1, <2>2, <2>3, FS_Subset DEF E
    <3>2. Cardinality(qualified) \in Nat /\ Cardinality(E) \in Nat
      BY <2>2, <3>1, FS_CardinalityType DEF E
    <3>3. k \in DOMAIN st.tiers /\ st.tiers[k].threshold <= Cardinality(qualified) OBVIOUS
    <3>4. st.tiers[k].threshold \in Nat
      <4> DEFINE T == [threshold : Nat \ {0}, bonus : Nat \ {0}]
      <4>1. st.tiers \in Seq(T) BY ReferralConstants
      <4> HIDE DEF T
      <4>2. st.tiers[k] \in T BY <3>3, <4>1
      <4> QED BY <4>2 DEF T
    <3> QED BY <3>1, <3>2, <3>3, <3>4
  <2> QED BY <2>3 DEF Climbed
<1>5. reached \subseteq DOMAIN st.tiers OBVIOUS
<1> HIDE DEF reached
<1>6. "tier" \in R(st)!JobPcs BY DEF R!JobPcs
<1>7. /\ q \in SomeJob(st) /\ q.pc = "tier" /\ q.tiers = reached /\ q.invitee = job[p].invitee
      /\ q.fraud = job[p].fraud /\ q.matched = job[p].matched /\ q.inviterBonus = job[p].inviterBonus
      /\ q.paid = job[p].paid
      /\ job' = [job EXCEPT ![p] = q]
  BY <1>2, <1>3, <1>5, <1>6 DEF SomeJob
<1> HIDE DEF q
<1>8. LadderSound(st, q, granted, conv, book, campaign)
  BY <1>4, <1>7 DEF LadderSound, Climber
<1>9. q # Idler BY <1>7 DEF Idler
<1>10. faults' \in Nat /\ (faults' = 0 => faults = 0) BY <1>2, <1>3
<1> QED BY <1>2, <1>7, <1>8, <1>9, <1>10, QuietLadder

\* The next tier is the least of those left.
LEMMA NextIsLeast ==
  ASSUME NEW st, NEW p PROVE R(st)!NextTier(p) = Least(job[p].tiers)
BY DEF R!NextTier, Least

\* Fewer tiers to look at are as sound.
LEMMA FewerTiers ==
  ASSUME NEW st, NEW p, NEW q, NEW g, NEW cs, NEW l, NEW m, LadderSound(st, p, g, cs, l, m),
         p.pc \in {"tier", "tiercredit"}, q.pc = "tier", q.tiers \subseteq p.tiers, q.invitee = p.invitee
  PROVE  LadderSound(st, q, g, cs, l, m)
BY DEF LadderSound, Climber

\* Job p drops its next tier.
Dropped(st, p) == [job[p] EXCEPT !.pc = "tier", !.tiers = R(st)!Rest(p)]

LEMMA TierDropped ==
  ASSUME NEW st, R(st)!ReferralAssumption, ReferralInv(st), NEW p \in Work(st),
         job[p].pc = "tier" \/ job[p].pc = "tiercredit", NEW q, q = Dropped(st, p)
  PROVE  /\ q \in SomeJob(st) /\ q.pc = "tier" /\ q.invitee = job[p].invitee /\ q # Idler
         /\ q.fraud = job[p].fraud /\ q.matched = job[p].matched
         /\ q.inviterBonus = job[p].inviterBonus /\ q.paid = job[p].paid
         /\ q.tiers \subseteq job[p].tiers
         /\ LadderSound(st, q, granted, conv, book, campaign)
<1> DEFINE rest == R(st)!Rest(p)
<1>1. /\ job[p] \in SomeJob(st) /\ job[p].tiers \subseteq DOMAIN st.tiers
      /\ LadderSound(st, job[p], granted, conv, book, campaign)
  BY LadderFacts
<1>2. rest \subseteq job[p].tiers BY DEF R!Rest
<1> HIDE DEF rest
<1>3. q = [job[p] EXCEPT !.pc = "tier", !.tiers = rest] BY DEF rest, Dropped
<1>4. "tier" \in R(st)!JobPcs BY DEF R!JobPcs
<1>5. /\ q \in SomeJob(st) /\ q.pc = "tier" /\ q.invitee = job[p].invitee
      /\ q.fraud = job[p].fraud /\ q.matched = job[p].matched
      /\ q.inviterBonus = job[p].inviterBonus /\ q.paid = job[p].paid /\ q.tiers = rest
  BY <1>1, <1>2, <1>3, <1>4 DEF SomeJob
<1>6. LadderSound(st, q, granted, conv, book, campaign) BY <1>1, <1>2, <1>5, FewerTiers
<1>7. q # Idler BY <1>5 DEF Idler
<1> QED BY <1>2, <1>5, <1>6, <1>7

LEMMA TierGranted ==
  ASSUME NEW st, R(st)!ReferralAssumption, ReferralInv(st), NEW p \in Work(st), R(st)!GrantTier(p)
  PROVE  ReferralInv(st)'
<1> DEFINE u == Climber(st, job[p])
           k == Least(job[p].tiers)
<1>1. /\ job[p].pc = "tier" /\ job[p].tiers # {}
      /\ UNCHANGED <<purse, book, campaign, conv, invites, now, midnight, faults>>
  BY DEF R!GrantTier, R!At
<1>2. /\ job[p] \in SomeJob(st) /\ job \in [Work(st) -> {Idler} \cup SomeJob(st)]
      /\ u \in Parties /\ job[p].tiers \subseteq DOMAIN st.tiers
      /\ LadderSound(st, job[p], granted, conv, book, campaign)
      /\ \A v \in Parties : \A t \in DOMAIN st.tiers : GrantSound(st, v, t, granted, conv, book, campaign)
      /\ k \in job[p].tiers /\ k \in DOMAIN st.tiers
      /\ granted \subseteq Parties \X DOMAIN st.tiers /\ book \in Seq(BookRow(st))
      /\ purse \in [Purses -> Int] /\ faults \in Nat
  BY <1>1, LadderFacts
<1>3. CASE R(st)!capTripped \/ <<u, k>> \in granted
  <2> DEFINE q == Dropped(st, p)
  <2>1. job' = [job EXCEPT ![p].tiers = R(st)!Rest(p)] /\ granted' = granted
    BY <1>3, NextIsLeast DEF R!GrantTier, Climber
  <2>2. job' = [job EXCEPT ![p] = q] BY <1>1, <1>2, <2>1 DEF SomeJob, Dropped
  <2> HIDE DEF q
  <2>3. /\ q \in SomeJob(st) /\ q.pc = "tier" /\ q.invitee = job[p].invitee /\ q # Idler
        /\ q.fraud = job[p].fraud /\ q.matched = job[p].matched
        /\ q.inviterBonus = job[p].inviterBonus /\ q.paid = job[p].paid
        /\ LadderSound(st, q, granted, conv, book, campaign)
    BY <1>1, TierDropped DEF q
  <2>4. faults' \in Nat /\ (faults' = 0 => faults = 0) BY <1>1, <1>2
  <2> QED BY <1>1, <2>1, <2>2, <2>3, <2>4, QuietLadder
<1>4. CASE ~(R(st)!capTripped \/ <<u, k>> \in granted)
  <2> DEFINE q == [job[p] EXCEPT !.pc = "tiercredit"]
             e == granted \cup {<<u, k>>}
  <2>1. job' = [job EXCEPT ![p].pc = "tiercredit"] /\ granted' = e
    BY <1>4, NextIsLeast DEF R!GrantTier, Climber
  <2>2. "tiercredit" \in R(st)!JobPcs BY DEF R!JobPcs
  <2>3. /\ q \in SomeJob(st) /\ q.pc = "tiercredit" /\ q.invitee = job[p].invitee /\ q # Idler
        /\ q.fraud = job[p].fraud /\ q.matched = job[p].matched
        /\ q.inviterBonus = job[p].inviterBonus /\ q.paid = job[p].paid /\ q.tiers = job[p].tiers
        /\ job' = [job EXCEPT ![p] = q]
    BY <1>1, <1>2, <2>1, <2>2 DEF SomeJob, Idler
  <2>4. Climber(st, q) = u /\ Least(q.tiers) = k BY <2>3 DEF Climber
  <2> HIDE DEF q
  <2>5. TierRowsOf(book, u, k) = {}
    <3>1. GrantSound(st, u, k, granted, conv, book, campaign) BY <1>2
    <3> QED BY <1>4, <3>1 DEF GrantSound
  <2>6. \A t \in job[p].tiers : Climbed(st, t, u, conv, book, campaign)
    BY <1>1, <1>2 DEF LadderSound
  <2> HIDE DEF u, k
  <2>7. LadderSound(st, q, e, conv, book, campaign)
    BY <1>1, <2>3, <2>4, <2>5, <2>6 DEF LadderSound
  <2>8. ASSUME NEW v \in Parties, NEW t \in DOMAIN st.tiers
        PROVE  GrantSound(st, v, t, e, conv, book, campaign)
    <3>1. GrantSound(st, v, t, granted, conv, book, campaign) BY <1>2
    <3>2. CASE v = u /\ t = k
      <4>1. Climbed(st, t, v, conv, book, campaign) BY <1>2, <2>6, <3>2
      <4>2. TierRowsOf(book, v, t) = {} BY <2>5, <3>2
      <4> QED BY <3>1, <3>2, <4>1, <4>2 DEF GrantSound
    <3>3. CASE ~(v = u /\ t = k)
      <4>1. <<v, t>> \in e <=> <<v, t>> \in granted BY <3>3
      <4> QED BY <3>1, <4>1 DEF GrantSound
    <3> QED BY <3>2, <3>3
  <2>9. ASSUME NEW s \in Work(st) \ {p}, job[s].pc = "tiercredit", Climber(st, job[s]) = u,
               Least(job[s].tiers) = k
        PROVE  FALSE
    <3>1. job[s].pc \in {"count", "tier", "tiercredit"} BY <2>9
    <3>2. LadderSound(st, job[s], granted, conv, book, campaign) BY <3>1, LadderFacts
    <3> QED BY <1>4, <2>9, <3>2 DEF LadderSound
  <2>10. \A x \in e \ granted : q.pc = "tiercredit" /\ x[1] = Climber(st, q) /\ x[2] = Least(q.tiers)
    BY <2>3, <2>4
  <2>11. granted \subseteq e /\ e \subseteq Parties \X DOMAIN st.tiers BY <1>2
  <2> HIDE DEF e
  <2>12. LadderMove(st, job, conv, book, granted, campaign, faults, p, q, book, e, faults)
    BY <1>1, <1>2, <2>3, <2>4, <2>7, <2>8, <2>9, <2>10, <2>11, SameBookIsSame DEF LadderMove
  <2>13. LadderMove(st, job, conv, book, granted, campaign, faults, p, q, book', granted', faults')
    BY <1>1, <2>1, <2>12
  <2>14. /\ book' \in Seq(BookRow(st)) /\ purse' \in [Purses -> Int] /\ faults' \in Nat
         /\ granted' \subseteq Parties \X DOMAIN st.tiers
         /\ UNCHANGED <<conv, campaign, invites, now, midnight>>
    BY <1>1, <1>2, <2>1, <2>11
  <2> QED BY <2>3, <2>13, <2>14, LadderStep
<1> QED BY <1>3, <1>4

LEMMA TierCredited ==
  ASSUME NEW st, R(st)!ReferralAssumption, ReferralInv(st), NEW p \in Work(st), R(st)!CreditTier(p)
  PROVE  ReferralInv(st)'
<1> DEFINE u == Climber(st, job[p])
           k == Least(job[p].tiers)
           amount == st.tiers[k].bonus
           q == Dropped(st, p)
<1>1. /\ job[p].pc = "tiercredit"
      /\ R(st)!AddBalanceTx(u, "adjust", amount, <<"ref_tier", k>>, TRUE)
      /\ job' = [job EXCEPT ![p].pc = "tier", ![p].tiers = R(st)!Rest(p)]
      /\ UNCHANGED <<campaign, conv, granted, invites, now, midnight, faults>>
  BY NextIsLeast DEF R!CreditTier, R!At, R!Credit, R!BonusRef, Climber
<1>2. /\ job[p] \in SomeJob(st) /\ job \in [Work(st) -> {Idler} \cup SomeJob(st)]
      /\ u \in Parties
      /\ LadderSound(st, job[p], granted, conv, book, campaign)
      /\ \A v \in Parties : \A t \in DOMAIN st.tiers : GrantSound(st, v, t, granted, conv, book, campaign)
      /\ granted \subseteq Parties \X DOMAIN st.tiers /\ book \in Seq(BookRow(st))
      /\ purse \in [Purses -> Int] /\ faults \in Nat
      /\ job[p].tiers # {} => k \in DOMAIN st.tiers
  BY <1>1, LadderFacts
<1>3. job[p].tiers # {} /\ <<u, k>> \in granted /\ TierRowsOf(book, u, k) = {}
  BY <1>1, <1>2 DEF LadderSound
<1>4. k \in DOMAIN st.tiers /\ k \in Nat BY <1>2, <1>3, ReferralConstants
<1>5. amount \in Int
  <2> DEFINE T == [threshold : Nat \ {0}, bonus : Nat \ {0}]
  <2>1. st.tiers \in Seq(T) BY ReferralConstants
  <2> HIDE DEF T, k
  <2>2. st.tiers[k] \in T BY <1>4, <2>1
  <2> QED BY <2>2 DEF T
<1>6. <<"ref_tier", k>> \in (R(st)!BonusRefs \cup {"trial", "spend"}) \X (st.invitees \cup Nat)
  BY <1>4 DEF R!BonusRefs
<1>7. job' = [job EXCEPT ![p] = q] BY <1>1, <1>2 DEF Dropped
<1> HIDE DEF u, k, q, amount
<1>8. /\ q \in SomeJob(st) /\ q.pc = "tier" /\ q.invitee = job[p].invitee /\ q # Idler
      /\ q.fraud = job[p].fraud /\ q.matched = job[p].matched
      /\ q.inviterBonus = job[p].inviterBonus /\ q.paid = job[p].paid
      /\ LadderSound(st, q, granted, conv, book, campaign)
  BY <1>1, TierDropped DEF q
<1>9. PICK entry \in BookRow(st) :
        /\ entry.user = u /\ entry.kind = "adjust" /\ entry.amount = amount /\ entry.ref = <<"ref_tier", k>>
        /\ book' = Append(book, entry) /\ book' \in Seq(BookRow(st)) /\ purse' \in [Purses -> Int]
  BY <1>1, <1>2, <1>5, <1>6, BookPosts
<1> DEFINE n == book'
<1>10. OneMoreRow(st, book, n, entry) /\ entry.ref = <<"ref_tier", k>> /\ entry.kind = "adjust" /\ entry.user = u
  BY <1>2, <1>9 DEF OneMoreRow
<1> HIDE DEF n
<1>11. /\ \A x : SameBooks(book, n, x)
       /\ \A v, t : TierRowsOf(n, v, t) = TierRowsOf(book, v, t) \/ (v = u /\ t = k)
       /\ TierRowsOf(n, u, k) = TierRowsOf(book, u, k) \cup {Newest(book)}
  BY <1>10, RowAboutTier
<1>12. TierRowsOf(n, u, k) = {Newest(book)} BY <1>3, <1>11
<1>13. ASSUME NEW v, NEW t \in DOMAIN st.tiers, Climbed(st, t, v, conv, book, campaign)
       PROVE  Climbed(st, t, v, conv, n, campaign)
  <2>1. ASSUME NEW x \in st.invitees
        PROVE  Spends(book, x) \in Int /\ Spends(n, x) \in Int /\ Spends(n, x) >= Spends(book, x)
    <3>1. Spends(book, x) \in Nat BY RegistrationFacts DEF ConversionSound
    <3>2. Spends(n, x) = Spends(book, x) BY <1>11 DEF SameBooks
    <3> QED BY <3>1, <3>2
  <2>2. campaign.minSpend \in Nat BY DEF ReferralInv, RefShape
  <2> QED BY <1>13, <2>1, <2>2, ClimbedStays
<1>14. ASSUME NEW v \in Parties, NEW t \in DOMAIN st.tiers
       PROVE  GrantSound(st, v, t, granted, conv, n, campaign)
  <2>1. GrantSound(st, v, t, granted, conv, book, campaign) BY <1>2
  <2>2. <<v, t>> \in granted => Climbed(st, t, v, conv, n, campaign) BY <1>13, <2>1 DEF GrantSound
  <2>3. CASE v = u /\ t = k BY <1>3, <1>12, <2>2, <2>3 DEF GrantSound, AtMostOne
  <2>4. CASE ~(v = u /\ t = k) BY <1>11, <2>1, <2>2, <2>4 DEF GrantSound
  <2> QED BY <2>3, <2>4
<1>15. LadderSound(st, q, granted, conv, n, campaign)
  <2>1. \A t \in q.tiers : Climbed(st, t, Climber(st, q), conv, book, campaign)
    BY <1>8 DEF LadderSound
  <2>2. q.tiers \subseteq DOMAIN st.tiers BY <1>8 DEF SomeJob
  <2>3. \A t \in q.tiers : Climbed(st, t, Climber(st, q), conv, n, campaign)
    BY <1>13, <2>1, <2>2
  <2> QED BY <1>8, <2>3 DEF LadderSound
<1>16. u = Climber(st, job[p]) /\ k = Least(job[p].tiers) BY DEF u, k
<1>17. LadderMove(st, job, conv, book, granted, campaign, faults, p, q, n, granted, faults)
  BY <1>1, <1>2, <1>8, <1>11, <1>12, <1>14, <1>15, <1>16 DEF LadderMove
<1>18. /\ LadderMove(st, job, conv, book, granted, campaign, faults, p, q, book', granted', faults')
       /\ faults' \in Nat /\ granted' \subseteq Parties \X DOMAIN st.tiers
       /\ UNCHANGED <<conv, campaign, invites, now, midnight>>
  BY <1>1, <1>2, <1>17 DEF n
<1> QED BY <1>7, <1>8, <1>9, <1>18, LadderStep

\* A job that leaves the ladder.
LEMMA LadderLeft ==
  ASSUME NEW st, R(st)!ReferralAssumption, ReferralInv(st), NEW p \in Work(st),
         job[p].pc \in {"count", "tier"}, R(st)!Leave(p),
         UNCHANGED <<purse, book, conv, granted, campaign, invites, now, midnight>>,
         faults' \in Nat, faults' = 0 => faults = 0
  PROVE  ReferralInv(st)'
<1>1. job[p] \in SomeJob(st) /\ job \in [Work(st) -> {Idler} \cup SomeJob(st)] BY LadderFacts
<1>2. PICK q \in {Idler} \cup SomeJob(st) :
        /\ job' = [job EXCEPT ![p] = q] /\ (q = Idler => p \notin st.invitees)
        /\ q # Idler => /\ q.pc = "tail" /\ p \in st.invitees
                        /\ q.invitee = job[p].invitee /\ q.fraud = job[p].fraud /\ q.matched = job[p].matched
                        /\ q.inviterBonus = job[p].inviterBonus /\ q.paid = job[p].paid
  <2>1. CASE p \in st.invitees
    <3> DEFINE q == [job[p] EXCEPT !.pc = "tail"]
    <3>1. "tail" \in R(st)!JobPcs BY DEF R!JobPcs
    <3>2. job' = [job EXCEPT ![p] = q] BY <1>1, <2>1 DEF R!Leave
    <3>3. /\ q \in SomeJob(st) /\ q.pc = "tail" /\ q # Idler
          /\ q.invitee = job[p].invitee /\ q.fraud = job[p].fraud /\ q.matched = job[p].matched
          /\ q.inviterBonus = job[p].inviterBonus /\ q.paid = job[p].paid
      BY <1>1, <3>1 DEF SomeJob, Idler
    <3> HIDE DEF q
    <3> QED BY <2>1, <3>2, <3>3
  <2>2. CASE p \notin st.invitees BY <2>2, LeaveIsIdle
  <2> QED BY <2>1, <2>2
<1>3. LadderSound(st, q, granted, conv, book, campaign) BY <1>2 DEF LadderSound, Idler
<1>4. q = Idler => p \in Handlers \ st.invitees BY <1>2 DEF Work
<1> QED BY <1>2, <1>3, <1>4, QuietLadder

\* What a failed statement does to the job it fails.
LEMMA FailedJob ==
  ASSUME NEW st, ReferralInv(st), NEW p \in Work(st), R(st)!StatementFails(p)
  PROVE  /\ UNCHANGED <<purse, book, campaign, conv, granted, invites, now, midnight>>
         /\ faults' \in Nat /\ faults' # 0
         /\ \/ job[p].pc \in {"new", "insert"} /\ R(st)!Goto(p, "tail")
            \/ job[p].pc = "budget" /\ R(st)!Goto(p, "price")
            \/ job[p].pc = "invitee" /\ R(st)!Goto(p, "inviter")
            \/ job[p].pc = "inviter" /\ R(st)!Goto(p, "bump")
            \/ job[p].pc = "tail" /\ R(st)!Goto(p, "done")
            \/ job[p].pc = "tier" /\ job' = [job EXCEPT ![p].tiers = R(st)!Rest(p)]
            \/ job[p].pc = "tiercredit"
               /\ job' = [job EXCEPT ![p].pc = "tier", ![p].tiers = R(st)!Rest(p)]
            \/ job[p].pc \in {"count", "pending", "gates", "mark", "pay"} /\ R(st)!Leave(p)
<1>1. /\ UNCHANGED <<purse, book, campaign, conv, granted, invites, now, midnight>>
      /\ faults' = faults + 1
  BY DEF R!StatementFails
<1>2. faults' \in Nat /\ faults' # 0 BY <1>1 DEF ReferralInv
<1> QED BY <1>1, <1>2, Zenon DEF R!StatementFails, R!At

\* A registration that fails before its tiers.
LEMMA RegistrationFails ==
  ASSUME NEW st, R(st)!ReferralAssumption, ReferralInv(st), NEW i \in st.invitees, NEW pc,
         job' = [job EXCEPT ![i].pc = pc],
         UNCHANGED <<purse, book, campaign, conv, granted, invites, now, midnight>>,
         faults' \in Nat, faults' # 0,
         \/ job[i].pc \in {"new", "insert"} /\ pc = "tail"
         \/ job[i].pc = "budget" /\ pc = "price"
         \/ job[i].pc = "invitee" /\ pc = "inviter"
         \/ job[i].pc = "inviter" /\ pc = "bump"
         \/ job[i].pc = "tail" /\ pc = "done"
  PROVE  ReferralInv(st)'
<1> DEFINE j == [job[i] EXCEPT !.pc = pc]
<1>1. /\ job[i] \in SomeJob(st) /\ job \in [Work(st) -> {Idler} \cup SomeJob(st)] /\ i \in Work(st)
      /\ SignupSound(job[i], conv[i], book, i, campaign)
      /\ invites \in [Parties -> Nat]
  BY RegistrationFacts
<1>2. pc \in R(st)!JobPcs BY DEF R!JobPcs
<1>3. /\ j \in SomeJob(st) /\ j.pc = pc /\ j.invitee = job[i].invitee /\ j.matched = job[i].matched
      /\ j.paid = job[i].paid /\ j.inviterBonus = job[i].inviterBonus /\ j.fraud = job[i].fraud
      /\ j.inviteeBonus = job[i].inviteeBonus
  BY <1>1, <1>2 DEF SomeJob
<1>4. job' = [job EXCEPT ![i] = j] BY <1>1
<1> HIDE DEF j
<1>5. job[i].paid <=> ~(campaign.rewardOn = "first_spend" /\ job[i].inviterBonus > 0)
  BY <1>1 DEF SignupSound
<1>6. SignupSound(j, conv[i], book, i, campaign)
  <2>1. CASE job[i].pc \in EarlyPcs
    <3>1. j.pc \in EarlyPcs \/ j.pc = "tail" BY <1>3, <2>1 DEF EarlyPcs
    <3> QED BY <1>1, <1>3, <1>5, <2>1, <3>1, QuietSignup
  <2>2. CASE job[i].pc \notin EarlyPcs
    <3>1. \/ job[i].pc = "invitee" /\ j.pc = "inviter"
          \/ job[i].pc = "inviter" /\ j.pc = "bump"
          \/ job[i].pc = "tail" /\ j.pc = "done"
      BY <1>3, <2>2 DEF EarlyPcs
    <3> QED BY <1>1, <1>3, <1>5, <3>1 DEF SignupSound, EarlyPcs, PayingPcs
  <2> QED BY <2>1, <2>2
<1>7. job[i].pc \notin {"done", "tiercredit"} /\ j.pc \notin {"tier", "tiercredit"} BY <1>3
<1>8. faults' = 0 => faults = 0 /\ SignupPaid(i, j, conv[i], book, FALSE) OBVIOUS
<1>9. invites' \in [Parties -> Nat] BY <1>1
<1> QED BY <1>3, <1>4, <1>6, <1>7, <1>8, <1>9, QuietRegistration

LEMMA FailureIsHeld ==
  ASSUME NEW st, R(st)!ReferralAssumption, ReferralInv(st), NEW p \in Work(st), R(st)!StatementFails(p)
  PROVE  ReferralInv(st)'
<1>1. /\ UNCHANGED <<purse, book, campaign, conv, granted, invites, now, midnight>>
      /\ faults' \in Nat /\ faults' # 0
  BY FailedJob
<1> DEFINE pc == job[p].pc
<1>2. CASE pc \in {"new", "insert", "budget", "invitee", "inviter", "tail"}
  <2>1. p \in st.invitees
    <3>1. ASSUME p \in Handlers PROVE FALSE
      <4>1. pc \in ReleasePcs BY <1>2, <3>1, ReleaserFacts
      <4> QED BY <1>2, <4>1 DEF ReleasePcs
    <3> QED BY <3>1 DEF Work
  <2>2. \/ job[p].pc \in {"new", "insert"} /\ R(st)!Goto(p, "tail")
        \/ job[p].pc = "budget" /\ R(st)!Goto(p, "price")
        \/ job[p].pc = "invitee" /\ R(st)!Goto(p, "inviter")
        \/ job[p].pc = "inviter" /\ R(st)!Goto(p, "bump")
        \/ job[p].pc = "tail" /\ R(st)!Goto(p, "done")
    BY <1>2, FailedJob
  <2>3. PICK to : /\ job' = [job EXCEPT ![p].pc = to]
                  /\ \/ job[p].pc \in {"new", "insert"} /\ to = "tail"
                     \/ job[p].pc = "budget" /\ to = "price"
                     \/ job[p].pc = "invitee" /\ to = "inviter"
                     \/ job[p].pc = "inviter" /\ to = "bump"
                     \/ job[p].pc = "tail" /\ to = "done"
    BY <2>2, Zenon DEF R!Goto
  <2> QED BY <1>1, <2>1, <2>3, RegistrationFails
<1>3. CASE pc \in {"tier", "tiercredit"}
  <2> DEFINE q == Dropped(st, p)
  <2>0. job[p] \in SomeJob(st) /\ job \in [Work(st) -> {Idler} \cup SomeJob(st)] BY <1>3, LadderFacts
  <2>1. /\ q \in SomeJob(st) /\ q.pc = "tier" /\ q.invitee = job[p].invitee /\ q # Idler
        /\ q.fraud = job[p].fraud /\ q.matched = job[p].matched
        /\ q.inviterBonus = job[p].inviterBonus /\ q.paid = job[p].paid
        /\ LadderSound(st, q, granted, conv, book, campaign)
    BY <1>3, TierDropped
  <2>2. job' = [job EXCEPT ![p] = q]
    <3>1. CASE pc = "tier"
      <4>1. job' = [job EXCEPT ![p].tiers = R(st)!Rest(p)] BY <3>1, FailedJob
      <4> QED BY <2>0, <3>1, <4>1 DEF Dropped, SomeJob
    <3>2. CASE pc = "tiercredit"
      <4>1. job' = [job EXCEPT ![p].pc = "tier", ![p].tiers = R(st)!Rest(p)] BY <3>2, FailedJob
      <4> QED BY <2>0, <4>1 DEF Dropped
    <3> QED BY <1>3, <3>1, <3>2
  <2>3. job[p].pc \in {"count", "tier"} \/ (job[p].pc = "tiercredit" /\ faults' # 0) BY <1>1, <1>3
  <2> HIDE DEF q
  <2> QED BY <1>1, <2>1, <2>2, <2>3, QuietLadder
<1>4. CASE pc = "count"
  <2>1. R(st)!Leave(p) BY <1>4, FailedJob
  <2> QED BY <1>1, <1>4, <2>1, LadderLeft
<1>5. CASE pc \in {"pending", "gates", "mark", "pay"}
  <2>1. R(st)!Leave(p) BY <1>5, FailedJob
  <2>2. p \notin st.invitees
    <3> SUFFICES ASSUME p \in st.invitees PROVE FALSE OBVIOUS
    <3>1. SignupSound(job[p], conv[p], book, p, campaign) BY RegistrationFacts
    <3> QED BY <1>5, <3>1 DEF SignupSound, EarlyPcs, PayingPcs
  <2>3. p \in Handlers /\ job' = [job EXCEPT ![p] = Idler] BY <2>1, <2>2, LeaveIsIdle DEF Work
  <2>4. job[p].pc \notin {"idle", "tiercredit", "pay"} \/ (job[p].pc = "pay" /\ faults' # 0)
    BY <1>1, <1>5
  <2>5. Idler.pc \notin {"tier", "tiercredit", "pay"} BY DEF Idler
  <2> QED BY <1>1, <2>3, <2>4, <2>5, QuietReleaser
<1> QED BY <1>2, <1>3, <1>4, <1>5, FailedJob

LEMMA TiersAreDone ==
  ASSUME NEW st, R(st)!ReferralAssumption, ReferralInv(st), NEW p \in Work(st), R(st)!TiersDone(p)
  PROVE  ReferralInv(st)'
<1>1. /\ job[p].pc = "tier" /\ R(st)!Leave(p)
      /\ UNCHANGED <<purse, book, conv, granted, campaign, invites, now, midnight, faults>>
  BY DEF R!TiersDone, R!At
<1>2. faults' \in Nat /\ (faults' = 0 => faults = 0) BY <1>1 DEF ReferralInv
<1> QED BY <1>1, <1>2, LadderLeft

\* A crash leaves no job in the middle of a payment.
LEMMA CrashIsHeld ==
  ASSUME NEW st, R(st)!ReferralAssumption, ReferralInv(st), R(st)!Crash
  PROVE  ReferralInv(st)'
<1> DEFINE jd == job'
           h == faults'
<1>1. /\ RefShape(st, job, conv, book, granted, campaign)
      /\ RefSound(st, job, conv, book, granted, campaign, faults)
      /\ purse \in [Purses -> Int] /\ invites \in [Parties -> Nat]
      /\ now \in Nat /\ midnight \in Nat /\ faults \in Nat
  BY DEF ReferralInv
<1>2. /\ faults' = faults + 1
      /\ UNCHANGED <<purse, book, campaign, conv, granted, invites, now, midnight>>
      /\ jd = [p \in Work(st) |->
                IF p \in Handlers THEN Idler
                ELSE IF job[p].pc = "new" THEN job[p] ELSE [job[p] EXCEPT !.pc = "done"]]
  BY DEF R!Crash, R!At, R!Jobs, R!IdleReleaser, Idler, Work
<1>3. h \in Nat /\ h # 0 BY <1>1, <1>2
<1>4. /\ st.invitees \subseteq Work(st) /\ Handlers \subseteq Work(st)
      /\ Work(st) = st.invitees \cup Handlers /\ st.invitees \cap Handlers = {}
  BY ReferralConstants DEF Work
<1>5. \A r \in Handlers : jd[r] = Idler BY <1>2, <1>4
<1>6. ASSUME NEW i \in st.invitees
      PROVE  /\ jd[i] \in SomeJob(st) /\ jd[i].pc \in {"new", "done"}
             /\ SignupSound(jd[i], conv[i], book, i, campaign)
  <2>1. job[i] \in SomeJob(st) /\ SignupSound(job[i], conv[i], book, i, campaign) BY RegistrationFacts
  <2>2. CASE job[i].pc = "new" BY <1>2, <1>4, <2>1, <2>2
  <2>3. CASE job[i].pc # "new"
    <3>1. jd[i] = [job[i] EXCEPT !.pc = "done"] BY <1>2, <1>4, <2>3
    <3>2. "done" \in R(st)!JobPcs BY DEF R!JobPcs
    <3> DEFINE j == job[i]
               k == jd[i]
    <3>3. /\ k \in SomeJob(st) /\ k.pc = "done" /\ k.invitee = j.invitee /\ k.matched = j.matched
          /\ k.paid = j.paid /\ k.inviterBonus = j.inviterBonus /\ k.fraud = j.fraud
      BY <2>1, <3>1, <3>2 DEF SomeJob
    <3> HIDE DEF j, k
    <3>4. SignupSound(j, conv[i], book, i, campaign) BY <2>1 DEF j
    <3>5. SignupSound(k, conv[i], book, i, campaign)
      BY <3>3, <3>4 DEF SignupSound, EarlyPcs, PayingPcs
    <3> QED BY <3>3, <3>5 DEF k
  <2> QED BY <2>2, <2>3
<1> HIDE DEF jd, h
<1>7. jd \in [Work(st) -> {Idler} \cup SomeJob(st)]
  <2>1. jd = [p \in Work(st) |-> jd[p]] BY <1>2
  <2>2. \A p \in Work(st) : jd[p] \in {Idler} \cup SomeJob(st) BY <1>4, <1>5, <1>6
  <2> QED BY <2>1, <2>2
<1>8. RefShape(st, jd, conv, book, granted, campaign) BY <1>1, <1>6, <1>7 DEF RefShape
<1>9. \A p \in Work(st) : jd[p].pc \in {"idle", "new", "done"} BY <1>4, <1>5, <1>6 DEF Idler
<1>10. Signups(st, jd, conv, book, campaign) BY <1>1, <1>6 DEF RefSound, Signups
<1>11. Releases(jd, conv, book, campaign) BY <1>5 DEF Releases
<1>12. OnePayer(jd) BY <1>4, <1>9 DEF OnePayer
<1>13. Ladders(st, jd, granted, conv, book, campaign) BY <1>9 DEF Ladders, LadderSound
<1>14. OnePayerOfTier(st, jd) BY <1>9 DEF OnePayerOfTier
<1>15. RefSound(st, jd, conv, book, granted, campaign, h)
  BY <1>1, <1>3, <1>10, <1>11, <1>12, <1>13, <1>14 DEF RefSound
<1>16. RefShape(st, job', conv', book', granted', campaign') BY <1>2, <1>8 DEF jd
<1>17. RefSound(st, job', conv', book', granted', campaign', faults') BY <1>2, <1>15 DEF jd, h
<1> QED BY <1>1, <1>2, <1>3, <1>16, <1>17 DEF ReferralInv, h

\* The operator pauses the campaign or resumes it: nothing on record depends on it.
LEMMA StatusIsHeld ==
  ASSUME NEW st, R(st)!ReferralAssumption, ReferralInv(st), R(st)!SetStatus
  PROVE  ReferralInv(st)'
<1> DEFINE m == campaign'
<1>1. /\ RefShape(st, job, conv, book, granted, campaign)
      /\ RefSound(st, job, conv, book, granted, campaign, faults)
      /\ purse \in [Purses -> Int] /\ invites \in [Parties -> Nat]
      /\ now \in Nat /\ midnight \in Nat /\ faults \in Nat
  BY DEF ReferralInv
<1>2. /\ m = [campaign EXCEPT !.status = IF campaign.status = "active" THEN "paused" ELSE "active"]
      /\ UNCHANGED <<purse, book, conv, granted, invites, job, now, midnight, faults>>
  BY DEF R!SetStatus
<1>3. /\ m \in [status : {"active", "paused"}, inviteeBonus : Nat, inviterBonus : Nat,
               rewardOn : {"signup", "first_spend"}, maxRewarded : Nat,
               dailyBudget : Nat, minSpend : Nat, dailyInviteCap : Nat]
      /\ m.rewardOn = campaign.rewardOn /\ m.minSpend = campaign.minSpend
  BY <1>1, <1>2 DEF RefShape
<1> HIDE DEF m
<1>4. RefShape(st, job, conv, book, granted, m) BY <1>1, <1>3 DEF RefShape
<1>5. \A u : Earners(st, conv, book, m, u) = Earners(st, conv, book, campaign, u)
  BY <1>3 DEF Earners
<1>6. \A k, u : Climbed(st, k, u, conv, book, m) <=> Climbed(st, k, u, conv, book, campaign)
  BY <1>3, <1>5 DEF Climbed
<1>7. Signups(st, job, conv, book, m)
  BY <1>1, <1>3 DEF RefSound, Signups, SignupSound, ConversionSound
<1>8. Releases(job, conv, book, m) BY <1>1, <1>3 DEF RefSound, Releases, ReleaseSound
<1>9. Ladders(st, job, granted, conv, book, m) BY <1>1, <1>6 DEF RefSound, Ladders, LadderSound
<1>10. ASSUME NEW u \in Parties, NEW k \in DOMAIN st.tiers
       PROVE  GrantSound(st, u, k, granted, conv, book, m)
  <2>1. GrantSound(st, u, k, granted, conv, book, campaign) BY <1>1 DEF RefSound, GrantsSound
  <2>2. Climbed(st, k, u, conv, book, m) <=> Climbed(st, k, u, conv, book, campaign) BY <1>6
  <2> QED BY <2>1, <2>2, Zenon DEF GrantSound
<1>11. RefSound(st, job, conv, book, granted, m, faults)
  BY <1>1, <1>7, <1>8, <1>9, <1>10 DEF RefSound, GrantsSound
<1>12. RefShape(st, job', conv', book', granted', campaign') BY <1>2, <1>4 DEF m
<1>13. RefSound(st, job', conv', book', granted', campaign', faults') BY <1>2, <1>11 DEF m
<1> QED BY <1>1, <1>2, <1>12, <1>13 DEF ReferralInv

LEMMA NightIsHeld ==
  ASSUME NEW st, R(st)!ReferralAssumption, ReferralInv(st), R(st)!Tick
  PROVE  ReferralInv(st)'
<1>1. /\ UNCHANGED <<purse, book, campaign, conv, granted, invites, job, faults>>
      /\ now' = now + 1 /\ midnight' \in {midnight, Len(book)}
  BY DEF R!Tick
<1>2. now' \in Nat /\ midnight' \in Nat BY <1>1 DEF ReferralInv, RefShape
<1>3. /\ RefShape(st, job', conv', book', granted', campaign')
      /\ RefSound(st, job', conv', book', granted', campaign', faults')
  BY <1>1 DEF ReferralInv
<1> QED BY <1>1, <1>2, <1>3 DEF ReferralInv

LEMMA ReferralStands ==
  ASSUME NEW st, ReferralInv(st), UNCHANGED referral PROVE ReferralInv(st)'
<1>1. UNCHANGED <<purse, book, campaign, conv, granted, invites, job, now, midnight, faults>>
  BY DEF referral
<1>2. /\ RefShape(st, job', conv', book', granted', campaign')
      /\ RefSound(st, job', conv', book', granted', campaign', faults')
  BY <1>1 DEF ReferralInv
<1> QED BY <1>1, <1>2 DEF ReferralInv

\* At first nothing is on record, and nobody has moved.
LEMMA ReferralStarts ==
  ASSUME NEW st, R(st)!ReferralAssumption, R(st)!Init
  PROVE  ReferralInv(st)
<1>1. /\ purse = [w \in Purses |-> 0] /\ book = << >> /\ campaign \in Offers
      /\ conv = [i \in st.invitees |-> NoConversion] /\ granted = {}
      /\ invites = [u \in Parties |-> 0] /\ now = 0 /\ midnight = 0 /\ faults = 0
      /\ job = [p \in Work(st) |-> IF p \in st.invitees THEN R(st)!Fresh(p, "new") ELSE Idler]
  BY DEF R!Init, R!WalletInit, R!NoConversion, NoConversion, R!Jobs, Work, R!IdleReleaser, Idler
<1>2. /\ st.invitees \subseteq Work(st) /\ Handlers \subseteq Work(st)
      /\ Work(st) = st.invitees \cup Handlers /\ st.invitees \cap Handlers = {}
  BY ReferralConstants DEF Work
<1>3. campaign \in [status : {"active", "paused"}, inviteeBonus : Nat, inviterBonus : Nat,
                    rewardOn : {"signup", "first_spend"}, maxRewarded : Nat,
                    dailyBudget : Nat, minSpend : Nat, dailyInviteCap : Nat]
  BY <1>1 DEF R!ReferralAssumption
<1>4. ASSUME NEW i \in st.invitees
      PROVE  /\ job[i] \in SomeJob(st) /\ job[i].pc = "new" /\ job[i].invitee = i /\ job[i].paid
             /\ job[i].inviterBonus = 0 /\ ~job[i].matched
             /\ ~conv[i].recorded
  <2>1. job[i] = R(st)!Fresh(i, "new") /\ conv[i] = NoConversion BY <1>1, <1>2
  <2>2. "new" \in R(st)!JobPcs BY DEF R!JobPcs
  <2> QED BY <2>1, <2>2 DEF R!Fresh, SomeJob, NoConversion
<1>5. \A r \in Handlers : job[r] = Idler BY <1>1, <1>2
<1>6. job \in [Work(st) -> {Idler} \cup SomeJob(st)]
  <2>1. \A p \in Work(st) : job[p] \in {Idler} \cup SomeJob(st) BY <1>2, <1>4, <1>5
  <2>2. job = [p \in Work(st) |-> job[p]] BY <1>1
  <2> QED BY <2>1, <2>2
<1>7. \A p \in Work(st) : job[p].pc \in {"idle", "new"} BY <1>2, <1>4, <1>5 DEF Idler
<1>8. \A ref : RowsOf(book, ref) = {} BY <1>1 DEF RowsOf
<1>9. ASSUME NEW i PROVE Spends(book, i) = 0
  <2>1. [k \in 1..Len(book) |-> IF book[k].user = i /\ book[k].kind = "charge" THEN -book[k].amount ELSE 0]
          = << >>
    BY <1>1
  <2> QED BY <2>1, TotalEmpty DEF Spends
<1> HIDE DEF RowsOf
<1>10. ASSUME NEW i \in st.invitees
       PROVE  SignupSound(job[i], conv[i], book, i, campaign) /\ ConversionSound(conv[i], book, i, campaign)
  <2>1. WelcomeRows(book, i) = {} /\ InviterRows(book, i) = {} /\ RowsOf(book, <<"ref_invitee", i>>) = {}
    BY <1>8 DEF WelcomeRows, InviterRows
  <2>2. SignupSound(job[i], conv[i], book, i, campaign)
    BY <1>4, <2>1 DEF SignupSound, EarlyPcs, PayingPcs, AtMostOne
  <2>3. ConversionSound(conv[i], book, i, campaign) BY <1>4, <1>9, <2>1 DEF ConversionSound, AtMostOne
  <2> QED BY <2>2, <2>3
<1>11. Signups(st, job, conv, book, campaign) BY <1>10 DEF Signups
<1>12. Releases(job, conv, book, campaign) BY <1>5 DEF Releases
<1>13. OnePayer(job) BY <1>2, <1>7 DEF OnePayer
<1>14. Ladders(st, job, granted, conv, book, campaign) BY <1>7 DEF Ladders, LadderSound
<1>15. OnePayerOfTier(st, job) BY <1>7 DEF OnePayerOfTier
<1>16. GrantsSound(st, granted, conv, book, campaign)
  <2>1. \A u, k : TierRowsOf(book, u, k) = {} BY <1>8 DEF TierRowsOf
  <2> QED BY <1>1, <2>1 DEF GrantsSound, GrantSound, AtMostOne
<1>17. PaidUp(st, job, conv, granted, book) BY <1>1, <1>4 DEF PaidUp, SignupPaid
<1>18. book \in Seq(BookRow(st)) /\ granted \subseteq Parties \X DOMAIN st.tiers BY <1>1
<1>19. conv \in [st.invitees -> {NoConversion} \cup Conversion] BY <1>1
<1>20. RefShape(st, job, conv, book, granted, campaign) BY <1>3, <1>4, <1>6, <1>18, <1>19 DEF RefShape
<1>21. RefSound(st, job, conv, book, granted, campaign, faults)
  BY <1>11, <1>12, <1>13, <1>14, <1>15, <1>16, <1>17 DEF RefSound
<1> QED BY <1>1, <1>20, <1>21 DEF ReferralInv

\* A set of rows of a book whose members are the same has one at most.
LEMMA AtMostOneRow ==
  ASSUME NEW T, AtMostOne(T) PROVE Cardinality(T) <= 1
<1>1. CASE T = {} BY <1>1, FS_EmptySet
<1>2. CASE T # {}
  <2>1. PICK x \in T : TRUE BY <1>2
  <2>2. T = {x} BY <2>1 DEF AtMostOne
  <2>3. Cardinality({x}) = 1 BY FS_Singleton
  <2> QED BY <2>2, <2>3
<1> QED BY <1>1, <1>2

LEMMA ReferralIsHeld ==
  ASSUME NEW st, R(st)!ReferralAssumption, ReferralInv(st)
  PROVE  R(st)!ReferralHolds
<1>1. /\ RefShape(st, job, conv, book, granted, campaign)
      /\ RefSound(st, job, conv, book, granted, campaign, faults)
      /\ purse \in [Purses -> Int] /\ invites \in [Parties -> Nat]
      /\ now \in Nat /\ midnight \in Nat /\ faults \in Nat
  BY DEF ReferralInv
<1>2. \A T : R(st)!Cardinality(T) = Cardinality(T) BY DEF R!Cardinality, Cardinality
<1>3. \A what, x : R(st)!Rows(what, x) = RowsOf(book, <<what, x>>) BY DEF R!Rows, R!BonusRef, RowsOf
<1>4. \A u, k : R(st)!TierRows(u, k) = TierRowsOf(book, u, k) BY <1>3 DEF R!TierRows, TierRowsOf
<1>5. R(st)!Jobs = Work(st) /\ R(st)!IdleReleaser = Idler /\ R(st)!NoConversion = NoConversion
  BY DEF R!Jobs, Work, R!IdleReleaser, Idler, R!NoConversion, NoConversion
<1>6. ASSUME NEW i \in st.invitees
      PROVE  SignupSound(job[i], conv[i], book, i, campaign) /\ ConversionSound(conv[i], book, i, campaign)
  BY RegistrationFacts
<1>7. ASSUME NEW u \in Parties, NEW k \in DOMAIN st.tiers
      PROVE  GrantSound(st, u, k, granted, conv, book, campaign)
  BY <1>1 DEF RefSound, GrantsSound
<1>8. granted \subseteq Parties \X DOMAIN st.tiers BY <1>1 DEF RefShape
<1>9. R(st)!TypeOK
  <2>1. /\ book \in Seq(BookRow(st)) /\ campaign.status \in {"active", "paused"}
        /\ conv \in [st.invitees -> {NoConversion} \cup Conversion]
        /\ job \in [Work(st) -> {Idler} \cup SomeJob(st)]
    BY <1>1 DEF RefShape
  <2> QED BY <1>1, <1>5, <1>8, <2>1, Zenon DEF R!TypeOK, BookRow, Conversion, SomeJob
<1>10. R(st)!BonusesBackedOnce
  <2>1. ASSUME NEW i \in st.invitees
        PROVE  /\ R(st)!Cardinality(R(st)!Rows("ref_invitee", i)) <= 1
               /\ R(st)!Cardinality(R(st)!Rows("ref_inviter", i)) <= 1
               /\ \A k \in R(st)!Rows("ref_invitee", i) :
                    conv[i].recorded /\ book[k].amount = conv[i].inviteeBonus
               /\ \A k \in R(st)!Rows("ref_inviter", i) :
                    conv[i].recorded /\ conv[i].paid /\ book[k].amount = conv[i].inviterBonus
    <3> DEFINE welcomed == RowsOf(book, <<"ref_invitee", i>>)
               rewarded == RowsOf(book, <<"ref_inviter", i>>)
    <3>1. AtMostOne(WelcomeRows(book, i)) BY <1>6 DEF SignupSound
    <3>2. AtMostOne(welcomed) BY <3>1 DEF AtMostOne, WelcomeRows
    <3>3. AtMostOne(rewarded) BY <1>6 DEF ConversionSound, InviterRows
    <3>4. /\ \A k \in welcomed : conv[i].recorded /\ book[k].amount = conv[i].inviteeBonus
          /\ \A k \in rewarded :
               conv[i].recorded /\ conv[i].paid /\ book[k].amount = conv[i].inviterBonus
      BY <1>6 DEF ConversionSound, InviterRows
    <3>5. R(st)!Rows("ref_invitee", i) = welcomed /\ R(st)!Rows("ref_inviter", i) = rewarded BY <1>3
    <3> HIDE DEF welcomed, rewarded
    <3> QED BY <1>2, <3>2, <3>3, <3>4, <3>5, AtMostOneRow
  <2>2. ASSUME NEW u \in Parties, NEW k \in DOMAIN st.tiers
        PROVE  /\ R(st)!Cardinality(R(st)!TierRows(u, k)) <= 1
               /\ R(st)!TierRows(u, k) # {} => <<u, k>> \in granted
    <3>1. AtMostOne(TierRowsOf(book, u, k)) /\ (TierRowsOf(book, u, k) # {} => <<u, k>> \in granted)
      BY <1>7 DEF GrantSound
    <3> QED BY <1>2, <1>4, <3>1, AtMostOneRow
  <2> QED BY ONLY <2>1, <2>2, Zenon DEF R!BonusesBackedOnce
<1>11. R(st)!RecordedIsPaid
  <2> SUFFICES ASSUME faults = 0
               PROVE  /\ \A i \in st.invitees : conv[i].recorded /\ ~conv[i].fraud =>
                           /\ conv[i].inviteeBonus > 0 =>
                                R(st)!Rows("ref_invitee", i) # {} \/ job[i].pc = "invitee"
                           /\ conv[i].inviterBonus > 0 /\ conv[i].paid =>
                                \/ R(st)!Rows("ref_inviter", i) # {}
                                \/ job[i].pc \in {"invitee", "inviter"}
                                \/ \E r \in Handlers : job[r].pc = "pay" /\ job[r].invitee = i
                      /\ \A g \in granted :
                           \/ R(st)!TierRows(g[1], g[2]) # {}
                           \/ \E p \in R(st)!Jobs :
                                /\ job[p].pc = "tiercredit"
                                /\ st.inviter[job[p].invitee] = g[1] /\ R(st)!NextTier(p) = g[2]
    BY Zenon DEF R!RecordedIsPaid, R!At
  <2>1. PaidUp(st, job, conv, granted, book) BY <1>1 DEF RefSound
  <2>2. ASSUME NEW i \in st.invitees, conv[i].recorded, ~conv[i].fraud
        PROVE  /\ conv[i].inviteeBonus > 0 =>
                    R(st)!Rows("ref_invitee", i) # {} \/ job[i].pc = "invitee"
               /\ conv[i].inviterBonus > 0 /\ conv[i].paid =>
                    \/ R(st)!Rows("ref_inviter", i) # {}
                    \/ job[i].pc \in {"invitee", "inviter"}
                    \/ \E r \in Handlers : job[r].pc = "pay" /\ job[r].invitee = i
    <3>1. SignupPaid(i, job[i], conv[i], book, Releasing(job, i)) BY <2>1 DEF PaidUp
    <3>2. /\ R(st)!Rows("ref_invitee", i) = RowsOf(book, <<"ref_invitee", i>>)
          /\ R(st)!Rows("ref_inviter", i) = InviterRows(book, i)
      BY <1>3 DEF InviterRows
    <3> QED BY ONLY <2>2, <3>1, <3>2, Zenon DEF SignupPaid, Releasing
  <2>3. ASSUME NEW x \in granted
        PROVE  \/ R(st)!TierRows(x[1], x[2]) # {}
               \/ \E p \in R(st)!Jobs :
                    /\ job[p].pc = "tiercredit"
                    /\ st.inviter[job[p].invitee] = x[1] /\ R(st)!NextTier(p) = x[2]
    <3>1. TierRowsOf(book, x[1], x[2]) # {} \/ PayingTier(st, job, x[1], x[2]) BY <2>1 DEF PaidUp
    <3> QED BY <1>4, <1>5, <3>1, NextIsLeast DEF PayingTier, Climber
  <2> QED BY <2>2, <2>3
<1>12. R(st)!RewardsAreEarned
  <2> SUFFICES ASSUME campaign.rewardOn = "first_spend"
               PROVE  /\ \A i \in st.invitees :
                           RowsOf(book, <<"ref_inviter", i>>) # {} => Spends(book, i) >= campaign.minSpend
                      /\ \A x \in granted :
                           st.tiers[x[2]].threshold <=
                             Cardinality({i \in R(st)!Conversions(x[1]) :
                                            /\ conv[i].inviterBonus > 0
                                            /\ R(st)!inviteeSpend(i) >= campaign.minSpend})
    BY <1>2, <1>3, SpendsIsSpends DEF R!RewardsAreEarned
  <2>1. ASSUME NEW i \in st.invitees, RowsOf(book, <<"ref_inviter", i>>) # {}
        PROVE  Spends(book, i) >= campaign.minSpend
    <3>1. PICK k \in InviterRows(book, i) : TRUE BY <2>1 DEF InviterRows
    <3>2. ConversionSound(conv[i], book, i, campaign) BY <1>6
    <3> QED BY <3>1, <3>2 DEF ConversionSound
  <2>2. ASSUME NEW x \in granted
        PROVE  st.tiers[x[2]].threshold <=
                 Cardinality({i \in R(st)!Conversions(x[1]) :
                                /\ conv[i].inviterBonus > 0
                                /\ R(st)!inviteeSpend(i) >= campaign.minSpend})
    <3>1. x[1] \in Parties /\ x[2] \in DOMAIN st.tiers /\ <<x[1], x[2]>> \in granted BY <1>8
    <3>2. Climbed(st, x[2], x[1], conv, book, campaign) BY <1>7, <3>1 DEF GrantSound
    <3>3. {i \in R(st)!Conversions(x[1]) :
             conv[i].inviterBonus > 0 /\ R(st)!inviteeSpend(i) >= campaign.minSpend}
            = Earners(st, conv, book, campaign, x[1])
      BY SpendsIsSpends DEF R!Conversions, Earners
    <3> QED BY <3>2, <3>3 DEF Climbed
  <2> QED BY <2>1, <2>2
<1>13. R(st)!OneWelcome
  <2> SUFFICES ASSUME NEW i \in st.invitees
               PROVE  /\ Cardinality(WelcomeRows(book, i)) <= 1
                      /\ job[i].fraud => WelcomeRows(book, i) = {}
    BY <1>2, <1>3 DEF R!OneWelcome, WelcomeRows
  <2>1. AtMostOne(WelcomeRows(book, i)) /\ (job[i].fraud => WelcomeRows(book, i) = {})
    BY <1>6 DEF SignupSound
  <2> QED BY <2>1, AtMostOneRow
<1> QED BY <1>9, <1>10, <1>11, <1>12, <1>13 DEF R!ReferralHolds

LEMMA ReferralStep ==
  ASSUME NEW st, R(st)!ReferralAssumption, ReferralInv(st), R(st)!Next \/ UNCHANGED referral
  PROVE  ReferralInv(st)'
<1>1. CASE \E i \in st.invitees : R(st)!Register(i)
  <2>1. PICK i \in st.invitees : R(st)!Register(i) BY <1>1
  <2>2. \/ R(st)!grantInvite(i) \/ R(st)!CheckBudget(i) \/ R(st)!PriceConversion(i)
        \/ R(st)!insertConversion(i) \/ R(st)!BumpInvites(i)
        \/ R(st)!CreditInvitee(i) \/ R(st)!CreditInviter(i) \/ R(st)!RegisterTail(i)
    BY <2>1 DEF R!Register
  <2> QED BY <2>2, InviteGranted, ConversionInserted, InvitesBumped, SignupCredited
<1>2. CASE \E r \in Handlers : R(st)!Release(r)
  <2>1. PICK r \in Handlers : R(st)!Release(r) BY <1>2
  <2>2. \/ R(st)!ReleasePending(r) \/ R(st)!ReleaseGates(r)
        \/ R(st)!ReleaseMark(r) \/ R(st)!ReleasePay(r)
    BY <2>1 DEF R!Release
  <2> QED BY <2>2, ReleaseLooked, ReleaseMarked, ReleasePaid
<1>3. CASE \E i \in st.invitees, r \in Handlers : R(st)!Spend(i, r) BY <1>3, Spent
<1>4. CASE \E p \in R(st)!Jobs : \/ R(st)!checkMilestones(p) \/ R(st)!GrantTier(p) \/ R(st)!CreditTier(p)
                                 \/ R(st)!TiersDone(p) \/ R(st)!StatementFails(p)
  <2>1. PICK p \in Work(st) : \/ R(st)!checkMilestones(p) \/ R(st)!GrantTier(p) \/ R(st)!CreditTier(p)
                              \/ R(st)!TiersDone(p) \/ R(st)!StatementFails(p)
    BY <1>4 DEF R!Jobs, Work
  <2> QED BY <2>1, MilestonesChecked, TierGranted, TierCredited, TiersAreDone, FailureIsHeld
<1>5. CASE R(st)!Crash \/ R(st)!SetStatus \/ R(st)!Tick BY <1>5, CrashIsHeld, StatusIsHeld, NightIsHeld
<1>6. CASE UNCHANGED referral BY <1>6, ReferralStands
<1> QED BY <1>1, <1>2, <1>3, <1>4, <1>5, <1>6 DEF R!Next

LEMMA AloneSafe == MCSpec => [](component = "referral" => ReferralInv(Alone))
<1> DEFINE Safe == component = "referral" => ReferralInv(Alone)
<1>1. MCInit => Safe
  <2> SUFFICES ASSUME MCInit, component = "referral" PROVE ReferralInv(Alone) OBVIOUS
  <2>1. R(Alone)!Init BY DEF MCInit
  <2> QED BY <2>1, ReferralStarts, ReferralsAssumption
<1>2. Safe /\ [MCNext]_all => Safe'
  <2> SUFFICES ASSUME Safe, [MCNext]_all, component' = "referral" PROVE ReferralInv(Alone)' OBVIOUS
  <2>1. component = "referral" /\ (R(Alone)!Next \/ UNCHANGED referral) BY DEF MCNext, all
  <2> QED BY <2>1, ReferralStep, ReferralsAssumption
<1> QED BY <1>1, <1>2, PTL DEF MCSpec

LEMMA TogetherSafe == MCSpec => [](component = "referral_pair" => ReferralInv(Together))
<1> DEFINE Safe == component = "referral_pair" => ReferralInv(Together)
<1>1. MCInit => Safe
  <2> SUFFICES ASSUME MCInit, component = "referral_pair" PROVE ReferralInv(Together) OBVIOUS
  <2>1. R(Together)!Init BY DEF MCInit
  <2> QED BY <2>1, ReferralStarts, ReferralsAssumption
<1>2. Safe /\ [MCNext]_all => Safe'
  <2> SUFFICES ASSUME Safe, [MCNext]_all, component' = "referral_pair" PROVE ReferralInv(Together)'
    OBVIOUS
  <2>1. component = "referral_pair" /\ (R(Together)!Next \/ UNCHANGED referral) BY DEF MCNext, all
  <2> QED BY <2>1, ReferralStep, ReferralsAssumption
<1> QED BY <1>1, <1>2, PTL DEF MCSpec

\* However registrations, charges and releases race, whatever fails and
\* whenever the server dies, a bonus is backed by one conversion, a deferred
\* reward and a tier are earned before they are paid, and nobody is welcomed
\* twice; and when nothing failed, what is on record is paid or the next thing
\* a job pays (grant.go).
THEOREM BonusesArePaidOnce == MCSpec => []ReferralHolds
<1>1. /\ component = "referral" => ReferralInv(Alone)
      /\ component = "referral_pair" => ReferralInv(Together)
      => ReferralHolds
  BY ReferralIsHeld, ReferralsAssumption DEF ReferralHolds
<1> QED BY <1>1, AloneSafe, TogetherSafe, PTL

-----------------------------------------------------------------------------
(* The limiters and the caps, when they run.                                *)

LEMMA LimitsSafe == MCSpec => [](component \in Limiters => LimitsInv)
<1> DEFINE Safe == component \in Limiters => LimitsInv
<1>1. MCInit => Safe BY LimitsInit DEF MCInit
<1>2. Safe /\ [MCNext]_all => Safe'
  <2> SUFFICES ASSUME Safe, [MCNext]_all, component' \in Limiters PROVE LimitsInv' OBVIOUS
  <2>1. component \in Limiters /\ (Limited \/ UNCHANGED limits) BY DEF MCNext, all
  <2> QED BY <2>1, LimitsStep
<1> QED BY <1>1, <1>2, PTL DEF MCSpec

\* However calls fall and whatever the limiters forget, no window lets more
\* calls through than it may, and every refusal is explained by calls that
\* were let through (ratelimit.go of auth, support and referral; sso.go).
THEOREM LimitsCorrect == MCSpec => []LimitsHold
<1>1. (component \in Limiters => LimitsInv) => LimitsHold BY LimitsAreHeld DEF LimitsHold
<1> QED BY <1>1, LimitsSafe, PTL

LEMMA CapsSafe == MCSpec => [](component = "caps" => CapsInv)
<1> DEFINE Safe == component = "caps" => CapsInv
<1>1. MCInit => Safe BY CapsInit DEF MCInit
<1>2. Safe /\ [MCNext]_all => Safe'
  <2> SUFFICES ASSUME Safe, [MCNext]_all, component' = "caps" PROVE CapsInv' OBVIOUS
  <2>1. component = "caps" /\ (C!Next \/ UNCHANGED caps) BY DEF MCNext, all
  <2> QED BY <2>1, CapsStep
<1> QED BY <1>1, <1>2, PTL DEF MCSpec

LEMMA TokensSafe == MCSpec => [](component = "keys" => TokensInv)
<1> DEFINE Safe == component = "keys" => TokensInv
<1>1. MCInit => Safe BY TokensInit DEF MCInit
<1>2. Safe /\ [MCNext]_all => Safe'
  <2> SUFFICES ASSUME Safe, [MCNext]_all, component' = "keys" PROVE TokensInv' OBVIOUS
  <2>1. component = "keys" /\ (K!Next \/ UNCHANGED tokens) BY DEF MCNext, all
  <2> QED BY <2>1, TokensStep
<1> QED BY <1>1, <1>2, PTL DEF MCSpec

\* However many requests are in flight and however late they are charged, a
\* cap or a budget is overshot by no more than what they may cost, and a token
\* never has more of them than its ceiling (PreCheck, clienttoken, limiter).
THEOREM CapsCorrect == MCSpec => []CapsHold
<1>1. /\ (component = "caps" => CapsInv) /\ (component = "keys" => TokensInv) => CapsHold
  BY CapsAreHeld, TokensHold DEF CapsHold
<1> QED BY <1>1, CapsSafe, TokensSafe, PTL

-----------------------------------------------------------------------------
(* The service API.  The parts of its invariant are predicates of the       *)
(* ledger l.                                                               *)

HandlerType == [pc : {"subject", "row", "history", "tx"}, call : Calls, tx : Nat]
AnswerType == [status : Statuses, moved : Nat, tx : Nat]

\* The answer a of call c, if it names a row, describes it.
Tells(l, c, a) ==
  a.tx # 0 =>
    /\ a.tx \in DOMAIN l
    /\ l[a.tx].key = Call[c].key
    /\ l[a.tx].ws = Call[c].ws
    /\ l[a.tx].kind = Call[c].op
    /\ Magnitude(l[a.tx].amount) = a.moved

\* Row i, if it is a refund, was asked for by a call that names row j.
Reverses(l, i) ==
  l[i].kind = "refund" =>
    \E j \in 1..(i - 1) : \E c \in Calls :
      /\ l[i].ref = RefundRef(j)
      /\ l[j].kind = "charge" /\ l[j].ws = l[i].ws
      /\ Call[c].op = "refund" /\ l[i].key = Call[c].key /\ l[i].amount = Call[c].amount
      /\ l[j].key = Call[Call[c].of].key

\* The handler q of a refund names a row of its charge's key, and from
\* CheckRow on a charge against the call's own workspace.
Fits(l, q) ==
  /\ q.pc \in {"row", "history"} => Call[q.call].op = "refund"
  /\ q.pc # "idle" /\ Call[q.call].op = "refund" =>
       /\ q.tx \in DOMAIN l
       /\ l[q.tx].key = Call[Call[q.call].of].key
       /\ q.pc \in {"history", "tx"} =>
            l[q.tx].kind = "charge" /\ l[q.tx].ws = Call[q.call].ws

\* Refunded(l, t, k) is RefundedBefore, Rest(l, t, k) the Remainder.
Refunded(l, t, k) ==
  Total([i \in 1..Len(l) |->
           IF l[i].kind = "refund" /\ l[i].ref = RefundRef(t) /\ l[i].key # k
           THEN l[i].amount ELSE 0])
Rest(l, t, k) == Greater(0, -l[t].amount - Refunded(l, t, k))

Within(l, t) == l[t].kind = "charge" => Refunded(l, t, NoKey) <= -l[t].amount

Taken(l, k) == \E i \in DOMAIN l : l[i].key = k

\* The handler q is about to credit a refund of charge t.
Crediting(q, t) == q.pc = "tx" /\ Call[q.call].op = "refund" /\ q.tx = t

\* What q was granted is still there, or its key is settled.
Granted(l, q) ==
  Taken(l, Call[q.call].key) \/ Call[q.call].amount <= Rest(l, q.tx, Call[q.call].key)

Answered == \A c \in Calls : \A a \in answers[c] : Tells(ledger, c, a)
Keyed == \A i \in DOMAIN ledger : ledger[i].kind # "topup" => ledger[i].key \in Keys
Reversing == \A i \in DOMAIN ledger : Reverses(ledger, i)
Fitting == \A h \in Handlers : Fits(ledger, handler[h])
Serial == \A t \in DOMAIN ledger : t \notin raced => Within(ledger, t)
Reserved ==
  \A h \in Handlers, t \in Nat :
    Crediting(handler[h], t) /\ t \notin raced =>
      /\ Granted(ledger, handler[h])
      /\ \A g \in Handlers : Crediting(handler[g], t) =>
           Call[handler[g].call].key = Call[handler[h].call].key

ServiceInv ==
  TypeOK /\ IdemKeyUnique /\ Answered /\ Keyed /\ Reversing /\ Fitting /\ Serial /\ Reserved

LEMMA ConstantTypes ==
  /\ \A c \in Calls : /\ Call[c].op \in {"charge", "refund"} /\ Call[c].key \in Keys
                      /\ Call[c].user \in Users /\ Call[c].ws \in Workspaces
                      /\ Call[c].amount \in Nat /\ Call[c].amount > 0
                      /\ Call[c].op = "refund" => Call[c].of \in Calls
  /\ NoKey \notin Keys
BY ServiceAssumption

-----------------------------------------------------------------------------
(* Sums of refunds.                                                        *)

RefundsOf(t, k) == {r \in RowType : r.kind = "refund" /\ r.ref = RefundRef(t) /\ r.key # k}

LEMMA RefundedIsSifted ==
  ASSUME NEW l \in Seq(RowType), NEW t, NEW k
  PROVE  Refunded(l, t, k) = Total(Sifted(l, RefundsOf(t, k)))
<1>1. \A i \in 1..Len(l) : l[i] \in RowType OBVIOUS
<1> DEFINE s == [i \in 1..Len(l) |->
                   IF l[i].kind = "refund" /\ l[i].ref = RefundRef(t) /\ l[i].key # k
                   THEN l[i].amount ELSE 0]
<1>2. s = Sifted(l, RefundsOf(t, k)) BY <1>1 DEF Sifted, RefundsOf
<1> QED BY <1>2 DEF Refunded

LEMMA RowAmounts == \A r \in RowType : r.amount \in Int
BY DEF RowType

LEMMA RefundedAppend ==
  ASSUME NEW l \in Seq(RowType), NEW r \in RowType, NEW t, NEW k
  PROVE  /\ Refunded(l, t, k) \in Int
         /\ Refunded(Append(l, r), t, k) =
              Refunded(l, t, k) + (IF r.kind = "refund" /\ r.ref = RefundRef(t) /\ r.key # k
                                   THEN r.amount ELSE 0)
<1>1. Append(l, r) \in Seq(RowType) OBVIOUS
<1>2. r \in RefundsOf(t, k) <=> r.kind = "refund" /\ r.ref = RefundRef(t) /\ r.key # k
  BY DEF RefundsOf
<1>3. /\ Total(Sifted(l, RefundsOf(t, k))) \in Int
      /\ Total(Sifted(Append(l, r), RefundsOf(t, k)))
           = Total(Sifted(l, RefundsOf(t, k))) + (IF r \in RefundsOf(t, k) THEN r.amount ELSE 0)
  BY RowAmounts, SiftedAppend
<1> QED BY <1>1, <1>2, <1>3, RefundedIsSifted

\* Nothing has been refunded of a row that no refund names.
LEMMA RefundedNothing ==
  ASSUME NEW l \in Seq(RowType), NEW t, NEW k,
         \A i \in DOMAIN l : l[i].kind = "refund" => l[i].ref # RefundRef(t)
  PROVE  Refunded(l, t, k) = 0
<1> DEFINE s == Sifted(l, RefundsOf(t, k))
<1>1. s \in Seq(Int) /\ Len(s) = Len(l) BY RowAmounts, SiftedType
<1>2. \A i \in 1..Len(l) : s[i] = 0 BY RowAmounts, SiftedType DEF RefundsOf
<1> HIDE DEF s
<1>3. Total(s) = 0 BY <1>1, <1>2, TotalOfZeros
<1> QED BY <1>3, RefundedIsSifted DEF s

\* No row has the key k: leaving k out leaves nothing out.
LEMMA RefundedUnkeyed ==
  ASSUME NEW l \in Seq(RowType), NEW t, NEW k, k # NoKey, ~Taken(l, k),
         \A i \in DOMAIN l : l[i].kind = "refund" => l[i].key # NoKey
  PROVE  Refunded(l, t, k) = Refunded(l, t, NoKey)
<1>1. \A i \in 1..Len(l) : l[i].key # k /\ (l[i].kind = "refund" => l[i].key # NoKey)
  BY DEF Taken
<1>2. [i \in 1..Len(l) |->
         IF l[i].kind = "refund" /\ l[i].ref = RefundRef(t) /\ l[i].key # k
         THEN l[i].amount ELSE 0]
      = [i \in 1..Len(l) |->
         IF l[i].kind = "refund" /\ l[i].ref = RefundRef(t) /\ l[i].key # NoKey
         THEN l[i].amount ELSE 0]
  BY <1>1
<1> QED BY <1>2 DEF Refunded

\* One row has the key k: leaving k out leaves out its amount.
LEMMA RefundedKeyed ==
  ASSUME NEW l \in Seq(RowType), NEW t, NEW k, NEW n \in DOMAIN l,
         l[n].kind = "refund", l[n].ref = RefundRef(t), l[n].key = k, k # NoKey,
         \A i \in DOMAIN l : l[i].kind = "refund" => l[i].key # NoKey,
         \A i \in DOMAIN l : l[i].key = k => i = n
  PROVE  /\ Refunded(l, t, k) \in Int
         /\ Refunded(l, t, NoKey) = Refunded(l, t, k) + l[n].amount
<1> DEFINE s == Sifted(l, RefundsOf(t, NoKey))
           u == Sifted(l, RefundsOf(t, k))
<1>1. DOMAIN l = 1..Len(l) /\ \A i \in 1..Len(l) : l[i] \in RowType OBVIOUS
<1>2. /\ s \in Seq(Int) /\ Len(s) = Len(l)
      /\ \A i \in 1..Len(l) : s[i] = IF l[i] \in RefundsOf(t, NoKey) THEN l[i].amount ELSE 0
  BY RowAmounts, SiftedType
<1>3. /\ u \in Seq(Int) /\ Len(u) = Len(l)
      /\ \A i \in 1..Len(l) : u[i] = IF l[i] \in RefundsOf(t, k) THEN l[i].amount ELSE 0
  BY RowAmounts, SiftedType
<1> HIDE DEF s, u
<1>4. \A i \in (1..Len(l)) \ {n} : s[i] = u[i] BY <1>1, <1>2, <1>3 DEF RefundsOf
<1>5. s[n] = l[n].amount /\ u[n] = 0 BY <1>1, <1>2, <1>3 DEF RefundsOf
<1>6. Total(s) = Total(u) + (s[n] - u[n]) BY <1>1, <1>2, <1>3, <1>4, TotalDiffers
<1>7. Total(u) \in Int /\ l[n].amount \in Int BY <1>1, <1>3, TotalType, RowAmounts
<1>8. Total(s) = Total(u) + l[n].amount BY <1>5, <1>6, <1>7
<1> QED BY <1>7, <1>8, RefundedIsSifted DEF s, u

-----------------------------------------------------------------------------
(* A ledger that grows by the row r into m.                                *)

LEMMA TellsKept ==
  ASSUME NEW l, NEW m, NEW r, Grown(l, m, r), NEW c, NEW a, Tells(l, c, a)
  PROVE  Tells(m, c, a)
BY DEF Tells, Grown

LEMMA FitsKept ==
  ASSUME NEW l, NEW m, NEW r, Grown(l, m, r), NEW q, Fits(l, q)
  PROVE  Fits(m, q)
BY DEF Fits, Grown

LEMMA ReversesKept ==
  ASSUME NEW l, NEW m, NEW r, Grown(l, m, r), NEW i \in DOMAIN l, Reverses(l, i)
  PROVE  Reverses(m, i)
<1> SUFFICES ASSUME m[i].kind = "refund" PROVE Reverses(m, i) BY DEF Reverses
<1>1. m[i] = l[i] /\ i \in 1..Len(l) /\ Len(l) \in Nat BY DEF Grown
<1>2. PICK j \in 1..(i - 1), c \in Calls :
        /\ l[i].ref = RefundRef(j)
        /\ l[j].kind = "charge" /\ l[j].ws = l[i].ws
        /\ Call[c].op = "refund" /\ l[i].key = Call[c].key /\ l[i].amount = Call[c].amount
        /\ l[j].key = Call[Call[c].of].key
  BY <1>1 DEF Reverses
<1>3. j \in 1..Len(l) BY <1>1
<1>4. m[j] = l[j] BY <1>3 DEF Grown
<1> QED BY <1>1, <1>2, <1>4 DEF Reverses

-----------------------------------------------------------------------------
(* The one movement of a handler.                                          *)

\* What a handler's transaction answers.
Outcome(h) == IdemOutcome(ServiceReq(h))

\* The row a handler in state q writes.
RowOf(q, r) ==
  /\ r \in RowType
  /\ r.key = Call[q.call].key /\ r.ws = Call[q.call].ws /\ r.kind = Call[q.call].op
  /\ Call[q.call].op = "charge" => r.amount <= 0
  /\ Call[q.call].op = "refund" => r.amount = Call[q.call].amount /\ r.ref = RefundRef(q.tx)

\* Nothing is written, and the answer tells what the ledger holds; or the first
\* row of the key is written, and the answer tells of it.
Settled(h) ==
  \/ /\ UNCHANGED walletVars
     /\ [status |-> Outcome(h).status, moved |-> Outcome(h).moved, tx |-> Outcome(h).tx] \in AnswerType
     /\ Tells(ledger, handler[h].call, Outcome(h))
  \/ \E r : /\ RowOf(handler[h], r)
            /\ ~Taken(ledger, r.key)
            /\ Post(r)
            /\ Outcome(h) = [status |-> "moved", moved |-> Magnitude(r.amount), tx |-> Len(ledger) + 1]
            /\ Magnitude(r.amount) \in Nat

LEMMA MovableBounds ==
  ASSUME NEW req, req.amount \in Nat, req.amount > 0, req.max \in Nat,
         balance[req.ws] \in Int
  PROVE  /\ Movable(req) \in Nat
         /\ req.kind # "charge" => Movable(req) = req.amount
BY DEF Movable, clampCharge, Greater, Lesser

LEMMA MovementSettles ==
  ASSUME TypeOK, Fitting, NEW h \in Handlers, Serving(h, "tx"), walletIdemOnce(ServiceReq(h))
  PROVE  Settled(h)
<1> DEFINE q == handler[h]
           req == ServiceReq(h)
           c == q.call
<1>1. q \in HandlerType /\ q.pc = "tx" /\ c \in Calls /\ q.tx \in Nat
  BY DEF TypeOK, Serving, HandlerType, Idle
<1>2. /\ req.key = Call[c].key /\ req.kind = Call[c].op /\ req.ws = Call[c].ws
      /\ req.user = Call[c].user /\ req.amount = Call[c].amount /\ req.max = MaxOverdraft
      /\ req.ref = IF Call[c].op = "refund" THEN RefundRef(q.tx) ELSE CallRef(c)
  BY DEF ServiceReq, IdemReq, Current
<1> HIDE DEF req
<1>3. /\ Call[c].key \in Keys /\ Call[c].key # NoKey /\ Call[c].op \in {"charge", "refund"}
      /\ Call[c].ws \in Workspaces /\ Call[c].user \in Users
      /\ Call[c].amount \in Nat /\ Call[c].amount > 0
  BY <1>1, ConstantTypes
<1>4. Movable(req) \in Nat /\ (Call[c].op = "refund" => Movable(req) = Call[c].amount)
  <2>1. req.amount \in Nat /\ req.amount > 0 /\ req.max \in Nat BY <1>2, <1>3, ServiceAssumption
  <2>2. balance[req.ws] \in Int BY <1>2, <1>3 DEF TypeOK
  <2>3. Call[c].op = "refund" => req.kind # "charge" BY <1>2
  <2> QED BY <1>2, <2>1, <2>2, <2>3, MovableBounds
<1>5. \A i \in DOMAIN ledger : ledger[i].amount \in Int /\ i \in Nat
  <2>1. \A i \in 1..Len(ledger) : ledger[i] \in RowType BY DEF TypeOK
  <2>2. DOMAIN ledger = 1..Len(ledger) BY DEF TypeOK
  <2> QED BY <2>1, <2>2, RowAmounts
<1>6. Outcome(h) = IdemOutcome(req) BY DEF Outcome, req
<1>7. CASE Claimed(req.key)
  <2> DEFINE i == TxOf(req.key)
  <2>1. i \in DOMAIN ledger /\ ledger[i].key = req.key BY <1>7 DEF Claimed, TxOf
  <2>2. Outcome(h) = IF SameMovement(ledger[i], req)
                     THEN [status |-> "replayed", moved |-> Magnitude(ledger[i].amount), tx |-> i]
                     ELSE [status |-> "conflict", moved |-> 0, tx |-> 0]
    BY <1>6, <1>7 DEF IdemOutcome, findIdemRow
  <2> HIDE DEF i
  <2>3. UNCHANGED walletVars
    <3>1. IdemOutcome(req).status # "moved" BY <1>6, <2>2
    <3> QED BY <3>1 DEF walletIdemOnce, req
  <2>4. Magnitude(ledger[i].amount) \in Nat BY <1>5, <2>1 DEF Magnitude
  <2>5. CASE SameMovement(ledger[i], req)
    <3>1. Outcome(h) = [status |-> "replayed", moved |-> Magnitude(ledger[i].amount), tx |-> i]
      BY <2>2, <2>5
    <3>2. ledger[i].kind = Call[c].op /\ ledger[i].ws = Call[c].ws
      BY <1>2, <2>5 DEF SameMovement
    <3>3. Tells(ledger, c, Outcome(h)) BY <1>2, <2>1, <3>1, <3>2 DEF Tells
    <3>4. i \in Nat BY <1>5, <2>1
    <3> QED BY <2>3, <2>4, <3>1, <3>3, <3>4 DEF Settled, AnswerType, Statuses
  <2>6. CASE ~SameMovement(ledger[i], req)
    <3>1. Outcome(h) = [status |-> "conflict", moved |-> 0, tx |-> 0] BY <2>2, <2>6
    <3>2. Tells(ledger, c, Outcome(h)) BY <3>1 DEF Tells
    <3> QED BY <2>3, <3>1, <3>2 DEF Settled, AnswerType, Statuses
  <2> QED BY <2>5, <2>6
<1>8. CASE ~Claimed(req.key) /\ Movable(req) = 0
  <2>1. Outcome(h) = [status |-> "floor", moved |-> 0, tx |-> 0] BY <1>6, <1>8 DEF IdemOutcome
  <2>2. UNCHANGED walletVars
    <3>1. IdemOutcome(req).status # "moved" BY <1>6, <2>1
    <3> QED BY <3>1 DEF walletIdemOnce, req
  <2>3. Tells(ledger, c, Outcome(h)) BY <2>1 DEF Tells
  <2> QED BY <2>1, <2>2, <2>3 DEF Settled, AnswerType, Statuses
<1>9. CASE ~Claimed(req.key) /\ Movable(req) # 0
  <2> DEFINE x == IF req.kind = "charge" THEN -Movable(req) ELSE Movable(req)
             r == Row(req.ws, req.user, req.kind, x, req.ref, req.key)
  <2>1. Outcome(h) = [status |-> "moved", moved |-> Movable(req), tx |-> Len(ledger) + 1]
    BY <1>6, <1>9 DEF IdemOutcome
  <2>2. Post(r)
    <3>1. IdemOutcome(req).status = "moved" BY <1>6, <2>1
    <3> QED BY <3>1 DEF walletIdemOnce, req
  <2>3. x \in Int /\ Magnitude(x) = Movable(req) BY <1>4 DEF Magnitude
  <2>4. req.ref \in {OrderRef} \cup ({"call"} \X Calls) \cup ({"refund"} \X Nat)
    BY <1>1, <1>2 DEF CallRef, RefundRef
  <2>5. /\ r.ws = req.ws /\ r.user = req.user /\ r.kind = req.kind /\ r.amount = x
        /\ r.ref = req.ref /\ r.key = req.key
    BY DEF Row
  <2>6. r \in RowType BY <1>2, <1>3, <2>3, <2>4 DEF Row, RowType
  <2>7. req.kind = "charge" => x <= 0 BY <1>4
  <2>8. req.kind = "refund" => x = Call[c].amount BY <1>2, <1>4
  <2> HIDE DEF r, x
  <2>9. RowOf(q, r) BY <1>2, <2>5, <2>6, <2>7, <2>8 DEF RowOf
  <2>10. ~Taken(ledger, r.key) BY <1>9, <2>5 DEF Claimed, Taken
  <2>11. Magnitude(r.amount) = Movable(req) BY <2>3, <2>5
  <2> QED BY <1>4, <2>1, <2>2, <2>9, <2>10, <2>11 DEF Settled
<1> QED BY <1>7, <1>8, <1>9

-----------------------------------------------------------------------------
(* What a step does to the money and to the handlers.                      *)

Still == UNCHANGED <<balance, ledger, handler, answers, raced>>

\* A handler moves on, or answers without naming a row.
Local(h) ==
  /\ UNCHANGED walletVars
  /\ \E q \in {Idle} \cup HandlerType :
       /\ handler' = [handler EXCEPT ![h] = q]
       /\ Fits(ledger, q)
       /\ \A t : ~Crediting(q, t)
  /\ answers' \in [Calls -> SUBSET AnswerType]
  /\ \A c \in Calls : \A a \in answers'[c] : a \in answers[c] \/ a.tx = 0
  /\ raced \subseteq raced' /\ raced' \subseteq Nat

\* A refund is found to be within the remainder of its charge.
Grants(h) ==
  /\ UNCHANGED walletVars /\ UNCHANGED answers
  /\ raced \subseteq raced' /\ raced' \subseteq Nat
  /\ \E q \in HandlerType :
       /\ handler' = [handler EXCEPT ![h] = q]
       /\ Fits(ledger, q) /\ Crediting(q, q.tx)
       /\ Call[q.call].amount <= Rest(ledger, q.tx, Call[q.call].key)
       /\ q.tx \notin raced' =>
            \A g \in Handlers : Crediting(handler[g], q.tx) =>
              Call[handler[g].call].key = Call[q.call].key

\* A handler's transaction runs, and its caller hears of it or not.
Told(h) == [status |-> Outcome(h).status, moved |-> Outcome(h).moved, tx |-> Outcome(h).tx]
Moves(h) ==
  /\ handler[h] \in HandlerType /\ handler[h].pc = "tx"
  /\ Settled(h)
  /\ handler' = [handler EXCEPT ![h] = Idle]
  /\ \/ answers' = answers
     \/ answers' = [answers EXCEPT ![handler[h].call] = @ \cup {Told(h)}]
  /\ UNCHANGED raced

Funds ==
  /\ \E r \in RowType : r.kind = "topup" /\ r.key = NoKey /\ Post(r)
  /\ UNCHANGED <<handler, answers, raced>>

ServiceSteps == Still \/ (\E h \in Handlers : Local(h) \/ Grants(h) \/ Moves(h)) \/ Funds

LEMMA HandlerTypes ==
  ASSUME TypeOK, NEW h \in Handlers
  PROVE  /\ handler[h] \in {Idle} \cup HandlerType
         /\ handler[h].pc # "idle" => handler[h] \in HandlerType
         /\ handler[h] # Idle => handler[h] \in HandlerType
BY DEF TypeOK, HandlerType, Idle

\* An answer that names no row.
LEMMA ReplyIsLocal ==
  ASSUME TypeOK, NEW h \in Handlers, handler[h] \in HandlerType,
         NEW status \in Statuses, Reply(h, status, 0, 0),
         UNCHANGED walletVars, raced \subseteq raced', raced' \subseteq Nat
  PROVE  Local(h)
<1>1. handler[h].call \in Calls BY DEF HandlerType
<1>2. [status |-> status, moved |-> 0, tx |-> 0] \in AnswerType BY DEF AnswerType
<1>3. answers \in [Calls -> SUBSET AnswerType] BY DEF TypeOK, AnswerType
<1>4. /\ answers' \in [Calls -> SUBSET AnswerType]
      /\ \A c \in Calls : \A a \in answers'[c] : a \in answers[c] \/ a.tx = 0
  BY <1>1, <1>2, <1>3 DEF Reply
<1>5. handler' = [handler EXCEPT ![h] = Idle] BY DEF Reply
<1>6. Fits(ledger, Idle) /\ \A t : ~Crediting(Idle, t) BY DEF Fits, Crediting, Idle
<1> QED BY <1>4, <1>5, <1>6 DEF Local

LEMMA StepsOfService == TypeOK /\ Answered /\ Fitting /\ [Next]_vars => ServiceSteps
<1> SUFFICES ASSUME TypeOK, Answered, Fitting, [Next]_vars PROVE ServiceSteps OBVIOUS
<1> USE DEF ServiceSteps
<1>0. /\ raced \subseteq Nat /\ answers \in [Calls -> SUBSET AnswerType]
      /\ handler \in [Handlers -> {Idle} \cup HandlerType]
  BY DEF TypeOK, AnswerType, HandlerType
<1>1. ASSUME NEW h \in Handlers, NEW c \in Calls, Send(h, c) PROVE Local(h)
  <2>1. PICK tx \in Named(c) :
          handler' = [handler EXCEPT ![h] = [pc |-> "subject", call |-> c, tx |-> tx]]
    BY <1>1 DEF Send
  <2> DEFINE q == [pc |-> "subject", call |-> c, tx |-> tx]
  <2>2. q \in HandlerType /\ Fits(ledger, q)
    <3>1. CASE Call[c].op = "refund"
      <4>1. Call[c].of \in Calls BY <3>1, ConstantTypes
      <4>2. PICK a \in answers[Call[c].of] : a.tx = tx /\ tx # 0
        BY <2>1, <3>1 DEF Named, KnownTx
      <4>3. a \in AnswerType BY <1>0, <4>1
      <4>4. Tells(ledger, Call[c].of, a) BY <4>1 DEF Answered
      <4>5. tx \in Nat /\ tx \in DOMAIN ledger /\ ledger[tx].key = Call[Call[c].of].key
        BY <4>2, <4>3, <4>4 DEF Tells, AnswerType
      <4> QED BY <4>5 DEF HandlerType, Fits
    <3>2. CASE Call[c].op # "refund"
      <4>1. tx = 0 BY <2>1, <3>2 DEF Named
      <4> QED BY <3>2, <4>1 DEF HandlerType, Fits
    <3> QED BY <3>1, <3>2
  <2>3. \A t : ~Crediting(q, t) BY DEF Crediting
  <2>4. UNCHANGED <<balance, ledger, answers, raced>> BY <1>1 DEF Send
  <2> HIDE DEF q
  <2>5. handler' = [handler EXCEPT ![h] = q] BY <2>1 DEF q
  <2> QED BY <1>0, <2>2, <2>3, <2>4, <2>5 DEF Local, walletVars
<1>2. ASSUME NEW h \in Handlers, CheckSubject(h) PROVE Local(h)
  <2>1. handler[h] \in HandlerType /\ handler[h].pc = "subject"
    BY <1>2, HandlerTypes DEF CheckSubject, Serving
  <2>2. UNCHANGED walletVars /\ raced' = raced BY <1>2 DEF CheckSubject, walletVars
  <2>3. CASE Reply(h, "subject_mismatch", 0, 0)
    BY <1>0, <2>1, <2>2, <2>3, ReplyIsLocal DEF Statuses
  <2>4. CASE Proceed(h, IF Current(h).op = "refund" THEN "row" ELSE "tx")
    <3> DEFINE pc == IF Current(h).op = "refund" THEN "row" ELSE "tx"
               q == [handler[h] EXCEPT !.pc = pc]
    <3>1. handler' = [handler EXCEPT ![h] = q] /\ answers' = answers
      BY <1>0, <2>4 DEF Proceed
    <3>2. q \in HandlerType /\ q.pc = pc /\ q.call = handler[h].call /\ q.tx = handler[h].tx
      BY <2>1 DEF HandlerType
    <3>3. Fits(ledger, handler[h]) BY DEF Fitting
    <3>4. Call[q.call].op \in {"charge", "refund"} BY <3>2, ConstantTypes DEF HandlerType
    <3>5. Fits(ledger, q) BY <2>1, <3>2, <3>3, <3>4 DEF Fits, Current
    <3>6. \A t : ~Crediting(q, t) BY <3>2, <3>4 DEF Crediting, Current
    <3> HIDE DEF q, pc
    <3> QED BY <1>0, <2>2, <3>1, <3>2, <3>5, <3>6 DEF Local
  <2> QED BY <1>2, <2>3, <2>4 DEF CheckSubject
<1>3. ASSUME NEW h \in Handlers, CheckRow(h) PROVE Local(h)
  <2>1. handler[h] \in HandlerType /\ handler[h].pc = "row"
    BY <1>3, HandlerTypes DEF CheckRow, Serving
  <2>2. UNCHANGED walletVars /\ raced' = raced BY <1>3 DEF CheckRow, walletVars
  <2>3. CASE Reply(h, "subject_mismatch", 0, 0)
    BY <1>0, <2>1, <2>2, <2>3, ReplyIsLocal DEF Statuses
  <2>4. CASE /\ Proceed(h, "history")
             /\ ledger[handler[h].tx].kind = "charge"
             /\ ledger[handler[h].tx].ws = Current(h).ws
    <3> DEFINE q == [handler[h] EXCEPT !.pc = "history"]
    <3>1. handler' = [handler EXCEPT ![h] = q] /\ answers' = answers
      BY <1>0, <2>4 DEF Proceed
    <3>2. q \in HandlerType /\ q.pc = "history" /\ q.call = handler[h].call /\ q.tx = handler[h].tx
      BY <2>1 DEF HandlerType
    <3>3. Fits(ledger, handler[h]) BY DEF Fitting
    <3>5. Fits(ledger, q) BY <2>1, <2>4, <3>2, <3>3 DEF Fits, Current
    <3>6. \A t : ~Crediting(q, t) BY <3>2 DEF Crediting
    <3> HIDE DEF q
    <3> QED BY <1>0, <2>2, <3>1, <3>2, <3>5, <3>6 DEF Local
  <2> QED BY <1>3, <2>3, <2>4 DEF CheckRow
<1>4. ASSUME NEW h \in Handlers, CheckRemainder(h) PROVE Local(h) \/ Grants(h)
  <2> DEFINE tx == handler[h].tx
             idem == Current(h).key
  <2>1. handler[h] \in HandlerType /\ handler[h].pc = "history"
    BY <1>4, HandlerTypes DEF CheckRemainder, Serving
  <2>2. UNCHANGED walletVars BY <1>4 DEF CheckRemainder, walletVars
  <2>3. /\ raced \subseteq raced' /\ raced' \subseteq Nat
        /\ InFlight(tx, idem) => tx \in raced'
    BY <1>0, <1>4, <2>1 DEF CheckRemainder, HandlerType
  <2>4. CASE Reply(h, "refund_exceeds_charge", 0, 0)
    BY <2>1, <2>2, <2>3, <2>4, ReplyIsLocal DEF Statuses
  <2>5. CASE Proceed(h, "tx") /\ ~(Current(h).amount > Remainder(tx, idem))
    <3> DEFINE q == [handler[h] EXCEPT !.pc = "tx"]
    <3>1. handler' = [handler EXCEPT ![h] = q] /\ answers' = answers
      BY <1>0, <2>5 DEF Proceed
    <3>2. q \in HandlerType /\ q.pc = "tx" /\ q.call = handler[h].call /\ q.tx = handler[h].tx
      BY <2>1 DEF HandlerType
    <3>3. Fits(ledger, handler[h]) BY DEF Fitting
    <3>4. Fits(ledger, q) /\ Crediting(q, q.tx) BY <2>1, <3>2, <3>3 DEF Fits, Crediting
    <3>5. Remainder(tx, idem) = Rest(ledger, tx, idem)
      BY DEF Remainder, Rest, RefundedBefore, Refunded
    <3>6. Call[q.call].amount <= Rest(ledger, q.tx, Call[q.call].key)
      <4>1. Rest(ledger, tx, idem) \in Int
        <5>1. ledger \in Seq(RowType) BY DEF TypeOK
        <5>2. tx \in 1..Len(ledger) BY <2>1, <3>3, <5>1 DEF Fits
        <5>3. ledger[tx] \in RowType BY <5>1, <5>2
        <5>4. ledger[tx].amount \in Int BY <5>3, RowAmounts
        <5>5. Refunded(ledger, tx, idem) \in Int BY <5>1, <5>3, RefundedAppend
        <5> QED BY <5>4, <5>5 DEF Rest, Greater
      <4>2. Current(h).amount \in Int BY <2>1, ConstantTypes DEF HandlerType, Current
      <4> QED BY <2>5, <3>2, <3>5, <4>1, <4>2 DEF Current
    <3>7. q.tx \notin raced' =>
            \A g \in Handlers : Crediting(handler[g], q.tx) =>
              Call[handler[g].call].key = Call[q.call].key
      BY <2>3, <3>2 DEF InFlight, Crediting, Serving, Current
    <3> HIDE DEF q
    <3> QED BY <2>2, <2>3, <3>1, <3>2, <3>4, <3>6, <3>7 DEF Grants
  <2> QED BY <1>4, <2>4, <2>5 DEF CheckRemainder
<1>5. ASSUME NEW h \in Handlers, MoveMoney(h) PROVE Moves(h)
  <2>1. Serving(h, "tx") /\ walletIdemOnce(ServiceReq(h)) BY <1>5 DEF MoveMoney
  <2>2. Settled(h) BY <2>1, MovementSettles
  <2>3. handler[h] \in HandlerType /\ handler[h].pc = "tx" BY <2>1, HandlerTypes DEF Serving
  <2>4. Reply(h, Outcome(h).status, Outcome(h).moved, Outcome(h).tx)
    BY <1>5 DEF MoveMoney, Outcome
  <2>5. /\ handler' = [handler EXCEPT ![h] = Idle]
        /\ answers' = [answers EXCEPT ![handler[h].call] = @ \cup {Told(h)}]
    BY <2>4 DEF Reply, Told
  <2>6. UNCHANGED raced BY <1>5 DEF MoveMoney
  <2> QED BY <2>2, <2>3, <2>5, <2>6 DEF Moves
<1>6. ASSUME NEW h \in Handlers, AnswerLost(h) PROVE Moves(h)
  <2>1. Serving(h, "tx") /\ walletIdemOnce(ServiceReq(h)) BY <1>6 DEF AnswerLost
  <2>2. Settled(h) BY <2>1, MovementSettles
  <2>3. handler[h] \in HandlerType /\ handler[h].pc = "tx" BY <2>1, HandlerTypes DEF Serving
  <2>4. handler' = [handler EXCEPT ![h] = Idle] /\ answers' = answers /\ raced' = raced
    BY <1>6 DEF AnswerLost
  <2> QED BY <2>2, <2>3, <2>4 DEF Moves
<1>7. ASSUME NEW h \in Handlers, HandlerFails(h) PROVE Local(h)
  <2>1. Fits(ledger, Idle) /\ \A t : ~Crediting(Idle, t) BY DEF Fits, Crediting, Idle
  <2> QED BY <1>0, <1>7, <2>1 DEF HandlerFails, Local, walletVars
<1>8. ASSUME NEW u \in Users, TopUp(u) PROVE Funds
  <2> DEFINE r == Row(Personal[u], u, "topup", Deposit, OrderRef, NoKey)
  <2>1. r \in RowType /\ r.kind = "topup" /\ r.key = NoKey
    BY PersonalAssumption, ServiceAssumption DEF Row, RowType
  <2>2. Post(r) BY <1>8 DEF TopUp, AddBalanceTx, addWorkspaceBalanceTx
  <2>3. UNCHANGED <<handler, answers, raced>> BY <1>8 DEF TopUp
  <2> HIDE DEF r
  <2> QED BY <2>1, <2>2, <2>3 DEF Funds
<1>9. ASSUME NEW w \in Workspaces, NEW u \in Users, RemoveWorkspaceMember(w, u) PROVE Still
  BY <1>9 DEF RemoveWorkspaceMember, Still
<1>10. CASE UNCHANGED vars BY <1>10 DEF vars, Still
<1> QED BY <1>1, <1>2, <1>3, <1>4, <1>5, <1>6, <1>7, <1>8, <1>9, <1>10 DEF Next

-----------------------------------------------------------------------------
(* The invariant is kept.                                                  *)

LEMMA Posted ==
  ASSUME TypeOK, NEW r \in RowType, Post(r)
  PROVE  /\ balance' \in [Workspaces -> Int] /\ ledger' \in Seq(RowType)
         /\ ledger' = Append(ledger, r) /\ Grown(ledger, ledger', r)
<1>1. ledger \in Seq(RowType) /\ balance \in [Workspaces -> Int] BY DEF TypeOK
<1>2. r.ws \in Workspaces /\ r.amount \in Int BY DEF RowType
<1>3. ledger' = Append(ledger, r) /\ balance' \in [Workspaces -> Int] BY <1>1, <1>2 DEF Post
<1> QED BY <1>1, <1>3, AppendGrows

\* A step leaves the ledger alone or posts one row: a top-up's or a handler's.
LEMMA LedgerSteps ==
  ASSUME TypeOK, ServiceSteps
  PROVE  \/ UNCHANGED walletVars
         \/ \E r \in RowType : /\ r.kind = "topup" /\ r.key = NoKey /\ Post(r)
                               /\ UNCHANGED <<handler, raced>>
         \/ \E h \in Handlers : \E r \in RowType :
              /\ handler[h] \in HandlerType /\ handler[h].pc = "tx"
              /\ RowOf(handler[h], r) /\ ~Taken(ledger, r.key) /\ Post(r)
              /\ handler' = [handler EXCEPT ![h] = Idle] /\ UNCHANGED raced
<1>1. CASE Still BY <1>1 DEF Still, walletVars
<1>2. CASE Funds BY <1>2 DEF Funds
<1>3. ASSUME NEW h \in Handlers, Local(h) \/ Grants(h) PROVE UNCHANGED walletVars
  BY <1>3 DEF Local, Grants
<1>4. ASSUME NEW h \in Handlers, Moves(h)
      PROVE  \/ UNCHANGED walletVars
             \/ \E r \in RowType :
                  /\ handler[h] \in HandlerType /\ handler[h].pc = "tx"
                  /\ RowOf(handler[h], r) /\ ~Taken(ledger, r.key) /\ Post(r)
                  /\ handler' = [handler EXCEPT ![h] = Idle] /\ UNCHANGED raced
  BY <1>4 DEF Moves, Settled, RowOf
<1> QED BY <1>1, <1>2, <1>3, <1>4 DEF ServiceSteps

LEMMA MoneyTypes ==
  ASSUME TypeOK, ServiceSteps
  PROVE  /\ balance' \in [Workspaces -> Int] /\ ledger' \in Seq(RowType)
         /\ handler' \in [Handlers -> {Idle} \cup HandlerType]
         /\ answers' \in [Calls -> SUBSET AnswerType]
         /\ raced' \subseteq Nat
<1>0. /\ balance \in [Workspaces -> Int] /\ ledger \in Seq(RowType)
      /\ handler \in [Handlers -> {Idle} \cup HandlerType]
      /\ answers \in [Calls -> SUBSET AnswerType]
      /\ raced \subseteq Nat
  BY DEF TypeOK, HandlerType, AnswerType
<1>1. balance' \in [Workspaces -> Int] /\ ledger' \in Seq(RowType)
  <2>1. CASE UNCHANGED walletVars BY <1>0, <2>1 DEF walletVars
  <2>2. ASSUME NEW r \in RowType, Post(r)
        PROVE  balance' \in [Workspaces -> Int] /\ ledger' \in Seq(RowType)
    BY <2>2, Posted
  <2> QED BY <2>1, <2>2, LedgerSteps
<1>2. handler' \in [Handlers -> {Idle} \cup HandlerType]
  BY <1>0 DEF ServiceSteps, Still, Local, Grants, Moves, Funds
<1>3. raced' \subseteq Nat
  BY <1>0 DEF ServiceSteps, Still, Local, Grants, Moves, Funds
<1>4. answers' \in [Calls -> SUBSET AnswerType]
  <2>1. CASE Still BY <1>0, <2>1 DEF Still
  <2>2. CASE Funds BY <1>0, <2>2 DEF Funds
  <2>3. ASSUME NEW h \in Handlers, Local(h) \/ Grants(h) PROVE answers' \in [Calls -> SUBSET AnswerType]
    BY <1>0, <2>3 DEF Local, Grants
  <2>4. ASSUME NEW h \in Handlers, Moves(h) PROVE answers' \in [Calls -> SUBSET AnswerType]
    <3>1. Told(h) \in AnswerType
      <4>1. CASE [status |-> Outcome(h).status, moved |-> Outcome(h).moved, tx |-> Outcome(h).tx] \in AnswerType
        BY <4>1 DEF Told
      <4>2. ASSUME NEW r, Magnitude(r.amount) \in Nat,
                   Outcome(h) = [status |-> "moved", moved |-> Magnitude(r.amount), tx |-> Len(ledger) + 1]
            PROVE  Told(h) \in AnswerType
        <5>1. Len(ledger) \in Nat BY <1>0
        <5> QED BY <4>2, <5>1 DEF Told, AnswerType, Statuses
      <4> QED BY <2>4, <4>1, <4>2 DEF Moves, Settled
    <3>2. handler[h].call \in Calls BY <2>4 DEF Moves, HandlerType
    <3> QED BY <1>0, <2>4, <3>1, <3>2 DEF Moves
  <2> QED BY <2>1, <2>2, <2>3, <2>4 DEF ServiceSteps
<1> QED BY <1>1, <1>2, <1>3, <1>4

RestType ==
  /\ member \subseteq Workspaces \X Users
  /\ sends \in [Calls -> Nat] /\ \A c \in Calls : sends[c] <= MaxSends[c]
  /\ failures \in 0..MaxFailures

LEMMA RestTypeStep == TypeOK /\ [Next]_vars => RestType'
<1> SUFFICES ASSUME TypeOK, [Next]_vars PROVE RestType' OBVIOUS
<1>0. RestType BY DEF TypeOK, RestType
<1> USE DEF RestType
<1>1. ASSUME NEW h \in Handlers, NEW c \in Calls, Send(h, c) PROVE RestType'
  <2>1. MaxSends[c] \in Nat BY ServiceAssumption
  <2> QED BY <1>0, <1>1, <2>1 DEF Send
<1>2. ASSUME NEW h \in Handlers, CheckSubject(h) \/ CheckRow(h) \/ CheckRemainder(h) PROVE RestType'
  BY <1>0, <1>2 DEF CheckSubject, CheckRow, CheckRemainder
<1>3. ASSUME NEW h \in Handlers, MoveMoney(h) PROVE RestType' BY <1>0, <1>3 DEF MoveMoney
<1>4. ASSUME NEW h \in Handlers, HandlerFails(h) \/ AnswerLost(h) PROVE RestType'
  <2>1. UNCHANGED <<member, sends>> /\ failures < MaxFailures /\ failures' = failures + 1
    BY <1>4 DEF HandlerFails, AnswerLost
  <2>2. MaxFailures \in Nat BY ServiceAssumption
  <2> QED BY <1>0, <2>1, <2>2
<1>5. ASSUME NEW u \in Users, TopUp(u) PROVE RestType' BY <1>0, <1>5 DEF TopUp
<1>6. ASSUME NEW w \in Workspaces, NEW u \in Users, RemoveWorkspaceMember(w, u) PROVE RestType'
  BY <1>0, <1>6 DEF RemoveWorkspaceMember
<1>7. CASE UNCHANGED vars BY <1>0, <1>7 DEF vars
<1> QED BY <1>1, <1>2, <1>3, <1>4, <1>5, <1>6, <1>7 DEF Next

LEMMA TypeStep == TypeOK /\ ServiceSteps /\ [Next]_vars => TypeOK'
BY MoneyTypes, RestTypeStep DEF TypeOK, RestType, HandlerType, AnswerType

\* An answer goes on describing its row, and a new one describes the row it names.
LEMMA AnsweredStep == TypeOK /\ Answered /\ ServiceSteps => Answered'
<1> SUFFICES ASSUME TypeOK, Answered, ServiceSteps, NEW c \in Calls, NEW a \in answers'[c]
             PROVE  Tells(ledger', c, a)
  BY DEF Answered
<1>1. ASSUME a \in answers[c] PROVE Tells(ledger', c, a)
  <2>1. Tells(ledger, c, a) BY <1>1 DEF Answered
  <2>2. ASSUME NEW r \in RowType, Post(r) PROVE Tells(ledger', c, a)
    BY <2>1, <2>2, Posted, TellsKept
  <2>3. CASE UNCHANGED walletVars BY <2>1, <2>3 DEF walletVars
  <2> QED BY <2>2, <2>3, LedgerSteps
<1>2. CASE Still \/ Funds BY <1>1, <1>2 DEF Still, Funds
<1>3. ASSUME NEW h \in Handlers, Local(h) \/ Grants(h) PROVE Tells(ledger', c, a)
  BY <1>1, <1>3 DEF Local, Grants, Tells
<1>4. ASSUME NEW h \in Handlers, Moves(h), a \notin answers[c] PROVE Tells(ledger', c, a)
  <2>0. answers \in [Calls -> SUBSET AnswerType] BY DEF TypeOK, AnswerType
  <2>1. c = handler[h].call /\ a = Told(h) BY <1>4, <2>0 DEF Moves, HandlerType
  <2>2. CASE UNCHANGED walletVars /\ Tells(ledger, handler[h].call, Outcome(h))
    BY <2>1, <2>2 DEF Tells, Told, walletVars
  <2>3. ASSUME NEW r, RowOf(handler[h], r), Post(r),
               Outcome(h) = [status |-> "moved", moved |-> Magnitude(r.amount), tx |-> Len(ledger) + 1]
        PROVE  Tells(ledger', c, a)
    <3>1. Grown(ledger, ledger', r) BY <2>3, Posted DEF RowOf
    <3>2. a.tx = Len(ledger) + 1 /\ a.moved = Magnitude(r.amount) BY <2>1, <2>3 DEF Told
    <3>3. a.tx \in DOMAIN ledger' /\ ledger'[a.tx] = r BY <3>1, <3>2 DEF Grown
    <3> QED BY <2>1, <2>3, <3>2, <3>3 DEF Tells, RowOf
  <2> QED BY <1>4, <2>2, <2>3 DEF Moves, Settled
<1> QED BY <1>1, <1>2, <1>3, <1>4 DEF ServiceSteps

LEMMA KeysStep == TypeOK /\ Keyed /\ IdemKeyUnique /\ ServiceSteps => Keyed' /\ IdemKeyUnique'
<1> SUFFICES ASSUME TypeOK, Keyed, IdemKeyUnique, ServiceSteps PROVE Keyed' /\ IdemKeyUnique'
  OBVIOUS
<1>1. CASE UNCHANGED walletVars BY <1>1, StutterKeepsKeys DEF walletVars, Keyed
<1>2. ASSUME NEW r \in RowType, Post(r), r.key = NoKey \/ ~Taken(ledger, r.key),
             r.kind # "topup" => r.key \in Keys
      PROVE  Keyed' /\ IdemKeyUnique'
  <2>1. Grown(ledger, ledger', r) BY <1>2, Posted
  <2>2. Keyed' BY <1>2, <2>1 DEF Keyed, Grown
  <2>3. r.key = NoKey \/ ~Claimed(r.key) BY <1>2 DEF Claimed, Taken
  <2>4. ledger \in Seq(RowType) BY DEF TypeOK
  <2>5. IdemKeyUnique' BY <1>2, <2>3, <2>4, PostKeepsKeys
  <2> QED BY <2>2, <2>5
<1>3. ASSUME NEW r \in RowType, NEW h \in Handlers, handler[h] \in HandlerType, RowOf(handler[h], r)
      PROVE  r.key \in Keys
  BY <1>3, ConstantTypes DEF RowOf, HandlerType
<1> QED BY <1>1, <1>2, <1>3, LedgerSteps

\* A refund row reverses the charge row that its handler has looked at.
LEMMA ReversingStep == TypeOK /\ Reversing /\ Fitting /\ ServiceSteps => Reversing'
<1> SUFFICES ASSUME TypeOK, Reversing, Fitting, ServiceSteps PROVE Reversing' OBVIOUS
<1>1. CASE UNCHANGED walletVars BY <1>1 DEF walletVars, Reversing
<1>2. ASSUME NEW r \in RowType, Post(r), Grown(ledger, ledger', r) => Reverses(ledger', Len(ledger) + 1)
      PROVE  Reversing'
  <2>1. Grown(ledger, ledger', r) BY <1>2, Posted
  <2>2. \A i \in DOMAIN ledger : Reverses(ledger', i) BY <2>1, ReversesKept DEF Reversing
  <2>3. \A i \in DOMAIN ledger' : i \in DOMAIN ledger \/ i = Len(ledger) + 1 BY <2>1 DEF Grown
  <2> QED BY <1>2, <2>1, <2>2, <2>3 DEF Reversing
<1>3. ASSUME NEW r \in RowType, r.kind = "topup", Grown(ledger, ledger', r)
      PROVE  Reverses(ledger', Len(ledger) + 1)
  BY <1>3 DEF Reverses, Grown
<1>4. ASSUME NEW h \in Handlers, NEW r \in RowType, handler[h] \in HandlerType, handler[h].pc = "tx",
             RowOf(handler[h], r), Grown(ledger, ledger', r)
      PROVE  Reverses(ledger', Len(ledger) + 1)
  <2> SUFFICES ASSUME r.kind = "refund" PROVE Reverses(ledger', Len(ledger) + 1)
    BY <1>4 DEF Reverses, Grown
  <2> DEFINE q == handler[h]
             j == q.tx
  <2>1. /\ Call[q.call].op = "refund" /\ r.amount = Call[q.call].amount /\ r.ref = RefundRef(j)
        /\ r.key = Call[q.call].key /\ r.ws = Call[q.call].ws /\ q.call \in Calls
    BY <1>4 DEF RowOf, HandlerType
  <2>2. /\ j \in DOMAIN ledger /\ ledger[j].key = Call[Call[q.call].of].key
        /\ ledger[j].kind = "charge" /\ ledger[j].ws = Call[q.call].ws
    BY <1>4, <2>1 DEF Fitting, Fits
  <2>3. /\ j \in 1..((Len(ledger) + 1) - 1) /\ ledger'[j] = ledger[j]
        /\ ledger'[Len(ledger) + 1] = r
    BY <1>4, <2>2 DEF Grown
  <2> HIDE DEF q, j
  <2> QED BY <2>1, <2>2, <2>3 DEF Reverses
<1> QED BY <1>1, <1>2, <1>3, <1>4, LedgerSteps

LEMMA FittingStep == TypeOK /\ Fitting /\ ServiceSteps => Fitting'
<1> SUFFICES ASSUME TypeOK, Fitting, ServiceSteps, NEW g \in Handlers
             PROVE  Fits(ledger', handler'[g])
  BY DEF Fitting
<1>0. handler \in [Handlers -> {Idle} \cup HandlerType] /\ \A l : Fits(l, Idle)
  BY DEF TypeOK, HandlerType, Fits, Idle
<1>1. Fits(ledger', handler[g])
  <2>1. Fits(ledger, handler[g]) BY DEF Fitting
  <2>2. ASSUME NEW r \in RowType, Post(r) PROVE Fits(ledger', handler[g])
    BY <2>1, <2>2, Posted, FitsKept
  <2>3. CASE UNCHANGED walletVars BY <2>1, <2>3 DEF walletVars
  <2> QED BY <2>2, <2>3, LedgerSteps
<1>2. CASE Still \/ Funds BY <1>1, <1>2 DEF Still, Funds
<1>3. ASSUME NEW h \in Handlers, Local(h) \/ Grants(h) PROVE Fits(ledger', handler'[g])
  <2>1. PICK q \in {Idle} \cup HandlerType : Fits(ledger, q) /\ handler' = [handler EXCEPT ![h] = q]
    BY <1>3 DEF Local, Grants
  <2>2. ledger' = ledger BY <1>3 DEF Local, Grants, walletVars
  <2> QED BY <1>0, <1>1, <2>1, <2>2
<1>4. ASSUME NEW h \in Handlers, Moves(h) PROVE Fits(ledger', handler'[g])
  BY <1>0, <1>1, <1>4 DEF Moves
<1> QED BY <1>2, <1>3, <1>4 DEF ServiceSteps

-----------------------------------------------------------------------------
(* The remainder of a charge.                                              *)

\* A row that is no refund of t, or a refund of what remains of it.
LEMMA WithinAppend ==
  ASSUME NEW l \in Seq(RowType), NEW r \in RowType, NEW t \in 1..Len(l), Within(l, t),
         \/ r.kind # "refund" \/ r.ref # RefundRef(t)
         \/ r.amount <= -l[t].amount - Refunded(l, t, NoKey)
  PROVE  Within(Append(l, r), t)
<1>1. Append(l, r)[t] = l[t] OBVIOUS
<1>2. l[t].amount \in Int /\ r.amount \in Int
  <2>1. l[t] \in RowType OBVIOUS
  <2> QED BY <2>1, RowAmounts
<1>3. /\ Refunded(l, t, NoKey) \in Int
      /\ Refunded(Append(l, r), t, NoKey) =
           Refunded(l, t, NoKey) + (IF r.kind = "refund" /\ r.ref = RefundRef(t) /\ r.key # NoKey
                                    THEN r.amount ELSE 0)
  BY RefundedAppend
<1> QED BY <1>1, <1>2, <1>3 DEF Within

\* A new charge has not been refunded.
LEMMA WithinNew ==
  ASSUME NEW l \in Seq(RowType), NEW r \in RowType, r.kind = "charge" => r.amount <= 0,
         \A i \in DOMAIN l : Reverses(l, i)
  PROVE  Within(Append(l, r), Len(l) + 1)
<1> DEFINE t == Len(l) + 1
<1> SUFFICES ASSUME r.kind = "charge" PROVE Refunded(Append(l, r), t, NoKey) <= -r.amount
  BY DEF Within
<1>1. \A i \in DOMAIN l : l[i].kind = "refund" => l[i].ref # RefundRef(t)
  BY DEF Reverses, RefundRef
<1>2. Refunded(l, t, NoKey) = 0 BY <1>1, RefundedNothing
<1>3. Refunded(Append(l, r), t, NoKey) = Refunded(l, t, NoKey) + 0
  <2>1. ~(r.kind = "refund") OBVIOUS
  <2> HIDE DEF t
  <2> QED BY <2>1, RefundedAppend
<1>4. r.amount \in Int BY RowAmounts
<1> QED BY <1>2, <1>3, <1>4

\* What was granted is still there when another charge, another charge's
\* refund or the same key's row is written.
LEMMA GrantedKept ==
  ASSUME NEW l \in Seq(RowType), NEW r \in RowType, NEW q, q.tx \in 1..Len(l), Granted(l, q),
         r.kind = "refund" /\ r.ref = RefundRef(q.tx) => r.key = Call[q.call].key
  PROVE  Granted(Append(l, r), q)
<1> DEFINE k == Call[q.call].key
           t == q.tx
<1>1. CASE Taken(l, k)
  <2>1. PICK i \in DOMAIN l : l[i].key = k BY <1>1 DEF Taken
  <2>2. i \in DOMAIN Append(l, r) /\ Append(l, r)[i] = l[i] OBVIOUS
  <2> QED BY <2>1, <2>2 DEF Granted, Taken
<1>2. CASE Call[q.call].amount <= Rest(l, t, k)
  <2>1. Append(l, r)[t] = l[t] OBVIOUS
  <2>2. ~(r.kind = "refund" /\ r.ref = RefundRef(t) /\ r.key # k) OBVIOUS
  <2>3. Refunded(l, t, k) \in Int /\ Refunded(Append(l, r), t, k) = Refunded(l, t, k) + 0
    <3> HIDE DEF t, k
    <3> QED BY <2>2, RefundedAppend
  <2>4. Rest(Append(l, r), t, k) = Rest(l, t, k) BY <2>1, <2>3 DEF Rest
  <2> QED BY <1>2, <2>4 DEF Granted
<1> QED BY <1>1, <1>2 DEF Granted

LEMMA RacedGrows == ServiceSteps => raced \subseteq raced'
BY DEF ServiceSteps, Still, Local, Grants, Moves, Funds

\* A refund that is credited uses no more than what remains of its charge.
LEMMA SerialStep ==
  TypeOK /\ Keyed /\ Reversing /\ Fitting /\ Serial /\ Reserved /\ ServiceSteps => Serial'
<1> SUFFICES ASSUME TypeOK, Keyed, Reversing, Fitting, Serial, Reserved, ServiceSteps,
                    NEW t \in DOMAIN ledger', t \notin raced'
             PROVE  Within(ledger', t)
  BY DEF Serial
<1>0. t \notin raced /\ ledger \in Seq(RowType) BY RacedGrows DEF TypeOK
<1>1. CASE UNCHANGED walletVars BY <1>0, <1>1 DEF walletVars, Serial
<1>2. ASSUME NEW r \in RowType, Post(r), r.kind = "charge" => r.amount <= 0,
             t \in 1..Len(ledger) =>
               \/ r.kind # "refund" \/ r.ref # RefundRef(t)
               \/ r.amount <= -ledger[t].amount - Refunded(ledger, t, NoKey)
      PROVE  Within(ledger', t)
  <2>1. ledger' = Append(ledger, r) BY <1>2, Posted
  <2>2. t \in 1..Len(ledger) \/ t = Len(ledger) + 1 BY <1>0, <2>1
  <2>3. CASE t \in 1..Len(ledger)
    <3>1. Within(ledger, t) BY <1>0, <2>3 DEF Serial
    <3> QED BY <1>0, <1>2, <2>1, <2>3, <3>1, WithinAppend
  <2>4. CASE t = Len(ledger) + 1
    <3>1. Within(Append(ledger, r), Len(ledger) + 1) BY <1>0, <1>2, WithinNew DEF Reversing
    <3> QED BY <2>1, <2>4, <3>1
  <2> QED BY <2>2, <2>3, <2>4
<1>3. ASSUME NEW h \in Handlers, NEW r \in RowType, handler[h] \in HandlerType, handler[h].pc = "tx",
             RowOf(handler[h], r), ~Taken(ledger, r.key), t \in 1..Len(ledger),
             r.kind = "refund", r.ref = RefundRef(t)
      PROVE  r.amount <= -ledger[t].amount - Refunded(ledger, t, NoKey)
  <2> DEFINE q == handler[h]
             k == Call[q.call].key
  <2>1. q.call \in Calls /\ q.tx \in Nat /\ q.pc = "tx" BY <1>3 DEF HandlerType
  <2>2. /\ Call[q.call].op = "refund" /\ r.key = k /\ r.amount = Call[q.call].amount
        /\ q.tx = t
    BY <1>3 DEF RowOf, RefundRef
  <2>3. Crediting(q, t) BY <2>1, <2>2 DEF Crediting
  <2>4. Granted(ledger, q) BY <1>0, <2>1, <2>2, <2>3 DEF Reserved
  <2>5. r.amount <= Rest(ledger, t, k) BY <1>3, <2>2, <2>4 DEF Granted
  <2>6. r.amount > 0 /\ r.amount \in Int /\ k \in Keys /\ k # NoKey
    BY <2>1, <2>2, ConstantTypes
  <2>7. Refunded(ledger, t, k) = Refunded(ledger, t, NoKey)
    <3>1. \A i \in DOMAIN ledger : ledger[i].kind = "refund" => ledger[i].key # NoKey
      BY ConstantTypes DEF Keyed
    <3>2. ~Taken(ledger, k) BY <1>3, <2>2
    <3> HIDE DEF k
    <3> QED BY <1>0, <2>6, <3>1, <3>2, RefundedUnkeyed
  <2>8. ledger[t].amount \in Int
    <3>1. ledger[t] \in RowType BY <1>0, <1>3
    <3> QED BY <3>1, RowAmounts
  <2>9. Refunded(ledger, t, NoKey) \in Int BY <1>0, RefundedAppend
  <2> HIDE DEF q, k
  <2> QED BY <2>5, <2>6, <2>7, <2>8, <2>9 DEF Rest, Greater
<1>4. ASSUME NEW h \in Handlers, NEW r \in RowType, RowOf(handler[h], r), r.kind = "charge"
      PROVE  r.amount <= 0
  BY <1>4 DEF RowOf
<1> QED BY <1>1, <1>2, <1>3, <1>4, LedgerSteps

\* The refunds of a charge that are about to be credited have one key, and what
\* one of them was granted nobody else uses up.
LEMMA ReservedStep == TypeOK /\ Fitting /\ Reserved /\ ServiceSteps => Reserved'
<1> SUFFICES ASSUME TypeOK, Fitting, Reserved, ServiceSteps,
                    NEW g \in Handlers, NEW t \in Nat, Crediting(handler'[g], t), t \notin raced'
             PROVE  /\ Granted(ledger', handler'[g])
                    /\ \A f \in Handlers : Crediting(handler'[f], t) =>
                         Call[handler'[f].call].key = Call[handler'[g].call].key
  BY DEF Reserved
<1>0. /\ t \notin raced /\ ledger \in Seq(RowType)
      /\ handler \in [Handlers -> {Idle} \cup HandlerType]
      /\ \A u : ~Crediting(Idle, u)
  BY RacedGrows DEF TypeOK, HandlerType, Crediting, Idle
\* The handlers the step leaves alone.
<1>1. ASSUME Crediting(handler[g], t)
      PROVE  /\ Granted(ledger, handler[g]) /\ handler[g].tx \in 1..Len(ledger)
             /\ \A f \in Handlers : Crediting(handler[f], t) =>
                  Call[handler[f].call].key = Call[handler[g].call].key
  <2>1. Fits(ledger, handler[g]) BY DEF Fitting
  <2>2. handler[g].tx \in DOMAIN ledger BY <1>1, <2>1 DEF Crediting, Fits
  <2> QED BY <1>0, <1>1, <2>2 DEF Reserved
<1>2. CASE Still BY <1>1, <1>2 DEF Still
<1>3. CASE Funds
  <2>1. PICK r \in RowType : r.kind = "topup" /\ Post(r) BY <1>3 DEF Funds
  <2>2. ledger' = Append(ledger, r) /\ handler' = handler BY <1>3, <2>1, Posted DEF Funds
  <2>3. Granted(Append(ledger, r), handler[g]) BY <1>0, <1>1, <2>1, <2>2, GrantedKept
  <2> QED BY <1>1, <2>2, <2>3
<1>4. ASSUME NEW h \in Handlers, Local(h)
      PROVE  /\ Granted(ledger', handler'[g])
             /\ \A f \in Handlers : Crediting(handler'[f], t) =>
                  Call[handler'[f].call].key = Call[handler'[g].call].key
  <2>1. PICK q \in {Idle} \cup HandlerType :
          handler' = [handler EXCEPT ![h] = q] /\ \A u : ~Crediting(q, u)
    BY <1>4 DEF Local
  <2>2. ledger' = ledger BY <1>4 DEF Local, walletVars
  <2>3. \A f \in Handlers : Crediting(handler'[f], t) => handler'[f] = handler[f]
    BY <1>0, <2>1
  <2> QED BY <1>1, <2>2, <2>3
<1>5. ASSUME NEW h \in Handlers, Grants(h)
      PROVE  /\ Granted(ledger', handler'[g])
             /\ \A f \in Handlers : Crediting(handler'[f], t) =>
                  Call[handler'[f].call].key = Call[handler'[g].call].key
  <2>1. PICK q \in HandlerType :
          /\ handler' = [handler EXCEPT ![h] = q] /\ Crediting(q, q.tx)
          /\ Call[q.call].amount <= Rest(ledger, q.tx, Call[q.call].key)
          /\ q.tx \notin raced' =>
               \A f \in Handlers : Crediting(handler[f], q.tx) =>
                 Call[handler[f].call].key = Call[q.call].key
    BY <1>5 DEF Grants
  <2>2. ledger' = ledger BY <1>5 DEF Grants, walletVars
  <2>3. handler'[h] = q /\ \A f \in Handlers \ {h} : handler'[f] = handler[f] BY <1>0, <2>1
  <2>4. Granted(ledger, q) BY <2>1 DEF Granted
  <2>5. Crediting(q, t) => q.tx = t BY DEF Crediting
  <2> QED BY <1>1, <2>1, <2>2, <2>3, <2>4, <2>5
<1>6. ASSUME NEW h \in Handlers, Moves(h)
      PROVE  /\ Granted(ledger', handler'[g])
             /\ \A f \in Handlers : Crediting(handler'[f], t) =>
                  Call[handler'[f].call].key = Call[handler'[g].call].key
  <2>1. \A f \in Handlers : Crediting(handler'[f], t) => f # h /\ handler'[f] = handler[f]
    BY <1>0, <1>6 DEF Moves
  <2>2. Crediting(handler[g], t) /\ handler'[g] = handler[g] BY <2>1
  <2>3. CASE UNCHANGED walletVars BY <1>1, <2>1, <2>2, <2>3 DEF walletVars
  <2>4. ASSUME NEW r, RowOf(handler[h], r), Post(r) PROVE Granted(ledger', handler[g])
    <3>1. r \in RowType /\ ledger' = Append(ledger, r) BY <2>4, Posted DEF RowOf
    <3>2. r.kind = "refund" /\ r.ref = RefundRef(handler[g].tx) => r.key = Call[handler[g].call].key
      <4> SUFFICES ASSUME r.kind = "refund", r.ref = RefundRef(handler[g].tx)
                   PROVE  r.key = Call[handler[g].call].key
        OBVIOUS
      <4>1. Call[handler[h].call].op = "refund" /\ handler[h].tx = t /\ handler[h].pc = "tx"
        BY <1>6, <2>2, <2>4 DEF RowOf, RefundRef, Crediting, Moves
      <4>2. Crediting(handler[h], t) BY <4>1 DEF Crediting
      <4> QED BY <1>1, <2>2, <2>4, <4>2 DEF RowOf
    <3> QED BY <1>0, <1>1, <2>2, <3>1, <3>2, GrantedKept
  <2> QED BY <1>1, <1>6, <2>1, <2>2, <2>3, <2>4 DEF Moves, Settled
<1> QED BY <1>2, <1>3, <1>4, <1>5, <1>6 DEF ServiceSteps

-----------------------------------------------------------------------------
(* What the service API tells its callers and moves is right.              *)

LEMMA ServiceInit == Init => ServiceInv
<1> SUFFICES ASSUME Init PROVE ServiceInv OBVIOUS
<1>1. /\ ledger = <<>> /\ balance = [w \in Workspaces |-> 0] /\ member = Members
      /\ handler = [h \in Handlers |-> Idle] /\ sends = [c \in Calls |-> 0]
      /\ answers = [c \in Calls |-> {}] /\ failures = 0 /\ raced = {}
  BY DEF Init, WalletInit
<1>2. TypeOK BY <1>1, ServiceAssumption DEF TypeOK
<1>3. DOMAIN ledger = {} BY <1>1
<1>4. \A h \in Handlers : Fits(ledger, handler[h]) /\ \A t : ~Crediting(handler[h], t)
  BY <1>1 DEF Fits, Crediting, Idle
<1>5. IdemKeyUnique BY <1>3 DEF IdemKeyUnique
<1> QED BY <1>1, <1>2, <1>3, <1>4, <1>5
    DEF ServiceInv, Answered, Keyed, Reversing, Fitting, Serial, Reserved

LEMMA ServiceStep == ServiceInv /\ [Next]_vars => ServiceInv'
<1> SUFFICES ASSUME ServiceInv, [Next]_vars PROVE ServiceInv' OBVIOUS
<1>1. TypeOK /\ IdemKeyUnique /\ Answered /\ Keyed /\ Reversing /\ Fitting /\ Serial /\ Reserved
  BY DEF ServiceInv
<1>2. ServiceSteps BY <1>1, StepsOfService
<1> QED BY <1>1, <1>2, TypeStep, AnsweredStep, KeysStep, ReversingStep, FittingStep, SerialStep,
           ReservedStep DEF ServiceInv

LEMMA InvHolds == ServiceInv => ServiceHolds
<1> SUFFICES ASSUME ServiceInv PROVE ServiceHolds OBVIOUS
<1>1. TypeOK BY DEF ServiceInv
<1>2. AnswersMatchLedger BY DEF ServiceInv, Answered, Tells, AnswersMatchLedger
<1>3. RefundsReverseCharges BY DEF ServiceInv, Reversing, Reverses, RefundsReverseCharges
<1>4. ASSUME NEW i \in Charges \ raced PROVE ~Overdrawn(i)
  <2>1. ledger \in Seq(RowType) /\ i \in DOMAIN ledger /\ ledger[i].kind = "charge"
    BY <1>1, <1>4 DEF TypeOK, Charges
  <2>2. Refunded(ledger, i, NoKey) <= -ledger[i].amount
    BY <1>4, <2>1 DEF ServiceInv, Serial, Within
  <2>3. ledger[i] \in RowType BY <2>1
  <2>4. ledger[i].amount \in Int BY <2>3, RowAmounts
  <2>5. Refunded(ledger, i, NoKey) \in Int BY <2>1, <2>3, RefundedAppend
  <2>6. RefundedBefore(i, NoKey) = Refunded(ledger, i, NoKey) BY DEF RefundedBefore, Refunded
  <2> QED BY <2>2, <2>4, <2>5, <2>6 DEF Overdrawn
<1> QED BY <1>1, <1>2, <1>3, <1>4 DEF ServiceHolds, SerialRefundsWithinCharge

\* However calls are retried, lost and interleaved, an answer describes the row
\* of its key, a refund reverses a charge of its own wallet, and the refunds of
\* a charge whose refunds have not raced stay within it (service.go).
THEOREM ServiceCorrect == Spec => []ServiceHolds
<1>1. Spec => []ServiceInv
  <2>1. Init => ServiceInv BY ServiceInit
  <2>2. ServiceInv /\ [Next]_vars => ServiceInv' BY ServiceStep
  <2> QED BY <2>1, <2>2, PTL DEF Spec
<1>2. ServiceInv => ServiceHolds BY InvHolds
<1> QED BY <1>1, <1>2, PTL

-----------------------------------------------------------------------------
(* A refund that is sent again.                                            *)

\* An idempotency key names one refund: every request under it asks for the
\* same amount of the same charge.  (A caller that reuses a key for another
\* refund is rightly told that it exceeds what remains of that other charge.)
KeyNamesRefund ==
  \A c, d \in Calls :
    Call[c].op = "refund" /\ Call[d].op = "refund" /\ Call[c].key = Call[d].key =>
      Call[c].amount = Call[d].amount /\ Call[Call[c].of].key = Call[Call[d].of].key

\* A refund that has been credited is within the remainder left by the others.
LEMMA CreditedWithinRest ==
  ASSUME ServiceInv, KeyNamesRefund, NEW h \in Handlers, Serving(h, "history"),
         NEW i \in CreditedUnder(Current(h).key), ledger[i].ref[2] \notin raced
  PROVE  Current(h).amount <= Remainder(handler[h].tx, Current(h).key)
<1> DEFINE c == handler[h].call
           t == handler[h].tx
           k == Current(h).key
<1>1. TypeOK /\ ledger \in Seq(RowType) /\ IdemKeyUnique /\ Keyed
  BY DEF ServiceInv, TypeOK
<1>2. handler[h] \in HandlerType /\ handler[h].pc = "history" /\ c \in Calls
  BY <1>1, HandlerTypes DEF Serving, HandlerType
<1>3. /\ Call[c].op = "refund" /\ t \in DOMAIN ledger
      /\ ledger[t].kind = "charge" /\ ledger[t].key = Call[Call[c].of].key
  <2>1. Fits(ledger, handler[h]) BY DEF ServiceInv, Fitting
  <2> QED BY <1>2, <2>1 DEF Fits
<1>4. i \in DOMAIN ledger /\ ledger[i].kind = "refund" /\ ledger[i].key = k /\ k = Call[c].key
  BY DEF CreditedUnder, Current
<1>5. k \in Keys /\ k # NoKey BY <1>2, <1>4, ConstantTypes
<1>6. PICK j \in 1..(i - 1), d \in Calls :
        /\ ledger[i].ref = RefundRef(j) /\ ledger[j].kind = "charge"
        /\ Call[d].op = "refund" /\ ledger[i].key = Call[d].key /\ ledger[i].amount = Call[d].amount
        /\ ledger[j].key = Call[Call[d].of].key
  BY <1>4 DEF ServiceInv, Reversing, Reverses
<1>7. ledger[i].amount = Call[c].amount /\ ledger[j].key = ledger[t].key
  BY <1>2, <1>3, <1>4, <1>6 DEF KeyNamesRefund
<1>8. j = t
  <2>1. j \in DOMAIN ledger BY <1>1, <1>4
  <2>2. ledger[t].key # NoKey BY <1>1, <1>3, ConstantTypes DEF Keyed
  <2> QED BY <1>1, <1>3, <1>7, <2>1, <2>2 DEF IdemKeyUnique
<1>9. t \notin raced /\ ledger[i].ref = RefundRef(t) BY <1>6, <1>8 DEF RefundRef
<1>10. Refunded(ledger, t, NoKey) <= -ledger[t].amount
  BY <1>3, <1>9 DEF ServiceInv, Serial, Within
<1>11. /\ Refunded(ledger, t, k) \in Int
       /\ Refunded(ledger, t, NoKey) = Refunded(ledger, t, k) + ledger[i].amount
  <2>1. \A n \in DOMAIN ledger : ledger[n].kind = "refund" => ledger[n].key # NoKey
    BY <1>1, ConstantTypes DEF Keyed
  <2>2. \A n \in DOMAIN ledger : ledger[n].key = k => n = i
    BY <1>1, <1>4, <1>5 DEF IdemKeyUnique
  <2> HIDE DEF t, k
  <2>3. /\ i \in DOMAIN ledger /\ ledger[i].kind = "refund" /\ ledger[i].ref = RefundRef(t)
        /\ ledger[i].key = k /\ k # NoKey
    BY <1>4, <1>5, <1>9
  <2> QED BY <1>1, <2>1, <2>2, <2>3, RefundedKeyed
<1>12. ledger[t].amount \in Int /\ ledger[i].amount \in Int
  <2>1. ledger[t] \in RowType /\ ledger[i] \in RowType BY <1>1, <1>3, <1>4
  <2> QED BY <2>1, RowAmounts
<1>13. Remainder(t, k) = Greater(0, -ledger[t].amount - Refunded(ledger, t, k))
  BY DEF Remainder, RefundedBefore, Refunded
<1>14. Current(h).amount = ledger[i].amount BY <1>7 DEF Current
<1> HIDE DEF t, k
<1>15. ledger[i].amount <= Remainder(t, k) BY <1>10, <1>11, <1>12, <1>13 DEF Greater
<1> QED BY <1>14, <1>15 DEF t, k

\* Only the check of the remainder tells a caller that its refund exceeds it.
LEMMA RetryStep ==
  ASSUME ServiceInv, KeyNamesRefund, [Next]_vars
  PROVE  RetryAnswer
<1> SUFFICES ASSUME NEW c \in Calls, NEW a \in answers'[c] \ answers[c],
                    a.status = "refund_exceeds_charge",
                    NEW i \in CreditedUnder(Call[c].key), ledger[i].ref[2] \notin raced
             PROVE  FALSE
  BY DEF RetryAnswer
<1>0. TypeOK /\ answers \in [Calls -> SUBSET AnswerType] BY DEF ServiceInv, TypeOK, AnswerType
<1>1. answers' # answers OBVIOUS
<1>2. ASSUME NEW h \in Handlers, NEW status, NEW moved, NEW tx, Reply(h, status, moved, tx)
      PROVE  a.status = status /\ c = handler[h].call
  <2>1. answers' = [answers EXCEPT ![handler[h].call] =
                      @ \cup {[status |-> status, moved |-> moved, tx |-> tx]}]
    BY <1>2 DEF Reply
  <2>2. c = handler[h].call BY <1>0, <2>1
  <2>3. a = [status |-> status, moved |-> moved, tx |-> tx] BY <1>0, <2>1, <2>2
  <2> QED BY <2>2, <2>3
<1>3. ASSUME NEW h \in Handlers, CheckRemainder(h) PROVE FALSE
  <2>1. Serving(h, "history") BY <1>3 DEF CheckRemainder
  <2>2. CASE Proceed(h, "tx") BY <1>1, <2>2 DEF Proceed
  <2>3. CASE /\ Reply(h, "refund_exceeds_charge", 0, 0)
             /\ Current(h).amount > Remainder(handler[h].tx, Current(h).key)
    <3>1. c = handler[h].call BY <1>2, <2>3
    <3>2. i \in CreditedUnder(Current(h).key) BY <3>1 DEF Current
    <3>3. Current(h).amount <= Remainder(handler[h].tx, Current(h).key)
      BY <2>1, <3>2, CreditedWithinRest
    <3>4. Current(h).amount \in Int BY <3>1, ConstantTypes DEF Current
    <3>5. Remainder(handler[h].tx, Current(h).key) \in Int
      <4> DEFINE t == handler[h].tx
      <4>1. ledger \in Seq(RowType) /\ Fits(ledger, handler[h])
        BY DEF ServiceInv, TypeOK, Fitting
      <4>2. handler[h].pc = "history" /\ t \in DOMAIN ledger BY <2>1, <4>1 DEF Serving, Fits
      <4>3. ledger[t] \in RowType BY <4>1, <4>2
      <4>4. Refunded(ledger, t, Current(h).key) \in Int BY <4>1, <4>3, RefundedAppend
      <4>5. ledger[t].amount \in Int BY <4>3, RowAmounts
      <4> HIDE DEF t
      <4>6. RefundedBefore(t, Current(h).key) = Refunded(ledger, t, Current(h).key)
        BY DEF RefundedBefore, Refunded
      <4>7. Remainder(t, Current(h).key) \in Int BY <4>4, <4>5, <4>6 DEF Remainder, Greater
      <4> QED BY <4>7 DEF t
    <3> QED BY <2>3, <3>3, <3>4, <3>5
  <2> QED BY <1>3, <2>2, <2>3 DEF CheckRemainder
<1>4. ASSUME NEW h \in Handlers, CheckSubject(h) \/ CheckRow(h) PROVE FALSE
  <2>1. ~Reply(h, "subject_mismatch", 0, 0) BY <1>2
  <2> QED BY <1>1, <1>4, <2>1 DEF CheckSubject, CheckRow, Proceed
<1>5. ASSUME NEW h \in Handlers, MoveMoney(h) PROVE FALSE
  <2>1. a.status = Outcome(h).status BY <1>2, <1>5 DEF MoveMoney, Outcome
  <2> QED BY <2>1 DEF Outcome, IdemOutcome, findIdemRow
<1>6. ASSUME NEW h \in Handlers, HandlerFails(h) \/ AnswerLost(h) PROVE FALSE
  BY <1>1, <1>6 DEF HandlerFails, AnswerLost
<1>7. ASSUME NEW h \in Handlers, NEW d \in Calls, Send(h, d) PROVE FALSE
  BY <1>1, <1>7 DEF Send
<1>8. ASSUME NEW u \in Users, TopUp(u) PROVE FALSE BY <1>1, <1>8 DEF TopUp
<1>9. ASSUME NEW w \in Workspaces, NEW u \in Users, RemoveWorkspaceMember(w, u) PROVE FALSE
  BY <1>1, <1>9 DEF RemoveWorkspaceMember
<1>10. CASE UNCHANGED vars BY <1>1, <1>10 DEF vars
<1> QED BY <1>3, <1>4, <1>5, <1>6, <1>7, <1>8, <1>9, <1>10 DEF Next

\* As long as callers do not reuse a refund's key for another refund: one that
\* has been credited is never told, sent again, that it exceeds the charge it
\* has itself used up (service.go:491-496).
THEOREM RetriedRefundReplays ==
  ASSUME KeyNamesRefund
  PROVE  Spec => RefundRetryReplays
<1>1. Init => ServiceInv BY ServiceInit
<1>2. ServiceInv /\ [Next]_vars => ServiceInv' BY ServiceStep
<1>3. ServiceInv /\ [Next]_vars => [RetryAnswer]_vars BY RetryStep
<1> QED BY <1>1, <1>2, <1>3, PTL DEF Spec, RefundRetryReplays
=============================================================================
