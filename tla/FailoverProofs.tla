--------------------------- MODULE FailoverProofs ---------------------------
(***************************************************************************)
(* Theorems about Failover, for every number of requests and credentials.  *)
(*                                                                         *)
(* The argument: what a request remembers of its own attempts keeps its    *)
(* shape under every local step (Shape), whatever the keys' health does    *)
(* meanwhile; and the leases of the requests and the recorded probes are   *)
(* two views of the same thing (Leases), so that the one lease on a key    *)
(* whose circuit is open is also the only request admitted since.          *)
(***************************************************************************)
EXTENDS Failover, FiniteSetTheorems, TLAPS

-----------------------------------------------------------------------------
(* The inductive invariant.                                                *)

RequestType ==
  [pc : Pcs, tried : SUBSET Creds, attempts : Nat, oauthAttempts : 0..MaxOAuth,
   apiKeyOnly : BOOLEAN, withheld : BOOLEAN, cred : Creds \cup {NoCred},
   lease : BOOLEAN, old : BOOLEAN, stale : BOOLEAN, retry : BOOLEAN, used : Seq(Creds),
   rows : Nat, ending : Endings]

HealthType ==
  [fails : 0..PauseAfter, open : BOOLEAN, paused : BOOLEAN, disabled : BOOLEAN]

Answers == {"served", "client error", "client gone"}

\* The log rows a request owes for the attempts it has counted.
Accounts(q) ==
  /\ q.pc = "acquire" => q.attempts = q.rows
  /\ q.pc \in {"begin", "ready", "sent"} => q.attempts = q.rows + 1
  /\ q.pc = "settled" =>
       IF q.retry THEN q.attempts = q.rows
       ELSE q.attempts = q.rows + 1 /\ q.ending \in Answers
  /\ q.pc = "done" => q.attempts = q.rows + (IF q.ending \in Answers THEN 1 ELSE 0)

\* A request holds a credential, which it will not be offered again, from
\* Acquire to Settle, and a lease only on an API key that admitted it.
Carries(q) ==
  /\ q.pc \in {"begin", "ready", "sent", "settled"} => q.cred \in q.tried
  /\ q.lease => q.pc \in {"ready", "sent", "settled"} /\ q.cred \in Keys

\* The OAuth credentials a request was sent to, and the one it is about to be.
SubsUsed(s) == Cardinality({i \in DOMAIN s : s[i] \in Subs})
InHand(q) == IF q.pc \in {"begin", "ready"} /\ q.cred \in Subs THEN 1 ELSE 0

Sends(q) ==
  /\ \A i, j \in DOMAIN q.used : i # j => q.used[i] # q.used[j]
  /\ q.pc # "done" => \A i \in DOMAIN q.used : q.used[i] \in q.tried
  /\ q.pc \in {"begin", "ready"} => \A i \in DOMAIN q.used : q.used[i] # q.cred
  /\ q.pc # "done" => SubsUsed(q.used) + InHand(q) <= q.oauthAttempts
  /\ SubsUsed(q.used) <= MaxOAuth

Shape(q) == Accounts(q) /\ Carries(q) /\ Sends(q)

\* A lease is recorded, and nobody else's; every record is of a lease; and on a
\* key with an open circuit, only a lease admits.
Leases ==
  /\ \A r \in Requests : req[r].lease => req[r].cred \in probes
  /\ \A r, q \in Requests : req[r].lease /\ req[q].lease /\ req[r].cred = req[q].cred => r = q
  /\ \A k \in probes : \E r \in Requests : req[r].lease /\ req[r].cred = k
  /\ \A r \in Requests, k \in Keys :
       health[k].open /\ On(r, k) /\ ~req[r].old => req[r].lease

-----------------------------------------------------------------------------
(* What a request does with its own record.                                *)

\* The counts of sends to OAuth credentials.
LEMMA SubsUsedType ==
  ASSUME NEW s \in Seq(Creds)
  PROVE  SubsUsed(s) \in Nat /\ SubsUsed(<< >>) = 0
<1>1. IsFiniteSet(DOMAIN s)
  <2>1. DOMAIN s = 1..Len(s) /\ Len(s) \in Nat OBVIOUS
  <2> QED BY <2>1, FS_Interval
<1>2. IsFiniteSet({i \in DOMAIN s : s[i] \in Subs}) BY <1>1, FS_Subset
<1>3. {i \in DOMAIN << >> : << >>[i] \in Subs} = {} OBVIOUS
<1> QED BY <1>2, <1>3, FS_CardinalityType, FS_EmptySet DEF SubsUsed

\* One more send to an OAuth credential counts one more, to a key none.
LEMMA SubsUsedAppend ==
  ASSUME NEW s \in Seq(Creds), NEW a \in Creds
  PROVE  SubsUsed(Append(s, a)) = SubsUsed(s) + (IF a \in Subs THEN 1 ELSE 0)
<1> DEFINE n == Len(s) + 1
           old == {i \in DOMAIN s : s[i] \in Subs}
           new == {i \in DOMAIN Append(s, a) : Append(s, a)[i] \in Subs}
<1>1. /\ DOMAIN s = 1..Len(s) /\ Len(s) \in Nat
      /\ DOMAIN Append(s, a) = 1..n /\ Append(s, a)[n] = a
      /\ \A i \in 1..Len(s) : Append(s, a)[i] = s[i]
  OBVIOUS
<1>2. 1..n = 1..Len(s) \cup {n} /\ n \notin 1..Len(s) BY <1>1
<1>3. new = IF a \in Subs THEN old \cup {n} ELSE old BY <1>1, <1>2
<1>4. IsFiniteSet(old) /\ n \notin old
  <2>1. IsFiniteSet(1..Len(s)) BY <1>1, FS_Interval
  <2> QED BY <1>1, <1>2, <2>1, FS_Subset
<1>5. Cardinality(old \cup {n}) = Cardinality(old) + 1
  BY <1>4, FS_AddElement
<1>6. Cardinality(old) \in Nat BY <1>4, FS_CardinalityType
<1>7. SubsUsed(s) = Cardinality(old) /\ SubsUsed(Append(s, a)) = Cardinality(new)
  BY DEF SubsUsed
<1> HIDE DEF old, new, n
<1> QED BY <1>3, <1>5, <1>6, <1>7

LEMMA FreshShape == Fresh \in RequestType /\ Shape(Fresh) /\ Idle \in RequestType /\ Shape(Idle)
<1>0. << >> \in Seq(Creds) OBVIOUS
<1>1. << >> \in Seq(Creds) /\ SubsUsed(<< >>) = 0 BY <1>0, SubsUsedType
<1>2. MaxOAuth \in Nat BY FailoverAssumption
<1>3. Fresh \in RequestType
  BY <1>1, <1>2 DEF Fresh, RequestType, Pcs, Endings
<1>4. Idle \in RequestType BY <1>3 DEF Idle, Fresh, RequestType, Pcs, Endings
<1>5. /\ Fresh.pc = "acquire" /\ Fresh.used = << >> /\ Fresh.attempts = 0 /\ Fresh.rows = 0
      /\ ~Fresh.lease /\ Fresh.oauthAttempts = 0
      /\ Idle.pc = "idle" /\ Idle.used = << >> /\ ~Idle.lease /\ Idle.oauthAttempts = 0
  BY DEF Fresh, Idle
<1>6. Shape(Fresh)
  BY <1>1, <1>2, <1>5 DEF Shape, Accounts, Carries, Sends, InHand
<1>7. Shape(Idle)
  BY <1>1, <1>2, <1>5 DEF Shape, Accounts, Carries, Sends, InHand
<1> QED BY <1>3, <1>4, <1>6, <1>7

LEMMA EndShape ==
  ASSUME NEW q \in RequestType, Shape(q), NEW how \in Endings,
         \/ q.pc = "acquire" /\ how \notin Answers
         \/ q.pc = "settled" /\ ~q.retry /\ how = q.ending
  PROVE  End(q, how) \in RequestType /\ Shape(End(q, how)) /\ ~End(q, how).lease
         /\ End(q, how).pc = "done"
<1> DEFINE e == End(q, how)
<1>1. e \in RequestType
  BY FreshShape DEF End, Idle, RequestType, Pcs
<1>2. /\ e.pc = "done" /\ e.attempts = q.attempts /\ e.rows = q.rows /\ e.used = q.used
      /\ e.ending = how /\ ~e.lease
  BY DEF End, Idle, Fresh
<1>3. Accounts(e) BY <1>2 DEF Accounts, Shape, RequestType
<1>4. Carries(e) /\ Sends(e) BY <1>2 DEF Carries, Sends, Shape
<1> QED BY <1>1, <1>2, <1>3, <1>4 DEF Shape

\* Going round keeps everything a request remembers of earlier attempts.
LEMMA AgainType ==
  ASSUME NEW q \in RequestType
  PROVE  /\ Again(q) \in RequestType
         /\ Again(q).pc = "acquire" /\ Again(q).attempts = q.attempts
         /\ Again(q).rows = q.rows /\ Again(q).used = q.used /\ Again(q).tried = q.tried
         /\ Again(q).oauthAttempts = q.oauthAttempts /\ ~Again(q).lease
BY DEF Again, RequestType, Pcs

\* The request lets go of its credential and goes round: an attempt that was
\* withheld, or a preparation that failed (one more row).
LEMMA AgainShape ==
  ASSUME NEW q \in RequestType, Shape(q),
         q.pc = "settled" /\ q.retry
  PROVE  Again(q) \in RequestType /\ Shape(Again(q)) /\ ~Again(q).lease
         /\ Again(q).pc = "acquire"
<1> DEFINE e == Again(q)
<1>1. e \in RequestType BY DEF Again, RequestType, Pcs
<1>2. /\ e.pc = "acquire" /\ e.attempts = q.attempts /\ e.rows = q.rows /\ e.used = q.used
      /\ e.tried = q.tried /\ e.oauthAttempts = q.oauthAttempts /\ ~e.lease
  BY DEF Again, RequestType
<1>3. Accounts(e) /\ Carries(e) BY <1>2 DEF Accounts, Carries, Shape
<1>4. Sends(e)
  <2>1. InHand(q) = 0 /\ InHand(e) = 0 BY <1>2 DEF InHand
  <2> QED BY <1>2, <2>1 DEF Sends, Shape
<1> QED BY <1>1, <1>2, <1>3, <1>4 DEF Shape

LEMMA UnpreparedShape ==
  ASSUME NEW q \in RequestType, Shape(q), q.pc = "begin", q.cred \in Subs,
         NEW e, e = Unprepared(q)
  PROVE  e \in RequestType /\ Shape(e) /\ ~e.lease /\ e.pc = "acquire"
<1>0. PICK a \in RequestType : a = Again(q) BY AgainType
<1>1. e \in RequestType
  <2>1. a.rows + 1 \in Nat BY DEF RequestType
  <2> QED BY <1>0, <2>1 DEF Unprepared, RequestType
<1>2. /\ e.pc = "acquire" /\ e.attempts = q.attempts /\ e.rows = q.rows + 1
      /\ e.used = q.used
      /\ e.tried = q.tried /\ e.oauthAttempts = q.oauthAttempts /\ ~e.lease
  <2>1. /\ e.pc = a.pc /\ e.attempts = a.attempts /\ e.rows = a.rows + 1
        /\ e.used = a.used /\ e.tried = a.tried /\ e.oauthAttempts = a.oauthAttempts
        /\ e.lease = a.lease
    BY <1>0 DEF Unprepared, RequestType
  <2> QED BY <1>0, <2>1, AgainType
<1>3. Accounts(e) /\ Carries(e) BY <1>2 DEF Accounts, Carries, Shape
<1>4. Sends(e)
  <2>1. InHand(q) = 1 /\ InHand(e) = 0 BY <1>2 DEF InHand
  <2>2. SubsUsed(q.used) \in Nat /\ q.oauthAttempts \in Nat
    BY SubsUsedType, FailoverAssumption DEF RequestType
  <2> QED BY <1>2, <2>1, <2>2 DEF Sends, Shape
<1> QED BY <1>1, <1>2, <1>3, <1>4 DEF Shape

\* A refused key gives its attempt back, and stays tried.
LEMMA RefusedShape ==
  ASSUME NEW q \in RequestType, Shape(q), q.pc = "begin", q.cred \in Keys
  PROVE  Refused(q) \in RequestType /\ Shape(Refused(q)) /\ ~Refused(q).lease
         /\ Refused(q).pc = "acquire"
<1> DEFINE e == Refused(q)
<1>0. q.attempts = q.rows + 1 /\ q.rows \in Nat BY DEF Shape, Accounts, RequestType
<1>a. PICK a \in RequestType : a = Again(q) BY AgainType
<1>b. a.attempts - 1 \in Nat BY <1>0, <1>a, AgainType
<1>1. e \in RequestType BY <1>a, <1>b DEF Refused, RequestType
<1>2. /\ e.pc = "acquire" /\ e.attempts = q.attempts - 1 /\ e.rows = q.rows
      /\ e.used = q.used
      /\ e.tried = q.tried /\ e.oauthAttempts = q.oauthAttempts /\ ~e.lease
  <2>1. /\ e.pc = a.pc /\ e.attempts = a.attempts - 1 /\ e.rows = a.rows
        /\ e.used = a.used /\ e.tried = a.tried /\ e.oauthAttempts = a.oauthAttempts
        /\ e.lease = a.lease
    BY <1>a DEF Refused, RequestType
  <2> QED BY <1>a, <2>1, AgainType
<1>3. Accounts(e) /\ Carries(e) BY <1>0, <1>2 DEF Accounts, Carries, Shape
<1>4. Sends(e)
  <2>1. InHand(q) = 0 /\ InHand(e) = 0 BY <1>2, FailoverAssumption DEF InHand
  <2> QED BY <1>2, <2>1 DEF Sends, Shape
<1> QED BY <1>1, <1>2, <1>3, <1>4 DEF Shape

\* The pool offers no credential the request has tried, and OAuth credentials
\* only within the budget.
LEMMA OfferedType ==
  ASSUME TypeOK, NEW r \in Requests, NEW a \in Offered(r)
  PROVE  a \in Creds \ req[r].tried
         /\ (a \in Subs => req[r].oauthAttempts < MaxOAuth)
<1>1. /\ recovery \subseteq Keys /\ req[r].oauthAttempts \in 0..MaxOAuth
      /\ Due \subseteq Keys /\ MaxOAuth \in Nat /\ Keys \cap Subs = {}
  BY FailoverAssumption DEF TypeOK, Due, Recovering
<1> HIDE DEF Due
<1> QED BY <1>1 DEF Offered, Creds

LEMMA SkippedShape ==
  ASSUME NEW q \in RequestType, Shape(q), q.pc = "acquire", NEW a \in Creds,
         NEW e, e = Skipped(q, a)
  PROVE  e \in RequestType /\ Shape(e) /\ ~e.lease /\ e.pc = "acquire"
<1>1. e \in RequestType BY DEF Skipped, RequestType
<1>2. /\ e.pc = "acquire" /\ e.attempts = q.attempts /\ e.rows = q.rows /\ e.used = q.used
      /\ e.tried = q.tried \cup {a} /\ e.oauthAttempts = q.oauthAttempts
      /\ e.lease = q.lease
  BY DEF Skipped, RequestType
<1>3. Accounts(e) /\ Carries(e) BY <1>2 DEF Accounts, Carries, Shape
<1>4. Sends(e)
  <2>1. InHand(q) = 0 /\ InHand(e) = 0 BY <1>2 DEF InHand
  <2> QED BY <1>2, <2>1 DEF Sends, Shape
<1> QED BY <1>1, <1>2, <1>3, <1>4 DEF Shape, Carries

LEMMA ChosenShape ==
  ASSUME NEW q \in RequestType, Shape(q), q.pc = "acquire", NEW a \in Creds \ q.tried,
         a \in Subs => q.oauthAttempts < MaxOAuth,
         NEW e, e = Chosen(q, a)
  PROVE  e \in RequestType /\ Shape(e) /\ ~e.lease /\ e.pc = "begin"
<1>0. q.oauthAttempts \in 0..MaxOAuth /\ MaxOAuth \in Nat
  BY FailoverAssumption DEF RequestType
<1>1. q.oauthAttempts + (IF a \in Subs THEN 1 ELSE 0) \in 0..MaxOAuth BY <1>0
<1>a. PICK c \in RequestType : c = Counted(q, a)
  <2>1. q.attempts + 1 \in Nat BY DEF RequestType
  <2> QED BY <1>1, <2>1 DEF Counted, RequestType
<1>b. PICK d \in RequestType : d = Skipped(c, a) BY <1>a DEF Skipped, RequestType
<1>2. e \in RequestType BY <1>a, <1>b DEF Chosen, RequestType, Pcs
<1>3. /\ e.pc = "begin" /\ e.attempts = q.attempts + 1 /\ e.rows = q.rows
      /\ e.used = q.used /\ e.tried = q.tried \cup {a} /\ e.cred = a
      /\ e.oauthAttempts = q.oauthAttempts + (IF a \in Subs THEN 1 ELSE 0)
      /\ e.lease = q.lease
  <2>1. /\ e.pc = "begin" /\ e.attempts = d.attempts /\ e.rows = d.rows
        /\ e.used = d.used /\ e.tried = d.tried /\ e.cred = a
        /\ e.oauthAttempts = d.oauthAttempts /\ e.lease = d.lease
    BY <1>a, <1>b DEF Chosen, RequestType
  <2>2. /\ d.attempts = c.attempts /\ d.rows = c.rows /\ d.used = c.used
        /\ d.tried = c.tried \cup {a} /\ d.oauthAttempts = c.oauthAttempts
        /\ d.lease = c.lease
    BY <1>b DEF Skipped, RequestType
  <2>3. /\ c.attempts = q.attempts + 1 /\ c.rows = q.rows /\ c.used = q.used
        /\ c.tried = q.tried /\ c.lease = q.lease
        /\ c.oauthAttempts = q.oauthAttempts + (IF a \in Subs THEN 1 ELSE 0)
    BY <1>a DEF Counted, RequestType
  <2> QED BY <2>1, <2>2, <2>3
<1>4. Accounts(e) /\ Carries(e) BY <1>3 DEF Accounts, Carries, Shape
<1>5. Sends(e)
  <2>1. InHand(q) = 0 /\ InHand(e) = IF a \in Subs THEN 1 ELSE 0 BY <1>3 DEF InHand
  <2>2. SubsUsed(q.used) \in Nat BY SubsUsedType DEF RequestType
  <2> QED BY <1>0, <1>3, <2>1, <2>2 DEF Sends, Shape
<1> QED BY <1>2, <1>3, <1>4, <1>5 DEF Shape, Carries

\* Prepared, or admitted by the key, with or without a lease.
LEMMA ReadyShape ==
  ASSUME NEW q \in RequestType, Shape(q), q.pc = "begin", NEW l \in BOOLEAN,
         l => q.cred \in Keys, NEW e, e = [q EXCEPT !.pc = "ready", !.lease = l]
  PROVE  e \in RequestType /\ Shape(e)
<1>1. e \in RequestType BY DEF RequestType, Pcs
<1>2. /\ e.pc = "ready" /\ e.attempts = q.attempts /\ e.rows = q.rows /\ e.used = q.used
      /\ e.tried = q.tried /\ e.cred = q.cred /\ e.oauthAttempts = q.oauthAttempts
      /\ e.lease = l
  BY DEF RequestType
<1>3. Accounts(e) /\ Carries(e) BY <1>2 DEF Accounts, Carries, Shape
<1>4. Sends(e)
  <2>1. InHand(q) = InHand(e) BY <1>2 DEF InHand
  <2> QED BY <1>2, <2>1 DEF Sends, Shape
<1> QED BY <1>1, <1>3, <1>4 DEF Shape

\* Sent: the one use of the credential, which counts if it is an OAuth one.
LEMMA SentShape ==
  ASSUME NEW q \in RequestType, Shape(q), q.pc = "ready",
         NEW e, e = [q EXCEPT !.pc = "sent", !.used = Append(@, q.cred)]
  PROVE  e \in RequestType /\ Shape(e) /\ e.lease = q.lease
<1>0. q.cred \in Creds /\ q.used \in Seq(Creds) BY DEF Shape, Carries, RequestType
<1>1. e \in RequestType
  <2>1. Append(q.used, q.cred) \in Seq(Creds) BY <1>0
  <2> QED BY <2>1 DEF RequestType, Pcs
<1>2. /\ e.pc = "sent" /\ e.attempts = q.attempts /\ e.rows = q.rows
      /\ e.used = Append(q.used, q.cred)
      /\ e.tried = q.tried /\ e.cred = q.cred /\ e.oauthAttempts = q.oauthAttempts
      /\ e.lease = q.lease
  BY DEF RequestType
<1>3. Accounts(e) /\ Carries(e) BY <1>2 DEF Accounts, Carries, Shape
<1>4. Sends(e)
  <2>1. InHand(q) = (IF q.cred \in Subs THEN 1 ELSE 0) /\ InHand(e) = 0
    BY <1>2 DEF InHand
  <2>2. SubsUsed(e.used) = SubsUsed(q.used) + InHand(q) BY <1>0, <1>2, <2>1, SubsUsedAppend
  <2>3. /\ SubsUsed(q.used) \in Nat /\ q.oauthAttempts \in 0..MaxOAuth /\ MaxOAuth \in Nat
        /\ SubsUsed(q.used) + InHand(q) <= q.oauthAttempts
    BY <1>0, SubsUsedType, FailoverAssumption DEF RequestType, Shape, Sends
  <2>4. SubsUsed(e.used) + InHand(e) <= e.oauthAttempts /\ SubsUsed(e.used) <= MaxOAuth
    BY <1>2, <2>1, <2>2, <2>3
  <2>5. /\ DOMAIN e.used = DOMAIN q.used \cup {Len(q.used) + 1}
        /\ e.used[Len(q.used) + 1] = q.cred
        /\ \A i \in DOMAIN q.used : e.used[i] = q.used[i]
    <3>1. /\ DOMAIN e.used = 1..(Len(q.used) + 1) /\ Len(q.used) \in Nat
          /\ DOMAIN q.used = 1..Len(q.used) /\ e.used[Len(q.used) + 1] = q.cred
          /\ \A i \in 1..Len(q.used) : e.used[i] = q.used[i]
      BY <1>0, <1>2
    <3> QED BY <3>1
  <2>6. /\ \A i, j \in DOMAIN q.used : i # j => q.used[i] # q.used[j]
        /\ \A i \in DOMAIN q.used : q.used[i] \in q.tried /\ q.used[i] # q.cred
        /\ q.cred \in q.tried
    BY DEF Shape, Sends, Carries
  <2>7. /\ \A i, j \in DOMAIN e.used : i # j => e.used[i] # e.used[j]
        /\ \A i \in DOMAIN e.used : e.used[i] \in e.tried
    BY <1>2, <2>5, <2>6
  <2> QED BY <1>2, <2>4, <2>7 DEF Sends
<1> QED BY <1>1, <1>2, <1>3, <1>4 DEF Shape

LEMMA WithheldShape ==
  ASSUME NEW q \in RequestType, Shape(q), q.pc = "sent"
  PROVE  /\ Withheld(q) \in RequestType /\ Shape(Withheld(q)) /\ Withheld(q).pc = "settled"
         /\ Withheld(q).lease = q.lease /\ Withheld(q).cred = q.cred
<1> DEFINE e == Withheld(q)
<1>1. e \in RequestType
  <2>1. q.rows + 1 \in Nat BY DEF RequestType
  <2> QED BY <2>1 DEF Withheld, RequestType, Pcs
<1>2. /\ e.pc = "settled" /\ e.attempts = q.attempts /\ e.rows = q.rows + 1
      /\ e.used = q.used /\ e.retry /\ e.tried = q.tried /\ e.cred = q.cred
      /\ e.oauthAttempts = q.oauthAttempts /\ e.lease = q.lease
  BY DEF Withheld, RequestType
<1>3. Accounts(e) /\ Carries(e) BY <1>2 DEF Accounts, Carries, Shape
<1>4. Sends(e)
  <2>1. InHand(q) = 0 /\ InHand(e) = 0 BY <1>2 DEF InHand
  <2> QED BY <1>2, <2>1 DEF Sends, Shape
<1> QED BY <1>1, <1>2, <1>3, <1>4 DEF Shape

LEMMA AnsweredShape ==
  ASSUME NEW q \in RequestType, Shape(q), q.pc = "sent", NEW how \in Answers
  PROVE  /\ Answered(q, how) \in RequestType /\ Shape(Answered(q, how))
         /\ Answered(q, how).pc = "settled"
         /\ Answered(q, how).lease = q.lease /\ Answered(q, how).cred = q.cred
<1> DEFINE e == Answered(q, how)
<1>1. e \in RequestType BY DEF Answered, RequestType, Pcs, Endings, Answers
<1>2. /\ e.pc = "settled" /\ e.attempts = q.attempts /\ e.rows = q.rows
      /\ e.used = q.used /\ ~e.retry /\ e.tried = q.tried /\ e.cred = q.cred
      /\ e.oauthAttempts = q.oauthAttempts /\ e.lease = q.lease /\ e.ending = how
  BY DEF Answered, RequestType
<1>3. Accounts(e) /\ Carries(e) BY <1>2 DEF Accounts, Carries, Shape
<1>4. Sends(e)
  <2>1. InHand(q) = 0 /\ InHand(e) = 0 BY <1>2 DEF InHand
  <2> QED BY <1>2, <2>1 DEF Sends, Shape
<1> QED BY <1>1, <1>2, <1>3, <1>4 DEF Shape

\* That a request is older than a failure is nothing it accounts for.
LEMMA OvertakenShape ==
  ASSUME NEW q \in RequestType, Shape(q), NEW e,
         e.pc = q.pc, e.attempts = q.attempts, e.rows = q.rows, e.used = q.used,
         e.retry = q.retry, e.tried = q.tried, e.cred = q.cred,
         e.oauthAttempts = q.oauthAttempts, e.lease = q.lease, e.ending = q.ending
  PROVE  Shape(e)
BY DEF Shape, Accounts, Carries, Sends, InHand

-----------------------------------------------------------------------------
(* Types of the shared state.                                              *)

LEMMA FailedType ==
  ASSUME NEW h \in HealthType, NEW fault
  PROVE  /\ Failed(h, fault) \in HealthType
         /\ h.open => Failed(h, fault).open
<1>0. PauseAfter \in Nat \ {0} BY FailoverAssumption
<1>1. CASE fault = "429" BY <1>1 DEF Failed, HealthType
<1>2. CASE fault # "429" /\ (fault = "credential" \/ h.open \/ h.fails + 1 >= PauseAfter)
  <2>1. PauseAfter \in 0..PauseAfter BY <1>0
  <2>2. Failed(h, fault) = [h EXCEPT !.fails = PauseAfter, !.open = TRUE, !.paused = TRUE]
    BY <1>2 DEF Failed
  <2> QED BY <2>1, <2>2 DEF HealthType
<1>3. CASE fault # "429" /\ ~(fault = "credential" \/ h.open \/ h.fails + 1 >= PauseAfter)
  <2>1. h.fails + 1 \in 0..PauseAfter BY <1>0, <1>3 DEF HealthType
  <2>2. Failed(h, fault) = [h EXCEPT !.fails = @ + 1] BY <1>3 DEF Failed
  <2> QED BY <1>3, <2>1, <2>2 DEF HealthType
<1> QED BY <1>1, <1>2, <1>3

\* What happens to the keys' records in a step: a success or an operator resets
\* one, a failure worsens one, a pause lapses; no other step touches them.
LEMMA HealthStep ==
  ASSUME TypeOK, [Next]_vars
  PROVE  \/ UNCHANGED health
         \/ \E r \in Requests : KeyServes(r) /\ req[r].cred \in Keys
              /\ health' = [health EXCEPT ![req[r].cred] = Working]
              /\ ~(health[req[r].cred].open /\ req[r].stale)
         \/ \E r \in Requests, fault \in {"upstream", "credential", "429"} :
              req[r].cred \in Keys
              /\ health' = [health EXCEPT ![req[r].cred] =
                              Failed(health[req[r].cred], fault)]
         \/ \E k \in Keys : health' = [health EXCEPT ![k].paused = FALSE]
         \/ \E k \in Keys : Operator(k)
<1>1. ASSUME NEW r \in Requests, KeyServes(r)
      PROVE  UNCHANGED health \/
             (req[r].cred \in Keys /\ health' = [health EXCEPT ![req[r].cred] = Working]
               /\ ~(health[req[r].cred].open /\ req[r].stale))
  BY <1>1 DEF KeyServes, recordAPIKeySuccess, Sent
<1>2. ASSUME NEW r \in Requests, KeyBreaksOff(r)
      PROVE  UNCHANGED health \/
             (req[r].cred \in Keys
               /\ health' = [health EXCEPT ![req[r].cred] =
                               Failed(health[req[r].cred], "upstream")])
  BY <1>2 DEF KeyBreaksOff, recordAPIKeyFailure, Sent, TypeOK
<1>3. ASSUME NEW r \in Requests, KeyFails(r)
      PROVE  UNCHANGED health \/
             \E fault \in {"upstream", "credential", "429"} :
               req[r].cred \in Keys
               /\ health' = [health EXCEPT ![req[r].cred] =
                               Failed(health[req[r].cred], fault)]
  BY <1>3 DEF KeyFails, recordAPIKeyFailure, Sent, TypeOK
<1>4. ASSUME NEW r \in Requests,
             \/ Arrive(r) \/ GiveUp(r) \/ Exhausted(r) \/ Acquire(r) \/ PrepareOAuth(r)
             \/ PreparationFails(r) \/ beginAPIKeyAttempt(r) \/ Dispatch(r)
             \/ KeyRestricted(r) \/ SubServes(r) \/ SubFails(r) \/ Forwarded(r) \/ Settle(r)
      PROVE  UNCHANGED health
  BY <1>4 DEF Arrive, GiveUp, Exhausted, Acquire, PrepareOAuth, PreparationFails,
     beginAPIKeyAttempt, Dispatch, KeyRestricted, SubServes, SubFails, Forwarded, Settle
<1>5. ASSUME NEW k \in Keys, PauseLapses(k)
      PROVE  health' = [health EXCEPT ![k].paused = FALSE]
  BY <1>5 DEF PauseLapses
<1>6. (\E k \in Keys : RelayTurns(k)) \/ (\E a \in Creds : ExclusionLapses(a))
        \/ UNCHANGED vars => UNCHANGED health
  BY DEF RelayTurns, ExclusionLapses, vars
<1> QED BY <1>1, <1>2, <1>3, <1>4, <1>5, <1>6 DEF Next, Step

LEMMA HealthTypeStep ==
  ASSUME TypeOK, [Next]_vars
  PROVE  health' \in [Keys -> HealthType]
<1>0. health \in [Keys -> HealthType] BY DEF TypeOK, HealthType
<1>1. Working \in HealthType BY FailoverAssumption DEF Working, HealthType
<1>2. CASE UNCHANGED health BY <1>0, <1>2
<1>3. ASSUME NEW k \in Keys, NEW h \in HealthType, health' = [health EXCEPT ![k] = h]
      PROVE  health' \in [Keys -> HealthType]
  BY <1>0, <1>3
<1>4. ASSUME NEW k \in Keys, NEW fault,
             health' = [health EXCEPT ![k] = Failed(health[k], fault)]
      PROVE  health' \in [Keys -> HealthType]
  <2>1. Failed(health[k], fault) \in HealthType BY <1>0, FailedType
  <2> QED BY <1>3, <1>4, <2>1
<1>5. ASSUME NEW k \in Keys, health' = [health EXCEPT ![k].paused = FALSE]
      PROVE  health' \in [Keys -> HealthType]
  BY <1>0, <1>5 DEF HealthType
<1>6. ASSUME NEW k \in Keys, Operator(k) PROVE health' \in [Keys -> HealthType]
  <2>1. CASE Disable(k) BY <1>0, <2>1 DEF Disable, HealthType
  <2>2. CASE Enable(k) BY <1>1, <1>3, <2>2 DEF Enable
  <2>3. CASE ClearFailure(k)
    <3>1. health[k].disabled \in BOOLEAN BY <1>0 DEF HealthType
    <3>2. [Working EXCEPT !.disabled = health[k].disabled] \in HealthType
      BY <1>1, <3>1 DEF HealthType
    <3> QED BY <1>3, <2>3, <3>2 DEF ClearFailure
  <2> QED BY <1>6, <2>1, <2>2, <2>3 DEF Operator
<1> QED BY <1>1, <1>2, <1>3, <1>4, <1>5, <1>6, HealthStep

\* An open circuit closes only by a verified success or by the operator.
LEMMA CircuitStep ==
  ASSUME TypeOK, [Next]_vars, NEW k \in Keys, health[k].open, ~health'[k].open
  PROVE  \/ Operator(k)
         \/ \E r \in Requests : KeyServes(r) /\ req[r].cred = k /\ ~req[r].stale
<1>0. health \in [Keys -> HealthType] BY DEF TypeOK, HealthType
<1>1. ASSUME NEW r \in Requests, KeyServes(r), req[r].cred \in Keys,
             health' = [health EXCEPT ![req[r].cred] = Working],
             ~(health[req[r].cred].open /\ req[r].stale)
      PROVE  req[r].cred = k /\ ~req[r].stale
  BY <1>0, <1>1
<1>2. ASSUME NEW c \in Keys, NEW fault,
             health' = [health EXCEPT ![c] = Failed(health[c], fault)]
      PROVE  FALSE
  <2>1. CASE c = k
    <3>1. Failed(health[k], fault).open BY <1>0, FailedType
    <3> QED BY <1>0, <1>2, <2>1, <3>1
  <2>2. CASE c # k BY <1>0, <1>2, <2>2
  <2> QED BY <2>1, <2>2
<1>3. ASSUME NEW c \in Keys, health' = [health EXCEPT ![c].paused = FALSE] PROVE FALSE
  BY <1>0, <1>3 DEF HealthType
<1>4. ASSUME NEW c \in Keys, Operator(c) PROVE Operator(k)
  <2>1. c = k BY <1>0, <1>4 DEF Operator, Disable, Enable, ClearFailure, HealthType
  <2> QED BY <1>4, <2>1
<1> QED BY <1>1, <1>2, <1>3, <1>4, HealthStep

\* The pool's books and the recorded probes stay what they are.
LEMMA PoolTypeStep ==
  ASSUME TypeOK, [Next]_vars
  PROVE  /\ recovery' \subseteq Keys /\ probes' \subseteq Keys /\ down' \subseteq Keys
         /\ limited' \subseteq Keys /\ resting' \subseteq Subs
<1>0. /\ recovery \subseteq Keys /\ probes \subseteq Keys /\ down \subseteq Keys
      /\ limited \subseteq Keys /\ resting \subseteq Subs
  BY DEF TypeOK
<1> DEFINE Goal == /\ recovery' \subseteq Keys /\ probes' \subseteq Keys
                   /\ down' \subseteq Keys
                   /\ limited' \subseteq Keys /\ resting' \subseteq Subs
<1>1. CASE UNCHANGED <<recovery, probes, limited, resting, down>> BY <1>0, <1>1
<1>2. ASSUME NEW r \in Requests,
             \/ Arrive(r) \/ GiveUp(r) \/ PrepareOAuth(r) \/ PreparationFails(r)
             \/ Dispatch(r) \/ Forwarded(r)
      PROVE  Goal
  BY <1>1, <1>2 DEF Arrive, GiveUp, PrepareOAuth, PreparationFails, Dispatch, Forwarded
<1>3. ASSUME NEW r \in Requests, Exhausted(r) \/ Acquire(r) PROVE Goal
  BY <1>0, <1>3 DEF Exhausted, Acquire, Recovering
<1>4. ASSUME NEW r \in Requests, beginAPIKeyAttempt(r) \/ Settle(r) PROVE Goal
  BY <1>0, <1>4 DEF beginAPIKeyAttempt, Settle
<1>5. ASSUME NEW r \in Requests, KeyServes(r) PROVE Goal
  BY <1>0, <1>5 DEF KeyServes, recordAPIKeySuccess
<1>6. ASSUME NEW r \in Requests, KeyBreaksOff(r) \/ KeyFails(r) PROVE Goal
  <2>1. UNCHANGED <<probes, limited, resting, down>> /\ req[r].cred \in Keys
    BY <1>0, <1>6 DEF KeyBreaksOff, KeyFails, Sent
  <2>2. recovery' \subseteq recovery \cup {req[r].cred}
    BY <1>6 DEF KeyBreaksOff, KeyFails, recordAPIKeyFailure
  <2> QED BY <1>0, <2>1, <2>2
<1>7. ASSUME NEW r \in Requests, KeyRestricted(r) PROVE Goal
  BY <1>0, <1>7 DEF KeyRestricted, Sent
<1>8. ASSUME NEW r \in Requests, SubServes(r) \/ SubFails(r) PROVE Goal
  BY <1>0, <1>8 DEF SubServes, SubFails, Sent
<1>9. ASSUME NEW k \in Keys, PauseLapses(k) \/ RelayTurns(k) \/ Operator(k) PROVE Goal
  BY <1>0, <1>9 DEF PauseLapses, RelayTurns, Operator, Disable, Enable, ClearFailure
<1>10. ASSUME NEW a \in Creds, ExclusionLapses(a) PROVE Goal
  BY <1>0, <1>10 DEF ExclusionLapses
<1>11. CASE UNCHANGED vars BY <1>1, <1>11 DEF vars
<1>12. ASSUME NEW r \in Requests, Arrive(r) \/ Step(r) PROVE Goal
  BY <1>2, <1>3, <1>4, <1>5, <1>6, <1>7, <1>8, <1>12 DEF Step
<1> QED BY <1>9, <1>10, <1>11, <1>12 DEF Next

-----------------------------------------------------------------------------
(* Requests and leases.                                                    *)

Requesting == req \in [Requests -> RequestType] /\ \A r \in Requests : Shape(req[r])

ReqInv == Requesting /\ Leases

\* A step of r that neither takes nor gives back a lease.
LEMMA PlainMove ==
  ASSUME ReqInv, NEW r \in Requests, NEW e \in RequestType, Shape(e),
         req' = [req EXCEPT ![r] = e], UNCHANGED probes,
         e.lease = req[r].lease, e.lease => e.cred = req[r].cred,
         \A k \in Keys : health'[k].open => health[k].open,
         \A k \in Keys :
           health'[k].open /\ e.cred = k /\ e.pc \in {"ready", "sent"} /\ ~e.old => e.lease
  PROVE  ReqInv'
<1>1. req \in [Requests -> RequestType] /\ \A q \in Requests : Shape(req[q])
  BY DEF ReqInv, Requesting
<1>2. /\ req'[r] = e /\ \A q \in Requests \ {r} : req'[q] = req[q]
      /\ req' \in [Requests -> RequestType]
  BY <1>1
<1>3. Requesting'
  BY <1>1, <1>2 DEF Requesting
<1>4. \A q \in Requests :
        /\ req'[q].lease = req[q].lease
        /\ req'[q].lease => req'[q].cred = req[q].cred
  BY <1>2
<1>5. /\ \A q \in Requests : req'[q].lease => req'[q].cred \in probes'
      /\ \A p, q \in Requests :
           req'[p].lease /\ req'[q].lease /\ req'[p].cred = req'[q].cred => p = q
      /\ \A k \in probes' : \E q \in Requests : req'[q].lease /\ req'[q].cred = k
  BY <1>4 DEF ReqInv, Leases
<1>6. ASSUME NEW q \in Requests, NEW k \in Keys, health'[k].open,
             req'[q].cred = k, req'[q].pc \in {"ready", "sent"}, ~req'[q].old
      PROVE  req'[q].lease
  <2>1. CASE q = r BY <1>2, <1>6, <2>1
  <2>2. CASE q # r
    <3>1. req'[q] = req[q] /\ health[k].open BY <1>2, <1>6, <2>2
    <3>2. On(q, k) /\ ~req[q].old BY <1>6, <3>1 DEF On
    <3> QED BY <3>1, <3>2 DEF ReqInv, Leases
  <2> QED BY <2>1, <2>2
<1> QED BY <1>3, <1>5, <1>6 DEF ReqInv, Leases, On

\* No request changes, and no circuit opens.
LEMMA NoMove ==
  ASSUME ReqInv, UNCHANGED <<req, probes>>, \A k \in Keys : health'[k].open => health[k].open
  PROVE  ReqInv'
<1>1. Requesting'
  BY DEF ReqInv, Requesting
<1> QED BY <1>1 DEF ReqInv, Leases, On

LEMMA BeginMove ==
  ASSUME ReqInv, TypeOK, NEW r \in Requests, beginAPIKeyAttempt(r)
  PROVE  ReqInv'
<1> DEFINE k == req[r].cred
<1>0. /\ req[r] \in RequestType /\ Shape(req[r]) /\ req[r].pc = "begin" /\ k \in Keys
      /\ UNCHANGED health /\ ~req[r].lease
  BY DEF ReqInv, Requesting, beginAPIKeyAttempt, Shape, Carries
<1>1. CASE ~Serving(k) \/ k \in probes
  <2> DEFINE e == Refused(req[r])
  <2>1. req' = [req EXCEPT ![r] = e] /\ UNCHANGED probes
    BY <1>1 DEF beginAPIKeyAttempt
  <2>2. e \in RequestType /\ Shape(e) /\ ~e.lease /\ e.pc = "acquire"
    BY <1>0, RefusedShape
  <2> HIDE DEF e, k
  <2>3. e.lease = req[r].lease BY <1>0, <2>2 DEF RequestType
  <2> QED BY <1>0, <2>1, <2>2, <2>3, PlainMove
<1>2. CASE ~(~Serving(k) \/ k \in probes)
  <2> DEFINE l == Unverified(k)
             e == [req[r] EXCEPT !.pc = "ready", !.lease = l]
  <2>1. /\ req' = [req EXCEPT ![r] = e]
        /\ probes' = IF l THEN probes \cup {k} ELSE probes
        /\ k \notin probes
    BY <1>2 DEF beginAPIKeyAttempt
  <2>2. l \in BOOLEAN
    <3>1. health[k].open \in BOOLEAN BY <1>0 DEF TypeOK
    <3> QED BY <3>1 DEF Unverified
  <2>3. e \in RequestType /\ Shape(e) BY <1>0, <2>2, ReadyShape
  <2>4. e.pc = "ready" /\ e.cred = k /\ e.lease = l BY <1>0 DEF RequestType
  <2>5. health[k].open => l BY DEF Unverified
  <2> HIDE DEF e, l
  <2>6. CASE ~l
    <3>1. e.lease = req[r].lease BY <1>0, <2>2, <2>4, <2>6 DEF RequestType
    <3>2. UNCHANGED probes BY <2>1, <2>6
    <3> QED BY <1>0, <2>1, <2>3, <2>4, <2>5, <2>6, <3>1, <3>2, PlainMove
  <2>7. CASE l
    <3>1. /\ req \in [Requests -> RequestType] /\ \A q \in Requests : Shape(req[q])
          /\ probes' = probes \cup {k}
      BY <2>1, <2>7 DEF ReqInv, Requesting
    <3>2. /\ req'[r] = e /\ \A q \in Requests \ {r} : req'[q] = req[q]
          /\ req' \in [Requests -> RequestType]
      BY <2>1, <2>3, <3>1
    <3>3. Requesting'
      BY <2>3, <3>1, <3>2 DEF Requesting
    <3>4. \A q \in Requests \ {r} : req[q].lease => req[q].cred # k
      BY <2>1 DEF ReqInv, Leases
    <3>5. /\ \A q \in Requests : req'[q].lease => req'[q].cred \in probes'
          /\ \A p, q \in Requests :
               req'[p].lease /\ req'[q].lease /\ req'[p].cred = req'[q].cred => p = q
      BY <2>4, <3>1, <3>2, <3>4 DEF ReqInv, Leases
    <3>6. \A c \in probes' : \E q \in Requests : req'[q].lease /\ req'[q].cred = c
      <4>1. \A c \in probes : \E q \in Requests \ {r} : req[q].lease /\ req[q].cred = c
        BY <1>0 DEF ReqInv, Leases
      <4> QED BY <2>4, <2>7, <3>1, <3>2, <4>1
    <3>7. ASSUME NEW q \in Requests, NEW c \in Keys, health'[c].open,
                 req'[q].cred = c, req'[q].pc \in {"ready", "sent"}, ~req'[q].old
          PROVE  req'[q].lease
      <4>1. CASE q = r BY <2>4, <2>7, <3>2, <4>1
      <4>2. CASE q # r
        <5>1. req'[q] = req[q] /\ health[c].open BY <1>0, <3>2, <3>7, <4>2
        <5>2. On(q, c) /\ ~req[q].old BY <3>7, <5>1 DEF On
        <5> QED BY <5>1, <5>2 DEF ReqInv, Leases
      <4> QED BY <4>1, <4>2
    <3> QED BY <3>3, <3>5, <3>6, <3>7 DEF ReqInv, Leases, On
  <2> QED BY <2>6, <2>7
<1> QED BY <1>1, <1>2

\* The request that settles gives back its lease, and the record of it.
LEMMA SettleMove ==
  ASSUME ReqInv, NEW r \in Requests, Settle(r)
  PROVE  ReqInv'
<1> DEFINE q0 == req[r]
           e == IF q0.retry THEN Again(q0) ELSE End(q0, q0.ending)
<1>0. /\ q0 \in RequestType /\ Shape(q0) /\ q0.pc = "settled" /\ UNCHANGED health
      /\ req' = [req EXCEPT ![r] = e]
      /\ probes' = IF q0.lease THEN probes \ {q0.cred} ELSE probes
      /\ req \in [Requests -> RequestType] /\ \A q \in Requests : Shape(req[q])
  BY DEF ReqInv, Requesting, Settle, Loop
<1>1. e \in RequestType /\ Shape(e) /\ ~e.lease /\ e.pc \notin {"ready", "sent"}
  <2>1. CASE q0.retry BY <1>0, <2>1, AgainShape
  <2>2. CASE ~q0.retry
    <3>1. q0.ending \in Endings BY <1>0 DEF RequestType
    <3> QED BY <1>0, <2>2, <3>1, EndShape
  <2> QED BY <2>1, <2>2
<1> HIDE DEF e
<1>2. /\ req'[r] = e /\ \A q \in Requests \ {r} : req'[q] = req[q]
      /\ req' \in [Requests -> RequestType]
  BY <1>0, <1>1
<1>3. Requesting'
  BY <1>0, <1>1, <1>2 DEF Requesting
<1>4. q0.lease => \A q \in Requests \ {r} : req[q].lease => req[q].cred # q0.cred
  BY DEF ReqInv, Leases
<1>5. /\ \A q \in Requests : req'[q].lease => req'[q].cred \in probes'
      /\ \A p, q \in Requests :
           req'[p].lease /\ req'[q].lease /\ req'[p].cred = req'[q].cred => p = q
  BY <1>0, <1>1, <1>2, <1>4 DEF ReqInv, Leases
<1>6. \A c \in probes' : \E q \in Requests : req'[q].lease /\ req'[q].cred = c
  <2> SUFFICES ASSUME NEW c \in probes'
               PROVE  \E q \in Requests : req'[q].lease /\ req'[q].cred = c
    OBVIOUS
  <2>1. PICK q \in Requests : req[q].lease /\ req[q].cred = c
    BY <1>0 DEF ReqInv, Leases
  <2>2. q # r BY <1>0, <2>1
  <2> QED BY <1>2, <2>1, <2>2
<1>7. ASSUME NEW q \in Requests, NEW c \in Keys, health'[c].open,
             req'[q].cred = c, req'[q].pc \in {"ready", "sent"}, ~req'[q].old
      PROVE  req'[q].lease
  <2>1. q # r BY <1>1, <1>2, <1>7
  <2>2. req'[q] = req[q] /\ health[c].open BY <1>0, <1>2, <1>7, <2>1
  <2>3. On(q, c) /\ ~req[q].old BY <1>7, <2>2 DEF On
  <2> QED BY <2>2, <2>3 DEF ReqInv, Leases
<1> QED BY <1>3, <1>5, <1>6, <1>7 DEF ReqInv, Leases, On

\* A failure marks the other requests on the key as older, so that none of them
\* counts as admitted since the circuit opened.
LEMMA FailureMove ==
  ASSUME ReqInv, TypeOK, NEW r \in Requests, NEW k \in Keys, req[r].cred = k, NEW fault,
         NEW e \in RequestType, Shape(e), e.pc = "settled", e.lease = req[r].lease,
         e.cred = k, UNCHANGED probes, recordAPIKeyFailure(r, k, fault, e)
  PROVE  ReqInv'
<1>0. /\ req \in [Requests -> RequestType] /\ \A q \in Requests : Shape(req[q])
      /\ health \in [Keys -> HealthType]
  BY DEF ReqInv, Requesting, TypeOK, HealthType
<1>1. CASE health[k].disabled
  <2>1. req' = [req EXCEPT ![r] = e] /\ UNCHANGED health
    BY <1>1 DEF recordAPIKeyFailure
  <2> QED BY <2>1, PlainMove
<1>2. CASE ~health[k].disabled
  <2> DEFINE h == Failed(health[k], fault)
  <2>1. PICK counts \in BOOLEAN :
          req' = [q \in Requests |->
                  IF q = r THEN e
                  ELSE IF On(q, k)
                  THEN [req[q] EXCEPT !.old = @ \/ h.open,
                                      !.stale = @ \/ (counts /\ req[q].pc = "sent")]
                  ELSE req[q]]
    BY <1>2 DEF recordAPIKeyFailure
  <2>2. health' = [health EXCEPT ![k] = h] BY <1>2 DEF recordAPIKeyFailure
  <2>3. h \in HealthType BY <1>0, FailedType
  <2> HIDE DEF h
  <2>4. /\ health'[k] = h /\ \A c \in Keys \ {k} : health'[c] = health[c]
    BY <1>0, <2>2, <2>3
  <2>5. ASSUME NEW q \in Requests, q # r, On(q, k)
        PROVE  /\ req'[q] \in RequestType /\ Shape(req'[q]) /\ req'[q].pc = req[q].pc
               /\ req'[q].cred = req[q].cred /\ req'[q].lease = req[q].lease
               /\ h.open => req'[q].old
    <3> DEFINE o == req[q].old \/ h.open
               t == req[q].stale \/ (counts /\ req[q].pc = "sent")
    <3>1. req'[q] = [req[q] EXCEPT !.old = o, !.stale = t] BY <2>1, <2>5
    <3>2. req[q] \in RequestType /\ Shape(req[q]) BY <1>0
    <3>3. o \in BOOLEAN /\ t \in BOOLEAN BY <2>3, <3>2 DEF RequestType, HealthType
    <3>4. h.open => o OBVIOUS
    <3> HIDE DEF o, t
    <3>5. req'[q].old = o BY <3>1, <3>2 DEF RequestType
    <3>6. h.open => req'[q].old BY <3>4, <3>5, Zenon
    <3>7. PICK e2 : e2 = req'[q] OBVIOUS
    <3>8. /\ e2.pc = req[q].pc /\ e2.attempts = req[q].attempts /\ e2.rows = req[q].rows
          /\ e2.used = req[q].used /\ e2.retry = req[q].retry /\ e2.tried = req[q].tried
          /\ e2.cred = req[q].cred /\ e2.oauthAttempts = req[q].oauthAttempts
          /\ e2.lease = req[q].lease /\ e2.ending = req[q].ending
      BY <3>1, <3>2, <3>7 DEF RequestType
    <3>9. Shape(e2) BY <3>2, <3>8, OvertakenShape
    <3>10. e2 \in RequestType BY <3>1, <3>2, <3>3, <3>7 DEF RequestType
    <3> QED BY <3>6, <3>7, <3>8, <3>9, <3>10
  <2>6. ASSUME NEW q \in Requests, q # r, ~On(q, k) PROVE req'[q] = req[q]
    BY <2>1, <2>6
  <2>7. req'[r] = e BY <2>1
  <2>8. \A q \in Requests :
          /\ req'[q] \in RequestType /\ Shape(req'[q])
          /\ req'[q].lease = req[q].lease /\ req'[q].cred = req[q].cred
    BY <1>0, <2>5, <2>6, <2>7
  <2>9. req' \in [Requests -> RequestType]
    <3>1. DOMAIN req' = Requests /\ req' = [q \in Requests |-> req'[q]] BY <2>1
    <3> QED BY <2>8, <3>1
  <2>10. Requesting' BY <2>8, <2>9 DEF Requesting
  <2>11. /\ \A q \in Requests : req'[q].lease => req'[q].cred \in probes'
         /\ \A p, q \in Requests :
              req'[p].lease /\ req'[q].lease /\ req'[p].cred = req'[q].cred => p = q
         /\ \A c \in probes' : \E q \in Requests : req'[q].lease /\ req'[q].cred = c
    BY <2>8 DEF ReqInv, Leases
  <2>12. ASSUME NEW q \in Requests, NEW c \in Keys, health'[c].open,
                req'[q].cred = c, req'[q].pc \in {"ready", "sent"}, ~req'[q].old
         PROVE  req'[q].lease
    <3>1. q # r BY <2>7, <2>12
    <3>2. CASE On(q, k)
      <4>1. c = k BY <2>5, <2>12, <3>1, <3>2 DEF On
      <4> QED BY <2>4, <2>5, <2>12, <3>1, <3>2, <4>1
    <3>3. CASE ~On(q, k)
      <4>1. req'[q] = req[q] BY <2>6, <3>1, <3>3
      <4>2. c # k BY <2>12, <3>3, <4>1 DEF On
      <4>3. health[c].open /\ On(q, c) /\ ~req[q].old BY <2>4, <2>12, <4>1, <4>2 DEF On
      <4> QED BY <4>1, <4>3 DEF ReqInv, Leases
    <3> QED BY <3>2, <3>3
  <2> QED BY <2>10, <2>11, <2>12 DEF ReqInv, Leases, On
<1> QED BY <1>1, <1>2

\* Looking for a credential: the budget, the pool, a model restriction.
LEMMA SearchMove ==
  ASSUME ReqInv, TypeOK, NEW r \in Requests,
         GiveUp(r) \/ Exhausted(r) \/ Acquire(r) \/ Arrive(r)
  PROVE  ReqInv'
<1>0. /\ req[r] \in RequestType /\ Shape(req[r]) /\ UNCHANGED <<health, probes>>
      /\ req[r].pc \in {"acquire", "idle", "done"}
  BY DEF ReqInv, Requesting, GiveUp, Exhausted, Acquire, Arrive
<1>1. ~req[r].lease BY <1>0 DEF Shape, Carries
<1>2. ASSUME NEW e \in RequestType, Shape(e), ~e.lease, e.pc \notin {"ready", "sent"},
             req' = [req EXCEPT ![r] = e]
      PROVE  ReqInv'
  <2>1. e.lease = req[r].lease BY <1>0, <1>1, <1>2 DEF RequestType
  <2> QED BY <1>0, <1>2, <2>1, PlainMove
<1>3. CASE GiveUp(r)
  <2> DEFINE e == End(req[r], "gave up")
  <2>1. req' = [req EXCEPT ![r] = e] /\ req[r].pc = "acquire" BY <1>3 DEF GiveUp
  <2>2. "gave up" \in Endings /\ "gave up" \notin Answers BY DEF Endings, Answers
  <2>3. e \in RequestType /\ Shape(e) /\ ~e.lease /\ e.pc = "done"
    BY <1>0, <2>1, <2>2, EndShape
  <2> HIDE DEF e
  <2> QED BY <1>2, <2>1, <2>3
<1>4. CASE Exhausted(r)
  <2> DEFINE how == IF req[r].withheld THEN "withheld error" ELSE "unavailable"
             e == End(req[r], how)
  <2>1. req' = [req EXCEPT ![r] = e] /\ req[r].pc = "acquire" BY <1>4 DEF Exhausted
  <2>2. how \in Endings /\ how \notin Answers BY DEF Endings, Answers
  <2> HIDE DEF how
  <2>3. e \in RequestType /\ Shape(e) /\ ~e.lease /\ e.pc = "done"
    BY <1>0, <2>1, <2>2, EndShape
  <2> HIDE DEF e
  <2> QED BY <1>2, <2>1, <2>3
<1>5. CASE Acquire(r)
  <2>0. req[r].pc = "acquire" BY <1>5 DEF Acquire
  <2>1. PICK a \in Offered(r) :
          req' = [req EXCEPT ![r] =
            IF a \in limited THEN Skipped(req[r], a) ELSE Chosen(req[r], a)]
    BY <1>5 DEF Acquire
  <2>2. a \in Creds \ req[r].tried /\ (a \in Subs => req[r].oauthAttempts < MaxOAuth)
    BY OfferedType
  <2>3. CASE a \in limited
    <3> DEFINE e == Skipped(req[r], a)
    <3>1. req' = [req EXCEPT ![r] = e] BY <2>1, <2>3
    <3>2. e \in RequestType /\ Shape(e) /\ ~e.lease /\ e.pc = "acquire"
      BY <1>0, <2>0, <2>2, SkippedShape
    <3> HIDE DEF e
    <3> QED BY <1>2, <3>1, <3>2
  <2>4. CASE a \notin limited
    <3> DEFINE e == Chosen(req[r], a)
    <3>1. req' = [req EXCEPT ![r] = e] BY <2>1, <2>4
    <3>2. e \in RequestType /\ Shape(e) /\ ~e.lease /\ e.pc = "begin"
      BY <1>0, <2>0, <2>2, ChosenShape
    <3> HIDE DEF e
    <3> QED BY <1>2, <3>1, <3>2
  <2> QED BY <2>3, <2>4
<1>6. CASE Arrive(r)
  <2>1. req' = [req EXCEPT ![r] = Fresh] BY <1>6 DEF Arrive
  <2>2. ~Fresh.lease /\ Fresh.pc = "acquire" BY DEF Fresh
  <2> QED BY <1>2, <2>1, <2>2, FreshShape
<1> QED BY <1>3, <1>4, <1>5, <1>6

\* Preparing an OAuth credential, and sending.
LEMMA PrepareMove ==
  ASSUME ReqInv, TypeOK, NEW r \in Requests,
         PrepareOAuth(r) \/ PreparationFails(r) \/ Dispatch(r)
  PROVE  ReqInv'
<1>0. /\ req[r] \in RequestType /\ Shape(req[r]) /\ UNCHANGED <<health, probes>>
      /\ Keys \cap Subs = {} /\ req \in [Requests -> RequestType]
  BY FailoverAssumption
     DEF ReqInv, Requesting, PrepareOAuth, PreparationFails, Dispatch
<1>1. CASE PrepareOAuth(r)
  <2> DEFINE e == [req[r] EXCEPT !.pc = "ready", !.lease = FALSE]
  <2>1. req[r].pc = "begin" /\ req[r].cred \in Subs BY <1>1 DEF PrepareOAuth
  <2>2. ~req[r].lease BY <1>0, <2>1 DEF Shape, Carries
  <2>3. req' = [req EXCEPT ![r] = [req[r] EXCEPT !.pc = "ready"]]
    BY <1>1 DEF PrepareOAuth
  <2>4. [req[r] EXCEPT !.pc = "ready"] = e
    <3>1. req[r].lease = FALSE BY <1>0, <2>2 DEF RequestType
    <3> QED BY <1>0, <3>1 DEF RequestType
  <2>5. e \in RequestType /\ Shape(e) BY <1>0, <2>1, ReadyShape
  <2>6. e.lease = FALSE /\ e.cred = req[r].cred BY <1>0 DEF RequestType
  <2>7. e.lease = req[r].lease BY <1>0, <2>2, <2>6 DEF RequestType
  <2>8. req' = [req EXCEPT ![r] = e] BY <2>3, <2>4
  <2> HIDE DEF e
  <2> QED BY <1>0, <2>1, <2>5, <2>6, <2>7, <2>8, PlainMove
<1>2. CASE PreparationFails(r)
  <2> DEFINE e == Unprepared(req[r])
  <2>1. req[r].pc = "begin" /\ req[r].cred \in Subs BY <1>2 DEF PreparationFails
  <2>2. ~req[r].lease BY <1>0, <2>1 DEF Shape, Carries
  <2>3. req' = [req EXCEPT ![r] = e] BY <1>2 DEF PreparationFails
  <2>4. e \in RequestType /\ Shape(e) /\ ~e.lease /\ e.pc = "acquire"
    BY <1>0, <2>1, UnpreparedShape
  <2> HIDE DEF e
  <2>5. e.lease = req[r].lease BY <1>0, <2>2, <2>4 DEF RequestType
  <2> QED BY <1>0, <2>3, <2>4, <2>5, PlainMove
<1>3. CASE Dispatch(r)
  <2> DEFINE e == [req[r] EXCEPT !.pc = "sent", !.used = Append(@, req[r].cred)]
  <2>1. req[r].pc = "ready" BY <1>3 DEF Dispatch
  <2>2. req' = [req EXCEPT ![r] = e] BY <1>0, <1>3 DEF Dispatch
  <2>3. e \in RequestType /\ Shape(e) /\ e.lease = req[r].lease
    BY <1>0, <2>1, SentShape
  <2>4. e.cred = req[r].cred /\ e.old = req[r].old BY <1>0 DEF RequestType
  <2> HIDE DEF e
  <2>5. \A k \in Keys : health[k].open /\ req[r].cred = k /\ ~req[r].old => req[r].lease
    BY <2>1 DEF ReqInv, Leases, On
  <2> QED BY <1>0, <2>2, <2>3, <2>4, <2>5, PlainMove
<1> QED BY <1>1, <1>2, <1>3

\* What came of an attempt that was sent.
LEMMA OutcomeMove ==
  ASSUME ReqInv, TypeOK, NEW r \in Requests,
         \/ KeyServes(r) \/ KeyBreaksOff(r) \/ KeyFails(r) \/ KeyRestricted(r)
         \/ SubServes(r) \/ SubFails(r) \/ Forwarded(r)
  PROVE  ReqInv'
<1> DEFINE w == Withheld(req[r])
           a(how) == Answered(req[r], how)
<1>0. /\ req[r] \in RequestType /\ Shape(req[r]) /\ req[r].pc = "sent"
      /\ UNCHANGED probes /\ health \in [Keys -> HealthType]
  BY DEF ReqInv, Requesting, TypeOK, HealthType, KeyServes, KeyBreaksOff, KeyFails,
         KeyRestricted, SubServes, SubFails, Forwarded, Sent
<1>1. /\ w \in RequestType /\ Shape(w) /\ w.pc = "settled"
      /\ w.lease = req[r].lease /\ w.cred = req[r].cred
  BY <1>0, WithheldShape
<1>2. \A how \in Answers :
        /\ a(how) \in RequestType /\ Shape(a(how)) /\ a(how).pc = "settled"
        /\ a(how).lease = req[r].lease /\ a(how).cred = req[r].cred
  BY <1>0, AnsweredShape
<1> HIDE DEF w, a
<1>3. ASSUME NEW e \in RequestType, Shape(e), e.pc = "settled", e.lease = req[r].lease,
             e.cred = req[r].cred, req' = [req EXCEPT ![r] = e],
             \A k \in Keys : health'[k].open => health[k].open
      PROVE  ReqInv'
  BY <1>0, <1>3, PlainMove
<1>4. CASE KeyServes(r)
  <2>1. req' = [req EXCEPT ![r] = a("served")] BY <1>4 DEF KeyServes, a
  <2>2. \A k \in Keys : health'[k].open => health[k].open
    <3>1. \/ UNCHANGED health
          \/ health' = [health EXCEPT ![req[r].cred] = Working]
      BY <1>4 DEF KeyServes, recordAPIKeySuccess
    <3>2. ~Working.open BY DEF Working
    <3> QED BY <1>0, <3>1, <3>2
  <2>3. "served" \in Answers BY DEF Answers
  <2> QED BY <1>2, <1>3, <2>1, <2>2, <2>3
<1>5. CASE KeyBreaksOff(r)
  <2>1. /\ req[r].cred \in Keys
        /\ recordAPIKeyFailure(r, req[r].cred, "upstream", a("served"))
    BY <1>5 DEF KeyBreaksOff, Sent, TypeOK, a
  <2>2. "served" \in Answers BY DEF Answers
  <2> QED BY <1>0, <1>2, <2>1, <2>2, FailureMove
<1>6. CASE KeyFails(r)
  <2>1. PICK fault \in {"upstream", "credential", "429"} :
          recordAPIKeyFailure(r, req[r].cred, fault, w)
    BY <1>6 DEF KeyFails, w
  <2>2. req[r].cred \in Keys BY <1>6 DEF KeyFails, Sent, TypeOK
  <2> QED BY <1>0, <1>1, <2>1, <2>2, FailureMove
<1>7. CASE KeyRestricted(r) \/ SubFails(r)
  <2>1. req' = [req EXCEPT ![r] = w] /\ UNCHANGED health
    BY <1>7 DEF KeyRestricted, SubFails, w
  <2> QED BY <1>1, <1>3, <2>1
<1>8. CASE SubServes(r)
  <2>1. req' = [req EXCEPT ![r] = a("served")] /\ UNCHANGED health
    BY <1>8 DEF SubServes, a
  <2>2. "served" \in Answers BY DEF Answers
  <2> QED BY <1>2, <1>3, <2>1, <2>2
<1>9. CASE Forwarded(r)
  <2>1. PICK how \in {"client error", "client gone"} : req' = [req EXCEPT ![r] = a(how)]
    BY <1>9 DEF Forwarded, a
  <2>2. how \in Answers /\ UNCHANGED health BY <1>9 DEF Answers, Forwarded
  <2> QED BY <1>2, <1>3, <2>1, <2>2
<1> QED BY <1>4, <1>5, <1>6, <1>7, <1>8, <1>9

LEMMA ReqStep == TypeOK /\ ReqInv /\ [Next]_vars => ReqInv'
<1> SUFFICES ASSUME TypeOK, ReqInv, [Next]_vars PROVE ReqInv' OBVIOUS
<1>0. health \in [Keys -> HealthType] BY DEF TypeOK, HealthType
<1>1. ASSUME NEW r \in Requests, Arrive(r) \/ Step(r) PROVE ReqInv'
  BY <1>1, SearchMove, PrepareMove, BeginMove, OutcomeMove, SettleMove DEF Step
<1>2. ASSUME NEW k \in Keys, PauseLapses(k) \/ RelayTurns(k) \/ Operator(k) PROVE ReqInv'
  <2>1. UNCHANGED <<req, probes>>
    BY <1>2 DEF PauseLapses, RelayTurns, Operator, Disable, Enable, ClearFailure
  <2>2. \A c \in Keys : health'[c].open => health[c].open
    <3>1. CASE PauseLapses(k) BY <1>0, <3>1 DEF PauseLapses, HealthType
    <3>2. CASE RelayTurns(k) BY <3>2 DEF RelayTurns
    <3>3. CASE Disable(k) BY <1>0, <3>3 DEF Disable, HealthType
    <3>4. CASE Enable(k) BY <1>0, <3>4 DEF Enable, Working
    <3>5. CASE ClearFailure(k) BY <1>0, <3>5 DEF ClearFailure, Working
    <3> QED BY <1>2, <3>1, <3>2, <3>3, <3>4, <3>5 DEF Operator
  <2> QED BY <2>1, <2>2, NoMove
<1>3. ASSUME NEW a \in Creds, ExclusionLapses(a) PROVE ReqInv'
  BY <1>3, NoMove DEF ExclusionLapses
<1>4. CASE UNCHANGED vars BY <1>4, NoMove DEF vars
<1> QED BY <1>1, <1>2, <1>3, <1>4 DEF Next

-----------------------------------------------------------------------------
(* The theorems.                                                           *)

FailoverInv == TypeOK /\ ReqInv

LEMMA FailoverInit == Init => FailoverInv
<1> SUFFICES ASSUME Init PROVE FailoverInv OBVIOUS
<1>1. health \in [Keys -> HealthType]
  BY FailoverAssumption DEF Init, Working, HealthType
<1>2. \A r \in Requests : req[r] = Idle BY DEF Init
<1>3. req \in [Requests -> RequestType] BY FreshShape DEF Init
<1>4. TypeOK BY <1>1, <1>3 DEF Init, TypeOK, HealthType, RequestType
<1>5. Requesting BY <1>2, <1>3, FreshShape DEF Requesting
<1>6. ~Idle.lease /\ Idle.pc = "idle" BY DEF Idle, Fresh
<1>7. Leases BY <1>2, <1>6 DEF Leases, Init, On
<1> QED BY <1>4, <1>5, <1>7 DEF FailoverInv, ReqInv

LEMMA FailoverStep == FailoverInv /\ [Next]_vars => FailoverInv'
<1> SUFFICES ASSUME TypeOK, ReqInv, [Next]_vars PROVE FailoverInv' BY DEF FailoverInv
<1>1. ReqInv' BY ReqStep
<1>2. health' \in [Keys -> HealthType] BY HealthTypeStep
<1>3. TypeOK'
  BY <1>1, <1>2, PoolTypeStep DEF TypeOK, ReqInv, Requesting, HealthType, RequestType
<1> QED BY <1>1, <1>3 DEF FailoverInv

LEMMA AtMostOne ==
  ASSUME NEW S, \A x, y \in S : x = y
  PROVE  Cardinality(S) <= 1 /\ (S # {} => Cardinality(S) = 1)
<1>1. CASE S = {} BY <1>1, FS_EmptySet
<1>2. CASE S # {}
  <2>1. PICK x : S = {x} BY <1>2
  <2> QED BY <2>1, FS_Singleton
<1> QED BY <1>1, <1>2

LEMMA InvHolds == FailoverInv => FailoverHolds
<1> SUFFICES ASSUME TypeOK, Requesting, Leases PROVE FailoverHolds
  BY DEF FailoverInv, ReqInv
<1>1. OneProbe
  <2> SUFFICES ASSUME NEW k \in Keys, health[k].open
               PROVE  Cardinality({r \in Requests : On(r, k) /\ ~req[r].old}) <= 1
    BY DEF OneProbe
  <2> DEFINE S == {r \in Requests : On(r, k) /\ ~req[r].old}
  <2>1. \A r \in S : r \in Requests /\ req[r].lease /\ req[r].cred = k BY DEF Leases, On
  <2>2. \A r, q \in S : r = q BY <2>1 DEF Leases
  <2> HIDE DEF S
  <2>3. Cardinality(S) <= 1 BY <2>2, AtMostOne
  <2> QED BY <2>3 DEF S
<1>2. LeasesHeld
  <2>1. \A r \in Requests : req[r].lease => req[r].cred \in probes BY DEF Leases
  <2>2. ASSUME NEW k \in probes
        PROVE  Cardinality({r \in Requests : req[r].lease /\ req[r].cred = k}) = 1
    <3> DEFINE S == {r \in Requests : req[r].lease /\ req[r].cred = k}
    <3>1. S # {} /\ \A r, q \in S : r = q BY DEF Leases
    <3> HIDE DEF S
    <3>2. Cardinality(S) = 1 BY <3>1, AtMostOne
    <3> QED BY <3>2 DEF S
  <2> QED BY <2>1, <2>2 DEF LeasesHeld
<1>3. \A r \in Requests : Accounts(req[r]) /\ Sends(req[r]) BY DEF Requesting, Shape
<1>4. AttemptsAccounted BY <1>3 DEF AttemptsAccounted, Accounts, Answers
<1>5. EachTriedOnce
  BY <1>3 DEF EachTriedOnce, Sends, SubsUsed
<1> QED BY <1>1, <1>2, <1>4, <1>5 DEF FailoverHolds

\* One probe per open circuit, no lost lease, every attempt on the log, no
\* credential tried twice: for any number of requests, keys and subscriptions.
THEOREM FailoverCorrect == Spec => []FailoverHolds
BY FailoverInit, FailoverStep, InvHolds, PTL DEF Spec

\* No answer that a failure has overtaken closes an open circuit.
THEOREM CircuitsCloseOnProof == Spec => VerifiedByFreshAnswer
<1>1. FailoverInv /\ [Next]_vars =>
        [\A k \in Keys :
           health[k].open /\ ~health'[k].open =>
             \/ Operator(k)
             \/ \E r \in Requests : KeyServes(r) /\ req[r].cred = k /\ ~req[r].stale]_vars
  BY CircuitStep DEF FailoverInv
<1> QED BY <1>1, FailoverInit, FailoverStep, PTL DEF Spec, VerifiedByFreshAnswer
=============================================================================
