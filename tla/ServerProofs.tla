---------------------------- MODULE ServerProofs ----------------------------
(***************************************************************************)
(* Theorems about the components of MCServer that stand between a caller   *)
(* and its answer, or keep the databases, for every value of their         *)
(* constants.                                                              *)
(*                                                                         *)
(* Every component has an inductive invariant of its own, stated over the  *)
(* variables it uses: "...Inv", with the lemmas that it holds at first     *)
(* ("...Init"), that a step keeps it ("...Step") and what it implies.  The *)
(* theorems at the end put them together: a behaviour runs one component.  *)
(***************************************************************************)
EXTENDS MCServer, WalletProofs, SequenceTheorems, FiniteSetTheorems

-----------------------------------------------------------------------------
(* WebSocket sessions, of any size: how many, with which credentials, groups *)
(* and limits.                                                               *)

SomeBill == [seq : Nat, tokens : Nat]
SomeSession(size) ==
  [pc : So(size)!States, group : size.groups, cred : size.creds \cup {"none"},
   tried : SUBSET size.creds, dials : Nat, turn : Nat, counts : Nat, billed : Nat, seq : Nat,
   queue : Seq(SomeBill), bills : Seq(SomeBill), used : Seq(Nat),
   chained : SUBSET size.sessions, recorded : Nat, row : BOOLEAN]

\* The bills of a list are for what their turns used, and for a turn each; no
\* turn is in both of two lists.
Fair(list, turns) ==
  /\ \A i \in DOMAIN list : /\ list[i].seq \in 1..Len(turns)
                              /\ list[i].tokens = turns[list[i].seq]
  /\ \A i, j \in DOMAIN list : list[i].seq = list[j].seq => i = j
Apart(p, q) == \A i \in DOMAIN p : \A j \in DOMAIN q : p[i].seq # q[j].seq

\* What a session r has used, billed and still to bill.
Books(r, room) ==
  /\ Fair(r.bills, r.used) /\ Fair(r.queue, r.used) /\ Apart(r.bills, r.queue)
  /\ Len(r.bills) + Len(r.queue) = Len(r.used) /\ r.seq = Len(r.used) /\ Len(r.queue) <= room
  /\ SumFunction(r.used) <= r.counts
  /\ r.pc \in {"new", "refused", "dial"} =>
       r.counts = 0 /\ r.used = << >> /\ r.bills = << >> /\ r.queue = << >>
  /\ r.pc \in {"new", "refused", "dial", "pump"} => r.billed = r.counts
  /\ r.pc # "closed" => r.recorded = 0
  /\ r.pc = "closed" => r.queue = << >> /\ r.recorded = r.counts

\* The sessions t that hold a slot.
Gated == {"dial", "pump", "drain"}
Slotted(size, t) == {s \in size.sessions : t[s].pc \in Gated}

Sessions(size, t) ==
  /\ t \in [size.sessions -> SomeSession(size)]
  /\ \A s \in size.sessions : Books(t[s], size.queue)
Minted(size, t, b) ==
  \A x \in b : x.id \in size.sessions /\ x.group = t[x.id].group /\ x \in [group : size.groups, id : size.sessions]
Chains(size, t) ==
  \A s \in size.sessions : \A id \in t[s].chained : t[id].group = t[s].group

SocketInv(size) ==
  /\ Sessions(size, ses) /\ Minted(size, ses, bound) /\ Chains(size, ses)
  /\ inflight = Cardinality(Slotted(size, ses)) /\ inflight <= size.conc

LEMMA SocketConstants ==
  ASSUME NEW size, So(size)!SocketAssumption
  PROVE  /\ IsFiniteSet(size.sessions) /\ "none" \notin size.sessions
         /\ size.conc \in Nat /\ size.queue \in Nat /\ size.usages \subseteq Nat
BY DEF So!SocketAssumption, So!NoId, So!IsFiniteSet, IsFiniteSet

LEMMA SlotsCount ==
  ASSUME NEW size, So(size)!SocketAssumption, NEW t
  PROVE  IsFiniteSet(Slotted(size, t)) /\ Cardinality(Slotted(size, t)) \in Nat
<1>1. Slotted(size, t) \subseteq size.sessions BY DEF Slotted
<1> QED BY <1>1, SocketConstants, FS_Subset, FS_CardinalityType

LEMMA AppendBill ==
  ASSUME NEW X, NEW q \in Seq(X), NEW x \in X
  PROVE  /\ Append(q, x) \in Seq(X) /\ Len(q) \in Nat /\ Len(Append(q, x)) = Len(q) + 1
         /\ DOMAIN q = 1..Len(q) /\ DOMAIN Append(q, x) = 1..(Len(q) + 1)
         /\ Append(q, x)[Len(q) + 1] = x /\ \A i \in 1..Len(q) : Append(q, x)[i] = q[i]
<1>1. /\ Append(q, x) \in Seq(X) /\ Len(Append(q, x)) = Len(q) + 1 /\ Len(q) \in Nat
      /\ Append(q, x)[Len(q) + 1] = x /\ \A i \in 1..Len(q) : Append(q, x)[i] = q[i]
  OBVIOUS
<1>2. DOMAIN q = 1..Len(q) /\ DOMAIN Append(q, x) = 1..Len(Append(q, x)) BY <1>1
<1> QED BY <1>1, <1>2

LEMMA TailOfBills ==
  ASSUME NEW X, NEW q \in Seq(X), q # << >>
  PROVE  /\ Tail(q) \in Seq(X) /\ Len(q) \in Nat /\ Len(q) > 0 /\ Len(Tail(q)) = Len(q) - 1
         /\ DOMAIN q = 1..Len(q) /\ DOMAIN Tail(q) = 1..(Len(q) - 1)
         /\ Head(q) = q[1] /\ Head(q) \in X /\ \A i \in 1..(Len(q) - 1) : Tail(q)[i] = q[i + 1]
<1>1. /\ Tail(q) \in Seq(X) /\ Len(q) \in Nat /\ Len(q) > 0 /\ Len(Tail(q)) = Len(q) - 1
      /\ Head(q) = q[1] /\ Head(q) \in X
      /\ \A i \in 1..(Len(q) - 1) : Tail(q)[i] = q[i + 1]
  OBVIOUS
<1>2. DOMAIN q = 1..Len(q) /\ DOMAIN Tail(q) = 1..Len(Tail(q)) BY <1>1
<1> QED BY <1>1, <1>2

LEMMA NoBills ==
  /\ << >> \in Seq(SomeBill) /\ << >> \in Seq(Nat) /\ Len(<< >>) = 0 /\ DOMAIN << >> = {}
  /\ Fair(<< >>, << >>) /\ Apart(<< >>, << >>)
<1>1. << >> \in Seq(SomeBill) /\ << >> \in Seq(Nat) /\ Len(<< >>) = 0 OBVIOUS
<1>2. DOMAIN << >> = {} OBVIOUS
<1> QED BY <1>1, <1>2 DEF Fair, Apart

LEMMA SocketInit ==
  ASSUME NEW size, So(size)!SocketAssumption, So(size)!Init PROVE SocketInv(size)
<1>1. PICK g \in [size.sessions -> size.groups] :
        ses = [s \in size.sessions |-> So(size)!NewSession(g[s])]
  BY DEF So!Init
<1>2. inflight = 0 /\ bound = {} BY DEF So!Init
<1>3. ASSUME NEW s \in size.sessions
      PROVE  /\ ses[s] \in SomeSession(size) /\ Books(ses[s], size.queue)
             /\ ses[s].pc = "new" /\ ses[s].chained = {}
  <2> DEFINE r == So(size)!NewSession(g[s])
  <2>1. ses[s] = r /\ g[s] \in size.groups BY <1>1
  <2>2. /\ r \in SomeSession(size) /\ r.pc = "new" /\ r.chained = {} /\ r.used = << >>
        /\ r.bills = << >> /\ r.queue = << >> /\ r.counts = 0 /\ r.billed = 0 /\ r.seq = 0
        /\ r.recorded = 0
    BY <2>1, NoBills DEF So!NewSession, SomeSession, So!States
  <2> HIDE DEF r
  <2>3. Len(r.queue) <= size.queue BY <2>2, NoBills, SocketConstants
  <2>4. Books(r, size.queue) BY <2>2, <2>3, NoBills, SumOfEmpty DEF Books
  <2> QED BY <2>1, <2>2, <2>4
<1>4. Sessions(size, ses) BY <1>1, <1>3 DEF Sessions
<1>5. Minted(size, ses, bound) /\ Chains(size, ses) BY <1>2, <1>3 DEF Minted, Chains
<1>6. Slotted(size, ses) = {} BY <1>3 DEF Slotted, Gated
<1>7. inflight = Cardinality(Slotted(size, ses)) /\ inflight <= size.conc
  BY <1>2, <1>6, SocketConstants, FS_EmptySet
<1> QED BY <1>4, <1>5, <1>7 DEF SocketInv

\* A step of one session: what it owes to the invariant.
LEMMA SessionMoves ==
  ASSUME NEW size, So(size)!SocketAssumption, SocketInv(size), NEW s \in size.sessions, NEW r,
         ses' = [ses EXCEPT ![s] = r], UNCHANGED bound,
         r \in SomeSession(size), r.group = ses[s].group, Books(r, size.queue),
         \A id \in r.chained : ses[id].group = ses[s].group,
         inflight' = Cardinality(Slotted(size, ses')), inflight' <= size.conc
  PROVE  SocketInv(size)'
<1>0. Sessions(size, ses) /\ Minted(size, ses, bound) /\ Chains(size, ses) BY DEF SocketInv
<1>1. /\ ses' \in [size.sessions -> SomeSession(size)] /\ ses'[s] = r
      /\ \A h \in size.sessions \ {s} : ses'[h] = ses[h]
  BY <1>0 DEF Sessions
<1>2. \A h \in size.sessions : ses'[h].group = ses[h].group BY <1>1
<1>3. Sessions(size, ses') BY <1>0, <1>1 DEF Sessions
<1>4. Minted(size, ses', bound') BY <1>0, <1>2 DEF Minted
<1>5. Chains(size, ses')
  <2>1. \A h \in size.sessions : ses'[h].chained \subseteq size.sessions
    BY <1>1 DEF SomeSession
  <2>2. ASSUME NEW h \in size.sessions, NEW id \in ses'[h].chained
        PROVE  ses'[id].group = ses'[h].group
    <3>1. id \in size.sessions BY <2>1
    <3>2. ses[id].group = ses[h].group
      <4>1. CASE h = s BY <1>1, <4>1
      <4>2. CASE h # s BY <1>0, <1>1, <4>2 DEF Chains
      <4> QED BY <4>1, <4>2
    <3> QED BY <1>2, <3>1, <3>2
  <2> QED BY <2>2 DEF Chains
<1> QED BY <1>3, <1>4, <1>5 DEF SocketInv

\* The session neither takes a slot nor gives one back.
LEMMA SessionStays ==
  ASSUME NEW size, So(size)!SocketAssumption, SocketInv(size), NEW s \in size.sessions, NEW r,
         ses' = [ses EXCEPT ![s] = r], UNCHANGED <<bound, inflight>>,
         r \in SomeSession(size), r.group = ses[s].group, Books(r, size.queue),
         \A id \in r.chained : ses[id].group = ses[s].group,
         r.pc \in Gated <=> ses[s].pc \in Gated
  PROVE  SocketInv(size)'
<1>0. Sessions(size, ses) /\ inflight = Cardinality(Slotted(size, ses)) /\ inflight <= size.conc
  BY DEF SocketInv
<1>1. ses'[s] = r /\ \A h \in size.sessions \ {s} : ses'[h] = ses[h] BY <1>0 DEF Sessions
<1>2. Slotted(size, ses') = Slotted(size, ses) BY <1>1 DEF Slotted
<1>3. inflight' = Cardinality(Slotted(size, ses')) /\ inflight' <= size.conc BY <1>0, <1>2
<1> QED BY <1>3, SessionMoves

\* The session gives its slot back.
LEMMA SessionLeaves ==
  ASSUME NEW size, So(size)!SocketAssumption, SocketInv(size), NEW s \in size.sessions, NEW r,
         ses' = [ses EXCEPT ![s] = r], UNCHANGED bound, inflight' = inflight - 1,
         r \in SomeSession(size), r.group = ses[s].group, Books(r, size.queue),
         \A id \in r.chained : ses[id].group = ses[s].group,
         ses[s].pc \in Gated, r.pc \notin Gated
  PROVE  SocketInv(size)'
<1>0. Sessions(size, ses) /\ inflight = Cardinality(Slotted(size, ses)) /\ inflight <= size.conc
  BY DEF SocketInv
<1>1. ses'[s] = r /\ \A h \in size.sessions \ {s} : ses'[h] = ses[h] BY <1>0 DEF Sessions
<1>2. Slotted(size, ses') = Slotted(size, ses) \ {s} /\ s \in Slotted(size, ses)
  BY <1>1 DEF Slotted
<1>3. Cardinality(Slotted(size, ses')) = Cardinality(Slotted(size, ses)) - 1
  BY <1>2, SlotsCount, FS_RemoveElement
<1>4. Cardinality(Slotted(size, ses)) \in Nat /\ size.conc \in Nat BY SlotsCount, SocketConstants
<1>5. inflight' = Cardinality(Slotted(size, ses')) /\ inflight' <= size.conc
  BY <1>0, <1>3, <1>4
<1> QED BY <1>5, SessionMoves

LEMMA SessionOf ==
  ASSUME NEW size, SocketInv(size), NEW s \in size.sessions
  PROVE  /\ ses[s] \in SomeSession(size) /\ Books(ses[s], size.queue)
         /\ \A id \in ses[s].chained : ses[id].group = ses[s].group
         /\ ses \in [size.sessions -> SomeSession(size)]
BY DEF SocketInv, Sessions, Chains

\* A session that has not connected has nothing on its books.
LEMMA NewBooks ==
  ASSUME NEW r, NEW room, Books(r, room), NEW q, r.pc \in {"new", "refused", "dial"},
         q.pc \in {"new", "refused", "dial", "pump", "closed"},
         q.counts = r.counts, q.billed = r.billed, q.used = r.used, q.bills = r.bills,
         q.queue = r.queue, q.seq = r.seq, q.recorded = r.recorded
  PROVE  Books(q, room)
BY DEF Books

LEMMA SocketAdmit ==
  ASSUME NEW size, So(size)!SocketAssumption, SocketInv(size), NEW s \in size.sessions,
         So(size)!Admit(s)
  PROVE  SocketInv(size)'
<1>0. /\ ses[s] \in SomeSession(size) /\ Books(ses[s], size.queue) /\ ses[s].pc = "new"
      /\ \A id \in ses[s].chained : ses[id].group = ses[s].group
      /\ ses \in [size.sessions -> SomeSession(size)] /\ bound' = bound
  BY SessionOf DEF So!Admit, So!Is
<1>1. CASE So(size)!Over
  <2> DEFINE r == [ses[s] EXCEPT !.pc = "refused"]
  <2>1. ses' = [ses EXCEPT ![s] = r] /\ inflight' = inflight BY <1>1 DEF So!Admit, So!Set
  <2>2. /\ r \in SomeSession(size) /\ r.group = ses[s].group /\ r.chained = ses[s].chained
        /\ r.pc = "refused" /\ r.counts = ses[s].counts /\ r.billed = ses[s].billed
        /\ r.used = ses[s].used /\ r.bills = ses[s].bills /\ r.queue = ses[s].queue
        /\ r.seq = ses[s].seq /\ r.recorded = ses[s].recorded
    BY <1>0 DEF SomeSession, So!States
  <2> HIDE DEF r
  <2>3. Books(r, size.queue) BY <1>0, <2>2, NewBooks
  <2>4. r.pc \in Gated <=> ses[s].pc \in Gated BY <1>0, <2>2 DEF Gated
  <2>5. \A id \in r.chained : ses[id].group = ses[s].group BY <1>0, <2>2
  <2>6. UNCHANGED <<bound, inflight>> BY <1>0, <2>1
  <2> QED BY <2>1, <2>2, <2>3, <2>4, <2>5, <2>6, SessionStays
<1>2. CASE ~So(size)!Over
  <2> DEFINE r == [ses[s] EXCEPT !.pc = "dial"]
  <2>1. ses' = [ses EXCEPT ![s] = r] /\ inflight' = inflight + 1 BY <1>2 DEF So!Admit, So!Set
  <2>2. /\ r \in SomeSession(size) /\ r.group = ses[s].group /\ r.chained = ses[s].chained
        /\ r.pc = "dial" /\ r.counts = ses[s].counts /\ r.billed = ses[s].billed
        /\ r.used = ses[s].used /\ r.bills = ses[s].bills /\ r.queue = ses[s].queue
        /\ r.seq = ses[s].seq /\ r.recorded = ses[s].recorded
    BY <1>0 DEF SomeSession, So!States
  <2> HIDE DEF r
  <2>3. Books(r, size.queue) BY <1>0, <2>2, NewBooks
  <2>4. ses'[s] = r /\ \A h \in size.sessions \ {s} : ses'[h] = ses[h] BY <1>0, <2>1
  <2>5. Slotted(size, ses') = Slotted(size, ses) \cup {s} /\ s \notin Slotted(size, ses)
    BY <1>0, <2>2, <2>4 DEF Slotted, Gated
  <2>6. Cardinality(Slotted(size, ses')) = Cardinality(Slotted(size, ses)) + 1
    BY <2>5, SlotsCount, FS_AddElement
  <2>7. inflight = Cardinality(Slotted(size, ses)) BY DEF SocketInv
  <2>8. Cardinality(Slotted(size, ses)) \in Nat /\ size.conc \in Nat
    BY SlotsCount, SocketConstants
  <2>9. ~(inflight + 1 > size.conc) BY <1>2 DEF So!Over
  <2>10. inflight' = Cardinality(Slotted(size, ses')) /\ inflight' <= size.conc
    BY <2>1, <2>6, <2>7, <2>8, <2>9
  <2>11. \A id \in r.chained : ses[id].group = ses[s].group BY <1>0, <2>2
  <2> QED BY <1>0, <2>1, <2>2, <2>3, <2>10, <2>11, SessionMoves
<1> QED BY <1>1, <1>2

LEMMA SocketDial ==
  ASSUME NEW size, So(size)!SocketAssumption, SocketInv(size), NEW s \in size.sessions,
         NEW c \in size.creds, So(size)!DialFails(s, c)
  PROVE  SocketInv(size)'
<1>0. /\ ses[s] \in SomeSession(size) /\ Books(ses[s], size.queue) /\ ses[s].pc = "dial"
      /\ \A id \in ses[s].chained : ses[id].group = ses[s].group
      /\ UNCHANGED <<bound, inflight>>
  BY SessionOf DEF So!DialFails, So!Dials, So!Is
<1> DEFINE t == ses[s].tried \cup {c}
<1> DEFINE d == ses[s].dials + 1
<1> DEFINE r == [ses[s] EXCEPT !.tried = t, !.dials = d]
<1>1. ses' = [ses EXCEPT ![s] = r] BY DEF So!DialFails, So!Set, So!Dialled
<1>6. t \in SUBSET size.creds /\ d \in Nat BY <1>0, SMTT(60) DEF SomeSession
<1> HIDE DEF t, d
<1>2. /\ r \in SomeSession(size) /\ r.group = ses[s].group /\ r.chained = ses[s].chained
      /\ r.pc = "dial" /\ r.counts = ses[s].counts /\ r.billed = ses[s].billed
      /\ r.used = ses[s].used /\ r.bills = ses[s].bills /\ r.queue = ses[s].queue
      /\ r.seq = ses[s].seq /\ r.recorded = ses[s].recorded
  BY <1>0, <1>6 DEF SomeSession
<1> HIDE DEF r
<1>3. Books(r, size.queue) BY <1>0, <1>2, NewBooks
<1>4. r.pc \in Gated <=> ses[s].pc \in Gated BY <1>0, <1>2
<1>5. \A id \in r.chained : ses[id].group = ses[s].group BY <1>0, <1>2
<1> QED BY <1>0, <1>1, <1>2, <1>3, <1>4, <1>5, SessionStays

\* A response id that is passed on was minted under the group of the session.
LEMMA ChainIsMinted ==
  ASSUME NEW size, So(size)!SocketAssumption, SocketInv(size), NEW s \in size.sessions, NEW id
  PROVE  /\ So(size)!Chain(s, id) \subseteq size.sessions
         /\ \A x \in So(size)!Chain(s, id) : ses[x].group = ses[s].group
<1>1. CASE So(size)!Known(s, id)
  <2>1. [group |-> ses[s].group, id |-> id] \in bound BY <1>1 DEF So!Known
  <2>2. id \in size.sessions /\ ses[s].group = ses[id].group BY <2>1 DEF SocketInv, Minted
  <2> QED BY <1>1, <2>2 DEF So!Chain
<1>2. CASE ~So(size)!Known(s, id) BY <1>2 DEF So!Chain
<1> QED BY <1>1, <1>2

LEMMA SocketConnect ==
  ASSUME NEW size, So(size)!SocketAssumption, SocketInv(size), NEW s \in size.sessions,
         NEW c \in size.creds, NEW id, So(size)!Connect(s, c, id)
  PROVE  SocketInv(size)'
<1>0. /\ ses[s] \in SomeSession(size) /\ Books(ses[s], size.queue) /\ ses[s].pc = "dial"
      /\ \A x \in ses[s].chained : ses[x].group = ses[s].group
      /\ UNCHANGED <<bound, inflight>>
  BY SessionOf DEF So!Connect, So!Dials, So!Is
<1> DEFINE new == So(size)!Chain(s, id)
<1> DEFINE t == ses[s].tried \cup {c}
<1> DEFINE d == ses[s].dials + 1
<1> DEFINE q == [ses[s] EXCEPT !.tried = t, !.dials = d]
<1> DEFINE r == [q EXCEPT !.pc = "pump", !.cred = c, !.chained = q.chained \cup new]
<1>1. ses' = [ses EXCEPT ![s] = r] BY DEF So!Connect, So!Set, So!Dialled
<1>7. t \in SUBSET size.creds /\ d \in Nat BY <1>0, SMTT(60) DEF SomeSession
<1> HIDE DEF t, d
<1>2. new \subseteq size.sessions /\ \A x \in new : ses[x].group = ses[s].group
  BY ChainIsMinted
<1> HIDE DEF new
<1>3. /\ r \in SomeSession(size) /\ r.group = ses[s].group
      /\ r.chained = ses[s].chained \cup new
      /\ r.pc = "pump" /\ r.counts = ses[s].counts /\ r.billed = ses[s].billed
      /\ r.used = ses[s].used /\ r.bills = ses[s].bills /\ r.queue = ses[s].queue
      /\ r.seq = ses[s].seq /\ r.recorded = ses[s].recorded
  <2>1. /\ q \in SomeSession(size) /\ q.group = ses[s].group /\ q.chained = ses[s].chained
        /\ q.counts = ses[s].counts /\ q.billed = ses[s].billed
        /\ q.used = ses[s].used /\ q.bills = ses[s].bills /\ q.queue = ses[s].queue
        /\ q.seq = ses[s].seq /\ q.recorded = ses[s].recorded
    BY <1>0, <1>7 DEF SomeSession
  <2> HIDE DEF q
  <2> QED BY <1>2, <2>1 DEF SomeSession, So!States
<1> HIDE DEF r
<1>4. Books(r, size.queue) BY <1>0, <1>3, NewBooks
<1>5. r.pc \in Gated <=> ses[s].pc \in Gated BY <1>0, <1>3 DEF Gated
<1>6. \A x \in r.chained : ses[x].group = ses[s].group BY <1>0, <1>2, <1>3
<1> QED BY <1>0, <1>1, <1>3, <1>4, <1>5, <1>6, SessionStays

LEMMA SocketNoCredential ==
  ASSUME NEW size, So(size)!SocketAssumption, SocketInv(size), NEW s \in size.sessions,
         So(size)!NoCredential(s)
  PROVE  SocketInv(size)'
<1>0. /\ ses[s] \in SomeSession(size) /\ Books(ses[s], size.queue) /\ ses[s].pc = "dial"
      /\ \A id \in ses[s].chained : ses[id].group = ses[s].group
      /\ bound' = bound /\ inflight' = inflight - 1
  BY SessionOf DEF So!NoCredential, So!Is
<1> DEFINE r == [ses[s] EXCEPT !.pc = "closed", !.row = TRUE]
<1>1. ses' = [ses EXCEPT ![s] = r] BY DEF So!NoCredential, So!Set
<1>2. /\ r \in SomeSession(size) /\ r.group = ses[s].group /\ r.chained = ses[s].chained
      /\ r.pc = "closed" /\ r.counts = ses[s].counts /\ r.billed = ses[s].billed
      /\ r.used = ses[s].used /\ r.bills = ses[s].bills /\ r.queue = ses[s].queue
      /\ r.seq = ses[s].seq /\ r.recorded = ses[s].recorded
  BY <1>0 DEF SomeSession, So!States
<1> HIDE DEF r
<1>3. Books(r, size.queue) BY <1>0, <1>2, NewBooks
<1>4. ses[s].pc \in Gated /\ r.pc \notin Gated BY <1>0, <1>2 DEF Gated
<1>5. \A id \in r.chained : ses[id].group = ses[s].group BY <1>0, <1>2
<1> QED BY <1>0, <1>1, <1>2, <1>3, <1>4, <1>5, SessionLeaves

LEMMA SocketFrame ==
  ASSUME NEW size, So(size)!SocketAssumption, SocketInv(size), NEW s \in size.sessions, NEW id,
         So(size)!ClientFrame(s, id)
  PROVE  SocketInv(size)'
<1>0. /\ ses[s] \in SomeSession(size) /\ Books(ses[s], size.queue) /\ ses[s].pc = "pump"
      /\ \A x \in ses[s].chained : ses[x].group = ses[s].group
      /\ UNCHANGED <<bound, inflight>>
  BY SessionOf DEF So!ClientFrame, So!Is
<1> DEFINE new == So(size)!Chain(s, id)
<1> DEFINE r == [ses[s] EXCEPT !.chained = ses[s].chained \cup new]
<1>1. ses' = [ses EXCEPT ![s] = r] BY DEF So!ClientFrame, So!Set
<1>2. new \subseteq size.sessions /\ \A x \in new : ses[x].group = ses[s].group
  BY ChainIsMinted
<1> HIDE DEF new
<1>3. /\ r \in SomeSession(size) /\ r.group = ses[s].group
      /\ r.chained = ses[s].chained \cup new
      /\ r.pc = ses[s].pc /\ r.counts = ses[s].counts /\ r.billed = ses[s].billed
      /\ r.used = ses[s].used /\ r.bills = ses[s].bills /\ r.queue = ses[s].queue
      /\ r.seq = ses[s].seq /\ r.recorded = ses[s].recorded
  BY <1>0, <1>2 DEF SomeSession
<1> HIDE DEF r
<1>4. Books(r, size.queue) BY <1>0, <1>3 DEF Books
<1>5. r.pc \in Gated <=> ses[s].pc \in Gated BY <1>0, <1>3
<1>6. \A x \in r.chained : ses[x].group = ses[s].group BY <1>0, <1>2, <1>3
<1> QED BY <1>0, <1>1, <1>3, <1>4, <1>5, <1>6, SessionStays

LEMMA SocketReports ==
  ASSUME NEW size, So(size)!SocketAssumption, SocketInv(size), NEW s \in size.sessions,
         NEW u \in size.usages, So(size)!Reports(s, u)
  PROVE  SocketInv(size)'
<1>0. /\ ses[s] \in SomeSession(size) /\ Books(ses[s], size.queue) /\ u \in Nat
      /\ \A x \in ses[s].chained : ses[x].group = ses[s].group
      /\ UNCHANGED <<bound, inflight>>
  BY SessionOf, SocketConstants DEF So!Reports, So!Is
<1> DEFINE r == [ses[s] EXCEPT !.turn = u]
<1>1. ses' = [ses EXCEPT ![s] = r] BY DEF So!Reports, So!Set
<1>2. /\ r \in SomeSession(size) /\ r.group = ses[s].group /\ r.chained = ses[s].chained
      /\ r.pc = ses[s].pc /\ r.counts = ses[s].counts /\ r.billed = ses[s].billed
      /\ r.used = ses[s].used /\ r.bills = ses[s].bills /\ r.queue = ses[s].queue
      /\ r.seq = ses[s].seq /\ r.recorded = ses[s].recorded
  BY <1>0 DEF SomeSession
<1> HIDE DEF r
<1>3. Books(r, size.queue) BY <1>0, <1>2 DEF Books
<1>4. r.pc \in Gated <=> ses[s].pc \in Gated BY <1>0, <1>2
<1>5. \A x \in r.chained : ses[x].group = ses[s].group BY <1>0, <1>2
<1> QED BY <1>0, <1>1, <1>2, <1>3, <1>4, <1>5, SessionStays

LEMMA SocketCreated ==
  ASSUME NEW size, So(size)!SocketAssumption, SocketInv(size), NEW s \in size.sessions,
         So(size)!Created(s)
  PROVE  SocketInv(size)'
<1> DEFINE b == [group |-> ses[s].group, id |-> s]
<1>1. ses' = ses /\ inflight' = inflight /\ bound' = bound \cup {b} BY DEF So!Created
<1>2. b \in [group : size.groups, id : size.sessions] /\ b.id = s /\ b.group = ses[s].group
  BY SessionOf DEF SomeSession
<1> HIDE DEF b
<1>3. Minted(size, ses', bound')
  <2>1. Minted(size, ses, bound) BY DEF SocketInv
  <2> QED BY <1>1, <1>2, <2>1 DEF Minted
<1>4. Sessions(size, ses') /\ Chains(size, ses') BY <1>1 DEF SocketInv
<1>5. inflight' = Cardinality(Slotted(size, ses')) /\ inflight' <= size.conc
  BY <1>1 DEF SocketInv
<1> QED BY <1>3, <1>4, <1>5 DEF SocketInv

\* A bill for turn number n joins a list: the turn is in no list.
LEMMA FairAppend ==
  ASSUME NEW list \in Seq(SomeBill), NEW turns \in Seq(Nat), NEW n \in Nat, NEW b \in SomeBill,
         Fair(list, turns), b.seq = Len(turns) + 1, b.tokens = n
  PROVE  /\ Fair(Append(list, b), Append(turns, n))
         /\ Fair(list, Append(turns, n))
<1>1. /\ Len(turns) \in Nat /\ DOMAIN Append(turns, n) = 1..(Len(turns) + 1)
      /\ Append(turns, n)[Len(turns) + 1] = n /\ Len(Append(turns, n)) = Len(turns) + 1
      /\ \A i \in 1..Len(turns) : Append(turns, n)[i] = turns[i]
  BY AppendBill
<1>2. /\ Len(list) \in Nat /\ DOMAIN Append(list, b) = 1..(Len(list) + 1)
      /\ DOMAIN list = 1..Len(list) /\ Append(list, b)[Len(list) + 1] = b
      /\ \A i \in 1..Len(list) : Append(list, b)[i] = list[i]
  BY AppendBill
<1> DEFINE more == Append(turns, n)
           all2 == Append(list, b)
           L == Len(list)
           T == Len(turns)
<1>3. /\ \A i \in 1..L : list[i].seq \in 1..T /\ list[i].tokens = turns[list[i].seq]
      /\ \A i, j \in 1..L : list[i].seq = list[j].seq => i = j
  BY <1>2 DEF Fair
<1>4. /\ L \in Nat /\ T \in Nat /\ Len(more) = T + 1 /\ more[T + 1] = n
      /\ \A i \in 1..T : more[i] = turns[i]
      /\ DOMAIN all2 = 1..(L + 1) /\ DOMAIN list = 1..L /\ all2[L + 1] = b
      /\ \A i \in 1..L : all2[i] = list[i]
  BY <1>1, <1>2
<1> HIDE DEF more, all2, L, T
<1>5. \A i \in 1..L : list[i].seq \in 1..(T + 1) /\ list[i].tokens = more[list[i].seq]
  BY <1>3, <1>4
<1>6. Fair(list, more) BY <1>3, <1>4, <1>5 DEF Fair
<1>7. b.seq = T + 1 BY DEF T
<1>8. ASSUME NEW i \in 1..(L + 1)
      PROVE  all2[i].seq \in 1..(T + 1) /\ all2[i].tokens = more[all2[i].seq]
  <2>1. CASE i \in 1..L BY <1>4, <1>5, <2>1
  <2>2. CASE i = L + 1 BY <1>4, <1>7, <2>2
  <2> QED BY <2>1, <2>2, <1>4
<1>9. ASSUME NEW i \in 1..(L + 1), NEW j \in 1..(L + 1), all2[i].seq = all2[j].seq
      PROVE  i = j
  <2>1. \A k \in 1..L : all2[k].seq \in 1..T BY <1>3, <1>4
  <2>2. all2[L + 1].seq = T + 1 BY <1>4, <1>7
  <2>3. CASE i \in 1..L /\ j \in 1..L BY <1>3, <1>4, <1>9, <2>3
  <2>4. CASE i = L + 1 /\ j \in 1..L BY <1>4, <1>9, <2>1, <2>2, <2>4
  <2>5. CASE i \in 1..L /\ j = L + 1 BY <1>4, <1>9, <2>1, <2>2, <2>5
  <2>6. CASE i = L + 1 /\ j = L + 1 BY <2>6
  <2> QED BY <1>4, <2>3, <2>4, <2>5, <2>6
<1>10. Fair(all2, more) BY <1>4, <1>8, <1>9 DEF Fair
<1> QED BY <1>6, <1>10 DEF all2, more

\* A bill for a turn that is in neither list keeps them apart.
LEMMA ApartAppend ==
  ASSUME NEW p \in Seq(SomeBill), NEW q \in Seq(SomeBill), NEW b \in SomeBill,
         NEW turns \in Seq(Nat), Fair(p, turns), Fair(q, turns), Apart(p, q),
         b.seq = Len(turns) + 1
  PROVE  Apart(Append(p, b), q) /\ Apart(p, Append(q, b))
<1>1. /\ Len(p) \in Nat /\ DOMAIN Append(p, b) = 1..(Len(p) + 1)
      /\ DOMAIN p = 1..Len(p) /\ Append(p, b)[Len(p) + 1] = b
      /\ \A i \in 1..Len(p) : Append(p, b)[i] = p[i]
  BY AppendBill
<1>2. /\ Len(q) \in Nat /\ DOMAIN Append(q, b) = 1..(Len(q) + 1)
      /\ DOMAIN q = 1..Len(q) /\ Append(q, b)[Len(q) + 1] = b
      /\ \A i \in 1..Len(q) : Append(q, b)[i] = q[i]
  BY AppendBill
<1>3. Len(turns) \in Nat BY AppendBill
<1>4. \A i \in DOMAIN p : p[i].seq # b.seq BY <1>3 DEF Fair
<1>5. \A i \in DOMAIN q : q[i].seq # b.seq BY <1>3 DEF Fair
<1>6. ASSUME NEW i \in DOMAIN Append(p, b), NEW j \in DOMAIN q
      PROVE  Append(p, b)[i].seq # q[j].seq
  <2>1. CASE i \in DOMAIN p BY <1>1, <2>1 DEF Apart
  <2>2. CASE i = Len(p) + 1 BY <1>1, <1>5, <2>2
  <2> QED BY <1>1, <2>1, <2>2
<1>7. ASSUME NEW i \in DOMAIN p, NEW j \in DOMAIN Append(q, b)
      PROVE  p[i].seq # Append(q, b)[j].seq
  <2>1. CASE j \in DOMAIN q BY <1>2, <2>1 DEF Apart
  <2>2. CASE j = Len(q) + 1 BY <1>2, <1>4, <2>2
  <2> QED BY <1>2, <2>1, <2>2
<1> QED BY <1>6, <1>7 DEF Apart

LEMMA SocketCompletes ==
  ASSUME NEW size, So(size)!SocketAssumption, SocketInv(size), NEW s \in size.sessions,
         So(size)!Completes(s)
  PROVE  SocketInv(size)'
<1> DEFINE o == ses[s]
<1>0. /\ o \in SomeSession(size) /\ Books(o, size.queue) /\ o.pc = "pump"
      /\ \A id \in o.chained : ses[id].group = o.group
      /\ UNCHANGED <<bound, inflight>>
  BY SessionOf DEF So!Completes, So!Is
<1> DEFINE full == Len(o.queue) = size.queue
           total == o.counts + o.turn
           n == o.seq + 1
           bill == [seq |-> n, tokens |-> total - o.billed]
           rest == IF full THEN o.queue ELSE Append(o.queue, bill)
           paid == IF full THEN Append(o.bills, bill) ELSE o.bills
           used == Append(o.used, o.turn)
           r == [o EXCEPT !.counts = total, !.billed = total, !.turn = 0, !.seq = n,
                          !.used = used, !.queue = rest, !.bills = paid]
<1>1. ses' = [ses EXCEPT ![s] = r] BY DEF So!Completes, So!Set, So!codexTurnDelta
<1>2. /\ o.counts \in Nat /\ o.turn \in Nat /\ o.billed = o.counts /\ o.seq \in Nat
      /\ o.used \in Seq(Nat) /\ o.queue \in Seq(SomeBill) /\ o.bills \in Seq(SomeBill)
      /\ o.seq = Len(o.used) /\ Len(o.bills) + Len(o.queue) = Len(o.used)
      /\ Len(o.queue) <= size.queue /\ SumFunction(o.used) <= o.counts /\ o.recorded = 0
      /\ Fair(o.bills, o.used) /\ Fair(o.queue, o.used) /\ Apart(o.bills, o.queue)
  BY <1>0 DEF SomeSession, Books
<1>3. /\ bill \in SomeBill /\ bill.seq = Len(o.used) + 1 /\ bill.tokens = o.turn
      /\ total \in Nat /\ n \in Nat
  <2>1. total - o.billed = o.turn /\ total \in Nat /\ n \in Nat BY <1>2
  <2> QED BY <1>2, <2>1 DEF SomeBill
<1>4. used \in Seq(Nat) /\ Len(used) = n /\ SumFunction(used) <= total
  <2>1. /\ used \in Seq(Nat) /\ Len(used) = n BY <1>2, AppendBill
  <2>2. SumFunction(used) = SumFunction(o.used) + o.turn BY <1>2, SumAppend
  <2>3. SumFunction(o.used) \in Nat BY <1>2, SumOfSeq
  <2> QED BY <1>2, <2>1, <2>2, <2>3
<1>6. size.queue \in Nat BY SocketConstants
<1>7. /\ Fair(Append(o.bills, bill), used) /\ Fair(o.bills, used)
      /\ Fair(Append(o.queue, bill), used) /\ Fair(o.queue, used)
  BY <1>2, <1>3, FairAppend
<1>8. Apart(Append(o.bills, bill), o.queue) /\ Apart(o.bills, Append(o.queue, bill))
  BY <1>2, <1>3, ApartAppend
<1>9. /\ Append(o.bills, bill) \in Seq(SomeBill) /\ Append(o.queue, bill) \in Seq(SomeBill)
      /\ Len(Append(o.bills, bill)) = Len(o.bills) + 1 /\ Len(o.bills) \in Nat
      /\ Len(Append(o.queue, bill)) = Len(o.queue) + 1 /\ Len(o.queue) \in Nat
  BY <1>2, <1>3, AppendBill
<1> HIDE DEF bill, used
<1>10. /\ paid \in Seq(SomeBill) /\ rest \in Seq(SomeBill)
       /\ Fair(paid, used) /\ Fair(rest, used) /\ Apart(paid, rest)
       /\ Len(paid) + Len(rest) = n /\ Len(rest) <= size.queue
  <2> DEFINE a == Len(o.bills)
             b == Len(o.queue)
             c == Len(o.used)
             top == Len(Append(o.bills, bill))
             end == Len(Append(o.queue, bill))
  <2>0. /\ a \in Nat /\ b \in Nat /\ a + b = c /\ b <= size.queue /\ top = a + 1 /\ end = b + 1
        /\ n = c + 1
    BY <1>2, <1>9
  <2>1. CASE full
    <3>1. paid = Append(o.bills, bill) /\ rest = o.queue BY <2>1
    <3> HIDE DEF paid, rest
    <3>2. Len(paid) = top /\ Len(rest) = b BY <3>1
    <3> HIDE DEF a, b, c, top, end, n
    <3>3. Len(paid) + Len(rest) = n /\ Len(rest) <= size.queue BY <1>6, <2>0, <3>2
    <3> QED BY <1>2, <1>7, <1>8, <1>9, <3>1, <3>3
  <2>2. CASE ~full
    <3>1. paid = o.bills /\ rest = Append(o.queue, bill) /\ b # size.queue BY <2>2
    <3> HIDE DEF paid, rest
    <3>2. Len(paid) = a /\ Len(rest) = end BY <3>1
    <3> HIDE DEF a, b, c, top, end, n
    <3>3. Len(paid) + Len(rest) = n /\ Len(rest) <= size.queue BY <1>6, <2>0, <3>1, <3>2
    <3> QED BY <1>2, <1>7, <1>8, <1>9, <3>1, <3>3
  <2> QED BY <2>1, <2>2
<1> HIDE DEF paid, rest, total, n, full
<1>11. /\ r \in SomeSession(size) /\ r.group = o.group /\ r.chained = o.chained
       /\ r.pc = "pump" /\ r.counts = total /\ r.billed = total /\ r.used = used
       /\ r.bills = paid /\ r.queue = rest /\ r.seq = n /\ r.recorded = o.recorded
  BY <1>0, <1>3, <1>4, <1>10 DEF SomeSession
<1> HIDE DEF r
<1>12. Books(r, size.queue) BY <1>2, <1>4, <1>10, <1>11 DEF Books
<1>13. r.pc \in Gated <=> ses[s].pc \in Gated BY <1>0, <1>11
<1>14. \A x \in r.chained : ses[x].group = ses[s].group BY <1>0, <1>11
<1> QED BY <1>0, <1>1, <1>11, <1>12, <1>13, <1>14, SessionStays

LEMMA SocketHangup ==
  ASSUME NEW size, So(size)!SocketAssumption, SocketInv(size), NEW s \in size.sessions,
         So(size)!Hangup(s)
  PROVE  SocketInv(size)'
<1> DEFINE o == ses[s]
<1>0. /\ o \in SomeSession(size) /\ Books(o, size.queue) /\ o.pc = "pump"
      /\ \A id \in o.chained : ses[id].group = o.group
      /\ UNCHANGED <<bound, inflight>>
  BY SessionOf DEF So!Hangup, So!Is
<1> DEFINE total == o.counts + o.turn
           r == [o EXCEPT !.pc = "drain", !.counts = total, !.turn = 0]
<1>1. ses' = [ses EXCEPT ![s] = r] BY DEF So!Hangup, So!Set
<1>2. o.counts \in Nat /\ o.turn \in Nat /\ o.used \in Seq(Nat) BY <1>0 DEF SomeSession
<1>3. SumFunction(o.used) <= total /\ total \in Nat
  <2>1. SumFunction(o.used) \in Nat BY <1>2, SumOfSeq
  <2>2. SumFunction(o.used) <= o.counts BY <1>0 DEF Books
  <2> QED BY <1>2, <2>1, <2>2
<1> HIDE DEF total
<1>4. /\ r \in SomeSession(size) /\ r.group = o.group /\ r.chained = o.chained
      /\ r.pc = "drain" /\ r.counts = total /\ r.billed = o.billed /\ r.used = o.used
      /\ r.bills = o.bills /\ r.queue = o.queue /\ r.seq = o.seq /\ r.recorded = o.recorded
  BY <1>0, <1>3 DEF SomeSession, So!States
<1> HIDE DEF r
<1>5. Books(r, size.queue) BY <1>0, <1>3, <1>4 DEF Books
<1>6. r.pc \in Gated <=> ses[s].pc \in Gated BY <1>0, <1>4 DEF Gated
<1>7. \A x \in r.chained : ses[x].group = ses[s].group BY <1>0, <1>4
<1> QED BY <1>0, <1>1, <1>4, <1>5, <1>6, <1>7, SessionStays

\* The head of the queue joins the bills.
LEMMA BillMoves ==
  ASSUME NEW p \in Seq(SomeBill), NEW q \in Seq(SomeBill), q # << >>, NEW turns,
         Fair(p, turns), Fair(q, turns), Apart(p, q)
  PROVE  /\ Fair(Append(p, Head(q)), turns) /\ Fair(Tail(q), turns)
         /\ Apart(Append(p, Head(q)), Tail(q))
<1> DEFINE b == q[1]
           P == Append(p, b)
           Q == Tail(q)
           m == Len(p)
           k == Len(q)
<1>1. /\ Head(q) = b /\ b \in SomeBill /\ k \in Nat /\ k > 0 /\ DOMAIN q = 1..k
      /\ DOMAIN Q = 1..(k - 1) /\ \A i \in 1..(k - 1) : Q[i] = q[i + 1]
  BY TailOfBills
<1>2. /\ m \in Nat /\ DOMAIN P = 1..(m + 1) /\ DOMAIN p = 1..m /\ P[m + 1] = b
      /\ \A i \in 1..m : P[i] = p[i]
  BY <1>1, AppendBill
<1>3. /\ \A i \in 1..k : q[i].seq \in 1..Len(turns) /\ q[i].tokens = turns[q[i].seq]
      /\ \A i, j \in 1..k : q[i].seq = q[j].seq => i = j
  BY <1>1 DEF Fair
<1>4. /\ \A i \in 1..m : p[i].seq \in 1..Len(turns) /\ p[i].tokens = turns[p[i].seq]
      /\ \A i, j \in 1..m : p[i].seq = p[j].seq => i = j
      /\ \A i \in 1..m : \A j \in 1..k : p[i].seq # q[j].seq
  BY <1>1, <1>2, ZenonT(60) DEF Fair, Apart
<1>5. b = q[1] /\ 1 \in 1..k BY <1>1
<1> HIDE DEF b, P, Q, m, k
<1>6. Fair(Q, turns)
  <2>1. \A i \in 1..(k - 1) : i + 1 \in 1..k BY <1>1
  <2>2. \A i \in 1..(k - 1) : Q[i].seq \in 1..Len(turns) /\ Q[i].tokens = turns[Q[i].seq]
    BY <1>1, <1>3, <2>1
  <2>3. ASSUME NEW i \in 1..(k - 1), NEW j \in 1..(k - 1), Q[i].seq = Q[j].seq PROVE i = j
    <3>1. q[i + 1].seq = q[j + 1].seq BY <1>1, <2>3
    <3>2. i + 1 = j + 1 BY <1>3, <2>1, <3>1
    <3> QED BY <1>1, <3>2
  <2> QED BY <1>1, <2>2, <2>3 DEF Fair
<1>7. Fair(P, turns)
  <2>1. ASSUME NEW i \in 1..(m + 1)
        PROVE  P[i].seq \in 1..Len(turns) /\ P[i].tokens = turns[P[i].seq]
    <3>1. CASE i \in 1..m BY <1>2, <1>4, <3>1
    <3>2. CASE i = m + 1 BY <1>2, <1>3, <1>5, <3>2
    <3> QED BY <1>2, <3>1, <3>2
  <2>2. ASSUME NEW i \in 1..(m + 1), NEW j \in 1..(m + 1), P[i].seq = P[j].seq PROVE i = j
    <3>1. CASE i \in 1..m /\ j \in 1..m BY <1>2, <1>4, <2>2, <3>1
    <3>2. CASE i = m + 1 /\ j \in 1..m BY <1>2, <1>4, <1>5, <2>2, <3>2
    <3>3. CASE i \in 1..m /\ j = m + 1 BY <1>2, <1>4, <1>5, <2>2, <3>3
    <3>4. CASE i = m + 1 /\ j = m + 1 BY <3>4
    <3> QED BY <1>2, <3>1, <3>2, <3>3, <3>4
  <2> QED BY <1>2, <2>1, <2>2 DEF Fair
<1>8. ASSUME NEW i \in 1..(m + 1), NEW j \in 1..(k - 1) PROVE P[i].seq # Q[j].seq
  <2>1. j + 1 \in 1..k /\ Q[j] = q[j + 1] BY <1>1
  <2>2. CASE i \in 1..m BY <1>2, <1>4, <2>1, <2>2
  <2>3. CASE i = m + 1
    <3>1. P[i] = q[1] BY <1>2, <1>5, <2>3
    <3>2. q[1].seq = q[j + 1].seq => 1 = j + 1 BY <1>3, <1>5, <2>1
    <3>3. 1 # j + 1 BY <1>1
    <3> QED BY <2>1, <3>1, <3>2, <3>3
  <2> QED BY <1>2, <2>2, <2>3
<1>9. Apart(P, Q) BY <1>1, <1>2, <1>8 DEF Apart
<1> QED BY <1>1, <1>6, <1>7, <1>9 DEF P, Q

LEMMA SocketBill ==
  ASSUME NEW size, So(size)!SocketAssumption, SocketInv(size), NEW s \in size.sessions,
         So(size)!Bill(s)
  PROVE  SocketInv(size)'
<1> DEFINE o == ses[s]
<1>0. /\ o \in SomeSession(size) /\ Books(o, size.queue) /\ o.pc \in {"pump", "drain"}
      /\ \A id \in o.chained : ses[id].group = o.group
      /\ UNCHANGED <<bound, inflight>>
  BY SessionOf DEF So!Bill
<1> DEFINE rest == Tail(o.queue)
           paid == Append(o.bills, Head(o.queue))
           r == [o EXCEPT !.queue = rest, !.bills = paid]
<1>1. ses' = [ses EXCEPT ![s] = r] BY DEF So!Bill, So!Set
<1>2. /\ o.queue # << >> /\ o.queue \in Seq(SomeBill) /\ o.bills \in Seq(SomeBill)
      /\ Len(o.bills) + Len(o.queue) = Len(o.used) /\ Len(o.queue) <= size.queue
      /\ Fair(o.bills, o.used) /\ Fair(o.queue, o.used) /\ Apart(o.bills, o.queue)
  BY <1>0 DEF SomeSession, Books, So!Bill
<1>3. Fair(paid, o.used) /\ Fair(rest, o.used) /\ Apart(paid, rest)
  BY <1>2, BillMoves
<1>4. /\ paid \in Seq(SomeBill) /\ rest \in Seq(SomeBill)
      /\ Len(paid) + Len(rest) = Len(o.used) /\ Len(rest) <= size.queue
  <2>1. /\ rest \in Seq(SomeBill) /\ Len(rest) = Len(o.queue) - 1 /\ Len(o.queue) \in Nat
        /\ Head(o.queue) \in SomeBill /\ Len(o.queue) > 0
    BY <1>2, TailOfBills
  <2>2. paid \in Seq(SomeBill) /\ Len(paid) = Len(o.bills) + 1 /\ Len(o.bills) \in Nat
    BY <1>2, <2>1, AppendBill
  <2> DEFINE a == Len(o.bills)
             b == Len(o.queue)
             c == Len(o.used)
             x == Len(paid)
             y == Len(rest)
  <2>3. /\ a \in Nat /\ b \in Nat /\ b > 0 /\ x = a + 1 /\ y = b - 1 /\ a + b = c
        /\ b <= size.queue /\ size.queue \in Nat
    BY <1>2, <2>1, <2>2, SocketConstants
  <2>4. paid \in Seq(SomeBill) /\ rest \in Seq(SomeBill) BY <2>1, <2>2
  <2> HIDE DEF a, b, c, x, y
  <2>5. x + y = c /\ y <= size.queue BY <2>3
  <2> QED BY <2>4, <2>5 DEF x, y, c
<1> HIDE DEF rest, paid
<1>5. /\ r \in SomeSession(size) /\ r.group = o.group /\ r.chained = o.chained
      /\ r.pc = o.pc /\ r.counts = o.counts /\ r.billed = o.billed /\ r.used = o.used
      /\ r.bills = paid /\ r.queue = rest /\ r.seq = o.seq /\ r.recorded = o.recorded
  BY <1>0, <1>4 DEF SomeSession
<1> HIDE DEF r
<1>6. Books(r, size.queue) BY <1>0, <1>3, <1>4, <1>5 DEF Books
<1>7. r.pc \in Gated <=> ses[s].pc \in Gated BY <1>0, <1>5
<1>8. \A x \in r.chained : ses[x].group = ses[s].group BY <1>0, <1>5
<1> QED BY <1>0, <1>1, <1>5, <1>6, <1>7, <1>8, SessionStays

LEMMA SocketClose ==
  ASSUME NEW size, So(size)!SocketAssumption, SocketInv(size), NEW s \in size.sessions,
         So(size)!Close(s)
  PROVE  SocketInv(size)'
<1> DEFINE o == ses[s]
<1>0. /\ o \in SomeSession(size) /\ Books(o, size.queue) /\ o.pc = "drain" /\ o.queue = << >>
      /\ \A id \in o.chained : ses[id].group = o.group
      /\ bound' = bound /\ inflight' = inflight - 1
  BY SessionOf DEF So!Close, So!Is
<1> DEFINE n == o.recorded + o.counts
           r == [o EXCEPT !.pc = "closed", !.recorded = n]
<1>1. ses' = [ses EXCEPT ![s] = r] BY DEF So!Close, So!Set
<1>2. n = o.counts /\ n \in Nat
  <2>1. o.counts \in Nat /\ o.recorded = 0 BY <1>0 DEF SomeSession, Books
  <2> QED BY <2>1
<1> HIDE DEF n
<1>4. /\ r \in SomeSession(size) /\ r.group = o.group /\ r.chained = o.chained
      /\ r.pc = "closed" /\ r.counts = o.counts /\ r.billed = o.billed /\ r.used = o.used
      /\ r.bills = o.bills /\ r.queue = o.queue /\ r.seq = o.seq /\ r.recorded = o.counts
  BY <1>0, <1>2 DEF SomeSession, So!States
<1> HIDE DEF r
<1>5. Books(r, size.queue) BY <1>0, <1>4 DEF Books
<1>6. ses[s].pc \in Gated /\ r.pc \notin Gated BY <1>0, <1>4 DEF Gated
<1>7. \A x \in r.chained : ses[x].group = ses[s].group BY <1>0, <1>4
<1> QED BY <1>0, <1>1, <1>4, <1>5, <1>6, <1>7, SessionLeaves

LEMMA SocketLapse ==
  ASSUME NEW size, So(size)!SocketAssumption, SocketInv(size), NEW b, So(size)!Lapse(b)
  PROVE  SocketInv(size)'
<1>1. ses' = ses /\ inflight' = inflight /\ bound' \subseteq bound BY DEF So!Lapse
<1>2. Minted(size, ses', bound') BY <1>1 DEF SocketInv, Minted
<1>3. Sessions(size, ses') /\ Chains(size, ses') BY <1>1 DEF SocketInv
<1>4. inflight' = Cardinality(Slotted(size, ses')) /\ inflight' <= size.conc
  BY <1>1 DEF SocketInv
<1> QED BY <1>2, <1>3, <1>4 DEF SocketInv

LEMMA SocketCrash ==
  ASSUME NEW size, So(size)!SocketAssumption, SocketInv(size), So(size)!Crash
  PROVE  SocketInv(size)'
<1>1. ses' = [s \in size.sessions |->
        IF ses[s].pc \in {"closed", "refused"} THEN ses[s]
        ELSE [ses[s] EXCEPT !.pc = "crashed"]]
  BY DEF So!Crash
<1>2. inflight' = 0 /\ bound' = {} BY DEF So!Crash
<1>3. ASSUME NEW s \in size.sessions
      PROVE  /\ ses'[s] \in SomeSession(size) /\ Books(ses'[s], size.queue)
             /\ ses'[s].pc \notin Gated /\ ses'[s].group = ses[s].group
             /\ ses'[s].chained = ses[s].chained
  <2>0. ses[s] \in SomeSession(size) /\ Books(ses[s], size.queue) BY SessionOf
  <2>1. CASE ses[s].pc \in {"closed", "refused"}
    <3>1. ses'[s] = ses[s] BY <1>1, <2>1
    <3> QED BY <2>0, <2>1, <3>1 DEF Gated
  <2>2. CASE ses[s].pc \notin {"closed", "refused"}
    <3> DEFINE o == ses[s]
               r == [o EXCEPT !.pc = "crashed"]
    <3>1. ses'[s] = r BY <1>1, <2>2
    <3>2. /\ r \in SomeSession(size) /\ r.group = o.group /\ r.chained = o.chained
          /\ r.pc = "crashed" /\ r.counts = o.counts /\ r.billed = o.billed /\ r.used = o.used
          /\ r.bills = o.bills /\ r.queue = o.queue /\ r.seq = o.seq /\ r.recorded = o.recorded
      BY <2>0 DEF SomeSession, So!States
    <3> HIDE DEF r
    <3>3. Books(r, size.queue) BY <2>0, <2>2, <3>2 DEF Books
    <3> QED BY <3>1, <3>2, <3>3 DEF Gated
  <2> QED BY <2>1, <2>2
<1>4. Sessions(size, ses') BY <1>1, <1>3 DEF Sessions
<1>5. Minted(size, ses', bound') BY <1>2 DEF Minted
<1>6. Chains(size, ses')
  <2>1. ASSUME NEW s \in size.sessions, NEW id \in ses'[s].chained
        PROVE  ses'[id].group = ses'[s].group
    <3>1. ses[s] \in SomeSession(size) /\ \A x \in ses[s].chained : ses[x].group = ses[s].group
      BY SessionOf
    <3>2. id \in ses[s].chained BY <1>3
    <3>3. id \in size.sessions BY <3>1, <3>2 DEF SomeSession
    <3> QED BY <1>3, <3>1, <3>2, <3>3
  <2> QED BY <2>1 DEF Chains
<1>7. Slotted(size, ses') = {} BY <1>3 DEF Slotted
<1>8. inflight' = Cardinality(Slotted(size, ses')) /\ inflight' <= size.conc
  BY <1>2, <1>7, SocketConstants, FS_EmptySet
<1> QED BY <1>4, <1>5, <1>6, <1>8 DEF SocketInv

LEMMA SocketStep ==
  ASSUME NEW size, So(size)!SocketAssumption, SocketInv(size), So(size)!Next \/ UNCHANGED sockets
  PROVE  SocketInv(size)'
<1>1. CASE So(size)!Next
  <2>1. ASSUME NEW s \in size.sessions,
               \/ So(size)!Admit(s) \/ So(size)!NoCredential(s) \/ So(size)!Created(s)
               \/ So(size)!Completes(s) \/ So(size)!Hangup(s) \/ So(size)!Bill(s)
               \/ So(size)!Close(s)
        PROVE  SocketInv(size)'
    BY <2>1, SocketAdmit, SocketNoCredential, SocketCreated, SocketCompletes, SocketHangup,
       SocketBill, SocketClose
  <2>2. ASSUME NEW s \in size.sessions, NEW c \in size.creds, So(size)!DialFails(s, c)
        PROVE  SocketInv(size)'
    BY <2>2, SocketDial
  <2>3. ASSUME NEW s \in size.sessions, NEW c \in size.creds, NEW id, So(size)!Connect(s, c, id)
        PROVE  SocketInv(size)'
    BY <2>3, SocketConnect
  <2>4. ASSUME NEW s \in size.sessions, NEW id, So(size)!ClientFrame(s, id)
        PROVE  SocketInv(size)'
    BY <2>4, SocketFrame
  <2>5. ASSUME NEW s \in size.sessions, NEW u \in size.usages, So(size)!Reports(s, u)
        PROVE  SocketInv(size)'
    BY <2>5, SocketReports
  <2>6. ASSUME NEW b, So(size)!Lapse(b) PROVE SocketInv(size)' BY <2>6, SocketLapse
  <2>7. So(size)!Crash => SocketInv(size)' BY SocketCrash
  <2> QED BY <1>1, <2>1, <2>2, <2>3, <2>4, <2>5, <2>6, <2>7 DEF So!Next
<1>2. CASE UNCHANGED sockets
  <2>1. ses' = ses /\ inflight' = inflight /\ bound' = bound BY <1>2 DEF sockets
  <2> QED BY <2>1 DEF SocketInv
<1> QED BY <1>1, <1>2

LEMMA SocketsAreHeld ==
  ASSUME NEW size, So(size)!SocketAssumption, SocketInv(size) PROVE So(size)!SocketHolds
<1>1. ASSUME NEW s \in size.sessions
      PROVE  /\ ses[s] \in SomeSession(size) /\ Books(ses[s], size.queue)
             /\ \A id \in ses[s].chained : ses[id].group = ses[s].group
  BY SessionOf
<1>2. So(size)!TypeOK
  <2>1. \A s \in size.sessions : ses[s].pc \in So(size)!States /\ Len(ses[s].queue) <= size.queue
    BY <1>1 DEF SomeSession, Books
  <2>2. inflight \in Nat BY SlotsCount DEF SocketInv
  <2>3. bound \subseteq [group : size.groups, id : So(size)!Ids]
    BY DEF SocketInv, Minted, So!Ids
  <2> QED BY <2>1, <2>2, <2>3 DEF So!TypeOK
<1>3. So(size)!BillsMatchTurns
  <2>1. ASSUME NEW s \in size.sessions
        PROVE  /\ \A i \in DOMAIN ses[s].bills :
                    /\ ses[s].bills[i].seq \in DOMAIN ses[s].used
                    /\ ses[s].bills[i].tokens = ses[s].used[ses[s].bills[i].seq]
               /\ \A i, j \in DOMAIN ses[s].bills :
                    ses[s].bills[i].seq = ses[s].bills[j].seq => i = j
    <3>1. ses[s].used \in Seq(Nat) /\ Fair(ses[s].bills, ses[s].used)
      BY <1>1 DEF SomeSession, Books
    <3>2. DOMAIN ses[s].used = 1..Len(ses[s].used) BY <3>1
    <3> QED BY <3>1, <3>2 DEF Fair
  <2> QED BY <2>1 DEF So!BillsMatchTurns
<1>4. So(size)!ClosedIsSettled
  <2>1. ASSUME NEW s \in size.sessions
        PROVE  /\ ses[s].pc = "closed" => /\ Len(ses[s].bills) = Len(ses[s].used)
                                          /\ ses[s].recorded = ses[s].counts
               /\ Len(ses[s].bills) + Len(ses[s].queue) = Len(ses[s].used)
               /\ ses[s].counts >= So(size)!SumFunction(ses[s].used)
    <3>1. Books(ses[s], size.queue) /\ ses[s].bills \in Seq(SomeBill) /\ ses[s].counts \in Nat
          /\ ses[s].used \in Seq(Nat)
      BY <1>1 DEF SomeSession
    <3>2. Len(ses[s].bills) \in Nat /\ SumFunction(ses[s].used) \in Nat BY <3>1, SumOfSeq
    <3>3. So(size)!SumFunction(ses[s].used) = SumFunction(ses[s].used)
      BY DEF So!SumFunction, So!SumFunctionOnSet, So!FoldFunction, So!FoldFunctionOnSet,
             So!MapThenFoldSet, SumFunction, SumFunctionOnSet, FoldFunction, FoldFunctionOnSet,
             MapThenFoldSet
    <3>4. ses[s].counts >= SumFunction(ses[s].used) BY <3>1, <3>2 DEF Books
    <3>5. Len(ses[s].bills) + Len(ses[s].queue) = Len(ses[s].used) BY <3>1 DEF Books
    <3>6. ses[s].pc = "closed" => ses[s].queue = << >> /\ ses[s].recorded = ses[s].counts
      BY <3>1 DEF Books
    <3>7. ses[s].pc = "closed" => Len(ses[s].bills) = Len(ses[s].used)
      <4> DEFINE x == Len(ses[s].bills)
                 y == Len(ses[s].queue)
      <4>1. ses[s].pc = "closed" => y = 0 BY <3>6, NoBills
      <4>2. x \in Nat /\ x + y = Len(ses[s].used) BY <3>2, <3>5
      <4> HIDE DEF x, y
      <4>3. y = 0 => x = Len(ses[s].used) BY <4>2
      <4> QED BY <4>1, <4>3 DEF x
    <3> QED BY <3>3, <3>4, <3>5, <3>6, <3>7
  <2> QED BY <2>1 DEF So!ClosedIsSettled, So!Is
<1>5. So(size)!ChainsStayInGroup BY <1>1 DEF So!ChainsStayInGroup
<1>6. So(size)!ConcurrencyHolds
  <2>1. Cardinality(Slotted(size, ses)) <= size.conc BY DEF SocketInv
  <2>2. Cardinality({s \in size.sessions : ses[s].pc \in {"dial", "pump", "drain"}}) <= size.conc
    BY <2>1 DEF Slotted, Gated
  <2> QED BY <2>2 DEF So!ConcurrencyHolds, So!Cardinality, Cardinality
<1> QED BY <1>2, <1>3, <1>4, <1>5, <1>6 DEF So!SocketHolds

LEMMA SingleSafe == MCSpec => [](component = "session" => SocketInv(Single))
<1> DEFINE Safe == component = "session" => SocketInv(Single)
<1>0. So(Single)!SocketAssumption BY ServerAssumption
<1>1. MCInit => Safe BY <1>0, SocketInit DEF MCInit
<1>2. Safe /\ [MCNext]_all => Safe'
  <2> SUFFICES ASSUME Safe, [MCNext]_all, component' = "session" PROVE SocketInv(Single)' OBVIOUS
  <2>1. component = "session" /\ (So(Single)!Next \/ UNCHANGED sockets) BY DEF MCNext, all
  <2> QED BY <1>0, <2>1, SocketStep
<1> QED BY <1>1, <1>2, PTL DEF MCSpec

LEMMA CoupleSafe == MCSpec => [](component = "sessions" => SocketInv(Couple))
<1> DEFINE Safe == component = "sessions" => SocketInv(Couple)
<1>0. So(Couple)!SocketAssumption BY ServerAssumption
<1>1. MCInit => Safe BY <1>0, SocketInit DEF MCInit
<1>2. Safe /\ [MCNext]_all => Safe'
  <2> SUFFICES ASSUME Safe, [MCNext]_all, component' = "sessions" PROVE SocketInv(Couple)' OBVIOUS
  <2>1. component = "sessions" /\ (So(Couple)!Next \/ UNCHANGED sockets) BY DEF MCNext, all
  <2> QED BY <1>0, <2>1, SocketStep
<1> QED BY <1>1, <1>2, PTL DEF MCSpec

\* Each completed turn of a WebSocket session is billed once, for what it used,
\* and a session that closed has billed them all; a chain of responses stays in
\* its group, and a client token has no more sessions than its limit
\* (codex_ws.go).
THEOREM TurnsAreBilledOnce == MCSpec => []SocketHolds
<1>1. /\ component = "session" => SocketInv(Single)
      /\ component = "sessions" => SocketInv(Couple)
      => SocketHolds
  BY ServerAssumption, SocketsAreHeld DEF SocketHolds
<1> QED BY <1>1, SingleSafe, CoupleSafe, PTL

-----------------------------------------------------------------------------
(* An answer through each of the Codex relays.                              *)

Seen(list) == {list[i] : i \in DOMAIN list}
Endings == {"completed", "bare", "demoted", "quota", "transient", "fatal"}

\* A turn with nothing but content-free events has sent nothing.
Silence(how, late, read, out) ==
  how # "openai" /\ ~(how = "native" /\ late) /\ Seen(read) \subseteq R!Silent => out = << >>

\* A refused turn sends nothing, and what was buffered for it is gone.
Refusal(how, withheld, why, over, out, buffer) ==
  /\ why # "no" => out = << >> \/ (how \in R!Native /\ out = <<"blank">> /\ over = "eof")
  /\ withheld => why # "no"
  /\ why # "no" /\ over = "open" => withheld
  /\ withheld /\ how \in R!Native /\ over = "open" => buffer = << >>
  /\ how = "plain" => ~withheld /\ (over = "open" => out = << >>)
  /\ how = "openai" => why = "no"

\* The lines of a native stream are in the buffer until they are with the client.
Order(how, why, over, read, out, buffer) ==
  how \in R!Native /\ why = "no" =>
    /\ over = "open" /\ out = << >> => buffer = read
    /\ over = "open" /\ out # << >> => out = read /\ buffer = << >>
    /\ out # << >> => out = read \/ out = Append(read, "half") \/ out = Append(read, "blank")

Shows(final, out) == final => Seen(out) \cap Endings # {}

Pace(line, read) ==
  /\ line \in {"event", "data", "blank"}
  /\ Len(read) <= 2 * MaxEvents
  /\ line = "data" => Len(read) + 2 <= 2 * MaxEvents
  /\ line = "blank" => Len(read) + 1 <= 2 * MaxEvents

RelayInv ==
  /\ style \in R!Styles /\ ended \in {"open", "eof", "stalled", "broken"}
  /\ waiting \in BOOLEAN /\ capped \in BOOLEAN /\ shedding \in BOOLEAN /\ terminal \in BOOLEAN
  /\ at # "event" => event \in R!Events
  /\ received \in Seq(R!Lines) /\ passed \in Seq(R!Lines) /\ preamble \in Seq(R!Lines)
  /\ Pace(at, received)
  /\ Silence(style, capped, received, passed)
  /\ Refusal(style, shedding, shed, ended, passed, preamble)
  /\ Order(style, shed, ended, received, passed, preamble)
  /\ Shows(terminal, passed)

LEMMA RelayConstants == MaxEvents \in Nat
BY ServerAssumption DEF R!RelayAssumption

LEMMA LineJoins ==
  ASSUME NEW X, NEW s \in Seq(X), NEW x \in X
  PROVE  /\ Append(s, x) \in Seq(X) /\ Append(s, x) # << >> /\ Len(Append(s, x)) = Len(s) + 1
         /\ Seen(Append(s, x)) = Seen(s) \cup {x} /\ s \o <<x>> = Append(s, x)
         /\ Len(s) \in Nat
<1>1. /\ Append(s, x) \in Seq(X) /\ Append(s, x) # << >> /\ Len(Append(s, x)) = Len(s) + 1
      /\ DOMAIN s = 1..Len(s) /\ DOMAIN Append(s, x) = 1..(Len(s) + 1) /\ Len(s) \in Nat
      /\ Append(s, x)[Len(s) + 1] = x /\ \A i \in 1..Len(s) : Append(s, x)[i] = s[i]
  BY AppendBill
<1>2. Seen(Append(s, x)) = Seen(s) \cup {x}
  <2>1. ASSUME NEW y \in Seen(Append(s, x)) PROVE y \in Seen(s) \cup {x} BY <1>1 DEF Seen
  <2>2. ASSUME NEW y \in Seen(s) PROVE y \in Seen(Append(s, x))
    <3>1. PICK i \in 1..Len(s) : y = s[i] BY <1>1 DEF Seen
    <3>2. i \in DOMAIN Append(s, x) /\ Append(s, x)[i] = y BY <1>1, <3>1
    <3> QED BY <3>2 DEF Seen
  <2>3. x \in Seen(Append(s, x)) BY <1>1 DEF Seen
  <2> QED BY <2>1, <2>2, <2>3
<1>3. s \o <<x>> = Append(s, x) OBVIOUS
<1> QED BY <1>1, <1>2, <1>3

LEMMA ListsJoin ==
  ASSUME NEW X, NEW s \in Seq(X), NEW t \in Seq(X)
  PROVE  /\ s \o t \in Seq(X) /\ Seen(s \o t) = Seen(s) \cup Seen(t)
         /\ << >> \o t = t /\ s \o << >> = s
         /\ t # << >> => s \o t # << >>
<1>1. /\ s \o t \in Seq(X) /\ Len(s \o t) = Len(s) + Len(t)
      /\ Len(s) \in Nat /\ Len(t) \in Nat
      /\ DOMAIN s = 1..Len(s) /\ DOMAIN t = 1..Len(t) /\ DOMAIN (s \o t) = 1..(Len(s) + Len(t))
  OBVIOUS
<1>2. \A i \in 1..(Len(s) + Len(t)) :
        (s \o t)[i] = IF i <= Len(s) THEN s[i] ELSE t[i - Len(s)]
  OBVIOUS
<1> DEFINE all3 == s \o t
           m == Len(s)
           n == Len(t)
<1> HIDE DEF all3, m, n
<1>3. /\ m \in Nat /\ n \in Nat /\ DOMAIN s = 1..m /\ DOMAIN t = 1..n /\ DOMAIN all3 = 1..(m + n)
      /\ \A i \in 1..(m + n) : all3[i] = IF i <= m THEN s[i] ELSE t[i - m]
  BY <1>1, <1>2 DEF all3, m, n
<1>4. Seen(all3) = Seen(s) \cup Seen(t)
  <2>1. ASSUME NEW y \in Seen(all3) PROVE y \in Seen(s) \cup Seen(t)
    <3>1. PICK i \in 1..(m + n) : y = all3[i] BY <1>3 DEF Seen
    <3>2. CASE i <= m
      <4>1. i \in 1..m /\ y = s[i] BY <1>3, <3>1, <3>2
      <4> QED BY <1>3, <4>1 DEF Seen
    <3>3. CASE ~(i <= m)
      <4>1. i - m \in 1..n /\ y = t[i - m] BY <1>3, <3>1, <3>3
      <4> QED BY <1>3, <4>1 DEF Seen
    <3> QED BY <3>2, <3>3
  <2>2. ASSUME NEW y \in Seen(s) PROVE y \in Seen(all3)
    <3>1. PICK i \in 1..m : y = s[i] BY <1>3 DEF Seen
    <3>2. i \in 1..(m + n) /\ all3[i] = y BY <1>3, <3>1
    <3> QED BY <1>3, <3>2 DEF Seen
  <2>3. ASSUME NEW y \in Seen(t) PROVE y \in Seen(all3)
    <3>1. PICK i \in 1..n : y = t[i] BY <1>3 DEF Seen
    <3>2. i + m \in 1..(m + n) /\ ~(i + m <= m) /\ (i + m) - m = i BY <1>3
    <3>3. all3[i + m] = y BY <1>3, <3>1, <3>2
    <3> QED BY <1>3, <3>2, <3>3 DEF Seen
  <2> QED BY <2>1, <2>2, <2>3
<1>5. << >> \o t = t /\ s \o << >> = s OBVIOUS
<1>6. t # << >> => s \o t # << >> OBVIOUS
<1> QED BY <1>1, <1>4, <1>5, <1>6 DEF all3

LEMMA FewLines ==
  ASSUME NEW X, NEW x \in X, NEW y \in X
  PROVE  /\ << >> \in Seq(X) /\ <<x>> \in Seq(X) /\ <<x, y>> \in Seq(X)
         /\ Len(<< >>) = 0 /\ <<x>> # << >> /\ <<x, y>> # << >>
         /\ Seen(<< >>) = {} /\ Seen(<<x>>) = {x} /\ Seen(<<x, y>>) = {x, y}
         /\ <<x>> \o << >> = <<x>> /\ <<x>> \o <<y>> = <<x, y>>
<1>1. << >> \in Seq(X) /\ <<x>> \in Seq(X) /\ <<x, y>> \in Seq(X) OBVIOUS
<1>2. Seen(<< >>) = {} BY DEF Seen
<1>3. <<x>> \o <<y>> = <<x, y>>
  <2>1. /\ <<x>> \o <<y>> \in Seq(X) /\ Len(<<x>> \o <<y>>) = 2
        /\ \A i \in 1..2 : (<<x>> \o <<y>>)[i] = IF i <= 1 THEN x ELSE y
    BY <1>1
  <2>2. /\ Len(<<x, y>>) = 2 /\ \A i \in 1..2 : <<x, y>>[i] = IF i <= 1 THEN x ELSE y
    OBVIOUS
  <2> QED BY <1>1, <2>1, <2>2, SeqEqual
<1>4. Seen(<<x>>) = {x} /\ Seen(<<y>>) = {y}
  <2>1. /\ DOMAIN <<x>> = 1..1 /\ DOMAIN <<y>> = 1..1 /\ 1..1 = {1}
        /\ <<x>>[1] = x /\ <<y>>[1] = y
    OBVIOUS
  <2> DEFINE p == <<x>>
             q == <<y>>
  <2>2. DOMAIN p = {1} /\ DOMAIN q = {1} /\ p[1] = x /\ q[1] = y BY <2>1
  <2> HIDE DEF p, q
  <2>3. Seen(p) = {x} /\ Seen(q) = {y} BY <2>2 DEF Seen
  <2> QED BY <2>3 DEF p, q
<1>7. Seen(<<x, y>>) = {x, y}
  <2>1. <<x>> \in Seq(X) /\ <<y>> \in Seq(X) OBVIOUS
  <2> DEFINE p == <<x>>
             q == <<y>>
  <2>2. p \in Seq(X) /\ q \in Seq(X) BY <2>1
  <2>3. p \o q = <<x, y>> /\ Seen(p) = {x} /\ Seen(q) = {y} BY <1>3, <1>4
  <2> HIDE DEF p, q
  <2>4. Seen(p \o q) = Seen(p) \cup Seen(q) BY <2>2, ListsJoin
  <2>5. Seen(p \o q) = {x, y} BY <2>3, <2>4
  <2> QED BY <2>3, <2>5
<1>5. <<x>> # << >> /\ <<x, y>> # << >> /\ Len(<< >>) = 0 OBVIOUS
<1>6. <<x>> \o << >> = <<x>> BY <1>1, ConcatEmptySeq
<1> QED BY <1>1, <1>2, <1>3, <1>4, <1>5, <1>6, <1>7

LEMMA EventFacts ==
  ASSUME NEW e \in R!Events
  PROVE  /\ R!Shown(e) \in R!Lines
         /\ R!Shown(e) \in R!Silent <=> e.kind \in {"opener", "dropped"}
         /\ e.kind # "capacity" => R!Shown(e) = e.kind
         /\ e.kind \in R!Retryable \cup R!Fatal => R!Shown(e) \in Endings
         /\ R!Ends(e) => R!Shown(e) \in Endings
         /\ e.kind \notin {"content", "opener", "dropped"} => R!Shown(e) \in Endings
         /\ "blank" \in R!Lines /\ "half" \in R!Lines
         /\ e.kind \in {"opener", "dropped", "content", "completed", "bare"}
              \cup R!Retryable \cup R!Fatal
         /\ e.failed \in BOOLEAN
<1>1. R!Shown(e) \in R!Lines /\ "blank" \in R!Lines /\ "half" \in R!Lines BY DEF R!Lines
<1>2. /\ e.kind \in {"opener", "dropped", "content", "completed", "bare"}
           \cup R!Retryable \cup R!Fatal
      /\ e.failed \in BOOLEAN
      /\ e.failed => e.kind \in R!Retryable \cup R!Fatal
  BY DEF R!Events, R!Retryable, R!Fatal
<1>3. e.kind \in R!Retryable \cup R!Fatal => R!Shown(e) \in Endings
  BY DEF R!Shown, R!Retryable, R!Fatal, Endings
<1>4. e.kind \in {"completed", "bare"} => R!Shown(e) \in Endings BY DEF R!Shown, Endings
<1>5. R!Ends(e) => R!Shown(e) \in Endings BY <1>2, <1>3, <1>4 DEF R!Ends
<1>6. e.kind # "capacity" => R!Shown(e) = e.kind BY DEF R!Shown
<1>7. R!Shown(e) \in R!Silent <=> e.kind \in {"opener", "dropped"}
  BY <1>2 DEF R!Shown, R!Silent, R!Retryable, R!Fatal
<1> QED BY <1>1, <1>2, <1>3, <1>4, <1>5, <1>6, <1>7

LEMMA RelayInit == ASSUME R!Init PROVE RelayInv
<1>1. << >> \in Seq(R!Lines) /\ Len(<< >>) = 0 /\ 0 <= 2 * MaxEvents BY RelayConstants
<1> QED BY <1>1 DEF R!Init, RelayInv, Pace, Silence, Refusal, Order, Shows

LEMMA Sends ==
  ASSUME RelayInv, NEW ls \in Seq(R!Lines), R!Emit(ls)
  PROVE  /\ passed' \in Seq(R!Lines) /\ preamble' \in Seq(R!Lines) /\ preamble' = << >>
         /\ Seen(passed') = (Seen(passed) \cup Seen(preamble)) \cup Seen(ls)
         /\ ls # << >> => passed' # << >>
         /\ passed = << >> => passed' = preamble \o ls
         /\ preamble = << >> => passed' = passed \o ls
<1>1. passed \in Seq(R!Lines) /\ preamble \in Seq(R!Lines) BY DEF RelayInv
<1>2. passed' = (passed \o preamble) \o ls /\ preamble' = << >> BY DEF R!Emit
<1> DEFINE both == passed \o preamble
<1>3. /\ both \in Seq(R!Lines) /\ Seen(both) = Seen(passed) \cup Seen(preamble)
      /\ passed = << >> => both = preamble
      /\ preamble = << >> => both = passed
  BY <1>1, ListsJoin
<1> HIDE DEF both
<1>4. /\ both \o ls \in Seq(R!Lines) /\ Seen(both \o ls) = Seen(both) \cup Seen(ls)
      /\ ls # << >> => both \o ls # << >>
  BY <1>3, ListsJoin
<1>5. passed' = both \o ls BY <1>2 DEF both
<1>6. preamble' \in Seq(R!Lines) BY <1>2
<1> QED BY <1>2, <1>3, <1>4, <1>5, <1>6

\* What every data line does.
LEMMA Observes ==
  ASSUME RelayInv, at = "data", R!Observe
  PROVE  /\ received' \in Seq(R!Lines) /\ Pace(at', received') /\ at' = "blank"
         /\ event \in R!Events /\ event' \in R!Events /\ waiting' \in BOOLEAN
         /\ style' = style /\ capped' = capped
         /\ event.kind = "dropped" => received' = received
         /\ event.kind # "dropped" => received' = Append(received, R!Shown(event))
         /\ Seen(received') \subseteq R!Silent =>
              Seen(received) \subseteq R!Silent /\ event.kind \in {"opener", "dropped"}
<1>1. /\ event \in R!Events /\ received \in Seq(R!Lines) /\ Len(received) + 2 <= 2 * MaxEvents
      /\ MaxEvents \in Nat
  BY RelayConstants DEF RelayInv, Pace
<1>2. /\ at' = "blank" /\ waiting' = FALSE /\ UNCHANGED <<style, capped, event>>
      /\ received' = IF event.kind = "dropped" THEN received ELSE Append(received, R!Shown(event))
  BY DEF R!Observe
<1>3. CASE event.kind = "dropped"
  <2>1. received' = received BY <1>2, <1>3
  <2>2. Len(received) \in Nat BY <1>1, LineJoins, EventFacts
  <2>3. Pace("blank", received) BY <1>1, <2>2 DEF Pace
  <2> QED BY <1>1, <1>2, <1>3, <2>1, <2>3
<1>4. CASE event.kind # "dropped"
  <2> DEFINE x == R!Shown(event)
             s == Append(received, x)
  <2>1. received' = s BY <1>2, <1>4
  <2>2. x \in R!Lines /\ (x \in R!Silent <=> event.kind \in {"opener", "dropped"})
    BY <1>1, EventFacts
  <2> HIDE DEF x
  <2>3. /\ s \in Seq(R!Lines) /\ Len(s) = Len(received) + 1 /\ Len(received) \in Nat
        /\ Seen(s) = Seen(received) \cup {x}
    BY <1>1, <2>2, LineJoins
  <2> HIDE DEF s
  <2>4. Pace("blank", s) BY <1>1, <2>3 DEF Pace
  <2>5. s = Append(received, R!Shown(event)) BY DEF s, x
  <2> QED BY <1>1, <1>2, <1>4, <2>1, <2>2, <2>3, <2>4, <2>5
<1> QED BY <1>3, <1>4

LEMMA Reads ==
  ASSUME RelayInv, at = "data", R!Observe,
         shedding' \in BOOLEAN, terminal' \in BOOLEAN, ended' \in {"open", "eof"},
         passed' \in Seq(R!Lines), preamble' \in Seq(R!Lines),
         Silence(style, capped, received', passed'),
         Refusal(style, shedding', shed', ended', passed', preamble'),
         Order(style, shed', ended', received', passed', preamble'),
         Shows(terminal', passed')
  PROVE  RelayInv'
BY Observes DEF RelayInv

LEMMA RelayEvent == ASSUME RelayInv, NEW e \in R!Events, R!EventLine(e) PROVE RelayInv'
<1>1. /\ event' = e /\ at' = "data" /\ at = "event" /\ ended = "open"
      /\ waiting' \in BOOLEAN /\ Len(received) < 2 * MaxEvents - 1
      /\ UNCHANGED <<style, capped, preamble, shedding, shed, received, passed, terminal, ended>>
  BY DEF R!EventLine, RelayInv
<1>2. Len(received) \in Nat /\ MaxEvents \in Nat BY RelayConstants DEF RelayInv
<1>3. Pace("data", received) BY <1>1, <1>2 DEF Pace
<1> QED BY <1>1, <1>3 DEF RelayInv

LEMMA RelayRefused == ASSUME RelayInv, R!NativeRefused PROVE RelayInv'
<1>1. /\ at = "data" /\ R!Observe /\ style \in R!Native /\ passed = << >>
      /\ shed' = event.kind /\ ended' = "eof"
      /\ UNCHANGED <<preamble, shedding, passed, terminal>>
  BY DEF R!NativeRefused, R!Open, R!sent
<1>2. event.kind # "no" BY <1>1, Observes, EventFacts DEF R!Retryable, R!Fatal
<1>3. /\ Silence(style, capped, received', passed')
      /\ Refusal(style, shedding', shed', ended', passed', preamble')
      /\ Order(style, shed', ended', received', passed', preamble')
      /\ Shows(terminal', passed')
  BY <1>1, <1>2 DEF RelayInv, Silence, Refusal, Order, Shows, R!Native
<1>4. /\ shedding' \in BOOLEAN /\ terminal' \in BOOLEAN /\ passed' \in Seq(R!Lines)
      /\ preamble' \in Seq(R!Lines)
  BY <1>1 DEF RelayInv
<1> QED BY <1>1, <1>3, <1>4, Reads

LEMMA RelaySheds == ASSUME RelayInv, R!NativeSheds PROVE RelayInv'
<1>1. /\ at = "data" /\ R!Observe /\ style \in R!Native /\ passed = << >>
      /\ shed' = event.kind /\ shedding' = TRUE /\ preamble' = << >>
      /\ UNCHANGED <<passed, terminal, ended>> /\ ended = "open"
  BY DEF R!NativeSheds, R!Open, R!sent
<1>2. event.kind # "no" BY <1>1, Observes, EventFacts DEF R!Retryable, R!Fatal
<1>3. /\ Silence(style, capped, received', passed')
      /\ Refusal(style, shedding', shed', ended', passed', preamble')
      /\ Order(style, shed', ended', received', passed', preamble')
      /\ Shows(terminal', passed')
  BY <1>1, <1>2 DEF RelayInv, Silence, Refusal, Order, Shows, R!Native
<1>4. /\ shedding' \in BOOLEAN /\ terminal' \in BOOLEAN /\ passed' \in Seq(R!Lines)
      /\ preamble' \in Seq(R!Lines)
  BY <1>1 DEF RelayInv
<1> QED BY <1>1, <1>3, <1>4, Reads

LEMMA RelayOpens == ASSUME RelayInv, R!NativeOpens PROVE RelayInv'
<1>1. /\ at = "data" /\ R!Observe /\ style \in R!Native /\ passed = << >> /\ ~shedding
      /\ event.kind = "opener" /\ preamble' = Append(preamble, "opener") /\ ended = "open"
      /\ UNCHANGED <<shedding, shed, passed, terminal, ended>>
  BY DEF R!NativeOpens, R!Open, R!Buffers, R!sent
<1>2. "opener" \in R!Lines /\ received' = Append(received, "opener")
  BY <1>1, Observes, EventFacts
<1>3. preamble' \in Seq(R!Lines) BY <1>1, <1>2, LineJoins DEF RelayInv
<1>4. shed = "no" /\ preamble = received BY <1>1 DEF RelayInv, Refusal, Order
<1>5. /\ Silence(style, capped, received', passed')
      /\ Refusal(style, shedding', shed', ended', passed', preamble')
      /\ Order(style, shed', ended', received', passed', preamble')
      /\ Shows(terminal', passed')
  BY <1>1, <1>2, <1>4 DEF RelayInv, Silence, Refusal, Order, Shows, R!Native
<1>6. shedding' \in BOOLEAN /\ terminal' \in BOOLEAN /\ passed' \in Seq(R!Lines)
  BY <1>1 DEF RelayInv
<1> QED BY <1>1, <1>3, <1>5, <1>6, Reads

LEMMA RelayDrops == ASSUME RelayInv, R!NativeDrops PROVE RelayInv'
<1>1. /\ at = "data" /\ R!Observe /\ style \in R!Native /\ event.kind = "dropped"
      /\ ended = "open" /\ UNCHANGED <<preamble, shedding, shed, passed, terminal, ended>>
  BY DEF R!NativeDrops, R!Open
<1>2. received' = received BY <1>1, Observes
<1> QED BY <1>1, <1>2, Reads DEF RelayInv

LEMMA RelayFatal == ASSUME RelayInv, R!NativeFatal PROVE RelayInv'
<1>1. /\ at = "data" /\ R!Observe /\ style \in R!Native /\ event.kind \in R!Fatal
      /\ ended = "open" /\ ended' = "eof" /\ UNCHANGED <<shedding, shed>>
  BY DEF R!NativeFatal, R!Open
<1> DEFINE x == event.kind
<1>2. /\ x \in R!Lines /\ x \in Endings /\ x \notin R!Silent /\ "blank" \in R!Lines
      /\ received' = Append(received, x) /\ ~(Seen(received') \subseteq R!Silent)
  BY <1>1, Observes, EventFacts DEF R!Fatal
<1> HIDE DEF x
<1>3. CASE shedding
  <2> DEFINE ls == <<"blank">>
  <2>1. R!Emit(ls) /\ terminal' = terminal BY <1>3 DEF R!NativeFatal
  <2>2. ls \in Seq(R!Lines) /\ ls # << >> BY <1>2, FewLines
  <2>3. preamble = << >> /\ passed = << >> BY <1>1, <1>3 DEF RelayInv, Refusal
  <2> HIDE DEF ls
  <2>4. /\ passed' \in Seq(R!Lines) /\ preamble' \in Seq(R!Lines) /\ preamble' = << >>
        /\ Seen(passed') = (Seen(passed) \cup Seen(preamble)) \cup Seen(ls)
        /\ passed' = preamble \o ls
    BY <2>1, <2>2, <2>3, Sends
  <2>5. passed' = ls BY <2>2, <2>3, <2>4, ListsJoin
  <2>6. /\ Silence(style, capped, received', passed')
        /\ Refusal(style, shedding', shed', ended', passed', preamble')
        /\ Order(style, shed', ended', received', passed', preamble')
    BY <1>1, <1>2, <1>3, <2>4, <2>5 DEF RelayInv, Silence, Refusal, Order, R!Native, ls
  <2>7. Shows(terminal', passed') BY <2>1, <2>4 DEF RelayInv, Shows
  <2>8. shedding' \in BOOLEAN /\ terminal' \in BOOLEAN BY <1>1, <2>1 DEF RelayInv
  <2> QED BY <1>1, <2>4, <2>6, <2>7, <2>8, Reads
<1>4. CASE ~shedding
  <2> DEFINE ls == <<x, "blank">>
  <2>1. R!Emit(ls) /\ terminal' = (terminal \/ event.failed) BY <1>4 DEF R!NativeFatal, x
  <2>2. /\ ls \in Seq(R!Lines) /\ ls # << >> /\ Seen(ls) = {x, "blank"}
        /\ ls = <<x>> \o <<"blank">>
    BY <1>2, FewLines
  <2> HIDE DEF ls
  <2>3. /\ passed' \in Seq(R!Lines) /\ preamble' \in Seq(R!Lines) /\ preamble' = << >>
        /\ Seen(passed') = (Seen(passed) \cup Seen(preamble)) \cup Seen(ls)
        /\ passed' # << >>
        /\ passed = << >> => passed' = preamble \o ls
        /\ preamble = << >> => passed' = passed \o ls
    BY <2>1, <2>2, Sends
  <2>4. shed = "no" BY <1>1, <1>4 DEF RelayInv, Refusal
  <2>5. passed' = received \o ls BY <1>1, <2>3, <2>4 DEF RelayInv, Order
  <2>6. passed' = Append(received', "blank")
    <3>1. received \in Seq(R!Lines) /\ <<x>> \in Seq(R!Lines) /\ <<"blank">> \in Seq(R!Lines)
      BY <1>2 DEF RelayInv
    <3>2. received \o ls = (received \o <<x>>) \o <<"blank">>
      BY <2>2, <3>1, ConcatAssociative
    <3>3. received \o <<x>> = received' /\ received' \in Seq(R!Lines)
      BY <1>2, <3>1, LineJoins
    <3>4. received' \o <<"blank">> = Append(received', "blank") BY <1>2, <3>3, LineJoins
    <3> QED BY <2>5, <3>2, <3>3, <3>4
  <2>7. /\ Silence(style, capped, received', passed')
        /\ Refusal(style, shedding', shed', ended', passed', preamble')
        /\ Order(style, shed', ended', received', passed', preamble')
    BY <1>1, <1>2, <1>4, <2>3, <2>4, <2>6
    DEF RelayInv, Silence, Refusal, Order, R!Native
  <2>8. Shows(terminal', passed') BY <1>2, <2>2, <2>3 DEF Shows
  <2>9. shedding' \in BOOLEAN /\ terminal' \in BOOLEAN
    BY <1>1, <2>1, Observes, EventFacts DEF RelayInv
  <2> QED BY <1>1, <2>3, <2>7, <2>8, <2>9, Reads
<1> QED BY <1>3, <1>4

LEMMA RelayPasses == ASSUME RelayInv, R!NativePasses PROVE RelayInv'
<1>1. /\ at = "data" /\ R!Observe /\ style \in R!Native /\ event.kind # "dropped"
      /\ ended = "open" /\ ~R!Buffers /\ UNCHANGED <<shedding, shed>>
      /\ event.kind \notin R!Fatal
  BY DEF R!NativePasses, R!Open
<1> DEFINE x == R!Shown(event)
<1>2. /\ x \in R!Lines /\ "blank" \in R!Lines /\ (R!Ends(event) => x \in Endings)
      /\ received' = Append(received, x) /\ event \in R!Events
      /\ Seen(received') \subseteq R!Silent =>
              Seen(received) \subseteq R!Silent /\ event.kind \in {"opener", "dropped"}
  BY <1>1, Observes, EventFacts
<1> HIDE DEF x
<1>3. CASE shedding
  <2>1. UNCHANGED <<passed, preamble, terminal, ended>>
    BY <1>3 DEF R!NativePasses, R!Nothing
  <2>2. /\ Silence(style, capped, received', passed')
        /\ Refusal(style, shedding', shed', ended', passed', preamble')
        /\ Order(style, shed', ended', received', passed', preamble')
        /\ Shows(terminal', passed')
    BY <1>1, <1>2, <1>3, <2>1 DEF RelayInv, Silence, Refusal, Order, Shows, R!Native
  <2>3. /\ shedding' \in BOOLEAN /\ terminal' \in BOOLEAN /\ passed' \in Seq(R!Lines)
        /\ preamble' \in Seq(R!Lines)
    BY <1>1, <2>1 DEF RelayInv
  <2> QED BY <1>1, <2>1, <2>2, <2>3, Reads
<1>4. CASE ~shedding
  <2> DEFINE more == R!Ends(event) /\ style = "key"
             rest == IF more THEN <<"blank">> ELSE << >>
             ls == <<x>> \o rest
  <2>1. /\ R!Emit(ls) /\ terminal' = (terminal \/ R!Ends(event))
        /\ ended' = IF more THEN "eof" ELSE ended
    BY <1>4 DEF R!NativePasses, x
  <2>2. rest \in Seq(R!Lines) /\ <<x>> \in Seq(R!Lines) /\ Seen(<<x>>) = {x} /\ <<x>> # << >>
    BY <1>2, FewLines
  <2>3. more \/ ~more OBVIOUS
  <2>4. more => rest = <<"blank">> OBVIOUS
  <2>5. ~more => rest = << >> OBVIOUS
  <2>6. more => R!Ends(event) OBVIOUS
  <2> HIDE DEF rest, more
  <2>7. ls \in Seq(R!Lines) /\ Seen(ls) = {x} \cup Seen(rest) /\ ls # << >>
    <3> DEFINE p == <<x>>
    <3>1. p \in Seq(R!Lines) /\ p # << >> /\ Seen(p) = {x} BY <2>2
    <3> HIDE DEF p
    <3>2. p \o rest # << >> BY <2>2, <3>1, ConcatEqualIffEmpty
    <3>3. p \o rest \in Seq(R!Lines) /\ Seen(p \o rest) = Seen(p) \cup Seen(rest)
      BY <2>2, <3>1, ListsJoin
    <3>4. ls = p \o rest BY DEF p
    <3> QED BY <3>1, <3>2, <3>3, <3>4
  <2> HIDE DEF ls
  <2>8. /\ passed' \in Seq(R!Lines) /\ preamble' \in Seq(R!Lines) /\ preamble' = << >>
        /\ Seen(passed') = (Seen(passed) \cup Seen(preamble)) \cup Seen(ls)
        /\ passed' # << >>
        /\ passed = << >> => passed' = preamble \o ls
        /\ preamble = << >> => passed' = passed \o ls
    BY <2>1, <2>7, Sends
  <2>9. shed = "no" BY <1>1, <1>4 DEF RelayInv, Refusal
  <2>10. passed' = received \o ls BY <1>1, <2>8, <2>9 DEF RelayInv, Order
  <2>11. passed' = received' \o rest
    <3>1. received \in Seq(R!Lines) BY DEF RelayInv
    <3>2. received \o ls = (received \o <<x>>) \o rest
      BY <2>2, <3>1, ConcatAssociative, SMTT(60) DEF ls
    <3>3. received \o <<x>> = received' BY <1>2, <3>1, LineJoins
    <3> QED BY <2>10, <3>2, <3>3
  <2>12. received' \in Seq(R!Lines) BY <1>1, Observes
  <2>13. (more => passed' = Append(received', "blank")) /\ (~more => passed' = received')
    <3>1. received' \o <<"blank">> = Append(received', "blank") BY <1>2, <2>12, LineJoins
    <3>2. received' \o << >> = received' BY <2>12, ConcatEmptySeq
    <3> QED BY <2>4, <2>5, <2>11, <3>1, <3>2
  <2>14. Silence(style, capped, received', passed')
    <3>1. SUFFICES ASSUME ~(style = "native" /\ capped), Seen(received') \subseteq R!Silent
                   PROVE  FALSE
      BY DEF Silence
    <3>2. event.kind = "opener" /\ Seen(received) \subseteq R!Silent BY <1>1, <1>2, <3>1
    <3>3. passed = << >> BY <1>1, <3>1, <3>2 DEF RelayInv, Silence, R!Native
    <3>4. R!Buffers BY <1>1, <1>4, <3>1, <3>2, <3>3 DEF R!Buffers, R!sent, R!Native
    <3> QED BY <1>1, <3>4
  <2>15. /\ Refusal(style, shedding', shed', ended', passed', preamble')
         /\ Order(style, shed', ended', received', passed', preamble')
    BY <1>1, <1>4, <2>1, <2>3, <2>8, <2>9, <2>13 DEF RelayInv, Refusal, Order, R!Native
  <2>16. Shows(terminal', passed') BY <1>2, <2>1, <2>7, <2>8 DEF RelayInv, Shows
  <2>17. shedding' \in BOOLEAN /\ terminal' \in BOOLEAN /\ ended' \in {"open", "eof"}
    BY <1>1, <2>1 DEF RelayInv, R!Ends
  <2> QED BY <1>1, <2>8, <2>14, <2>15, <2>16, <2>17, Reads
<1> QED BY <1>3, <1>4

LEMMA RelayBlank == ASSUME RelayInv, R!NativeBlank PROVE RelayInv'
<1>1. /\ at = "blank" /\ ended = "open" /\ style \in R!Native /\ at' = "event"
      /\ received' = Append(received, "blank")
      /\ UNCHANGED <<style, capped, event, waiting, shedding, shed, terminal, ended>>
  BY DEF R!NativeBlank, R!Open
<1>2. /\ received \in Seq(R!Lines) /\ passed \in Seq(R!Lines) /\ preamble \in Seq(R!Lines)
      /\ event \in R!Events /\ Len(received) + 1 <= 2 * MaxEvents /\ MaxEvents \in Nat
  BY <1>1, RelayConstants DEF RelayInv, Pace
<1>3. "blank" \in R!Lines BY <1>2, EventFacts
<1>4. /\ received' \in Seq(R!Lines) /\ Len(received') = Len(received) + 1
      /\ Len(received) \in Nat /\ Seen(received') = Seen(received) \cup {"blank"}
  BY <1>1, <1>2, <1>3, LineJoins
<1>5. Pace(at', received') BY <1>1, <1>2, <1>4 DEF Pace
<1>6. /\ passed' \in Seq(R!Lines) /\ preamble' \in Seq(R!Lines)
      /\ Seen(passed) \subseteq Seen(passed')
      /\ passed' # << >> => passed # << >>
      /\ Refusal(style, shedding, shed, ended, passed', preamble')
      /\ Order(style, shed, ended, received', passed', preamble')
  <2>1. CASE shedding
    <3>1. passed' = passed /\ preamble' = preamble BY <2>1 DEF R!NativeBlank, R!Nothing
    <3>2. shed # "no" BY <2>1 DEF RelayInv, Refusal
    <3> QED BY <1>2, <3>1, <3>2 DEF RelayInv, Order
  <2>2. CASE ~shedding /\ passed = << >>
    <3>1. passed' = passed /\ preamble' = Append(preamble, "blank")
      BY <2>2 DEF R!NativeBlank, R!sent
    <3>2. preamble' \in Seq(R!Lines) BY <1>2, <1>3, <3>1, LineJoins
    <3> QED BY <1>1, <1>2, <2>2, <3>1, <3>2 DEF RelayInv, Order, Refusal
  <2>3. CASE ~shedding /\ passed # << >>
    <3> DEFINE ls == <<"blank">>
    <3>1. R!Emit(ls) BY <2>3 DEF R!NativeBlank, R!sent
    <3>2. ls \in Seq(R!Lines) /\ ls # << >> BY <1>3, FewLines
    <3> HIDE DEF ls
    <3>3. /\ passed' \in Seq(R!Lines) /\ preamble' \in Seq(R!Lines) /\ preamble' = << >>
          /\ Seen(passed') = (Seen(passed) \cup Seen(preamble)) \cup Seen(ls)
          /\ passed' # << >> /\ (preamble = << >> => passed' = passed \o ls)
      BY <3>1, <3>2, Sends
    <3>4. shed = "no" BY <1>1, <2>3 DEF RelayInv, Refusal
    <3>5. passed = received /\ preamble = << >> BY <1>1, <2>3, <3>4 DEF RelayInv, Order
    <3>6. passed' = received' BY <1>1, <1>2, <1>3, <3>3, <3>5, LineJoins DEF ls
    <3> QED BY <1>1, <2>3, <3>3, <3>4, <3>6 DEF RelayInv, Refusal, Order, R!Native
  <2> QED BY <2>1, <2>2, <2>3
<1>7. Silence(style, capped, received', passed') BY <1>4, <1>6 DEF RelayInv, Silence
<1>8. Shows(terminal, passed') BY <1>6 DEF RelayInv, Shows
<1> QED BY <1>1, <1>4, <1>5, <1>6, <1>7, <1>8 DEF RelayInv

LEMMA RelayStops ==
  ASSUME RelayInv, NEW how \in {"eof", "stalled", "broken"}, R!NativeEnds(how)
  PROVE  RelayInv'
<1>1. /\ ended = "open" /\ style \in R!Native /\ ended' = how
      /\ UNCHANGED <<style, capped, at, event, waiting, usage, received, terminal>>
  BY DEF R!NativeEnds
<1> DEFINE parked == how = "stalled" /\ passed = << >> /\ ~shedding
<1>2. /\ shed' = (IF parked THEN "parked" ELSE shed) /\ shedding' = (shedding \/ parked)
      /\ IF waiting /\ passed # << >> THEN R!Emit(<<"half">>) ELSE R!Nothing
  BY DEF R!NativeEnds, R!sent
<1>3. CASE waiting /\ passed # << >>
  <2> DEFINE ls == <<"half">>
  <2>1. R!Emit(ls) BY <1>2, <1>3
  <2>2. "half" \in R!Lines BY DEF R!Lines
  <2>3. ls \in Seq(R!Lines) /\ ls # << >> BY <2>2, FewLines
  <2> HIDE DEF ls
  <2>4. /\ passed' \in Seq(R!Lines) /\ preamble' \in Seq(R!Lines) /\ preamble' = << >>
        /\ Seen(passed') = (Seen(passed) \cup Seen(preamble)) \cup Seen(ls)
        /\ passed' # << >> /\ (preamble = << >> => passed' = passed \o ls)
    BY <2>1, <2>3, Sends
  <2>5. shed' = shed /\ shedding' = shedding BY <1>2, <1>3 DEF RelayInv
  <2>6. shed = "no" BY <1>1, <1>3 DEF RelayInv, Refusal
  <2>7. passed = received /\ preamble = << >> BY <1>1, <1>3, <2>6 DEF RelayInv, Order
  <2>8. received \in Seq(R!Lines) BY DEF RelayInv
  <2>9. passed' = Append(received, "half") BY <2>2, <2>4, <2>7, <2>8, LineJoins DEF ls
  <2>10. /\ Refusal(style, shedding', shed', ended', passed', preamble')
         /\ Order(style, shed', ended', received', passed', preamble')
    BY <1>1, <2>4, <2>5, <2>6, <2>9 DEF RelayInv, Refusal, Order, R!Native
  <2>11. Silence(style, capped, received, passed') BY <1>3 DEF RelayInv, Silence
  <2>12. Shows(terminal, passed') BY <2>4 DEF RelayInv, Shows
  <2> QED BY <1>1, <2>4, <2>5, <2>10, <2>11, <2>12 DEF RelayInv
<1>4. CASE ~(waiting /\ passed # << >>)
  <2>1. passed' = passed /\ preamble' = preamble BY <1>2, <1>4 DEF R!Nothing
  <2>2. CASE parked
    <3>1. shed' = "parked" /\ shedding' = TRUE /\ passed = << >> BY <1>2, <2>2
    <3> HIDE DEF parked
    <3>2. ended' = "stalled" BY <1>1, <2>2 DEF parked
    <3>3. /\ Order(style, shed', ended', received', passed', preamble')
          /\ Silence(style, capped, received, passed')
          /\ Shows(terminal, passed')
      BY <1>1, <2>1, <3>1 DEF RelayInv, Order, Silence, Shows
    <3> QED BY <1>1, <2>1, <3>1, <3>2, <3>3 DEF RelayInv, Refusal, R!Native
  <2>3. CASE ~parked
    <3>1. shed' = shed /\ shedding' = shedding BY <1>2, <2>3 DEF RelayInv
    <3> HIDE DEF parked
    <3>2. /\ Refusal(style, shedding', shed', ended', passed', preamble')
          /\ Order(style, shed', ended', received', passed', preamble')
      BY <1>1, <2>1, <3>1 DEF RelayInv, Refusal, Order, R!Native
    <3> QED BY <1>1, <2>1, <3>1, <3>2 DEF RelayInv
  <2> QED BY <2>2, <2>3
<1> QED BY <1>3, <1>4

LEMMA RelayChat == ASSUME RelayInv, R!ChatData PROVE RelayInv'
<1>1. at = "data" /\ R!Observe /\ style = "chat" /\ preamble' = preamble /\ ended = "open"
  BY DEF R!ChatData, R!Open
<1> DEFINE x == R!Shown(event)
<1>2. /\ x \in R!Lines /\ event \in R!Events
      /\ event.kind \notin {"content", "opener", "dropped"} => x \in Endings
      /\ Seen(received') \subseteq R!Silent =>
              Seen(received) \subseteq R!Silent /\ event.kind \in {"opener", "dropped"}
      /\ event.kind # "no"
  BY <1>1, Observes, EventFacts DEF R!Retryable, R!Fatal
<1>3. style \notin R!Native BY <1>1 DEF R!Native
<1> HIDE DEF x
<1>4. CASE passed = << >> /\ event.kind = "transient"
  <2>1. shed' = event.kind /\ ended' = "eof" /\ UNCHANGED <<shedding, passed, terminal>>
    BY <1>4 DEF R!ChatData, R!sent
  <2>2. /\ Silence(style, capped, received', passed')
        /\ Refusal(style, shedding', shed', ended', passed', preamble')
        /\ Order(style, shed', ended', received', passed', preamble')
        /\ Shows(terminal', passed')
    BY <1>1, <1>2, <1>3, <1>4, <2>1 DEF RelayInv, Silence, Refusal, Order, Shows
  <2> QED BY <1>1, <2>1, <2>2, Reads DEF RelayInv
<1>5. CASE ~(passed = << >> /\ event.kind = "transient")
  <2>1. /\ ended' = ended
        /\ shedding' = (shedding \/ (passed = << >> /\ event.kind \in R!Retryable))
        /\ shed' = IF ~shedding /\ event.kind \in R!Retryable /\ passed = << >>
                     THEN event.kind ELSE shed
        /\ IF shedding' \/ event.kind \in {"opener", "dropped"} THEN UNCHANGED <<passed, terminal>>
           ELSE /\ passed' = Append(passed, x)
                /\ terminal' = (terminal \/ event.kind # "content")
    BY <1>5 DEF R!ChatData, R!sent, x
  <2>2. CASE shedding' \/ event.kind \in {"opener", "dropped"}
    <3>1. UNCHANGED <<passed, terminal>> BY <2>1, <2>2
    <3>2. Silence(style, capped, received', passed')
      BY <1>1, <1>2, <3>1 DEF RelayInv, Silence
    <3>3. Refusal(style, shedding', shed', ended', passed', preamble')
      BY <1>1, <1>2, <1>3, <2>1, <3>1 DEF RelayInv, Refusal
    <3>4. /\ Order(style, shed', ended', received', passed', preamble')
          /\ Shows(terminal', passed')
      BY <1>3, <3>1 DEF RelayInv, Order, Shows
    <3>5. /\ shedding' \in BOOLEAN /\ terminal' \in BOOLEAN /\ passed' \in Seq(R!Lines)
          /\ preamble' \in Seq(R!Lines) /\ ended' \in {"open", "eof"}
      BY <1>1, <2>1, <3>1 DEF RelayInv
    <3> QED BY <1>1, <3>2, <3>3, <3>4, <3>5, Reads
  <2>3. CASE ~(shedding' \/ event.kind \in {"opener", "dropped"})
    <3>1. passed' = Append(passed, x) /\ terminal' = (terminal \/ event.kind # "content")
      BY <2>1, <2>3
    <3>2. ~shedding /\ shed' = shed /\ shedding' = shedding BY <2>1, <2>3 DEF RelayInv
    <3>3. passed' \in Seq(R!Lines) /\ Seen(passed') = Seen(passed) \cup {x}
      BY <1>2, <3>1, LineJoins DEF RelayInv
    <3>4. Silence(style, capped, received', passed') BY <1>2, <2>3 DEF Silence
    <3>5. shed = "no" BY <1>1, <3>2 DEF RelayInv, Refusal
    <3>6. /\ Refusal(style, shedding', shed', ended', passed', preamble')
          /\ Order(style, shed', ended', received', passed', preamble')
      BY <1>1, <1>3, <3>2, <3>5 DEF RelayInv, Refusal, Order
    <3>7. Shows(terminal', passed') BY <1>2, <2>3, <3>1, <3>3 DEF RelayInv, Shows
    <3>8. /\ shedding' \in BOOLEAN /\ terminal' \in BOOLEAN
          /\ preamble' \in Seq(R!Lines) /\ ended' \in {"open", "eof"}
      BY <1>1, <2>1, <3>1, <3>2 DEF RelayInv
    <3> QED BY <1>1, <3>3, <3>4, <3>6, <3>7, <3>8, Reads
  <2> QED BY <2>2, <2>3
<1> QED BY <1>4, <1>5

LEMMA RelayOpenAI == ASSUME RelayInv, R!OpenAIData PROVE RelayInv'
<1> DEFINE x == R!Shown(event)
<1>1. /\ at = "data" /\ R!Observe /\ style = "openai" /\ passed' = Append(passed, x)
      /\ terminal' = (terminal \/ R!Ends(event)) /\ ended = "open"
      /\ UNCHANGED <<preamble, shedding, shed, ended>>
  BY DEF R!OpenAIData, R!Open
<1>2. x \in R!Lines /\ (R!Ends(event) => x \in Endings) /\ R!Ends(event) \in BOOLEAN
  BY <1>1, Observes, EventFacts DEF R!Ends
<1>3. style \notin R!Native BY <1>1 DEF R!Native
<1> HIDE DEF x
<1>4. passed' \in Seq(R!Lines) /\ Seen(passed') = Seen(passed) \cup {x}
  BY <1>1, <1>2, LineJoins DEF RelayInv
<1>5. shed = "no"
  BY <1>1 DEF RelayInv, Refusal
<1>6. /\ Silence(style, capped, received', passed')
      /\ Refusal(style, shedding', shed', ended', passed', preamble')
      /\ Order(style, shed', ended', received', passed', preamble')
  BY <1>1, <1>3, <1>5 DEF RelayInv, Silence, Refusal, Order
<1>7. Shows(terminal', passed') BY <1>1, <1>2, <1>4 DEF RelayInv, Shows
<1> QED BY <1>1, <1>2, <1>4, <1>6, <1>7, Reads DEF RelayInv

LEMMA RelayPlain == ASSUME RelayInv, R!PlainData PROVE RelayInv'
<1>1. /\ at = "data" /\ R!Observe /\ style = "plain" /\ ended = "open"
      /\ shed' = IF event.kind \in R!Retryable \cup {"transient"} THEN event.kind ELSE shed
      /\ ended' = IF event.kind \in R!Retryable \cup R!Fatal \/ R!Ends(event) THEN "eof" ELSE ended
      /\ passed' = IF event.kind \in {"completed", "bare"} THEN <<event.kind>> ELSE passed
      /\ terminal' = (event.kind \in {"completed", "bare"})
      /\ UNCHANGED <<preamble, shedding>>
  BY DEF R!PlainData, R!Open
<1>2. /\ event.kind # "no" /\ R!Shown(event) \in R!Lines
      /\ event.kind # "capacity" => R!Shown(event) = event.kind
      /\ Seen(received') \subseteq R!Silent =>
              Seen(received) \subseteq R!Silent /\ event.kind \in {"opener", "dropped"}
  BY <1>1, Observes, EventFacts DEF R!Retryable, R!Fatal
<1>3. style \notin R!Native /\ passed = << >> BY <1>1 DEF R!Native, RelayInv, Refusal
<1>4. CASE event.kind \in {"completed", "bare"}
  <2> DEFINE x == event.kind
  <2>1. x \in R!Lines BY <1>2, <1>4
  <2>2. x \in Endings /\ x \notin {"opener", "dropped"} /\ R!Ends(event)
        /\ x \notin R!Retryable \cup {"transient"}
    BY <1>4 DEF Endings, R!Ends, R!Retryable
  <2>3. passed' = <<x>> /\ terminal' = TRUE /\ ended' = "eof" /\ shed' = shed
    BY <1>1, <1>4, <2>2
  <2> HIDE DEF x
  <2>4. passed' \in Seq(R!Lines) /\ Seen(passed') = {x} BY <2>1, <2>3, FewLines
  <2>5. shed = "no" /\ ~shedding
    <3>1. ~shedding BY <1>1 DEF RelayInv, Refusal
    <3> QED BY <1>1, <3>1 DEF RelayInv, Refusal
  <2>6. /\ Silence(style, capped, received', passed')
        /\ Refusal(style, shedding', shed', ended', passed', preamble')
        /\ Order(style, shed', ended', received', passed', preamble')
        /\ Shows(terminal', passed')
    BY <1>1, <1>2, <1>3, <2>2, <2>3, <2>4, <2>5
    DEF x, RelayInv, Silence, Refusal, Order, Shows
  <2> QED BY <1>1, <2>3, <2>4, <2>6, Reads DEF RelayInv
<1>5. CASE event.kind \notin {"completed", "bare"}
  <2>0. passed' = passed BY <1>1, <1>5
  <2> DEFINE ends == event.kind \in {"completed", "bare"}
  <2>7. terminal' = ends BY <1>1
  <2>8. ends = FALSE BY <1>5
  <2> HIDE DEF ends
  <2>6. terminal' = FALSE BY <2>7, <2>8
  <2>1. passed' = << >> /\ terminal' = FALSE BY <1>3, <2>0, <2>6
  <2>2. event.kind \in R!Retryable \cup {"transient"} => ended' = "eof"
    BY <1>1 DEF R!Fatal
  <2>3. /\ Silence(style, capped, received', passed')
        /\ Order(style, shed', ended', received', passed', preamble')
        /\ Shows(terminal', passed')
    BY <1>3, <2>1 DEF Silence, Order, Shows
  <2>4. Refusal(style, shedding', shed', ended', passed', preamble')
    BY <1>1, <1>2, <1>3, <2>1, <2>2 DEF RelayInv, Refusal
  <2>5. << >> \in Seq(R!Lines) OBVIOUS
  <2> QED BY <1>1, <2>1, <2>3, <2>4, <2>5, Reads DEF RelayInv
<1> QED BY <1>4, <1>5

LEMMA RelayOther == ASSUME RelayInv, R!OtherBlank PROVE RelayInv'
<1>1. /\ at = "blank" /\ ended = "open" /\ style \notin R!Native /\ at' = "event"
      /\ received' = Append(received, "blank")
      /\ passed' = IF style = "openai" THEN Append(passed, "blank") ELSE passed
      /\ UNCHANGED <<style, capped, event, waiting, preamble, shedding, shed, terminal, ended>>
  BY DEF R!OtherBlank, R!Open
<1>2. /\ received \in Seq(R!Lines) /\ passed \in Seq(R!Lines) /\ event \in R!Events
      /\ Len(received) + 1 <= 2 * MaxEvents /\ MaxEvents \in Nat
  BY <1>1, RelayConstants DEF RelayInv, Pace
<1>3. "blank" \in R!Lines BY <1>2, EventFacts
<1>4. /\ received' \in Seq(R!Lines) /\ Len(received') = Len(received) + 1
      /\ Len(received) \in Nat /\ Seen(received') = Seen(received) \cup {"blank"}
  BY <1>1, <1>2, <1>3, LineJoins
<1>5. Pace(at', received') BY <1>1, <1>2, <1>4 DEF Pace
<1>6. passed' \in Seq(R!Lines) /\ Seen(passed) \subseteq Seen(passed')
  BY <1>1, <1>2, <1>3, LineJoins
<1>7. style = "openai" => shed = "no" BY DEF RelayInv, Refusal
<1>8. /\ Silence(style, capped, received', passed')
      /\ Refusal(style, shedding, shed, ended, passed', preamble)
      /\ Order(style, shed, ended, received', passed', preamble)
      /\ Shows(terminal, passed')
  BY <1>1, <1>4, <1>6, <1>7 DEF RelayInv, Silence, Refusal, Order, Shows
<1> QED BY <1>1, <1>4, <1>5, <1>6, <1>8 DEF RelayInv

LEMMA RelayOtherEnds ==
  ASSUME RelayInv, NEW how \in {"eof", "stalled", "broken"}, R!OtherEnds(how)
  PROVE  RelayInv'
BY DEF R!OtherEnds, RelayInv, Refusal, Order

LEMMA RelayLate == ASSUME RelayInv, R!Late PROVE RelayInv'
<1>1. /\ capped' = TRUE
      /\ UNCHANGED <<style, at, event, waiting, preamble, shedding, shed, received, passed,
                     terminal, ended>>
  BY DEF R!Late
<1>2. Silence(style, TRUE, received, passed) BY DEF RelayInv, Silence
<1> QED BY <1>1, <1>2 DEF RelayInv

LEMMA RelayStep == ASSUME RelayInv, R!Next \/ UNCHANGED relay PROVE RelayInv'
<1>1. CASE R!Next
  <2>1. ASSUME NEW e \in R!Events, R!EventLine(e) PROVE RelayInv' BY <2>1, RelayEvent
  <2>2. CASE R!NativeRefused \/ R!NativeSheds \/ R!NativeOpens \/ R!NativeDrops
             \/ R!NativeFatal \/ R!NativePasses \/ R!NativeBlank
    BY <2>2, RelayRefused, RelaySheds, RelayOpens, RelayDrops, RelayFatal, RelayPasses, RelayBlank
  <2>3. CASE R!ChatData \/ R!OpenAIData \/ R!PlainData \/ R!OtherBlank \/ R!Late
    BY <2>3, RelayChat, RelayOpenAI, RelayPlain, RelayOther, RelayLate
  <2>4. ASSUME NEW how \in {"eof", "stalled", "broken"}, R!NativeEnds(how) \/ R!OtherEnds(how)
        PROVE  RelayInv'
    BY <2>4, RelayStops, RelayOtherEnds
  <2> QED BY <1>1, <2>1, <2>2, <2>3, <2>4 DEF R!Next
<1>2. CASE UNCHANGED relay
  <2>1. UNCHANGED <<style, capped, at, event, waiting, preamble, shedding, shed, usage,
                    received, passed, terminal, ended>>
    BY <1>2 DEF relay
  <2> QED BY <2>1 DEF RelayInv
<1> QED BY <1>1, <1>2

LEMMA RelayIsHeld == ASSUME RelayInv PROVE R!RelayHolds
<1>1. R!TypeOK BY DEF RelayInv, Pace, R!TypeOK
<1>2. R!SilenceIsWithheld
  <2>1. R!Range(received) = Seen(received) BY DEF R!Range, Seen
  <2> QED BY <2>1 DEF RelayInv, Silence, R!SilenceIsWithheld, R!sent
<1>3. R!NoSessionEnds
  <2>1. \A e \in R!Events : R!Shown(e) # "capacity" BY DEF R!Shown
  <2>2. "capacity" \notin R!Lines BY <2>1 DEF R!Lines
  <2>3. passed \in Seq(R!Lines) BY DEF RelayInv
  <2>4. \A i \in DOMAIN passed : passed[i] \in R!Lines BY <2>3
  <2> QED BY <2>2, <2>4 DEF R!NoSessionEnds, R!Range
<1>4. R!NativeInOrder
  <2> SUFFICES ASSUME style \in R!Native, passed # << >>, shed = "no"
               PROVE  /\ Len(passed) - Len(received) \in {0, 1}
                      /\ \A i \in DOMAIN received : passed[i] = received[i]
    BY DEF R!NativeInOrder, R!sent
  <2>1. received \in Seq(R!Lines) /\ "half" \in R!Lines /\ "blank" \in R!Lines
    BY DEF RelayInv, R!Lines
  <2>2. PICK x \in {"half", "blank"} : passed = received \/ passed = Append(received, x)
    BY DEF RelayInv, Order
  <2>3. Len(received) \in Nat BY <2>1, AppendBill
  <2>4. CASE passed = received BY <2>3, <2>4
  <2>5. CASE passed = Append(received, x)
    <3>1. x \in R!Lines BY <2>1
    <3>2. /\ Len(Append(received, x)) = Len(received) + 1 /\ DOMAIN received = 1..Len(received)
          /\ \A i \in 1..Len(received) : Append(received, x)[i] = received[i]
      BY <2>1, <3>1, AppendBill
    <3> QED BY <2>3, <2>5, <3>2
  <2> QED BY <2>2, <2>4, <2>5
<1>5. R!ShedIsSilent BY DEF RelayInv, Refusal, R!ShedIsSilent
<1>6. R!TerminalIsShown
  <2>1. R!Range(passed) = Seen(passed) BY DEF R!Range, Seen
  <2> QED BY <2>1 DEF RelayInv, Shows, Endings, R!TerminalIsShown
<1> QED BY <1>1, <1>2, <1>3, <1>4, <1>5, <1>6 DEF R!RelayHolds

-----------------------------------------------------------------------------
(* A Claude turn.                                                           *)

Debit == [turn : Nat, slot : {"main", "advisor"}, tokens : Nat]
Tokens == 0..MaxUsage
Account == [in : Tokens, out : Tokens, adv : Tokens]
Gathering == [in : Tokens, out : Tokens, adv : Tokens, seen : BOOLEAN]

Agrees(c, t) == c.in = t.in /\ c.out = t.out /\ c.adv = t.adv

\* The client has nothing until an answer starts, and then only that answer;
\* what was gathered is what upstream has accounted for.
Answering(st, whose, out, t, c, how) ==
  /\ st \in {"ready", "sent", "rejected", "answered"} => out = {} /\ c = Cl!Unseen
  /\ st \in {"sent", "rejected", "answered"} => t = Cl!Nil /\ how = "no"
  /\ st = "streaming" =>
       /\ out \subseteq {whose} /\ how = "no" /\ Agrees(c, t)
       /\ out = {} => c = Cl!Unseen
  /\ st \in {"settle", "advisor"} => out = {whose} /\ (Agrees(c, t) \/ (how = "truncated" /\ ~c.seen))
  /\ st = "done" => out \in {{}, {whose}, {"error"}}
  /\ t.adv > 0 => t.out > 0
  /\ c.adv > 0 => c.seen

Of(list, n, slot) == \E i \in DOMAIN list : list[i].turn = n /\ list[i].slot = slot
Paid(list) == [i \in DOMAIN list |-> list[i].tokens]
SingleDebits(list) ==
  \A i, j \in DOMAIN list : list[i].turn = list[j].turn /\ list[i].slot = list[j].slot => i = j

\* The debits, each once, and the charges that failed.
Journal(n, list, gone) ==
  /\ list \in Seq(Debit) /\ gone \subseteq Nat \X {"main", "advisor"}
  /\ \A i \in DOMAIN list : list[i].turn <= n
  /\ \A x \in gone : x[1] <= n
  /\ SingleDebits(list)
  /\ \A slot \in {"main", "advisor"} : Of(list, n, slot) => <<n, slot>> \notin gone

\* What the weekly ledger lacks between the turn's bill and its own entry.
Due(n, st, list, c) == IF st = "advisor" /\ Of(list, n, "main") THEN c.in + c.out ELSE 0

Billing(n, st, whose, out, c, list, gone, week) ==
  /\ Journal(n, list, gone)
  /\ st \notin {"advisor", "done"} =>
       \A slot \in {"main", "advisor"} : ~Of(list, n, slot) /\ <<n, slot>> \notin gone
  /\ st = "advisor" =>
       /\ ~Of(list, n, "advisor") /\ <<n, "advisor">> \notin gone
       /\ c.seen => Of(list, n, "main") \/ <<n, "main">> \in gone
       /\ ~c.seen => ~Of(list, n, "main")
  /\ st = "done" /\ c.seen =>
       /\ Of(list, n, "main") \/ <<n, "main">> \in gone
       /\ c.adv > 0 => Of(list, n, "advisor") \/ <<n, "advisor">> \in gone
  /\ \A slot \in {"main", "advisor"} : Of(list, n, slot) => out = {whose}
  /\ week \in Nat /\ week + Due(n, st, list, c) = SumFunction(Paid(list))

ClaudeInv ==
  /\ turn \in Nat /\ signed \in BOOLEAN /\ sent \in BOOLEAN
  /\ stage \in {"ready", "sent", "rejected", "answered", "streaming", "settle", "advisor", "done"}
  /\ tried \subseteq ClaudeCreds /\ strip \subseteq ClaudeCreds
  /\ stage \notin {"ready", "done"} => cred \in ClaudeCreds
  /\ truth \in Account /\ counts \in Gathering
  /\ display \subseteq ClaudeCreds \cup {"error"}
  /\ Answering(stage, cred, display, truth, counts, finished)
  /\ Billing(turn, stage, cred, display, counts, bills, unbilled, weekly)

LEMMA ClaudeConstants ==
  /\ MaxUsage \in Nat /\ 0 \in Tokens /\ Cl!Nil \in Account /\ Cl!Unseen \in Gathering
  /\ Cl!Unseen.in = 0 /\ Cl!Unseen.out = 0 /\ Cl!Unseen.adv = 0 /\ ~Cl!Unseen.seen
  /\ Cl!Nil.in = 0 /\ Cl!Nil.out = 0 /\ Cl!Nil.adv = 0
<1>1. MaxUsage \in Nat BY ServerAssumption DEF Cl!ClaudeAssumption
<1>2. 0 \in Tokens BY <1>1 DEF Tokens
<1> QED BY <1>1, <1>2 DEF Account, Gathering, Cl!Nil, Cl!Unseen

LEMMA PaidOf ==
  ASSUME NEW list \in Seq(Debit)
  PROVE  /\ Paid(list) \in Seq(Nat) /\ Len(Paid(list)) = Len(list)
         /\ \A i \in 1..Len(list) : Paid(list)[i] = list[i].tokens
<1>1. DOMAIN list = 1..Len(list) /\ Len(list) \in Nat /\ \A i \in 1..Len(list) : list[i] \in Debit
  OBVIOUS
<1>2. \A i \in 1..Len(list) : list[i].tokens \in Nat BY <1>1 DEF Debit
<1>3. Paid(list) = [i \in 1..Len(list) |-> list[i].tokens] BY <1>1 DEF Paid
<1> QED BY <1>1, <1>2, <1>3

\* One more debit.
LEMMA DebitJoins ==
  ASSUME NEW list \in Seq(Debit), NEW b \in Debit
  PROVE  /\ Append(list, b) \in Seq(Debit)
         /\ \A n, slot : Of(Append(list, b), n, slot) <=>
                           Of(list, n, slot) \/ (b.turn = n /\ b.slot = slot)
         /\ SumFunction(Paid(Append(list, b))) = SumFunction(Paid(list)) + b.tokens
         /\ SumFunction(Paid(list)) \in Nat
         /\ SingleDebits(list) /\ ~Of(list, b.turn, b.slot) => SingleDebits(Append(list, b))
         /\ \A n \in Nat : b.turn <= n /\ (\A i \in DOMAIN list : list[i].turn <= n)
                             => \A i \in DOMAIN Append(list, b) : Append(list, b)[i].turn <= n
<1> DEFINE m == Len(list)
           more == Append(list, b)
<1>1. /\ more \in Seq(Debit) /\ m \in Nat /\ DOMAIN list = 1..m /\ DOMAIN more = 1..(m + 1)
      /\ more[m + 1] = b /\ (\A i \in 1..m : more[i] = list[i]) /\ Len(more) = m + 1
  BY AppendBill
<1>2. b.tokens \in Nat BY DEF Debit
<1>3. Paid(more) = Append(Paid(list), b.tokens)
  <2>1. /\ Paid(list) \in Seq(Nat) /\ Len(Paid(list)) = m
        /\ \A i \in 1..m : Paid(list)[i] = list[i].tokens
    BY PaidOf
  <2>2. /\ Paid(more) \in Seq(Nat) /\ Len(Paid(more)) = m + 1
        /\ \A i \in 1..(m + 1) : Paid(more)[i] = more[i].tokens
    BY <1>1, PaidOf
  <2> HIDE DEF m, more
  <2> DEFINE p == Paid(list)
             q == Append(p, b.tokens)
  <2>3. /\ q \in Seq(Nat) /\ Len(q) = m + 1 /\ q[m + 1] = b.tokens
        /\ \A i \in 1..m : q[i] = p[i]
    BY <1>2, <2>1, AppendBill
  <2>4. ASSUME NEW i \in 1..(m + 1) PROVE Paid(more)[i] = q[i]
    <3>1. CASE i \in 1..m BY <1>1, <2>1, <2>2, <2>3, <3>1
    <3>2. CASE i = m + 1 BY <1>1, <2>2, <2>3, <3>2
    <3>3. i \in 1..m \/ i = m + 1 BY <1>1
    <3> QED BY <3>1, <3>2, <3>3
  <2> HIDE DEF q
  <2>5. Paid(more) = q BY <2>2, <2>3, <2>4, SeqEqual
  <2> QED BY <2>5 DEF q
<1> HIDE DEF m, more
<1>4. /\ SumFunction(Paid(more)) = SumFunction(Paid(list)) + b.tokens
      /\ SumFunction(Paid(list)) \in Nat
  BY <1>2, <1>3, PaidOf, SumAppend, SumOfSeq
<1>5. ASSUME NEW n, NEW slot
      PROVE  Of(more, n, slot) <=> Of(list, n, slot) \/ (b.turn = n /\ b.slot = slot)
  <2>1. ASSUME Of(more, n, slot) PROVE Of(list, n, slot) \/ (b.turn = n /\ b.slot = slot)
    <3>1. PICK i \in 1..(m + 1) : more[i].turn = n /\ more[i].slot = slot
      BY <1>1, <2>1 DEF Of
    <3>2. CASE i \in 1..m BY <1>1, <3>1, <3>2 DEF Of
    <3>3. CASE i = m + 1 BY <1>1, <3>1, <3>3
    <3> QED BY <1>1, <3>2, <3>3
  <2>2. ASSUME Of(list, n, slot) PROVE Of(more, n, slot)
    <3>1. PICK i \in 1..m : list[i].turn = n /\ list[i].slot = slot BY <1>1, <2>2 DEF Of
    <3>2. i \in 1..(m + 1) /\ more[i] = list[i] BY <1>1
    <3> QED BY <1>1, <3>1, <3>2 DEF Of
  <2>3. ASSUME b.turn = n, b.slot = slot PROVE Of(more, n, slot)
    <3>1. m + 1 \in 1..(m + 1) BY <1>1
    <3> QED BY <1>1, <2>3, <3>1 DEF Of
  <2> QED BY <2>1, <2>2, <2>3
<1>6. ASSUME SingleDebits(list), ~Of(list, b.turn, b.slot) PROVE SingleDebits(more)
  <2> SUFFICES ASSUME NEW i \in 1..(m + 1), NEW j \in 1..(m + 1),
                      more[i].turn = more[j].turn, more[i].slot = more[j].slot
               PROVE  i = j
    BY <1>1 DEF SingleDebits
  <2>1. \A k \in 1..m : ~(list[k].turn = b.turn /\ list[k].slot = b.slot) BY <1>1, <1>6 DEF Of
  <2>2. CASE i \in 1..m /\ j \in 1..m BY <1>1, <1>6, <2>2 DEF SingleDebits
  <2>3. CASE i = m + 1 /\ j \in 1..m BY <1>1, <2>1, <2>3
  <2>4. CASE i \in 1..m /\ j = m + 1 BY <1>1, <2>1, <2>4
  <2>5. CASE i = m + 1 /\ j = m + 1 BY <2>5
  <2> QED BY <1>1, <2>2, <2>3, <2>4, <2>5
<1>7. ASSUME NEW n \in Nat, b.turn <= n, \A i \in DOMAIN list : list[i].turn <= n
      PROVE  \A i \in DOMAIN more : more[i].turn <= n
  <2> SUFFICES ASSUME NEW i \in 1..(m + 1) PROVE more[i].turn <= n BY <1>1
  <2>1. CASE i \in 1..m BY <1>1, <1>7, <2>1
  <2>2. CASE i = m + 1 BY <1>1, <1>7, <2>2
  <2> QED BY <1>1, <2>1, <2>2
<1> QED BY <1>1, <1>4, <1>5, <1>6, <1>7 DEF more

LEMMA BilledIs == ASSUME NEW slot PROVE Cl!Billed(slot) <=> Of(bills, turn, slot)
BY DEF Cl!Billed, Cl!Range, Of

LEMMA ClaudeInit == ASSUME Cl!Init PROVE ClaudeInv
<1>1. /\ turn = 1 /\ stage = "ready" /\ cred = "none" /\ tried = {} /\ signed \in BOOLEAN
      /\ sent = FALSE /\ strip = {} /\ truth = Cl!Nil /\ counts = Cl!Unseen /\ display = {}
      /\ finished = "no" /\ bills = << >> /\ unbilled = {} /\ weekly = 0
  BY DEF Cl!Init
<1>2. /\ << >> \in Seq(Debit) /\ DOMAIN << >> = {} /\ Len(<< >>) = 0 OBVIOUS
<1>3. \A slot : ~Of(bills, turn, slot) BY <1>1, <1>2 DEF Of
<1>4. SumFunction(Paid(bills)) = 0
  <2>1. Paid(bills) \in Seq(Nat) /\ Len(Paid(bills)) = 0 BY <1>1, <1>2, PaidOf
  <2>2. Paid(bills) = << >> BY <2>1
  <2> QED BY <2>2, SumOfEmpty
<1>5. Journal(turn, bills, unbilled) BY <1>1, <1>2, <1>3 DEF Journal, SingleDebits
<1>6. Billing(turn, stage, cred, display, counts, bills, unbilled, weekly)
  BY <1>1, <1>3, <1>4, <1>5 DEF Billing, Due
<1>7. Answering(stage, cred, display, truth, counts, finished)
  BY <1>1, ClaudeConstants DEF Answering
<1> QED BY <1>1, <1>6, <1>7, ClaudeConstants DEF ClaudeInv

\* Before the billing.
LEMMA ClaudeEarly ==
  ASSUME ClaudeInv, stage \notin {"advisor", "done"}, stage' # "advisor",
         UNCHANGED <<turn, bills, unbilled, weekly>>,
         stage' = "done" => ~counts'.seen,
         signed' \in BOOLEAN, sent' \in BOOLEAN,
         stage' \in {"ready", "sent", "rejected", "answered", "streaming", "settle", "done"},
         tried' \subseteq ClaudeCreds, strip' \subseteq ClaudeCreds,
         stage' \notin {"ready", "done"} => cred' \in ClaudeCreds,
         truth' \in Account, counts' \in Gathering,
         display' \subseteq ClaudeCreds \cup {"error"},
         Answering(stage', cred', display', truth', counts', finished')
  PROVE  ClaudeInv'
<1>1. Billing(turn, stage, cred, display, counts, bills, unbilled, weekly) BY DEF ClaudeInv
<1>2. \A slot \in {"main", "advisor"} : ~Of(bills, turn, slot) /\ <<turn, slot>> \notin unbilled
  BY <1>1 DEF Billing
<1>3. Due(turn, stage, bills, counts) = 0 /\ Due(turn', stage', bills', counts') = 0
  BY DEF Due
<1>4. Billing(turn', stage', cred', display', counts', bills', unbilled', weekly')
  BY <1>1, <1>2, <1>3 DEF Billing
<1>5. turn' \in Nat BY DEF ClaudeInv
<1> QED BY <1>4, <1>5 DEF ClaudeInv

LEMMA ClaudeBegin == ASSUME ClaudeInv, NEW c \in ClaudeCreds, Cl!Begin(c) PROVE ClaudeInv'
<1>1. /\ stage = "ready" /\ cred' = c /\ tried' = tried \cup {c} /\ sent' \in BOOLEAN
      /\ stage' = "sent" /\ truth' = Cl!Nil /\ counts' = Cl!Unseen /\ finished' = "no"
      /\ display' = display /\ UNCHANGED <<turn, signed, strip, bills, unbilled, weekly>>
  BY DEF Cl!Begin, Cl!money, ClaudeInv
<1>2. display = {} BY <1>1 DEF ClaudeInv, Answering
<1>3. Answering(stage', cred', display', truth', counts', finished')
  BY <1>1, <1>2, ClaudeConstants DEF Answering
<1> QED BY <1>1, <1>3, ClaudeConstants, ClaudeEarly DEF ClaudeInv

LEMMA ClaudeWithhold == ASSUME ClaudeInv, Cl!Withhold PROVE ClaudeInv'
<1>1. /\ stage \in {"sent", "rejected"} /\ stage' = "ready"
      /\ UNCHANGED <<turn, cred, tried, signed, sent, strip, truth, counts, display, finished,
                     bills, unbilled, weekly>>
  BY DEF Cl!Withhold, Cl!money, Cl!answer
<1>2. Answering(stage', cred', display', truth', counts', finished')
  BY <1>1 DEF ClaudeInv, Answering
<1> QED BY <1>1, <1>2, ClaudeEarly DEF ClaudeInv

LEMMA ClaudePassOn == ASSUME ClaudeInv, Cl!PassOn PROVE ClaudeInv'
<1>1. /\ stage \in {"sent", "rejected"} /\ stage' = "done"
      /\ display' \in {display, display \cup {"error"}}
      /\ UNCHANGED <<turn, cred, tried, signed, sent, strip, truth, counts, finished,
                     bills, unbilled, weekly>>
  BY DEF Cl!PassOn, Cl!money
<1>2. counts = Cl!Unseen /\ display = {} BY <1>1 DEF ClaudeInv, Answering
<1>3. Answering(stage', cred', display', truth', counts', finished')
  BY <1>1, <1>2, ClaudeConstants DEF ClaudeInv, Answering
<1> QED BY <1>1, <1>2, <1>3, ClaudeConstants, ClaudeEarly DEF ClaudeInv

LEMMA ClaudeExhausted == ASSUME ClaudeInv, Cl!Exhausted PROVE ClaudeInv'
<1>1. /\ stage = "ready" /\ stage' = "done" /\ display' = display \cup {"error"}
      /\ UNCHANGED <<turn, cred, tried, signed, sent, strip, truth, counts, finished,
                     bills, unbilled, weekly>>
  BY DEF Cl!Exhausted, Cl!money
<1>2. counts = Cl!Unseen /\ display = {} BY <1>1 DEF ClaudeInv, Answering
<1>3. Answering(stage', cred', display', truth', counts', finished')
  BY <1>1, <1>2, ClaudeConstants DEF ClaudeInv, Answering
<1> QED BY <1>1, <1>2, <1>3, ClaudeConstants, ClaudeEarly DEF ClaudeInv

LEMMA ClaudeReplies ==
  ASSUME ClaudeInv, Cl!RejectSignature \/ Cl!Recover \/ Cl!Answer PROVE ClaudeInv'
<1>1. /\ stage \in {"sent", "rejected"} /\ stage' \in {"rejected", "answered"}
      /\ sent' \in BOOLEAN /\ strip' \subseteq strip \cup {cred}
      /\ UNCHANGED <<turn, cred, tried, signed, truth, counts, display, finished,
                     bills, unbilled, weekly>>
  BY DEF Cl!RejectSignature, Cl!Recover, Cl!Answer, Cl!money, Cl!answer, ClaudeInv
<1>2. cred \in ClaudeCreds BY <1>1 DEF ClaudeInv
<1>3. Answering(stage', cred', display', truth', counts', finished')
  BY <1>1 DEF ClaudeInv, Answering
<1> QED BY <1>1, <1>2, <1>3, ClaudeEarly DEF ClaudeInv

LEMMA ClaudeStream == ASSUME ClaudeInv, Cl!Stream PROVE ClaudeInv'
<1>1. /\ stage = "answered" /\ stage' = "streaming"
      /\ display' \in {display, display \cup {cred}}
      /\ UNCHANGED <<turn, cred, tried, signed, sent, strip, truth, counts, finished,
                     bills, unbilled, weekly>>
  BY DEF Cl!Stream, Cl!money
<1>2. /\ counts = Cl!Unseen /\ truth = Cl!Nil /\ display = {} /\ finished = "no"
      /\ cred \in ClaudeCreds
  BY <1>1 DEF ClaudeInv, Answering
<1>3. Agrees(counts, truth) BY <1>2, ClaudeConstants DEF Agrees
<1>4. Answering(stage', cred', display', truth', counts', finished')
  BY <1>1, <1>2, <1>3, ClaudeConstants DEF Answering
<1> QED BY <1>1, <1>2, <1>4, ClaudeEarly DEF ClaudeInv

\* mergeSSEUsage, of an event that leaves out only what has not changed.
LEMMA MergeAgrees ==
  ASSUME NEW c \in Gathering, NEW t \in Account, Agrees(c, t),
         NEW i \in Tokens, NEW o \in Tokens, NEW a \in Tokens,
         t.in <= i, t.out <= o, t.adv <= a, t.adv > 0 => t.out > 0, a > t.adv => o > t.out,
         NEW in \in Tokens, in = i \/ (i = t.in /\ in = 0),
         NEW adv \in Tokens, adv = a \/ (a = t.adv /\ adv = 0),
         NEW d, d = Cl!Merged(c, [in |-> in, out |-> o, adv |-> adv]),
         NEW u, u = [in |-> i, out |-> o, adv |-> a]
  PROVE  d \in Gathering /\ u \in Account /\ Agrees(d, u) /\ (u.adv > 0 => u.out > 0)
         /\ (d.adv > 0 => d.seen)
<1>1. /\ i \in Nat /\ o \in Nat /\ a \in Nat /\ in \in Nat /\ adv \in Nat
      /\ t.in \in Nat /\ t.out \in Nat /\ t.adv \in Nat
      /\ c.in \in Tokens /\ c.out \in Tokens /\ c.adv \in Tokens /\ c.seen \in BOOLEAN
  BY ClaudeConstants DEF Gathering, Account, Tokens
<1>2. c.in = t.in /\ c.out = t.out /\ c.adv = t.adv BY DEF Agrees
<1> DEFINE x == IF in > 0 THEN in ELSE c.in
           y == IF o > 0 THEN o ELSE c.out
           z == IF adv > 0 THEN adv ELSE c.adv
           s == c.seen \/ in + o > 0
<1>3. d = [in |-> x, out |-> y, adv |-> z, seen |-> s] BY DEF Cl!Merged
<1>4. x = i /\ y = o /\ z = a BY <1>1, <1>2
<1>5. a > 0 => o > 0 BY <1>1
<1>6. a > 0 => s BY <1>1, <1>5
<1>7. s \in BOOLEAN BY <1>1
<1> HIDE DEF x, y, z, s
<1>8. /\ d.in = i /\ d.out = o /\ d.adv = a /\ d.seen = s /\ d \in Gathering
  BY <1>3, <1>4, <1>7 DEF Gathering
<1>9. u.in = i /\ u.out = o /\ u.adv = a /\ u \in Account BY DEF Account
<1>10. Agrees(d, u) BY <1>8, <1>9 DEF Agrees
<1>11. (u.adv > 0 => u.out > 0) /\ (d.adv > 0 => d.seen) BY <1>5, <1>6, <1>8, <1>9
<1> QED BY <1>8, <1>9, <1>10, <1>11

LEMMA ClaudeUsage == ASSUME ClaudeInv, Cl!UsageEvent PROVE ClaudeInv'
<1>1. /\ stage = "streaming" /\ display' = display \cup {cred}
      /\ UNCHANGED <<turn, stage, cred, tried, signed, sent, strip, finished,
                     bills, unbilled, weekly>>
  BY DEF Cl!UsageEvent, Cl!money
<1>2. PICK i \in truth.in..MaxUsage, o \in truth.out..MaxUsage, a \in truth.adv..MaxUsage :
        /\ a > truth.adv => o > truth.out
        /\ truth' = [in |-> i, out |-> o, adv |-> a]
        /\ \E in \in {i} \cup (IF i = truth.in THEN {0} ELSE {}),
              adv \in {a} \cup (IF a = truth.adv THEN {0} ELSE {}) :
             counts' = Cl!Merged(counts, [in |-> in, out |-> o, adv |-> adv])
  BY DEF Cl!UsageEvent
<1>3. PICK in \in {i} \cup (IF i = truth.in THEN {0} ELSE {}),
           adv \in {a} \cup (IF a = truth.adv THEN {0} ELSE {}) :
        counts' = Cl!Merged(counts, [in |-> in, out |-> o, adv |-> adv])
  BY <1>2
<1>4. /\ truth \in Account /\ counts \in Gathering /\ Agrees(counts, truth)
      /\ truth.adv > 0 => truth.out > 0
      /\ display \subseteq {cred} /\ finished = "no" /\ cred \in ClaudeCreds
  BY <1>1 DEF ClaudeInv, Answering
<1>5. /\ i \in Tokens /\ o \in Tokens /\ a \in Tokens /\ truth.in <= i /\ truth.out <= o
      /\ truth.adv <= a
  <2>1. truth.in \in Tokens /\ truth.out \in Tokens /\ truth.adv \in Tokens
    BY <1>4 DEF Account
  <2> QED BY <2>1, ClaudeConstants DEF Tokens
<1>6. /\ in \in Tokens /\ adv \in Tokens /\ (in = i \/ (i = truth.in /\ in = 0))
      /\ (adv = a \/ (a = truth.adv /\ adv = 0))
  BY <1>5, ClaudeConstants
<1>7. /\ counts' \in Gathering /\ truth' \in Account /\ Agrees(counts', truth')
      /\ truth'.adv > 0 => truth'.out > 0
      /\ counts'.adv > 0 => counts'.seen
  BY <1>2, <1>3, <1>4, <1>5, <1>6, MergeAgrees
<1>8. Answering(stage', cred', display', truth', counts', finished')
  BY <1>1, <1>4, <1>7 DEF Answering
<1> QED BY <1>1, <1>4, <1>7, <1>8, ClaudeEarly DEF ClaudeInv

LEMMA ClaudeOther == ASSUME ClaudeInv, Cl!OtherEvent \/ Cl!Stop PROVE ClaudeInv'
<1>1. /\ stage = "streaming" /\ display' = display \cup {cred}
      /\ (stage' = stage /\ finished' = finished) \/ (stage' = "settle" /\ finished' = "whole")
      /\ UNCHANGED <<turn, cred, tried, signed, sent, strip, truth, counts,
                     bills, unbilled, weekly>>
  BY DEF Cl!OtherEvent, Cl!Stop, Cl!money
<1>2. cred \in ClaudeCreds /\ display \subseteq {cred} BY <1>1 DEF ClaudeInv, Answering
<1>3. Answering(stage', cred', display', truth', counts', finished')
  BY <1>1 DEF ClaudeInv, Answering
<1> QED BY <1>1, <1>2, <1>3, ClaudeEarly DEF ClaudeInv

LEMMA ClaudeBreak == ASSUME ClaudeInv, Cl!Break PROVE ClaudeInv'
<1>1. /\ stage = "streaming" /\ finished' = "truncated"
      /\ stage' \in IF display = {} THEN {"ready", "done"} ELSE {"settle"}
      /\ UNCHANGED <<turn, cred, tried, signed, sent, strip, truth, counts, display,
                     bills, unbilled, weekly>>
  BY DEF Cl!Break, Cl!money
<1>2. /\ cred \in ClaudeCreds /\ display \subseteq {cred}
      /\ display = {} => ~counts.seen /\ counts = Cl!Unseen
  BY <1>1, ClaudeConstants DEF ClaudeInv, Answering
<1>3. Answering(stage', cred', display', truth', counts', finished')
  BY <1>1, <1>2 DEF ClaudeInv, Answering
<1> QED BY <1>1, <1>2, <1>3, ClaudeEarly DEF ClaudeInv

LEMMA ClaudeWhole == ASSUME ClaudeInv, Cl!Whole PROVE ClaudeInv'
<1>1. /\ stage = "answered" /\ stage' = "settle" /\ display' = display \cup {cred}
      /\ UNCHANGED <<turn, cred, tried, signed, sent, strip, bills, unbilled, weekly>>
  BY DEF Cl!Whole, Cl!money
<1>2. PICK i \in 0..MaxUsage, a \in 0..MaxUsage :
        /\ truth' = [in |-> i, out |-> i, adv |-> IF i = 0 THEN 0 ELSE a]
        /\ \/ counts' = Cl!Merged(Cl!Unseen, truth') /\ finished' = "whole"
           \/ counts' = Cl!Unseen /\ finished' = "truncated"
  BY DEF Cl!Whole
<1>3. display = {} /\ cred \in ClaudeCreds BY <1>1 DEF ClaudeInv, Answering
<1> DEFINE b == IF i = 0 THEN 0 ELSE a
           d == Cl!Merged(Cl!Unseen, [in |-> i, out |-> i, adv |-> b])
           u == [in |-> i, out |-> i, adv |-> b]
<1>4. i \in Tokens /\ b \in Tokens BY ClaudeConstants DEF Tokens
<1>5. i \in Nat /\ b \in Nat /\ (b > 0 => i > 0) BY ClaudeConstants
<1> HIDE DEF b
<1>6. d \in Gathering /\ u \in Account /\ Agrees(d, u) /\ (u.adv > 0 => u.out > 0)
      /\ (d.adv > 0 => d.seen)
  <2>1. Agrees(Cl!Unseen, Cl!Nil) BY ClaudeConstants DEF Agrees
  <2>2. /\ Cl!Nil.in <= i /\ Cl!Nil.out <= i /\ Cl!Nil.adv <= b
        /\ Cl!Nil.adv > 0 => Cl!Nil.out > 0
        /\ b > Cl!Nil.adv => i > Cl!Nil.out
    BY <1>5, ClaudeConstants
  <2> QED BY <1>4, <2>1, <2>2, ClaudeConstants, MergeAgrees
<1>7. truth' = u BY <1>2 DEF b
<1>8. (counts' = d /\ finished' = "whole") \/ (counts' = Cl!Unseen /\ finished' = "truncated")
  BY <1>2, <1>7
<1> HIDE DEF d, u
<1>9. Answering(stage', cred', display', truth', counts', finished')
  BY <1>1, <1>3, <1>6, <1>7, <1>8, ClaudeConstants DEF Answering
<1>10. counts' \in Gathering BY <1>6, <1>8, ClaudeConstants
<1> QED BY <1>1, <1>3, <1>6, <1>7, <1>9, <1>10, ClaudeEarly DEF ClaudeInv

LEMMA ClaudeNext == ASSUME ClaudeInv, Cl!NextTurn PROVE ClaudeInv'
<1>1. /\ stage = "done" /\ turn' = turn + 1 /\ stage' = "ready" /\ cred' = "none" /\ tried' = {}
      /\ signed' \in BOOLEAN /\ sent' = FALSE /\ truth' = Cl!Nil /\ counts' = Cl!Unseen
      /\ display' = {} /\ finished' = "no" /\ UNCHANGED <<strip, bills, unbilled, weekly>>
  BY DEF Cl!NextTurn, Cl!money
<1>2. turn \in Nat /\ Billing(turn, stage, cred, display, counts, bills, unbilled, weekly)
  BY DEF ClaudeInv
<1>3. Answering(stage', cred', display', truth', counts', finished')
  BY <1>1, ClaudeConstants DEF Answering
<1>4. bills \in Seq(Debit) /\ DOMAIN bills = 1..Len(bills) BY <1>2 DEF Billing, Journal
<1>5. \A j \in DOMAIN bills : bills[j].turn \in Nat /\ bills[j].turn <= turn
  <2>1. \A j \in 1..Len(bills) : bills[j] \in Debit BY <1>4
  <2> QED BY <1>2, <1>4, <2>1 DEF Billing, Journal, Debit
<1>6. \A slot \in {"main", "advisor"} : ~Of(bills, turn + 1, slot) /\ <<turn + 1, slot>> \notin unbilled
  <2>1. \A j \in DOMAIN bills : bills[j].turn # turn + 1 BY <1>2, <1>5
  <2>2. ASSUME NEW slot \in {"main", "advisor"}, <<turn + 1, slot>> \in unbilled PROVE FALSE
    <3>1. \A x \in unbilled : x[1] <= turn BY <1>2 DEF Billing, Journal
    <3>2. turn + 1 <= turn BY <2>2, <3>1
    <3> QED BY <1>2, <3>2
  <2> QED BY <2>1, <2>2 DEF Of
<1>7. Journal(turn + 1, bills, unbilled)
  <2>1. \A j \in DOMAIN bills : bills[j].turn <= turn + 1 BY <1>2, <1>5
  <2>2. ASSUME NEW x \in unbilled PROVE x[1] <= turn + 1
    <3>1. x[1] \in Nat /\ x[1] <= turn BY <1>2 DEF Billing, Journal
    <3> QED BY <1>2, <3>1
  <2> QED BY <1>2, <1>6, <2>1, <2>2 DEF Billing, Journal
<1>8. Due(turn, stage, bills, counts) = 0 /\ Due(turn', stage', bills', counts') = 0
  BY <1>1 DEF Due
<1>9. Billing(turn', stage', cred', display', counts', bills', unbilled', weekly')
  BY <1>1, <1>2, <1>6, <1>7, <1>8 DEF Billing
<1>10. turn' \in Nat BY <1>1, <1>2
<1>11. strip' \subseteq ClaudeCreds /\ sent' \in BOOLEAN BY <1>1 DEF ClaudeInv
<1>12. truth' \in Account /\ counts' \in Gathering BY <1>1, ClaudeConstants
<1> QED BY <1>1, <1>3, <1>9, <1>10, <1>11, <1>12 DEF ClaudeInv

\* A charge of a slot that has none yet: it is debited or lost.
LEMMA ClaudeCharge ==
  ASSUME ClaudeInv, NEW slot \in {"main", "advisor"}, NEW tokens \in Nat, Cl!Charge(slot, tokens),
         ~Of(bills, turn, slot), <<turn, slot>> \notin unbilled
  PROVE  /\ Journal(turn, bills', unbilled')
         /\ \A other \in {"main", "advisor"} \ {slot} :
              /\ Of(bills', turn, other) <=> Of(bills, turn, other)
              /\ <<turn, other>> \in unbilled' <=> <<turn, other>> \in unbilled
         /\ \/ /\ Of(bills', turn, slot) /\ unbilled' = unbilled /\ bills' # bills
               /\ SumFunction(Paid(bills')) = SumFunction(Paid(bills)) + tokens
            \/ /\ ~Of(bills', turn, slot) /\ <<turn, slot>> \in unbilled' /\ bills' = bills
         /\ SumFunction(Paid(bills)) \in Nat
<1> DEFINE b == [turn |-> turn, slot |-> slot, tokens |-> tokens]
<1>1. turn \in Nat /\ Journal(turn, bills, unbilled) BY DEF ClaudeInv, Billing
<1>2. b \in Debit /\ b.turn = turn /\ b.slot = slot /\ b.tokens = tokens BY <1>1 DEF Debit
<1>3. \/ bills' = Append(bills, b) /\ unbilled' = unbilled
      \/ unbilled' = unbilled \cup {<<turn, slot>>} /\ bills' = bills
  BY DEF Cl!Charge
<1> HIDE DEF b
<1>4. bills \in Seq(Debit) BY <1>1 DEF Journal
<1>5. SumFunction(Paid(bills)) \in Nat BY <1>2, <1>4, DebitJoins
<1>6. CASE bills' = Append(bills, b) /\ unbilled' = unbilled
  <2>1. /\ bills' \in Seq(Debit)
        /\ \A n, s : Of(bills', n, s) <=> Of(bills, n, s) \/ (b.turn = n /\ b.slot = s)
        /\ SumFunction(Paid(bills')) = SumFunction(Paid(bills)) + b.tokens
        /\ SingleDebits(bills) /\ ~Of(bills, b.turn, b.slot) => SingleDebits(bills')
    BY <1>2, <1>4, <1>6, DebitJoins
  <2>2. \A i \in DOMAIN bills' : bills'[i].turn <= turn
    <3>1. b.turn <= turn /\ \A i \in DOMAIN bills : bills[i].turn <= turn
      BY <1>1, <1>2 DEF Journal
    <3> QED BY <1>1, <1>2, <1>4, <1>6, <3>1, DebitJoins
  <2>3. Of(bills', turn, slot) BY <1>2, <2>1
  <2>4. \A other \in {"main", "advisor"} \ {slot} : Of(bills', turn, other) <=> Of(bills, turn, other)
    BY <1>2, <2>1
  <2>5. \A s \in {"main", "advisor"} : Of(bills', turn, s) => <<turn, s>> \notin unbilled'
    BY <1>1, <1>6, <2>4 DEF Journal
  <2>6. SingleDebits(bills') BY <1>1, <1>2, <2>1 DEF Journal
  <2>7. Journal(turn, bills', unbilled') BY <1>1, <1>6, <2>1, <2>2, <2>5, <2>6 DEF Journal
  <2> QED BY <1>2, <1>5, <1>6, <2>1, <2>3, <2>4, <2>7
<1>7. CASE unbilled' = unbilled \cup {<<turn, slot>>} /\ bills' = bills
  <2>1. <<turn, slot>> \in Nat \X {"main", "advisor"} /\ <<turn, slot>>[1] <= turn BY <1>1
  <2>2. Journal(turn, bills', unbilled') BY <1>1, <1>7, <2>1 DEF Journal
  <2> QED BY <1>5, <1>7, <2>2
<1> QED BY <1>3, <1>6, <1>7

LEMMA ClaudeBills == ASSUME ClaudeInv, Cl!BillTurn PROVE ClaudeInv'
<1>1. /\ stage = "settle" /\ stage' = "advisor"
      /\ UNCHANGED <<turn, cred, tried, signed, sent, strip, truth, counts, display, finished,
                     weekly>>
  BY DEF Cl!BillTurn, Cl!answer
<1>2. /\ Billing(turn, stage, cred, display, counts, bills, unbilled, weekly) /\ turn \in Nat
      /\ Answering(stage, cred, display, truth, counts, finished) /\ counts \in Gathering
  BY DEF ClaudeInv
<1>3. \A slot \in {"main", "advisor"} : ~Of(bills, turn, slot) /\ <<turn, slot>> \notin unbilled
  BY <1>1, <1>2 DEF Billing
<1>4. display = {cred} /\ Answering(stage', cred', display', truth', counts', finished')
  BY <1>1, <1>2 DEF Answering
<1> DEFINE due == Due(turn, "advisor", bills', counts)
<1>5. /\ Journal(turn, bills', unbilled')
      /\ ~Of(bills', turn, "advisor") /\ <<turn, "advisor">> \notin unbilled'
      /\ counts.seen => Of(bills', turn, "main") \/ <<turn, "main">> \in unbilled'
      /\ ~counts.seen => ~Of(bills', turn, "main")
      /\ weekly + due = SumFunction(Paid(bills')) /\ weekly \in Nat
  <2>0. weekly \in Nat /\ weekly = SumFunction(Paid(bills)) BY <1>1, <1>2 DEF Billing, Due
  <2>1. CASE counts.seen
    <3> DEFINE n == counts.in + counts.out
    <3>1. Cl!Charge("main", n) BY <1>1, <2>1 DEF Cl!BillTurn
    <3>2. n \in Nat BY <1>2, ClaudeConstants DEF Gathering, Tokens
    <3> HIDE DEF n
    <3>3. /\ Journal(turn, bills', unbilled')
          /\ Of(bills', turn, "advisor") <=> Of(bills, turn, "advisor")
          /\ <<turn, "advisor">> \in unbilled' <=> <<turn, "advisor">> \in unbilled
          /\ \/ /\ Of(bills', turn, "main")
                /\ SumFunction(Paid(bills')) = SumFunction(Paid(bills)) + n
             \/ /\ ~Of(bills', turn, "main") /\ <<turn, "main">> \in unbilled' /\ bills' = bills
      BY <1>3, <3>1, <3>2, ClaudeCharge
    <3>4. due = IF Of(bills', turn, "main") THEN n ELSE 0 BY DEF Due, n
    <3> HIDE DEF due
    <3>5. weekly + due = SumFunction(Paid(bills')) BY <2>0, <3>2, <3>3, <3>4
    <3> QED BY <1>3, <2>0, <2>1, <3>3, <3>5
  <2>2. CASE ~counts.seen
    <3>1. bills' = bills /\ unbilled' = unbilled BY <2>2 DEF Cl!BillTurn
    <3>2. due = 0 BY <1>3, <3>1 DEF Due
    <3> HIDE DEF due
    <3>3. weekly + due = SumFunction(Paid(bills')) BY <2>0, <3>1, <3>2
    <3> QED BY <1>2, <1>3, <2>0, <2>2, <3>1, <3>3 DEF Billing
  <2> QED BY <2>1, <2>2
<1>6. Billing(turn', stage', cred', display', counts', bills', unbilled', weekly')
  BY <1>1, <1>4, <1>5 DEF Billing
<1> QED BY <1>1, <1>4, <1>6 DEF ClaudeInv

LEMMA ClaudeAdvises == ASSUME ClaudeInv, Cl!BillAdvisor PROVE ClaudeInv'
<1>1. /\ stage = "advisor" /\ stage' = "done"
      /\ UNCHANGED <<turn, cred, tried, signed, sent, strip, truth, counts, display, finished>>
  BY DEF Cl!BillAdvisor, Cl!answer
<1>2. /\ Billing(turn, stage, cred, display, counts, bills, unbilled, weekly) /\ turn \in Nat
      /\ Answering(stage, cred, display, truth, counts, finished) /\ counts \in Gathering
  BY DEF ClaudeInv
<1>3. /\ ~Of(bills, turn, "advisor") /\ <<turn, "advisor">> \notin unbilled
      /\ counts.seen => Of(bills, turn, "main") \/ <<turn, "main">> \in unbilled
      /\ ~counts.seen => ~Of(bills, turn, "main")
  BY <1>1, <1>2 DEF Billing
<1>4. display = {cred} /\ Answering(stage', cred', display', truth', counts', finished')
  BY <1>1, <1>2 DEF Answering
<1> DEFINE n == counts.in + counts.out
           a == counts.adv
           first == IF Of(bills, turn, "main") THEN n ELSE 0
           sub == IF bills' # bills THEN a ELSE 0
<1>5. weekly \in Nat /\ weekly + first = SumFunction(Paid(bills)) /\ first \in Nat /\ a \in Nat
  <2>1. n \in Nat /\ a \in Nat BY <1>2, ClaudeConstants DEF Gathering, Tokens
  <2>2. first = Due(turn, stage, bills, counts) BY <1>1 DEF Due
  <2>3. weekly \in Nat /\ weekly + first = SumFunction(Paid(bills)) BY <1>2, <2>2 DEF Billing
  <2>4. first \in Nat BY <2>1
  <2> QED BY <2>1, <2>3, <2>4
<1>6. weekly' = IF ~counts.seen THEN weekly ELSE weekly + first + sub
  BY BilledIs DEF Cl!BillAdvisor
<1>7. a > 0 => counts.seen BY <1>2 DEF Answering
<1>8. ~counts.seen => first = 0 BY <1>3
<1> HIDE DEF first
<1>9. /\ Journal(turn, bills', unbilled')
      /\ Of(bills', turn, "main") <=> Of(bills, turn, "main")
      /\ <<turn, "main">> \in unbilled' <=> <<turn, "main">> \in unbilled
      /\ a > 0 => Of(bills', turn, "advisor") \/ <<turn, "advisor">> \in unbilled'
      /\ sub \in Nat /\ SumFunction(Paid(bills')) = SumFunction(Paid(bills)) + sub
      /\ ~counts.seen => sub = 0
  <2>1. CASE a > 0
    <3>1. Cl!Charge("advisor", a) BY <2>1 DEF Cl!BillAdvisor
    <3> HIDE DEF a
    <3>2. /\ Journal(turn, bills', unbilled')
          /\ Of(bills', turn, "main") <=> Of(bills, turn, "main")
          /\ <<turn, "main">> \in unbilled' <=> <<turn, "main">> \in unbilled
          /\ \/ /\ Of(bills', turn, "advisor") /\ bills' # bills
                /\ SumFunction(Paid(bills')) = SumFunction(Paid(bills)) + a
             \/ /\ <<turn, "advisor">> \in unbilled' /\ bills' = bills
          /\ SumFunction(Paid(bills)) \in Nat
      BY <1>3, <1>5, <3>1, ClaudeCharge
    <3>3. sub \in Nat /\ SumFunction(Paid(bills')) = SumFunction(Paid(bills)) + sub
      BY <1>5, <3>2
    <3> HIDE DEF sub
    <3> QED BY <1>7, <2>1, <3>2, <3>3
  <2>2. CASE ~(a > 0)
    <3>1. bills' = bills /\ unbilled' = unbilled BY <2>2 DEF Cl!BillAdvisor
    <3>2. sub = 0 BY <3>1
    <3> HIDE DEF sub
    <3>3. SumFunction(Paid(bills)) + sub = SumFunction(Paid(bills')) BY <1>5, <3>1, <3>2
    <3> QED BY <1>2, <2>2, <3>1, <3>2, <3>3 DEF Billing
  <2> QED BY <2>1, <2>2
<1> HIDE DEF sub, a, n
<1>10. weekly' \in Nat /\ weekly' = SumFunction(Paid(bills')) BY <1>5, <1>6, <1>8, <1>9
<1>11. Due(turn, "done", bills', counts) = 0 BY DEF Due
<1>12. weekly' + Due(turn, "done", bills', counts) = SumFunction(Paid(bills'))
  BY <1>10, <1>11
<1>13. counts.adv > 0 => Of(bills', turn, "advisor") \/ <<turn, "advisor">> \in unbilled'
  BY <1>9 DEF a
<1>14. Billing(turn', stage', cred', display', counts', bills', unbilled', weekly')
  BY <1>1, <1>3, <1>4, <1>9, <1>10, <1>12, <1>13 DEF Billing
<1> QED BY <1>1, <1>4, <1>14 DEF ClaudeInv

LEMMA ClaudeStep == ASSUME ClaudeInv, Cl!Next \/ UNCHANGED answer PROVE ClaudeInv'
<1>1. CASE Cl!Next
  <2>1. ASSUME NEW c \in ClaudeCreds, Cl!Begin(c) PROVE ClaudeInv' BY <2>1, ClaudeBegin
  <2>2. CASE Cl!Withhold \/ Cl!PassOn \/ Cl!Exhausted \/ Cl!RejectSignature \/ Cl!Recover
             \/ Cl!Answer
    BY <2>2, ClaudeWithhold, ClaudePassOn, ClaudeExhausted, ClaudeReplies
  <2>3. CASE Cl!Stream \/ Cl!UsageEvent \/ Cl!OtherEvent \/ Cl!Stop \/ Cl!Break \/ Cl!Whole
    BY <2>3, ClaudeStream, ClaudeUsage, ClaudeOther, ClaudeBreak, ClaudeWhole
  <2>4. CASE Cl!BillTurn \/ Cl!BillAdvisor \/ Cl!NextTurn
    BY <2>4, ClaudeBills, ClaudeAdvises, ClaudeNext
  <2> QED BY <1>1, <2>1, <2>2, <2>3, <2>4 DEF Cl!Next
<1>2. CASE UNCHANGED answer
  <2>1. UNCHANGED <<turn, stage, cred, tried, signed, sent, strip, truth, counts, display,
                    finished, bills, unbilled, weekly>>
    BY <1>2 DEF answer
  <2> QED BY <2>1 DEF ClaudeInv
<1> QED BY <1>1, <1>2

LEMMA ClaudeIsHeld == ASSUME ClaudeInv PROVE Cl!ClaudeHolds
<1>0. /\ Answering(stage, cred, display, truth, counts, finished)
      /\ Billing(turn, stage, cred, display, counts, bills, unbilled, weekly)
      /\ counts \in Gathering
  BY DEF ClaudeInv
<1>1. Cl!TypeOK BY DEF ClaudeInv, Cl!TypeOK, Gathering, Tokens
<1>2. Cl!OneAnswer
  <2>1. display \subseteq {cred} \/ display = {"error"}
    <3>1. stage \in {"ready", "sent", "rejected", "answered", "streaming", "settle", "advisor", "done"}
      BY DEF ClaudeInv
    <3> QED BY <1>0, <3>1 DEF Answering
  <2>2. PICK x : display \subseteq {x} BY <2>1
  <2>3. display = {} \/ display = {x} BY <2>2
  <2>4. Cardinality(display) \in {0, 1} BY <2>3, FS_EmptySet, FS_Singleton
  <2>5. Cardinality(display) <= 1 BY <2>4
  <2> QED BY <2>5 DEF Cl!OneAnswer, Cl!Cardinality, Cardinality
<1>3. Cl!UsageIsUpstreams BY <1>0 DEF Answering, Agrees, Cl!UsageIsUpstreams
<1>4. Cl!BilledOnce
  <2>1. bills \in Seq(Debit) /\ DOMAIN bills = 1..Len(bills) BY <1>0 DEF Billing, Journal
  <2>2. \A i, j \in 1..Len(bills) : i # j =>
          bills[i].turn # bills[j].turn \/ bills[i].slot # bills[j].slot
    BY <1>0, <2>1 DEF Billing, Journal, SingleDebits
  <2>3. ASSUME NEW slot \in {"main", "advisor"}, Cl!Billed(slot)
        PROVE  display = {cred} /\ <<turn, slot>> \notin unbilled
    BY <1>0, <2>3, BilledIs DEF Billing, Journal
  <2> QED BY <2>2, <2>3 DEF Cl!BilledOnce
<1>5. Cl!NothingFree BY <1>0, BilledIs DEF Billing, Cl!NothingFree
<1>6. Cl!WeeklyIsWallet
  <2>1. stage \in {"ready", "done"} => weekly = SumFunction(Paid(bills))
    <3>1. SumFunction(Paid(bills)) \in Nat BY <1>0, PaidOf, SumOfSeq DEF Billing, Journal
    <3> QED BY <1>0, <3>1 DEF Billing, Due
  <2>2. \A f : Cl!SumFunction(f) = SumFunction(f)
    BY DEF Cl!SumFunction, Cl!SumFunctionOnSet, Cl!FoldFunction, Cl!FoldFunctionOnSet,
           Cl!MapThenFoldSet, SumFunction, SumFunctionOnSet, FoldFunction, FoldFunctionOnSet,
           MapThenFoldSet
  <2>3. Paid(bills) = [i \in DOMAIN bills |-> bills[i].tokens] BY DEF Paid
  <2> QED BY <2>1, <2>2, <2>3 DEF Cl!WeeklyIsWallet
<1> QED BY <1>1, <1>2, <1>3, <1>4, <1>5, <1>6 DEF Cl!ClaudeHolds

-----------------------------------------------------------------------------
(* The corruption detector.                                                 *)

Recycling == [at : Nat, healed : BOOLEAN]
Page == [at : Nat, first : BOOLEAN]
Raise ==
  [stage : {"idle", "seen", "tripped", "alerting"}, at : Nat, first : BOOLEAN, last : Nat]

\* The incident ends at the recycling j of q: it healed, or a spell followed.
EndsAt(q, j) == q[j].healed \/ (j < Len(q) /\ q[j + 1].at - q[j].at > AttemptReset)

\* The recyclings q of a healer that last tried at t, for the s-th time of its
\* incident: what came before those s ended an incident.
Repaired(q, t, s) ==
  /\ Len(q) > 0 => t # 0 /\ t >= q[Len(q)].at
  /\ s <= MaxRecoverAttempts /\ s < Len(q) => EndsAt(q, Len(q) - s)
  /\ \A i \in 1..Len(q) - 1 : q[i + 1].at - q[i].at >= RecoverCooldown
  /\ \A i \in 1..Len(q) - MaxRecoverAttempts :
       \E j \in i..i + MaxRecoverAttempts - 1 : EndsAt(q, j)

\* The pages p of an operator last paged at t.
Paged(p, t) ==
  /\ Len(p) > 0 => t = p[Len(p)].at
  /\ \A i \in 1..Len(p) - 1 : ~p[i + 1].first => p[i + 1].at - p[i].at >= AlertCooldown

\* A report about to page was out of the cooldown, or trips the latch.
MayPage(q) == q.stage = "alerting" /\ ~q.first => q.at >= q.last + AlertCooldown

IntegrityTypes ==
  /\ instant \in Nat /\ instant >= AlertCooldown
  /\ damaged \in BOOLEAN /\ replaced \subseteq Conns /\ busy \subseteq Conns
  /\ reporter \in [Reporters -> Raise]
  /\ tripped \in BOOLEAN /\ unanswered \in BOOLEAN
  /\ lastAlert \in Nat /\ lastAttempt \in Nat /\ attempts \in 0..MaxRecoverAttempts + 1
  /\ healer \in {"idle", "started", "recycling", "checking", "passed"}
  /\ recycles \in Seq(Recycling) /\ pages \in Seq(Page)

IntegrityInv ==
  /\ IntegrityTypes
  /\ Repaired(recycles, lastAttempt, attempts)
  /\ lastAttempt <= instant
  /\ healer \in {"recycling", "checking", "passed"} => Len(recycles) > 0
  /\ Paged(pages, lastAlert)
  /\ \A r \in Reporters : MayPage(reporter[r])
  /\ healer = "passed" => ~unanswered
  /\ unanswered => tripped

LEMMA IntegrityIsHeld == ASSUME IntegrityInv PROVE In!IntegrityHolds
<1>1. In!TypeOK BY DEF IntegrityInv, IntegrityTypes, Raise, In!TypeOK
<1>2. In!RepairsSpaced BY DEF IntegrityInv, Repaired, In!RepairsSpaced
<1>3. In!BudgetPerIncident BY DEF IntegrityInv, Repaired, EndsAt, In!BudgetPerIncident
<1>4. In!PagesThrottled BY DEF IntegrityInv, Paged, In!PagesThrottled
<1>5. In!ReportsKeepLatch BY DEF IntegrityInv, In!ReportsKeepLatch
<1> QED BY <1>1, <1>2, <1>3, <1>4, <1>5 DEF In!IntegrityHolds

\* What an append keeps of the breaks before it.
LEMMA EndsStay ==
  ASSUME NEW q \in Seq(Recycling), NEW e \in Recycling, NEW j \in 1..Len(q), EndsAt(q, j)
  PROVE  EndsAt(Append(q, e), j)
<1> DEFINE p == Append(q, e)
<1>1. Len(p) = Len(q) + 1 /\ Len(q) \in Nat /\ \A i \in 1..Len(q) : p[i] = q[i] OBVIOUS
<1> HIDE DEF p
<1>2. ASSUME q[j].healed PROVE EndsAt(p, j) BY <1>1, <1>2 DEF EndsAt
<1>3. ASSUME j < Len(q), q[j + 1].at - q[j].at > AttemptReset PROVE EndsAt(p, j)
  <2>1. j + 1 \in 1..Len(q) BY <1>1, <1>3
  <2> QED BY <1>1, <1>3, <2>1 DEF EndsAt
<1>4. EndsAt(p, j) BY <1>2, <1>3 DEF EndsAt
<1> QED BY <1>4 DEF p

\* A recycling at t, out of the cooldown of the last attempt l, after s of the
\* incident: quiet for longer than the reset, or within the budget.
LEMMA RecycledAgain ==
  ASSUME NEW q \in Seq(Recycling), NEW l \in Nat, NEW s \in Nat, NEW t \in Nat, NEW k \in Nat,
         Repaired(q, l, s), l <= t, t # 0, MaxRecoverAttempts \in Nat, AttemptReset \in Nat,
         RecoverCooldown \in Nat,
         l # 0 => t - l >= RecoverCooldown,
         \/ l # 0 /\ t - l > AttemptReset /\ k = 1 /\ MaxRecoverAttempts > 0
         \/ k = s + 1 /\ s < MaxRecoverAttempts
  PROVE  Repaired(Append(q, [at |-> t, healed |-> FALSE]), t, k)
<1> DEFINE n == Len(q)
           e == [at |-> t, healed |-> FALSE]
           p == Append(q, e)
<1>0. e \in Recycling BY DEF Recycling
<1>1. e.at = t OBVIOUS
<1> HIDE DEF e
<1>2. n \in Nat /\ Len(p) = n + 1 /\ p[n + 1] = e /\ \A i \in 1..n : p[i] = q[i]
  BY <1>0
<1>3. \A j \in 1..n : EndsAt(q, j) => EndsAt(p, j) BY <1>0, EndsStay
<1>4. \A i \in 1..n : q[i].at \in Nat
  <2>1. \A i \in 1..n : q[i] \in Recycling OBVIOUS
  <2> QED BY <2>1 DEF Recycling
<1>5. n > 0 => l # 0 /\ l >= q[n].at BY <1>2 DEF Repaired
<1>6. n > 0 => p[n + 1].at - p[n].at >= RecoverCooldown
  <2> SUFFICES ASSUME n > 0 PROVE p[n + 1].at - p[n].at >= RecoverCooldown OBVIOUS
  <2>1. p[n + 1].at = t /\ p[n].at = q[n].at /\ q[n].at \in Nat BY <1>1, <1>2, <1>4
  <2>2. l # 0 /\ l >= q[n].at BY <1>5
  <2>3. t - l >= RecoverCooldown BY <2>2
  <2> HIDE DEF p, n
  <2> QED BY <2>1, <2>2, <2>3
<1>7. \A i \in 1..Len(p) - 1 : p[i + 1].at - p[i].at >= RecoverCooldown
  <2> HIDE DEF p, n
  <2>0. Len(p) - 1 = n BY <1>2
  <2> SUFFICES ASSUME NEW i \in 1..n PROVE p[i + 1].at - p[i].at >= RecoverCooldown BY <2>0
  <2>1. CASE i = n BY <1>2, <1>6, <2>1
  <2>2. CASE i # n
    <3>1. i \in 1..n - 1 /\ i + 1 \in 1..n BY <1>2, <2>2
    <3>2. q[i + 1].at - q[i].at >= RecoverCooldown BY <3>1 DEF Repaired, n
    <3>3. p[i] = q[i] /\ p[i + 1] = q[i + 1] BY <1>2, <3>1
    <3> QED BY <3>2, <3>3
  <2> QED BY <2>1, <2>2
<1>8. k <= MaxRecoverAttempts /\ k < n + 1 => EndsAt(p, n + 1 - k)
  <2> SUFFICES ASSUME k < n + 1 PROVE EndsAt(p, n + 1 - k) OBVIOUS
  <2>1. CASE l # 0 /\ t - l > AttemptReset /\ k = 1
    <3>1. n > 0 /\ n + 1 - k = n BY <1>2, <2>1
    <3>2. p[n + 1].at = t /\ p[n].at = q[n].at /\ q[n].at \in Nat BY <1>1, <1>2, <1>4, <3>1
    <3>3. l >= q[n].at BY <1>5, <3>1
    <3> HIDE DEF p, n
    <3>4. p[n + 1].at - p[n].at > AttemptReset BY <2>1, <3>2, <3>3
    <3>5. n < Len(p) BY <1>2
    <3> QED BY <3>1, <3>4, <3>5 DEF EndsAt
  <2>2. CASE k = s + 1 /\ s < MaxRecoverAttempts
    <3>1. s < n /\ n + 1 - k = n - s /\ n - s \in 1..n BY <1>2, <2>2
    <3>2. EndsAt(q, n - s) BY <2>2, <3>1 DEF Repaired
    <3> QED BY <1>3, <3>1, <3>2
  <2> QED BY <2>1, <2>2
<1>9. ASSUME NEW i \in 1..Len(p) - MaxRecoverAttempts
      PROVE  \E j \in i..i + MaxRecoverAttempts - 1 : EndsAt(p, j)
  <2>0. i \in 1..n + 1 - MaxRecoverAttempts BY <1>2
  <2> HIDE DEF p, n
  <2>1. CASE i \in 1..n - MaxRecoverAttempts
    <3>1. PICK j \in i..i + MaxRecoverAttempts - 1 : EndsAt(q, j) BY <2>1 DEF Repaired, n
    <3>2. j \in 1..n BY <1>2, <2>1, <3>1
    <3> QED BY <1>3, <3>1, <3>2
  <2>2. CASE i = n + 1 - MaxRecoverAttempts /\ l # 0 /\ t - l > AttemptReset /\ k = 1
             /\ MaxRecoverAttempts > 0
    <3>1. n > 0 /\ n \in i..i + MaxRecoverAttempts - 1 BY <1>2, <2>0, <2>2
    <3>2. k <= MaxRecoverAttempts /\ k < n + 1 /\ n + 1 - k = n BY <1>2, <2>2, <3>1
    <3> QED BY <1>8, <3>1, <3>2
  <2>3. CASE i = n + 1 - MaxRecoverAttempts /\ k = s + 1 /\ s < MaxRecoverAttempts
    <3>1. k <= MaxRecoverAttempts /\ k < n + 1 BY <1>2, <2>0, <2>3
    <3>2. n + 1 - k \in i..i + MaxRecoverAttempts - 1 BY <1>2, <2>0, <2>3, <3>1
    <3> QED BY <1>8, <3>1, <3>2
  <2> QED BY <1>2, <2>0, <2>1, <2>2, <2>3
<1>10. t >= p[n + 1].at BY <1>1, <1>2
<1> HIDE DEF p, n
<1>11. Repaired(p, t, k) BY <1>2, <1>7, <1>8, <1>9, <1>10 DEF Repaired
<1> QED BY <1>11 DEF p, e

\* A heal ends the incident of the last recycling.
LEMMA HealedAtLast ==
  ASSUME NEW q \in Seq(Recycling), NEW l \in Nat, NEW s, Repaired(q, l, s), Len(q) > 0,
         MaxRecoverAttempts \in Nat
  PROVE  /\ [q EXCEPT ![Len(q)].healed = TRUE] \in Seq(Recycling)
         /\ Len([q EXCEPT ![Len(q)].healed = TRUE]) = Len(q)
         /\ Repaired([q EXCEPT ![Len(q)].healed = TRUE], l, 0)
<1> DEFINE n == Len(q)
           e == [q[n] EXCEPT !.healed = TRUE]
           p == [q EXCEPT ![n] = e]
<1>1. n \in Nat /\ n \in 1..n /\ q[n] \in Recycling OBVIOUS
<1>2. e \in Recycling /\ e.at = q[n].at /\ e.healed BY <1>1 DEF Recycling
<1> HIDE DEF e
<1>3. p \in Seq(Recycling) /\ Len(p) = n /\ p[n] = e /\ \A i \in 1..n : i # n => p[i] = q[i]
  BY <1>1, <1>2
<1> HIDE DEF p, n
<1>4. \A i \in 1..n : p[i].at = q[i].at /\ (q[i].healed => p[i].healed) BY <1>2, <1>3
<1>5. \A j \in 1..n : EndsAt(q, j) => EndsAt(p, j)
  <2> SUFFICES ASSUME NEW j \in 1..n, EndsAt(q, j) PROVE EndsAt(p, j) OBVIOUS
  <2>1. CASE q[j].healed BY <1>4, <2>1 DEF EndsAt
  <2>2. CASE j < n /\ q[j + 1].at - q[j].at > AttemptReset
    <3>1. j + 1 \in 1..n BY <1>1, <2>2
    <3> QED BY <1>3, <1>4, <2>2, <3>1 DEF EndsAt
  <2> QED BY <2>1, <2>2 DEF EndsAt, n
<1>6. EndsAt(p, n - 0)
  <2>1. n - 0 = n BY <1>1
  <2> QED BY <1>2, <1>3, <2>1 DEF EndsAt
<1>7. ASSUME NEW i \in 1..n - 1 PROVE p[i + 1].at - p[i].at >= RecoverCooldown
  <2>1. i \in 1..n /\ i + 1 \in 1..n BY <1>1
  <2>2. q[i + 1].at - q[i].at >= RecoverCooldown BY DEF Repaired, n
  <2> QED BY <1>4, <2>1, <2>2
<1>8. ASSUME NEW i \in 1..n - MaxRecoverAttempts
      PROVE  \E j \in i..i + MaxRecoverAttempts - 1 : EndsAt(p, j)
  <2>1. PICK j \in i..i + MaxRecoverAttempts - 1 : EndsAt(q, j) BY DEF Repaired, n
  <2>2. j \in 1..n BY <1>1, <2>1
  <2> QED BY <1>5, <2>1, <2>2
<1>9. l # 0 /\ l >= p[n].at BY <1>1, <1>4 DEF Repaired, n
<1>10. Repaired(p, l, 0) BY <1>3, <1>6, <1>7, <1>8, <1>9 DEF Repaired
<1>11. [q EXCEPT ![Len(q)].healed = TRUE] = p BY DEF p, e, n
<1> QED BY <1>3, <1>10, <1>11 DEF n

LEMMA PagedAgain ==
  ASSUME NEW p \in Seq(Page), NEW l, Paged(p, l), NEW t \in Nat, NEW f \in BOOLEAN,
         ~f => t >= l + AlertCooldown, AlertCooldown \in Nat
  PROVE  /\ Append(p, [at |-> t, first |-> f]) \in Seq(Page)
         /\ Paged(Append(p, [at |-> t, first |-> f]), t)
<1> DEFINE n == Len(p)
           e == [at |-> t, first |-> f]
           r == Append(p, e)
<1>1. e \in Page BY DEF Page
<1>2. e.at = t /\ e.first = f OBVIOUS
<1> HIDE DEF e
<1>3. n \in Nat /\ r \in Seq(Page) /\ Len(r) = n + 1 /\ r[n + 1] = e
      /\ \A i \in 1..n : r[i] = p[i] /\ p[i] \in Page
  BY <1>1
<1> HIDE DEF r, n
<1>4. ASSUME NEW i \in 1..n, ~r[i + 1].first PROVE r[i + 1].at - r[i].at >= AlertCooldown
  <2>1. CASE i = n
    <3>1. l = p[n].at /\ p[n].at \in Nat BY <1>3, <2>1 DEF Paged, Page, n
    <3>2. ~f /\ r[n + 1].at = t /\ r[n].at = p[n].at BY <1>2, <1>3, <1>4, <2>1
    <3> QED BY <2>1, <3>1, <3>2
  <2>2. CASE i # n
    <3>1. i \in 1..n - 1 /\ i \in 1..n /\ i + 1 \in 1..n BY <1>3, <2>2
    <3>2. ~p[i + 1].first BY <1>3, <1>4, <3>1
    <3>3. p[i + 1].at - p[i].at >= AlertCooldown BY <3>1, <3>2 DEF Paged, n
    <3> QED BY <1>3, <3>1, <3>3
  <2> QED BY <2>1, <2>2
<1>5. Paged(r, t) BY <1>2, <1>3, <1>4 DEF Paged
<1> QED BY <1>3, <1>5 DEF r, e

LEMMA IntegrityInit == ASSUME In!Init PROVE IntegrityInv
<1> USE ServerAssumption DEF In!IntegrityAssumption
<1>1. In!Quiet \in Raise /\ MayPage(In!Quiet) BY DEF In!Quiet, Raise, MayPage
<1>6. attempts \in 0..MaxRecoverAttempts + 1 /\ lastAlert \in Nat /\ lastAttempt \in Nat
      /\ instant \in Nat /\ instant >= AlertCooldown
  BY DEF In!Init
<1>7. recycles \in Seq(Recycling) /\ pages \in Seq(Page) BY DEF In!Init
<1>2. IntegrityTypes BY <1>1, <1>6, <1>7 DEF In!Init, IntegrityTypes
<1>3. Len(recycles) = 0 /\ Len(pages) = 0 /\ attempts = 0 /\ lastAttempt = 0 BY DEF In!Init
<1>4. Repaired(recycles, lastAttempt, attempts) BY <1>3 DEF Repaired
<1>5. Paged(pages, lastAlert) BY <1>3 DEF Paged
<1> QED BY <1>1, <1>2, <1>3, <1>4, <1>5 DEF In!Init, IntegrityInv

LEMMA IntegrityStep == ASSUME IntegrityInv, In!Next \/ UNCHANGED integrity PROVE IntegrityInv'
<1> USE DEF IntegrityInv
<1>0. RecoverCooldown \in Nat /\ MaxRecoverAttempts \in Nat /\ AttemptReset \in Nat
      /\ AlertCooldown \in Nat /\ AlertCooldown > 0
  BY ServerAssumption DEF In!IntegrityAssumption
<1>1. ASSUME UNCHANGED <<reporter, tripped, lastAlert, healer, lastAttempt, attempts, recycles,
                         pages, unanswered>>,
             instant' \in Nat, instant' >= instant, damaged' \in BOOLEAN,
             replaced' \subseteq Conns, busy' \subseteq Conns
      PROVE  IntegrityInv'
  <2>1. IntegrityTypes' BY <1>0, <1>1 DEF IntegrityTypes
  <2>2. lastAttempt' <= instant' BY <1>1 DEF IntegrityTypes
  <2> QED BY <1>1, <2>1, <2>2
<1>2. CASE In!Unlink \/ In!Damage \/ In!Tick
  <2>1. instant \in Nat /\ replaced \subseteq Conns /\ busy \subseteq Conns /\ damaged \in BOOLEAN
    BY DEF IntegrityTypes
  <2>2. CASE In!Unlink BY <1>1, <2>1, <2>2 DEF In!Unlink, In!repair
  <2>3. CASE In!Damage BY <1>1, <2>1, <2>3 DEF In!Damage, In!repair
  <2>4. CASE In!Tick BY <1>1, <2>1, <2>4 DEF In!Tick, In!repair, In!pool
  <2> QED BY <1>2, <2>2, <2>3, <2>4
<1>3. ASSUME NEW c \in Conns, In!Borrow(c) \/ In!Return(c) PROVE IntegrityInv'
  <2>1. instant \in Nat /\ replaced \subseteq Conns /\ busy \subseteq Conns /\ damaged \in BOOLEAN
    BY DEF IntegrityTypes
  <2>2. replaced' \subseteq Conns /\ busy' \subseteq Conns
    BY <1>3, <2>1 DEF In!Borrow, In!Return
  <2> QED BY <1>1, <1>3, <2>1, <2>2 DEF In!Borrow, In!Return, In!repair
<1>4. ASSUME NEW r \in Reporters, NEW q \in Raise, reporter' = [reporter EXCEPT ![r] = q],
             MayPage(q), UNCHANGED <<instant, In!pool, tripped, lastAlert, In!repair, pages, unanswered>>
      PROVE  IntegrityInv'
  <2>1. IntegrityTypes' BY <1>4 DEF IntegrityTypes, In!pool, In!repair
  <2>2. \A s \in Reporters : MayPage(reporter'[s]) BY <1>4 DEF IntegrityTypes
  <2> QED BY <1>4, <2>1, <2>2 DEF In!repair
<1>5. ASSUME NEW r \in Reporters, NEW c \in Conns, In!Observe(r, c) PROVE IntegrityInv'
  <2> DEFINE q == [In!Quiet EXCEPT !.stage = "seen", !.at = instant]
  <2>1. q \in Raise /\ q.stage = "seen" BY DEF IntegrityTypes, Raise, In!Quiet
  <2>2. reporter' = [reporter EXCEPT ![r] = q]
        /\ UNCHANGED <<instant, In!pool, tripped, lastAlert, In!repair, pages, unanswered>>
    BY <1>5 DEF In!Observe
  <2> HIDE DEF q
  <2> QED BY <1>4, <2>1, <2>2 DEF MayPage
<1>6. ASSUME NEW r \in Reporters, In!Trip(r) PROVE IntegrityInv'
  <2> DEFINE q == [reporter[r] EXCEPT !.stage = "tripped", !.first = ~tripped]
  <2>0. reporter[r] \in Raise /\ tripped \in BOOLEAN BY DEF IntegrityTypes
  <2>1. q \in Raise /\ q.stage = "tripped" BY <2>0 DEF Raise
  <2>2. reporter' = [reporter EXCEPT ![r] = q] BY <1>6 DEF In!Trip
  <2>3. /\ tripped' = TRUE /\ UNCHANGED <<instant, In!pool, lastAlert, lastAttempt, attempts, recycles, pages>>
        /\ (healer = "idle" /\ healer' = "started") \/ (healer # "idle" /\ healer' = healer)
    BY <1>6 DEF In!Trip
  <2>7. unanswered' = (unanswered \/ healer # "passed") /\ unanswered \in BOOLEAN
    BY <1>6 DEF In!Trip, IntegrityTypes
  <2>6. unanswered' \in BOOLEAN /\ (healer = "passed" => unanswered' = unanswered)
    BY <2>7
  <2> HIDE DEF q
  <2>4. IntegrityTypes' BY <2>1, <2>2, <2>3, <2>6 DEF IntegrityTypes, In!pool
  <2>5. \A s \in Reporters : MayPage(reporter'[s]) BY <2>1, <2>2 DEF IntegrityTypes, MayPage
  <2> QED BY <2>3, <2>4, <2>5, <2>6
<1>7. ASSUME NEW r \in Reporters, In!LoadLastAlert(r) PROVE IntegrityInv'
  <2> DEFINE muted == ~reporter[r].first /\ reporter[r].at < lastAlert + AlertCooldown
             q == [reporter[r] EXCEPT !.stage = "alerting", !.last = lastAlert]
  <2>0. reporter[r] \in Raise /\ lastAlert \in Nat BY DEF IntegrityTypes
  <2>1. q \in Raise /\ q.first = reporter[r].first /\ q.at = reporter[r].at /\ q.last = lastAlert
    BY <2>0 DEF Raise
  <2>2. UNCHANGED <<instant, In!pool, tripped, lastAlert, In!repair, pages, unanswered>>
    BY <1>7 DEF In!LoadLastAlert
  <2>3. CASE muted
    <3>1. reporter' = [reporter EXCEPT ![r] = In!Quiet] BY <1>7, <2>3 DEF In!LoadLastAlert
    <3>2. In!Quiet \in Raise /\ MayPage(In!Quiet) BY DEF In!Quiet, Raise, MayPage
    <3> QED BY <1>4, <2>2, <3>1, <3>2
  <2>4. CASE ~muted
    <3>1. reporter' = [reporter EXCEPT ![r] = q] BY <1>7, <2>4 DEF In!LoadLastAlert
    <3>2. ~reporter[r].first => reporter[r].at >= lastAlert + AlertCooldown
      BY <1>0, <2>0, <2>4 DEF Raise
    <3> HIDE DEF q
    <3>3. MayPage(q) BY <2>1, <3>2 DEF MayPage
    <3> QED BY <1>4, <2>1, <2>2, <3>1, <3>3
  <2> QED BY <2>3, <2>4
<1>8. ASSUME NEW r \in Reporters, In!Alert(r) PROVE IntegrityInv'
  <2>0. reporter[r] \in Raise /\ lastAlert \in Nat BY DEF IntegrityTypes
  <2>1. reporter[r].stage = "alerting" /\ reporter' = [reporter EXCEPT ![r] = In!Quiet]
        /\ UNCHANGED <<instant, In!pool, tripped, In!repair, unanswered>>
    BY <1>8 DEF In!Alert
  <2>2. In!Quiet \in Raise /\ MayPage(In!Quiet) BY DEF In!Quiet, Raise, MayPage
  <2>3. CASE lastAlert = reporter[r].last
    <3> DEFINE t == reporter[r].at
               f == reporter[r].first
    <3>1. lastAlert' = t /\ pages' = Append(pages, [at |-> t, first |-> f]) BY <1>8, <2>3 DEF In!Alert
    <3>2. t \in Nat /\ f \in BOOLEAN BY <2>0 DEF Raise
    <3>3. ~f => t >= lastAlert + AlertCooldown BY <2>1, <2>3 DEF MayPage
    <3> HIDE DEF t, f
    <3>4. pages' \in Seq(Page) /\ Paged(pages', lastAlert')
      BY <1>0, <3>1, <3>2, <3>3, PagedAgain DEF IntegrityTypes
    <3>5. IntegrityTypes' BY <2>1, <2>2, <3>1, <3>2, <3>4 DEF IntegrityTypes, In!pool, In!repair
    <3>6. \A s \in Reporters : MayPage(reporter'[s]) BY <2>1, <2>2 DEF IntegrityTypes
    <3> QED BY <2>1, <3>4, <3>5, <3>6 DEF In!repair
  <2>4. CASE lastAlert # reporter[r].last
    <3>1. UNCHANGED <<lastAlert, pages>> BY <1>8, <2>4 DEF In!Alert
    <3> QED BY <1>4, <2>1, <2>2, <3>1
  <2> QED BY <2>3, <2>4
<1>9. CASE In!StartRecovery
  <2>0. lastAttempt \in Nat /\ instant \in Nat /\ attempts \in Nat /\ lastAttempt <= instant
        /\ instant # 0 /\ recycles \in Seq(Recycling)
        /\ attempts <= MaxRecoverAttempts + 1
    BY <1>0 DEF IntegrityTypes
  <2>1. UNCHANGED <<instant, damaged, busy, unlinks, reporter, tripped, lastAlert, pages, unanswered>>
        /\ replaced' \subseteq Conns
    BY <1>9 DEF In!StartRecovery, IntegrityTypes
  <2>2. CASE In!Throttled /\ healer' = "idle" /\ UNCHANGED <<lastAttempt, attempts, recycles>>
    <3>1. IntegrityTypes' BY <2>1, <2>2 DEF IntegrityTypes
    <3> QED BY <2>1, <2>2, <3>1
  <2>3. CASE ~In!Throttled /\ lastAttempt' = instant /\ In!Spent
             /\ attempts' = MaxRecoverAttempts + 1 /\ healer' = "idle" /\ recycles' = recycles
    <3>1. IntegrityTypes' BY <1>0, <2>0, <2>1, <2>3 DEF IntegrityTypes
    <3>2. lastAttempt' <= instant' BY <2>0, <2>1, <2>3
    <3>3. Len(recycles) > 0 => instant >= recycles[Len(recycles)].at
      <4> SUFFICES ASSUME Len(recycles) > 0 PROVE instant >= recycles[Len(recycles)].at OBVIOUS
      <4>1. lastAttempt >= recycles[Len(recycles)].at BY DEF Repaired
      <4>2. recycles[Len(recycles)] \in Recycling BY <2>0
      <4>3. recycles[Len(recycles)].at \in Nat BY <4>2 DEF Recycling
      <4> QED BY <2>0, <4>1, <4>3
    <3>4. Repaired(recycles, instant, MaxRecoverAttempts + 1)
      BY <1>0, <2>0, <3>3 DEF Repaired
    <3> QED BY <2>1, <2>3, <3>1, <3>2, <3>4
  <2>4. CASE ~In!Throttled /\ lastAttempt' = instant /\ ~In!Spent /\ healer' = "recycling"
             /\ attempts' = (IF In!Quieted THEN 1 ELSE attempts + 1)
             /\ recycles' = Append(recycles, [at |-> instant, healed |-> FALSE])
    <3>1. lastAttempt # 0 => instant - lastAttempt >= RecoverCooldown
      BY <1>0, <2>0, <2>4 DEF In!Throttled
    <3>2. \/ lastAttempt # 0 /\ instant - lastAttempt > AttemptReset /\ attempts' = 1 /\ MaxRecoverAttempts > 0
          \/ attempts' = attempts + 1 /\ attempts < MaxRecoverAttempts
      BY <1>0, <2>0, <2>4 DEF In!Quieted, In!Spent
    <3>3. attempts' \in Nat /\ attempts' <= MaxRecoverAttempts + 1 BY <1>0, <2>0, <3>2
    <3>4. Repaired(recycles', lastAttempt', attempts')
      BY <1>0, <2>0, <2>4, <3>1, <3>2, <3>3, RecycledAgain
    <3>5. recycles' \in Seq(Recycling) /\ Len(recycles') > 0
      <4> DEFINE e == [at |-> instant, healed |-> FALSE]
      <4>1. e \in Recycling BY <2>0 DEF Recycling
      <4> HIDE DEF e
      <4>2. Append(recycles, e) \in Seq(Recycling) /\ Len(Append(recycles, e)) > 0 BY <2>0, <4>1
      <4> QED BY <2>4, <4>2 DEF e
    <3>6. attempts' \in 0..MaxRecoverAttempts + 1 BY <1>0, <3>3
    <3>7. IntegrityTypes' BY <2>0, <2>1, <2>4, <3>5, <3>6 DEF IntegrityTypes
    <3>8. lastAttempt' <= instant' BY <2>0, <2>1, <2>4
    <3>9. healer' # "passed" BY <2>4
    <3> QED BY <2>1, <3>4, <3>5, <3>7, <3>8, <3>9
  <2> QED BY <1>9, <2>2, <2>3, <2>4 DEF In!StartRecovery
<1>10. CASE In!EndGrace
  <2>1. IntegrityTypes' BY <1>10 DEF In!EndGrace, IntegrityTypes
  <2> QED BY <1>10, <2>1 DEF In!EndGrace
<1>11. ASSUME NEW c \in Conns, In!QuickCheck(c) PROVE IntegrityInv'
  <2> DEFINE fails == In!Fails(c)
  <2>1. /\ healer = "checking"
        /\ (fails /\ healer' = "idle") \/ (~fails /\ healer' = "passed")
        /\ UNCHANGED <<instant, In!pool, reporter, tripped, lastAlert, lastAttempt, attempts, recycles, pages>>
    BY <1>11 DEF In!QuickCheck
  <2>2. unanswered' = (unanswered /\ fails) /\ unanswered \in BOOLEAN
    BY <1>11 DEF In!QuickCheck, IntegrityTypes
  <2> HIDE DEF fails
  <2>3. unanswered' \in BOOLEAN /\ (healer' = "passed" => ~unanswered') /\ (unanswered' => unanswered)
    BY <2>1, <2>2
  <2>4. IntegrityTypes' BY <2>1, <2>3 DEF IntegrityTypes, In!pool
  <2> QED BY <2>1, <2>3, <2>4
<1>12. CASE In!Heal
  <2>1. healer = "passed" /\ healer' = "idle" /\ attempts' = 0 /\ tripped' = FALSE
        /\ recycles' = [recycles EXCEPT ![Len(recycles)].healed = TRUE]
        /\ UNCHANGED <<instant, In!pool, reporter, lastAlert, lastAttempt, pages, unanswered>>
    BY <1>12 DEF In!Heal
  <2>2. recycles' \in Seq(Recycling) /\ Repaired(recycles', lastAttempt, 0)
    BY <1>0, <2>1, HealedAtLast DEF IntegrityTypes
  <2>4. attempts' \in 0..MaxRecoverAttempts + 1 BY <1>0, <2>1
  <2>3. IntegrityTypes' BY <2>1, <2>2, <2>4 DEF IntegrityTypes, In!pool
  <2> QED BY <2>1, <2>2, <2>3
<1>13. CASE UNCHANGED integrity
  BY <1>13 DEF integrity, IntegrityTypes
<1> QED BY <1>2, <1>3, <1>5, <1>6, <1>7, <1>8, <1>9, <1>10, <1>11, <1>12, <1>13 DEF In!Next

-----------------------------------------------------------------------------
(* The daily snapshots.                                                     *)

Snapshot == [day : Nat, at : Nat, whole : BOOLEAN]

\* Day d can be gone back to, or Keep files are of days after it.
Restorable(q, d) ==
  \/ \E s \in q : s.day = d /\ s.whole
  \/ Cardinality({s \in q : s.day > d}) >= Keep

\* One file a day, in the order of the days.
Dated(q) ==
  \A s, t \in q : (s.day = t.day => s = t) /\ (s.day < t.day => s.at < t.at)

SnapshotsInv ==
  /\ day \in Nat /\ clock \in Nat
  /\ runner \in {"off", "due", "vacuum", "prune", "waiting"}
  /\ snapshots \subseteq Snapshot /\ IsFiniteSet(snapshots) /\ Dated(snapshots)
  /\ \A s \in snapshots : s.day <= day /\ s.at <= clock
  /\ done \subseteq Nat /\ \A d \in done : d <= day /\ Restorable(snapshots, d)
  /\ runner = "vacuum" =>
       /\ [day |-> day, at |-> clock, whole |-> FALSE] \in snapshots
       /\ {s \in before : s.day # day} \subseteq snapshots

LEMMA SnapshotCount == \A q : Sn!Cardinality(q) = Cardinality(q)
BY DEF Sn!Cardinality, Cardinality

\* An injection between finite sets of files.
LEMMA NotFewer ==
  ASSUME NEW q, NEW r, IsFiniteSet(r), NEW f \in [q -> r],
         \A s, t \in q : f[s] = f[t] => s = t
  PROVE  Cardinality(q) \in Nat /\ Cardinality(r) \in Nat /\ Cardinality(q) <= Cardinality(r)
<1>1. f \in Injection(q, r) BY DEF Injection, IsInjective
<1> QED BY <1>1, FS_Injection, FS_CardinalityType

\* The k newest of the files there are k of.
LEMMA NewestAreKept ==
  ASSUME NEW q, IsFiniteSet(q), \A s \in q : s.at \in Nat, \A s, t \in q : s.at = t.at => s = t,
         NEW k \in Nat, k <= Cardinality(q)
  PROVE  Cardinality({s \in q : Cardinality({x \in q : x.at >= s.at}) <= k}) >= k
<1> DEFINE newer(s) == {x \in q : x.at >= s.at}
           n == Cardinality(q)
           rank == [s \in q |-> Cardinality(newer(s))]
           kept == {s \in q : Cardinality(newer(s)) <= k}
<1>1. n \in Nat BY FS_CardinalityType
<1>2. ASSUME NEW s \in q PROVE /\ IsFiniteSet(newer(s)) /\ rank[s] \in 1..n
                               /\ rank[s] = Cardinality(newer(s))
  <2>1. newer(s) \in SUBSET q /\ s \in newer(s) OBVIOUS
  <2> HIDE DEF newer, n
  <2>2. IsFiniteSet(newer(s)) /\ Cardinality(newer(s)) <= n BY <2>1, FS_Subset DEF n
  <2>3. Cardinality(newer(s)) \in Nat /\ Cardinality(newer(s)) # 0
    BY <2>1, <2>2, FS_CardinalityType, FS_EmptySet
  <2>4. rank[s] = Cardinality(newer(s)) OBVIOUS
  <2> QED BY <1>1, <2>2, <2>3, <2>4
<1>3. ASSUME NEW s \in q, NEW t \in q, s.at < t.at PROVE rank[s] # rank[t]
  <2>1. newer(t) \in SUBSET newer(s) /\ s \in newer(s) /\ s \notin newer(t) BY <1>3
  <2> HIDE DEF newer
  <2>2. newer(s) # newer(t) /\ IsFiniteSet(newer(s)) BY <1>2, <2>1
  <2>3. Cardinality(newer(s)) # Cardinality(newer(t)) BY <2>1, <2>2, FS_Subset
  <2> QED BY <1>2, <2>3
<1>4. rank \in Injection(q, 1..n)
  <2>1. \A s, t \in q : rank[s] = rank[t] => s = t
    <3> SUFFICES ASSUME NEW s \in q, NEW t \in q, s # t PROVE rank[s] # rank[t] OBVIOUS
    <3>1. s.at # t.at /\ s.at \in Nat /\ t.at \in Nat OBVIOUS
    <3>2. s.at < t.at \/ t.at < s.at BY <3>1
    <3> HIDE DEF rank
    <3> QED BY <1>3, <3>2
  <2>2. rank \in [q -> 1..n] BY <1>2
  <2> HIDE DEF rank, n
  <2> QED BY <2>1, <2>2 DEF Injection, IsInjective
<1>5. IsFiniteSet(1..n) /\ Cardinality(1..n) = n
  <2> HIDE DEF n
  <2>1. n \in Int /\ 1 \in Int BY <1>1
  <2>2. IsFiniteSet(1..n) /\ Cardinality(1..n) = IF 1 > n THEN 0 ELSE n - 1 + 1 BY <2>1, FS_Interval
  <2> QED BY <1>1, <2>2
<1>6. rank \in Surjection(q, 1..n)
  <2> HIDE DEF rank
  <2> QED BY <1>4, <1>5, FS_Injection
<1>7. \A s \in kept : rank[s] \in 1..k
  <2> SUFFICES ASSUME NEW s \in q, Cardinality(newer(s)) <= k PROVE rank[s] \in 1..k OBVIOUS
  <2> HIDE DEF newer, rank, n
  <2> QED BY <1>1, <1>2
<1>8. \A j \in 1..k : \E s \in kept : rank[s] = j
  <2> SUFFICES ASSUME NEW j \in 1..k PROVE \E s \in kept : rank[s] = j OBVIOUS
  <2>1. j \in 1..n BY <1>1
  <2>2. PICK s \in q : rank[s] = j
    <3> HIDE DEF rank, n
    <3> QED BY <1>6, <2>1 DEF Surjection
  <2>3. Cardinality(newer(s)) <= k BY <2>2
  <2> QED BY <2>2, <2>3
<1> DEFINE f == [s \in kept |-> rank[s]]
<1>9. IsFiniteSet(kept) BY FS_Subset
<1>10. f \in [kept -> 1..k] /\ \A j \in 1..k : \E s \in kept : f[s] = j
  <2> HIDE DEF rank, kept
  <2> QED BY <1>7, <1>8
<1>11. f \in Surjection(kept, 1..k)
  <2> HIDE DEF f, kept
  <2> QED BY <1>10 DEF Surjection
<1>12. IsFiniteSet(1..k) /\ Cardinality(1..k) = k
  <2>1. k \in Int /\ 1 \in Int OBVIOUS
  <2>2. IsFiniteSet(1..k) /\ Cardinality(1..k) = IF 1 > k THEN 0 ELSE k - 1 + 1 BY <2>1, FS_Interval
  <2> QED BY <2>2
<1>13. Cardinality(kept) >= k
  <2> HIDE DEF f, kept
  <2> QED BY <1>9, <1>11, <1>12, FS_Surjection, FS_CardinalityType
<1> QED BY <1>13

LEMMA SnapshotsAreHeld == ASSUME SnapshotsInv PROVE Sn!SnapshotsHold
<1> USE DEF SnapshotsInv
<1>1. Sn!TypeOK BY DEF Sn!TypeOK, Dated
<1>2. Sn!OlderSurviveRun BY DEF Sn!OlderSurviveRun
<1>3. ASSUME NEW d \in done, Cardinality(snapshots \ Sn!Whole) < Keep, Sn!Whole = {}
      PROVE  FALSE
  <2>1. snapshots \ Sn!Whole = snapshots /\ \A s \in snapshots : ~s.whole BY <1>3 DEF Sn!Whole
  <2>2. Cardinality({s \in snapshots : s.day > d}) >= Keep BY <2>1 DEF Restorable
  <2>3. {s \in snapshots : s.day > d} \in SUBSET snapshots OBVIOUS
  <2>4. /\ Cardinality({s \in snapshots : s.day > d}) <= Cardinality(snapshots)
        /\ Cardinality({s \in snapshots : s.day > d}) \in Nat /\ Cardinality(snapshots) \in Nat
    BY <2>3, FS_Subset, FS_CardinalityType
  <2>5. Keep \in Nat BY ServerAssumption DEF Sn!SnapshotsAssumption
  <2> QED BY <1>3, <2>1, <2>2, <2>4, <2>5
<1>4. Sn!SomeDayRestorable BY <1>3, SnapshotCount DEF Sn!SomeDayRestorable
<1> QED BY <1>1, <1>2, <1>4 DEF Sn!SnapshotsHold

LEMMA SnapshotsInit == ASSUME Sn!Init PROVE SnapshotsInv
BY FS_EmptySet DEF Sn!Init, SnapshotsInv, Dated

\* A new file takes the place of the one of its day.
LEMMA FileOfToday == ASSUME SnapshotsInv, Sn!SnapshotTo PROVE SnapshotsInv'
<1> DEFINE e == [day |-> day, at |-> clock + 1, whole |-> FALSE]
           rest == {s \in snapshots : s.day # day}
<1>1. day \in Nat /\ clock \in Nat /\ snapshots \subseteq Snapshot /\ IsFiniteSet(snapshots)
      /\ Dated(snapshots) /\ (\A s \in snapshots : s.day <= day /\ s.at <= clock)
      /\ done \subseteq Nat /\ (\A d \in done : d <= day /\ Restorable(snapshots, d))
  BY DEF SnapshotsInv
<1>2. /\ before' = Sn!Whole /\ clock' = clock + 1 /\ snapshots' = rest \cup {e}
      /\ done' = done \ {day} /\ runner' = "vacuum" /\ day' = day
  BY DEF Sn!SnapshotTo
<1>3. e \in Snapshot /\ e.day = day /\ e.at = clock + 1 BY <1>1 DEF Snapshot
<1>4. [day |-> day', at |-> clock', whole |-> FALSE] = e BY <1>2
<1> HIDE DEF e
<1>5. \A s \in snapshots' : (s \in rest /\ s \in snapshots /\ s.day # day) \/ s = e BY <1>2
<1>6. \A s \in snapshots : s.day \in Nat /\ s.at \in Nat BY <1>1 DEF Snapshot
<1>7. snapshots' \subseteq Snapshot BY <1>1, <1>3, <1>5
<1>8. IsFiniteSet(snapshots')
  <2>1. rest \in SUBSET snapshots OBVIOUS
  <2>2. IsFiniteSet(rest) BY <1>1, <2>1, FS_Subset
  <2> QED BY <1>2, <2>2, FS_AddElement
<1>9. Dated(snapshots')
  <2> SUFFICES ASSUME NEW s \in snapshots', NEW t \in snapshots'
               PROVE  (s.day = t.day => s = t) /\ (s.day < t.day => s.at < t.at)
    BY DEF Dated
  <2> HIDE DEF rest
  <2>1. CASE s = e /\ t = e BY <1>1, <1>3, <2>1
  <2>2. CASE s = e /\ t # e
    <3>1. t \in snapshots /\ t.day # day /\ t.day <= day /\ t.day \in Nat BY <1>1, <1>5, <1>6, <2>2
    <3> QED BY <1>1, <1>3, <2>2, <3>1
  <2>3. CASE s # e /\ t = e
    <3>1. s \in snapshots /\ s.day # day /\ s.at <= clock /\ s.at \in Nat BY <1>1, <1>5, <1>6, <2>3
    <3> QED BY <1>1, <1>3, <2>3, <3>1
  <2>4. CASE s # e /\ t # e
    <3>1. s \in snapshots /\ t \in snapshots BY <1>5, <2>4
    <3> QED BY <1>1, <3>1 DEF Dated
  <2> QED BY <2>1, <2>2, <2>3, <2>4
<1>10. \A s \in snapshots' : s.day <= day' /\ s.at <= clock'
  BY <1>1, <1>2, <1>3, <1>5, <1>6
<1>11. ASSUME NEW d \in done' PROVE d <= day' /\ Restorable(snapshots', d)
  <2>1. d \in done /\ d \in Nat /\ d < day BY <1>1, <1>2
  <2>2. CASE \E s \in snapshots : s.day = d /\ s.whole
    <3>1. PICK s \in snapshots : s.day = d /\ s.whole BY <2>2
    <3>2. s \in snapshots' BY <1>1, <1>2, <2>1, <3>1
    <3>3. d <= day' BY <1>1, <1>2, <2>1
    <3> QED BY <3>1, <3>2, <3>3 DEF Restorable
  <2>3. CASE Cardinality({s \in snapshots : s.day > d}) >= Keep
    <3> DEFINE q == {s \in snapshots : s.day > d}
               r == {s \in snapshots' : s.day > d}
               f == [s \in q |-> IF s.day = day THEN e ELSE s]
    <3>1. r \in SUBSET snapshots' OBVIOUS
    <3>2. IsFiniteSet(r) BY <1>8, <3>1, FS_Subset
    <3>3. e \in r BY <1>1, <1>2, <1>3, <2>1
    <3>4. \A s \in q : s.day # day => s \in r BY <1>2
    <3>5. f \in [q -> r] BY <3>3, <3>4
    <3>6. \A s, t \in q : f[s] = f[t] => s = t
      <4> SUFFICES ASSUME NEW s \in q, NEW t \in q, f[s] = f[t] PROVE s = t OBVIOUS
      <4>1. f[s].day = s.day /\ f[t].day = t.day BY <1>3
      <4>2. s.day = t.day BY <4>1
      <4>3. s \in snapshots /\ t \in snapshots OBVIOUS
      <4> QED BY <1>1, <4>2, <4>3 DEF Dated
    <3> HIDE DEF f
    <3>7. Cardinality(q) \in Nat /\ Cardinality(r) \in Nat /\ Cardinality(q) <= Cardinality(r)
      BY <3>2, <3>5, <3>6, NotFewer
    <3>8. Keep \in Nat BY ServerAssumption DEF Sn!SnapshotsAssumption
    <3>9. Cardinality(r) >= Keep BY <2>3, <3>7, <3>8
    <3> QED BY <1>2, <2>1, <1>1, <3>9 DEF Restorable
  <2> QED BY <1>1, <2>1, <2>2, <2>3 DEF Restorable
<1>12. {s \in before' : s.day # day'} \subseteq snapshots' /\ e \in snapshots'
  BY <1>2 DEF Sn!Whole
<1>13. day' \in Nat /\ clock' \in Nat /\ done' \subseteq Nat BY <1>1, <1>2
<1> QED BY <1>2, <1>4, <1>7, <1>8, <1>9, <1>10, <1>11, <1>12, <1>13 DEF SnapshotsInv

\* The file being written is complete.
LEMMA FileIsWhole ==
  ASSUME SnapshotsInv, runner = "vacuum", runner' = "prune", done' = done \cup {day},
         snapshots' = {[s EXCEPT !.whole = @ \/ s.at = clock] : s \in snapshots},
         UNCHANGED <<day, clock>>
  PROVE  SnapshotsInv'
<1> DEFINE up(s) == [s EXCEPT !.whole = @ \/ s.at = clock]
<1>1. day \in Nat /\ clock \in Nat /\ snapshots \subseteq Snapshot /\ IsFiniteSet(snapshots)
      /\ Dated(snapshots) /\ (\A s \in snapshots : s.day <= day /\ s.at <= clock)
      /\ done \subseteq Nat /\ (\A d \in done : d <= day /\ Restorable(snapshots, d))
      /\ [day |-> day, at |-> clock, whole |-> FALSE] \in snapshots
  BY DEF SnapshotsInv
<1>2. ASSUME NEW s \in snapshots
      PROVE  /\ up(s) \in Snapshot /\ up(s).day = s.day /\ up(s).at = s.at
             /\ up(s).whole = (s.whole \/ s.at = clock)
  <2>1. s \in Snapshot BY <1>1
  <2> QED BY <2>1 DEF Snapshot
<1>3. snapshots' = {up(s) : s \in snapshots} OBVIOUS
<1> HIDE DEF up
<1>4. \A x \in snapshots' : \E s \in snapshots : x = up(s) BY <1>3
<1>5. snapshots' \subseteq Snapshot BY <1>2, <1>4
<1>6. IsFiniteSet(snapshots')
  <2> DEFINE f == [s \in snapshots |-> up(s)]
  <2>1. f \in [snapshots -> snapshots'] /\ \A x \in snapshots' : \E s \in snapshots : f[s] = x
    BY <1>3
  <2> HIDE DEF f
  <2>2. f \in Surjection(snapshots, snapshots') BY <2>1 DEF Surjection
  <2> QED BY <1>1, <2>2, FS_Surjection
<1>7. Dated(snapshots')
  <2> SUFFICES ASSUME NEW x \in snapshots', NEW y \in snapshots'
               PROVE  (x.day = y.day => x = y) /\ (x.day < y.day => x.at < y.at)
    BY DEF Dated
  <2>1. PICK s \in snapshots : x = up(s) BY <1>4
  <2>2. PICK t \in snapshots : y = up(t) BY <1>4
  <2>3. x.day = s.day /\ x.at = s.at /\ y.day = t.day /\ y.at = t.at BY <1>2, <2>1, <2>2
  <2>4. (s.day = t.day => s = t) /\ (s.day < t.day => s.at < t.at) BY <1>1 DEF Dated
  <2> QED BY <2>1, <2>2, <2>3, <2>4
<1>8. \A x \in snapshots' : x.day <= day' /\ x.at <= clock' BY <1>1, <1>2, <1>4
<1>9. ASSUME NEW d \in done' PROVE d <= day' /\ Restorable(snapshots', d)
  <2>1. CASE d = day
    <3> DEFINE e == [day |-> day, at |-> clock, whole |-> FALSE]
    <3>1. e \in snapshots /\ e.day = day /\ e.at = clock BY <1>1
    <3> HIDE DEF e
    <3>2. up(e) \in snapshots' /\ up(e).day = day /\ up(e).whole BY <1>2, <1>3, <3>1
    <3> QED BY <1>1, <2>1, <3>2 DEF Restorable
  <2>2. CASE d \in done /\ \E s \in snapshots : s.day = d /\ s.whole
    <3>1. PICK s \in snapshots : s.day = d /\ s.whole BY <2>2
    <3>2. up(s) \in snapshots' /\ up(s).day = d /\ up(s).whole BY <1>2, <1>3, <3>1
    <3> QED BY <1>1, <2>2, <3>2 DEF Restorable
  <2>3. CASE d \in done /\ Cardinality({s \in snapshots : s.day > d}) >= Keep
    <3> DEFINE q == {s \in snapshots : s.day > d}
               r == {s \in snapshots' : s.day > d}
               f == [s \in q |-> up(s)]
    <3>1. r \in SUBSET snapshots' OBVIOUS
    <3>2. IsFiniteSet(r) BY <1>6, <3>1, FS_Subset
    <3>3. \A s \in q : up(s) \in r BY <1>2, <1>3
    <3>5. f \in [q -> r] BY <3>3
    <3>6. \A s, t \in q : f[s] = f[t] => s = t
      <4> SUFFICES ASSUME NEW s \in q, NEW t \in q, f[s] = f[t] PROVE s = t OBVIOUS
      <4>1. f[s] = up(s) /\ f[t] = up(t) /\ s \in snapshots /\ t \in snapshots OBVIOUS
      <4>2. up(s).day = s.day /\ up(t).day = t.day BY <1>2, <4>1
      <4>3. s.day = t.day BY <4>1, <4>2
      <4> QED BY <1>1, <4>1, <4>3 DEF Dated
    <3> HIDE DEF f
    <3>7. Cardinality(q) \in Nat /\ Cardinality(r) \in Nat /\ Cardinality(q) <= Cardinality(r)
      BY <3>2, <3>5, <3>6, NotFewer
    <3>8. Keep \in Nat BY ServerAssumption DEF Sn!SnapshotsAssumption
    <3>9. Cardinality(r) >= Keep BY <2>3, <3>7, <3>8
    <3> QED BY <1>1, <2>3, <3>9 DEF Restorable
  <2> QED BY <1>1, <2>1, <2>2, <2>3 DEF Restorable
<1>10. done' \subseteq Nat BY <1>1
<1> QED BY <1>1, <1>5, <1>6, <1>7, <1>8, <1>9, <1>10 DEF SnapshotsInv

\* Pruning keeps the newest.
LEMMA FilesArePruned == ASSUME SnapshotsInv, Sn!pruneOldBackups PROVE SnapshotsInv'
<1>1. day \in Nat /\ clock \in Nat /\ snapshots \subseteq Snapshot /\ IsFiniteSet(snapshots)
      /\ Dated(snapshots) /\ (\A s \in snapshots : s.day <= day /\ s.at <= clock)
      /\ done \subseteq Nat /\ (\A d \in done : d <= day /\ Restorable(snapshots, d))
  BY DEF SnapshotsInv
<1> DEFINE newer(s) == {x \in snapshots : x.at >= s.at}
           later(d) == {s \in snapshots : s.day > d}
<1>2. snapshots' = {s \in snapshots : Cardinality(newer(s)) <= Keep} /\ runner' = "waiting"
      /\ UNCHANGED <<day, clock, done>>
  BY SnapshotCount DEF Sn!pruneOldBackups, Sn!Kept
<1>3. Keep \in Nat BY ServerAssumption DEF Sn!SnapshotsAssumption
<1>4. \A s \in snapshots : s.day \in Nat /\ s.at \in Nat BY <1>1 DEF Snapshot
<1>5. \A s, t \in snapshots : s.at <= t.at => s.day <= t.day
  <2> SUFFICES ASSUME NEW s \in snapshots, NEW t \in snapshots, s.day > t.day PROVE s.at > t.at
    BY <1>4
  <2> QED BY <1>1, <1>4 DEF Dated
<1>6. \A s, t \in snapshots : s.at = t.at => s = t
  <2> SUFFICES ASSUME NEW s \in snapshots, NEW t \in snapshots, s.at = t.at PROVE s = t OBVIOUS
  <2>1. s.day <= t.day /\ t.day <= s.day BY <1>4, <1>5
  <2>2. s.day = t.day BY <1>4, <2>1
  <2> QED BY <1>1, <2>2 DEF Dated
<1>7. snapshots' \in SUBSET snapshots BY <1>2
<1>8. IsFiniteSet(snapshots') BY <1>1, <1>7, FS_Subset
<1>9. \A d : later(d) \in SUBSET snapshots /\ IsFiniteSet(later(d))
             /\ Cardinality(later(d)) \in Nat /\ Cardinality(later(d)) <= Cardinality(snapshots)
  <2>1. \A d : later(d) \in SUBSET snapshots OBVIOUS
  <2> HIDE DEF later
  <2> QED BY <1>1, <2>1, FS_Subset, FS_CardinalityType
<1>10. \A s : IsFiniteSet(newer(s)) /\ Cardinality(newer(s)) \in Nat
  <2>1. \A s : newer(s) \in SUBSET snapshots OBVIOUS
  <2> HIDE DEF newer
  <2> QED BY <1>1, <2>1, FS_Subset, FS_CardinalityType
<1>11. ASSUME NEW d \in done, Cardinality(later(d)) >= Keep PROVE Restorable(snapshots', d)
  <2>0. d \in Nat /\ Cardinality(snapshots) \in Nat BY <1>1, FS_CardinalityType
  <2>1. Cardinality(snapshots') >= Keep
    <3>1. Keep <= Cardinality(snapshots) BY <1>3, <1>9, <1>11, <2>0
    <3> HIDE DEF later
    <3> QED BY <1>1, <1>2, <1>3, <1>4, <1>6, <3>1, NewestAreKept
  <2>2. ASSUME NEW s \in snapshots' PROVE s.day > d
    <3>1. s \in snapshots /\ Cardinality(newer(s)) <= Keep BY <1>2
    <3>2. ASSUME s.day <= d PROVE FALSE
      <4>1. \A t \in later(d) : t.at > s.at BY <1>1, <1>4, <2>0, <3>1, <3>2 DEF Dated
      <4>2. \A t \in later(d) : t.at >= s.at BY <1>4, <3>1, <4>1
      <4>3. s \in newer(s) /\ s \notin later(d) BY <1>4, <2>0, <3>1, <3>2
      <4>4. later(d) \in SUBSET newer(s) BY <4>2
      <4> HIDE DEF later, newer
      <4>5. Cardinality(later(d)) <= Cardinality(newer(s))
            /\ (Cardinality(newer(s)) = Cardinality(later(d)) => newer(s) = later(d))
        BY <1>10, <4>4, FS_Subset
      <4>6. Cardinality(newer(s)) = Cardinality(later(d)) BY <1>3, <1>9, <1>10, <1>11, <3>1, <4>5
      <4> QED BY <4>3, <4>5, <4>6
    <3> QED BY <1>4, <2>0, <3>1, <3>2
  <2>3. {s \in snapshots' : s.day > d} = snapshots' BY <2>2
  <2> QED BY <2>1, <2>3 DEF Restorable
<1>12. ASSUME NEW d \in done PROVE Restorable(snapshots', d)
  <2>1. CASE \E s \in snapshots : s.day = d /\ s.whole
    <3>1. PICK s \in snapshots : s.day = d /\ s.whole BY <2>1
    <3>2. CASE s \in snapshots' BY <3>1, <3>2 DEF Restorable
    <3>3. CASE s \notin snapshots'
      <4>0. ~(Cardinality(newer(s)) <= Keep) BY <1>2, <3>1, <3>3
      <4>1. Cardinality(newer(s)) > Keep
        <5> HIDE DEF newer
        <5> QED BY <1>3, <1>10, <4>0
      <4>2. ASSUME NEW x \in newer(s) \ {s} PROVE x \in later(d)
        <5>1. x \in snapshots /\ x.at >= s.at /\ x # s OBVIOUS
        <5>2. s.day <= x.day /\ s.day # x.day BY <1>1, <1>4, <1>5, <5>1 DEF Dated
        <5> QED BY <1>4, <3>1, <5>1, <5>2
      <4>3. s \in newer(s) BY <1>4
      <4>4. newer(s) \ {s} \in SUBSET later(d) BY <4>2
      <4> HIDE DEF later, newer
      <4>5. Cardinality(newer(s) \ {s}) = Cardinality(newer(s)) - 1 BY <1>10, <4>3, FS_RemoveElement
      <4>6. Cardinality(newer(s) \ {s}) <= Cardinality(later(d)) BY <1>9, <4>4, FS_Subset
      <4>7. Cardinality(later(d)) >= Keep BY <1>3, <1>9, <1>10, <4>1, <4>5, <4>6
      <4> QED BY <1>11, <4>7
    <3> QED BY <3>2, <3>3
  <2>2. CASE Cardinality(later(d)) >= Keep BY <1>11, <2>2
  <2> QED BY <1>1, <2>1, <2>2 DEF Restorable
<1>13. snapshots' \subseteq Snapshot /\ Dated(snapshots') BY <1>1, <1>7 DEF Dated
<1> HIDE DEF newer, later
<1>14. \A s \in snapshots' : s.day <= day' /\ s.at <= clock' BY <1>1, <1>2, <1>7
<1>15. day' \in Nat /\ clock' \in Nat /\ done' \subseteq Nat /\ \A d \in done' : d <= day' /\ Restorable(snapshots', d)
  BY <1>1, <1>2, <1>12
<1> QED BY <1>2, <1>8, <1>13, <1>14, <1>15 DEF SnapshotsInv

LEMMA SnapshotsStep == ASSUME SnapshotsInv, Sn!Next \/ UNCHANGED dailies PROVE SnapshotsInv'
<1>1. ASSUME UNCHANGED <<snapshots, done, clock>>, day' \in Nat, day' >= day,
             runner' \in {"off", "due", "waiting"}
      PROVE  SnapshotsInv'
  <2>1. day \in Nat /\ snapshots \subseteq Snapshot BY DEF SnapshotsInv
  <2>2. \A s \in snapshots : s.day \in Nat /\ s.day <= day BY <2>1 DEF SnapshotsInv, Snapshot
  <2>3. \A s \in snapshots : s.day <= day' BY <1>1, <2>1, <2>2
  <2>4. \A d \in done : d <= day' /\ Restorable(snapshots, d) BY <1>1, <2>1 DEF SnapshotsInv
  <2> QED BY <1>1, <2>3, <2>4 DEF SnapshotsInv
<1>0. day \in Nat /\ day >= day BY DEF SnapshotsInv
<1>2. CASE Sn!Start BY <1>0, <1>1, <1>2 DEF Sn!Start
<1>3. CASE Sn!SnapshotTo BY <1>3, FileOfToday
<1>4. CASE Sn!Vacuumed
  <2>1. CASE runner' = "waiting" /\ UNCHANGED <<snapshots, done>>
    BY <1>0, <1>1, <1>4, <2>1 DEF Sn!Vacuumed
  <2>2. CASE runner' = "prune" BY <1>4, <2>2, FileIsWhole DEF Sn!Vacuumed
  <2> QED BY <1>4, <2>1, <2>2 DEF Sn!Vacuumed
<1>5. CASE Sn!pruneOldBackups BY <1>5, FilesArePruned
<1>6. CASE Sn!NextDay
  <2>1. day' \in Nat /\ day' >= day BY <1>0, <1>6 DEF Sn!NextDay
  <2>2. runner' \in {"off", "due", "waiting"} BY <1>6 DEF Sn!NextDay
  <2> QED BY <1>1, <1>6, <2>1, <2>2 DEF Sn!NextDay
<1>7. CASE Sn!Crash BY <1>0, <1>1, <1>7 DEF Sn!Crash
<1>8. CASE UNCHANGED dailies BY <1>8 DEF dailies, SnapshotsInv
<1> QED BY <1>2, <1>3, <1>4, <1>5, <1>6, <1>7, <1>8 DEF Sn!Next

-----------------------------------------------------------------------------
(* The backup command.                                                      *)

\* What was gathered of the databases is a snapshot, and what goes to the
\* upload is complete.
ArchiveInv ==
  /\ Ar!TypeOK
  /\ command \in {"idle", "stores"} => entries = {}
  /\ entries \cap Ar!Stores \subseteq copied
  /\ command \in {"upload", "shipped"} => Ar!Required \subseteq entries

LEMMA ArchiveIsHeld == ASSUME ArchiveInv PROVE Ar!ArchiveHolds
BY DEF ArchiveInv, Ar!ArchiveHolds, Ar!ShippedRestores, Ar!NoTornStore, Ar!Required, Ar!Stores

LEMMA ArchiveInit == ASSUME Ar!Init PROVE ArchiveInv
BY DEF Ar!Init, ArchiveInv, Ar!TypeOK

LEMMA ArchiveStep == ASSUME ArchiveInv, Ar!Next \/ UNCHANGED archive PROVE ArchiveInv'
<1> USE ServerAssumption DEF Ar!ArchiveAssumption, ArchiveInv, Ar!TypeOK
<1>1. ASSUME NEW f \in Ar!Files, Ar!Change(f) PROVE ArchiveInv'
  BY <1>1 DEF Ar!Change, Ar!Required
<1>2. CASE Ar!Begin BY <1>2 DEF Ar!Begin, Ar!Required
<1>3. CASE Ar!SnapshotStores
  <2>1. Ar!Wanted \subseteq Ar!Stores /\ Ar!Stores \subseteq Ar!Files
    BY DEF Ar!Wanted, Ar!Stores, Ar!Files
  <2>2. CASE command' = "failed" /\ UNCHANGED <<entries, copied>> BY <1>3, <2>2 DEF Ar!SnapshotStores
  <2>3. CASE entries' \subseteq Ar!Wanted /\ copied' = entries' /\ command' = "rest"
    BY <2>1, <2>3
  <2> QED BY <1>3, <2>2, <2>3 DEF Ar!SnapshotStores
<1>4. CASE Ar!GatherRest
  <2>1. Ar!Stores \cap ({"tokens.json", "auth"} \cup Secrets) = {} BY DEF Ar!Stores
  <2>2. entries' \subseteq entries \cup {"tokens.json", "auth"} \cup Secrets /\ entries \subseteq entries'
        /\ command' = "assert" /\ UNCHANGED copied
    BY <1>4 DEF Ar!GatherRest
  <2>3. {"tokens.json", "auth"} \cup Secrets \subseteq Ar!Files BY DEF Ar!Files
  <2> QED BY <2>1, <2>2, <2>3
<1>5. CASE Ar!assertManifestComplete BY <1>5 DEF Ar!assertManifestComplete, Ar!Required
<1>6. CASE Ar!Upload BY <1>6 DEF Ar!Upload, Ar!Required
<1>7. CASE UNCHANGED archive BY <1>7 DEF archive, Ar!Required
<1> QED BY <1>1, <1>2, <1>3, <1>4, <1>5, <1>6, <1>7 DEF Ar!Next

-----------------------------------------------------------------------------
(* Opening the wallet database.                                             *)

Spaced == [exists : BOOLEAN, balance : 0..1, admin : Members \cup {Mi!Nobody}, rate : {"none", "standard"}]

\* A process that migrates is at most one version ahead of the file, and what it
\* read of it is behind.
SchemaInv ==
  /\ version \in 0..Mi!Keys
  /\ applied \in Seq(Nat) /\ \A i \in 1..Len(applied) : applied[i] = version - Len(applied) + i
  /\ purse \in [Members -> 0..1]
  /\ space \in [Members -> Spaced]
  /\ \E S, T : txs \in [Rows -> [space : S, token : T]]
  /\ Mi!MoneyCarried /\ Mi!CopiesNotOlder
  /\ opener \in [Openers -> [stage : {"closed", "copying", "migrating", "open", "refused", "failed"},
                             read : Nat, next : Nat]]
  /\ \A o \in Openers :
       /\ opener[o].stage = "open" => version >= Binary[o]
       /\ opener[o].stage \in {"copying", "migrating"} =>
            opener[o].next <= version + 1 /\ opener[o].next <= Binary[o]
       /\ opener[o].stage = "copying" => opener[o].read <= version

LEMMA SchemaIsHeld == ASSUME SchemaInv PROVE Mi!MigrationsHold
BY DEF SchemaInv, Mi!MigrationsHold, Mi!TypeOK, Mi!AppliedOnceInOrder, Mi!OpenedUnderstood

LEMMA SchemaInit == ASSUME Mi!Init PROVE SchemaInv
<1> USE DEF Mi!Init
<1>1. version \in 0..Mi!Keys /\ version < 2 BY DEF Mi!Wallets, Mi!Keys
<1>2. Mi!NoSpace \in Spaced BY DEF Mi!NoSpace, Spaced
<1>3. space \in [Members -> Spaced] BY <1>2
<1>4. Mi!MoneyCarried BY <1>1 DEF Mi!MoneyCarried, Mi!Spaces
<1>5. [space |-> Mi!Nobody, token |-> NoToken] \in [space : {Mi!Nobody}, token : {NoToken}] OBVIOUS
<1>6. txs \in [Rows -> [space : {Mi!Nobody}, token : {NoToken}]] BY <1>5
<1>7. applied \in Seq(Nat) /\ Len(applied) = 0 OBVIOUS
<1>8. Mi!Closed \in [stage : {"closed", "copying", "migrating", "open", "refused", "failed"},
                     read : Nat, next : Nat] /\ Mi!Closed.stage = "closed"
  BY DEF Mi!Closed
<1>9. opener \in [Openers -> [stage : {"closed", "copying", "migrating", "open", "refused", "failed"},
                              read : Nat, next : Nat]]
      /\ \A o \in Openers : opener[o].stage = "closed"
  BY <1>8
<1>10. purse \in [Members -> 0..1] /\ copies = {} OBVIOUS
<1> HIDE DEF Mi!Init
<1>11. \A i \in 1..Len(applied) : applied[i] = version - Len(applied) + i BY <1>7
<1>12. \E S, T : txs \in [Rows -> [space : S, token : T]] BY <1>6
<1> QED BY <1>1, <1>3, <1>4, <1>7, <1>9, <1>10, <1>11, <1>12 DEF SchemaInv, Mi!CopiesNotOlder

\* A process moves on while the file stays as it is, or gets a copy.
LEMMA SchemaMoves ==
  ASSUME SchemaInv, NEW o \in Openers, NEW q, opener' = [opener EXCEPT ![o] = q],
         q \in [stage : {"closed", "copying", "migrating", "open", "refused", "failed"},
                read : Nat, next : Nat],
         q.stage = "open" => version >= Binary[o],
         q.stage \in {"copying", "migrating"} => q.next <= version + 1 /\ q.next <= Binary[o],
         q.stage = "copying" => q.read <= version,
         UNCHANGED <<version, applied, purse, space, txs>>, Mi!CopiesNotOlder'
  PROVE  SchemaInv'
<1>1. UNCHANGED Mi!MoneyCarried BY DEF Mi!MoneyCarried
<1>2. opener' \in [Openers -> [stage : {"closed", "copying", "migrating", "open", "refused", "failed"},
                               read : Nat, next : Nat]]
      /\ \A p \in Openers : opener'[p] = IF p = o THEN q ELSE opener[p]
  BY DEF SchemaInv
<1> QED BY <1>1, <1>2 DEF SchemaInv

\* The statements of a version carry the money and the history.
LEMMA SchemaChanges ==
  ASSUME SchemaInv, Mi!Change(version + 1), version' = version + 1, purse' = purse
  PROVE  /\ space' \in [Members -> Spaced] /\ \E S, T : txs' \in [Rows -> [space : S, token : T]]
         /\ Mi!MoneyCarried'
<1> USE DEF SchemaInv
<1>1. version \in Nat /\ version < 5 BY DEF Mi!Keys
<1>2. PICK S, T : txs \in [Rows -> [space : S, token : T]] OBVIOUS
<1>3. CASE version = 1
  <2> DEFINE brought(u) == [exists |-> TRUE, balance |-> purse[u], admin |-> u, rate |-> "none"]
  <2>1. /\ space' = [u \in Members |-> brought(u)]
        /\ txs' = [r \in Rows |-> [txs[r] EXCEPT !.space = Owner[r]]]
    BY <1>3 DEF Mi!Change, Mi!MoveWallets, Mi!Spaces, Mi!Rates, Mi!Keys
  <2>2. \A u \in Members : brought(u) \in Spaced /\ brought(u).exists /\ brought(u).balance = purse[u]
                           /\ brought(u).admin = u
    BY DEF Spaced
  <2> HIDE DEF brought
  <2>3. space' \in [Members -> Spaced] BY <2>1, <2>2
  <2>4. \A u \in Members : space'[u].exists /\ space'[u].balance = purse'[u] /\ space'[u].admin = u
    BY <2>1, <2>2
  <2>5. ASSUME NEW r \in Rows
        PROVE  txs'[r] \in [space : S \cup {Owner[x] : x \in Rows}, token : T] /\ txs'[r].space = Owner[r]
    <3>1. txs[r] \in [space : S, token : T] BY <1>2
    <3>2. txs'[r] = [txs[r] EXCEPT !.space = Owner[r]] BY <2>1
    <3> QED BY <3>1, <3>2
  <2>6. txs' \in [Rows -> [space : S \cup {Owner[x] : x \in Rows}, token : T]] BY <2>1, <2>5
  <2>7. \E A, B : txs' \in [Rows -> [space : A, token : B]] BY <2>6
  <2>8. version' = 2 /\ \A r \in Rows : txs'[r].space = Owner[r] BY <1>3, <2>5
  <2>9. Mi!MoneyCarried' BY ONLY <2>4, <2>8 DEF Mi!MoneyCarried, Mi!Spaces, Mi!Keys
  <2> QED BY <2>3, <2>7, <2>9
<1>4. CASE version = 2
  <2>1. space' = [u \in Members |-> [space[u] EXCEPT !.rate = "standard"]] /\ txs' = txs
    BY <1>4 DEF Mi!Change, Mi!GiveRates, Mi!Spaces, Mi!Rates, Mi!Keys
  <2>2. ASSUME NEW u \in Members
        PROVE  /\ space'[u] \in Spaced /\ space'[u].exists = space[u].exists
               /\ space'[u].balance = space[u].balance /\ space'[u].admin = space[u].admin
    <3>1. space[u] \in Spaced OBVIOUS
    <3>2. space'[u] = [space[u] EXCEPT !.rate = "standard"] BY <2>1
    <3> QED BY <3>1, <3>2 DEF Spaced
  <2>3. space' \in [Members -> Spaced] BY <2>1, <2>2
  <2>4. /\ \A u \in Members : space[u].exists /\ space[u].balance = purse[u] /\ space[u].admin = u
        /\ \A r \in Rows : txs[r].space = Owner[r]
    BY <1>4 DEF Mi!MoneyCarried, Mi!Spaces, Mi!Keys
  <2>5. version' = 3 /\ txs' = txs BY <1>4, <2>1
  <2>6. \A u \in Members : space'[u].exists /\ space'[u].balance = purse'[u] /\ space'[u].admin = u
    BY <2>2, <2>4
  <2>7. \A r \in Rows : txs'[r].space = Owner[r] BY <2>4, <2>5
  <2>8. Mi!MoneyCarried' BY ONLY <2>5, <2>6, <2>7 DEF Mi!MoneyCarried, Mi!Spaces, Mi!Keys
  <2>9. \E A, B : txs' \in [Rows -> [space : A, token : B]] BY <1>2, <2>5
  <2> QED BY <2>3, <2>8, <2>9
<1>5. CASE version = 3
  <2>1. space' = space /\ txs' = [r \in Rows |-> [txs[r] EXCEPT !.token = Ref[r]]]
    BY <1>5 DEF Mi!Change, Mi!AttributeKeys, Mi!Spaces, Mi!Rates, Mi!Keys
  <2>2. ASSUME NEW r \in Rows
        PROVE  /\ txs'[r] \in [space : S, token : T \cup {Ref[x] : x \in Rows}]
               /\ txs'[r].token = Ref[r] /\ txs'[r].space = txs[r].space
    <3>1. txs[r] \in [space : S, token : T] BY <1>2
    <3>2. txs'[r] = [txs[r] EXCEPT !.token = Ref[r]] BY <2>1
    <3> QED BY <3>1, <3>2
  <2>3. txs' \in [Rows -> [space : S, token : T \cup {Ref[x] : x \in Rows}]] BY <2>1, <2>2
  <2>4. \E A, B : txs' \in [Rows -> [space : A, token : B]] BY <2>3
  <2>5. /\ \A u \in Members : space[u].exists /\ space[u].balance = purse[u] /\ space[u].admin = u
        /\ \A r \in Rows : txs[r].space = Owner[r]
    BY <1>5 DEF Mi!MoneyCarried, Mi!Spaces, Mi!Keys
  <2>6. version' = 4 /\ space' = space BY <1>5, <2>1
  <2>7. \A u \in Members : space'[u].exists /\ space'[u].balance = purse'[u] /\ space'[u].admin = u
    BY <2>5, <2>6
  <2>8. \A r \in Rows : txs'[r].space = Owner[r] /\ txs'[r].token = Ref[r] BY <2>2, <2>5
  <2>9. Mi!MoneyCarried' BY ONLY <2>6, <2>7, <2>8 DEF Mi!MoneyCarried, Mi!Spaces, Mi!Keys
  <2>10. space' \in [Members -> Spaced] BY <2>6
  <2> QED BY <2>4, <2>9, <2>10
<1>6. CASE version \notin {1, 2, 3}
  <2>1. UNCHANGED <<space, txs>>
    BY <1>1, <1>6 DEF Mi!Change, Mi!Spaces, Mi!Rates, Mi!Keys
  <2>2. space' \in [Members -> Spaced] /\ \E S1, T1 : txs' \in [Rows -> [space : S1, token : T1]]
    BY <1>2, <2>1
  <2>3. version = 0 \/ version = 4 BY <1>1, <1>6
  <2>4. CASE version = 0
    <3>1. version' < 2 /\ space' = [u \in Members |-> Mi!NoSpace] BY <2>1, <2>4 DEF Mi!MoneyCarried, Mi!Spaces
    <3>2. Mi!MoneyCarried' BY ONLY <2>4, <3>1, version' = version + 1 DEF Mi!MoneyCarried, Mi!Spaces
    <3> QED BY <2>2, <3>2
  <2>5. CASE version = 4
    <3>1. UNCHANGED <<space, txs, purse>> /\ version' = 5 BY <2>1, <2>5
    <3>2. /\ \A u \in Members : space[u].exists /\ space[u].balance = purse[u] /\ space[u].admin = u
          /\ \A r \in Rows : txs[r].space = Owner[r] /\ txs[r].token = Ref[r]
      BY <2>5 DEF Mi!MoneyCarried, Mi!Spaces, Mi!Keys
    <3>3. Mi!MoneyCarried' BY ONLY <3>1, <3>2 DEF Mi!MoneyCarried, Mi!Spaces, Mi!Keys
    <3> QED BY <2>2, <3>3
  <2> QED BY <2>3, <2>4, <2>5
<1> QED BY <1>3, <1>4, <1>5, <1>6

LEMMA SchemaApplied ==
  ASSUME SchemaInv, NEW o \in Openers, Mi!Migrate(o), Mi!ApplyVersion(o)
  PROVE  SchemaInv'
<1> USE ServerAssumption DEF Mi!MigrationsAssumption, SchemaInv
<1> DEFINE n == opener[o].next
<1>1. opener[o].stage = "migrating" /\ UNCHANGED <<purse, copies>> BY DEF Mi!Migrate
<1>2. n \in Nat /\ n <= version + 1 /\ n <= Binary[o] /\ version < n /\ version \in Nat
  BY <1>1 DEF Mi!ApplyVersion, Mi!Keys
<1>3. n = version + 1 BY <1>2
<1>4. version' = version + 1 /\ applied' = Append(applied, version + 1) /\ Mi!Change(version + 1)
  BY <1>3 DEF Mi!ApplyVersion
<1>5. Binary[o] \in 0..Mi!Keys OBVIOUS
<1>6. version' \in 0..Mi!Keys BY <1>2, <1>3, <1>4, <1>5 DEF Mi!Keys
<1>7. /\ space' \in [Members -> Spaced] /\ \E S, T : txs' \in [Rows -> [space : S, token : T]]
      /\ Mi!MoneyCarried'
  BY <1>1, <1>4, SchemaChanges
<1>8. applied' \in Seq(Nat) /\ \A i \in 1..Len(applied') : applied'[i] = version' - Len(applied') + i
  <2> DEFINE v == version + 1
  <2>1. v \in Nat /\ applied \in Seq(Nat) BY <1>2
  <2>2. v = version + 1 OBVIOUS
  <2>3. applied' = Append(applied, v) BY <1>4
  <2> HIDE DEF v
  <2>4. applied' \in Seq(Nat) /\ Len(applied') = Len(applied) + 1 /\ applied'[Len(applied) + 1] = v
        /\ \A i \in 1..Len(applied) : applied'[i] = applied[i]
    BY <2>1, <2>3
  <2>5. Len(applied) \in Nat BY <2>1
  <2>6. \A i \in 1..Len(applied) : applied[i] = version - Len(applied) + i
    BY DEF Mi!AppliedOnceInOrder
  <2> DEFINE w == applied'
             k == Len(applied)
  <2>7. /\ w \in Seq(Nat) /\ Len(w) = k + 1 /\ w[k + 1] = version + 1 /\ k \in Nat /\ version \in Nat
        /\ \A i \in 1..k : w[i] = version - k + i
    BY ONLY <1>2, <2>2, <2>4, <2>5, <2>6
  <2> HIDE DEF w, k
  <2>8. \A i \in 1..Len(w) : w[i] = (version + 1) - Len(w) + i
    <3> TAKE i \in 1..Len(w)
    <3>1. i \in 1..k \/ i = k + 1 BY ONLY <2>7
    <3>2. CASE i \in 1..k BY ONLY <2>7, <3>2
    <3>3. CASE i = k + 1 BY ONLY <2>7, <3>3
    <3> QED BY ONLY <3>1, <3>2, <3>3
  <2>9. version' = version + 1 BY <1>4
  <2> QED BY ONLY <2>7, <2>8, <2>9 DEF w
<1>9. opener' = [opener EXCEPT ![o].next = @ + 1,
                               ![o].stage = IF n = Binary[o] THEN "open" ELSE "migrating"]
  <2>1. version' # version BY <1>2, <1>4
  <2> QED BY <2>1 DEF Mi!Migrate
<1> HIDE DEF n
<1>10. /\ opener' \in [Openers -> [stage : {"closed", "copying", "migrating", "open", "refused", "failed"},
                                  read : Nat, next : Nat]]
       /\ opener'[o].next = n + 1 /\ opener'[o].stage = (IF n = Binary[o] THEN "open" ELSE "migrating")
       /\ \A p \in Openers : p # o => opener'[p] = opener[p]
  <2>1. opener[o] \in [stage : {"closed", "copying", "migrating", "open", "refused", "failed"},
                       read : Nat, next : Nat]
    OBVIOUS
  <2> DEFINE end == IF n = Binary[o] THEN "open" ELSE "migrating"
             q == [opener[o] EXCEPT !.next = n + 1, !.stage = end]
  <2>2. opener' = [opener EXCEPT ![o] = q] BY <1>9 DEF n
  <2>3. end \in {"open", "migrating"} OBVIOUS
  <2>4. n + 1 \in Nat BY <1>2
  <2> HIDE DEF end
  <2>5. q \in [stage : {"closed", "copying", "migrating", "open", "refused", "failed"},
               read : Nat, next : Nat] /\ q.next = n + 1 /\ q.stage = end
    BY <2>1, <2>3, <2>4
  <2> HIDE DEF q
  <2>6. opener'[o] = q /\ \A p \in Openers : p # o => opener'[p] = opener[p] BY <2>2
  <2>7. opener' \in [Openers -> [stage : {"closed", "copying", "migrating", "open", "refused", "failed"},
                                 read : Nat, next : Nat]]
    BY <2>2, <2>5
  <2> QED BY <2>5, <2>6, <2>7 DEF end
<1>11. ASSUME NEW p \in Openers
       PROVE  /\ opener'[p].stage = "open" => version' >= Binary[p]
              /\ opener'[p].stage \in {"copying", "migrating"} =>
                   opener'[p].next <= version' + 1 /\ opener'[p].next <= Binary[p]
              /\ opener'[p].stage = "copying" => opener'[p].read <= version'
  <2>1. Binary[p] \in Nat
    <3>1. Binary[p] \in 0..Mi!Keys OBVIOUS
    <3> QED BY <3>1 DEF Mi!Keys
  <2>2. CASE p = o BY <1>2, <1>3, <1>4, <1>10, <2>1, <2>2
  <2>3. CASE p # o
    <3>1. opener'[p] = opener[p] /\ opener[p].next \in Nat /\ opener[p].read \in Nat BY <1>10, <2>3
    <3> QED BY <1>2, <1>4, <2>1, <3>1
  <2> QED BY <2>2, <2>3
<1>12. Mi!CopiesNotOlder' BY <1>1 DEF Mi!CopiesNotOlder
<1>13. purse' \in [Members -> 0..1] BY <1>1
<1> QED BY <1>6, <1>7, <1>8, <1>10, <1>11, <1>12, <1>13

LEMMA SchemaStep == ASSUME SchemaInv, Mi!Next \/ UNCHANGED schema PROVE SchemaInv'
<1> USE ServerAssumption DEF Mi!MigrationsAssumption
<1> DEFINE Stages == {"closed", "copying", "migrating", "open", "refused", "failed"}
<1>0. version \in Nat /\ Mi!CopiesNotOlder
      /\ \A o \in Openers : opener[o] \in [stage : Stages, read : Nat, next : Nat] /\ Binary[o] \in Nat
  <2>1. version \in 0..Mi!Keys /\ Mi!CopiesNotOlder
        /\ \A o \in Openers : opener[o] \in [stage : Stages, read : Nat, next : Nat]
    BY DEF SchemaInv
  <2>2. \A o \in Openers : Binary[o] \in 0..Mi!Keys OBVIOUS
  <2>3. 0..Mi!Keys \subseteq Nat BY DEF Mi!Keys
  <2> QED BY <2>1, <2>2, <2>3
<1>1. ASSUME NEW o \in Openers, Mi!ReadVersion(o) PROVE SchemaInv'
  <2> DEFINE b == Binary[o]
             st == CASE version = b -> "open"
                     [] version > b -> "refused"
                     [] version = 0 /\ b # 0 -> "migrating"
                     [] OTHER -> "copying"
             q == [stage |-> st, read |-> version, next |-> version + 1]
  <2>1. opener' = [opener EXCEPT ![o] = q] /\ UNCHANGED <<version, applied, purse, space, txs, copies>>
    BY <1>1 DEF Mi!ReadVersion
  <2>2. b \in Nat BY <1>0
  <2> HIDE DEF b
  <2>3. /\ st \in Stages /\ (st = "open" => version = b)
        /\ st \in {"copying", "migrating"} => version < b
    <3>1. CASE version = b
      <4>1. ~(version > b) /\ ~(version < b) BY <1>0, <2>2, <3>1
      <4>2. st = "open" BY <3>1, <4>1
      <4> QED BY <3>1, <4>1, <4>2
    <3>2. CASE version > b BY <1>0, <2>2, <3>2
    <3>3. CASE version < b
      <4>1. st = "migrating" \/ st = "copying" BY <1>0, <2>2, <3>3
      <4> QED BY <3>3, <4>1
    <3> QED BY <1>0, <2>2, <3>1, <3>2, <3>3
  <2> HIDE DEF st
  <2>5. q.stage = st /\ q.read = version /\ q.next = version + 1 OBVIOUS
  <2>6. q \in [stage : Stages, read : Nat, next : Nat] BY <1>0, <2>3
  <2> HIDE DEF q
  <2>7. b = Binary[o] BY DEF b
  <2>8. (q.stage = "open" => version >= Binary[o])
        /\ (q.stage \in {"copying", "migrating"} => q.next <= version + 1 /\ q.next <= Binary[o])
        /\ q.read <= version
    BY <1>0, <2>2, <2>3, <2>5, <2>7
  <2>4. Mi!CopiesNotOlder' BY <1>0, <2>1 DEF Mi!CopiesNotOlder
  <2> QED BY <2>1, <2>4, <2>6, <2>8, SchemaMoves
<1>2. ASSUME NEW o \in Openers, Mi!backupDBFile(o) PROVE SchemaInv'
  <2> DEFINE q == [opener[o] EXCEPT !.stage = "migrating"]
  <2>1. /\ opener[o].stage = "copying" /\ opener' = [opener EXCEPT ![o] = q]
        /\ copies' = copies \cup {[named |-> opener[o].read, held |-> version]} \/ UNCHANGED copies
        /\ UNCHANGED <<version, applied, purse, space, txs>>
    BY <1>2 DEF Mi!backupDBFile
  <2>2. q \in [stage : Stages, read : Nat, next : Nat] /\ q.stage = "migrating"
        /\ q.next = opener[o].next
    BY <1>0
  <2> HIDE DEF q
  <2>3. opener[o].next <= version + 1 /\ opener[o].next <= Binary[o] /\ opener[o].read <= version
    BY <2>1 DEF SchemaInv
  <2>4. opener[o].read \in Nat BY <1>0
  <2>5. Mi!CopiesNotOlder' BY <1>0, <2>1, <2>3, <2>4 DEF Mi!CopiesNotOlder
  <2> QED BY <2>1, <2>2, <2>3, <2>5, SchemaMoves
<1>3. ASSUME NEW o \in Openers, Mi!Migrate(o) PROVE SchemaInv'
  <2>1. CASE Mi!ApplyVersion(o) BY <1>3, <2>1, SchemaApplied
  <2>2. CASE opener' = [opener EXCEPT ![o].stage = "failed"] /\ UNCHANGED <<version, applied, space, txs>>
    <3> DEFINE q == [opener[o] EXCEPT !.stage = "failed"]
    <3>1. opener' = [opener EXCEPT ![o] = q] /\ UNCHANGED <<purse, copies>> BY <1>3, <2>2 DEF Mi!Migrate
    <3>2. q \in [stage : Stages, read : Nat, next : Nat] /\ q.stage = "failed" BY <1>0
    <3> HIDE DEF q
    <3>3. Mi!CopiesNotOlder' BY <1>0, <2>2, <3>1 DEF Mi!CopiesNotOlder
    <3> QED BY <2>2, <3>1, <3>2, <3>3, SchemaMoves
  <2> QED BY <1>3, <2>1, <2>2 DEF Mi!Migrate
<1>4. ASSUME NEW o \in Openers, Mi!Exit(o) PROVE SchemaInv'
  <2>1. opener' = [opener EXCEPT ![o] = Mi!Closed] /\ UNCHANGED <<version, applied, purse, space, txs, copies>>
    BY <1>4 DEF Mi!Exit
  <2>2. Mi!Closed \in [stage : Stages, read : Nat, next : Nat] /\ Mi!Closed.stage = "closed"
    BY DEF Mi!Closed
  <2>3. Mi!CopiesNotOlder' BY <1>0, <2>1 DEF Mi!CopiesNotOlder
  <2> QED BY <2>1, <2>2, <2>3, SchemaMoves
<1>5. CASE UNCHANGED schema
  <2>1. UNCHANGED <<version, applied, purse, space, txs, opener, copies>> BY <1>5 DEF schema
  <2> QED BY <2>1 DEF SchemaInv, Mi!MoneyCarried, Mi!CopiesNotOlder
<1> QED BY <1>1, <1>2, <1>3, <1>4, <1>5 DEF Mi!Next

-----------------------------------------------------------------------------
(* The process and its stop.                                                *)

TurnType ==
  [pc : {"none", "answering", "charging", "counting", "logging", "done", "cut"},
   via : {"http", "socket"}, at : Endpoints \cup {"none"}, paid : BOOLEAN, counted : BOOLEAN,
   row : {"none", "billed", "dropped"}]

\* What a turn has done: all it should, if it came over HTTP and nobody was cut
\* off, and while the log is open the wallets have been.
Accounted(q) ==
  /\ q.pc \in {"none", "answering", "charging"} => ~q.paid
  /\ q.pc \in {"none", "answering", "charging", "counting", "logging"} => q.row = "none"
  /\ q.row = "billed" => q.paid
  /\ q.row # "dropped"
  /\ q.pc \in {"counting", "logging"} /\ "log" \in writable => q.paid
  /\ q.via = "http" /\ ~overdue =>
       /\ q.pc \in {"counting", "logging", "done"} => q.paid
       /\ q.pc \in {"logging", "done"} => q.counted
       /\ q.pc = "done" => q.row = "billed"
       /\ q.pc # "cut"
       /\ main \in {"closing", "exited"} => q.pc \in {"none", "done"}

ProcessTypes ==
  /\ main \in {"starting", "serving", "draining", "closing", "exited"}
  /\ listener \in [Endpoints -> {"down", "up", "failed", "closed"}]
  /\ overdue \in BOOLEAN
  /\ requests \in [Work -> TurnType]
  /\ \A w \in Work : requests[w].pc # "none" => requests[w].at \in Endpoints

ProcessInv ==
  /\ ProcessTypes
  /\ main \in {"serving", "draining"} => Pr!selectPaymentGateway(settings)
  /\ \A e \in Endpoints : listener[e] = "up" =>
       main \in {"serving", "draining"} /\ Pr!selectPaymentGateway(settings)
  /\ main \in {"starting", "serving", "draining"} => writable = {"usage", "log", "wallets"}
  /\ main = "starting" => \A w \in Work : requests[w].pc = "none"
  /\ "log" \in writable => "wallets" \in writable
  /\ \A w \in Work : Accounted(requests[w])

LEMMA ProcessIsHeld == ASSUME ProcessInv PROVE Pr!ProcessHolds
<1> USE DEF ProcessInv
<1>1. Pr!TypeOK BY DEF Pr!TypeOK, ProcessTypes, TurnType
<1>2. Pr!GracefulStop BY DEF Pr!GracefulStop, Accounted
<1>3. Pr!RowsTellCharges
  <2> SUFFICES ASSUME NEW w \in Work
               PROVE  /\ requests[w].row = "billed" => requests[w].paid
                      /\ requests[w].row # "dropped"
                      /\ requests[w].pc \in {"done", "cut"} /\ requests[w].paid /\ requests[w].row = "none" =>
                           overdue \/ requests[w].via = "socket"
    BY DEF Pr!RowsTellCharges
  <2>1. Accounted(requests[w]) /\ requests[w].via \in {"http", "socket"} BY DEF ProcessTypes, TurnType
  <2> QED BY <2>1 DEF Accounted
<1>4. Pr!OpensGuarded
  BY DEF Pr!OpensGuarded, Pr!selectPaymentGateway, Pr!mockPaymentAllowed
<1> QED BY <1>1, <1>2, <1>3, <1>4 DEF Pr!ProcessHolds

LEMMA ProcessInit == ASSUME Pr!Init PROVE ProcessInv
<1>1. /\ Pr!Unborn \in TurnType /\ Pr!Unborn.pc = "none" /\ ~Pr!Unborn.paid /\ Pr!Unborn.row = "none"
  BY DEF Pr!Unborn, TurnType
<1>2. requests \in [Work -> TurnType] /\ \A w \in Work : requests[w] = Pr!Unborn
  BY <1>1 DEF Pr!Init
<1>3. ProcessTypes BY <1>1, <1>2 DEF ProcessTypes, Pr!Init
<1>4. \A w \in Work : Accounted(requests[w]) BY <1>1, <1>2 DEF Accounted
<1> QED BY <1>1, <1>2, <1>3, <1>4 DEF ProcessInv, Pr!Init

\* One turn moves on, the process as it was.
LEMMA TurnMoves ==
  ASSUME ProcessInv, NEW w \in Work, NEW q \in TurnType, Pr!Go(w, q),
         UNCHANGED <<main, settings, listener, overdue, writable>>,
         q.pc # "none" => q.at \in Endpoints, main = "starting" => q.pc = "none",
         Accounted(q)
  PROVE  ProcessInv'
<1>1. /\ requests' \in [Work -> TurnType] /\ requests'[w] = q
      /\ \A v \in Work : v # w => requests'[v] = requests[v]
  BY DEF Pr!Go, ProcessInv, ProcessTypes
<1>2. \A v \in Work : Accounted(requests'[v]) BY <1>1 DEF ProcessInv
<1>3. \A v \in Work : Accounted(requests[v])' BY <1>2 DEF Accounted
<1>4. ProcessTypes' BY <1>1 DEF ProcessInv, ProcessTypes
<1>5. main = "starting" => \A v \in Work : requests'[v].pc = "none" BY <1>1 DEF ProcessInv
<1> QED BY <1>3, <1>4, <1>5 DEF ProcessInv, Pr!selectPaymentGateway

LEMMA ProcessTurns ==
  ASSUME ProcessInv, NEW w \in Work,
         (\E e \in Endpoints : Pr!Accept(w, e)) \/ Pr!Answered(w) \/ Pr!Charge(w)
           \/ Pr!RecordClient(w) \/ Pr!EmitLog(w)
  PROVE  ProcessInv'
<1> DEFINE r == requests[w]
<1>0. r \in TurnType /\ Accounted(r) /\ (r.pc # "none" => r.at \in Endpoints /\ main # "starting")
  BY DEF ProcessInv, ProcessTypes
<1>a. /\ main \in {"starting", "serving", "draining", "closing", "exited"}
      /\ main \in {"starting", "serving", "draining"} => writable = {"usage", "log", "wallets"}
      /\ "log" \in writable => "wallets" \in writable
  BY DEF ProcessInv, ProcessTypes
<1>1. ASSUME NEW e \in Endpoints, Pr!Accept(w, e) PROVE ProcessInv'
  <2>1. PICK via \in {"http", "socket"} :
          Pr!Go(w, [Pr!Unborn EXCEPT !.pc = "answering", !.via = via, !.at = e])
    BY <1>1 DEF Pr!Accept
  <2> DEFINE q == [Pr!Unborn EXCEPT !.pc = "answering", !.via = via, !.at = e]
  <2>2. q \in TurnType /\ q.pc = "answering" /\ q.at = e /\ ~q.paid /\ q.row = "none"
    BY DEF Pr!Unborn, TurnType
  <2>3. main \in {"serving", "draining"} BY <1>1 DEF Pr!Accept, ProcessInv
  <2> HIDE DEF q
  <2>4. Accounted(q) BY <2>2, <2>3 DEF Accounted
  <2>5. UNCHANGED <<main, settings, listener, overdue, writable>> BY <1>1 DEF Pr!Accept
  <2>6. Pr!Go(w, q) BY <2>1 DEF q
  <2> QED BY <2>2, <2>3, <2>4, <2>5, <2>6, TurnMoves
<1>2. CASE Pr!Answered(w)
  <2> DEFINE q == [r EXCEPT !.pc = "charging"]
  <2>1. r.pc = "answering" /\ Pr!Go(w, q) /\ UNCHANGED <<main, settings, listener, overdue, writable>>
    BY <1>2 DEF Pr!Answered
  <2>2. /\ q \in TurnType /\ q.pc = "charging" /\ q.at = r.at /\ q.via = r.via /\ q.paid = r.paid
        /\ q.row = r.row
    BY <1>0 DEF TurnType
  <2> HIDE DEF q, r
  <2>3. Accounted(q) BY <1>0, <2>1, <2>2 DEF Accounted
  <2> QED BY <1>0, <2>1, <2>2, <2>3, TurnMoves
<1>3. CASE Pr!Charge(w)
  <2> DEFINE ok == "wallets" \in writable
             q == [r EXCEPT !.pc = "counting", !.paid = ok]
  <2>1. r.pc = "charging" /\ Pr!Go(w, q) /\ UNCHANGED <<main, settings, listener, overdue, writable>>
    BY <1>3 DEF Pr!Charge
  <2>2. ok \in BOOLEAN /\ (ok <=> "wallets" \in writable) OBVIOUS
  <2> HIDE DEF ok
  <2>3. /\ q \in TurnType /\ q.pc = "counting" /\ q.at = r.at /\ q.via = r.via /\ q.paid = ok
        /\ q.row = r.row
    BY <1>0, <2>2 DEF TurnType
  <2> HIDE DEF q, r
  <2>4. Accounted(q) BY <1>0, <1>a, <2>1, <2>2, <2>3 DEF Accounted
  <2> QED BY <1>0, <2>1, <2>3, <2>4, TurnMoves
<1>4. CASE Pr!RecordClient(w)
  <2> DEFINE ok == "usage" \in writable
             q == [r EXCEPT !.pc = "logging", !.counted = ok]
  <2>1. r.pc = "counting" /\ Pr!Go(w, q) /\ UNCHANGED <<main, settings, listener, overdue, writable>>
    BY <1>4 DEF Pr!RecordClient
  <2>2. ok \in BOOLEAN /\ (ok <=> "usage" \in writable) OBVIOUS
  <2> HIDE DEF ok
  <2>3. /\ q \in TurnType /\ q.pc = "logging" /\ q.at = r.at /\ q.via = r.via /\ q.paid = r.paid
        /\ q.row = r.row /\ q.counted = ok
    BY <1>0, <2>2 DEF TurnType
  <2> HIDE DEF q, r
  <2>4. Accounted(q) BY <1>0, <1>a, <2>1, <2>2, <2>3 DEF Accounted
  <2> QED BY <1>0, <2>1, <2>3, <2>4, TurnMoves
<1>5. CASE Pr!EmitLog(w)
  <2> DEFINE text == IF "log" \notin writable THEN "none" ELSE IF r.paid THEN "billed" ELSE "dropped"
             q == [r EXCEPT !.pc = "done", !.row = text]
  <2>1. r.pc = "logging" /\ Pr!Go(w, q) /\ UNCHANGED <<main, settings, listener, overdue, writable>>
    BY <1>5 DEF Pr!EmitLog
  <2>2. text = IF "log" \in writable THEN "billed" ELSE "none" BY <1>0, <2>1 DEF Accounted
  <2> HIDE DEF text
  <2>3. /\ q \in TurnType /\ q.pc = "done" /\ q.at = r.at /\ q.via = r.via /\ q.paid = r.paid
        /\ q.row = text /\ q.counted = r.counted
    BY <1>0, <2>2 DEF TurnType
  <2> HIDE DEF q, r
  <2>4. Accounted(q) BY <1>0, <1>a, <2>1, <2>2, <2>3 DEF Accounted
  <2> QED BY <1>0, <2>1, <2>3, <2>4, TurnMoves
<1> QED BY <1>1, <1>2, <1>3, <1>4, <1>5

\* The listeners and the wait.
LEMMA ProcessWaits ==
  ASSUME ProcessInv,
         Pr!StartsWith \/ Pr!Fatal \/ Pr!Signal \/ Pr!TimeUp
           \/ (\E e \in Endpoints : Pr!Listen(e) \/ Pr!ShutEndpoint(e))
  PROVE  ProcessInv'
<1> USE DEF ProcessInv
<1>1. requests' = requests /\ settings' = settings /\ writable' = writable
  BY DEF Pr!StartsWith, Pr!Fatal, Pr!Signal, Pr!TimeUp, Pr!Listen, Pr!ShutEndpoint
<1>2. Pr!selectPaymentGateway(settings)' <=> Pr!selectPaymentGateway(settings)
  BY <1>1
<1>3. CASE Pr!StartsWith \/ Pr!Fatal \/ Pr!Signal
  <2>1. /\ listener' = listener /\ overdue' = overdue
        /\ \/ main = "starting" /\ main' = "serving" /\ Pr!selectPaymentGateway(settings)
           \/ main = "starting" /\ main' = "exited"
           \/ main = "serving" /\ main' = "draining"
    BY <1>3 DEF Pr!StartsWith, Pr!Fatal, Pr!Signal
  <2>2. ProcessTypes' BY <1>1, <2>1 DEF ProcessTypes
  <2>3. \A w \in Work : Accounted(requests[w])'
    <3>1. ASSUME NEW w \in Work, main' = "exited" PROVE requests[w].pc = "none" BY <2>1, <3>1
    <3>2. main' # "closing" BY <2>1
    <3> QED BY <1>1, <2>1, <3>1, <3>2 DEF Accounted
  <2> QED BY <1>1, <1>2, <2>1, <2>2, <2>3
<1>4. CASE Pr!TimeUp
  <2>1. main = "draining" /\ main' = main /\ listener' = listener /\ overdue' = TRUE BY <1>4 DEF Pr!TimeUp
  <2>2. ProcessTypes' BY <1>1, <2>1 DEF ProcessTypes
  <2>3. \A w \in Work : Accounted(requests[w])' BY <1>1, <2>1 DEF Accounted
  <2> QED BY <1>1, <1>2, <2>1, <2>2, <2>3
<1>5. ASSUME NEW e \in Endpoints, Pr!Listen(e) \/ Pr!ShutEndpoint(e) PROVE ProcessInv'
  <2>1. PICK s \in {"up", "failed", "closed"} : listener' = [listener EXCEPT ![e] = s]
    BY <1>5 DEF Pr!Listen, Pr!ShutEndpoint
  <2>2. main \in {"serving", "draining"} /\ main' = main /\ overdue' = overdue
    BY <1>5 DEF Pr!Listen, Pr!ShutEndpoint
  <2>3. ProcessTypes' BY <1>1, <2>1, <2>2 DEF ProcessTypes
  <2>4. \A w \in Work : Accounted(requests[w])' BY <1>1, <2>2 DEF Accounted
  <2> QED BY <1>1, <1>2, <2>2, <2>3, <2>4
<1> QED BY <1>3, <1>4, <1>5

\* What is closed after the wait.
LEMMA ProcessCloses ==
  ASSUME ProcessInv, Pr!Close \/ Pr!CloseNext \/ Pr!Exit
  PROVE  ProcessInv'
<1> USE DEF ProcessInv
<1>1. listener' = listener /\ settings' = settings /\ overdue' = overdue
  BY DEF Pr!Close, Pr!CloseNext, Pr!Exit
<1>2. CASE Pr!Close
  <2>1. /\ main = "draining" /\ main' = "closing" /\ requests' = requests /\ writable' = writable
        /\ \A e \in Endpoints : listener[e] = "closed" /\ (overdue \/ ~Pr!Busy(e))
    BY <1>2 DEF Pr!Close, Pr!Drained
  <2>2. ProcessTypes' BY <1>1, <2>1 DEF ProcessTypes
  <2>3. ASSUME NEW w \in Work PROVE Accounted(requests[w])'
    <3>1. ASSUME requests[w].via = "http", ~overdue, requests[w].pc # "none"
          PROVE  requests[w].pc = "done"
      <4>1. requests[w].at \in Endpoints BY <3>1 DEF ProcessTypes
      <4> QED BY <2>1, <3>1, <4>1 DEF Pr!Busy
    <3>2. Accounted(requests[w]) OBVIOUS
    <3> QED BY <1>1, <2>1, <3>1, <3>2 DEF Accounted
  <2> QED BY <1>1, <2>1, <2>2, <2>3
<1>3. CASE Pr!CloseNext
  <2>1. /\ main = "closing" /\ main' = main /\ requests' = requests
        /\ writable' \subseteq writable /\ ("log" \in writable' => "wallets" \in writable')
    BY <1>3 DEF Pr!CloseNext
  <2>2. ProcessTypes' BY <1>1, <2>1 DEF ProcessTypes
  <2>3. \A w \in Work : Accounted(requests[w])' BY <1>1, <2>1 DEF Accounted
  <2> QED BY <1>1, <2>1, <2>2, <2>3
<1>4. CASE Pr!Exit
  <2> DEFINE cut(w) == [requests[w] EXCEPT !.pc = "cut"]
  <2>1. /\ main = "closing" /\ main' = "exited" /\ writable' = writable /\ writable = {}
        /\ requests' = [w \in Work |-> IF requests[w].pc \in {"none", "done"} THEN requests[w] ELSE cut(w)]
    BY <1>4 DEF Pr!Exit
  <2>2. ASSUME NEW w \in Work
        PROVE  /\ cut(w) \in TurnType /\ cut(w).pc = "cut" /\ cut(w).via = requests[w].via
               /\ cut(w).at = requests[w].at /\ cut(w).row = requests[w].row /\ cut(w).paid = requests[w].paid
    <3>1. requests[w] \in TurnType BY DEF ProcessTypes
    <3> QED BY <3>1 DEF TurnType
  <2> HIDE DEF cut
  <2>3. requests' \in [Work -> TurnType] BY <2>1, <2>2 DEF ProcessTypes
  <2>4. ASSUME NEW w \in Work
        PROVE  (requests'[w].pc # "none" => requests'[w].at \in Endpoints) /\ Accounted(requests[w])'
    <3>1. CASE requests[w].pc \in {"none", "done"}
      <4>1. requests'[w] = requests[w] BY <2>1, <3>1
      <4> QED BY <1>1, <2>1, <4>1 DEF ProcessTypes, Accounted
    <3>2. CASE requests[w].pc \notin {"none", "done"}
      <4>1. requests'[w] = cut(w) BY <2>1, <3>2
      <4>2. Accounted(requests[w]) OBVIOUS
      <4>3. ~(requests[w].via = "http" /\ ~overdue) BY <2>1, <3>2, <4>2 DEF Accounted
      <4>4. Accounted(requests[w])' BY <1>1, <2>1, <2>2, <4>1, <4>2, <4>3 DEF Accounted
      <4> QED BY <2>2, <3>2, <4>1, <4>4 DEF ProcessTypes
    <3> QED BY <3>1, <3>2
  <2>5. ProcessTypes' BY <1>1, <2>1, <2>3, <2>4 DEF ProcessTypes
  <2> QED BY <1>1, <2>1, <2>4, <2>5
<1> QED BY <1>2, <1>3, <1>4

LEMMA ProcessStep == ASSUME ProcessInv, Pr!Next \/ UNCHANGED process PROVE ProcessInv'
<1>1. CASE Pr!Next BY <1>1, ProcessTurns, ProcessWaits, ProcessCloses DEF Pr!Next
<1>2. CASE UNCHANGED process
  <2>1. UNCHANGED <<main, settings, listener, overdue, writable, requests>> BY <1>2 DEF process
  <2> QED BY <2>1 DEF ProcessInv, ProcessTypes, Accounted
<1> QED BY <1>1, <1>2

-----------------------------------------------------------------------------
(* The instances of MCServer.                                               *)

\* A behaviour runs one component: the others stay as they are.

LEMMA RelaySafe == MCSpec => [](component = "relay" => RelayInv)
<1> DEFINE Safe == component = "relay" => RelayInv
<1>1. MCInit => Safe BY RelayInit DEF MCInit
<1>2. Safe /\ [MCNext]_all => Safe'
  <2> SUFFICES ASSUME Safe, [MCNext]_all, component' = "relay" PROVE RelayInv' OBVIOUS
  <2>1. component = "relay" /\ (R!Next \/ UNCHANGED relay) BY DEF MCNext, all
  <2> QED BY <2>1, RelayStep
<1> QED BY <1>1, <1>2, PTL DEF MCSpec

LEMMA ClaudeSafe == MCSpec => [](component = "claude" => ClaudeInv)
<1> DEFINE Safe == component = "claude" => ClaudeInv
<1>1. MCInit => Safe BY ClaudeInit DEF MCInit
<1>2. Safe /\ [MCNext]_all => Safe'
  <2> SUFFICES ASSUME Safe, [MCNext]_all, component' = "claude" PROVE ClaudeInv' OBVIOUS
  <2>1. component = "claude" /\ (Cl!Next \/ UNCHANGED answer) BY DEF MCNext, all
  <2> QED BY <2>1, ClaudeStep
<1> QED BY <1>1, <1>2, PTL DEF MCSpec

\* Nothing of a Codex turn is sent while another credential may serve it, a
\* caller of its own format reads the upstream's lines in order, nothing follows
\* a refusal, and no code that ends a session goes out; a Claude answer comes of
\* one credential and is billed once, for the usage the upstream reported
\* (codex_proxy.go, codex_chat_bridge.go, proxy.go).
THEOREM StreamsAreWholeAndBilled == MCSpec => []RelayHolds
<1>1. (component = "relay" => RelayInv) /\ (component = "claude" => ClaudeInv) => RelayHolds
  BY RelayIsHeld, ClaudeIsHeld DEF RelayHolds
<1> QED BY <1>1, RelaySafe, ClaudeSafe, PTL

LEMMA IntegritySafe == MCSpec => [](component = "integrity" => IntegrityInv)
<1> DEFINE Safe == component = "integrity" => IntegrityInv
<1>1. MCInit => Safe BY IntegrityInit DEF MCInit
<1>2. Safe /\ [MCNext]_all => Safe'
  <2> SUFFICES ASSUME Safe, [MCNext]_all, component' = "integrity" PROVE IntegrityInv' OBVIOUS
  <2>1. component = "integrity" /\ (In!Next \/ UNCHANGED integrity) BY DEF MCNext, all
  <2> QED BY <2>1, IntegrityStep
<1> QED BY <1>1, <1>2, PTL DEF MCSpec

LEMMA SnapshotsSafe == MCSpec => [](component = "snapshots" => SnapshotsInv)
<1> DEFINE Safe == component = "snapshots" => SnapshotsInv
<1>1. MCInit => Safe BY SnapshotsInit DEF MCInit
<1>2. Safe /\ [MCNext]_all => Safe'
  <2> SUFFICES ASSUME Safe, [MCNext]_all, component' = "snapshots" PROVE SnapshotsInv' OBVIOUS
  <2>1. component = "snapshots" /\ (Sn!Next \/ UNCHANGED dailies) BY DEF MCNext, all
  <2> QED BY <2>1, SnapshotsStep
<1> QED BY <1>1, <1>2, PTL DEF MCSpec

LEMMA ArchiveSafe == MCSpec => [](component = "archive" => ArchiveInv)
<1> DEFINE Safe == component = "archive" => ArchiveInv
<1>1. MCInit => Safe BY ArchiveInit DEF MCInit
<1>2. Safe /\ [MCNext]_all => Safe'
  <2> SUFFICES ASSUME Safe, [MCNext]_all, component' = "archive" PROVE ArchiveInv' OBVIOUS
  <2>1. component = "archive" /\ (Ar!Next \/ UNCHANGED archive) BY DEF MCNext, all
  <2> QED BY <2>1, ArchiveStep
<1> QED BY <1>1, <1>2, PTL DEF MCSpec

LEMMA SchemaSafe == MCSpec => [](component = "migrations" => SchemaInv)
<1> DEFINE Safe == component = "migrations" => SchemaInv
<1>1. MCInit => Safe BY SchemaInit DEF MCInit
<1>2. Safe /\ [MCNext]_all => Safe'
  <2> SUFFICES ASSUME Safe, [MCNext]_all, component' = "migrations" PROVE SchemaInv' OBVIOUS
  <2>1. component = "migrations" /\ (Mi!Next \/ UNCHANGED schema) BY DEF MCNext, all
  <2> QED BY <2>1, SchemaStep
<1> QED BY <1>1, <1>2, PTL DEF MCSpec

LEMMA ProcessSafe == MCSpec => [](component = "process" => ProcessInv)
<1> DEFINE Safe == component = "process" => ProcessInv
<1>1. MCInit => Safe BY ProcessInit DEF MCInit
<1>2. Safe /\ [MCNext]_all => Safe'
  <2> SUFFICES ASSUME Safe, [MCNext]_all, component' = "process" PROVE ProcessInv' OBVIOUS
  <2>1. component = "process" /\ (Pr!Next \/ UNCHANGED process) BY DEF MCNext, all
  <2> QED BY <2>1, ProcessStep
<1> QED BY <1>1, <1>2, PTL DEF MCSpec

\* Repairs and pages keep their cooldowns and a damaged file is given up on; a
\* snapshot run destroys none but its own day's; what is shipped restores what
\* the configuration has; every migration is applied once, in order, and moves
\* all the money; a stop that is not late charges and logs every HTTP request
\* (integrity.go, backup.go, archive.go, migrations.go, main.go).
THEOREM DatabasesStayRecoverable == MCSpec => []StorageHolds
<1>1. (component = "integrity" => IntegrityInv) /\ (component = "snapshots" => SnapshotsInv) /\ (component = "archive" => ArchiveInv) /\ (component = "migrations" => SchemaInv) /\ (component = "process" => ProcessInv) => StorageHolds
  BY IntegrityIsHeld, SnapshotsAreHeld, ArchiveIsHeld, SchemaIsHeld, ProcessIsHeld DEF StorageHolds
<1> QED BY <1>1, IntegritySafe, SnapshotsSafe, ArchiveSafe, SchemaSafe, ProcessSafe, PTL
=============================================================================
