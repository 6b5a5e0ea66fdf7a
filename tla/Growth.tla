------------------------------- MODULE Growth -------------------------------
(***************************************************************************)
(* Signup bonuses: a registration looks at the devices of earlier ones,    *)
(* records its own, converts its visit to a marketing channel and is       *)
(* credited, each in a statement of its own, while others do the same and  *)
(* the operator edits the channel.  Registrations without a channel get    *)
(* the trial credit.  The wallet is modelled by the credits it receives.   *)
(***************************************************************************)
EXTENDS Naturals, Sequences, FiniteSets

CONSTANTS
  Users,
  Origins,               \* users -> [fp, net, domain], the registrations tried
  NoFp,                  \* no fingerprint was sent
  Disposable, FreeMail,  \* e-mail domains
  SubnetThreshold, EmailDomainThreshold, Window, RequireFingerprint,
  TrialBonus,
  Channels,              \* [bonus, enabled] a channel may have
  MaxTime, MaxEdits, MaxCrashes  \* bounds: clock, channel edits, crashes

GrowthAssumption ==
  /\ IsFiniteSet(Users) /\ "nobody" \notin Users
  /\ SubnetThreshold \in Nat /\ EmailDomainThreshold \in Nat /\ Window \in Nat

VARIABLES
  now,
  channel,   \* the channel as a sequence of one, or empty
  visit,     \* the visit of one visitor: [stage, dwell, by]
  signup,    \* [stage, ref, fraud, ch] of each registration
  from,      \* user -> where the registration comes from
  device,    \* user -> [fraud, at] of its device row, or empty
  referral,  \* user -> bonus of its conversion, or empty
  credit,    \* user -> credits received: [kind, usd]
  earlier,   \* history: user -> registrations that had ended when it began
  failed,    \* history: users a statement failed for, or the server died on
  edits, crashes

vars == <<now, channel, visit, signup, from, device, referral, credit, earlier, failed, edits, crashes>>

Nobody == "nobody"
Idle == [stage |-> "new", ref |-> FALSE, fraud |-> FALSE, ch |-> << >>]

Init ==
  /\ now = 0 /\ channel = << >> /\ visit = [stage |-> "none", dwell |-> 0, by |-> Nobody]
  /\ signup = [u \in Users |-> Idle] /\ from \in Origins
  /\ device = [u \in Users |-> << >>] /\ referral = [u \in Users |-> << >>]
  /\ credit = [u \in Users |-> << >>] /\ earlier = [u \in Users |-> {}] /\ failed = {}
  /\ edits = 0 /\ crashes = 0

At(u, stage) == signup[u].stage = stage
Ended == {u \in Users : At(u, "done")}
Set(u, s) == signup' = [signup EXCEPT ![u] = s]
Go(u, stage) == Set(u, [signup[u] EXCEPT !.stage = stage])
World == <<now, channel, visit, from, edits, crashes>>

-----------------------------------------------------------------------------
\* RecordSignupDevice: the rules in their order, each over one statement.
Others(u) == {v \in Users \ {u} : device[v] # << >>}
Recent(u) == {v \in Others(u) : device[v][1].at + Window >= now}
fingerprintSeen(u) == \E v \in Others(u) : from[v].fp = from[u].fp
subnetBurst(u) == Cardinality({v \in Recent(u) : from[v].net = from[u].net}) >= SubnetThreshold
domainBurst(u) ==
  Cardinality({v \in Recent(u) : from[v].domain = from[u].domain}) >= EmailDomainThreshold

\* The address and the fingerprint.
Look(u, ref) ==
  /\ At(u, "new")
  /\ Set(u, [Idle EXCEPT !.stage = "looking", !.ref = ref,
                         !.fraud = \/ from[u].domain \in Disposable
                                   \/ from[u].fp # NoFp /\ fingerprintSeen(u)
                                   \/ from[u].fp = NoFp /\ RequireFingerprint])
  /\ earlier' = [earlier EXCEPT ![u] = Ended]
  /\ UNCHANGED <<World, device, referral, credit, failed>>

\* The subnet and the domain.
LookForBursts(u) ==
  /\ At(u, "looking")
  /\ Set(u, [signup[u] EXCEPT !.stage = "judged",
                              !.fraud = \/ @ \/ subnetBurst(u)
                                        \/ from[u].domain \notin FreeMail /\ domainBurst(u)])
  /\ UNCHANGED <<World, device, referral, credit, earlier, failed>>

\* The device row is always inserted; an error does not change the verdict.
RecordDevice(u) ==
  /\ At(u, "judged")
  /\ Go(u, "recorded")
  /\ \/ device' = [device EXCEPT ![u] = <<[fraud |-> signup[u].fraud, at |-> now]>>] /\ UNCHANGED failed
     \/ failed' = failed \cup {u} /\ UNCHANGED device
  /\ UNCHANGED <<World, referral, credit, earlier>>

\* GrantSignupBonus reads the channel.  A disabled one owns the registration
\* and pays nothing; without a channel the trial credit is due.
ReadChannel(u) ==
  /\ At(u, "recorded")
  /\ IF ~signup[u].ref \/ channel = << >> THEN Go(u, "organic")
     ELSE IF ~channel[1].enabled THEN Go(u, "done")
     ELSE Set(u, [signup[u] EXCEPT !.stage = "matched", !.ch = channel])
  /\ UNCHANGED <<World, device, referral, credit, earlier, failed>>

\* RecordConversion: the referral row, with the bonus that will be paid, and
\* the first conversion of the visit.
RecordConversion(u) ==
  LET bonus == IF signup[u].fraud THEN 0 ELSE signup[u].ch[1].bonus
      first == referral[u] = << >> IN
  /\ At(u, "matched")
  /\ \/ /\ referral' = IF first THEN [referral EXCEPT ![u] = <<bonus>>] ELSE referral
        /\ visit' = IF first /\ visit.stage = "seen" /\ visit.by = Nobody
                    THEN [visit EXCEPT !.by = u] ELSE visit
        /\ Go(u, IF first /\ bonus > 0 THEN "converted" ELSE "done")
        /\ UNCHANGED failed
     \/ failed' = failed \cup {u} /\ Go(u, "done") /\ UNCHANGED <<referral, visit>>
  /\ UNCHANGED <<now, channel, from, edits, crashes, device, credit, earlier>>

\* AddBalance of the channel's bonus, or of the trial credit (register).
Credit(u, stage, kind, usd) ==
  /\ At(u, stage)
  /\ Go(u, "done")
  /\ \/ credit' = [credit EXCEPT ![u] = Append(@, [kind |-> kind, usd |-> usd])] /\ UNCHANGED failed
     \/ failed' = failed \cup {u} /\ UNCHANGED credit
  /\ UNCHANGED <<World, device, referral, earlier>>

PayBonus(u) == Credit(u, "converted", "channel", signup[u].ch[1].bonus)

PayTrial(u) == ~signup[u].fraud /\ TrialBonus > 0 /\ Credit(u, "organic", "trial", TrialBonus)

NoTrial(u) ==
  /\ At(u, "organic")
  /\ signup[u].fraud \/ TrialBonus = 0
  /\ Go(u, "done")
  /\ UNCHANGED <<World, device, referral, credit, earlier, failed>>

-----------------------------------------------------------------------------
Rest == <<signup, from, device, referral, credit, earlier, failed>>

\* trackVisit checks the channel and then inserts the visit.
CheckVisit ==
  /\ visit.stage = "none"
  /\ channel # << >> /\ channel[1].enabled
  /\ visit' = [visit EXCEPT !.stage = "checked"]
  /\ UNCHANGED <<now, channel, edits, crashes, Rest>>

RecordVisit ==
  /\ visit.stage = "checked"
  /\ visit' = [visit EXCEPT !.stage = "seen"]
  /\ UNCHANGED <<now, channel, edits, crashes, Rest>>

\* trackPing, AccumulateDwell: nothing for a visit there is not.
AccumulateDwell ==
  /\ visit.stage = "seen"
  /\ visit' = [visit EXCEPT !.dwell = 1]
  /\ UNCHANGED <<now, channel, edits, crashes, Rest>>

\* CreateChannel, UpdateChannel.
SetChannel(c) ==
  /\ edits < MaxEdits /\ edits' = edits + 1
  /\ channel' = <<c>>
  /\ UNCHANGED <<now, visit, crashes, Rest>>

\* DeleteChannel leaves visits and referrals.
DeleteChannel ==
  /\ edits < MaxEdits /\ edits' = edits + 1
  /\ channel # << >> /\ channel' = << >>
  /\ UNCHANGED <<now, visit, crashes, Rest>>

Tick == now < MaxTime /\ now' = now + 1 /\ UNCHANGED <<channel, visit, edits, crashes, Rest>>

\* A crash leaves the registrations under way where they are.
Crash ==
  LET cut == {u \in Users : signup[u].stage \notin {"new", "done"}} IN
  /\ crashes < MaxCrashes /\ crashes' = crashes + 1
  /\ cut # {}
  /\ signup' = [u \in Users |-> IF u \in cut THEN [signup[u] EXCEPT !.stage = "done"] ELSE signup[u]]
  /\ failed' = failed \cup cut
  /\ UNCHANGED <<now, channel, visit, from, device, referral, credit, earlier, edits>>

Next ==
  \/ \E u \in Users :
       \/ \E ref \in BOOLEAN : Look(u, ref)
       \/ LookForBursts(u) \/ RecordDevice(u) \/ ReadChannel(u) \/ RecordConversion(u)
       \/ PayBonus(u) \/ PayTrial(u) \/ NoTrial(u)
  \/ CheckVisit \/ RecordVisit \/ AccumulateDwell
  \/ (\E c \in Channels : SetChannel(c)) \/ DeleteChannel \/ Tick \/ Crash

Spec == Init /\ [][Next]_vars

-----------------------------------------------------------------------------
TypeOK ==
  /\ visit.by \in Users \cup {Nobody}
  /\ \A u \in Users : signup[u].stage \in
       {"new", "looking", "judged", "recorded", "organic", "matched", "converted", "done"}

Paid(u) == credit[u] # << >>

\* A registration is paid once, by the channel or the trial and never both;
\* a channel's payment is the bonus on record, and a bonus on record is paid
\* unless a statement failed or the server died.
PaidAsRecorded ==
  \A u \in Users :
    /\ Len(credit[u]) <= 1
    /\ Paid(u) => /\ device[u] # << >> => ~device[u][1].fraud
                  /\ referral[u] = IF credit[u][1].kind = "trial" THEN << >> ELSE <<credit[u][1].usd>>
    /\ At(u, "done") /\ ~Paid(u) /\ referral[u] # << >> /\ referral[u][1] > 0 => u \in failed

\* A visit belongs to one registration, which is on record as its conversion.
VisitConvertedOnce == visit.by # Nobody => referral[visit.by] # << >> /\ visit.stage = "seen"

\* Of two registrations of one device, one after the other, one at most is
\* paid; a burst of paid ones from a subnet or a domain stays under its
\* threshold.  Only concurrent ones and failed statements get by.
Traced(u) == earlier[u] \ failed
SerialAbuseUnpaid ==
  \A u \in Users : Paid(u) =>
    /\ from[u].fp # NoFp => \A v \in Traced(u) : from[v].fp # from[u].fp
    /\ LET near == {v \in Traced(u) : device[v][1].at + Window >= now} IN
       /\ Cardinality({v \in near : from[v].net = from[u].net}) < SubnetThreshold
       /\ from[u].domain \notin FreeMail =>
            Cardinality({v \in near : from[v].domain = from[u].domain}) < EmailDomainThreshold

GrowthHolds == TypeOK /\ PaidAsRecorded /\ VisitConvertedOnce /\ SerialAbuseUnpaid
=============================================================================
