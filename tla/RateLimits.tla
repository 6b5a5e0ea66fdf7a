----------------------------- MODULE RateLimits -----------------------------
(***************************************************************************)
(* The in-memory rate limiters: the sliding windows in front of emailed    *)
(* codes (auth/ratelimit.go) and of support appeals (support/ratelimit.go),*)
(* which share one algorithm, the window on gift claims                    *)
(* (referral/ratelimit.go) and the fixed window on single sign-on codes    *)
(* (userRateLimiter in adapter/sso.go).                                    *)
(*                                                                         *)
(* Time is counted in ticks; several calls may fall in one tick.  A list   *)
(* of time stamps is the number of calls of each tick.  Every limiter      *)
(* answers under its own mutex, so a call is one step.                     *)
(***************************************************************************)
EXTENDS Functions

CONSTANTS
  Emails, IPs,   \* keys of a sliding limiter
  NoIP,          \* the empty client address, which is exempt
  EmailWins,     \* set of [max, width] windows per email
  IpWins,        \* set of [max, width] windows per address
  Longest,       \* width of the longest window, past which gcLocked drops
  ClaimMax, ClaimWidth,   \* claimLimiter
  UserMax, UserWidth,     \* userRateLimiter
  MaxTime        \* bound: the clock

VARIABLES
  now,
  events,      \* codeRateLimiter.events, per email and per address
  hits,        \* claimLimiter.hits of one (user, address) key
  window,      \* userRateLimiter.windows of one user: [start, count]
  asked,       \* all calls the sliding limiter admitted since the start
  claimed,     \* all calls claimLimiter admitted
  minted,      \* all calls userRateLimiter admitted
  refused      \* what the last call was refused for, or "no"

vars == <<now, events, hits, window, asked, claimed, minted, refused>>

LimiterKeys == Emails \cup IPs
Times == 0..MaxTime
NoWindow == [start |-> 0, count |-> 0]
NoCalls == [t \in Times |-> 0]

\* The keys are told apart by a prefix, e: or i:, and a window is no longer
\* than the longest, past which gcLocked drops.
RateLimitsAssumption ==
  /\ Emails \cap IPs = {} /\ NoIP \notin LimiterKeys
  /\ {"no", "claim", "user"} \cap LimiterKeys = {}
  /\ EmailWins \cup IpWins \subseteq [max : Nat, width : 1..Longest]
  /\ {Longest, MaxTime} \subseteq Nat
  /\ {ClaimMax, ClaimWidth, UserMax, UserWidth} \subseteq Nat \ {0}

Init ==
  /\ now = 0
  /\ events = [k \in LimiterKeys |-> NoCalls]
  /\ hits = NoCalls
  /\ window = NoWindow
  /\ asked = [k \in LimiterKeys |-> NoCalls]
  /\ claimed = NoCalls
  /\ minted = NoCalls
  /\ refused = "no"

-----------------------------------------------------------------------------
\* The times less than `width` ticks ago: t.After(now - width).
Since(width) == {t \in Times : t + width > now}

\* How many of `calls` are that recent.
Recent(calls, width) == SumFunctionOnSet(calls, Since(width))

\* What is left of `calls` when older ones are dropped, and one call more.
Kept(calls, width) == [t \in Times |-> IF t \in Since(width) THEN calls[t] ELSE 0]
Record(calls) == [calls EXCEPT ![now] = @ + 1]

\* check: every window has room for one more call.
check(calls, wins) == \A w \in wins : Recent(calls, w.width) < w.max

\* Mutant: stamps are dropped at the shortest window.
gcAtMinute == [k \in LimiterKeys |-> Kept(events[k], 1)]

\* gcLocked: drop what is older than the longest window.
gcLocked == [k \in LimiterKeys |-> Kept(events[k], Longest)]

\* allow: the email's windows, then the address's; the call is recorded under
\* both keys only when all of them have room.
Allow(e, ip) ==
  LET live == gcLocked
      keys == IF ip = NoIP THEN {e} ELSE {e, ip}
      ok == /\ check(live[e], EmailWins)
            /\ ip # NoIP => check(live[ip], IpWins)
  IN /\ events' = IF ok THEN [k \in LimiterKeys |-> IF k \in keys THEN Record(live[k]) ELSE live[k]]
                        ELSE live
     /\ asked' = IF ok THEN [k \in LimiterKeys |-> IF k \in keys THEN Record(asked[k]) ELSE asked[k]]
                       ELSE asked
     /\ refused' = IF ok THEN "no" ELSE IF check(live[e], EmailWins) THEN ip ELSE e
     /\ UNCHANGED <<now, hits, window, claimed, minted>>

\* claimLimiter.allow: a stamp exactly `ClaimWidth` old still counts.
ClaimAllow ==
  LET kept == Kept(hits, ClaimWidth + 1)
      ok == Recent(hits, ClaimWidth + 1) < ClaimMax
  IN /\ hits' = IF ok THEN Record(kept) ELSE kept
     /\ claimed' = IF ok THEN Record(claimed) ELSE claimed
     /\ refused' = IF ok THEN "no" ELSE "claim"
     /\ UNCHANGED <<now, events, window, asked, minted>>

\* claimLimiter.gc: forget a key whose newest stamp has aged out.
ClaimGc ==
  /\ hits # NoCalls
  /\ \A t \in Since(ClaimWidth + 1) : hits[t] = 0
  /\ hits' = NoCalls
  /\ UNCHANGED <<now, events, window, asked, claimed, minted, refused>>

\* userRateLimiter.allow: a window starts with the first call after the last.
UserAllow ==
  LET fresh == window = NoWindow \/ now - window.start >= UserWidth
      ok == fresh \/ window.count < UserMax
  IN /\ window' = IF fresh THEN [start |-> now, count |-> 1]
                  ELSE IF ok THEN [window EXCEPT !.count = @ + 1] ELSE window
     /\ minted' = IF ok THEN Record(minted) ELSE minted
     /\ refused' = IF ok THEN "no" ELSE "user"
     /\ UNCHANGED <<now, events, hits, asked, claimed>>

Tick ==
  /\ now < MaxTime
  /\ now' = now + 1
  /\ refused' = "no"
  /\ UNCHANGED <<events, hits, window, asked, claimed, minted>>

Next ==
  \/ \E e \in Emails, ip \in IPs \cup {NoIP} : Allow(e, ip)
  \/ ClaimAllow
  \/ ClaimGc
  \/ UserAllow
  \/ Tick

Spec == Init /\ [][Next]_vars

-----------------------------------------------------------------------------
TypeOK ==
  /\ now \in Times
  /\ events \in [LimiterKeys -> [Times -> Nat]] /\ hits \in [Times -> Nat]
  /\ window.start \in 0..now /\ window.count \in 0..UserMax
  /\ refused \in {"no", "claim", "user"} \cup LimiterKeys

\* Whatever the limiters forget, the calls they really let through never
\* exceed a window: one code a minute and five an hour per email, ten an hour
\* and fifty a day per address, eight gift claims a minute.
WindowsKept ==
  /\ \A e \in Emails, w \in EmailWins : Recent(asked[e], w.width) <= w.max
  /\ \A i \in IPs, w \in IpWins : Recent(asked[i], w.width) <= w.max
  /\ Recent(claimed, ClaimWidth + 1) <= ClaimMax

\* The fixed window lets at most twice its limit through in its width, the
\* factor its comment accepts.
TwiceAtMost == Recent(minted, UserWidth) <= 2 * UserMax

\* A refusal is earned: calls really let through fill a window of the key it
\* names, so a refused call never extends its own penalty, nor is an email
\* charged for a call its address was refused.
RefusalEarned ==
  /\ refused \in Emails => ~check(asked[refused], EmailWins)
  /\ refused \in IPs => ~check(asked[refused], IpWins)
  /\ refused = "claim" => Recent(claimed, ClaimWidth + 1) >= ClaimMax
  /\ refused = "user" => Recent(minted, UserWidth) >= UserMax

\* The limiters do their work, by their own account and by the calls' history.
LimitsHold == TypeOK /\ WindowsKept /\ TwiceAtMost /\ RefusalEarned
=============================================================================
