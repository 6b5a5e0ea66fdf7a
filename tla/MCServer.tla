------------------------------ MODULE MCServer ------------------------------
(***************************************************************************)
(* Instances for TLC of the server around the wallet: the Codex and Claude *)
(* relays, the credentials and caches behind them, the databases and their *)
(* copies, the shop, the help desk, signups, analytics, the arena.  They   *)
(* share no state, so each behaviour runs one of them, chosen in MCInit.   *)
(* The variables stand in the order of the components below, and of their  *)
(* modules; a name that another component has taken is replaced.           *)
(***************************************************************************)
EXTENDS Shop, TLC

CONSTANTS
  MaxEvents,                                            \* the Codex relays
  Single, Couple,                                       \* the bounds of the WebSocket sessions
  Bearers, Threshold, MaxTokens,                        \* the tokens of a credential
  CodexKeys, Models, PlanModels, RelayModels, KeyOnly, Base,   \* the catalogue of models
  ClaudeCreds, Kind, MaxUsage, MaxTurns,                \* the Claude relay
  Convs, Callers, Trusted, Openings, FanCreds, Buckets, Bucket, MaxSeen, MaxChats,
  MaxFailures,                                          \* the fan-out of conversations
  OAuthNames, KeyNames, Holders, Editors, MaxObjects, MaxEdits,   \* the credential files
  Auths, Checked, Judged, Cap, MaxChanges,              \* the health checker
  Cached, Panels, Ttl, MaxStale, MaxEntries, MaxTime, MaxVersions,   \* the caches
  Conns, Reporters, RecoverCooldown, MaxRecoverAttempts, AttemptReset, AlertCooldown,
  MaxUnlinks, MaxInstants,                              \* the corruption detector
  Keep, MaxCrashes, MaxDay, Secrets,                    \* the snapshots and the archive
  Openers, Binary, Members, Rows, Owner, Ref, NoToken, MaxOpens,   \* the migrations
  Endpoints, Work, Configs,                             \* the process
  Tickets, MaxMessages, MaxSeconds,                     \* the help desk
  Players, Hits, Viewers, RingSize, Buffer,             \* the arena
  Newcomers, Origins, NoFp, Disposable, FreeMail, SubnetThreshold, EmailDomainThreshold,
  Window, RequireFingerprint, TrialBonus, Channels, MaxHours, MaxChannelEdits,
  MaxDeaths,                                            \* the signups
  Sids, Labels, MaxDwell, MaxHops, MaxHits, MaxBoots,    \* the visitors
  m1, m2, n1, n2

VARIABLES
  component,
  style, capped, at, event, waiting, preamble, shedding, shed, usage, received, passed,
  terminal, ended,
  ses, inflight, bound,
  token, alive, strikes, hard, cooling, gate, bearer,
  enabled, offers, catalog, stale, rested, refresh, steady, since, verdict,
  turn, stage, cred, tried, signed, sent, strip, truth, counts, display, finished,
  bills, unbilled, weekly,
  who, opening, last, sticky, seen, failures, moved, strayed,
  file, heap, pool, job, locked, overlapped,
  live, disabled, wanted, row, history, running, queue, work, judged, touched, cycles,
  changes,
  policy, moment, data, entry, flight, warming, caller, latest, repeated,
  instant, damaged, replaced, busy, draining, reporter, tripped, lastAlert, healer,
  lastAttempt, attempts, recycles, pages, unanswered, unlinks,
  day, snapshots, runner, before, done, clock, crashes,
  stores, files, command, entries, copied,
  version, applied, purse, space, txs, opener, copies, opens,
  main, settings, listener, overdue, writable, requests,
  second, ticket, thread, reading, displayed, covered,
  profile, hit, ring, viewer, hub, lost, owed, refused, opted,
  hour, channel, visit, signup, from, device, referral, credit, earlier, failed, edits,
  deaths,
  rows, events, store, boots, told, longest, severed

relay == <<style, capped, at, event, waiting, preamble, shedding, shed, usage, received,
           passed, terminal, ended>>
sockets == <<ses, inflight, bound>>
grants == <<token, alive, strikes, hard, cooling, gate, bearer>>
served == <<enabled, offers, catalog, stale, rested, refresh, steady, since, verdict>>
answer == <<turn, stage, cred, tried, signed, sent, strip, truth, counts, display,
            finished, bills, unbilled, weekly>>
slots == <<who, opening, last, sticky, seen, failures, moved, strayed>>
pooled == <<file, heap, pool, job, locked, overlapped>>
health == <<live, disabled, wanted, row, history, running, queue, work, judged, touched,
            cycles, changes>>
caches == <<policy, moment, data, entry, flight, warming, caller, latest, repeated>>
integrity == <<instant, damaged, replaced, busy, draining, reporter, tripped, lastAlert,
               healer, lastAttempt, attempts, recycles, pages, unanswered, unlinks>>
dailies == <<day, snapshots, runner, before, done, clock, crashes>>
archive == <<stores, files, command, entries, copied>>
schema == <<version, applied, purse, space, txs, opener, copies, opens>>
process == <<main, settings, listener, overdue, writable, requests>>
desk == <<second, ticket, thread, reading, displayed, covered>>
arena == <<profile, hit, ring, viewer, hub, lost, owed, refused, opted>>
growth == <<hour, channel, visit, signup, from, device, referral, credit, earlier,
            failed, edits, deaths>>
visits == <<rows, events, store, boots, told, longest, severed>>

all == <<component, vars, relay, sockets, grants, served, answer, slots, pooled, health, caches,
          integrity, dailies, archive, schema, process, desk, arena, growth, visits>>

Components ==
  {"shop", "session", "sessions", "relay", "bearer", "models", "claude", "fanout",
   "credentials", "health", "caches", "integrity", "snapshots", "archive", "migrations",
   "process", "support", "arena", "growth", "analytics"}

Left == {m1, m2}
Right == {n1, n2}

\* The shop sells two cards of one product to two orders, which two handlers
\* settle.
Goods == {"p"}

Accounts == {"u1", "u2"}

ModelNames == {"a", "b", "b2", "c"}
BaseOf == [m \in ModelNames |-> IF m = "b2" THEN "b" ELSE m]

KindOf == [c \in {"c1", "c2"} |-> IF c = "c1" THEN "oauth" ELSE "key"]

\* Callers that name themselves, their conversation, its key or nothing.
Client(t, client, window, key, user, chained) ==
  [token |-> t, client |-> client, window |-> window, key |-> key, meta |-> "", user |-> user,
   chained |-> chained]
Clients ==
  {Client("t", "", "", "", "", TRUE), Client("t", "", "", "", "u", FALSE),
   Client("t", "", "", "k", "u", TRUE), Client("t", "x", "w", "", "", FALSE),
   Client("r", "x", "w", "", "", TRUE), Client("r", "y", "", "", "", FALSE),
   Client("t", "x", "", "", "", FALSE)}
Hash == [a \in {"k", "u", "hi", "yo"} |-> IF a \in {"k", "hi"} THEN "b0" ELSE "b1"]

OneSession ==
  [sessions |-> {"s1"}, creds |-> {"o1", "o2"}, groups |-> {"g1"}, conc |-> 1, acquire |-> 2,
   queue |-> 1, turns |-> 3, usages |-> {1, 2}]
TwoSessions ==
  [sessions |-> {"s1", "s2"}, creds |-> {"o1", "o2"}, groups |-> {"g1", "g2"}, conc |-> 1,
   acquire |-> 1, queue |-> 1, turns |-> 1, usages |-> {1}]

Probed == {"a", "b"}
How == [a \in Probed |-> IF a = "a" THEN "probe" ELSE "traffic"]

\* A mock gateway refused, allowed by its site and by its operator; a real one
\* with its credentials and without.
Section(p, b, s, a) == [provider |-> p, blocks |-> b, site |-> s, allow |-> a]
Sections ==
  {Section("", {}, "public", FALSE), Section("", {}, "local", FALSE),
   Section("mock", {"zpay"}, "unset", TRUE), Section("", {"alipay"}, "public", FALSE),
   Section("zpay", {"alipay"}, "public", FALSE)}

Processes == {"server", "command", "old"}
Built == [p \in Processes |-> IF p = "old" THEN 3 ELSE 4]
OldRows == {"r1", "r2"}
Payer == [r \in OldRows |-> IF r = "r1" THEN "u1" ELSE "u2"]
Named == [r \in OldRows |-> IF r = "r1" THEN "key" ELSE "none"]

\* A fingerprint, a subnet and a domain each.
Place(f, n, d) == [fp |-> f, net |-> n, domain |-> d]
Two(p, q) == [u \in Accounts |-> IF u = "u1" THEN p ELSE q]
Pairs ==
  {Two(Place("f", "n", "d"), Place("f", "m", "e")), Two(Place("f", "n", "d"), Place("g", "n", "e")),
   Two(Place("f", "n", "d"), Place("g", "m", "d")), Two(Place("none", "n", "e"), Place("f", "m", "spam"))}
Offers == {[bonus |-> 2, enabled |-> TRUE], [bonus |-> 1, enabled |-> FALSE]}

-----------------------------------------------------------------------------
\* An answer of two events through each of the Codex relays.
R == INSTANCE CodexRelay WITH
       late <- capped, held <- waiting, read <- received, out <- passed, over <- ended

\* Three turns of one WebSocket session; and two sessions of a turn each, two
\* credentials, two groups.
So(size) == INSTANCE CodexSocket WITH
              Sessions <- size.sessions, Creds <- size.creds, Groups <- size.groups,
              MaxConc <- size.conc, MaxAcquire <- size.acquire, MaxQueue <- size.queue,
              MaxTurns <- size.turns, Usages <- size.usages

\* As many concurrent requests as rejections retire a credential.
Re == INSTANCE CodexRefresh WITH
       Requests <- Bearers, req <- bearer

\* Two relays; "b2" is a variant of "b", and "c" is left to API keys.
Mo == INSTANCE CodexModels WITH
       Keys <- CodexKeys

\* Two turns of a conversation, an OAuth account and an API key.
Cl == INSTANCE ClaudeRelay WITH
       Creds <- ClaudeCreds, MaxTokens <- MaxUsage, shown <- display, over <- finished,
       dropped <- unbilled

\* Two conversations of any two callers, of whom "r" is a trusted relay.
Fa == INSTANCE Fanout WITH
       Creds <- FanCreds, MaxTurns <- MaxChats

\* Two OAuth files and an API key under two handlers.
Cr == INSTANCE Credentials WITH
       Accounts <- Holders, Handlers <- Editors, held <- locked

\* A credential that is probed and one judged by its traffic.
He == INSTANCE HealthCheck WITH
       Models <- Checked, enabled <- wanted

\* Two callers of each cache, which holds one of two keys.
Ca == INSTANCE Caches WITH
       Keys <- Cached, Callers <- Panels, now <- moment, shown <- latest

\* One file and one connection, which two queries report.
In == INSTANCE Integrity WITH
       MaxTime <- MaxInstants, now <- instant, stale <- replaced

\* Five days, of whose snapshots two are kept.
Sn == INSTANCE Snapshots

\* Every configuration and every set of files at the start.
Ar == INSTANCE Archive WITH
       config <- stores

\* Of a server, a command and an older binary, two open one database.
Mi == INSTANCE Migrations WITH
       Users <- Members, ledger <- txs

\* Two turns, over HTTP or in a session, before a process that stops.
Pr == INSTANCE Process WITH
       config <- settings, late <- overdue, open <- writable, work <- requests

\* A ticket of up to three messages.
Su == INSTANCE Support WITH
       MaxTime <- MaxSeconds, now <- second, shown <- displayed

\* Two hits of one profile before its viewers.
Aa == INSTANCE Arena WITH
       Users <- Players, server <- hub, dropped <- refused

\* Two signups that share a fingerprint, a subnet, a domain or nothing telling.
Gr == INSTANCE Growth WITH
       Users <- Newcomers, MaxTime <- MaxHours, MaxEdits <- MaxChannelEdits,
       MaxCrashes <- MaxDeaths, now <- hour, crashes <- deaths

\* Two sessions over two starts of the server.
An == INSTANCE Analytics WITH
       Names <- Labels, MaxEvents <- MaxHits, row <- rows, log <- events, server <- store

-----------------------------------------------------------------------------
\* A component that does not run is in one state.
NoRelay ==
  /\ style = 0 /\ capped = 0 /\ at = 0 /\ event = 0 /\ waiting = 0 /\ preamble = 0
  /\ shedding = 0 /\ shed = 0 /\ usage = 0 /\ received = 0 /\ passed = 0 /\ terminal = 0
  /\ ended = 0
NoSockets == ses = 0 /\ inflight = 0 /\ bound = 0
NoGrants ==
  /\ token = 0 /\ alive = 0 /\ strikes = 0 /\ hard = 0 /\ cooling = 0 /\ gate = 0
  /\ bearer = 0
NoServed ==
  /\ enabled = 0 /\ offers = 0 /\ catalog = 0 /\ stale = 0 /\ rested = 0 /\ refresh = 0
  /\ steady = 0 /\ since = 0 /\ verdict = 0
NoAnswer ==
  /\ turn = 0 /\ stage = 0 /\ cred = 0 /\ tried = 0 /\ signed = 0 /\ sent = 0
  /\ strip = 0 /\ truth = 0 /\ counts = 0 /\ display = 0 /\ finished = 0 /\ bills = 0
  /\ unbilled = 0 /\ weekly = 0
NoSlots ==
  /\ who = 0 /\ opening = 0 /\ last = 0 /\ sticky = 0 /\ seen = 0 /\ failures = 0
  /\ moved = 0 /\ strayed = 0
NoPooled ==
  /\ file = 0 /\ heap = 0 /\ pool = 0 /\ job = 0 /\ locked = 0 /\ overlapped = 0
NoHealth ==
  /\ live = 0 /\ disabled = 0 /\ wanted = 0 /\ row = 0 /\ history = 0 /\ running = 0
  /\ queue = 0 /\ work = 0 /\ judged = 0 /\ touched = 0 /\ cycles = 0 /\ changes = 0
NoCaches ==
  /\ policy = 0 /\ moment = 0 /\ data = 0 /\ entry = 0 /\ flight = 0 /\ warming = 0
  /\ caller = 0 /\ latest = 0 /\ repeated = 0
NoIntegrity ==
  /\ instant = 0 /\ damaged = 0 /\ replaced = 0 /\ busy = 0 /\ draining = 0
  /\ reporter = 0 /\ tripped = 0 /\ lastAlert = 0 /\ healer = 0 /\ lastAttempt = 0
  /\ attempts = 0 /\ recycles = 0 /\ pages = 0 /\ unanswered = 0 /\ unlinks = 0
NoDailies ==
  /\ day = 0 /\ snapshots = 0 /\ runner = 0 /\ before = 0 /\ done = 0 /\ clock = 0
  /\ crashes = 0
NoArchive == stores = 0 /\ files = 0 /\ command = 0 /\ entries = 0 /\ copied = 0
NoSchema ==
  /\ version = 0 /\ applied = 0 /\ purse = 0 /\ space = 0 /\ txs = 0 /\ opener = 0
  /\ copies = 0 /\ opens = 0
NoProcess ==
  /\ main = 0 /\ settings = 0 /\ listener = 0 /\ overdue = 0 /\ writable = 0
  /\ requests = 0
NoDesk ==
  /\ second = 0 /\ ticket = 0 /\ thread = 0 /\ reading = 0 /\ displayed = 0
  /\ covered = 0
NoArena ==
  /\ profile = 0 /\ hit = 0 /\ ring = 0 /\ viewer = 0 /\ hub = 0 /\ lost = 0 /\ owed = 0
  /\ refused = 0 /\ opted = 0
NoGrowth ==
  /\ hour = 0 /\ channel = 0 /\ visit = 0 /\ signup = 0 /\ from = 0 /\ device = 0
  /\ referral = 0 /\ credit = 0 /\ earlier = 0 /\ failed = 0 /\ edits = 0 /\ deaths = 0
NoVisits ==
  /\ rows = 0 /\ events = 0 /\ store = 0 /\ boots = 0 /\ told = 0 /\ longest = 0
  /\ severed = 0

MCInit ==
  /\ component \in Components
  /\ Init
  /\ IF component = "relay" THEN R!Init ELSE NoRelay
  /\ CASE component = "session" -> So(Single)!Init
       [] component = "sessions" -> So(Couple)!Init
       [] OTHER -> NoSockets
  /\ IF component = "bearer" THEN Re!Init ELSE NoGrants
  /\ IF component = "models" THEN Mo!Init ELSE NoServed
  /\ IF component = "claude" THEN Cl!Init ELSE NoAnswer
  /\ IF component = "fanout" THEN Fa!Init ELSE NoSlots
  /\ IF component = "credentials" THEN Cr!Init ELSE NoPooled
  /\ IF component = "health" THEN He!Init ELSE NoHealth
  /\ IF component = "caches" THEN Ca!Init ELSE NoCaches
  /\ IF component = "integrity" THEN In!Init ELSE NoIntegrity
  /\ IF component = "snapshots" THEN Sn!Init ELSE NoDailies
  /\ IF component = "archive" THEN Ar!Init ELSE NoArchive
  /\ IF component = "migrations" THEN Mi!Init ELSE NoSchema
  /\ IF component = "process" THEN Pr!Init ELSE NoProcess
  /\ IF component = "support" THEN Su!Init ELSE NoDesk
  /\ IF component = "arena" THEN Aa!Init ELSE NoArena
  /\ IF component = "growth" THEN Gr!Init ELSE NoGrowth
  /\ IF component = "analytics" THEN An!Init ELSE NoVisits

\* Those that take the most steps come last: TLC compares what stands before
\* them once for a state and not once for a step.
MCNext ==
  /\ UNCHANGED component
  /\ IF component = "relay" THEN R!Next ELSE UNCHANGED relay
  /\ IF component = "snapshots" THEN Sn!Next ELSE UNCHANGED dailies
  /\ IF component = "bearer" THEN Re!Next ELSE UNCHANGED grants
  /\ IF component = "process" THEN Pr!Next ELSE UNCHANGED process
  /\ IF component = "models" THEN Mo!Next ELSE UNCHANGED served
  /\ IF component = "analytics" THEN An!Next ELSE UNCHANGED visits
  /\ IF component = "credentials" THEN Cr!Next ELSE UNCHANGED pooled
  /\ IF component = "health" THEN He!Next ELSE UNCHANGED health
  /\ IF component = "fanout" THEN Fa!Next ELSE UNCHANGED slots
  /\ IF component = "archive" THEN Ar!Next ELSE UNCHANGED archive
  /\ IF component = "migrations" THEN Mi!Next ELSE UNCHANGED schema
  /\ IF component = "claude" THEN Cl!Next ELSE UNCHANGED answer
  /\ IF component = "growth" THEN Gr!Next ELSE UNCHANGED growth
  /\ IF component = "support" THEN Su!Next ELSE UNCHANGED desk
  /\ IF component = "caches" THEN Ca!Next ELSE UNCHANGED caches
  /\ IF component = "arena" THEN Aa!Next ELSE UNCHANGED arena
  /\ CASE component = "session" -> So(Single)!Next
       [] component = "sessions" -> So(Couple)!Next
       [] OTHER -> UNCHANGED sockets
  /\ IF component = "integrity" THEN In!Next ELSE UNCHANGED integrity
  /\ IF component = "shop" THEN Next ELSE UNCHANGED vars

MCSpec == MCInit /\ [][MCNext]_all

\* Each pair takes parts that the modules do not tell apart.
Alike == Permutations(Left) \cup Permutations(Right)

-----------------------------------------------------------------------------
ASSUME ServerAssumption ==
  /\ So(Single)!SocketAssumption /\ So(Couple)!SocketAssumption
  /\ R!RelayAssumption /\ Cl!ClaudeAssumption
  /\ Re!RefreshAssumption /\ Mo!ModelsAssumption /\ Fa!FanoutAssumption
  /\ Cr!CredentialsAssumption /\ Su!SupportAssumption
  /\ He!HealthAssumption /\ Ca!CachesAssumption
  /\ In!IntegrityAssumption /\ Sn!SnapshotsAssumption /\ Ar!ArchiveAssumption
  /\ Mi!MigrationsAssumption
  /\ Aa!ArenaAssumption /\ Gr!GrowthAssumption /\ An!AnalyticsAssumption

\* What a client sees of an answer is whole, in order and free of codes that
\* end its session, nothing is sent while another credential may serve, and
\* every token the upstream accounts for is billed once.
RelayHolds ==
  /\ component = "relay" => R!RelayHolds
  /\ component = "claude" => Cl!ClaudeHolds

\* Every completed turn of a session is billed once, for its own usage, and no
\* response chain leaves its group.
SocketHolds ==
  /\ component = "session" => So(Single)!SocketHolds
  /\ component = "sessions" => So(Couple)!SocketHolds

\* One request at a time re-mints a token, and only one that was rejected.
RefreshHolds == component = "bearer" => Re!RefreshHolds

\* No model a relay serves is refused because another relay could not be asked.
ModelsHold == component = "models" => Mo!ModelsHold

\* A conversation that names itself keeps its slot, the slots of a token are
\* bounded, and no upstream session is shared by two callers.
FanoutHolds == component = "fanout" => Fa!FanoutHolds

\* The pool is what the credential files say, with one credential an account.
CredentialsHold == component = "credentials" => Cr!CredentialsHold

\* What operators are shown is what was observed: verdicts on credentials that
\* exist, and cached answers that do not go back in time.
WatchHolds ==
  /\ component = "health" => He!HealthHolds
  /\ component = "caches" => Ca!CachesHold

\* The databases stay readable and recoverable: self-repair, daily copies, the
\* shipped archive, migrations that several processes race through, and a stop
\* under requests.
StorageHolds ==
  /\ component = "integrity" => In!IntegrityHolds
  /\ component = "snapshots" => Sn!SnapshotsHold
  /\ component = "archive" => Ar!ArchiveHolds
  /\ component = "migrations" => Mi!MigrationsHold
  /\ component = "process" => Pr!ProcessHolds

\* A ticket's owner can reach it and is told of every answer but those that
\* arrive behind a read.
SupportHolds == component = "support" => Su!SupportHolds

\* What visitors do is counted once, and a welcome is paid once and as recorded.
CommunityHolds ==
  /\ component = "arena" => Aa!ArenaHolds
  /\ component = "growth" => Gr!GrowthHolds
  /\ component = "analytics" => An!AnalyticsHold

\* arena/service.go:38: publishing a pulse is "fire-and-forget".
PulseNeverPanics == component = "arena" => Aa!PulseNeverPanics
=============================================================================
