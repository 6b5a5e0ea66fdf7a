---------------------------- MODULE Migrations ----------------------------
(***************************************************************************)
(* Opening the wallet database: the schema is brought up to the version of *)
(* the binary, one transaction per version, after a copy of the file was   *)
(* taken.  The server and the commands of one host may open it together,   *)
(* with binaries of different age, and any of them may die on the way.     *)
(*                                                                         *)
(* Three of the migrations move data: the wallets go from users to their   *)
(* personal workspaces, enterprise workspaces take their group's rates,    *)
(* and charges are attributed to the key named in their reference.         *)
(***************************************************************************)
EXTENDS Naturals, Sequences

CONSTANTS
  Openers, Binary,   \* processes, and the version each supports
  Users, Rows,       \* accounts, and ledger rows older than the migrations
  Owner,             \* the account of a ledger row
  Ref,               \* what its reference says: a key, or NoToken when malformed
  NoToken,
  MaxOpens           \* bound: attempts to open

Wallets == 1   \* balances on users
Spaces == 2    \* v13
Rates == 3     \* v14
Keys == 4      \* v15
Nobody == "nobody"

MigrationsAssumption == Binary \in [Openers -> 0..Keys]

VARIABLES
  version,    \* MAX(version) of schema_version; 0 is a database without tables
  applied,    \* the rows of schema_version in the order they were inserted
  purse,      \* users.balance_usd, frozen once the wallets moved
  space,      \* workspaces by owner: [exists, balance, admin, rate]
  ledger,     \* wallet_tx: [space, token] of a row
  opener,     \* [stage, read, next]
  copies,     \* pre-migration copies: [named, held]
  opens

vars == <<version, applied, purse, space, ledger, opener, copies, opens>>

NoSpace == [exists |-> FALSE, balance |-> 0, admin |-> Nobody, rate |-> "none"]
Closed == [stage |-> "closed", read |-> 0, next |-> 0]

Init ==
  /\ version \in {0, Wallets}
  /\ applied = <<>>
  /\ purse \in [Users -> 0..1]
  /\ version = 0 => \A u \in Users : purse[u] = 0
  /\ space = [u \in Users |-> NoSpace]
  /\ ledger = [r \in Rows |-> [space |-> Nobody, token |-> NoToken]]
  /\ opener = [o \in Openers |-> Closed]
  /\ copies = {} /\ opens = 0

-----------------------------------------------------------------------------
\* The version table, created when absent, and the version read from it.  An
\* older binary refuses a newer database.
ReadVersion(o) ==
  /\ opener[o].stage = "closed"
  /\ opens < MaxOpens
  /\ opens' = opens + 1
  /\ opener' = [opener EXCEPT ![o] =
       [stage |-> CASE version = Binary[o] -> "open"
                    [] version > Binary[o] -> "refused"
                    [] version = 0 /\ Binary[o] # 0 -> "migrating"
                    [] OTHER -> "copying",
        read |-> version, next |-> version + 1]]
  /\ UNCHANGED <<version, applied, purse, space, ledger, copies>>

\* backupDBFile: a copy named for the version read, of the file as it is now.
\* When it fails the migration goes on.
backupDBFile(o) ==
  /\ opener[o].stage = "copying"
  /\ opener' = [opener EXCEPT ![o].stage = "migrating"]
  /\ \/ copies' = copies \cup {[named |-> opener[o].read, held |-> version]}
     \/ UNCHANGED copies
  /\ UNCHANGED <<version, applied, purse, space, ledger, opens>>

\* v13: a personal workspace per user with the user's balance, the user its
\* admin, and the user's rows in it.
MoveWallets ==
  /\ space' = [u \in Users |-> [exists |-> TRUE, balance |-> purse[u], admin |-> u, rate |-> "none"]]
  /\ ledger' = [r \in Rows |-> [ledger[r] EXCEPT !.space = Owner[r]]]

\* v14: personal workspaces keep the standard rate.
GiveRates ==
  /\ space' = [u \in Users |-> [space[u] EXCEPT !.rate = "standard"]]
  /\ UNCHANGED ledger

\* backfillTokenAttributionSQL: rows with a malformed reference stay unattributed.
AttributeKeys ==
  /\ ledger' = [r \in Rows |-> [ledger[r] EXCEPT !.token = Ref[r]]]
  /\ UNCHANGED space

Change(v) ==
  CASE v = Spaces -> MoveWallets
    [] v = Rates -> GiveRates
    [] v = Keys -> AttributeKeys
    [] OTHER -> UNCHANGED <<space, ledger>>

\* Mutant: the version row is not part of the transaction's guard.
Reapplied(o) ==
  /\ Change(opener[o].next)
  /\ applied' = Append(applied, opener[o].next)
  /\ version' = IF version < opener[o].next THEN opener[o].next ELSE version

\* One version: its statements and its row commit together.  The tables exist
\* and the row conflicts when another process applied it first.
ApplyVersion(o) ==
  /\ version < opener[o].next
  /\ Change(opener[o].next)
  /\ applied' = Append(applied, opener[o].next)
  /\ version' = opener[o].next

\* The loop of migrate: the next version, or an error that ends the process.
Migrate(o) ==
  /\ opener[o].stage = "migrating"
  /\ \/ /\ ApplyVersion(o)
        /\ opener' = [opener EXCEPT ![o].next = @ + 1,
                                    ![o].stage = IF opener[o].next = Binary[o] THEN "open" ELSE "migrating"]
     \/ /\ opener' = [opener EXCEPT ![o].stage = "failed"]
        /\ UNCHANGED <<version, applied, space, ledger>>
  /\ UNCHANGED <<purse, copies, opens>>

\* The process exits or dies, at whatever stage.
Exit(o) ==
  /\ opener[o].stage # "closed"
  /\ opener' = [opener EXCEPT ![o] = Closed]
  /\ UNCHANGED <<version, applied, purse, space, ledger, copies, opens>>

Next == \E o \in Openers : ReadVersion(o) \/ backupDBFile(o) \/ Migrate(o) \/ Exit(o)

Spec == Init /\ [][Next]_vars

-----------------------------------------------------------------------------
TypeOK ==
  /\ version \in 0..Keys
  /\ \A o \in Openers :
       opener[o].stage \in {"closed", "copying", "migrating", "open", "refused", "failed"}

\* However many processes open the database and wherever they die, every
\* version is applied once, in order and without a gap.
AppliedOnceInOrder == \A i \in 1..Len(applied) : applied[i] = version - Len(applied) + i

\* A process serves only a database it understands when it opens it.
OpenedUnderstood == \A o \in Openers : opener[o].stage = "open" => version >= Binary[o]

\* Nobody's money is lost or doubled on the way to the workspaces, and nobody's
\* history ends up in another's.
MoneyCarried ==
  IF version >= Spaces
  THEN /\ \A u \in Users : space[u].exists /\ space[u].balance = purse[u] /\ space[u].admin = u
       /\ \A r \in Rows : ledger[r].space = Owner[r]
       /\ version >= Keys => \A r \in Rows : ledger[r].token = Ref[r]
  ELSE space = [u \in Users |-> NoSpace]

\* A copy holds the version it is named for, or one that another process was
\* already bringing in: the copy is of a file nobody keeps still.
CopiesNotOlder == \A c \in copies : c.held >= c.named

MigrationsHold == TypeOK /\ AppliedOnceInOrder /\ OpenedUnderstood /\ MoneyCarried /\ CopiesNotOlder
=============================================================================
