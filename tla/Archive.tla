------------------------------ MODULE Archive ------------------------------
(***************************************************************************)
(* The backup command: it snapshots the databases, gathers the identity,   *)
(* credential, state and secret files, refuses an incomplete set and ships *)
(* the rest off-host, while the files it reads come and go.                *)
(***************************************************************************)
EXTENDS Naturals, FiniteSets

CONSTANT Secrets     \* state, config and secret files, carried when they are there

VARIABLES
  config,        \* what the config enables: [saas, shop, log, jsonl, auths]
  files,         \* the files there are
  command,       \* "idle", "stores", "rest", "assert", "upload", "shipped", "failed"
  entries,       \* what the command gathered
  copied         \* the entries whose bytes are snapshots of the command's own

vars == <<config, files, command, entries, copied>>

Stores == {"saas.db", "analytics.db", "shop.db", "requests.db"}
Files == Stores \cup {"auth", "tokens.json"} \cup Secrets

\* The databases are shipped as snapshots alone.
ArchiveAssumption == Secrets \cap Stores = {}

Init ==
  /\ config \in [saas : BOOLEAN, shop : BOOLEAN, log : BOOLEAN, jsonl : BOOLEAN, auths : BOOLEAN]
  /\ files \in SUBSET Files
  /\ command = "idle" /\ entries = {} /\ copied = {}

\* The server, a rotation or a mistaken path: a file comes or goes.
Change(f) ==
  /\ command \notin {"shipped", "failed"}
  /\ files' = IF f \in files THEN files \ {f} ELSE files \cup {f}
  /\ UNCHANGED <<config, command, entries, copied>>

\* runBackup: nothing runs before the options are complete.
Begin ==
  /\ command = "idle"
  /\ command' \in {"stores", "failed"}
  /\ UNCHANGED <<config, files, entries, copied>>

\* The databases the config names, looked for one at a time.
Wanted ==
  (IF config.saas THEN {"saas.db", "analytics.db"} ELSE {})
    \cup (IF config.shop THEN {"shop.db"} ELSE {})
    \cup (IF config.log THEN {"requests.db"} ELSE {})

\* buildManifest snapshots the databases that exist, so that no open file is
\* copied; one that fails ends the run, but for the analytics.
SnapshotStores ==
  /\ command = "stores"
  /\ LET there == Wanted \cap files IN
     \/ \E lost \in SUBSET (there \cap {"analytics.db"}) :
          /\ entries' = there \ lost
          /\ copied' = entries'
          /\ command' = "rest"
     \/ /\ there \ {"analytics.db"} # {}
        /\ command' = "failed"
        /\ UNCHANGED <<entries, copied>>
  /\ UNCHANGED <<config, files>>

\* The files that exist; those the config names and do not are passed over.
GatherRest ==
  /\ command = "rest"
  /\ entries' = entries \cup (files \cap ({"tokens.json"} \cup Secrets))
                  \cup (IF config.auths THEN files \cap {"auth"} ELSE {})
  /\ command' = "assert"
  /\ UNCHANGED <<config, files, copied>>

\* What the config says must be there.
Required ==
  (IF config.saas THEN {"saas.db"} ELSE {}) \cup (IF config.shop THEN {"shop.db"} ELSE {})
    \cup (IF config.log /\ ~config.jsonl THEN {"requests.db"} ELSE {})
    \cup (IF config.auths THEN {"auth"} ELSE {})

assertManifestComplete ==
  /\ command = "assert"
  /\ command' = IF Required \subseteq entries /\ entries # {} THEN "upload" ELSE "failed"
  /\ UNCHANGED <<config, files, entries, copied>>

\* RunBackup of cc-core opens every entry; it ships all of them or fails.
Upload ==
  /\ command = "upload"
  /\ \/ entries \ copied \subseteq files /\ command' = "shipped"
     \/ command' = "failed"
  /\ UNCHANGED <<config, files, entries, copied>>

Next ==
  \/ \E f \in Files : Change(f)
  \/ Begin \/ SnapshotStores \/ GatherRest \/ assertManifestComplete \/ Upload

Spec == Init /\ [][Next]_vars

-----------------------------------------------------------------------------
TypeOK ==
  /\ command \in {"idle", "stores", "rest", "assert", "upload", "shipped", "failed"}
  /\ copied \subseteq entries /\ entries \subseteq Files

\* What is shipped restores what the config says exists, whatever went missing
\* and when: the wallet, the shop, the credentials, and the request history
\* where the archive is its only copy.
ShippedRestores ==
  command = "shipped" =>
    /\ config.saas => "saas.db" \in copied
    /\ config.shop => "shop.db" \in copied
    /\ config.log /\ ~config.jsonl => "requests.db" \in copied
    /\ config.auths => "auth" \in entries

\* A database is never shipped as the file another process writes to.
NoTornStore == command = "shipped" => entries \cap Stores \subseteq copied

\* A shipped archive is enough to restore from.
ArchiveHolds == TypeOK /\ ShippedRestores /\ NoTornStore
=============================================================================
