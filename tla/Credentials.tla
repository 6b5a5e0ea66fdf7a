---------------------------- MODULE Credentials ----------------------------
(***************************************************************************)
(* The upstream credentials as the panels manage them: each has a file and *)
(* an object in the pool, and a handler changes the one and then the       *)
(* other.  Patches and uploads exclude each other; deletions, logins, new  *)
(* API keys and token refreshes take no lock.                              *)
(*                                                                         *)
(* The pool and the credential files belong to cc-core and are modelled    *)
(* from their use: a file of another account is not overwritten, and a     *)
(* second credential of an account is not added.                           *)
(***************************************************************************)
EXTENDS Naturals, Sequences

CONSTANTS
  OAuthNames, KeyNames,  \* file names, which are also the credentials' ids
  Accounts,
  Handlers,
  MaxObjects,            \* bound: credential objects made
  MaxEdits               \* bound: edits of a credential

VARIABLES
  file,       \* name -> contents: [kind, acct, edit], or None
  heap,       \* object -> contents
  pool,       \* name -> object, or 0
  job,        \* [op, stage, name, obj, old] of each handler
  held,       \* authMutationMu is held
  overlapped  \* history: names two handlers have worked on at once

vars == <<file, heap, pool, job, held, overlapped>>

\* A key's file is called apikey-..., an account's by its provider; operators who
\* choose names are taken to keep to that.
CredentialsAssumption == OAuthNames \cap KeyNames = {}

Names == OAuthNames \cup KeyNames
None == [kind |-> "none", acct |-> "none", edit |-> 0]
Idle == [op |-> "none", stage |-> "idle", name |-> "none", obj |-> 0, old |-> None]
Locked == {"patch", "upload"}

Init ==
  /\ file = [n \in Names |-> None] /\ heap = << >> /\ pool = [n \in Names |-> 0]
  /\ job = [h \in Handlers |-> Idle] /\ held = FALSE /\ overlapped = {}

Busy(n) == \E h \in Handlers : job[h].stage # "idle" /\ job[h].name = n

\* A handler starts on n; the two that lock wait for the mutex first.
Begin(h, op, n, stage, obj) ==
  /\ job[h].stage = "idle"
  /\ op \in Locked => ~held
  /\ held' = (held \/ op \in Locked)
  /\ job' = [job EXCEPT ![h] = [op |-> op, stage |-> stage, name |-> n, obj |-> obj, old |-> file[n]]]
  /\ overlapped' = IF Busy(n) THEN overlapped \cup {n} ELSE overlapped

Step(h, stage) == job' = [job EXCEPT ![h].stage = stage] /\ UNCHANGED <<held, overlapped>>

End(h) ==
  /\ job' = [job EXCEPT ![h] = Idle]
  /\ held' = (held /\ job[h].op \notin Locked)
  /\ UNCHANGED overlapped

Made == Len(heap)
New(c) == Made < MaxObjects /\ heap' = Append(heap, c)
At(h, op, stage) == job[h].op = op /\ job[h].stage = stage
SetFile(n, c) == file' = [file EXCEPT ![n] = c]
SetPool(n, o) == pool' = [pool EXCEPT ![n] = o]

-----------------------------------------------------------------------------
(* Edits of a credential in the pool.                                      *)

\* handlePatchAuth finds the object and sets its fields, in the memory every
\* request reads.
Patch(h, n) ==
  /\ pool[n] # 0 /\ heap[pool[n]].edit < MaxEdits
  /\ Begin(h, "patch", n, "edited", pool[n])
  /\ heap' = [heap EXCEPT ![pool[n]].edit = @ + 1]
  /\ UNCHANGED <<file, pool>>

\* handleRefresh, or a request with a stale token, mints a new one: without
\* the mutex.
Refresh(h, n) ==
  /\ pool[n] # 0 /\ heap[pool[n]].kind = "oauth" /\ heap[pool[n]].edit < MaxEdits
  /\ Begin(h, "refresh", n, "edited", pool[n])
  /\ heap' = [heap EXCEPT ![pool[n]].edit = @ + 1]
  /\ UNCHANGED <<file, pool>>

\* Persist writes the object's file, whether or not the pool still has it; a
\* patch of the key goes on from there.
Persist(h) ==
  /\ job[h].stage = "edited"
  /\ SetFile(job[h].name, heap[job[h].obj])
  /\ \/ End(h)
     \/ job[h].op = "patch" /\ heap[job[h].obj].kind = "key" /\ Step(h, "persisted")
  /\ UNCHANGED <<heap, pool>>

\* The key, which is left out, is replaced in the file as it is now, and a new
\* object made of it; a file that has gone is an error.
ReplaceKey(h) ==
  /\ At(h, "patch", "persisted")
  /\ LET n == job[h].name IN
     IF file[n] = None THEN End(h) /\ UNCHANGED <<file, heap, pool>>
     ELSE New(file[n]) /\ SetPool(n, Made + 1) /\ End(h) /\ UNCHANGED file

-----------------------------------------------------------------------------
(* Deletions.                                                              *)

\* handleDeleteAuth: out of the pool, then its file is removed.
Delete(h, n) ==
  /\ pool[n] # 0
  /\ Begin(h, "delete", n, "removed", pool[n])
  /\ SetPool(n, 0)
  /\ UNCHANGED <<file, heap>>

Unlink(h) ==
  /\ At(h, "delete", "removed")
  /\ SetFile(job[h].name, None)
  /\ End(h)
  /\ UNCHANGED <<heap, pool>>

-----------------------------------------------------------------------------
(* New credentials.                                                        *)

OAuth(acct) == [kind |-> "oauth", acct |-> acct, edit |-> 0]
Key == [kind |-> "key", acct |-> "none", edit |-> 0]

\* A file of the same account, or of none, may be written.
MayInstall(n, acct) == file[n] = None \/ file[n].acct = acct

\* handleUpload: the old contents are read and the new ones installed.
Upload(h, n, acct) ==
  /\ MayInstall(n, acct)
  /\ Begin(h, "upload", n, "installed", Made + 1)
  /\ New(OAuth(acct))
  /\ SetFile(n, OAuth(acct))
  /\ UNCHANGED pool

\* oauthFinish of either panel, or sessionCookie: a login that succeeds installs
\* its file.
FinishLogin(h, n, acct) ==
  /\ MayInstall(n, acct)
  /\ Begin(h, "login", n, "installed", Made + 1)
  /\ New(OAuth(acct))
  /\ SetFile(n, OAuth(acct))
  /\ UNCHANGED pool

Duplicate(n, acct) ==
  \E m \in Names \ {n} : pool[m] # 0 /\ heap[pool[m]].kind = "oauth" /\ heap[pool[m]].acct = acct

\* Mutant: a rejected upload leaves its file.
KeepRejected(h) ==
  /\ At(h, "upload", "installed")
  /\ LET n == job[h].name IN
     IF Duplicate(n, heap[job[h].obj].acct) THEN UNCHANGED <<file, pool>>
     ELSE SetPool(n, job[h].obj) /\ UNCHANGED file
  /\ End(h)
  /\ UNCHANGED heap

\* handleUpload adds it to the pool, or rolls the file back.
AddUpload(h) ==
  /\ At(h, "upload", "installed")
  /\ LET n == job[h].name IN
     IF Duplicate(n, heap[job[h].obj].acct) THEN SetFile(n, job[h].old) /\ UNCHANGED pool
     ELSE SetPool(n, job[h].obj) /\ UNCHANGED file
  /\ End(h)
  /\ UNCHANGED heap

\* A login is added to the pool, or its file removed.
AddLogin(h) ==
  /\ At(h, "login", "installed")
  /\ LET n == job[h].name IN
     IF Duplicate(n, heap[job[h].obj].acct) THEN SetFile(n, None) /\ UNCHANGED pool
     ELSE SetPool(n, job[h].obj) /\ UNCHANGED file
  /\ End(h)
  /\ UNCHANGED heap

\* handleCreateAPIKey writes the file, over any of that name.
CreateKey(h, n) ==
  /\ Begin(h, "key", n, "installed", Made + 1)
  /\ New(Key)
  /\ SetFile(n, Key)
  /\ UNCHANGED pool

\* createAPIKey ends with the key in the pool, in place of one of that name.
AddKey(h) ==
  /\ At(h, "key", "installed")
  /\ SetPool(job[h].name, job[h].obj)
  /\ End(h)
  /\ UNCHANGED <<file, heap>>

Next ==
  \E h \in Handlers :
    \/ \E n \in Names : Patch(h, n) \/ Refresh(h, n) \/ Delete(h, n)
    \/ \E n \in OAuthNames, a \in Accounts : Upload(h, n, a) \/ FinishLogin(h, n, a)
    \/ \E n \in KeyNames : CreateKey(h, n)
    \/ Persist(h) \/ ReplaceKey(h) \/ Unlink(h) \/ AddUpload(h) \/ AddLogin(h) \/ AddKey(h)

Spec == Init /\ [][Next]_vars

-----------------------------------------------------------------------------
Contents(n) == IF pool[n] = 0 THEN None ELSE heap[pool[n]]

TypeOK ==
  /\ \A n \in Names : pool[n] \in 0..Made /\ file[n].kind \in {"none", "oauth", "key"}
  /\ overlapped \subseteq Names /\ held \in BOOLEAN

\* What the server uses is what a restart would load, once no handler is at
\* work on it: unless two handlers have been at once, of which one at least
\* takes no lock.
DiskIsPool == \A n \in Names \ overlapped : ~Busy(n) => file[n] = Contents(n)

\* No account is in the pool twice, or on disk under two names.
OneCredentialPerAccount ==
  \A m, n \in OAuthNames : m # n =>
    /\ Contents(m) # None /\ Contents(n) # None => Contents(m).acct # Contents(n).acct
    /\ file[m] # None /\ file[n] # None /\ {m, n} \cap overlapped = {} /\ ~Busy(m) /\ ~Busy(n)
         => file[m].acct # file[n].acct

CredentialsHold == TypeOK /\ DiskIsPool /\ OneCredentialPerAccount
=============================================================================
