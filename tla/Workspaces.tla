----------------------------- MODULE Workspaces -----------------------------
(***************************************************************************)
(* Membership of one enterprise workspace: db/workspaces.go,               *)
(* db/workspace_invites.go, workspace/handlers.go, admin/workspaces.go and *)
(* auth/workspace.go.                                                      *)
(*                                                                         *)
(* Space administrators invite by email, resend, revoke, appoint, demote   *)
(* and remove; invited users accept by link or, all invites at once, by    *)
(* registering.  A request reads (authority, invite, pending rows) and     *)
(* writes in separate steps.                                               *)
(***************************************************************************)
EXTENDS Naturals

CONSTANTS
  Users,
  Operators,    \* users with the platform role admin
  Invites,      \* rows of workspace_invites
  Handlers,
  MaxIssues     \* bound: creations and resends of an invite

VARIABLES
  exists,     \* the workspace row
  member,     \* workspace_members: Nobody's role is "none"
  invite,     \* [st, to, role, live]
  issues,     \* creations and resends so far
  handler,
  promoted    \* ghost: users to whom the role admin was ever offered or written

vars == <<exists, member, invite, issues, handler, promoted>>

WorkspacesAssumption == MaxIssues \in Nat

Roles == {"member", "admin"}
NoInvite == [st |-> "none", to |-> "nobody", role |-> "member", live |-> FALSE]
Idle == [at |-> "idle"]
At(h, pc) == handler[h].at = pc
Go(h, next) == handler' = [handler EXCEPT ![h] = next]

Init ==
  /\ exists = FALSE
  /\ member = [u \in Users |-> "none"]
  /\ invite = [i \in Invites |-> NoInvite]
  /\ issues = 0
  /\ handler = [h \in Handlers |-> Idle]
  /\ promoted = {}

\* EffectiveStatus: a pending invite past its deadline reads as expired.
EffectiveStatus(i) ==
  IF invite[i].st = "pending" /\ ~invite[i].live THEN "expired" ELSE invite[i].st

\* UpsertWorkspaceMember.
Upsert(u, role) ==
  /\ member' = [member EXCEPT ![u] = role]
  /\ promoted' = IF role = "admin" THEN promoted \cup {u} ELSE promoted

-----------------------------------------------------------------------------
(* The operators' panel.                                                   *)

\* createWorkspace: the row, then (separate statements) its first admin.
createWorkspace(h, op) ==
  /\ op \in Operators /\ At(h, "idle") /\ ~exists
  /\ exists' = TRUE
  /\ \E u \in Users : Go(h, [at |-> "appoint", user |-> u, role |-> "admin"])
  /\ UNCHANGED <<issues, member, invite, promoted>>

\* addWorkspaceMember: by an email that has an account.
addWorkspaceMember(op, u) ==
  /\ op \in Operators /\ exists
  /\ \E r \in Roles : Upsert(u, r)
  /\ UNCHANGED <<issues, exists, invite, handler>>

Appoint(h) ==
  /\ At(h, "appoint")
  /\ Upsert(handler[h].user, handler[h].role)
  /\ Go(h, Idle)
  /\ UNCHANGED <<issues, exists, invite>>

\* removeWorkspaceMember: an operator may remove anyone.
removeWorkspaceMember(op, u) ==
  /\ op \in Operators /\ exists /\ member[u] # "none"
  /\ member' = [member EXCEPT ![u] = "none"]
  /\ UNCHANGED <<issues, exists, invite, handler, promoted>>

-----------------------------------------------------------------------------
(* The space administrators' panel.                                        *)

\* RequireWorkspaceAdmin: a platform admin, or a member with the role admin.
RequireWorkspaceAdmin(h, u) ==
  /\ At(h, "idle") /\ exists
  /\ u \in Operators \/ member[u] = "admin"
  /\ Go(h, [at |-> "admin", user |-> u])
  /\ UNCHANGED <<issues, exists, member, invite, promoted>>

\* updateMember: the role is upserted, so it also enters a user who is none.
updateMember(h, u) ==
  /\ At(h, "admin")
  /\ \E r \in Roles : Upsert(u, r)
  /\ Go(h, Idle)
  /\ UNCHANGED <<issues, exists, invite>>

\* removeMember: never oneself.
removeMember(h, u) ==
  /\ At(h, "admin") /\ handler[h].user # u
  /\ member' = [member EXCEPT ![u] = "none"]
  /\ Go(h, Idle)
  /\ UNCHANGED <<issues, exists, invite, promoted>>

\* createInvite: refused for a member; then the pending row it found, if any.
createInvite(h, u) ==
  /\ At(h, "admin")
  /\ Go(h, IF member[u] # "none" THEN Idle
           ELSE LET found == {i \in Invites : invite[i].st = "pending" /\ invite[i].to = u}
                IN [at |-> "invite", to |-> u, found |-> found])
  /\ UNCHANGED <<issues, exists, member, invite, promoted>>

\* An invite issued to u: a fresh link and deadline.
Issued(u, r) ==
  [st |-> "pending", to |-> u, role |-> r, live |-> TRUE]

\* CreateWorkspaceInvite, its write: refresh the row found, whatever became of
\* its status (which is left alone), or insert a new one.
CreateWorkspaceInvite(h) ==
  /\ At(h, "invite")
  /\ LET u == handler[h].to IN
     \E r \in Roles, i \in Invites :
       /\ issues < MaxIssues /\ issues' = issues + 1
       /\ IF handler[h].found = {} THEN invite[i].st = "none" ELSE i \in handler[h].found
       /\ invite' = [invite EXCEPT ![i] =
            IF handler[h].found = {} THEN Issued(u, r)
            ELSE [Issued(u, r) EXCEPT !.st = invite[i].st]]
       /\ promoted' = IF r = "admin" THEN promoted \cup {u} ELSE promoted
  /\ Go(h, Idle)
  /\ UNCHANGED <<exists, member>>

\* revokeInvite: only a pending row changes.
revokeInvite(h, i) ==
  /\ At(h, "admin") /\ invite[i].st # "none"
  /\ invite' = IF invite[i].st = "pending" THEN [invite EXCEPT ![i].st = "revoked"] ELSE invite
  /\ Go(h, Idle)
  /\ UNCHANGED <<issues, exists, member, promoted>>

\* resendInvite, RefreshWorkspaceInvite: pending again, whatever it was.
resendInvite(h, i) ==
  /\ At(h, "admin") /\ invite[i].st # "none" /\ issues < MaxIssues /\ issues' = issues + 1
  /\ invite' = [invite EXCEPT ![i] = Issued(invite[i].to, invite[i].role)]
  /\ Go(h, Idle)
  /\ UNCHANGED <<exists, member, promoted>>

-----------------------------------------------------------------------------
(* The invited.                                                            *)

\* Mutant: an acceptance makes its user an administrator.
ReadAdmin(i) == [id |-> i, role |-> "admin"]

\* What an acceptance keeps of an invite.
Read(i) == [id |-> i, role |-> invite[i].role]

\* acceptInvite, up to its checks: the link's invite is pending, the caller's
\* email verified and the invite's.
acceptInvite(h, u, i) ==
  /\ At(h, "idle")
  /\ EffectiveStatus(i) = "pending"
  /\ invite[i].to = u
  /\ Go(h, [at |-> "join", user |-> u, left |-> {Read(i)}])
  /\ UNCHANGED <<issues, exists, member, invite, promoted>>

\* The end of register: ListPendingInvitesForEmail, then each is accepted.
ListPendingInvitesForEmail(h, u) ==
  /\ At(h, "idle")
  /\ LET mine == {i \in Invites : invite[i].to = u /\ EffectiveStatus(i) = "pending"} IN
       /\ mine # {}
       /\ Go(h, [at |-> "join", user |-> u, left |-> {Read(i) : i \in mine}])
  /\ UNCHANGED <<issues, exists, member, invite, promoted>>

\* Mutant: the invite is marked first, in a transaction of its own.
AcceptMarkedFirst(h) ==
  /\ At(h, "join")
  /\ \E r \in handler[h].left : /\ invite' = [invite EXCEPT ![r.id].st = "accepted"]
                                /\ Go(h, Idle)
  /\ UNCHANGED <<issues, exists, member, promoted>>

\* AcceptWorkspaceInvite: one transaction, with the role read before it and
\* without another look at the status.
AcceptWorkspaceInvite(h) ==
  /\ At(h, "join")
  /\ \E r \in handler[h].left :
       /\ member' = [member EXCEPT ![handler[h].user] = r.role]
       /\ invite' = [invite EXCEPT ![r.id].st = "accepted"]
       /\ Go(h, IF handler[h].left = {r} THEN Idle ELSE [handler[h] EXCEPT !.left = @ \ {r}])
  /\ UNCHANGED <<issues, exists, promoted>>

\* A deadline passes.
Expire(i) ==
  /\ invite[i].st = "pending" /\ invite[i].live
  /\ invite' = [invite EXCEPT ![i].live = FALSE]
  /\ UNCHANGED <<issues, exists, member, handler, promoted>>

Next ==
  \/ \E h \in Handlers, op \in Users : createWorkspace(h, op)
  \/ \E op, u \in Users : addWorkspaceMember(op, u) \/ removeWorkspaceMember(op, u)
  \/ \E h \in Handlers, u \in Users :
       \/ RequireWorkspaceAdmin(h, u) \/ updateMember(h, u) \/ removeMember(h, u)
       \/ createInvite(h, u) \/ ListPendingInvitesForEmail(h, u)
  \/ \E h \in Handlers, i \in Invites : revokeInvite(h, i) \/ resendInvite(h, i)
  \/ \E h \in Handlers, i \in Invites, u \in Users : acceptInvite(h, u, i)
  \/ \E h \in Handlers : Appoint(h) \/ CreateWorkspaceInvite(h) \/ AcceptWorkspaceInvite(h)
  \/ \E i \in Invites : Expire(i)

Spec == Init /\ [][Next]_vars

-----------------------------------------------------------------------------
Request ==
  [at : {"idle"}] \cup [at : {"appoint"}, user : Users, role : {"admin"}]
    \cup [at : {"admin"}, user : Users]
    \cup [at : {"invite"}, to : Users, found : SUBSET Invites]
    \cup [at : {"join"}, user : Users, left : SUBSET [id : Invites, role : Roles]]

TypeOK ==
  /\ exists \in BOOLEAN
  /\ member \in [Users -> {"none"} \cup Roles]
  /\ invite \in [Invites -> [st : {"none", "pending", "accepted", "revoked"},
                           to : Users \cup {"nobody"}, role : Roles, live : BOOLEAN]]
  /\ issues \in 0..MaxIssues
  /\ handler \in [Handlers -> Request]
  /\ promoted \subseteq Users

\* Nobody is an administrator of the space to whom that role was never offered
\* by an invite or written by an administrator, whatever was refreshed, revoked
\* or removed while an invite was being accepted.
AdminsPromoted == \A u \in Users : member[u] = "admin" => u \in promoted

\* An acceptance under way was admitted by an invite to its own user.
JoinsOwnInvites ==
  \A h \in Handlers : At(h, "join") =>
    \A r \in handler[h].left : invite[r.id].to = handler[h].user

MembershipHolds == TypeOK /\ AdminsPromoted /\ JoinsOwnInvites

\* An invite stops being pending by an administrator's revocation or by being
\* accepted, and the acceptance makes its addressee a member in the same step.
Acceptance ==
  \A i \in Invites :
    (invite[i].st # "accepted" /\ invite'[i].st = "accepted") => member'[invite[i].to] # "none"
AcceptanceIsAtomic == [][Acceptance]_vars

-----------------------------------------------------------------------------
(* The inductive invariant: an invite that was issued is addressed for     *)
(* good, so what requests found of it still is its addressee's, and a role *)
(* of administrator that an invite or a request carries is on record.      *)

Addressed ==
  /\ \A i \in Invites :
       invite[i].st # "none" =>
         /\ invite[i].to \in Users
         /\ invite[i].role = "admin" => invite[i].to \in promoted
  /\ \A h \in Handlers :
       /\ At(h, "invite") =>
            \A i \in handler[h].found : invite[i].st # "none" /\ invite[i].to = handler[h].to
       /\ At(h, "join") =>
            \A r \in handler[h].left :
              /\ invite[r.id].st # "none"
              /\ r.role = "admin" => handler[h].user \in promoted

MembershipInv == MembershipHolds /\ Addressed
=============================================================================
