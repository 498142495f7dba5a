----------------------------- MODULE Membership -----------------------------
(***************************************************************************)
(* Who has an account, who is a member of an organisation and who is       *)
(* invited to it (UserService, OrganizationService, InviteService), for    *)
(* one organisation.                                                       *)
(*                                                                         *)
(* A request reads, counts, checks and writes in separate calls of the     *)
(* database, and other requests come between; a transaction that writes    *)
(* twice is one step.  Unique and foreign keys hold.  Every user stands    *)
(* for one e-mail address.  Passwords, sessions, tokens' values and who    *)
(* may ask for a change are left out.                                      *)
(***************************************************************************)
EXTENDS Naturals, FiniteSets

CONSTANTS
  Users, Requests,
  MaxRequests,   \* bound: requests that begin
  MaxInvites,    \* bound: invites that are created
  None

ASSUME UsersAssumption == IsFiniteSet(Users) /\ None \notin Users

ASSUME BoundsAssumption == MaxRequests \in Nat /\ MaxInvites \in Nat

Invites == 1 .. MaxInvites

VARIABLES
  account,    \* User.role, or that there is no row any more or yet
  member,     \* the OrgMember row of each user
  invites,    \* the OrgInvite rows, in the order they were created
  founded,    \* the organisation was created
  job,        \* what each request has read and is about to write
  begun,      \* requests that began
  overtaken,  \* history: the checks that were acted upon when no longer true
  erased      \* history: the account of an owner was deleted

tables  == <<account, member, invites, founded>>
history == <<overtaken, erased>>
vars    == <<tables, job, begun, history>>

OrgRoles == {"member", "admin", "owner"}

\* via: the invite that made the row, 0 for the rows of the first members.
Row   == [via : 0 .. MaxInvites, role : OrgRoles \cup {"none"}]
NoRow == [via |-> 0, role |-> "none"]

\* stale: expiresAt has passed.
Invite == [user : Users \cup {None}, role : {"member", "admin"},
           state : {"new", "pending", "stale", "accepted", "gone"}]

\* to: the role to write, "none" to remove the member.  row: the OrgMember row
\* or the invite that was read.  basis: what the check found.
Ops == {"idle", "create", "found", "users", "superadmins", "erase", "owners", "write",
        "existing", "replace", "issue", "accept", "drop"}
Job == [op : Ops, user : Users \cup {None}, to : OrgRoles \cup {"none"}, row : 0 .. MaxInvites,
        basis : SUBSET Users]

Accounts    == {u \in Users : account[u] \in {"superadmin", "editor"}}
Superadmins == {u \in Users : account[u] = "superadmin"}
Members     == {u \in Users : member[u].role # "none"}
Owners      == {u \in Users : member[u].role = "owner"}
Live(i)     == invites[i].state \in {"pending", "stale"}

TypeOK ==
  /\ account \in [Users -> {"none", "superadmin", "editor", "deleted"}]
  /\ member \in [Users -> Row]
  /\ invites \in [Invites -> Invite]
  /\ founded \in BOOLEAN
  /\ job \in [Requests -> Job]
  /\ begun \in Nat
  /\ overtaken \in SUBSET {"owners", "invite"}
  /\ erased \in BOOLEAN

NoInvite == [user |-> None, role |-> "member", state |-> "new"]

About(op, u, to, row, basis) ==
  [op |-> op, user |-> u, to |-> to, row |-> row, basis |-> basis]

Idle == About("idle", None, "none", 0, {})

\* Nobody yet, or an organisation with its members.
Init ==
  /\ account \in [Users -> {"none", "superadmin", "editor"}]
  /\ member \in [Users -> [via : {0}, role : OrgRoles \cup {"none"}]]
  /\ founded \in BOOLEAN
  /\ IF founded THEN Members \subseteq Accounts /\ Owners # {}
                ELSE Accounts = {} /\ Members = {}
  /\ invites = [i \in Invites |-> NoInvite]
  /\ job = [r \in Requests |-> Idle]
  /\ begun = 0
  /\ overtaken = {}
  /\ erased = FALSE

-----------------------------------------------------------------------------
(* Requests. *)
At(r, op) == job[r].op = op

Subject(r) == job[r].user

Begins(r, j) ==
  /\ At(r, "idle")
  /\ begun < MaxRequests
  /\ begun' = begun + 1
  /\ job' = [job EXCEPT ![r] = j]

Goes(r, j) == job' = [job EXCEPT ![r] = j] /\ UNCHANGED begun

\* The next call of the request, with the rest of what it has read.
GoesOn(r, op, basis) ==
  Goes(r, About(op, Subject(r), job[r].to, job[r].row, basis))

Ends(r) == Goes(r, Idle)

Fails(r) == Ends(r) /\ UNCHANGED <<tables, history>>

\* A write that rests on the check `check`, for which it found `now`.
Rests(r, check, now) ==
  overtaken' = IF job[r].basis = now THEN overtaken ELSE overtaken \cup {check}

-----------------------------------------------------------------------------
(* Accounts. *)

\* signup and ensureAdminExists count the users; ensureAdminExists returns when
\* there is one.
CountUsers(r) ==
  /\ \E u \in Users :
       /\ account[u] = "none"
       /\ Begins(r, About("create", u, "none", 0, Accounts))
  /\ UNCHANGED <<tables, history>>

CreateAccount(r) ==
  /\ At(r, "create")
  /\ \/ /\ account[Subject(r)] = "none"
        /\ account' = [account EXCEPT ![Subject(r)] =
                        IF job[r].basis = {} THEN "superadmin" ELSE "editor"]
        /\ GoesOn(r, "found", {})
        /\ UNCHANGED <<member, invites, founded, history>>
     \/ account[Subject(r)] # "none" /\ Fails(r)

\* createOrgWithOwner, for this organisation.
Found(u) ==
  /\ ~founded
  /\ u \in Accounts
  /\ founded' = TRUE
  /\ member' = [member EXCEPT ![u] = [via |-> 0, role |-> "owner"]]
  /\ UNCHANGED <<account, invites, history>>

\* A signup ends with an organisation; for another one nothing changes here.
FoundOrg(r) ==
  /\ At(r, "found")
  /\ \/ Found(Subject(r)) /\ Ends(r)
     \/ Fails(r)

\* A login without an organisation.
Login(u) == Found(u) /\ UNCHANGED <<job, begun>>

\* createUser stores the role it is given, for whoever has a token, the master
\* token included; the unique keys repeat its checks.  Any role but superadmin
\* stands as editor.
AddUser(u, role) ==
  /\ account[u] = "none"
  /\ account' = [account EXCEPT ![u] = role]
  /\ UNCHANGED <<member, invites, founded, job, begun, history>>

\* deleteUser reads the role with the user.
DeleteUser(r) ==
  /\ \E u \in Accounts : Begins(r, About("users", u, "none", 0, {u} \cap Superadmins))
  /\ UNCHANGED <<tables, history>>

\* Mutant: superadmins are not counted.
RefuseOnlyLastUser(r) ==
  /\ At(r, "users")
  /\ \/ Cardinality(Accounts) > 1 /\ GoesOn(r, "erase", {}) /\ UNCHANGED <<tables, history>>
     \/ Cardinality(Accounts) <= 1 /\ Fails(r)

RefuseLastUser(r) ==
  /\ At(r, "users")
  /\ \/ /\ Cardinality(Accounts) > 1
        /\ GoesOn(r, IF job[r].basis = {} THEN "erase" ELSE "superadmins", {})
        /\ UNCHANGED <<tables, history>>
     \/ Cardinality(Accounts) <= 1 /\ Fails(r)

RefuseLastSuperadmin(r) ==
  /\ At(r, "superadmins")
  /\ \/ /\ Cardinality(Superadmins) > 1
        /\ GoesOn(r, "erase", Superadmins)
        /\ UNCHANGED <<tables, history>>
     \/ Cardinality(Superadmins) <= 1 /\ Fails(r)

\* The memberships go with the user.  It fails when the user is gone, and while
\* an invite names the user as its sender.
EraseAccount(r) ==
  /\ At(r, "erase")
  /\ \/ /\ Subject(r) \in Accounts
        /\ account' = [account EXCEPT ![Subject(r)] = "deleted"]
        /\ member' = [member EXCEPT ![Subject(r)] = NoRow]
        /\ erased' = (erased \/ Subject(r) \in Owners)
        /\ Ends(r)
        /\ UNCHANGED <<invites, founded, overtaken>>
     \/ (Subject(r) \notin Accounts \/ \E i \in Invites : Live(i)) /\ Fails(r)

-----------------------------------------------------------------------------
(* Members. *)

\* Mutant: the owner that is found is not counted.
NeedsNoCount(u, to) == TRUE

\* updateMemberRole and removeMemberFromOrg ("none") find the member.
MayWriteAtOnce(u, to) == member[u].role # "owner" \/ to = "owner"

ChangeMember(r) ==
  /\ \E u \in Members, to \in OrgRoles \cup {"none"} :
       Begins(r, About(IF MayWriteAtOnce(u, to) THEN "write" ELSE "owners",
                       u, to, member[u].via, Owners))
  /\ UNCHANGED <<tables, history>>

\* Mutant: the members are counted, whatever their role.
RefuseLastMember(r) ==
  /\ At(r, "owners")
  /\ \/ Cardinality(Members) > 1 /\ GoesOn(r, "write", Owners) /\ UNCHANGED <<tables, history>>
     \/ Cardinality(Members) <= 1 /\ Fails(r)

RefuseLastOwner(r) ==
  /\ At(r, "owners")
  /\ \/ /\ Cardinality(Owners) > 1
        /\ GoesOn(r, "write", Owners)
        /\ UNCHANGED <<tables, history>>
     \/ Cardinality(Owners) <= 1 /\ Fails(r)

SameRow(r) ==
  member[Subject(r)].role # "none" /\ member[Subject(r)].via = job[r].row

\* By the id of the row.
WriteMember(r) ==
  /\ At(r, "write")
  /\ \/ /\ SameRow(r)
        /\ member' = [member EXCEPT ![Subject(r)] =
                       IF job[r].to = "none" THEN NoRow
                       ELSE [via |-> job[r].row, role |-> job[r].to]]
        /\ Rests(r, "owners", Owners)
        /\ Ends(r)
        /\ UNCHANGED <<account, invites, founded, erased>>
     \/ ~SameRow(r) /\ Fails(r)

-----------------------------------------------------------------------------
(* Invites. *)

\* Mutant: whoever is a member can be invited.
Anyone(u) == TRUE

MayBeInvited(u) == u \notin Members

\* createInvite: is the target a member?
CheckMember(r) ==
  /\ founded
  /\ \E u \in Users, to \in {"admin", "member"} :
       /\ MayBeInvited(u)
       /\ Begins(r, About("existing", u, to, 0, Members))
  /\ UNCHANGED <<tables, history>>

InvitesOf(u) == {i \in Invites : Live(i) /\ invites[i].user = u}

\* Is there an invite already?  An active one is not replaced.
CheckInvite(r) ==
  /\ At(r, "existing")
  /\ \/ /\ InvitesOf(Subject(r)) = {}
        /\ GoesOn(r, "issue", job[r].basis)
        /\ UNCHANGED <<tables, history>>
     \/ \E i \in InvitesOf(Subject(r)) :
          \/ /\ invites[i].state = "stale"
             /\ Goes(r, About("replace", Subject(r), job[r].to, i, job[r].basis))
             /\ UNCHANGED <<tables, history>>
          \/ invites[i].state = "pending" /\ Fails(r)

Becomes(i, state) == invites' = [invites EXCEPT ![i].state = state]

DropsInvite(i) == Becomes(i, "gone") /\ UNCHANGED <<account, member, founded, history>>

ReplaceInvite(r) ==
  /\ At(r, "replace")
  /\ \/ Live(job[r].row) /\ DropsInvite(job[r].row) /\ GoesOn(r, "issue", job[r].basis)
     \/ ~Live(job[r].row) /\ Fails(r)

Unused == {i \in Invites : invites[i].state = "new"}

IssueInvite(r) ==
  /\ At(r, "issue")            \* bound: it fails when MaxInvites were created
  /\ \/ /\ InvitesOf(Subject(r)) = {}
        /\ \E i \in Unused :
             /\ \A k \in Unused : i <= k
             /\ invites' = [invites EXCEPT ![i] =
                  [user |-> Subject(r), role |-> job[r].to, state |-> "pending"]]
        /\ Rests(r, "invite", Members)
        /\ Ends(r)
        /\ UNCHANGED <<account, member, founded, erased>>
     \/ (InvitesOf(Subject(r)) # {} \/ Unused = {}) /\ Fails(r)

Expire(i) ==
  /\ invites[i].state = "pending"
  /\ Becomes(i, "stale")
  /\ UNCHANGED <<account, member, founded, job, begun, history>>

\* acceptInvite, acceptInviteById: the invite is read, then its user.
ReadInvite(r) ==
  /\ \E i \in Invites :
       /\ Live(i)
       /\ invites[i].user \in Accounts
       /\ Begins(r, About(IF invites[i].state = "stale" THEN "drop" ELSE "accept",
                          invites[i].user, "none", i, {}))
  /\ UNCHANGED <<tables, history>>

\* The row is made unless there is one, and the invite deleted, or neither.
Joined(u, i) ==
  IF u \in Members THEN member[u] ELSE [via |-> i, role |-> invites[i].role]

AcceptInvite(r) ==
  /\ At(r, "accept")
  /\ \/ /\ Live(job[r].row)
        /\ Subject(r) \in Accounts
        /\ member' = [member EXCEPT ![Subject(r)] = Joined(Subject(r), job[r].row)]
        /\ Becomes(job[r].row, "accepted")
        /\ Ends(r)
        /\ UNCHANGED <<account, founded, history>>
     \/ (~Live(job[r].row) \/ Subject(r) \notin Accounts) /\ Fails(r)

\* declineInvite, declineInviteById and revokeInvite.
WithdrawInvite(r) ==
  /\ \E i \in Invites : Live(i) /\ Begins(r, About("drop", invites[i].user, "none", i, {}))
  /\ UNCHANGED <<tables, history>>

DropInvite(r) ==
  /\ At(r, "drop")
  /\ \/ Live(job[r].row) /\ DropsInvite(job[r].row) /\ Ends(r)
     \/ ~Live(job[r].row) /\ Fails(r)

-----------------------------------------------------------------------------
Step(r) ==
  \/ CountUsers(r) \/ CreateAccount(r) \/ FoundOrg(r)
  \/ DeleteUser(r) \/ RefuseLastUser(r) \/ RefuseLastSuperadmin(r) \/ EraseAccount(r)
  \/ ChangeMember(r) \/ RefuseLastOwner(r) \/ WriteMember(r)
  \/ CheckMember(r) \/ CheckInvite(r) \/ ReplaceInvite(r) \/ IssueInvite(r)
  \/ ReadInvite(r) \/ AcceptInvite(r) \/ WithdrawInvite(r) \/ DropInvite(r)

Next ==
  \/ \E r \in Requests : Step(r)
  \/ \E u \in Users : Login(u) \/ \E role \in {"superadmin", "editor"} : AddUser(u, role)
  \/ \E i \in Invites : Expire(i)

Spec == Init /\ [][Next]_vars

-----------------------------------------------------------------------------
(* Properties. *)

\* An organisation keeps an owner: demotions, removals, joins and new accounts
\* never take the last one, unless the owners changed between a request's check
\* and its write or an owner's account was deleted, which checks no organisation.
OwnerStays == founded /\ "owners" \notin overtaken /\ ~erased => Owners # {}

\* The last superadmin goes only in a deletion that had counted another one who
\* has gone since: whatever accounts are added, and however else deletions
\* overlap, a system that has a superadmin keeps one.
SuperadminStays ==
  [][Superadmins # {} /\ Superadmins' = {} =>
       \E r \in Requests : EraseAccount(r) /\ ~(job[r].basis \subseteq Superadmins)]_vars

\* A member who joined by an invite joined by one that was addressed to it and
\* can no longer be used: an invite makes one membership, and one that was
\* declined, revoked or replaced makes none.
JoinedOnce ==
  \A u \in Members : member[u].via # 0 =>
    invites[member[u].via].user = u /\ invites[member[u].via].state = "accepted"

\* At most one invite of a user can be accepted, and none by a member, unless
\* the user joined between the check and the creation of the invite.
InvitesAreForOutsiders ==
  /\ \A i, k \in Invites : Live(i) /\ Live(k) /\ invites[i].user = invites[k].user => i = k
  /\ "invite" \notin overtaken => \A u \in Members : InvitesOf(u) = {}

\* What a request under way holds is still so, or was so when it was read.
ErasesKnow(j) ==
  /\ j.op \in {"users", "superadmins", "erase"} => account[j.user] # "none"
  /\ j.op = "users" /\ j.user \in Superadmins => j.basis # {}
  /\ j.op = "erase" /\ j.user \in Superadmins => Cardinality(j.basis) > 1

WritesKnow(j) ==
  j.op = "write" => \/ j.to = "owner"
                    \/ j.user \notin j.basis
                    \/ Cardinality(j.basis) > 1

InvitesKnow(j) ==
  /\ j.op \in {"existing", "replace", "issue"} =>
       founded /\ j.user \notin j.basis /\ j.to \in {"admin", "member"}
  /\ j.op \in {"replace", "accept", "drop"} =>
       /\ j.row \in Invites
       /\ invites[j.row].state # "new"
       /\ invites[j.row].user = j.user

Knows(j) ==
  /\ j.op # "idle" => j.user \in Users
  /\ ErasesKnow(j) /\ WritesKnow(j) /\ InvitesKnow(j)

RequestsKnow == \A r \in Requests : Knows(job[r])

RowsAgree ==
  /\ Members \subseteq Accounts
  /\ \A i \in Invites : invites[i].state # "new" => founded /\ invites[i].user \in Users
  /\ ~founded => Members = {}

\* The inductive invariant.
MembershipInvariant ==
  /\ TypeOK /\ RowsAgree /\ RequestsKnow
  /\ OwnerStays /\ JoinedOnce /\ InvitesAreForOutsiders
=============================================================================
