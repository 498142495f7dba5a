-------------------------- MODULE MembershipProofs --------------------------
(***************************************************************************)
(* The inductive invariant of Membership, for any users, requests and      *)
(* numbers of invites: the organisation keeps an owner and an invite makes *)
(* at most one membership.  With what it says of the requests, the last    *)
(* superadmin goes only after another one who was counted with it.         *)
(***************************************************************************)
EXTENDS Membership, FiniteSetTheorems, TLAPS

\* The part of the types that is about the tables and the history.
TableTypes ==
  /\ account \in [Users -> {"none", "superadmin", "editor", "deleted"}]
  /\ member \in [Users -> Row]
  /\ invites \in [Invites -> Invite]
  /\ founded \in BOOLEAN
  /\ overtaken \in SUBSET {"owners", "invite"}
  /\ erased \in BOOLEAN

Tables == RowsAgree /\ OwnerStays /\ JoinedOnce /\ InvitesAreForOutsiders

\* What a step may change of what other requests rely on.
Evolves ==
  /\ overtaken \subseteq overtaken'
  /\ \A u \in Users : account[u] # "none" => account'[u] # "none"
  /\ \A u \in Users : account[u] # "none" /\ u \notin Superadmins => u \notin Superadmins'
  /\ founded => founded'
  /\ \A i \in Invites : invites[i].state # "new" =>
       invites'[i].state # "new" /\ invites'[i].user = invites[i].user

Safe == TableTypes' /\ Tables' /\ Evolves

-----------------------------------------------------------------------------
(* Counting. *)
\* A set that is counted to more than one has another element.
LEMMA AnotherOne ==
  ASSUME NEW S \in SUBSET Users, Cardinality(S) > 1, NEW x
  PROVE  \E y \in S : y # x
<1> SUFFICES ASSUME \A y \in S : y = x PROVE FALSE
  OBVIOUS
<1>1. CASE S = {}
  <2>1. Cardinality(S) = 0
    BY <1>1, FS_EmptySet
  <2> QED  BY <2>1
<1>2. CASE S = {x}
  <2>1. Cardinality(S) = 1
    BY <1>2, FS_Singleton
  <2> QED  BY <2>1
<1> QED  BY <1>1, <1>2

-----------------------------------------------------------------------------
(* What requests hold. *)
LEMMA AboutIsJob ==
  ASSUME NEW op \in Ops, NEW u \in Users \cup {None}, NEW to \in OrgRoles \cup {"none"},
         NEW row \in 0 .. MaxInvites, NEW basis \in SUBSET Users
  PROVE  /\ About(op, u, to, row, basis) \in Job
         /\ About(op, u, to, row, basis).op = op
         /\ About(op, u, to, row, basis).user = u
         /\ About(op, u, to, row, basis).to = to
         /\ About(op, u, to, row, basis).row = row
         /\ About(op, u, to, row, basis).basis = basis
BY DEF About, Job

LEMMA JobFields ==
  ASSUME NEW j \in Job
  PROVE  /\ j.op \in Ops /\ j.user \in Users \cup {None} /\ j.to \in OrgRoles \cup {"none"}
         /\ j.row \in 0 .. MaxInvites /\ j.basis \in SUBSET Users
BY DEF Job

LEMMA IdleKnows == Idle \in Job /\ Idle.op = "idle" /\ Knows(Idle)
<1>1. 0 \in 0 .. MaxInvites
  BY BoundsAssumption
<1>2. Idle \in Job /\ Idle.op = "idle"
  BY <1>1, AboutIsJob DEF Idle, Ops
<1> QED
  BY <1>2 DEF Knows, ErasesKnow, WritesKnow, InvitesKnow

\* What one request knows survives the steps of others.
LEMMA KnowsStays ==
  ASSUME Evolves, NEW j, Knows(j)
  PROVE  Knows(j)'
<1>1. j.op # "idle" => j.user \in Users
  BY DEF Knows
<1>2. ErasesKnow(j)'
  BY <1>1 DEF Knows, ErasesKnow, Evolves
<1>3. WritesKnow(j)'
  BY DEF Knows, WritesKnow
<1>4. InvitesKnow(j)'
  BY DEF Knows, InvitesKnow, Evolves
<1> QED  BY <1>1, <1>2, <1>3, <1>4 DEF Knows

\* A step of request r, put together.
LEMMA Holds ==
  ASSUME MembershipInvariant, Safe, NEW r \in Requests, NEW j \in Job, Knows(j),
         job' = [job EXCEPT ![r] = j], begun' \in Nat
  PROVE  MembershipInvariant'
<1>1. job \in [Requests -> Job] /\ \A q \in Requests : Knows(job[q])
  BY DEF MembershipInvariant, TypeOK, RequestsKnow
<1>2. job' \in [Requests -> Job] /\ job'[r] = j /\ \A q \in Requests \ {r} : job'[q] = job[q]
  BY <1>1
<1>3. TypeOK'
  BY <1>2 DEF Safe, TableTypes, TypeOK
<1>4. RequestsKnow'
  <2> SUFFICES ASSUME NEW q \in Requests PROVE Knows(job[q])'
    BY DEF RequestsKnow
  <2>1. PICK k : k = job'[q]
    OBVIOUS
  <2>2. Knows(k)
    BY <1>1, <1>2, <2>1
  <2>3. Knows(k)'
    BY <2>2, KnowsStays DEF Safe
  <2> QED
    BY <2>1, <2>3 DEF Knows, ErasesKnow, WritesKnow, InvitesKnow
<1> QED
  BY <1>3, <1>4 DEF Safe, Tables, MembershipInvariant

\* The same for a step that belongs to no request.
LEMMA HoldsOutside ==
  ASSUME MembershipInvariant, Safe, UNCHANGED <<job, begun>>
  PROVE  MembershipInvariant'
<1>1. job \in [Requests -> Job] /\ \A q \in Requests : Knows(job[q])
  BY DEF MembershipInvariant, TypeOK, RequestsKnow
<1>2. TypeOK'
  BY DEF Safe, TableTypes, TypeOK, MembershipInvariant
<1>3. RequestsKnow'
  <2> SUFFICES ASSUME NEW q \in Requests PROVE Knows(job[q])'
    BY DEF RequestsKnow
  <2>1. PICK k : k = job'[q] /\ k = job[q]
    OBVIOUS
  <2>2. Knows(k)
    BY <1>1, <2>1
  <2>3. Knows(k)'
    BY <2>2, KnowsStays DEF Safe
  <2> QED
    BY <2>1, <2>3 DEF Knows, ErasesKnow, WritesKnow, InvitesKnow
<1> QED
  BY <1>2, <1>3 DEF Safe, Tables, MembershipInvariant

\* A step that writes no table.
LEMMA QuietIsSafe ==
  ASSUME MembershipInvariant, UNCHANGED <<tables, history>>
  PROVE  Safe
<1>1. /\ account' = account /\ member' = member /\ invites' = invites /\ founded' = founded
      /\ overtaken' = overtaken /\ erased' = erased
  BY DEF tables, history
<1>2. TableTypes'
  BY <1>1 DEF MembershipInvariant, TypeOK, TableTypes
<1>3. Accounts' = Accounts /\ Superadmins' = Superadmins /\ Members' = Members /\ Owners' = Owners
  BY <1>1 DEF Accounts, Superadmins, Members, Owners
<1>4. RowsAgree' /\ OwnerStays' /\ JoinedOnce'
  BY <1>1, <1>3 DEF MembershipInvariant, RowsAgree, OwnerStays, JoinedOnce
<1>5. InvitesAreForOutsiders'
  BY <1>1, <1>3 DEF MembershipInvariant, InvitesAreForOutsiders, InvitesOf, Live
<1>6. Evolves
  BY <1>1, <1>3 DEF Evolves
<1> QED  BY <1>2, <1>4, <1>5, <1>6 DEF Safe, Tables

-----------------------------------------------------------------------------
(* What the steps do to the tables. *)
\* A new account, whatever its role.
LEMMA NewAccountIsSafe ==
  ASSUME MembershipInvariant,
         NEW u \in Users, account[u] = "none",
         NEW role \in {"superadmin", "editor"},
         account' = [account EXCEPT ![u] = role],
         UNCHANGED <<member, invites, founded, history>>
  PROVE  Safe
<1> USE DEF MembershipInvariant
<1>1. /\ account \in [Users -> {"none", "superadmin", "editor", "deleted"}]
      /\ overtaken' = overtaken /\ erased' = erased
  BY DEF TypeOK, history
<1>2. /\ account'[u] = role /\ \A w \in Users \ {u} : account'[w] = account[w]
      /\ account' \in [Users -> {"none", "superadmin", "editor", "deleted"}]
  BY <1>1
<1>3. Accounts' = Accounts \cup {u}
  BY <1>1, <1>2 DEF Accounts
<1>4. Superadmins' \subseteq Superadmins \cup {u}
  BY <1>1, <1>2 DEF Superadmins
<1>5. Members' = Members /\ Owners' = Owners
  BY DEF Members, Owners
<1>6. TableTypes'
  BY <1>1, <1>2 DEF TypeOK, TableTypes
<1>7. RowsAgree' /\ OwnerStays' /\ JoinedOnce'
  BY <1>1, <1>3, <1>5 DEF RowsAgree, OwnerStays, JoinedOnce
<1>8. InvitesAreForOutsiders'
  BY <1>1, <1>5 DEF InvitesAreForOutsiders, InvitesOf, Live
<1>9. Evolves
  <2>1. \A w \in Users : account[w] # "none" => account'[w] # "none"
    BY <1>2
  <2>2. \A w \in Users : account[w] # "none" /\ w \notin Superadmins => w \notin Superadmins'
    BY <1>4
  <2> QED  BY <1>1, <2>1, <2>2 DEF Evolves
<1> QED  BY <1>6, <1>7, <1>8, <1>9 DEF Safe, Tables

\* What stays when no account is written.
LEMMA SameAccounts ==
  ASSUME UNCHANGED account
  PROVE  Accounts' = Accounts /\ Superadmins' = Superadmins
BY DEF Accounts, Superadmins

\* The users whose row is not written.
LEMMA OneRowWritten ==
  ASSUME member \in [Users -> Row], NEW u \in Users, NEW row \in Row,
         member' = [member EXCEPT ![u] = row]
  PROVE  /\ member' \in [Users -> Row]
         /\ member'[u] = row
         /\ \A w \in Users \ {u} : member'[w] = member[w]
         /\ Members' = IF row.role = "none" THEN Members \ {u} ELSE Members \cup {u}
         /\ Owners' = IF row.role = "owner" THEN Owners \cup {u} ELSE Owners \ {u}
<1>1. member'[u] = row /\ \A w \in Users \ {u} : member'[w] = member[w]
  OBVIOUS
<1>2. Members' = IF row.role = "none" THEN Members \ {u} ELSE Members \cup {u}
  BY <1>1 DEF Members
<1>3. Owners' = IF row.role = "owner" THEN Owners \cup {u} ELSE Owners \ {u}
  BY <1>1 DEF Owners
<1> QED  BY <1>1, <1>2, <1>3

LEMMA RowFields ==
  ASSUME NEW via \in 0 .. MaxInvites, NEW role \in OrgRoles \cup {"none"}
  PROVE  /\ [via |-> via, role |-> role] \in Row
         /\ [via |-> via, role |-> role].via = via
         /\ [via |-> via, role |-> role].role = role
BY DEF Row

LEMMA NoRowFields == NoRow \in Row /\ NoRow.via = 0 /\ NoRow.role = "none"
<1>1. 0 \in 0 .. MaxInvites
  BY BoundsAssumption
<1> QED  BY <1>1 DEF Row, NoRow

\* The organisation is founded with its owner.
LEMMA FoundIsSafe ==
  ASSUME MembershipInvariant, NEW u \in Users, Found(u)
  PROVE  Safe
<1> DEFINE row == [via |-> 0, role |-> "owner"]
<1> USE DEF MembershipInvariant
<1>1. /\ ~founded /\ u \in Accounts /\ founded' = TRUE
      /\ member' = [member EXCEPT ![u] = row]
      /\ account' = account /\ invites' = invites /\ overtaken' = overtaken /\ erased' = erased
  BY DEF Found, history
<1>2. row \in Row /\ row.via = 0 /\ row.role = "owner"
  <2>1. 0 \in 0 .. MaxInvites
    BY BoundsAssumption
  <2> QED  BY <2>1 DEF Row, OrgRoles
<1> HIDE DEF row
<1>3. Members = {} /\ \A i \in Invites : invites[i].state = "new"
  BY <1>1 DEF RowsAgree
<1>4. member \in [Users -> Row]
  BY DEF TypeOK
<1>5. /\ member' \in [Users -> Row] /\ member'[u] = row
      /\ Members' = {u} /\ u \in Owners'
  BY <1>1, <1>2, <1>3, <1>4, OneRowWritten
<1>6. Accounts' = Accounts /\ Superadmins' = Superadmins
  BY <1>1, SameAccounts
<1>7. TableTypes'
  BY <1>1, <1>5 DEF TypeOK, TableTypes
<1>8. RowsAgree' /\ OwnerStays'
  BY <1>1, <1>3, <1>5, <1>6 DEF RowsAgree, OwnerStays
<1>9. JoinedOnce'
  BY <1>2, <1>5 DEF JoinedOnce
<1>10. InvitesAreForOutsiders'
  BY <1>1, <1>3 DEF InvitesAreForOutsiders, InvitesOf, Live
<1>11. Evolves
  BY <1>1, <1>6 DEF Evolves
<1> QED  BY <1>7, <1>8, <1>9, <1>10, <1>11 DEF Safe, Tables

\* An account is deleted, with its membership.
LEMMA EraseIsSafe ==
  ASSUME MembershipInvariant, NEW u \in Accounts,
         account' = [account EXCEPT ![u] = "deleted"],
         member' = [member EXCEPT ![u] = NoRow],
         erased' = (erased \/ u \in Owners),
         UNCHANGED <<invites, founded, overtaken>>
  PROVE  Safe
<1> USE DEF MembershipInvariant
<1>1. /\ account \in [Users -> {"none", "superadmin", "editor", "deleted"}]
      /\ member \in [Users -> Row] /\ u \in Users
  BY DEF TypeOK, Accounts
<1>2. /\ account'[u] = "deleted" /\ \A w \in Users \ {u} : account'[w] = account[w]
      /\ account' \in [Users -> {"none", "superadmin", "editor", "deleted"}]
  BY <1>1
<1>3. Accounts' = Accounts \ {u} /\ Superadmins' = Superadmins \ {u}
  BY <1>1, <1>2 DEF Accounts, Superadmins
<1>4. /\ member' \in [Users -> Row]
      /\ \A w \in Users \ {u} : member'[w] = member[w]
      /\ Members' = Members \ {u} /\ Owners' = Owners \ {u}
  BY <1>1, NoRowFields, OneRowWritten
<1>5. erased' \in BOOLEAN
  BY DEF TypeOK
<1>6. TableTypes'
  BY <1>2, <1>4, <1>5 DEF TypeOK, TableTypes
<1>7. RowsAgree'
  BY <1>3, <1>4 DEF RowsAgree
<1>8. OwnerStays'
  <2> SUFFICES ASSUME founded, "owners" \notin overtaken, ~ erased' PROVE Owners' # {}
    BY DEF OwnerStays
  <2>1. ~ erased /\ u \notin Owners
    OBVIOUS
  <2> QED  BY <2>1, <1>4 DEF OwnerStays
<1>9. JoinedOnce'
  BY <1>4 DEF JoinedOnce, Members
<1>10. InvitesAreForOutsiders'
  BY <1>4 DEF InvitesAreForOutsiders, InvitesOf, Live
<1>11. Evolves
  <2>1. \A w \in Users : account[w] # "none" => account'[w] # "none"
    BY <1>2
  <2>2. \A w \in Users : w \notin Superadmins => w \notin Superadmins'
    BY <1>3
  <2> QED  BY <2>1, <2>2 DEF Evolves
<1> QED  BY <1>6, <1>7, <1>8, <1>9, <1>10, <1>11 DEF Safe, Tables

\* A member's row is rewritten or removed after the owners were counted.
LEMMA WriteIsSafe ==
  ASSUME MembershipInvariant, NEW u \in Users, NEW row \in Row, NEW basis \in SUBSET Users,
         u \in Members,
         row = NoRow \/ row.via = member[u].via,
         row.role = "owner" \/ u \notin basis \/ Cardinality(basis) > 1,
         member' = [member EXCEPT ![u] = row],
         overtaken' = IF basis = Owners THEN overtaken ELSE overtaken \cup {"owners"},
         UNCHANGED <<account, invites, founded, erased>>
  PROVE  Safe
<1> USE DEF MembershipInvariant
<1>1. member \in [Users -> Row] /\ overtaken \in SUBSET {"owners", "invite"}
  BY DEF TypeOK
<1>2. /\ member' \in [Users -> Row] /\ member'[u] = row
      /\ \A w \in Users \ {u} : member'[w] = member[w]
      /\ Members' = IF row.role = "none" THEN Members \ {u} ELSE Members \cup {u}
      /\ Owners' = IF row.role = "owner" THEN Owners \cup {u} ELSE Owners \ {u}
  BY <1>1, OneRowWritten
<1>3. Members' \subseteq Members /\ founded /\ Members # {}
  BY <1>2 DEF RowsAgree
<1>4. Accounts' = Accounts /\ Superadmins' = Superadmins
  BY SameAccounts
<1>5. overtaken \subseteq overtaken' /\ overtaken' \in SUBSET {"owners", "invite"}
  BY <1>1
<1>6. TableTypes'
  BY <1>2, <1>5 DEF TypeOK, TableTypes
<1>7. RowsAgree'
  BY <1>3, <1>4 DEF RowsAgree
<1>8. OwnerStays'
  <2> SUFFICES ASSUME "owners" \notin overtaken', ~ erased PROVE Owners' # {}
    BY DEF OwnerStays
  <2>1. basis = Owners /\ "owners" \notin overtaken
    BY <1>5
  <2>2. Owners # {}
    BY <1>3, <2>1 DEF OwnerStays
  <2>3. CASE row.role = "owner"
    BY <1>2, <2>3
  <2>4. CASE u \notin Owners
    BY <1>2, <2>2, <2>4
  <2>5. CASE Cardinality(Owners) > 1
    <3>1. \E y \in Owners : y # u
      BY <2>1, <2>5, AnotherOne
    <3> QED  BY <1>2, <3>1
  <2> QED  BY <2>1, <2>3, <2>4, <2>5
<1>9. JoinedOnce'
  <2> SUFFICES ASSUME NEW w \in Members', member'[w].via # 0
               PROVE  /\ invites[member'[w].via].user = w
                      /\ invites[member'[w].via].state = "accepted"
    BY DEF JoinedOnce
  <2>1. member'[w].via = member[w].via /\ w \in Members
    BY <1>2, <1>3, NoRowFields DEF Members
  <2> QED  BY <2>1 DEF JoinedOnce
<1>10. InvitesAreForOutsiders'
  BY <1>3, <1>5 DEF InvitesAreForOutsiders, InvitesOf, Live
<1>11. Evolves
  BY <1>4, <1>5 DEF Evolves
<1> QED  BY <1>6, <1>7, <1>8, <1>9, <1>10, <1>11 DEF Safe, Tables

\* The write of one invite.
LEMMA OneInviteWritten ==
  ASSUME invites \in [Invites -> Invite], NEW i \in Invites, NEW x \in Invite,
         invites' = [invites EXCEPT ![i] = x]
  PROVE  /\ invites' \in [Invites -> Invite]
         /\ invites'[i] = x
         /\ \A k \in Invites \ {i} : invites'[k] = invites[k] /\ Live(k)' = Live(k)
         /\ Live(i)' = (x.state \in {"pending", "stale"})
<1>1. invites'[i] = x /\ \A k \in Invites \ {i} : invites'[k] = invites[k]
  OBVIOUS
<1>2. \A k \in Invites \ {i} : Live(k)' = Live(k)
  BY <1>1 DEF Live
<1>3. Live(i)' = (x.state \in {"pending", "stale"})
  BY <1>1 DEF Live
<1> QED  BY <1>1, <1>2, <1>3

LEMMA StateWritten ==
  ASSUME invites \in [Invites -> Invite], NEW i \in Invites,
         NEW state \in {"stale", "accepted", "gone"}, Becomes(i, state)
  PROVE  \E x \in Invite :
           /\ x.state = state /\ x.user = invites[i].user
           /\ invites' = [invites EXCEPT ![i] = x]
<1> DEFINE x == [invites[i] EXCEPT !.state = state]
<1>1. invites[i] \in Invite
  OBVIOUS
<1>2. x \in Invite /\ x.state = state /\ x.user = invites[i].user
  BY <1>1 DEF Invite
<1>3. invites' = [invites EXCEPT ![i] = x]
  BY DEF Becomes
<1> QED  BY <1>2, <1>3

\* An invite that could be used expires, is accepted or goes.
LEMMA InviteLeavesIsSafe ==
  ASSUME MembershipInvariant, NEW i \in Invites, Live(i),
         NEW state \in {"stale", "gone"}, Becomes(i, state),
         UNCHANGED <<account, member, founded, history>>
  PROVE  Safe
<1> USE DEF MembershipInvariant
<1>1. invites \in [Invites -> Invite]
  BY DEF TypeOK
<1>2. PICK x \in Invite : /\ x.state = state /\ x.user = invites[i].user
                          /\ invites' = [invites EXCEPT ![i] = x]
  BY <1>1, StateWritten
<1>3. /\ invites' \in [Invites -> Invite] /\ invites'[i] = x
      /\ \A k \in Invites \ {i} : invites'[k] = invites[k]
      /\ \A k \in Invites : Live(k)' => Live(k)
  BY <1>1, <1>2, OneInviteWritten
<1>4. \A k \in Invites : invites'[k].user = invites[k].user
  BY <1>2, <1>3
<1>5. /\ account' = account /\ member' = member /\ founded' = founded
      /\ overtaken' = overtaken /\ erased' = erased
  BY DEF history
<1>6. Accounts' = Accounts /\ Superadmins' = Superadmins /\ Members' = Members /\ Owners' = Owners
  BY <1>5 DEF Accounts, Superadmins, Members, Owners
<1>7. TableTypes'
  BY <1>3, <1>5 DEF TypeOK, TableTypes
<1>8. invites[i].state # "new" /\ invites[i].state # "accepted"
  BY DEF Live
<1>9. RowsAgree'
  BY <1>3, <1>4, <1>5, <1>6, <1>8 DEF RowsAgree
<1>10. OwnerStays'
  BY <1>5, <1>6 DEF OwnerStays
<1>11. JoinedOnce'
  <2> SUFFICES ASSUME NEW w \in Members, member[w].via # 0
               PROVE  /\ invites'[member[w].via].user = w
                      /\ invites'[member[w].via].state = "accepted"
    BY <1>5, <1>6 DEF JoinedOnce
  <2>1. member[w].via \in Invites
    BY DEF TypeOK, Row, Members, Invites
  <2>2. invites[member[w].via].user = w /\ invites[member[w].via].state = "accepted"
    BY DEF JoinedOnce
  <2>3. member[w].via # i
    BY <1>8, <2>2
  <2> QED  BY <1>3, <2>1, <2>2, <2>3
<1>12. \A u \in Users : InvitesOf(u)' \subseteq InvitesOf(u)
  BY <1>3, <1>4 DEF InvitesOf
<1>13. \A w \in Members : InvitesOf(w)' = {} \/ InvitesOf(w) # {}
  BY <1>12 DEF Members
<1>14. InvitesAreForOutsiders'
  <2>1. \A k, l \in Invites : Live(k)' /\ Live(l)' /\ invites'[k].user = invites'[l].user => k = l
    BY <1>3, <1>4 DEF InvitesAreForOutsiders
  <2>2. "invite" \notin overtaken => \A w \in Members : InvitesOf(w)' = {}
    BY <1>13 DEF InvitesAreForOutsiders
  <2> QED  BY <1>5, <1>6, <2>1, <2>2 DEF InvitesAreForOutsiders
<1>15. Evolves
  BY <1>2, <1>3, <1>4, <1>5, <1>6 DEF Evolves
<1> QED  BY <1>7, <1>9, <1>10, <1>11, <1>14, <1>15 DEF Safe, Tables

\* An invite is made for a user who has none and, unless others joined since
\* the check, was not a member.
LEMMA IssueIsSafe ==
  ASSUME MembershipInvariant, NEW i \in Invites, NEW x \in Invite, founded,
         invites[i].state = "new", x.state = "pending", x.user \in Users,
         InvitesOf(x.user) = {},
         NEW basis \in SUBSET Users, x.user \notin basis,
         invites' = [invites EXCEPT ![i] = x],
         overtaken' = IF basis = Members THEN overtaken ELSE overtaken \cup {"invite"},
         UNCHANGED <<account, member, founded, erased>>
  PROVE  Safe
<1> USE DEF MembershipInvariant
<1>1. invites \in [Invites -> Invite] /\ overtaken \in SUBSET {"owners", "invite"}
  BY DEF TypeOK
<1>2. /\ invites' \in [Invites -> Invite] /\ invites'[i] = x
      /\ \A k \in Invites \ {i} : invites'[k] = invites[k] /\ Live(k)' = Live(k)
  BY <1>1, OneInviteWritten
<1>3. Accounts' = Accounts /\ Superadmins' = Superadmins /\ Members' = Members /\ Owners' = Owners
  BY DEF Accounts, Superadmins, Members, Owners
<1>4. overtaken \subseteq overtaken' /\ overtaken' \in SUBSET {"owners", "invite"}
  BY <1>1
<1>5. "owners" \notin overtaken' <=> "owners" \notin overtaken
  BY <1>1
<1>6. TableTypes'
  BY <1>2, <1>4 DEF TypeOK, TableTypes
<1>7. RowsAgree'
  BY <1>2, <1>3 DEF RowsAgree
<1>8. OwnerStays'
  BY <1>3, <1>5 DEF OwnerStays
<1>9. JoinedOnce'
  <2> SUFFICES ASSUME NEW w \in Members, member[w].via # 0
               PROVE  /\ invites'[member[w].via].user = w
                      /\ invites'[member[w].via].state = "accepted"
    BY <1>3 DEF JoinedOnce
  <2>1. member[w].via \in Invites
    BY DEF TypeOK, Row, Members, Invites
  <2>2. invites[member[w].via].user = w /\ invites[member[w].via].state = "accepted"
    BY DEF JoinedOnce
  <2> QED  BY <1>2, <2>1, <2>2
<1>10. \A k \in Invites \ {i} : Live(k)' => invites'[k].user # x.user
  BY <1>2 DEF InvitesOf
<1>11. \A k, l \in Invites : Live(k)' /\ Live(l)' /\ invites'[k].user = invites'[l].user => k = l
  BY <1>2, <1>10 DEF InvitesAreForOutsiders
<1>12. "invite" \notin overtaken' => \A w \in Members : InvitesOf(w)' = {}
  <2> SUFFICES ASSUME "invite" \notin overtaken', NEW w \in Members PROVE InvitesOf(w)' = {}
    OBVIOUS
  <2>1. basis = Members /\ "invite" \notin overtaken
    BY <1>4
  <2>2. InvitesOf(w) = {} /\ w # x.user
    BY <2>1 DEF InvitesAreForOutsiders
  <2> QED  BY <1>2, <2>2 DEF InvitesOf
<1>13. InvitesAreForOutsiders'
  BY <1>3, <1>11, <1>12 DEF InvitesAreForOutsiders
<1>14. Evolves
  BY <1>2, <1>3, <1>4, <1>5 DEF Evolves
<1> QED  BY <1>6, <1>7, <1>8, <1>9, <1>13, <1>14 DEF Safe, Tables

\* An invite is accepted: its user becomes or stays a member.
LEMMA AcceptIsSafe ==
  ASSUME MembershipInvariant, NEW i \in Invites, Live(i), invites[i].user \in Accounts,
         member' = [member EXCEPT ![invites[i].user] = Joined(invites[i].user, i)],
         Becomes(i, "accepted"),
         UNCHANGED <<account, founded, history>>
  PROVE  Safe
<1>0. PICK u : u = invites[i].user
  OBVIOUS
<1> DEFINE row == Joined(u, i)
<1> USE DEF MembershipInvariant
<1>1. invites \in [Invites -> Invite] /\ member \in [Users -> Row] /\ u \in Users
  BY <1>0 DEF TypeOK, Accounts
<1>2. PICK x \in Invite : /\ x.state = "accepted" /\ x.user = u
                          /\ invites' = [invites EXCEPT ![i] = x]
  BY <1>0, <1>1, StateWritten
<1>3. /\ invites' \in [Invites -> Invite] /\ invites'[i] = x
      /\ \A k \in Invites \ {i} : invites'[k] = invites[k]
      /\ \A k \in Invites : Live(k)' => Live(k) /\ k # i
  BY <1>1, <1>2, OneInviteWritten
<1>4. \A k \in Invites : invites'[k].user = invites[k].user
  BY <1>0, <1>2, <1>3
<1>5. /\ account' = account /\ founded' = founded
      /\ overtaken' = overtaken /\ erased' = erased
  BY DEF history
<1>6. /\ row \in Row /\ row.role # "none"
      /\ u \in Members => row = member[u]
      /\ u \notin Members => row.via = i /\ row.role # "owner"
  <2>1. CASE u \in Members
    BY <1>1, <2>1 DEF Joined, Members
  <2>2. CASE u \notin Members
    <3>1. invites[i].role \in {"member", "admin"} /\ i \in 0 .. MaxInvites
      BY <1>1, BoundsAssumption DEF Invite, Invites
    <3>2. row = [via |-> i, role |-> invites[i].role]
      BY <2>2 DEF Joined
    <3> HIDE DEF row
    <3>3. row \in Row /\ row.via = i /\ row.role = invites[i].role
      BY <3>1, <3>2, RowFields DEF OrgRoles
    <3> QED  BY <2>2, <3>1, <3>3
  <2> QED  BY <2>1, <2>2
<1> HIDE DEF row
<1>7. /\ member' \in [Users -> Row] /\ member'[u] = row
      /\ \A w \in Users \ {u} : member'[w] = member[w]
      /\ Members' = Members \cup {u}
      /\ Owners' = IF row.role = "owner" THEN Owners \cup {u} ELSE Owners \ {u}
  <2>1. member' = [member EXCEPT ![u] = row]
    BY <1>0 DEF row
  <2> QED  BY <1>1, <1>6, <2>1, OneRowWritten
<1>8. Owners \subseteq Owners'
  BY <1>6, <1>7 DEF Owners, Members
<1>9. Accounts' = Accounts /\ Superadmins' = Superadmins
  BY <1>5, SameAccounts
<1>10. TableTypes'
  BY <1>3, <1>5, <1>7 DEF TypeOK, TableTypes
<1>11. invites[i].state # "new" /\ invites[i].state # "accepted" /\ founded
  BY DEF Live, RowsAgree
<1>12. RowsAgree'
  <2>1. Members' \subseteq Accounts'
    BY <1>0, <1>7, <1>9 DEF RowsAgree
  <2>2. \A k \in Invites : invites'[k].state # "new" => founded' /\ invites'[k].user \in Users
    BY <1>0, <1>1, <1>3, <1>4, <1>5, <1>11 DEF RowsAgree
  <2> QED  BY <1>5, <1>11, <2>1, <2>2 DEF RowsAgree
<1>13. OwnerStays'
  BY <1>5, <1>8 DEF OwnerStays
<1>14. JoinedOnce'
  <2> SUFFICES ASSUME NEW w \in Members', member'[w].via # 0
               PROVE  /\ invites'[member'[w].via].user = w
                      /\ invites'[member'[w].via].state = "accepted"
    BY DEF JoinedOnce
  <2>1. CASE w = u /\ u \notin Members
    BY <1>2, <1>3, <1>6, <1>7, <2>1
  <2>2. CASE w \in Members
    <3>1. member'[w] = member[w]
      BY <1>6, <1>7, <2>2 DEF Members
    <3>2. member[w].via \in Invites
      BY <1>1, <2>2, <3>1 DEF Row, Members, Invites
    <3>3. invites[member[w].via].user = w /\ invites[member[w].via].state = "accepted"
      BY <2>2, <3>1 DEF JoinedOnce
    <3>4. member[w].via # i
      BY <1>11, <3>3
    <3> QED  BY <1>3, <3>1, <3>2, <3>3, <3>4
  <2> QED  BY <1>7, <2>1, <2>2
<1>15. InvitesAreForOutsiders'
  <2>1. \A k, l \in Invites : Live(k)' /\ Live(l)' /\ invites'[k].user = invites'[l].user => k = l
    BY <1>3, <1>4 DEF InvitesAreForOutsiders
  <2>2. InvitesOf(u)' = {}
    BY <1>0, <1>3, <1>4 DEF InvitesOf, InvitesAreForOutsiders
  <2>3. "invite" \notin overtaken => \A w \in Members : InvitesOf(w)' = {}
    <3> SUFFICES ASSUME "invite" \notin overtaken, NEW w \in Members PROVE InvitesOf(w)' = {}
      OBVIOUS
    <3>1. InvitesOf(w) = {}
      BY DEF InvitesAreForOutsiders
    <3> QED  BY <1>3, <1>4, <3>1 DEF InvitesOf
  <2> QED  BY <1>5, <1>7, <2>1, <2>2, <2>3 DEF InvitesAreForOutsiders
<1>16. Evolves
  BY <1>0, <1>2, <1>3, <1>4, <1>5, <1>9 DEF Evolves
<1> QED  BY <1>10, <1>12, <1>13, <1>14, <1>15, <1>16 DEF Safe, Tables

-----------------------------------------------------------------------------
(* The steps of a request. *)
\* A step that writes no table and leaves the request with j.
LEMMA QuietStep ==
  ASSUME MembershipInvariant, NEW r \in Requests, NEW j \in Job, Knows(j),
         job' = [job EXCEPT ![r] = j], begun' \in Nat, UNCHANGED <<tables, history>>
  PROVE  MembershipInvariant'
BY QuietIsSafe, Holds

LEMMA FailsKeeps ==
  ASSUME MembershipInvariant, NEW r \in Requests, Fails(r)
  PROVE  MembershipInvariant'
<1>1. job' = [job EXCEPT ![r] = Idle] /\ begun' \in Nat /\ UNCHANGED <<tables, history>>
  BY DEF Fails, Ends, Goes, MembershipInvariant, TypeOK
<1> QED  BY <1>1, IdleKnows, QuietStep

\* A step that is safe for the tables and ends the request.
LEMMA SafeEnd ==
  ASSUME MembershipInvariant, NEW r \in Requests, Ends(r), Safe
  PROVE  MembershipInvariant'
<1>1. job' = [job EXCEPT ![r] = Idle] /\ begun' \in Nat
  BY DEF Ends, Goes, MembershipInvariant, TypeOK
<1> QED  BY <1>1, IdleKnows, Holds

LEMMA BeginsJob ==
  ASSUME MembershipInvariant, NEW r \in Requests, NEW j, Begins(r, j)
  PROVE  job' = [job EXCEPT ![r] = j] /\ begun' \in Nat
<1>1. begun \in Nat /\ begun' = begun + 1
  BY DEF Begins, MembershipInvariant, TypeOK
<1> QED  BY <1>1 DEF Begins

\* What a request that is not idle holds.
LEMMA UnderWay ==
  ASSUME MembershipInvariant, NEW r \in Requests, ~At(r, "idle")
  PROVE  /\ job[r] \in Job /\ Knows(job[r]) /\ Subject(r) \in Users
         /\ job[r].op \in Ops /\ job[r].to \in OrgRoles \cup {"none"}
         /\ job[r].row \in 0 .. MaxInvites /\ job[r].basis \in SUBSET Users
<1>1. job[r] \in Job /\ Knows(job[r])
  BY DEF MembershipInvariant, TypeOK, RequestsKnow
<1>2. Subject(r) \in Users
  BY <1>1 DEF Knows, At, Subject
<1> QED  BY <1>1, <1>2, JobFields

\* The next step of a request, with op and basis new.
LEMMA GoesOnJob ==
  ASSUME MembershipInvariant, NEW r \in Requests, ~At(r, "idle"),
         NEW op \in Ops, NEW basis \in SUBSET Users, GoesOn(r, op, basis)
  PROVE  \E j \in Job :
           /\ j.op = op /\ j.user = Subject(r) /\ j.to = job[r].to
           /\ j.row = job[r].row /\ j.basis = basis
           /\ job' = [job EXCEPT ![r] = j] /\ begun' \in Nat
<1> DEFINE j == About(op, Subject(r), job[r].to, job[r].row, basis)
<1>1. /\ j \in Job
      /\ j.op = op /\ j.user = Subject(r) /\ j.to = job[r].to
      /\ j.row = job[r].row /\ j.basis = basis
  <2> HIDE DEF j
  <2>1. Subject(r) \in Users \cup {None}
    BY UnderWay
  <2> QED  BY <2>1, UnderWay, AboutIsJob DEF j
<1>2. job' = [job EXCEPT ![r] = j] /\ begun' \in Nat
  BY DEF GoesOn, Goes, MembershipInvariant, TypeOK
<1> QED  BY <1>1, <1>2

LEMMA CountUsersKeeps ==
  ASSUME MembershipInvariant, NEW r \in Requests, CountUsers(r)
  PROVE  MembershipInvariant'
<1>1. PICK u \in Users : Begins(r, About("create", u, "none", 0, Accounts))
  BY DEF CountUsers
<1>2. PICK j : j = About("create", u, "none", 0, Accounts)
  OBVIOUS
<1>3. j \in Job /\ j.op = "create" /\ j.user = u /\ j.basis = Accounts
  <2>1. Accounts \in SUBSET Users /\ 0 \in 0 .. MaxInvites
    BY BoundsAssumption DEF Accounts
  <2> QED  BY <1>2, <2>1, AboutIsJob DEF Ops
<1>4. Knows(j)
  BY <1>3 DEF Knows, ErasesKnow, WritesKnow, InvitesKnow
<1>5. UNCHANGED <<tables, history>>
  BY DEF CountUsers
<1> QED  BY <1>1, <1>2, <1>3, <1>4, <1>5, BeginsJob, QuietStep

LEMMA CreateAccountKeeps ==
  ASSUME MembershipInvariant, NEW r \in Requests, CreateAccount(r)
  PROVE  MembershipInvariant'
<1>1. ~At(r, "idle") /\ job[r].op = "create"
  BY DEF CreateAccount, At
<1>2. CASE Fails(r)
  BY <1>2, FailsKeeps
<1>3. CASE ~Fails(r)
  <2>1. PICK u, role : /\ u = Subject(r)
                       /\ role = IF job[r].basis = {} THEN "superadmin" ELSE "editor"
    OBVIOUS
  <2>2. /\ account[u] = "none"
        /\ account' = [account EXCEPT ![u] = role]
        /\ GoesOn(r, "found", {})
        /\ UNCHANGED <<member, invites, founded, history>>
    BY <1>3, <2>1 DEF CreateAccount
  <2>3. u \in Users /\ role \in {"superadmin", "editor"}
    BY <1>1, <2>1, UnderWay
  <2>4. Safe
    BY <2>2, <2>3, NewAccountIsSafe
  <2>5. PICK j \in Job : j.op = "found" /\ j.user = u
                         /\ job' = [job EXCEPT ![r] = j] /\ begun' \in Nat
    BY <1>1, <2>1, <2>2, GoesOnJob DEF Ops
  <2>6. Knows(j)
    BY <2>3, <2>5 DEF Knows, ErasesKnow, WritesKnow, InvitesKnow
  <2> QED  BY <2>4, <2>5, <2>6, Holds
<1> QED  BY <1>2, <1>3

LEMMA FoundOrgKeeps ==
  ASSUME MembershipInvariant, NEW r \in Requests, FoundOrg(r)
  PROVE  MembershipInvariant'
<1>1. CASE Fails(r)
  BY <1>1, FailsKeeps
<1>2. CASE Found(Subject(r)) /\ Ends(r)
  <2>1. PICK u : u = Subject(r)
    OBVIOUS
  <2>2. u \in Users /\ Found(u)
    BY <1>2, <2>1 DEF Found, Accounts
  <2> QED  BY <1>2, <2>2, FoundIsSafe, SafeEnd
<1> QED  BY <1>1, <1>2 DEF FoundOrg

LEMMA LoginKeeps ==
  ASSUME MembershipInvariant, NEW u \in Users, Login(u)
  PROVE  MembershipInvariant'
BY FoundIsSafe, HoldsOutside DEF Login

LEMMA AddUserKeeps ==
  ASSUME MembershipInvariant, NEW u \in Users, NEW role \in {"superadmin", "editor"},
         AddUser(u, role)
  PROVE  MembershipInvariant'
<1>1. /\ account[u] = "none"
      /\ account' = [account EXCEPT ![u] = role]
      /\ UNCHANGED <<member, invites, founded, history>> /\ UNCHANGED <<job, begun>>
  BY DEF AddUser
<1> QED  BY <1>1, NewAccountIsSafe, HoldsOutside

LEMMA DeleteUserKeeps ==
  ASSUME MembershipInvariant, NEW r \in Requests, DeleteUser(r)
  PROVE  MembershipInvariant'
<1>1. PICK u \in Accounts : Begins(r, About("users", u, "none", 0, {u} \cap Superadmins))
  BY DEF DeleteUser
<1>2. PICK basis, j : basis = {u} \cap Superadmins /\ j = About("users", u, "none", 0, basis)
  OBVIOUS
<1>3. u \in Users /\ account[u] # "none"
  BY DEF Accounts
<1>4. j \in Job /\ j.op = "users" /\ j.user = u /\ j.basis = basis
  <2>1. 0 \in 0 .. MaxInvites /\ basis \in SUBSET Users
    BY <1>2, <1>3, BoundsAssumption
  <2> QED  BY <1>2, <1>3, <2>1, AboutIsJob DEF Ops
<1>5. u \in Superadmins => basis # {}
  BY <1>2
<1>6. Knows(j)
  BY <1>3, <1>4, <1>5 DEF Knows, ErasesKnow, WritesKnow, InvitesKnow
<1>7. UNCHANGED <<tables, history>>
  BY DEF DeleteUser
<1> QED  BY <1>1, <1>2, <1>4, <1>6, <1>7, BeginsJob, QuietStep

\* A user whose role was not read as superadmin is none.
LEMMA RefuseLastUserKeeps ==
  ASSUME MembershipInvariant, NEW r \in Requests, RefuseLastUser(r)
  PROVE  MembershipInvariant'
<1>1. ~At(r, "idle") /\ job[r].op = "users"
  BY DEF RefuseLastUser, At
<1>2. CASE Fails(r)
  BY <1>2, FailsKeeps
<1>3. CASE ~Fails(r)
  <2>1. PICK op : op = IF job[r].basis = {} THEN "erase" ELSE "superadmins"
    OBVIOUS
  <2>2. op \in Ops /\ GoesOn(r, op, {}) /\ UNCHANGED <<tables, history>>
    BY <1>3, <2>1 DEF RefuseLastUser, Ops
  <2>3. PICK j \in Job : j.op = op /\ j.user = Subject(r)
                         /\ job' = [job EXCEPT ![r] = j] /\ begun' \in Nat
    BY <1>1, <2>2, GoesOnJob
  <2>4. ErasesKnow(job[r]) /\ Subject(r) \in Users
    BY <1>1, UnderWay DEF Knows
  <2>5. /\ account[Subject(r)] # "none"
        /\ op = "erase" => Subject(r) \notin Superadmins
        /\ op \in {"superadmins", "erase"}
    BY <1>1, <2>1, <2>4 DEF ErasesKnow, Subject
  <2>6. Knows(j)
    BY <2>3, <2>4, <2>5 DEF Knows, ErasesKnow, WritesKnow, InvitesKnow
  <2> QED  BY <2>2, <2>3, <2>6, QuietStep
<1> QED  BY <1>2, <1>3

\* A superadmin was counted with another one.
LEMMA RefuseLastSuperadminKeeps ==
  ASSUME MembershipInvariant, NEW r \in Requests, RefuseLastSuperadmin(r)
  PROVE  MembershipInvariant'
<1>1. ~At(r, "idle") /\ job[r].op = "superadmins"
  BY DEF RefuseLastSuperadmin, At
<1>2. CASE Fails(r)
  BY <1>2, FailsKeeps
<1>3. CASE ~Fails(r)
  <2>1. PICK basis : basis = Superadmins
    OBVIOUS
  <2>2. /\ Cardinality(basis) > 1 /\ basis \in SUBSET Users
        /\ GoesOn(r, "erase", basis) /\ UNCHANGED <<tables, history>>
    BY <1>3, <2>1 DEF RefuseLastSuperadmin, Superadmins
  <2>3. PICK j \in Job : j.op = "erase" /\ j.user = Subject(r) /\ j.basis = basis
                         /\ job' = [job EXCEPT ![r] = j] /\ begun' \in Nat
    BY <1>1, <2>2, GoesOnJob DEF Ops
  <2>4. ErasesKnow(job[r]) /\ Subject(r) \in Users
    BY <1>1, UnderWay DEF Knows
  <2>5. account[Subject(r)] # "none"
    BY <1>1, <2>4 DEF ErasesKnow, Subject
  <2>6. Knows(j)
    BY <2>2, <2>3, <2>4, <2>5 DEF Knows, ErasesKnow, WritesKnow, InvitesKnow
  <2> QED  BY <2>2, <2>3, <2>6, QuietStep
<1> QED  BY <1>2, <1>3

LEMMA EraseAccountKeeps ==
  ASSUME MembershipInvariant, NEW r \in Requests, EraseAccount(r)
  PROVE  MembershipInvariant'
<1>1. CASE Fails(r)
  BY <1>1, FailsKeeps
<1>2. CASE ~Fails(r)
  <2>1. PICK u : u = Subject(r)
    OBVIOUS
  <2>2. /\ u \in Accounts
        /\ account' = [account EXCEPT ![u] = "deleted"]
        /\ member' = [member EXCEPT ![u] = NoRow]
        /\ erased' = (erased \/ u \in Owners)
        /\ UNCHANGED <<invites, founded, overtaken>>
        /\ Ends(r)
    BY <1>2, <2>1, Zenon DEF EraseAccount
  <2>3. Safe
    BY <2>2, EraseIsSafe
  <2> QED  BY <2>2, <2>3, SafeEnd
<1> QED  BY <1>1, <1>2

LEMMA ChangeMemberKeeps ==
  ASSUME MembershipInvariant, NEW r \in Requests, ChangeMember(r)
  PROVE  MembershipInvariant'
<1>1. PICK u \in Members, to \in OrgRoles \cup {"none"} :
        Begins(r, About(IF MayWriteAtOnce(u, to) THEN "write" ELSE "owners",
                        u, to, member[u].via, Owners))
  BY DEF ChangeMember
<1>2. PICK op, j : /\ op = IF MayWriteAtOnce(u, to) THEN "write" ELSE "owners"
                   /\ j = About(op, u, to, member[u].via, Owners)
  OBVIOUS
<1>3. u \in Users /\ member[u].via \in 0 .. MaxInvites /\ Owners \in SUBSET Users /\ op \in Ops
  BY <1>2 DEF Members, Owners, MembershipInvariant, TypeOK, Row, Ops
<1>4. j \in Job /\ j.op = op /\ j.user = u /\ j.to = to /\ j.basis = Owners
  <2>1. PICK via, basis : via = member[u].via /\ basis = Owners
    OBVIOUS
  <2>2. j = About(op, u, to, via, basis)
    BY <1>2, <2>1
  <2>3. via \in 0 .. MaxInvites /\ basis \in SUBSET Users /\ u \in Users \cup {None}
    BY <1>3, <2>1
  <2> QED  BY <1>3, <2>1, <2>2, <2>3, AboutIsJob
<1>5. Knows(j)
  <2>1. WritesKnow(j)
    BY <1>2, <1>4 DEF WritesKnow, MayWriteAtOnce, Owners
  <2> QED  BY <1>2, <1>3, <1>4, <2>1 DEF Knows, ErasesKnow, InvitesKnow
<1>6. UNCHANGED <<tables, history>>
  BY DEF ChangeMember
<1> QED  BY <1>1, <1>2, <1>4, <1>5, <1>6, BeginsJob, QuietStep

LEMMA RefuseLastOwnerKeeps ==
  ASSUME MembershipInvariant, NEW r \in Requests, RefuseLastOwner(r)
  PROVE  MembershipInvariant'
<1>1. ~At(r, "idle") /\ job[r].op = "owners"
  BY DEF RefuseLastOwner, At
<1>2. CASE Fails(r)
  BY <1>2, FailsKeeps
<1>3. CASE ~Fails(r)
  <2>1. /\ Cardinality(Owners) > 1
        /\ GoesOn(r, "write", Owners) /\ UNCHANGED <<tables, history>>
    BY <1>3 DEF RefuseLastOwner
  <2>2. Owners \in SUBSET Users
    BY DEF Owners
  <2>3. PICK j \in Job : j.op = "write" /\ j.user = Subject(r) /\ j.basis = Owners
                         /\ job' = [job EXCEPT ![r] = j] /\ begun' \in Nat
    BY <1>1, <2>1, <2>2, GoesOnJob DEF Ops
  <2>4. Subject(r) \in Users
    BY <1>1, UnderWay
  <2>5. Knows(j)
    BY <2>1, <2>3, <2>4 DEF Knows, ErasesKnow, WritesKnow, InvitesKnow
  <2> QED  BY <2>1, <2>3, <2>5, QuietStep
<1> QED  BY <1>2, <1>3

LEMMA WriteMemberKeeps ==
  ASSUME MembershipInvariant, NEW r \in Requests, WriteMember(r)
  PROVE  MembershipInvariant'
<1>1. ~At(r, "idle") /\ job[r].op = "write"
  BY DEF WriteMember, At
<1>2. CASE Fails(r)
  BY <1>2, FailsKeeps
<1>3. CASE ~Fails(r)
  <2>1. PICK u, basis, row :
          /\ u = Subject(r) /\ basis = job[r].basis
          /\ row = IF job[r].to = "none" THEN NoRow
                   ELSE [via |-> job[r].row, role |-> job[r].to]
    OBVIOUS
  <2>2. /\ SameRow(r)
        /\ member' = [member EXCEPT ![u] = row]
        /\ Rests(r, "owners", Owners)
        /\ Ends(r)
        /\ UNCHANGED <<account, invites, founded, erased>>
    BY <1>3, <2>1, Zenon DEF WriteMember
  <2>3. u \in Users /\ basis \in SUBSET Users /\ u \in Members
    BY <1>1, <2>1, <2>2, UnderWay DEF SameRow, Members
  <2>4. row \in Row /\ (row = NoRow \/ row.via = member[u].via) /\ row.role = job[r].to
    <3>1. job[r].row \in 0 .. MaxInvites /\ job[r].to \in OrgRoles \cup {"none"}
      BY <1>1, UnderWay
    <3> QED  BY <2>1, <2>2, <3>1, RowFields, NoRowFields DEF SameRow
  <2>5. row.role = "owner" \/ u \notin basis \/ Cardinality(basis) > 1
    <3>1. WritesKnow(job[r])
      BY <1>1, UnderWay DEF Knows
    <3> QED  BY <1>1, <2>1, <2>4, <3>1 DEF WritesKnow, Subject
  <2>6. overtaken' = IF basis = Owners THEN overtaken ELSE overtaken \cup {"owners"}
    BY <2>1, <2>2 DEF Rests
  <2>7. Safe
    BY <2>2, <2>3, <2>4, <2>5, <2>6, WriteIsSafe
  <2> QED  BY <2>2, <2>7, SafeEnd
<1> QED  BY <1>2, <1>3

-----------------------------------------------------------------------------
(* The steps of an invite. *)
LEMMA CheckMemberKeeps ==
  ASSUME MembershipInvariant, NEW r \in Requests, CheckMember(r)
  PROVE  MembershipInvariant'
<1>1. PICK u \in Users, to \in {"admin", "member"} :
        MayBeInvited(u) /\ Begins(r, About("existing", u, to, 0, Members))
  BY DEF CheckMember
<1>2. PICK j, basis : basis = Members /\ j = About("existing", u, to, 0, basis)
  OBVIOUS
<1>3. j \in Job /\ j.op = "existing" /\ j.user = u /\ j.to = to /\ j.basis = basis
  <2>1. basis \in SUBSET Users /\ 0 \in 0 .. MaxInvites /\ to \in OrgRoles
    BY <1>2, BoundsAssumption DEF Members, OrgRoles
  <2> QED  BY <1>2, <2>1, AboutIsJob DEF Ops
<1>4. founded /\ u \notin basis
  BY <1>1, <1>2 DEF CheckMember, MayBeInvited
<1>5. Knows(j)
  BY <1>3, <1>4 DEF Knows, ErasesKnow, WritesKnow, InvitesKnow
<1>6. UNCHANGED <<tables, history>>
  BY DEF CheckMember
<1> QED  BY <1>1, <1>2, <1>3, <1>5, <1>6, BeginsJob, QuietStep

\* An invite that can be used was created, for a user.
LEMMA LiveInvite ==
  ASSUME MembershipInvariant, NEW i \in Invites, Live(i)
  PROVE  /\ invites[i].state # "new" /\ invites[i].state # "accepted"
         /\ founded /\ invites[i].user \in Users /\ i \in 0 .. MaxInvites
BY BoundsAssumption DEF Live, MembershipInvariant, RowsAgree, Invites

LEMMA CheckInviteKeeps ==
  ASSUME MembershipInvariant, NEW r \in Requests, CheckInvite(r)
  PROVE  MembershipInvariant'
<1>1. ~At(r, "idle") /\ job[r].op = "existing"
  BY DEF CheckInvite, At
<1>2. Knows(job[r]) /\ Subject(r) \in Users
  BY <1>1, UnderWay
<1>3. /\ founded /\ Subject(r) \notin job[r].basis /\ job[r].to \in {"admin", "member"}
      /\ job[r].basis \in SUBSET Users
  BY <1>1, <1>2, UnderWay DEF Knows, InvitesKnow, Subject
<1>4. CASE Fails(r)
  BY <1>4, FailsKeeps
<1>5. CASE GoesOn(r, "issue", job[r].basis) /\ UNCHANGED <<tables, history>>
  <2>1. PICK j \in Job : /\ j.op = "issue" /\ j.user = Subject(r) /\ j.to = job[r].to
                         /\ j.basis = job[r].basis
                         /\ job' = [job EXCEPT ![r] = j] /\ begun' \in Nat
    BY <1>1, <1>3, <1>5, GoesOnJob DEF Ops
  <2>2. Knows(j)
    BY <1>2, <1>3, <2>1 DEF Knows, ErasesKnow, WritesKnow, InvitesKnow
  <2> QED  BY <1>5, <2>1, <2>2, QuietStep
<1>6. ASSUME NEW i \in InvitesOf(Subject(r)),
             Goes(r, About("replace", Subject(r), job[r].to, i, job[r].basis)),
             UNCHANGED <<tables, history>>
      PROVE  MembershipInvariant'
  <2>1. PICK u, to, basis : u = Subject(r) /\ to = job[r].to /\ basis = job[r].basis
    OBVIOUS
  <2>2. PICK j : j = About("replace", u, to, i, basis)
    OBVIOUS
  <2>3. i \in Invites /\ Live(i) /\ invites[i].user = u
    BY <2>1 DEF InvitesOf
  <2>4. invites[i].state # "new" /\ i \in 0 .. MaxInvites
    BY <2>3, LiveInvite
  <2>5. j \in Job /\ j.op = "replace" /\ j.user = u /\ j.to = to /\ j.row = i /\ j.basis = basis
    <3>1. /\ "replace" \in Ops /\ u \in Users \cup {None} /\ to \in OrgRoles \cup {"none"}
          /\ basis \in SUBSET Users
      BY <1>2, <1>3, <2>1 DEF Ops, OrgRoles
    <3> QED  BY <2>2, <2>4, <3>1, AboutIsJob
  <2>6. Knows(j)
    BY <1>2, <1>3, <2>1, <2>3, <2>4, <2>5 DEF Knows, ErasesKnow, WritesKnow, InvitesKnow
  <2>7. job' = [job EXCEPT ![r] = j] /\ begun' \in Nat
    BY <1>6, <2>1, <2>2 DEF Goes, MembershipInvariant, TypeOK
  <2> QED  BY <1>6, <2>5, <2>6, <2>7, QuietStep
<1> QED  BY <1>4, <1>5, <1>6 DEF CheckInvite

\* A request that drops the invite it has read.
LEMMA DropsInviteIsSafe ==
  ASSUME MembershipInvariant, NEW r \in Requests, job[r].op \in {"replace", "drop"},
         Live(job[r].row), DropsInvite(job[r].row)
  PROVE  Safe
<1>1. PICK i : i = job[r].row
  OBVIOUS
<1>2. i \in Invites
  BY <1>1 DEF MembershipInvariant, RequestsKnow, Knows, InvitesKnow
<1>3. Live(i) /\ Becomes(i, "gone") /\ UNCHANGED <<account, member, founded, history>>
  BY <1>1 DEF DropsInvite
<1> QED  BY <1>2, <1>3, InviteLeavesIsSafe

LEMMA ReplaceInviteKeeps ==
  ASSUME MembershipInvariant, NEW r \in Requests, ReplaceInvite(r)
  PROVE  MembershipInvariant'
<1>1. ~At(r, "idle") /\ job[r].op = "replace"
  BY DEF ReplaceInvite, At
<1>2. CASE Fails(r)
  BY <1>2, FailsKeeps
<1>3. CASE ~Fails(r)
  <2>1. Live(job[r].row) /\ DropsInvite(job[r].row) /\ GoesOn(r, "issue", job[r].basis)
    BY <1>3 DEF ReplaceInvite
  <2>2. Safe
    BY <1>1, <2>1, DropsInviteIsSafe
  <2>3. Knows(job[r]) /\ Subject(r) \in Users /\ job[r].basis \in SUBSET Users
    BY <1>1, UnderWay
  <2>4. PICK j \in Job : /\ j.op = "issue" /\ j.user = Subject(r) /\ j.to = job[r].to
                         /\ j.basis = job[r].basis
                         /\ job' = [job EXCEPT ![r] = j] /\ begun' \in Nat
    BY <1>1, <2>1, <2>3, GoesOnJob DEF Ops
  <2>5. Knows(j)
    BY <1>1, <2>3, <2>4 DEF Knows, ErasesKnow, WritesKnow, InvitesKnow, Subject
  <2> QED  BY <2>2, <2>4, <2>5, Holds
<1> QED  BY <1>2, <1>3

LEMMA IssueInviteKeeps ==
  ASSUME MembershipInvariant, NEW r \in Requests, IssueInvite(r)
  PROVE  MembershipInvariant'
<1>1. ~At(r, "idle") /\ job[r].op = "issue"
  BY DEF IssueInvite, At
<1>2. CASE Fails(r)
  BY <1>2, FailsKeeps
<1>3. CASE ~Fails(r)
  <2>1. PICK x : x = [user |-> Subject(r), role |-> job[r].to, state |-> "pending"]
    OBVIOUS
  <2>2. /\ InvitesOf(Subject(r)) = {}
        /\ Rests(r, "invite", Members)
        /\ Ends(r)
        /\ UNCHANGED <<account, member, founded, erased>>
    BY <1>3, Zenon DEF IssueInvite
  <2>3. PICK i \in Unused : invites' = [invites EXCEPT ![i] = x]
    BY <1>3, <2>1 DEF IssueInvite
  <2>4. i \in Invites /\ invites[i].state = "new"
    BY DEF Unused
  <2>5. Knows(job[r]) /\ Subject(r) \in Users
    BY <1>1, UnderWay
  <2>6. PICK basis : basis = job[r].basis
    OBVIOUS
  <2>7. /\ founded /\ Subject(r) \notin basis /\ job[r].to \in {"admin", "member"}
        /\ basis \in SUBSET Users
    BY <1>1, <2>5, <2>6, UnderWay DEF Knows, InvitesKnow, Subject
  <2>8. x \in Invite /\ x.state = "pending" /\ x.user = Subject(r)
    BY <2>1, <2>5, <2>7 DEF Invite
  <2>9. overtaken' = IF basis = Members THEN overtaken ELSE overtaken \cup {"invite"}
    BY <2>2, <2>6 DEF Rests
  <2>10. x.user \in Users /\ InvitesOf(x.user) = {} /\ x.user \notin basis
    BY <2>2, <2>5, <2>7, <2>8
  <2>11. Safe
    BY <2>2, <2>3, <2>4, <2>7, <2>8, <2>9, <2>10, IssueIsSafe
  <2> QED  BY <2>2, <2>11, SafeEnd
<1> QED  BY <1>2, <1>3

LEMMA ExpireKeeps ==
  ASSUME MembershipInvariant, NEW i \in Invites, Expire(i)
  PROVE  MembershipInvariant'
<1>1. Live(i) /\ Becomes(i, "stale") /\ UNCHANGED <<account, member, founded, history>>
  BY DEF Expire, Live
<1>2. Safe
  BY <1>1, InviteLeavesIsSafe
<1>3. UNCHANGED <<job, begun>>
  BY DEF Expire
<1> QED  BY <1>2, <1>3, HoldsOutside

\* A request that has read an invite to accept or delete it.
LEMMA InviteReadKeeps ==
  ASSUME MembershipInvariant, NEW r \in Requests, NEW i \in Invites, Live(i),
         NEW op \in {"accept", "drop"},
         Begins(r, About(op, invites[i].user, "none", i, {})),
         UNCHANGED <<tables, history>>
  PROVE  MembershipInvariant'
<1>1. PICK u, j : u = invites[i].user /\ j = About(op, u, "none", i, {})
  OBVIOUS
<1>2. u \in Users /\ invites[i].state # "new" /\ i \in 0 .. MaxInvites
  BY <1>1, LiveInvite
<1>3. j \in Job /\ j.op = op /\ j.user = u /\ j.row = i
  BY <1>1, <1>2, AboutIsJob DEF Ops
<1>4. Knows(j)
  BY <1>1, <1>2, <1>3 DEF Knows, ErasesKnow, WritesKnow, InvitesKnow
<1> QED  BY <1>1, <1>3, <1>4, BeginsJob, QuietStep

LEMMA ReadInviteKeeps ==
  ASSUME MembershipInvariant, NEW r \in Requests, ReadInvite(r)
  PROVE  MembershipInvariant'
<1>1. PICK i \in Invites :
        /\ Live(i)
        /\ Begins(r, About(IF invites[i].state = "stale" THEN "drop" ELSE "accept",
                           invites[i].user, "none", i, {}))
  BY DEF ReadInvite
<1>2. PICK op \in {"accept", "drop"} : op = IF invites[i].state = "stale" THEN "drop" ELSE "accept"
  OBVIOUS
<1>3. Begins(r, About(op, invites[i].user, "none", i, {}))
  BY <1>1, <1>2
<1>4. UNCHANGED <<tables, history>>
  BY DEF ReadInvite
<1> QED  BY <1>1, <1>3, <1>4, InviteReadKeeps

LEMMA WithdrawInviteKeeps ==
  ASSUME MembershipInvariant, NEW r \in Requests, WithdrawInvite(r)
  PROVE  MembershipInvariant'
BY InviteReadKeeps DEF WithdrawInvite

LEMMA AcceptInviteKeeps ==
  ASSUME MembershipInvariant, NEW r \in Requests, AcceptInvite(r)
  PROVE  MembershipInvariant'
<1>1. ~At(r, "idle") /\ job[r].op = "accept"
  BY DEF AcceptInvite, At
<1>2. CASE Fails(r)
  BY <1>2, FailsKeeps
<1>3. CASE ~Fails(r)
  <2>1. PICK i : i = job[r].row
    OBVIOUS
  <2>2. i \in Invites /\ invites[i].user = Subject(r)
    BY <1>1, <2>1, UnderWay DEF Knows, InvitesKnow, Subject
  <2>3. /\ Live(i)
        /\ Subject(r) \in Accounts
        /\ member' = [member EXCEPT ![Subject(r)] = Joined(Subject(r), i)]
        /\ Becomes(i, "accepted")
        /\ Ends(r)
        /\ UNCHANGED <<account, founded, history>>
    BY <1>3, <2>1, Zenon DEF AcceptInvite
  <2>4. /\ invites[i].user \in Accounts
        /\ member' = [member EXCEPT ![invites[i].user] = Joined(invites[i].user, i)]
    BY <2>2, <2>3
  <2>5. Safe
    BY <2>2, <2>3, <2>4, AcceptIsSafe
  <2> QED  BY <2>3, <2>5, SafeEnd
<1> QED  BY <1>2, <1>3

LEMMA DropInviteKeeps ==
  ASSUME MembershipInvariant, NEW r \in Requests, DropInvite(r)
  PROVE  MembershipInvariant'
<1>1. CASE Fails(r)
  BY <1>1, FailsKeeps
<1>2. CASE ~Fails(r)
  <2>1. job[r].op = "drop" /\ Live(job[r].row) /\ DropsInvite(job[r].row) /\ Ends(r)
    BY <1>2 DEF DropInvite, At
  <2>2. Safe
    BY <2>1, DropsInviteIsSafe
  <2> QED  BY <2>1, <2>2, SafeEnd
<1> QED  BY <1>1, <1>2

-----------------------------------------------------------------------------
(* The invariant. *)
LEMMA InitHolds == Init => MembershipInvariant
<1> SUFFICES ASSUME Init PROVE MembershipInvariant
  OBVIOUS
<1>1. \A r \in Requests : job[r] = Idle
  BY DEF Init
<1>2. 0 \in 0 .. MaxInvites
  BY BoundsAssumption
<1>3. /\ account \in [Users -> {"none", "superadmin", "editor", "deleted"}]
      /\ member \in [Users -> Row]
  BY <1>2 DEF Init, Row
<1>4. NoInvite \in Invite /\ NoInvite.state = "new"
  BY DEF NoInvite, Invite
<1>5. invites \in [Invites -> Invite] /\ \A i \in Invites : invites[i].state = "new"
  BY <1>4 DEF Init
<1>6. job \in [Requests -> Job]
  BY IdleKnows DEF Init
<1>7. TypeOK
  BY <1>3, <1>5, <1>6 DEF Init, TypeOK
<1>8. RequestsKnow
  BY <1>1, IdleKnows DEF RequestsKnow
<1>9. RowsAgree
  BY <1>5 DEF Init, RowsAgree
<1>10. OwnerStays
  BY DEF Init, OwnerStays
<1>11. JoinedOnce
  BY DEF Init, JoinedOnce, Members
<1>12. InvitesAreForOutsiders
  BY <1>5 DEF InvitesAreForOutsiders, InvitesOf, Live
<1> QED  BY <1>7, <1>8, <1>9, <1>10, <1>11, <1>12 DEF MembershipInvariant

LEMMA NextKeeps == MembershipInvariant /\ [Next]_vars => MembershipInvariant'
<1> SUFFICES ASSUME MembershipInvariant, [Next]_vars PROVE MembershipInvariant'
  OBVIOUS
<1>1. ASSUME NEW r \in Requests, Step(r) PROVE MembershipInvariant'
  BY <1>1, CountUsersKeeps, CreateAccountKeeps, FoundOrgKeeps, DeleteUserKeeps,
     RefuseLastUserKeeps, RefuseLastSuperadminKeeps, EraseAccountKeeps,
     ChangeMemberKeeps, RefuseLastOwnerKeeps, WriteMemberKeeps,
     CheckMemberKeeps, CheckInviteKeeps, ReplaceInviteKeeps, IssueInviteKeeps,
     ReadInviteKeeps, AcceptInviteKeeps, WithdrawInviteKeeps, DropInviteKeeps
     DEF Step
<1>2. ASSUME NEW u \in Users,
             Login(u) \/ \E role \in {"superadmin", "editor"} : AddUser(u, role)
      PROVE  MembershipInvariant'
  BY <1>2, AddUserKeeps, LoginKeeps
<1>3. ASSUME NEW i \in Invites, Expire(i) PROVE MembershipInvariant'
  BY <1>3, ExpireKeeps
<1>4. CASE UNCHANGED vars
  <2>1. UNCHANGED <<tables, history>> /\ UNCHANGED <<job, begun>>
    BY <1>4 DEF vars
  <2> QED  BY <2>1, QuietIsSafe, HoldsOutside
<1> QED  BY <1>1, <1>2, <1>3, <1>4 DEF Next

\* The inductive invariant: types, rows that agree with each other, what the
\* requests under way hold, and the invariants below.
THEOREM MembershipInvariantHolds == Spec => []MembershipInvariant
<1>1. MembershipInvariant /\ [Next]_vars => MembershipInvariant'
  BY NextKeeps
<1> QED  BY <1>1, InitHolds, PTL DEF Spec

\* However requests overlap, the organisation has an owner unless the owners
\* changed between a check and its write or an owner's account was deleted.
THEOREM OwnerStaysHolds == Spec => []OwnerStays
<1>1. MembershipInvariant => OwnerStays
  BY DEF MembershipInvariant
<1> QED  BY <1>1, MembershipInvariantHolds, PTL

\* Only the deletion of an account makes a superadmin one no more.
LEMMA OnlyEraseTakesSuperadmins ==
  ASSUME MembershipInvariant, [Next]_vars, ~(Superadmins \subseteq Superadmins')
  PROVE  \E r \in Requests : EraseAccount(r) /\ Superadmins \ {Subject(r)} \subseteq Superadmins'
<1>1. account \in [Users -> {"none", "superadmin", "editor", "deleted"}]
  BY DEF MembershipInvariant, TypeOK
<1>2. account' # account
  BY DEF Superadmins
<1>3. ~(\E u \in Users, role \in {"superadmin", "editor"} :
          account[u] = "none" /\ account' = [account EXCEPT ![u] = role])
  BY <1>1 DEF Superadmins
<1>4. ASSUME NEW r \in Requests, CreateAccount(r), account' # account PROVE FALSE
  <2>1. ~At(r, "idle")
    BY <1>4 DEF CreateAccount, At
  <2>2. Subject(r) \in Users
    BY <2>1, UnderWay
  <2>3. PICK role : role = IF job[r].basis = {} THEN "superadmin" ELSE "editor"
    OBVIOUS
  <2>4. account[Subject(r)] = "none" /\ account' = [account EXCEPT ![Subject(r)] = role]
    BY <1>4, <2>3 DEF CreateAccount, Fails, tables
  <2> QED  BY <1>3, <2>2, <2>3, <2>4
<1>5. ASSUME NEW u \in Users, NEW role \in {"superadmin", "editor"}, AddUser(u, role) PROVE FALSE
  BY <1>3, <1>5 DEF AddUser
<1>6. PICK r \in Requests : EraseAccount(r)
  <2>1. ASSUME NEW r \in Requests, Step(r) PROVE CreateAccount(r) \/ EraseAccount(r)
    BY <1>2, <2>1
    DEF Step, CountUsers, FoundOrg, Found, DeleteUser, RefuseLastUser, RefuseLastSuperadmin,
        ChangeMember, RefuseLastOwner, WriteMember, CheckMember, CheckInvite, ReplaceInvite,
        IssueInvite, ReadInvite, AcceptInvite, WithdrawInvite, DropInvite, DropsInvite,
        Fails, tables
  <2>2. \A u \in Users : ~Login(u)
    BY <1>2 DEF Login, Found
  <2>3. \A i \in Invites : ~Expire(i)
    BY <1>2 DEF Expire
  <2>4. ~UNCHANGED vars
    BY <1>2 DEF vars, tables
  <2> QED  BY <1>2, <1>4, <1>5, <2>1, <2>2, <2>3, <2>4 DEF Next
<1>7. account' = [account EXCEPT ![Subject(r)] = "deleted"]
  BY <1>2, <1>6 DEF EraseAccount, Fails, tables
<1>8. Superadmins \ {Subject(r)} \subseteq Superadmins'
  BY <1>1, <1>7 DEF Superadmins
<1> QED  BY <1>6, <1>8

\* Accounts of any role may be added and any deletions overlap: the last
\* superadmin goes only when another one, counted with it, has gone since.
THEOREM SuperadminStaysHolds == Spec => SuperadminStays
<1>1. ASSUME MembershipInvariant, [Next]_vars, Superadmins # {}, Superadmins' = {}
      PROVE  \E r \in Requests : EraseAccount(r) /\ ~(job[r].basis \subseteq Superadmins)
  <2>1. PICK r \in Requests :
          EraseAccount(r) /\ Superadmins \ {Subject(r)} \subseteq Superadmins'
    BY <1>1, OnlyEraseTakesSuperadmins
  <2>2. PICK u, basis : u = Subject(r) /\ basis = job[r].basis
    OBVIOUS
  <2>3. Superadmins = {u}
    BY <1>1, <2>1, <2>2
  <2>4. ~At(r, "idle") /\ job[r].op = "erase"
    BY <2>1 DEF EraseAccount, At
  <2>5. ErasesKnow(job[r]) /\ basis \in SUBSET Users
    BY <1>1, <2>2, <2>4, UnderWay DEF Knows
  <2>6. Cardinality(basis) > 1
    BY <2>2, <2>3, <2>4, <2>5 DEF ErasesKnow, Subject
  <2>7. \E y \in basis : y # u
    BY <2>5, <2>6, AnotherOne
  <2> QED  BY <2>1, <2>2, <2>3, <2>7
<1> QED  BY <1>1, MembershipInvariantHolds, PTL DEF Spec, SuperadminStays

\* An invite makes one membership, of the user it was addressed to.
THEOREM JoinedOnceHolds == Spec => []JoinedOnce
<1>1. MembershipInvariant => JoinedOnce
  BY DEF MembershipInvariant
<1> QED  BY <1>1, MembershipInvariantHolds, PTL

\* A user has at most one invite that can be accepted, and a member none
\* unless it joined while the invite was being made.
THEOREM InvitesAreForOutsidersHolds == Spec => []InvitesAreForOutsiders
<1>1. MembershipInvariant => InvitesAreForOutsiders
  BY DEF MembershipInvariant
<1> QED  BY <1>1, MembershipInvariantHolds, PTL
=============================================================================
