--------------------------- MODULE Accounts_proofs ---------------------------
(***************************************************************************)
(* The types of Accounts, that the wizard makes an owner of the very first *)
(* account only, that an invitation ends once and that an active owner     *)
(* remains, for every set of users and requests in flight.                 *)
(***************************************************************************)
EXTENDS Accounts, TLAPS

Member == [in : BOOLEAN, listed : BOOLEAN, perms : SUBSET ServerScopedPermissions]
Invitation == [st : {"none", "pending", "accepted", "declined", "revoked"}, role : MemberRoles,
               by : Users, to : Users, expired : BOOLEAN]

RowTypes ==
    /\ role \in [Users -> Roles \cup {"none"}] /\ active \in [Users -> BOOLEAN]
    /\ member \in [Users -> Member] /\ inv \in [Invs -> Invitation]
    /\ global \in [Users -> SUBSET ServerScopedPermissions]
ReqTypes == req \in [Workers -> Reqs] /\ used \in Nat /\ kinds \subseteq STRING

USE DEF tables

LEMMA Types == TypeOK <=> RowTypes /\ ReqTypes
  BY DEF TypeOK, RowTypes, ReqTypes, Member, Invitation

LEMMA TypesNext == TypeOK' <=> RowTypes' /\ ReqTypes'
  BY DEF TypeOK, RowTypes, ReqTypes, Member, Invitation

LEMMA Facts == ASSUME IInv PROVE RowTypes /\ ReqTypes /\ InvitesMatch
  BY Types DEF IInv

LEMMA RoleSets ==
    /\ MemberRoles = {"viewer", "moderator", "admin"}
    /\ \A r \in MemberRoles : ServerMemberRolePermissions[r] \subseteq ServerScopedPermissions
    /\ ServerOwner \in Users
    /\ RoleDefaults \subseteq ServerScopedPermissions /\ Overrides \subseteq ServerScopedPermissions
  BY AccountsAssumption DEF MemberRoles, ServerMemberRolePermissions, ServerScopedPermissions, RoleDefaults

LEMMA Blanks ==
    /\ Idle \in Reqs /\ Idle.at = "idle" /\ Idle.i = 0 /\ Idle.held = {}
    /\ NoInv \in Invitation /\ NoInv.st = "none"
    /\ Nobody \in Member /\ ~Nobody.in /\ OldMember \in Member
  BY RoleSets DEF Idle, Reqs, NoInv, Invitation, Nobody, OldMember, Member

\* What the two action properties say of a step that leaves rows alone.
LEMMA Untouched ==
    /\ role' = role => MakesFirst
    /\ UNCHANGED <<member, inv>> => EndsOnce
  BY DEF MakesFirst, EndsOnce

-----------------------------------------------------------------------------
(* Requests *)

\* A request that holds no invitation.
LEMMA PlainReq ==
    ASSUME IInv, NEW w \in Workers, NEW r \in Reqs, req' = [req EXCEPT ![w] = r], r.at \notin {"invite", "accept"}, r.i = 0,
           \A i \in Invs : inv'[i] = inv[i]
    PROVE  req' \in [Workers -> Reqs] /\ InvitesMatch'
<1>1. req \in [Workers -> Reqs] /\ InvitesMatch /\ 0 \notin Invs
  BY Facts DEF ReqTypes, Invs
<1>2. req' \in [Workers -> Reqs] /\ req'[w] = r /\ \A v \in Workers \ {w} : req'[v] = req[v]
  BY <1>1
<1> QED
  BY <1>1, <1>2 DEF InvitesMatch

\* A request begins, and no row is written.
LEMMA Begins ==
    ASSUME IInv, NEW w \in Workers, NEW r \in Reqs, NEW kind, Begin(w, kind, r), UNCHANGED tables, InvitesMatch'
    PROVE  IInv' /\ MakesFirst /\ EndsOnce
<1>1. req' = [req EXCEPT ![w] = r] /\ used' = used + 1 /\ kinds' = kinds
  BY DEF Begin
<1>2. RowTypes' /\ ReqTypes'
  BY <1>1, Facts DEF RowTypes, ReqTypes
<1> QED
  BY <1>2, TypesNext, Untouched DEF IInv

LEMMA PlainBegins ==
    ASSUME IInv, NEW w \in Workers, NEW r \in Reqs, NEW kind, Begin(w, kind, r), UNCHANGED tables,
           r.at \notin {"invite", "accept"}, r.i = 0
    PROVE  IInv' /\ MakesFirst /\ EndsOnce
<1>1. req' = [req EXCEPT ![w] = r]
  BY DEF Begin
<1> QED
  BY <1>1, PlainReq, Begins

LEMMA NewAccounts ==
    ASSUME IInv, NEW w \in Workers, NEW u \in Users,
           \/ HandleCompleteSetup(w, u) \/ HandleRegister(w, u)
           \/ \E t \in Users, r \in Roles : HandleCreateUser(w, u, t, r)
    PROVE  IInv' /\ MakesFirst /\ EndsOnce
<1>1. UNCHANGED tables
  BY DEF HandleCompleteSetup, HandleRegister, HandleCreateUser
<1>2. CASE HandleCompleteSetup(w, u)
  <2> DEFINE r == [Idle EXCEPT !.at = "setup", !.kind = "setup", !.target = u]
  <2>1. r \in Reqs /\ r.at = "setup" /\ r.i = 0
    BY Blanks DEF Reqs
  <2>2. Begin(w, "setup", r)
    BY <1>2 DEF HandleCompleteSetup, CompleteSetup
  <2> HIDE DEF r
  <2> QED
    BY <1>1, <2>1, <2>2, PlainBegins
<1>3. CASE HandleRegister(w, u)
  <2> DEFINE r == [Idle EXCEPT !.at = "insert", !.kind = "register", !.target = u, !.val = "user"]
  <2>1. r \in Reqs /\ r.at = "insert" /\ r.i = 0
    BY Blanks DEF Reqs, Roles
  <2>2. Begin(w, "register", r)
    BY <1>3 DEF HandleRegister, Register
  <2> HIDE DEF r
  <2> QED
    BY <1>1, <2>1, <2>2, PlainBegins
<1>4. ASSUME NEW t \in Users, NEW q \in Roles, HandleCreateUser(w, u, t, q) PROVE IInv' /\ MakesFirst /\ EndsOnce
  <2> DEFINE r == [Idle EXCEPT !.at = "insert", !.kind = "create", !.target = t, !.val = q]
  <2>1. r \in Reqs /\ r.at = "insert" /\ r.i = 0
    BY Blanks DEF Reqs
  <2>2. Begin(w, "create", r)
    BY <1>4 DEF HandleCreateUser, CreateUserByAdmin
  <2> HIDE DEF r
  <2> QED
    BY <1>1, <2>1, <2>2, PlainBegins
<1> QED
  BY <1>2, <1>3, <1>4

LEMMA Administration ==
    ASSUME IInv, NEW w \in Workers, NEW u \in Users, NEW t \in Users,
           \/ \E r \in Roles : HandleUpdateUserRole(w, u, t, r)
           \/ \E on \in BOOLEAN : HandleToggleUserActive(w, u, t, on)
           \/ HandleDeleteUser(w, u, t)
    PROVE  IInv' /\ MakesFirst /\ EndsOnce
<1>1. PICK kind \in {"role", "enable", "disable", "delete"}, val \in Roles \cup {"none"} : Admin(w, u, t, kind, val)
  BY DEF HandleUpdateUserRole, HandleToggleUserActive, HandleDeleteUser
<1> DEFINE r == [Idle EXCEPT !.at = "owners", !.kind = kind, !.crole = role[u], !.target = t, !.val = val,
                             !.rows = {o \in Users : role[o] = "owner"}]
<1>2. role[u] \in Roles \cup {"none"}
  BY Facts DEF RowTypes
<1>3. r \in Reqs /\ r.at = "owners" /\ r.i = 0
  BY <1>2, Blanks DEF Reqs
<1>4. Begin(w, kind, r) /\ UNCHANGED tables
  BY <1>1 DEF Admin
<1> HIDE DEF r
<1> QED
  BY <1>3, <1>4, PlainBegins

\* An invitation that is created has a place of its own.
LEMMA Inviting ==
    ASSUME IInv, NEW w \in Workers, NEW u \in Users, NEW t \in Users, NEW q \in MemberRoles, HandleCreateInvitation(w, u, t, q)
    PROVE  IInv' /\ MakesFirst /\ EndsOnce
<1>0. req \in [Workers -> Reqs] /\ InvitesMatch
  BY Facts DEF ReqTypes
<1>1. PICK i \in Invs : inv[i].st = "none" /\ (\A v \in Workers : req[v].i # i)
        /\ Begin(w, "invite", [Idle EXCEPT !.at = "invite", !.kind = "invite", !.i = i, !.crole = q, !.target = t, !.rows = {u}])
  BY DEF HandleCreateInvitation
<1> DEFINE r == [Idle EXCEPT !.at = "invite", !.kind = "invite", !.i = i, !.crole = q, !.target = t, !.rows = {u}]
<1>2. r \in Reqs /\ r.at = "invite" /\ r.i = i /\ r.crole = q /\ r.rows = {u}
  BY Blanks DEF Reqs
<1>3. Begin(w, "invite", r)
  BY <1>1
<1> HIDE DEF r
<1>4. req' = [req EXCEPT ![w] = r]
  BY <1>3 DEF Begin
<1>5. req'[w] = r /\ \A v \in Workers \ {w} : req'[v] = req[v]
  BY <1>0, <1>4
<1>6. UNCHANGED tables
  BY DEF HandleCreateInvitation
<1>7. InvitesMatch'
  BY <1>0, <1>1, <1>2, <1>5, <1>6 DEF InvitesMatch
<1> QED
  BY <1>2, <1>3, <1>6, <1>7, Begins

LEMMA Accepting ==
    ASSUME IInv, NEW w \in Workers, NEW u \in Users, NEW i \in Invs, HandleAcceptInvitation(w, u, i)
    PROVE  IInv' /\ MakesFirst /\ EndsOnce
<1>0. req \in [Workers -> Reqs] /\ InvitesMatch /\ inv[i] \in Invitation
  BY Facts DEF ReqTypes, RowTypes
<1> DEFINE r == [Idle EXCEPT !.at = "accept", !.kind = "accept", !.i = i, !.target = u, !.perms = GrantedPermissions(i)]
<1>1. Begin(w, "accept", r) /\ inv[i].to = u /\ inv[i].st = "pending" /\ UNCHANGED tables
  BY DEF HandleAcceptInvitation, AcceptInvitation
<1>2. GrantedPermissions(i) \in SUBSET ServerScopedPermissions
  BY <1>0, RoleSets DEF GrantedPermissions, Invitation
<1>3. r \in Reqs /\ r.at = "accept" /\ r.i = i /\ r.target = u
  BY <1>2, Blanks DEF Reqs
<1> HIDE DEF r
<1>4. req' = [req EXCEPT ![w] = r]
  BY <1>1 DEF Begin
<1>5. req'[w] = r /\ \A v \in Workers \ {w} : req'[v] = req[v]
  BY <1>0, <1>4
<1>6. \A v \in Workers : req[v].at = "invite" => req[v].i # i
  BY <1>0, <1>1 DEF InvitesMatch
<1>7. InvitesMatch'
  BY <1>0, <1>1, <1>3, <1>5, <1>6 DEF InvitesMatch
<1> QED
  BY <1>1, <1>3, <1>7, Begins

-----------------------------------------------------------------------------
(* The statements of the handlers *)

\* Only the wizard's own statement ends a setup.
LEMMA NotSetup ==
    ASSUME IInv, NEW w \in Workers, NEW r, req' = [req EXCEPT ![w] = r], req[w].at # "setup"
    PROVE  MakesFirst
<1>1. req \in [Workers -> Reqs]
  BY Facts DEF ReqTypes
<1>2. \A v \in Workers \ {w} : req'[v] = req[v]
  BY <1>1
<1> QED
  BY <1>2 DEF MakesFirst

\* A request that ends, and whose rows are typed, leaves the invitations' order.
LEMMA Ends ==
    ASSUME IInv, NEW w \in Workers, Finish(w), RowTypes', \A i \in Invs : inv'[i] = inv[i]
    PROVE  IInv'
<1>1. req' = [req EXCEPT ![w] = Idle] /\ used' = used /\ kinds' = kinds
  BY DEF Finish, Go
<1>2. req' \in [Workers -> Reqs] /\ InvitesMatch'
  BY <1>1, Blanks, PlainReq
<1> QED
  BY <1>1, <1>2, Facts, TypesNext DEF IInv, ReqTypes

LEMMA Writes ==
    ASSUME IInv, NEW w \in Workers, InsertUser(w) \/ UpdateUserRole(w) \/ SetUserActive(w) \/ SetupInsert(w)
    PROVE  IInv' /\ MakesFirst /\ EndsOnce
<1>0. req[w] \in Reqs /\ RowTypes /\ UNCHANGED <<member, global, inv>> /\ Finish(w)
  BY Facts DEF ReqTypes, InsertUser, UpdateUserRole, SetUserActive, SetupInsert
<1>1. PICK q \in Roles \cup {"none"} : role' \in {role, [role EXCEPT ![req[w].target] = q]}
  <2>1. req[w].val \in Roles \cup {"none"} /\ "owner" \in Roles
    BY <1>0 DEF Reqs, Roles
  <2>2. req[w].target \in Users
    BY <1>0 DEF Reqs
  <2>3. role[req[w].target] \in Roles \cup {"none"}
    BY <1>0, <2>2 DEF RowTypes
  <2> QED
    BY <1>0, <2>1, <2>3 DEF InsertUser, UpdateUserRole, SetUserActive, SetupInsert
<1>2. PICK x \in BOOLEAN : active' \in {active, [active EXCEPT ![req[w].target] = x]}
  <2>1. req[w].target \in Users
    BY <1>0 DEF Reqs
  <2>2. active[req[w].target] \in BOOLEAN
    BY <1>0, <2>1 DEF RowTypes
  <2>3. CASE InsertUser(w)
    BY <2>2, <2>3 DEF InsertUser
  <2>4. CASE ~InsertUser(w)
    BY <2>4 DEF UpdateUserRole, SetUserActive, SetupInsert
  <2> QED
    BY <2>3, <2>4
<1>3. RowTypes'
  BY <1>0, <1>1, <1>2 DEF RowTypes
<1>4. IInv' /\ EndsOnce
  BY <1>0, <1>3, Ends, Untouched
<1>5. MakesFirst
  <2>1. CASE req[w].at # "setup"
    <3>1. req' = [req EXCEPT ![w] = Idle]
      BY <1>0 DEF Finish, Go
    <3> QED
      BY <2>1, <3>1, NotSetup
  <2>2. CASE req[w].at = "setup"
    <3>1. SetupInsert(w)
      BY <2>2 DEF InsertUser, UpdateUserRole, SetUserActive
    <3> QED
      BY <3>1 DEF SetupInsert, MakesFirst
  <2> QED
    BY <2>1, <2>2
<1> QED
  BY <1>4, <1>5

\* Taking the locks writes nothing, nor does the end of a circle.
LEMMA Locks ==
    ASSUME IInv, NEW w \in Workers, LockOwners(w) \/ AdminTargetChange(w) \/ DeadlockAborts(w)
    PROVE  IInv' /\ MakesFirst /\ EndsOnce
<1>0. req[w] \in Reqs /\ UNCHANGED tables /\ RowTypes'
  BY Facts DEF ReqTypes, LockOwners, AdminTargetChange, DeadlockAborts, RowTypes
<1>1. CASE Finish(w)
  BY <1>0, <1>1, Ends, Untouched
<1>2. ASSUME NEW r \in Reqs, r.at \in {"owners", "write"}, r.i = req[w].i, req[w].at = "owners", Go(w, r)
      PROVE  IInv' /\ MakesFirst /\ EndsOnce
  <2>1. req' = [req EXCEPT ![w] = r] /\ used' = used /\ kinds' = kinds
    BY <1>2 DEF Go
  <2>2. req \in [Workers -> Reqs] /\ InvitesMatch /\ used \in Nat /\ kinds \subseteq STRING
    BY Facts DEF ReqTypes
  <2>3. req' \in [Workers -> Reqs] /\ req'[w] = r /\ \A v \in Workers \ {w} : req'[v] = req[v]
    BY <2>1, <2>2
  <2>4. InvitesMatch'
    BY <1>0, <1>2, <2>2, <2>3 DEF InvitesMatch
  <2> QED
    BY <1>0, <2>1, <2>2, <2>3, <2>4, TypesNext, Untouched DEF IInv, ReqTypes
<1>3. CASE LockOwners(w)
  <2>1. PICK u \in req[w].rows, h \in SUBSET (req[w].held \cup req[w].rows) :
            req[w].at = "owners" /\ Go(w, [req[w] EXCEPT !.rows = req[w].rows \ {u}, !.held = h])
    BY <1>3 DEF LockOwners
  <2>2. PICK r : r = [req[w] EXCEPT !.rows = req[w].rows \ {u}, !.held = h]
    OBVIOUS
  <2>3. r \in Reqs /\ r.at = "owners" /\ r.i = req[w].i
    BY <1>0, <2>1, <2>2 DEF Reqs
  <2> QED
    BY <1>2, <2>1, <2>2, <2>3
<1>4. CASE AdminTargetChange(w)
  <2>1. PICK r : r = [req[w] EXCEPT !.at = "write", !.held = req[w].held \cup {req[w].target}]
    OBVIOUS
  <2>2. req[w].at = "owners" /\ (Finish(w) \/ Go(w, r))
    BY <1>4, <2>1 DEF AdminTargetChange, Finish
  <2>3. r \in Reqs /\ r.at = "write" /\ r.i = req[w].i
    BY <1>0, <2>1 DEF Reqs
  <2> QED
    BY <1>1, <1>2, <2>2, <2>3
<1> QED
  BY <1>1, <1>3, <1>4 DEF DeadlockAborts

\* A deletion takes memberships and invitations away, and makes none.
LEMMA Deletes ==
    ASSUME IInv, NEW w \in Workers, DeleteUser(w)
    PROVE  IInv' /\ MakesFirst /\ EndsOnce
<1> DEFINE u == req[w].target
<1>0. req \in [Workers -> Reqs] /\ RowTypes /\ InvitesMatch /\ u \in Users /\ req[w].at = "write"
  BY Facts DEF ReqTypes, Reqs, DeleteUser
<1>1. Finish(w) /\ req' = [req EXCEPT ![w] = Idle] /\ used' = used /\ kinds' = kinds
  BY DEF DeleteUser, Finish, Go
<1>2. MakesFirst
  BY <1>0, <1>1, NotSetup
<1>3. CASE UNCHANGED tables
  <2>1. RowTypes'
    BY <1>0, <1>3 DEF RowTypes
  <2> QED
    BY <1>1, <1>2, <1>3, <2>1, Ends, Untouched
<1>4. CASE ~UNCHANGED tables
  <2>1. /\ role' = [role EXCEPT ![u] = "none"] /\ member' = [member EXCEPT ![u] = Nobody]
        /\ inv' = [i \in Invs |-> IF inv[i].by = u THEN NoInv ELSE inv[i]] /\ active' = active
        /\ global' = [global EXCEPT ![u] = RoleDefaults]
    BY <1>4 DEF DeleteUser
  <2>2. RowTypes' /\ \A i \in Invs : inv'[i] = inv[i] \/ inv'[i].st = "none"
    BY <1>0, <2>1, Blanks, RoleSets DEF RowTypes
  <2>3. EndsOnce
    <3>1. ASSUME NEW v \in Users, member'[v] # member[v] PROVE ~member'[v].in
      BY <1>0, <2>1, <3>1, Blanks DEF RowTypes
    <3> QED
      BY <2>2, <3>1 DEF EndsOnce
  <2>4. req' \in [Workers -> Reqs] /\ req'[w] = Idle /\ \A v \in Workers \ {w} : req'[v] = req[v]
    BY <1>0, <1>1, Blanks
  <2>5. InvitesMatch'
    <3>1. 0 \notin Invs
      BY DEF Invs
    <3> QED
      BY <1>0, <2>2, <2>4, <3>1, Blanks DEF InvitesMatch
  <2> QED
    BY <1>1, <1>2, <2>2, <2>3, <2>4, <2>5, Facts, TypesNext DEF IInv, ReqTypes
<1> QED
  BY <1>3, <1>4

\* The row of a new invitation takes no other's place.
LEMMA Invites ==
    ASSUME IInv, NEW w \in Workers, CreateInvitation(w)
    PROVE  IInv' /\ MakesFirst /\ EndsOnce
<1> DEFINE by == CHOOSE u \in req[w].rows : TRUE
           k == req[w].i
           N == [NoInv EXCEPT !.st = "pending", !.role = req[w].crole, !.by = by, !.to = req[w].target]
<1>0. req \in [Workers -> Reqs] /\ req[w] \in Reqs /\ RowTypes /\ InvitesMatch /\ req[w].at = "invite" /\ used \in Nat /\ kinds \subseteq STRING
  BY Facts DEF ReqTypes, CreateInvitation
<1>1. k \in Invs /\ inv[k].st = "none" /\ req[w].crole \in MemberRoles /\ by \in Users /\ req[w].target \in Users
  BY <1>0 DEF InvitesMatch, Reqs
<1>2. UNCHANGED <<role, active, member, global>> /\ Finish(w) /\ req' = [req EXCEPT ![w] = Idle] /\ used' = used /\ kinds' = kinds
  BY DEF CreateInvitation, Finish, Go
<1>3. inv' = inv \/ inv' = [inv EXCEPT ![k] = N]
  BY DEF CreateInvitation
<1> HIDE DEF by
<1>4. N \in Invitation /\ N.st = "pending"
  BY <1>1, Blanks DEF Invitation
<1> HIDE DEF N, k
<1>5. RowTypes' /\ \A i \in Invs \ {k} : inv'[i] = inv[i]
  BY <1>0, <1>1, <1>2, <1>3, <1>4 DEF RowTypes
<1>6. MakesFirst /\ EndsOnce
  BY <1>1, <1>2, <1>5, Untouched DEF EndsOnce
<1>7. req' \in [Workers -> Reqs] /\ req'[w] = Idle /\ \A v \in Workers \ {w} : req'[v] = req[v]
  BY <1>0, <1>2, Blanks
<1>8. \A v \in Workers \ {w} : req[v].i # k
  BY <1>0 DEF InvitesMatch, k
<1>9. InvitesMatch'
  <2>1. 0 \notin Invs
    BY DEF Invs
  <2> QED
    BY <1>0, <1>5, <1>7, <1>8, <2>1, Blanks DEF InvitesMatch
<1> QED
  BY <1>0, <1>2, <1>5, <1>6, <1>7, <1>9, TypesNext DEF IInv, ReqTypes

\* Of several accepts one finds the invitation pending, and it is the addressee's.
LEMMA Accepts ==
    ASSUME IInv, NEW w \in Workers, AcceptCommit(w)
    PROVE  IInv' /\ MakesFirst /\ EndsOnce
<1> DEFINE k == req[w].i
           u == req[w].target
           M == Joined(req[w].perms)
<1>0. req \in [Workers -> Reqs] /\ req[w] \in Reqs /\ RowTypes /\ InvitesMatch /\ req[w].at = "accept" /\ used \in Nat /\ kinds \subseteq STRING
  BY Facts DEF ReqTypes, AcceptCommit
<1>1. UNCHANGED <<role, active, global>> /\ Finish(w) /\ req' = [req EXCEPT ![w] = Idle] /\ used' = used /\ kinds' = kinds
  BY DEF AcceptCommit, Finish, Go
<1>2. MakesFirst
  BY <1>1, Untouched
<1>3. CASE UNCHANGED <<inv, member>>
  <2>1. RowTypes'
    BY <1>0, <1>1, <1>3 DEF RowTypes
  <2> QED
    BY <1>1, <1>2, <1>3, <2>1, Ends, Untouched
<1>4. CASE ~UNCHANGED <<inv, member>>
  <2>1. inv[k].st = "pending" /\ inv' = [inv EXCEPT ![k].st = "accepted"] /\ member' = [member EXCEPT ![u] = M]
    BY <1>4 DEF AcceptCommit
  <2>2. k \in Invs /\ inv[k].to = u /\ u \in Users /\ M \in Member
    BY <1>0, <2>1 DEF InvitesMatch, Reqs, Member, Joined
  <2> HIDE DEF M, k, u
  <2>3. inv' \in [Invs -> Invitation] /\ inv'[k].st = "accepted" /\ inv'[k].to = inv[k].to /\ \A i \in Invs \ {k} : inv'[i] = inv[i]
    BY <1>0, <2>1, <2>2 DEF RowTypes, Invitation
  <2>4. RowTypes' /\ \A v \in Users \ {u} : member'[v] = member[v]
    BY <1>0, <1>1, <2>1, <2>2, <2>3 DEF RowTypes
  <2>5. EndsOnce
    BY <2>1, <2>2, <2>3, <2>4 DEF EndsOnce
  <2>6. req' \in [Workers -> Reqs] /\ req'[w] = Idle /\ \A v \in Workers \ {w} : req'[v] = req[v]
    BY <1>0, <1>1, Blanks
  <2>7. InvitesMatch'
    <3>1. 0 \notin Invs /\ \A v \in Workers : req[v].at = "invite" => req[v].i # k
      BY <1>0, <2>1 DEF Invs, InvitesMatch
    <3> QED
      BY <1>0, <2>1, <2>3, <2>6, <3>1, Blanks DEF InvitesMatch
  <2> QED
    BY <1>0, <1>1, <1>2, <2>4, <2>5, <2>6, <2>7, TypesNext DEF IInv, ReqTypes
<1> QED
  BY <1>3, <1>4

\* An invitation that is pending is declined, revoked or expires.
LEMMA OthersInv ==
    ASSUME IInv, Others
    PROVE  IInv' /\ MakesFirst /\ EndsOnce
<1>0. req \in [Workers -> Reqs] /\ used \in Nat /\ kinds \subseteq STRING /\ RowTypes /\ InvitesMatch
  BY Facts DEF ReqTypes
<1>1. ASSUME NEW u \in Users, AdminCreateCmd(u) PROVE IInv' /\ MakesFirst /\ EndsOnce
  <2>1. UNCHANGED <<member, global, inv, req, kinds>> /\ used' = used + 1 /\ role' = [role EXCEPT ![u] = "owner"] /\ active' = [active EXCEPT ![u] = TRUE]
    BY <1>1 DEF AdminCreateCmd
  <2>2. RowTypes' /\ ReqTypes' /\ InvitesMatch'
    BY <1>0, <2>1 DEF RowTypes, ReqTypes, InvitesMatch, Roles
  <2>3. MakesFirst
    BY <2>1 DEF MakesFirst
  <2> QED
    BY <2>1, <2>2, <2>3, Untouched, TypesNext DEF IInv
<1>2. ASSUME NEW i \in Invs, NEW d \in Invitation, inv[i].st = "pending", d.st # "none", d.to = inv[i].to,
             inv' = [inv EXCEPT ![i] = d], UNCHANGED <<role, active, member, global, req, used, kinds>>
      PROVE  IInv' /\ MakesFirst /\ EndsOnce
  <2>1. inv' \in [Invs -> Invitation] /\ inv'[i] = d /\ \A j \in Invs \ {i} : inv'[j] = inv[j]
    BY <1>0, <1>2 DEF RowTypes
  <2>2. RowTypes' /\ ReqTypes'
    BY <1>0, <1>2, <2>1 DEF RowTypes, ReqTypes
  <2>3. InvitesMatch'
    BY <1>0, <1>2, <2>1 DEF InvitesMatch
  <2>4. MakesFirst /\ EndsOnce
    BY <1>2, <2>1, Untouched DEF EndsOnce
  <2> QED
    BY <2>2, <2>3, <2>4, TypesNext DEF IInv
<1>3. ASSUME NEW i \in Invs, DeclineInvitation(i) \/ InvitationExpires(i) \/ \E u \in Users : RevokeInvitation(u, i)
      PROVE  IInv' /\ MakesFirst /\ EndsOnce
  <2>1. inv[i].st = "pending" /\ UNCHANGED <<role, active, member, global, req, used, kinds>>
    BY <1>3 DEF DeclineInvitation, InvitationExpires, RevokeInvitation
  <2>2. inv[i] \in Invitation /\ inv \in [Invs -> Invitation]
    BY <1>0 DEF RowTypes
  <2>3. \/ \E st \in {"declined", "revoked"} : inv' = [inv EXCEPT ![i] = [inv[i] EXCEPT !.st = st]]
        \/ inv' = [inv EXCEPT ![i] = [inv[i] EXCEPT !.expired = TRUE]]
    BY <1>3 DEF DeclineInvitation, InvitationExpires, RevokeInvitation
  <2>4. \A st \in {"declined", "revoked"} :
            [inv[i] EXCEPT !.st = st] \in Invitation /\ [inv[i] EXCEPT !.st = st].st # "none" /\ [inv[i] EXCEPT !.st = st].to = inv[i].to
    BY <2>2 DEF Invitation
  <2>5. [inv[i] EXCEPT !.expired = TRUE] \in Invitation /\ [inv[i] EXCEPT !.expired = TRUE].st # "none"
        /\ [inv[i] EXCEPT !.expired = TRUE].to = inv[i].to
    BY <2>1, <2>2 DEF Invitation
  <2> QED
    BY <1>2, <2>1, <2>3, <2>4, <2>5
<1>4. ASSUME NEW u \in Users, NEW t \in Users, NEW p \in Overrides, NEW granted \in BOOLEAN, SetUserPermissions(u, t, p, granted)
      PROVE  IInv' /\ MakesFirst /\ EndsOnce
  <2>1. PICK S \in {global[t] \cup {p}, global[t] \ {p}} : global' = [global EXCEPT ![t] = S]
    BY <1>4 DEF SetUserPermissions
  <2>2. UNCHANGED <<role, active, member, inv, req, kinds>> /\ used' = used + 1
    BY <1>4 DEF SetUserPermissions
  <2>3. global[t] \subseteq ServerScopedPermissions /\ p \in ServerScopedPermissions
    BY <1>0, RoleSets DEF RowTypes
  <2>4. S \subseteq ServerScopedPermissions
    BY <2>1, <2>3
  <2>5. RowTypes' /\ ReqTypes' /\ InvitesMatch'
    BY <1>0, <2>1, <2>2, <2>4 DEF RowTypes, ReqTypes, InvitesMatch
  <2> QED
    BY <2>2, <2>5, Untouched, TypesNext DEF IInv
<1> QED
  BY <1>1, <1>3, <1>4 DEF Others

-----------------------------------------------------------------------------
(* The invariant and what every step does *)

LEMMA InitInv == Init => IInv
<1> SUFFICES ASSUME Init PROVE IInv
  OBVIOUS
<1>1. RowTypes
  <2>1. PICK s \in Start : role = s.role
    BY DEF Init
  <2>2. role \in [Users -> Roles \cup {"none"}]
    BY <2>1, AccountsAssumption
  <2> QED
    BY <2>2, Blanks, RoleSets DEF Init, RowTypes
<1>2. ReqTypes
  <2>1. PICK s \in Start : kinds = s.kinds
    BY DEF Init
  <2>2. kinds \subseteq STRING
    BY <2>1, AccountsAssumption
  <2> QED
    BY <2>2, Blanks DEF Init, ReqTypes
<1>3. InvitesMatch
  BY Blanks DEF Init, InvitesMatch
<1> QED
  BY <1>1, <1>2, <1>3, Types DEF IInv

LEMMA Step ==
    ASSUME IInv, [Next]_vars
    PROVE  IInv' /\ [MakesFirst]_vars /\ [EndsOnce]_vars
<1>1. CASE UNCHANGED vars
  BY <1>1 DEF vars, IInv, TypeOK, InvitesMatch
<1>2. CASE Others
  BY <1>2, OthersInv
<1>3. ASSUME NEW w \in Workers, Request(w) PROVE IInv' /\ MakesFirst /\ EndsOnce
  BY <1>3, NewAccounts, Administration, Inviting, Accepting DEF Request
<1>4. ASSUME NEW w \in Workers, Serve(w) PROVE IInv' /\ MakesFirst /\ EndsOnce
  BY <1>4, Writes, Locks, Deletes, Invites, Accepts DEF Serve
<1>5. ASSUME NEW w \in Workers, DeadlockAborts(w) PROVE IInv' /\ MakesFirst /\ EndsOnce
  BY <1>5, Locks
<1> QED
  BY <1>1, <1>2, <1>3, <1>4, <1>5 DEF Next

\* The rows and requests keep their types, and invitations match who holds them.
THEOREM Inductive == Spec => []IInv
  BY InitInv, Step, PTL DEF Spec

\* The types of users, members, invitations and requests.
THEOREM TypeCorrect == Spec => []TypeOK
<1>1. IInv => TypeOK
  BY DEF IInv
<1> QED
  BY <1>1, Inductive, PTL

\* Setups, registrations and the command line may overlap in any way: the wizard
\* makes an owner only where there is no account (CompleteSetup's second look).
THEOREM SetupIsAlwaysFirst == Spec => SetupIsFirst
<1>1. IInv /\ [Next]_vars => [MakesFirst]_vars
  BY Step
<1> QED
  BY <1>1, Inductive, PTL DEF Spec, SetupIsFirst

\* Accepts, declines, revocations and deletions may overlap in any way: an invitation
\* that has ended stays as it ended, and nobody becomes a member but by the step that
\* accepts the invitation addressed to them (AcceptInvitation's guarded UPDATE).
THEOREM InvitationAlwaysEndsOnce == Spec => InvitationEndsOnce
<1>1. IInv /\ [Next]_vars => [EndsOnce]_vars
  BY Step
<1> QED
  BY <1>1, Inductive, PTL DEF Spec, InvitationEndsOnce

-----------------------------------------------------------------------------
(* An active owner remains *)

\* A request that leaves the accounts alone goes on, or begins, as r.
LEMMA GoesOn ==
    ASSUME IInv, LocksMatch, NEW w \in Workers, NEW r, req' = [req EXCEPT ![w] = r], UNCHANGED <<role, active>>,
           Knows(r), \A v \in Workers \ {w} : Apart(req[v], r) /\ Apart(r, req[v])
    PROVE  LocksMatch' /\ OwnerStays
<1>1. req \in [Workers -> Reqs]
  BY Facts DEF ReqTypes
<1>2. req'[w] = r /\ \A v \in Workers \ {w} : req'[v] = req[v]
  BY <1>1
<1>3. ASSUME NEW v \in Workers PROVE Knows(req[v])'
  <2>1. PICK s : s = req'[v]
    OBVIOUS
  <2>2. Knows(s)
    BY <1>2, <2>1 DEF LocksMatch
  <2>3. Knows(s)'
    BY <2>2 DEF Knows, Owners, RemovesOwner
  <2> QED
    BY <2>1, <2>3 DEF Knows, RemovesOwner
<1>4. ASSUME NEW u \in Workers, NEW v \in Workers, u # v PROVE Apart(req[u], req[v])'
  <2>1. Apart(req'[u], req'[v])
    BY <1>2, <1>4 DEF LocksMatch
  <2> QED
    BY <2>1 DEF Apart, Promotes
<1>5. OwnerStays
  BY DEF OwnerStays, ActiveOwner
<1> QED
  BY <1>3, <1>4, <1>5 DEF LocksMatch

\* A request that holds no row and makes no owner.
LEMMA PlainKnows ==
    ASSUME NEW r, r.at \notin Locking \cup {"setup"}, r.held = {}
    PROVE  Knows(r)
  BY DEF Knows, Locking

LEMMA IdleKnows == Knows(Idle) /\ \A s : Apart(s, Idle) /\ Apart(Idle, s)
<1>1. Idle.at = "idle" /\ Idle.kind = "none" /\ Idle.val = "none" /\ Idle.held = {}
  BY DEF Idle
<1> QED
  BY <1>1, PlainKnows DEF Apart, Locking, ChangesAccount, Promotes

\* A request begins: in a calm run Undisturbed keeps it apart from the others.
LEMMA BeginsApart ==
    ASSUME IInv, LocksMatch, NEW w \in Workers, NEW r \in Reqs, NEW kind, Begin(w, kind, r), UNCHANGED <<role, active>>,
           Knows(r), r.held = {}
    PROVE  LocksMatch' /\ OwnerStays
<1>1. req' = [req EXCEPT ![w] = r] /\ (Calm => Undisturbed(r))
  BY DEF Begin
<1>2. \A v \in Workers \ {w} : Apart(req[v], r) /\ Apart(r, req[v])
  BY <1>1 DEF Apart, Undisturbed
<1> QED
  BY <1>1, <1>2, GoesOn

LEMMA RequestsApart ==
    ASSUME IInv, LocksMatch, NEW w \in Workers, Request(w)
    PROVE  LocksMatch' /\ OwnerStays
<1>0. UNCHANGED <<role, active>>
  BY DEF Request, HandleCompleteSetup, HandleRegister, HandleAcceptInvitation, HandleCreateUser, HandleUpdateUserRole,
         HandleToggleUserActive, HandleDeleteUser, HandleCreateInvitation, Admin
<1>1. ASSUME NEW r \in Reqs, NEW kind, Begin(w, kind, r), r.held = {}, r.at \in {"insert", "invite", "accept"} \/ (r.at = "setup" /\ r.kind = "setup")
      PROVE  LocksMatch' /\ OwnerStays
  BY <1>0, <1>1, BeginsApart DEF Knows, Locking
<1>2. ASSUME NEW u \in Users, HandleCompleteSetup(w, u) PROVE LocksMatch' /\ OwnerStays
  <2> DEFINE r == [Idle EXCEPT !.at = "setup", !.kind = "setup", !.target = u]
  <2>1. r \in Reqs /\ r.held = {} /\ r.at = "setup" /\ r.kind = "setup"
    BY Blanks DEF Reqs
  <2>2. Begin(w, "setup", r)
    BY <1>2 DEF HandleCompleteSetup, CompleteSetup
  <2> HIDE DEF r
  <2> QED
    BY <1>1, <2>1, <2>2
<1>3. ASSUME NEW u \in Users, HandleRegister(w, u) PROVE LocksMatch' /\ OwnerStays
  <2> DEFINE r == [Idle EXCEPT !.at = "insert", !.kind = "register", !.target = u, !.val = "user"]
  <2>1. r \in Reqs /\ r.held = {} /\ r.at = "insert"
    BY Blanks DEF Reqs, Roles
  <2>2. Begin(w, "register", r)
    BY <1>3 DEF HandleRegister, Register
  <2> HIDE DEF r
  <2> QED
    BY <1>1, <2>1, <2>2
<1>4. ASSUME NEW u \in Users, NEW t \in Users, NEW q \in Roles, HandleCreateUser(w, u, t, q) PROVE LocksMatch' /\ OwnerStays
  <2> DEFINE r == [Idle EXCEPT !.at = "insert", !.kind = "create", !.target = t, !.val = q]
  <2>1. r \in Reqs /\ r.held = {} /\ r.at = "insert"
    BY Blanks DEF Reqs
  <2>2. Begin(w, "create", r)
    BY <1>4 DEF HandleCreateUser, CreateUserByAdmin
  <2> HIDE DEF r
  <2> QED
    BY <1>1, <2>1, <2>2
<1>5. ASSUME NEW u \in Users, NEW i \in Invs, HandleAcceptInvitation(w, u, i) PROVE LocksMatch' /\ OwnerStays
  <2> DEFINE r == [Idle EXCEPT !.at = "accept", !.kind = "accept", !.i = i, !.target = u, !.perms = GrantedPermissions(i)]
  <2>1. inv[i] \in Invitation
    BY Facts DEF RowTypes
  <2>2. GrantedPermissions(i) \in SUBSET ServerScopedPermissions
    BY <2>1, RoleSets DEF GrantedPermissions, Invitation
  <2>3. r \in Reqs /\ r.held = {} /\ r.at = "accept"
    BY <2>2, Blanks DEF Reqs
  <2>4. Begin(w, "accept", r)
    BY <1>5 DEF HandleAcceptInvitation, AcceptInvitation
  <2> HIDE DEF r
  <2> QED
    BY <1>1, <2>3, <2>4
<1>6. ASSUME NEW u \in Users, NEW t \in Users, NEW q \in MemberRoles, HandleCreateInvitation(w, u, t, q) PROVE LocksMatch' /\ OwnerStays
  <2>1. PICK i \in Invs : Begin(w, "invite", [Idle EXCEPT !.at = "invite", !.kind = "invite", !.i = i, !.crole = q, !.target = t, !.rows = {u}])
    BY <1>6 DEF HandleCreateInvitation
  <2> DEFINE r == [Idle EXCEPT !.at = "invite", !.kind = "invite", !.i = i, !.crole = q, !.target = t, !.rows = {u}]
  <2>2. r \in Reqs /\ r.held = {} /\ r.at = "invite"
    BY Blanks DEF Reqs
  <2>3. Begin(w, "invite", r)
    BY <2>1
  <2> HIDE DEF r
  <2> QED
    BY <1>1, <2>2, <2>3
<1>7. ASSUME NEW u \in Users, NEW t \in Users, NEW kind \in ChangesAccount, NEW val \in Roles \cup {"none"}, Admin(w, u, t, kind, val)
      PROVE  LocksMatch' /\ OwnerStays
  <2> DEFINE r == [Idle EXCEPT !.at = "owners", !.kind = kind, !.crole = role[u], !.target = t, !.val = val,
                               !.rows = {o \in Users : role[o] = "owner"}]
  <2>1. role[u] \in Roles \cup {"none"}
    BY Facts DEF RowTypes
  <2>2. r \in Reqs /\ r.held = {} /\ r.at = "owners" /\ r.kind = kind /\ r.rows = Owners
    BY ZenonT(60), <2>1, Blanks DEF Reqs, ChangesAccount, Owners
  <2>3. Begin(w, kind, r)
    BY <1>7 DEF Admin
  <2> HIDE DEF r
  <2>4. Knows(r)
    BY <2>2 DEF Knows
  <2> QED
    BY <1>0, <2>2, <2>3, <2>4, BeginsApart
<1>8. ASSUME NEW u \in Users, NEW t \in Users,
             \/ \E r \in Roles : HandleUpdateUserRole(w, u, t, r)
             \/ \E on \in BOOLEAN : HandleToggleUserActive(w, u, t, on)
             \/ HandleDeleteUser(w, u, t)
      PROVE  LocksMatch' /\ OwnerStays
  BY <1>7, <1>8 DEF HandleUpdateUserRole, HandleToggleUserActive, HandleDeleteUser, ChangesAccount
<1> QED
  BY <1>2, <1>3, <1>4, <1>5, <1>6, <1>8 DEF Request

\* A request ends and has left the accounts alone.
LEMMA EndsApart ==
    ASSUME IInv, LocksMatch, NEW w \in Workers, Finish(w), UNCHANGED <<role, active>>
    PROVE  LocksMatch' /\ OwnerStays
<1>1. req' = [req EXCEPT ![w] = Idle]
  BY DEF Finish, Go
<1> QED
  BY <1>1, GoesOn, IdleKnows

\* A request that locks a row nobody else holds.
LEMMA TakesRow ==
    ASSUME IInv, LocksMatch, NEW w \in Workers, NEW x, x \notin LockedByOthers(w), NEW r,
           r.kind = req[w].kind, r.val = req[w].val, r.held \subseteq req[w].held \cup {x}
    PROVE  \A v \in Workers \ {w} : Apart(req[v], r) /\ Apart(r, req[v])
<1> SUFFICES ASSUME NEW v \in Workers \ {w} PROVE Apart(req[v], r) /\ Apart(r, req[v])
  OBVIOUS
<1>1. Apart(req[v], req[w]) /\ Apart(req[w], req[v])
  BY DEF LocksMatch
<1>2. req[v].held \subseteq LockedByOthers(w)
  BY DEF LockedByOthers
<1>3. r.held \cap req[v].held = {}
  BY <1>1, <1>2 DEF Apart
<1> QED
  BY <1>1, <1>3 DEF Apart, Promotes

\* An owner's row that is locked, or is gone, is not forgotten.
LEMMA LockOwnersApart ==
    ASSUME IInv, LocksMatch, NEW w \in Workers, LockOwners(w)
    PROVE  LocksMatch' /\ OwnerStays
<1>1. PICK u \in req[w].rows \ LockedByOthers(w) : \E h :
        /\ h = IF role[u] = "none" THEN req[w].held ELSE req[w].held \cup {u}
        /\ Go(w, [req[w] EXCEPT !.rows = req[w].rows \ {u}, !.held = h])
  BY DEF LockOwners
<1>2. PICK h :
        /\ h = IF role[u] = "none" THEN req[w].held ELSE req[w].held \cup {u}
        /\ Go(w, [req[w] EXCEPT !.rows = req[w].rows \ {u}, !.held = h])
  BY <1>1
<1>3. PICK r : r = [req[w] EXCEPT !.rows = req[w].rows \ {u}, !.held = h]
  OBVIOUS
<1>4. req[w] \in Reqs /\ req[w].at = "owners" /\ UNCHANGED <<role, active>> /\ req' = [req EXCEPT ![w] = r]
  BY <1>2, <1>3, Facts DEF ReqTypes, LockOwners, Go
<1>5. r.at = "owners" /\ r.kind = req[w].kind /\ r.val = req[w].val /\ r.rows = req[w].rows \ {u} /\ r.held = h
  BY <1>3, <1>4 DEF Reqs
<1>6. Knows(r)
  <2>1. Knows(req[w])
    BY DEF LocksMatch
  <2>2. Owners \subseteq req[w].rows \cup req[w].held => Owners \subseteq r.rows \cup r.held
    BY <1>2, <1>5 DEF Owners
  <2> QED
    BY <1>4, <1>5, <2>1, <2>2 DEF Knows, Locking
<1>7. \A v \in Workers \ {w} : Apart(req[v], r) /\ Apart(r, req[v])
  BY <1>1, <1>2, <1>5, TakesRow
<1> QED
  BY <1>4, <1>6, <1>7, GoesOn

\* The target's row is locked too, and an owner goes only where there is another.
LEMMA TargetApart ==
    ASSUME IInv, LocksMatch, NEW w \in Workers, AdminTargetChange(w)
    PROVE  LocksMatch' /\ OwnerStays
<1>0. UNCHANGED <<role, active>>
  BY DEF AdminTargetChange
<1>1. CASE Refused(req[w])
  <2>1. Finish(w)
    BY <1>1 DEF AdminTargetChange, Finish
  <2> QED
    BY <1>0, <2>1, EndsApart
<1>2. CASE ~Refused(req[w])
  <2>1. PICK r : r = [req[w] EXCEPT !.at = "write", !.held = req[w].held \cup {req[w].target}]
    OBVIOUS
  <2>2. req[w] \in Reqs /\ req[w].at = "owners" /\ req[w].rows = {} /\ req' = [req EXCEPT ![w] = r] /\ req[w].target \notin LockedByOthers(w)
    BY <1>2, <2>1, Facts DEF ReqTypes, AdminTargetChange, Go
  <2>3. r.at = "write" /\ r.kind = req[w].kind /\ r.val = req[w].val /\ r.target = req[w].target /\ r.rows = {}
        /\ r.held = req[w].held \cup {req[w].target}
    BY <2>1, <2>2 DEF Reqs
  <2>4. Knows(r)
    <3>1. Knows(req[w])
      BY DEF LocksMatch
    <3>2. role[r.target] # "none" /\ (RemovesOwner(r) => \E u \in Users \ {r.target} : role[u] = "owner" /\ active[u])
      BY <1>2, <2>3 DEF Refused, RemovesOwner
    <3> QED
      BY <2>2, <2>3, <3>1, <3>2 DEF Knows, Locking
  <2>5. \A v \in Workers \ {w} : Apart(req[v], r) /\ Apart(r, req[v])
    BY <2>2, <2>3, TakesRow
  <2> QED
    BY <1>0, <2>2, <2>4, <2>5, GoesOn
<1> QED
  BY <1>1, <1>2

\* One account x is written by a request that ends, or by the command line: what the
\* other requests know stays true.
LEMMA Written ==
    ASSUME IInv, NEW x \in Users, NEW q \in Roles \cup {"none"}, NEW b \in BOOLEAN, NEW s \in Reqs, Knows(s),
           role' = [role EXCEPT ![x] = q], active' = [active EXCEPT ![x] = b],
           s.at = "write" => s.target # x,
           Calm /\ q = "owner" /\ role[x] # "owner" => s.kind \notin ChangesAccount,
           Calm /\ s.at = "write" /\ s.target \in Owners => x \notin Owners
    PROVE  Knows(s)'
<1>1. role \in [Users -> Roles \cup {"none"}] /\ active \in [Users -> BOOLEAN] /\ s.target \in Users
  BY Facts DEF RowTypes, Reqs
<1>2. role'[x] = q /\ active'[x] = b /\ \A u \in Users \ {x} : role'[u] = role[u] /\ active'[u] = active[u]
  BY <1>1
<1>3. s.at = "write" => role'[s.target] = role[s.target] /\ active'[s.target] = active[s.target]
  BY <1>1, <1>2
<1>4. Calm /\ s.at \in Locking => Owners' \subseteq Owners
  BY <1>2 DEF Owners, Knows
<1>5. Calm /\ s.at = "write" /\ RemovesOwner(s)' => \E u \in Users \ {s.target} : role'[u] = "owner" /\ active'[u]
  <2> SUFFICES ASSUME Calm, s.at = "write", RemovesOwner(s)' PROVE \E u \in Users \ {s.target} : role'[u] = "owner" /\ active'[u]
    OBVIOUS
  <2>1. RemovesOwner(s) /\ s.target \in Owners
    BY <1>1, <1>3 DEF RemovesOwner, Owners
  <2>2. PICK u \in Users \ {s.target} : role[u] = "owner" /\ active[u]
    BY <2>1 DEF Knows
  <2>3. u # x
    BY <2>1, <2>2 DEF Owners
  <2> QED
    BY <1>2, <2>2, <2>3
<1> QED
  BY <1>3, <1>4, <1>5 DEF Knows

\* The account x is written, the requests W end, and none of the others has locked x,
\* needs it as the owner that stays, or has missed it as a new owner.
Wrote(W, x, q, b) ==
    /\ \A v \in Workers : req'[v] = IF v \in W THEN Idle ELSE req[v]
    /\ role' = [role EXCEPT ![x] = q] /\ active' = [active EXCEPT ![x] = b]
    /\ \A v \in Workers \ W :
        /\ req[v].at = "write" => req[v].target # x
        /\ Calm /\ q = "owner" /\ role[x] # "owner" => req[v].kind \notin ChangesAccount
        /\ Calm /\ req[v].at = "write" /\ req[v].target \in Owners => x \notin Owners

\* Then what all the requests know stays true.
LEMMA AllKnow ==
    ASSUME IInv, LocksMatch, NEW W, NEW x \in Users, NEW q \in Roles \cup {"none"}, NEW b \in BOOLEAN, Wrote(W, x, q, b)
    PROVE  LocksMatch'
<1>1. req \in [Workers -> Reqs]
  BY Facts DEF ReqTypes
<1>2. ASSUME NEW v \in Workers PROVE Knows(req[v])'
  <2>1. PICK s : s = req'[v]
    OBVIOUS
  <2>2. CASE v \in W
    <3>1. s = Idle /\ s.at = "idle" /\ s.held = {}
      BY <2>1, <2>2, Blanks DEF Wrote
    <3> QED
      BY <2>1, <3>1 DEF Knows, Locking
  <2>3. CASE v \notin W
    <3>1. s \in Reqs /\ Knows(s) /\ s = req[v]
      BY <1>1, <2>1, <2>3 DEF LocksMatch, Wrote
    <3>2. Knows(s)'
      BY <2>3, <3>1, Written DEF Wrote
    <3> QED
      BY <2>1, <3>2 DEF Knows, RemovesOwner
  <2> QED
    BY <2>2, <2>3
<1>3. ASSUME NEW u \in Workers, NEW v \in Workers, u # v PROVE Apart(req[u], req[v])'
  <2>1. Apart(req'[u], req'[v])
    BY <1>3, IdleKnows DEF LocksMatch, Wrote
  <2> QED
    BY <2>1 DEF Apart, Promotes
<1> QED
  BY <1>2, <1>3 DEF LocksMatch

\* An account that was not there is nobody's target and no owner.
LEMMA NewRow ==
    ASSUME IInv, LocksMatch, NEW W, \A v \in Workers : req'[v] = IF v \in W THEN Idle ELSE req[v],
           NEW x \in Users, NEW q \in Roles, role[x] = "none", role' = [role EXCEPT ![x] = q], active' = [active EXCEPT ![x] = TRUE],
           Calm /\ q = "owner" => \A v \in Workers \ W : req[v].kind \notin ChangesAccount
    PROVE  LocksMatch' /\ OwnerStays
<1>1. ASSUME NEW v \in Workers, req[v].at = "write" PROVE req[v].target # x
  BY <1>1 DEF LocksMatch, Knows
<1>2. x \notin Owners
  BY DEF Owners
<1>3. Wrote(W, x, q, TRUE)
  BY <1>1, <1>2 DEF Wrote
<1>4. LocksMatch'
  BY <1>3, AllKnow
<1>5. OwnerStays
  <2>1. role \in [Users -> Roles \cup {"none"}] /\ active \in [Users -> BOOLEAN]
    BY Facts DEF RowTypes
  <2>2. \A u \in Users \ {x} : role'[u] = role[u] /\ active'[u] = active[u]
    BY <2>1
  <2>3. \A u \in Users : role[u] = "owner" => u # x
    OBVIOUS
  <2> QED
    BY <2>2, <2>3 DEF OwnerStays, ActiveOwner
<1> QED
  BY <1>4, <1>5

LEMMA InsertsApart ==
    ASSUME IInv, LocksMatch, NEW w \in Workers, InsertUser(w) \/ SetupInsert(w)
    PROVE  LocksMatch' /\ OwnerStays
<1> DEFINE x == req[w].target
<1>0. req \in [Workers -> Reqs] /\ req[w] \in Reqs /\ x \in Users /\ role \in [Users -> Roles \cup {"none"}] /\ active \in [Users -> BOOLEAN]
  BY Facts DEF ReqTypes, RowTypes, Reqs
<1>1. Finish(w) /\ req' = [req EXCEPT ![w] = Idle]
  BY DEF InsertUser, SetupInsert, Finish, Go
<1>2. \A v \in Workers : req'[v] = IF v \in {w} THEN Idle ELSE req[v]
  BY <1>0, <1>1
<1>3. CASE UNCHANGED <<role, active>>
  BY <1>1, <1>3, EndsApart
<1>4. ASSUME InsertUser(w), role[x] = "none" PROVE LocksMatch' /\ OwnerStays
  <2>1. role' = [role EXCEPT ![x] = req[w].val] /\ active' = [active EXCEPT ![x] = TRUE]
    BY <1>0, <1>4 DEF InsertUser
  <2>2. CASE req[w].val \in Roles
    <3>1. Calm /\ req[w].val = "owner" => \A v \in Workers \ {w} : req[v].kind \notin ChangesAccount
      BY DEF LocksMatch, Apart, Promotes
    <3>2. PICK q \in Roles : q = req[w].val
      BY <2>2
    <3> QED
      BY <1>0, <1>2, <1>4, <2>1, <3>1, <3>2, NewRow
  <2>3. CASE req[w].val \notin Roles
    <3>1. req[w].val = "none" /\ req[w].val # "owner"
      BY <1>0, <2>3 DEF Reqs, Roles
    <3>2. \A v \in Workers \ {w} : req[v].at = "write" => req[v].target # x
      BY <1>4 DEF LocksMatch, Knows
    <3>3. x \notin Owners
      BY <1>4 DEF Owners
    <3>4. Wrote({w}, x, "none", TRUE)
      BY <1>2, <2>1, <3>1, <3>2, <3>3 DEF Wrote
    <3>5. OwnerStays
      BY <1>0, <1>4, <2>1 DEF OwnerStays, ActiveOwner
    <3> QED
      BY <1>0, <3>4, <3>5, AllKnow
  <2> QED
    BY <2>2, <2>3
<1>5. ASSUME InsertUser(w), role[x] # "none" PROVE UNCHANGED <<role, active>>
  BY <1>0, <1>5 DEF InsertUser
<1>6. ASSUME SetupInsert(w), \A u \in Users : role[u] = "none" PROVE LocksMatch' /\ OwnerStays
  <2>1. role' = [role EXCEPT ![x] = "owner"] /\ active' = active /\ req[w].kind = "setup"
    BY <1>6 DEF SetupInsert, LocksMatch, Knows
  <2>2. Calm => \A v \in Workers \ {w} : req[v].kind \notin ChangesAccount
    BY <2>1 DEF LocksMatch, Apart, Promotes
  <2>3. active' = [active EXCEPT ![x] = active[x]] /\ active[x] \in BOOLEAN
    BY <1>0, <2>1
  <2>4. \A v \in Workers \ {w} : req[v].at = "write" => req[v].target # x
    BY <1>0, <1>6 DEF LocksMatch, Knows
  <2>5. x \notin Owners /\ "owner" \in Roles
    BY <1>6 DEF Owners, Roles
  <2>6. Wrote({w}, x, "owner", active[x])
    BY <1>2, <2>1, <2>2, <2>3, <2>4, <2>5 DEF Wrote
  <2>7. OwnerStays
    BY <1>6 DEF OwnerStays, ActiveOwner
  <2> QED
    BY <1>0, <2>3, <2>5, <2>6, <2>7, AllKnow
<1>7. ASSUME SetupInsert(w), ~\A u \in Users : role[u] = "none" PROVE UNCHANGED <<role, active>>
  BY <1>7 DEF SetupInsert
<1> QED
  BY <1>3, <1>4, <1>5, <1>6, <1>7

\* The write of an account that is locked: two that write at once have no owner between them.
LEMMA WritesApart ==
    ASSUME IInv, LocksMatch, NEW w \in Workers, UpdateUserRole(w) \/ SetUserActive(w) \/ DeleteUser(w)
    PROVE  LocksMatch' /\ OwnerStays
<1> DEFINE r == req[w]
           x == r.target
<1>0. /\ req \in [Workers -> Reqs] /\ r \in Reqs /\ x \in Users /\ r.val \in Roles \cup {"none"}
      /\ role \in [Users -> Roles \cup {"none"}] /\ active \in [Users -> BOOLEAN]
  BY Facts DEF ReqTypes, RowTypes, Reqs
<1>1. Finish(w) /\ r.at = "write" /\ req' = [req EXCEPT ![w] = Idle]
  BY DEF UpdateUserRole, SetUserActive, DeleteUser, Finish, Go
<1>2. \A v \in Workers : req'[v] = IF v \in {w} THEN Idle ELSE req[v]
  BY <1>0, <1>1
<1>3. CASE UNCHANGED <<role, active>>
  BY <1>1, <1>3, EndsApart
<1>4. CASE ~UNCHANGED <<role, active>>
  <2>1. PICK q \in Roles \cup {"none"}, b \in BOOLEAN :
            /\ role' = [role EXCEPT ![x] = q] /\ active' = [active EXCEPT ![x] = b]
            /\ q = "owner" => role[x] = "owner" \/ r.val = "owner"
            /\ role[x] = "owner" /\ active[x] /\ ~(q = "owner" /\ b) => RemovesOwner(r)
    <3>1. CASE UpdateUserRole(w)
      <4>1. role' = [role EXCEPT ![x] = r.val] /\ active' = [active EXCEPT ![x] = active[x]] /\ r.kind = "role"
        BY <1>0, <3>1 DEF UpdateUserRole
      <4> QED
        BY <1>0, <4>1 DEF RemovesOwner
    <3>2. CASE SetUserActive(w)
      <4>1. role' = [role EXCEPT ![x] = role[x]] /\ active' = [active EXCEPT ![x] = (r.kind = "enable")] /\ r.kind \in {"enable", "disable"}
        BY <1>0, <3>2 DEF SetUserActive
      <4>2. (r.kind = "enable") \in BOOLEAN /\ role[x] \in Roles \cup {"none"}
        BY <1>0
      <4> QED
        BY <4>1, <4>2 DEF RemovesOwner
    <3>3. CASE DeleteUser(w)
      <4>1. role' = [role EXCEPT ![x] = "none"] /\ active' = [active EXCEPT ![x] = active[x]] /\ r.kind = "delete"
        BY <1>0, <1>4, <3>3 DEF DeleteUser
      <4> QED
        BY <1>0, <4>1 DEF RemovesOwner
    <3> QED
      BY <3>1, <3>2, <3>3
  <2>2. Knows(r) /\ x \in r.held /\ (Calm => Owners \subseteq r.held)
    BY <1>1 DEF LocksMatch, Knows, Locking
  <2>3. ASSUME NEW v \in Workers \ {w}
        PROVE  /\ req[v].at = "write" => req[v].target # x
               /\ Calm /\ q = "owner" /\ role[x] # "owner" => req[v].kind \notin ChangesAccount
               /\ Calm /\ req[v].at = "write" /\ req[v].target \in Owners => x \notin Owners
    <3>1. Knows(req[v]) /\ Apart(r, req[v])
      BY <2>3 DEF LocksMatch
    <3>2. req[v].at = "write" => req[v].target \in req[v].held /\ r.held \cap req[v].held = {}
      BY <1>1, <3>1 DEF Knows, Apart
    <3>3. Calm /\ r.val = "owner" => req[v].kind \notin ChangesAccount
      BY <3>1 DEF Apart, Promotes
    <3>4. Calm /\ req[v].at = "write" => req[v].target \notin Owners
      BY <2>2, <3>2
    <3> QED
      BY <2>1, <2>2, <3>2, <3>3, <3>4
  <2>4. Wrote({w}, x, q, b)
    BY <1>2, <2>1, <2>3 DEF Wrote
  <2>5. OwnerStays
    <3>1. role'[x] = q /\ active'[x] = b /\ \A u \in Users \ {x} : role'[u] = role[u] /\ active'[u] = active[u]
      BY <1>0, <2>1
    <3>2. Calm /\ RemovesOwner(r) => \E u \in Users \ {x} : role[u] = "owner" /\ active[u]
      BY <1>1, <2>2 DEF Knows
    <3> QED
      BY <1>0, <2>1, <3>1, <3>2 DEF OwnerStays, ActiveOwner
  <2> QED
    BY <1>0, <2>1, <2>4, <2>5, AllKnow
<1> QED
  BY <1>3, <1>4

LEMMA OthersApart ==
    ASSUME IInv, LocksMatch, Others
    PROVE  LocksMatch' /\ OwnerStays
<1>1. ASSUME NEW u \in Users, AdminCreateCmd(u) PROVE LocksMatch' /\ OwnerStays
  <2>1. /\ role[u] = "none" /\ role' = [role EXCEPT ![u] = "owner"] /\ active' = [active EXCEPT ![u] = TRUE] /\ req' = req
        /\ Calm => \A v \in Workers : req[v].kind \notin ChangesAccount
    BY <1>1 DEF AdminCreateCmd
  <2>2. PICK W \in SUBSET Workers, q \in Roles : W = {} /\ q = "owner"
    BY DEF Roles
  <2>3. \A v \in Workers : req'[v] = IF v \in W THEN Idle ELSE req[v]
    BY <2>1, <2>2
  <2> QED
    BY <2>1, <2>2, <2>3, NewRow
<1>2. ASSUME UNCHANGED <<role, active, req>> PROVE LocksMatch' /\ OwnerStays
  BY <1>2 DEF LocksMatch, Knows, Apart, Owners, RemovesOwner, Promotes, OwnerStays, ActiveOwner
<1> QED
  BY <1>1, <1>2 DEF Others, DeclineInvitation, InvitationExpires, RevokeInvitation, SetUserPermissions

LEMMA OwnerStep ==
    ASSUME IInv, LocksMatch, [Next]_vars
    PROVE  LocksMatch' /\ [OwnerStays]_vars
<1>1. CASE UNCHANGED vars
  BY <1>1 DEF vars, LocksMatch, Knows, Apart, Owners, RemovesOwner, Promotes
<1>2. CASE Others
  BY <1>2, OthersApart
<1>3. ASSUME NEW w \in Workers, Request(w) PROVE LocksMatch' /\ OwnerStays
  BY <1>3, RequestsApart
<1>4. ASSUME NEW w \in Workers, Serve(w) PROVE LocksMatch' /\ OwnerStays
  <2>1. CreateInvitation(w) \/ AcceptCommit(w) => Finish(w) /\ UNCHANGED <<role, active>>
    BY DEF CreateInvitation, AcceptCommit
  <2> QED
    BY <1>4, <2>1, EndsApart, InsertsApart, LockOwnersApart, TargetApart, WritesApart DEF Serve
<1>5. ASSUME NEW w \in Workers, DeadlockAborts(w) PROVE LocksMatch' /\ OwnerStays
  BY <1>5, EndsApart DEF DeadlockAborts
<1> QED
  BY <1>1, <1>2, <1>3, <1>4, <1>5 DEF Next

\* Role changes, disablings and deletions may overlap in any way and in any number:
\* as long as nobody is made an owner meanwhile, the last active owner stays
\* (adminTargetChange's row locks and its count).
THEOREM OwnerAlwaysRemains == Spec => OwnerRemains
<1>1. Init => LocksMatch
  BY IdleKnows DEF Init, LocksMatch
<1>2. IInv /\ LocksMatch /\ [Next]_vars => LocksMatch' /\ [OwnerStays]_vars
  BY OwnerStep
<1> QED
  BY <1>1, <1>2, Inductive, PTL DEF Spec, OwnerRemains
=============================================================================
