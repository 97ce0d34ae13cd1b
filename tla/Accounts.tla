------------------------------ MODULE Accounts ------------------------------
(***************************************************************************)
(* Accounts and who may do what: first-owner setup, registration, user     *)
(* administration under the owner rules, and the invitations through which *)
(* one server gains members.                                               *)
(*                                                                         *)
(* A step is one SQL statement, or the statements of a transaction between *)
(* two points where it can wait.  PostgreSQL runs at READ COMMITTED: a     *)
(* statement that waited for row locks looks again at the rows it waited   *)
(* for, not at rows that match only now.  A user is named by the e-mail.   *)
(***************************************************************************)
EXTENDS Naturals, FiniteSets

CONSTANTS
    Users,
    ServerOwner,    \* servers.owner_id of the one server
    Workers,        \* requests in flight
    Start,          \* the users tables to begin with, each with the requests that occur
    MaxInvs,        \* invitations created (bound)
    MaxRequests,    \* requests begun (bound)
    Overrides,      \* the keys that administrators grant or take away globally
    Calm            \* BOOLEAN: an accept overlaps nothing that changes its inviter's rights,
                    \* and nobody becomes an owner while another account is being changed

\* A global moderator has a user's rights here.
Roles == {"user", "admin", "owner"}
Staff == {"admin", "owner"}

ASSUME AccountsAssumption ==
    /\ ServerOwner \in Users
    /\ Start \subseteq [role : [Users -> Roles \cup {"none"}], kinds : SUBSET STRING]
    /\ {MaxInvs, MaxRequests} \subseteq Nat
    /\ Overrides \subseteq {"view", "start", "manage", "delete"}
    /\ Calm \in BOOLEAN

Invs == 1 .. MaxInvs

\* The permission keys by what tells them apart: every member role has view,
\* moderators start, admins manage, and no member role deletes.
ServerScopedPermissions == {"view", "start", "manage", "delete"}

ServerMemberRolePermissions ==
    [viewer |-> {"view"}, moderator |-> {"view", "start"}, admin |-> {"view", "start", "manage"}]

MemberRoles == DOMAIN ServerMemberRolePermissions

VARIABLES
    role,       \* users.role, "none" without a row
    active,     \* users.is_active
    member,     \* server_members: whether, whether the map lists the keys, and those that are true
    global,     \* what HasPermission grants a user who is not staff
    inv,        \* server_invitations
    req,        \* the requests in flight
    used,       \* requests begun
    kinds       \* the requests that occur

tables == <<role, active, member, global, inv>>
vars == <<role, active, member, global, inv, req, used, kinds>>

Nobody == [in |-> FALSE, listed |-> FALSE, perms |-> {}]

\* A member from before the column permissions, whose map is empty ...
OldMember == [Nobody EXCEPT !.in = TRUE]

\* ... and one by an invitation, whose map lists every key.
Joined(perms) == [in |-> TRUE, listed |-> TRUE, perms |-> perms]

NoInv == [st |-> "none", role |-> "viewer", by |-> ServerOwner, to |-> ServerOwner, expired |-> FALSE]
Idle == [at |-> "idle", kind |-> "none", crole |-> "none", target |-> ServerOwner, val |-> "none",
         rows |-> {}, held |-> {}, i |-> 0, perms |-> {}]

\* role_permissions of the role user.
RoleDefaults == {"view", "start"}

\* An installation before setup, or with some accounts and a server.
Init ==
    /\ \E s \in Start : role = s.role /\ kinds = s.kinds
    /\ active = [u \in Users |-> TRUE]
    /\ \E old \in SUBSET {u \in Users : role[u] = "user"} :
        member = [u \in Users |-> IF u \in old THEN OldMember ELSE Nobody]
    /\ global = [u \in Users |-> RoleDefaults]
    /\ inv = [i \in Invs |-> NoInv]
    /\ req = [w \in Workers |-> Idle]
    /\ used = 0

-----------------------------------------------------------------------------
(* Requests and rights *)

ChangesRights == {"role", "delete", "accept"}
ChangesAccount == {"role", "enable", "disable", "delete"}

\* A request that makes an owner.
Promotes(r) == r.kind = "setup" \/ r.val = "owner"

\* Whether, in a calm run, a request may begin beside those in flight.
Undisturbed(r) ==
    \A v \in Workers :
        /\ req[v].i # r.i /\ "accept" \in {r.kind, req[v].kind} => ~({r.kind, req[v].kind} \subseteq ChangesRights)
        /\ ~(Promotes(r) /\ req[v].kind \in ChangesAccount)
        /\ ~(Promotes(req[v]) /\ r.kind \in ChangesAccount)

Begin(w, kind, r) ==
    /\ req[w].at = "idle" /\ kind \in kinds /\ used < MaxRequests
    /\ Calm => Undisturbed(r)
    /\ used' = used + 1
    /\ req' = [req EXCEPT ![w] = r]
    /\ UNCHANGED kinds

Go(w, r) == req' = [req EXCEPT ![w] = r] /\ UNCHANGED <<used, kinds>>
Finish(w) == Go(w, Idle)

\* Rows that other transactions have locked.
LockedByOthers(w) == UNION {req[v].held : v \in Workers \ {w}}

SignedIn(u) == role[u] # "none" /\ active[u]

\* RequireRole(admin) on the admin routes.
RequireAdmin(u) == SignedIn(u) /\ role[u] \in Staff

\* Staff and the server's owner hold everything, a member what the row says or,
\* where it says nothing, what the user holds globally.
HasServerPermission(u, p) ==
    \/ role[u] \in Staff
    \/ u = ServerOwner
    \/ member[u].in /\ p \in IF member[u].listed THEN member[u].perms ELSE global[u]

RequireServerPermission(u, p) == SignedIn(u) /\ HasServerPermission(u, p)

MissingServerPermissions(u, perms) == {p \in perms : ~HasServerPermission(u, p)}

-----------------------------------------------------------------------------
(* New accounts *)

\* The wizard: no user yet and the right code ...
CompleteSetup(w, u) ==
    /\ \A v \in Users : role[v] = "none"
    /\ Begin(w, "setup", [Idle EXCEPT !.at = "setup", !.kind = "setup", !.target = u])

HandleCompleteSetup(w, u) ==
    CompleteSetup(w, u) /\ UNCHANGED tables

\* Mutant: without the second look under the table lock.
SetupInsertBlind(w) ==
    /\ req[w].at = "setup" /\ LockedByOthers(w) = {}
    /\ role' = [role EXCEPT ![req[w].target] = "owner"]
    /\ Finish(w) /\ UNCHANGED <<active, member, global, inv>>

\* ... then, with every other writer shut out, still no user.
SetupInsert(w) ==
    /\ req[w].at = "setup" /\ LockedByOthers(w) = {}
    /\ role' = IF \A v \in Users : role[v] = "none" THEN [role EXCEPT ![req[w].target] = "owner"] ELSE role
    /\ Finish(w) /\ UNCHANGED <<active, member, global, inv>>

\* Registration and creation by an administrator look for the e-mail first ...
Register(w, u) ==
    /\ role[u] = "none"
    /\ Begin(w, "register", [Idle EXCEPT !.at = "insert", !.kind = "register", !.target = u, !.val = "user"])

HandleRegister(w, u) ==
    Register(w, u) /\ UNCHANGED tables

CreateUserByAdmin(w, u, r) ==
    /\ role[u] = "none"
    /\ Begin(w, "create", [Idle EXCEPT !.at = "insert", !.kind = "create", !.target = u, !.val = r])

HandleCreateUser(w, caller, u, r) ==
    /\ RequireAdmin(caller)
    /\ r = "owner" => role[caller] = "owner"
    /\ CreateUserByAdmin(w, u, r)
    /\ UNCHANGED tables

\* ... and insert, unless the unique index refuses.
InsertUser(w) ==
    LET u == req[w].target IN
    /\ req[w].at = "insert"
    /\ role' = [role EXCEPT ![u] = IF @ = "none" THEN req[w].val ELSE @]
    /\ active' = [active EXCEPT ![u] = role[u] = "none" \/ @]
    /\ Finish(w) /\ UNCHANGED <<member, global, inv>>

\* tale-cli admin create: INSERT ... ON CONFLICT DO NOTHING.
AdminCreateCmd(u) ==
    /\ "cli" \in kinds /\ used < MaxRequests /\ used' = used + 1
    /\ Calm => \A v \in Workers : req[v].kind \notin ChangesAccount
    /\ role[u] = "none"
    /\ role' = [role EXCEPT ![u] = "owner"]
    /\ active' = [active EXCEPT ![u] = TRUE]
    /\ UNCHANGED <<member, global, inv, req, kinds>>

-----------------------------------------------------------------------------
(* User administration *)

Admin(w, caller, target, kind, val) ==
    /\ RequireAdmin(caller) /\ caller # target
    /\ Begin(w, kind, [Idle EXCEPT !.at = "owners", !.kind = kind, !.crole = role[caller],
                                   !.target = target, !.val = val,
                                   !.rows = {u \in Users : role[u] = "owner"}])
    /\ UNCHANGED tables

HandleUpdateUserRole(w, caller, target, r) ==
    /\ r = "owner" => role[caller] = "owner"
    /\ Admin(w, caller, target, "role", r)

HandleToggleUserActive(w, caller, target, on) ==
    Admin(w, caller, target, IF on THEN "enable" ELSE "disable", "none")

HandleDeleteUser(w, caller, target) == Admin(w, caller, target, "delete", "none")

\* Mutant: a plain SELECT of the owners locks nothing and waits for nobody.
LockOwnersUnlocked(w) ==
    /\ req[w].at = "owners"
    /\ \E u \in req[w].rows : Go(w, [req[w] EXCEPT !.rows = @ \ {u}])
    /\ UNCHANGED tables

\* SELECT ... FOR UPDATE of the owners, one row after the other as the scan finds them:
\* each is waited for, and is then locked unless it is gone.
LockOwners(w) ==
    /\ req[w].at = "owners"
    /\ \E u \in req[w].rows \ LockedByOthers(w) :
        Go(w, [req[w] EXCEPT !.rows = @ \ {u}, !.held = IF role[u] = "none" THEN @ ELSE @ \cup {u}])
    /\ UNCHANGED tables

\* Whether a change takes its target out of the active owners.
RemovesOwner(r) ==
    /\ role[r.target] = "owner" /\ active[r.target]
    /\ r.kind \in {"disable", "delete"} \/ (r.kind = "role" /\ r.val # "owner")

\* Whether the target is missing, is an owner above the caller, or is the last active owner.
Refused(r) ==
    \/ role[r.target] = "none"
    \/ role[r.target] = "owner" /\ r.crole # "owner"
    \/ RemovesOwner(r) /\ ~\E u \in Users \ {r.target} : role[u] = "owner" /\ active[u]

\* Mutant: a refusal that forgets the rollback, and so keeps the rows locked.
AdminTargetLeaks(w) ==
    LET r == req[w] IN
    /\ r.at = "owners" /\ r.rows = {} /\ r.target \notin LockedByOthers(w)
    /\ Go(w, IF Refused(r) THEN [Idle EXCEPT !.held = r.held]
              ELSE [r EXCEPT !.at = "write", !.held = @ \cup {r.target}])
    /\ UNCHANGED tables

\* Then the target's row, the owner hierarchy and the last-owner rule.
AdminTargetChange(w) ==
    LET r == req[w] IN
    /\ r.at = "owners" /\ r.rows = {} /\ r.target \notin LockedByOthers(w)
    /\ Go(w, IF Refused(r) THEN Idle ELSE [r EXCEPT !.at = "write", !.held = @ \cup {r.target}])
    /\ UNCHANGED tables

\* A transaction may have to wait for a row that another one holds.
WaitsFor(w, v) ==
    /\ req[w].at = "owners"
    /\ req[v].held \cap (IF req[w].rows = {} THEN {req[w].target} ELSE req[w].rows) # {}

\* PostgreSQL looks for transactions that wait for each other in a circle and ends one
\* of them; its request fails and is rolled back.
DeadlockAborts(w) ==
    /\ \E S \in SUBSET Workers :
        /\ w \in S
        /\ \A v \in S : (\E x \in S \ {v} : WaitsFor(v, x)) /\ (\E x \in S \ {v} : WaitsFor(x, v))
    /\ Finish(w) /\ UNCHANGED tables

UpdateUserRole(w) ==
    /\ req[w].at = "write" /\ req[w].kind = "role" /\ Finish(w)
    /\ role' = [role EXCEPT ![req[w].target] = req[w].val]
    /\ UNCHANGED <<active, member, global, inv>>

SetUserActive(w) ==
    /\ req[w].at = "write" /\ req[w].kind \in {"enable", "disable"} /\ Finish(w)
    /\ active' = [active EXCEPT ![req[w].target] = req[w].kind = "enable"]
    /\ UNCHANGED <<role, member, global, inv>>

\* Membership, permissions and sent invitations go with the row; the owner of a server cannot
\* be deleted (servers.owner_id has no cascade).
DeleteUser(w) ==
    LET u == req[w].target IN
    /\ req[w].at = "write" /\ req[w].kind = "delete" /\ Finish(w)
    /\ IF u = ServerOwner THEN UNCHANGED tables
       ELSE /\ role' = [role EXCEPT ![u] = "none"]
            /\ member' = [member EXCEPT ![u] = Nobody]
            /\ global' = [global EXCEPT ![u] = RoleDefaults]
            /\ inv' = [i \in Invs |-> IF inv[i].by = u THEN NoInv ELSE inv[i]]
            /\ UNCHANGED active

\* An administrator grants or takes away a key; the override wins over the role.
SetUserPermissions(caller, u, p, granted) ==
    /\ "perms" \in kinds /\ used < MaxRequests /\ used' = used + 1
    /\ Calm => \A v \in Workers : req[v].kind # "accept"
    /\ RequireAdmin(caller) /\ role[u] # "none"
    /\ global' = [global EXCEPT ![u] = IF granted THEN @ \cup {p} ELSE @ \ {p}]
    /\ UNCHANGED <<role, active, member, inv, req, kinds>>

-----------------------------------------------------------------------------
(* Invitations *)

\* The inviter manages the server and holds all that the role grants ...
HandleCreateInvitation(w, u, to, r) ==
    /\ RequireServerPermission(u, "manage")
    /\ MissingServerPermissions(u, ServerMemberRolePermissions[r]) = {}
    /\ \E i \in Invs : inv[i].st = "none" /\ \A v \in Workers : req[v].i # i
        /\ Begin(w, "invite", [Idle EXCEPT !.at = "invite", !.kind = "invite", !.i = i,
                                           !.crole = r, !.target = to, !.rows = {u}])
    /\ UNCHANGED tables

\* ... and the row follows, while the inviter's own row is there.
CreateInvitation(w) ==
    LET by == CHOOSE u \in req[w].rows : TRUE IN
    /\ req[w].at = "invite" /\ Finish(w)
    /\ inv' = IF role[by] = "none" THEN inv
              ELSE [inv EXCEPT ![req[w].i] = [NoInv EXCEPT !.st = "pending", !.role = req[w].crole,
                                                           !.by = by, !.to = req[w].target]]
    /\ UNCHANGED <<role, active, member, global>>

\* Mutant: the stored map as it is.
GrantedUncapped(i) == ServerMemberRolePermissions[inv[i].role]

\* What the role grants, less what the inviter has lost.
GrantedPermissions(i) ==
    LET perms == ServerMemberRolePermissions[inv[i].role]
    IN  perms \ MissingServerPermissions(inv[i].by, perms)

\* The look: addressed to the caller, pending, not expired; and the cap.
AcceptInvitation(w, u, i) ==
    /\ inv[i].to = u /\ inv[i].st = "pending" /\ ~inv[i].expired
    /\ Begin(w, "accept", [Idle EXCEPT !.at = "accept", !.kind = "accept", !.i = i, !.target = u,
                                       !.perms = GrantedPermissions(i)])

HandleAcceptInvitation(w, u, i) ==
    /\ SignedIn(u)
    /\ AcceptInvitation(w, u, i)
    /\ UNCHANGED tables

\* Mutant: the update does not ask for a pending invitation.
AcceptAnyway(w) ==
    LET u == req[w].target IN
    /\ req[w].at = "accept" /\ Finish(w)
    /\ inv[req[w].i].st # "none" /\ role[u] # "none"
    /\ inv' = [inv EXCEPT ![req[w].i].st = "accepted"]
    /\ member' = [member EXCEPT ![u] = Joined(req[w].perms)]
    /\ UNCHANGED <<role, active, global>>

\* The transaction: of several accepts one finds the invitation pending.
AcceptCommit(w) ==
    LET u == req[w].target IN
    /\ req[w].at = "accept" /\ Finish(w)
    /\ IF inv[req[w].i].st = "pending" /\ role[u] # "none"
       THEN /\ inv' = [inv EXCEPT ![req[w].i].st = "accepted"]
            /\ member' = [member EXCEPT ![u] = Joined(req[w].perms)]
       ELSE UNCHANGED <<inv, member>>
    /\ UNCHANGED <<role, active, global>>

\* Anybody who has the token may decline.
DeclineInvitation(i) ==
    /\ "decline" \in kinds /\ inv[i].st = "pending"
    /\ inv' = [inv EXCEPT ![i].st = "declined"]
    /\ UNCHANGED <<role, active, member, global, req, used, kinds>>

RevokeInvitation(u, i) ==
    /\ "revoke" \in kinds /\ RequireServerPermission(u, "manage") /\ inv[i].st = "pending"
    /\ inv' = [inv EXCEPT ![i].st = "revoked"]
    /\ UNCHANGED <<role, active, member, global, req, used, kinds>>

\* Seven days pass.
InvitationExpires(i) ==
    /\ "expire" \in kinds /\ inv[i].st = "pending" /\ ~inv[i].expired
    /\ inv' = [inv EXCEPT ![i].expired = TRUE]
    /\ UNCHANGED <<role, active, member, global, req, used, kinds>>

-----------------------------------------------------------------------------
Request(w) ==
    \/ \E u \in Users :
        \/ HandleCompleteSetup(w, u) \/ HandleRegister(w, u)
        \/ \E i \in Invs : HandleAcceptInvitation(w, u, i)
        \/ \E t \in Users :
            \/ \E r \in Roles : HandleCreateUser(w, u, t, r) \/ HandleUpdateUserRole(w, u, t, r)
            \/ \E on \in BOOLEAN : HandleToggleUserActive(w, u, t, on)
            \/ HandleDeleteUser(w, u, t)
            \/ \E r \in MemberRoles : HandleCreateInvitation(w, u, t, r)

Serve(w) ==
    \/ SetupInsert(w) \/ InsertUser(w)
    \/ LockOwners(w) \/ AdminTargetChange(w) \/ UpdateUserRole(w) \/ SetUserActive(w) \/ DeleteUser(w)
    \/ CreateInvitation(w) \/ AcceptCommit(w)

Others ==
    \/ \E u \in Users : AdminCreateCmd(u)
    \/ \E u, t \in Users, p \in Overrides, granted \in BOOLEAN : SetUserPermissions(u, t, p, granted)
    \/ \E i \in Invs : DeclineInvitation(i) \/ InvitationExpires(i) \/ \E u \in Users : RevokeInvitation(u, i)

Next == Others \/ \E w \in Workers : Request(w) \/ Serve(w) \/ DeadlockAborts(w)

Spec == Init /\ [][Next]_vars

\* Handlers are scheduled, PostgreSQL grants a lock whose holder has ended, and after
\* deadlock_timeout it finds those that wait for each other.
FairSpec == Spec /\ \A w \in Workers : WF_vars(Serve(w)) /\ WF_vars(DeadlockAborts(w))

-----------------------------------------------------------------------------
(* Properties *)

Reqs == [at : {"idle", "setup", "insert", "owners", "write", "invite", "accept"},
         kind : {"none", "setup", "register", "create", "role", "enable", "disable", "delete", "invite", "accept"},
         crole : Roles \cup {"none"} \cup MemberRoles, target : Users, val : Roles \cup {"none"},
         rows : SUBSET Users, held : SUBSET Users, i : {0} \cup Invs, perms : SUBSET ServerScopedPermissions]

TypeOK ==
    /\ role \in [Users -> Roles \cup {"none"}]
    /\ active \in [Users -> BOOLEAN]
    /\ member \in [Users -> [in : BOOLEAN, listed : BOOLEAN, perms : SUBSET ServerScopedPermissions]]
    /\ global \in [Users -> SUBSET ServerScopedPermissions]
    /\ inv \in [Invs -> [st : {"none", "pending", "accepted", "declined", "revoked"}, role : MemberRoles,
                         by : Users, to : Users, expired : BOOLEAN]]
    /\ req \in [Workers -> Reqs]
    /\ used \in Nat /\ kinds \subseteq STRING

ActiveOwner == \E u \in Users : role[u] = "owner" /\ active[u]

\* Once there is an active owner there always is one, however changes of roles,
\* disablings and deletions overlap (adminTargetChange: "concurrent demotions
\* cannot both pass the last-owner check").  True as long as nobody is made an owner
\* meanwhile: an owner made after the SELECT ... FOR UPDATE looked is not locked by it.
OwnerStays == Calm /\ ActiveOwner => ActiveOwner'

OwnerRemains == [][OwnerStays]_vars

\* The wizard makes an owner only of the very first account: two setups, or a setup
\* and a registration that overlap, never leave an owner beside another account
\* (LOCK TABLE and the second look in CompleteSetup).
MakesFirst ==
    \A w \in Workers : req[w].at = "setup" /\ req'[w].at = "idle" /\ role' # role
        => \A v \in Users : role[v] = "none"

SetupIsFirst == [][MakesFirst]_vars

\* An invitation ends once: after it was accepted, declined or revoked, no overlapping
\* accept changes it or makes a member of it.
EndsOnce ==
    /\ \A i \in Invs : inv[i].st \notin {"none", "pending"} => inv'[i].st \in {inv[i].st, "none"}
    /\ \A u \in Users : member'[u] # member[u] /\ member'[u].in
        => \E i \in Invs : inv[i].st = "pending" /\ inv'[i].st = "accepted" /\ inv[i].to = u

InvitationEndsOnce == [][EndsOnce]_vars

\* A member is given nothing that the inviter does not hold at that moment
\* (AcceptInvitation: "the invitee does not get more than the inviter still has").
\* True of accepts that overlap no change of the inviter's rights.
Capped ==
    \A i \in Invs : inv[i].st = "pending" /\ inv'[i].st = "accepted"
        => \A p \in member'[inv[i].to].perms : HasServerPermission(inv[i].by, p)

GrantCapped == [][Capped]_vars

\* Every request ends: whoever waits for an owner's row gets it, although transactions
\* lock the owners in different orders and a refused one must give its rows back
\* (adminTargetChange's deferred Rollback; only the database breaks a circle).
RequestReturns == \A w \in Workers : req[w].at # "idle" ~> req[w].at = "idle"

-----------------------------------------------------------------------------
(* The inductive invariant behind InvitationEndsOnce. *)

\* An invitation being created is not there yet and nobody else's; one being
\* accepted is addressed to who accepts it.
InvitesMatch ==
    /\ \A w \in Workers : req[w].at = "invite" =>
        req[w].i \in Invs /\ inv[req[w].i].st = "none" /\ req[w].rows # {} /\ req[w].crole \in MemberRoles
    /\ \A w \in Workers : req[w].at = "accept" =>
        req[w].i \in Invs /\ (inv[req[w].i].st # "none" => inv[req[w].i].to = req[w].target)
    /\ \A v, w \in Workers : req[v].at = "invite" /\ req[w].i = req[v].i => v = w

IInv == TypeOK /\ InvitesMatch

-----------------------------------------------------------------------------
(* The inductive invariant behind OwnerRemains. *)

Locking == {"owners", "write"}
Owners == {u \in Users : role[u] = "owner"}

\* What a request knows of the owners: in a calm run it waits for, or has locked, all
\* of them, and when it is about to remove one there is another.
Knows(r) ==
    /\ r.at \in Locking => r.kind \in ChangesAccount
    /\ r.at \notin Locking => r.held = {}
    /\ r.at = "setup" => r.kind = "setup"
    /\ r.at = "write" => r.rows = {} /\ r.target \in r.held /\ role[r.target] # "none"
    /\ Calm /\ r.at \in Locking => Owners \subseteq r.rows \cup r.held
    /\ Calm /\ r.at = "write" /\ RemovesOwner(r) => \E u \in Users \ {r.target} : role[u] = "owner" /\ active[u]

\* Two requests hold no row in common.
Apart(r, s) ==
    /\ r.held \cap s.held = {}
    /\ Calm => ~(Promotes(r) /\ s.kind \in ChangesAccount)

LocksMatch ==
    /\ \A w \in Workers : Knows(req[w])
    /\ \A v, w \in Workers : v # w => Apart(req[v], req[w])
=============================================================================
