------------------------------ MODULE Sessions ------------------------------
(***************************************************************************)
(* Sign-in, refresh rotation, logout, password and TOTP changes: the       *)
(* panel's auth service, its handlers and the auth middleware, as seen by  *)
(* the tabs of one browser that share the refresh cookie.                  *)
(*                                                                         *)
(* A step is one statement of PostgreSQL or Redis, or one response; tabs   *)
(* interleave between them.  An access token is named by the refresh token *)
(* it was issued with.  A wrong password or code changes nothing and is    *)
(* left out.                                                               *)
(***************************************************************************)
EXTENDS Naturals, FiniteSets

CONSTANTS
    Users, Tabs, None,
    MaxTokens,      \* refresh tokens issued (bound)
    MaxTries,       \* polls of a racing refresh: 20 in the code (bound)
    MaxEvents,      \* password changes, TOTP set-ups, revocations, admin acts, expiries, faults (bound)
    Kinds,          \* the requests that occur
    Quiet,          \* kinds that run only while no other request does
    RedisFails,     \* BOOLEAN: a Redis call may fail
    Aborts          \* kinds whose request a reload may cancel

ASSUME SessionsAssumption ==
    /\ {MaxTokens, MaxTries, MaxEvents} \subseteq Nat
    /\ RedisFails \in BOOLEAN
    /\ None \notin Users \cup Nat

Tokens == 1 .. MaxTokens

VARIABLES
    user,       \* users: state, password version, TOTP columns; cut: a change has not revoked the sessions
    app,        \* the TOTP secret in each user's authenticator
    sess,       \* sessions by token; root, parent, pw: which login it stems from; asof: the password when issued
    next,       \* the next token to be issued
    expired,    \* refresh tokens past expires_at (an expired access token only refuses)
    blacklist,  \* Redis: access tokens revoked by a logout
    rotating,   \* Redis: refresh_rotating keys
    grace,      \* Redis: refresh_grace keys, token -> the pair it became
    cookie,     \* the browser's refresh cookie
    events,     \* how many of the bounded events have happened
    acc,        \* the access token each tab holds
    tab         \* the request each tab has in flight

redis == <<blacklist, rotating, grace>>
rows == <<user, sess, next>>
vars == <<rows, app, expired, redis, cookie, acc, tab, events>>

Idle == [at |-> "idle", kind |-> "none", u |-> None, tok |-> 0, pair |-> 0, tries |-> 0, read |-> 0]

\* Accounts exist and nobody has signed in.
Init ==
    /\ user = [u \in Users |-> [st |-> "active", pw |-> 0, cut |-> FALSE, totp |-> FALSE, secret |-> 0, made |-> 0]]
    /\ app = [u \in Users |-> 0]
    /\ sess = [t \in Tokens |-> [st |-> "none", user |-> None, root |-> 0, parent |-> 0, pw |-> 0, asof |-> 0]]
    /\ next = 1
    /\ expired = {} /\ blacklist = {} /\ rotating = {}
    /\ grace = [t \in Tokens |-> 0]
    /\ cookie = 0
    /\ acc = [c \in Tabs |-> 0]
    /\ events = 0
    /\ tab = [c \in Tabs |-> Idle]

-----------------------------------------------------------------------------
(* Requests *)

Busy(c) == tab[c].at \notin {"idle", "code"}

Go(c, at) == tab' = [tab EXCEPT ![c].at = at]
Finish(c) == tab' = [tab EXCEPT ![c] = Idle]

\* A tab has one request in flight; a quiet kind runs alone.
Admit(c, kind) ==
    /\ kind \in Kinds /\ ~Busy(c)
    /\ \A d \in Tabs : Busy(d) => kind \notin Quiet /\ tab[d].kind \notin Quiet

Begin(c, kind, at, u) ==
    /\ tab[c].at = "idle" /\ Admit(c, kind)
    /\ tab' = [tab EXCEPT ![c] = [Idle EXCEPT !.at = at, !.kind = kind, !.u = u]]

\* Bound: every request that may issue a token finds one.
Room == next + Cardinality({c \in Tabs : Busy(c)}) <= MaxTokens

Event == events < MaxEvents /\ events' = events + 1
RedisError == RedisFails /\ Event

\* The signed-in user of a tab, and the middleware's conditions for one.
Me(c) == sess[acc[c]].user

AuthRequired(c) ==
    /\ acc[c] # 0
    /\ acc[c] \notin blacklist
    /\ user[Me(c)].st = "active"

\* Revokes what is live of a set of sessions.
Revoked(S) == [t \in Tokens |-> IF t \in S /\ sess[t].st = "live"
                                THEN [sess[t] EXCEPT !.st = "revoked"] ELSE sess[t]]

-----------------------------------------------------------------------------
(* Sign-in *)

\* The password was right and the account enabled; with TOTP on, a partial token
\* takes the place of the session.
Login(c, u) ==
    /\ user[u].st = "active"
    /\ tab' = [tab EXCEPT ![c] =
                 [Idle EXCEPT !.at = IF user[u].totp THEN "code" ELSE "issue",
                              !.kind = "login", !.u = u, !.read = user[u].pw]]

HandleLogin(c, u) ==
    /\ tab[c].at = "idle" /\ Admit(c, "login") /\ Room
    /\ Login(c, u)
    /\ UNCHANGED <<rows, app, expired, redis, cookie, acc, events>>

\* The second factor, checked against the row as it is now.
VerifyTOTP(c) ==
    /\ LET row == user[tab[c].u] IN
         row.st = "active" /\ row.secret # 0 /\ row.secret = app[tab[c].u]
    /\ tab' = [tab EXCEPT ![c].at = "issue", ![c].read = user[tab[c].u].pw]

HandleVerifyTOTP(c) ==
    /\ tab[c].at = "code" /\ Admit(c, "login") /\ Room
    /\ VerifyTOTP(c)
    /\ UNCHANGED <<rows, app, expired, redis, cookie, acc, events>>

\* The partial token runs out.
PartialExpires(c) ==
    /\ tab[c].at = "code" /\ Finish(c)
    /\ UNCHANGED <<rows, app, expired, redis, cookie, acc, events>>

\* The sessions row; its foreign key refuses a user deleted meanwhile.
IssueFullTokens(c) ==
    LET r == tab[c] IN
    /\ r.at = "issue"
    /\ \/ /\ user[r.u].st # "gone" /\ next \in Tokens
          /\ sess' = [sess EXCEPT ![next] =
                        [st |-> "live", user |-> r.u, parent |-> r.tok,
                         pw |-> r.read, asof |-> user[r.u].pw,
                         root |-> IF r.tok = 0 THEN next ELSE sess[r.tok].root]]
          /\ next' = next + 1
          /\ tab' = [tab EXCEPT ![c].pair = next,
                                ![c].at = IF r.tok = 0 THEN "answer" ELSE "publish"]
       \/ user[r.u].st = "gone" /\ Finish(c) /\ UNCHANGED <<sess, next>>
    /\ UNCHANGED <<user, app, expired, redis, cookie, acc, events>>

\* The answer of a sign-in or of a refresh.
SetRefreshCookie(c) ==
    /\ tab[c].at = "answer"
    /\ cookie' = tab[c].pair
    /\ acc' = [acc EXCEPT ![c] = tab[c].pair]
    /\ Finish(c)
    /\ UNCHANGED <<rows, app, expired, redis, events>>

\* The answer of a failed refresh and of a logout.
ClearRefreshCookie(c) ==
    /\ tab[c].at = "clear"
    /\ cookie' = 0
    /\ acc' = [acc EXCEPT ![c] = IF tab[c].kind = "logout" THEN 0 ELSE @]
    /\ Finish(c)
    /\ UNCHANGED <<rows, app, expired, redis, events>>

-----------------------------------------------------------------------------
(* Refresh *)

\* The look at the row; a disabled user's refresh fails and changes nothing.
RefreshToken(c, t) ==
    LET s == sess[t]
        at == IF s.st \in {"none", "gone"} \/ t \in expired THEN "clear"
              ELSE IF s.st = "revoked" THEN "poll" ELSE "claim"
    IN  /\ at = "claim" => user[s.user].st = "active"
        /\ tab' = [tab EXCEPT ![c] =
                     [Idle EXCEPT !.at = at, !.kind = "refresh", !.u = s.user, !.tok = t, !.read = s.pw]]

HandleRefresh(c) ==
    /\ tab[c].at = "idle" /\ Admit(c, "refresh") /\ Room
    /\ cookie # 0 /\ RefreshToken(c, cookie)
    /\ UNCHANGED <<rows, app, expired, redis, cookie, acc, events>>

\* Mutant: the claim forgets NOT revoked.
ClaimUnguarded(c) ==
    /\ tab[c].at = "claim"
    /\ sess' = Revoked({tab[c].tok}) /\ Go(c, "mark")
    /\ UNCHANGED <<user, next, app, expired, redis, cookie, acc, events>>

\* UPDATE ... WHERE NOT revoked: one of several refreshes wins.
ClaimRotation(c) ==
    /\ tab[c].at = "claim"
    /\ IF sess[tab[c].tok].st = "live"
       THEN sess' = Revoked({tab[c].tok}) /\ Go(c, "mark")
       ELSE UNCHANGED sess /\ Go(c, "poll")
    /\ UNCHANGED <<user, next, app, expired, redis, cookie, acc, events>>

MarkRotating(c) ==
    /\ tab[c].at = "mark" /\ Go(c, "issue")
    /\ \/ /\ rotating' = rotating \cup {tab[c].tok}
          /\ UNCHANGED events
       \/ RedisError /\ UNCHANGED rotating
    /\ UNCHANGED <<rows, app, expired, blacklist, grace, cookie, acc>>

PublishGrace(c) ==
    /\ tab[c].at = "publish" /\ Go(c, "answer")
    /\ \/ /\ grace' = [grace EXCEPT ![tab[c].tok] = tab[c].pair]
          /\ UNCHANGED events
       \/ RedisError /\ UNCHANGED grace
    /\ UNCHANGED <<rows, app, expired, blacklist, rotating, cookie, acc>>

\* The loser asks for the winner's pair ...
RotatedResult(c) ==
    LET g == grace[tab[c].tok] IN
    /\ tab[c].at = "poll"
    /\ \/ g # 0 /\ tab' = [tab EXCEPT ![c].at = "answer", ![c].pair = g] /\ UNCHANGED events
       \/ g = 0 /\ Go(c, "exists") /\ UNCHANGED events
       \/ RedisError /\ Go(c, "clear")
    /\ UNCHANGED <<rows, app, expired, redis, cookie, acc>>

\* Mutant: the polls are not counted.
PollsUncounted(c) ==
    /\ tab[c].at = "exists"
    /\ \/ tab[c].tok \in rotating /\ Go(c, "poll")
       \/ tab[c].tok \notin rotating /\ Go(c, "clear")
    /\ UNCHANGED <<rows, app, expired, redis, cookie, acc, events>>

\* ... and asks again while the winner is known to be at work.
RotatingExists(c) ==
    LET n == tab[c].tries + 1 IN
    /\ tab[c].at = "exists"
    /\ \/ /\ tab[c].tok \in rotating
          /\ tab' = [tab EXCEPT ![c].tries = n, ![c].at = IF n >= MaxTries THEN "clear" ELSE "poll"]
          /\ UNCHANGED events
       \/ tab[c].tok \notin rotating /\ Go(c, "clear") /\ UNCHANGED events
       \/ RedisError /\ Go(c, "clear")
    /\ UNCHANGED <<rows, app, expired, redis, cookie, acc>>

-----------------------------------------------------------------------------
(* Logout, password, sessions, TOTP *)

\* The access token first; a Redis failure skips the session, not the cookie.
Logout(c) ==
    \/ /\ blacklist' = blacklist \cup {acc[c]} /\ UNCHANGED events
       /\ tab' = [tab EXCEPT ![c] = [Idle EXCEPT !.at = "revoke", !.kind = "logout", !.tok = cookie]]
    \/ /\ RedisError /\ UNCHANGED blacklist
       /\ tab' = [tab EXCEPT ![c] = [Idle EXCEPT !.at = "clear", !.kind = "logout"]]

HandleLogout(c) ==
    /\ tab[c].at = "idle" /\ Admit(c, "logout") /\ AuthRequired(c)
    /\ Logout(c)
    /\ UNCHANGED <<rows, app, expired, rotating, grace, cookie, acc>>

RevokeRefresh(c) ==
    /\ tab[c].at = "revoke" /\ Go(c, "clear")
    /\ sess' = Revoked({tab[c].tok})
    /\ UNCHANGED <<user, next, app, expired, redis, cookie, acc, events>>

\* The old password was right; the hash and the revocation are two statements.
HandleChangePassword(c) ==
    /\ AuthRequired(c) /\ Event
    /\ Begin(c, "password", "hash", Me(c))
    /\ UNCHANGED <<rows, app, expired, redis, cookie, acc>>

\* Mutant: the sessions are revoked before the hash is written.
RevokeThenHash(c) ==
    LET u == tab[c].u IN
    \/ /\ tab[c].at = "hash" /\ Go(c, "revokeAll")
       /\ sess' = Revoked({t \in Tokens : sess[t].user = u})
       /\ UNCHANGED <<user, next, app, expired, redis, cookie, acc, events>>
    \/ /\ tab[c].at = "revokeAll" /\ Finish(c)
       /\ user' = [user EXCEPT ![u].pw = @ + 1, ![u].cut = FALSE]
       /\ UNCHANGED <<sess, next, app, expired, redis, cookie, acc, events>>

ChangePassword(c) ==
    LET u == tab[c].u IN
    \/ /\ tab[c].at = "hash" /\ Go(c, "revokeAll")
       /\ user' = [user EXCEPT ![u].pw = @ + 1]
       /\ UNCHANGED <<sess, next, app, expired, redis, cookie, acc, events>>
    \/ /\ tab[c].at = "revokeAll" /\ Finish(c)
       /\ user' = [user EXCEPT ![u].cut = FALSE]
       /\ sess' = Revoked({t \in Tokens : sess[t].user = u})
       /\ UNCHANGED <<next, app, expired, redis, cookie, acc, events>>

HandleRevokeSession(c, t) ==
    /\ ~Busy(c) /\ Admit(c, "revokeSession") /\ AuthRequired(c) /\ Event
    /\ sess[t].st # "gone" /\ sess[t].user = Me(c)
    /\ sess' = Revoked({t})
    /\ UNCHANGED <<user, next, app, expired, redis, cookie, acc, tab>>

\* The three TOTP handlers read the row ...
HandleSetupTOTP(c) ==
    /\ AuthRequired(c) /\ ~user[Me(c)].totp /\ Event
    /\ Begin(c, "totp", "secret", Me(c))
    /\ UNCHANGED <<rows, app, expired, redis, cookie, acc>>

HandleConfirmTOTP(c) ==
    /\ AuthRequired(c)
    /\ LET row == user[Me(c)] IN ~row.totp /\ row.secret # 0 /\ row.secret = app[Me(c)]
    /\ Begin(c, "totp", "enable", Me(c))
    /\ UNCHANGED <<rows, app, expired, redis, cookie, acc, events>>

HandleDisableTOTP(c) ==
    /\ AuthRequired(c)
    /\ Begin(c, "totp", "disable", Me(c))
    /\ UNCHANGED <<rows, app, expired, redis, cookie, acc, events>>

\* ... and then write it.  The answer to a set-up shows the secret to the user.
SetupTOTP(c) ==
    LET u == tab[c].u
        new == user[u].made + 1
    IN  /\ tab[c].at = "secret" /\ Finish(c)
        /\ user' = [user EXCEPT ![u].secret = new, ![u].made = new, ![u].totp = FALSE]
        /\ app' = [app EXCEPT ![u] = new]
        /\ UNCHANGED <<sess, next, expired, redis, cookie, acc, events>>

ConfirmTOTP(c) ==
    /\ tab[c].at = "enable" /\ Finish(c)
    /\ user' = [user EXCEPT ![tab[c].u].totp = TRUE]
    /\ UNCHANGED <<app, sess, next, expired, redis, cookie, acc, events>>

\* Mutant: the flag is forgotten.
DisableKeepsFlag(c) ==
    /\ tab[c].at = "disable" /\ Finish(c)
    /\ user' = [user EXCEPT ![tab[c].u].secret = 0]
    /\ UNCHANGED <<app, sess, next, expired, redis, cookie, acc, events>>

DisableTOTP(c) ==
    /\ tab[c].at = "disable" /\ Finish(c)
    /\ user' = [user EXCEPT ![tab[c].u].totp = FALSE, ![tab[c].u].secret = 0]
    /\ UNCHANGED <<app, sess, next, expired, redis, cookie, acc, events>>

-----------------------------------------------------------------------------
(* Administrators, expired and reloads *)

SetUserActive(u, st) ==
    /\ "admin" \in Kinds /\ Event /\ user[u].st # "gone"
    /\ user' = [user EXCEPT ![u].st = st]
    /\ UNCHANGED <<app, sess, next, expired, redis, cookie, acc, tab>>

\* Deleting the row takes its sessions with it.
DeleteUser(u) ==
    /\ "admin" \in Kinds /\ Event /\ user[u].st # "gone"
    /\ user' = [user EXCEPT ![u].st = "gone"]
    /\ sess' = [t \in Tokens |-> IF sess[t].user = u THEN [sess[t] EXCEPT !.st = "gone"] ELSE sess[t]]
    /\ UNCHANGED <<app, next, expired, redis, cookie, acc, tab>>

\* Lifetimes of a refresh token that is still in the browser, and of the two keys.
Expire(t) ==
    /\ "expire" \in Kinds /\ Event
    /\ \/ t = cookie /\ expired' = expired \cup {t} /\ UNCHANGED redis
       \/ rotating' = rotating \ {t} /\ UNCHANGED <<expired, blacklist, grace>>
       \/ grace' = [grace EXCEPT ![t] = 0] /\ UNCHANGED <<expired, blacklist, rotating>>
    /\ UNCHANGED <<rows, app, cookie, acc, tab>>

\* A reload cancels the request's context: its next statement fails.  Of a password
\* change the second statement is not even checked.
Abort(c) ==
    /\ Busy(c) /\ tab[c].kind \in Aborts /\ Event /\ Finish(c)
    /\ user' = IF tab[c].at = "revokeAll" THEN [user EXCEPT ![tab[c].u].cut = TRUE] ELSE user
    /\ UNCHANGED <<sess, next, app, expired, redis, cookie, acc>>

\* The steps of a request that has been admitted.
Serve(c) ==
    \/ IssueFullTokens(c) \/ SetRefreshCookie(c) \/ ClearRefreshCookie(c)
    \/ ClaimRotation(c) \/ MarkRotating(c) \/ PublishGrace(c) \/ RotatedResult(c) \/ RotatingExists(c)
    \/ RevokeRefresh(c) \/ ChangePassword(c) \/ SetupTOTP(c) \/ ConfirmTOTP(c) \/ DisableTOTP(c)

Request(c) ==
    \/ \E u \in Users : HandleLogin(c, u)
    \/ HandleVerifyTOTP(c) \/ PartialExpires(c)
    \/ HandleRefresh(c) \/ HandleLogout(c) \/ HandleChangePassword(c)
    \/ \E t \in Tokens : HandleRevokeSession(c, t)
    \/ HandleSetupTOTP(c) \/ HandleConfirmTOTP(c) \/ HandleDisableTOTP(c)

Environment ==
    \/ \E u \in Users : DeleteUser(u) \/ \E st \in {"active", "disabled"} : SetUserActive(u, st)
    \/ \E t \in Tokens : Expire(t)

Next == Environment \/ \E c \in Tabs : Request(c) \/ Serve(c) \/ Abort(c)

Spec == Init /\ [][Next]_vars

\* Go's scheduler runs every handler, and every statement has a deadline.
FairSpec == Spec /\ \A c \in Tabs : WF_vars(Serve(c))

-----------------------------------------------------------------------------
(* Properties *)

TypeOK ==
    /\ user \in [Users -> [st : {"active", "disabled", "gone"}, pw : Nat, cut : BOOLEAN, totp : BOOLEAN, secret : Nat, made : Nat]]
    /\ app \in [Users -> Nat]
    /\ sess \in [Tokens -> [st : {"none", "live", "revoked", "gone"}, user : Users \cup {None},
                            root : Tokens \cup {0}, parent : Tokens \cup {0}, pw : Nat, asof : Nat]]
    /\ next \in Nat \ {0}
    /\ {expired, blacklist, rotating} \subseteq SUBSET Tokens
    /\ grace \in [Tokens -> Tokens \cup {0}]
    /\ cookie \in Tokens \cup {0}
    /\ events \in Nat
    /\ acc \in [Tabs -> Tokens \cup {0}]
    /\ tab \in [Tabs -> [at : {"idle", "code", "issue", "answer", "clear", "claim", "mark", "publish", "poll",
                               "exists", "revoke", "hash", "revokeAll", "secret", "enable", "disable"},
                         kind : {"none", "login", "refresh", "logout", "password", "totp"},
                         u : Users \cup {None}, tok : Tokens \cup {0}, pair : Tokens \cup {0},
                         tries : Nat, read : Nat]]

\* A tab that has taken a token and not yet issued the next one.
Turning(c) == tab[c].at \in {"mark", "issue"} /\ tab[c].tok # 0

\* One login never has two usable refresh tokens, however refreshes of several
\* tabs, logouts and reloads interleave (the claim in RefreshToken).
OneLivePerLogin ==
    \A t1, t2 \in Tokens :
        sess[t1].st = "live" /\ sess[t2].st = "live" /\ sess[t1].root = sess[t2].root => t1 = t2

\* Refreshes that race with one token get the same pair: an answer to a refresh is
\* the successor of the token it presented, and a token has one successor.
RacersAgree ==
    /\ \A c \in Tabs : tab[c].at = "answer" /\ tab[c].tok # 0 => sess[tab[c].pair].parent = tab[c].tok
    /\ \A t1, t2 \in Tokens : sess[t1].parent # 0 /\ sess[t1].parent = sess[t2].parent => t1 = t2

\* A password change ends every session there is, whatever it overlaps: one that was
\* issued on an older password lives only until the revocation, or because that failed
\* unnoticed, or because its own request had read the row before the change and inserted
\* it afterwards (ChangePassword: "a stolen/old token cannot outlive the password change",
\* which the last two refute, see OldTokenNeverOutlives).
PasswordEndsSessions ==
    \A t \in Tokens :
        LET u == sess[t].user IN
        sess[t].st = "live" /\ sess[t].pw # user[u].pw
            => sess[t].pw # sess[t].asof \/ user[u].cut \/ \E c \in Tabs : tab[c].at = "revokeAll" /\ tab[c].u = u

\* The comment without its exceptions.  Refuted: by an insert that comes late, and by a
\* reload between the two statements.
OldTokenNeverOutlives ==
    \A t \in Tokens :
        sess[t].st = "live" /\ sess[t].pw # user[sess[t].user].pw
            => \E c \in Tabs : tab[c].at = "revokeAll" /\ tab[c].u = sess[t].user

\* An account that asks for a code has the secret its user was shown last, so
\* set-up, confirm and disable in any order never lock the user out.  True of
\* TOTP requests that do not overlap.
TotpNeverLocksOut == \A u \in Users : user[u].totp => user[u].secret # 0 /\ user[u].secret = app[u]

\* Every admitted request is answered; a racing refresh does not poll for ever.
RequestReturns == \A c \in Tabs : Busy(c) ~> ~Busy(c)

\* "the other gets that one's result" (RefreshToken): no refresh is told to sign in
\* again while another one is exchanging its token.  Refuted: the claim and the
\* rotating key are two steps, and a refresh between them gives up.
LoserGetsResult ==
    \A c, d \in Tabs : tab[c].at = "clear" /\ tab[c].kind = "refresh" /\ Turning(d) => tab[c].tok # tab[d].tok

\* The sessions of a login implement LoginLineage: a closed login never lives again.
Phase ==
    [r \in Tokens |->
        IF sess[r].root # r THEN "unused"
        ELSE IF \E t \in Tokens : sess[t].root = r /\ sess[t].st = "live" THEN "open"
        ELSE IF \E c \in Tabs : Turning(c) /\ sess[tab[c].tok].root = r THEN "turning"
        ELSE "closed"]

Lineage == INSTANCE LoginLineage WITH Roots <- Tokens, phase <- Phase

LineageHolds == Lineage!Spec

-----------------------------------------------------------------------------
(* The inductive invariant behind RacersAgree, PasswordEndsSessions and LineageHolds. *)

\* A token is issued once, with a root that is a root; the others are blank.
Issued == {t \in Tokens : t < next}

TokensMatch ==
    /\ \A t \in Tokens : t \notin Issued => sess[t].st # "live" /\ sess[t].root = 0 /\ sess[t].parent = 0
    /\ \A t \in Issued : sess[t].root \in Issued /\ sess[sess[t].root].root = sess[t].root
    /\ \A t \in Issued : sess[t].parent \in Issued \cup {0}
    /\ \A t \in Tokens : sess[t].st = "live" => sess[t].user \in Users

\* Whoever turns a login over has its token, which is nobody else's and has no
\* successor yet; a usable token is the only one of its login, and has none either.
TurnsMatch ==
    /\ \A c \in Tabs : Turning(c) => tab[c].tok \in Issued /\ sess[tab[c].tok].st # "live"
    /\ \A c, d \in Tabs : Turning(c) /\ Turning(d) /\ sess[tab[c].tok].root = sess[tab[d].tok].root => c = d
    /\ \A c \in Tabs, t \in Tokens : Turning(c) /\ sess[t].st = "live" => sess[t].root # sess[tab[c].tok].root
    /\ \A c \in Tabs, t \in Tokens : Turning(c) => sess[t].parent # tab[c].tok
    /\ \A s, t \in Tokens : sess[s].st = "live" => sess[t].parent # s

\* What a request has in hand: its token, the pair it is to answer with, which is the
\* token's successor, and the account it issues for.
Fit(r) ==
    /\ r.at \in {"claim", "mark", "poll", "exists", "publish"} => r.tok # 0
    /\ r.at \in {"publish", "answer"} => r.pair # 0
    /\ r.at \in {"publish", "answer"} /\ r.tok # 0 => sess[r.pair].parent = r.tok
    /\ r.at = "code" => r.tok = 0
    /\ r.at \in {"code", "claim", "mark", "issue"} => r.u \in Users

PairsMatch ==
    /\ \A t \in Tokens : grace[t] # 0 => sess[grace[t]].parent = t
    /\ \A c \in Tabs : Fit(tab[c])

OneSuccessor == \A t1, t2 \in Tokens : sess[t1].parent # 0 /\ sess[t1].parent = sess[t2].parent => t1 = t2

IInv == TypeOK /\ TokensMatch /\ TurnsMatch /\ OneLivePerLogin /\ PairsMatch /\ OneSuccessor

=============================================================================
