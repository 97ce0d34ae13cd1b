--------------------------- MODULE Sessions_proofs ---------------------------
(***************************************************************************)
(* The types of Sessions, that refreshes which race get one pair, that the *)
(* sessions of a login implement LoginLineage, and which sessions outlive  *)
(* a password change, for every set of users and tabs and every bound.     *)
(***************************************************************************)
EXTENDS Sessions, TLAPS

User == [st : {"active", "disabled", "gone"}, pw : Nat, cut : BOOLEAN, totp : BOOLEAN, secret : Nat, made : Nat]
Session == [st : {"none", "live", "revoked", "gone"}, user : Users \cup {None},
            root : Tokens \cup {0}, parent : Tokens \cup {0}, pw : Nat, asof : Nat]
Places == {"idle", "code", "issue", "answer", "clear", "claim", "mark", "publish", "poll",
           "exists", "revoke", "hash", "revokeAll", "secret", "enable", "disable"}
InFlight == [at : Places, kind : {"none", "login", "refresh", "logout", "password", "totp"},
             u : Users \cup {None}, tok : Tokens \cup {0}, pair : Tokens \cup {0}, tries : Nat, read : Nat]

\* The types by where the state is kept.
UserTypes == user \in [Users -> User] /\ app \in [Users -> Nat]
SessTypes == sess \in [Tokens -> Session] /\ next \in Nat \ {0}
RedisTypes ==
    /\ expired \subseteq Tokens /\ blacklist \subseteq Tokens /\ rotating \subseteq Tokens
    /\ grace \in [Tokens -> Tokens \cup {0}]
ClientTypes == cookie \in Tokens \cup {0} /\ events \in Nat /\ acc \in [Tabs -> Tokens \cup {0}]
TabTypes == tab \in [Tabs -> InFlight]

LEMMA Types == TypeOK <=> UserTypes /\ SessTypes /\ RedisTypes /\ ClientTypes /\ TabTypes
  BY DEF TypeOK, UserTypes, SessTypes, RedisTypes, ClientTypes, TabTypes, User, Session, Places, InFlight

LEMMA TypesNext == TypeOK' <=> UserTypes' /\ SessTypes' /\ RedisTypes' /\ ClientTypes' /\ TabTypes'
  BY DEF TypeOK, UserTypes, SessTypes, RedisTypes, ClientTypes, TabTypes, User, Session, Places, InFlight

-----------------------------------------------------------------------------
(* Steps that issue nothing and take nothing *)

\* Sessions may end, and whoever turns a login over was doing so before.
Shrinks ==
    /\ sess' \in [Tokens -> Session]
    /\ \A t \in Tokens : /\ sess'[t].root = sess[t].root /\ sess'[t].parent = sess[t].parent
                         /\ sess'[t].st = "live" => sess[t].st = "live" /\ sess'[t].user = sess[t].user

Calm ==
    /\ Shrinks /\ next' = next
    /\ \A c \in Tabs : Turning(c)' => Turning(c) /\ tab'[c].tok = tab[c].tok

LEMMA CalmKeeps ==
    ASSUME IInv, TypeOK', PairsMatch', Calm
    PROVE  IInv'
<1>0. /\ \A t \in Tokens : sess'[t].root = sess[t].root /\ sess'[t].parent = sess[t].parent
      /\ \A t \in Tokens : sess'[t].st = "live" => sess[t].st = "live" /\ sess'[t].user = sess[t].user
      /\ \A c \in Tabs : Turning(c)' => Turning(c) /\ tab'[c].tok = tab[c].tok
      /\ Issued' = Issued /\ Issued \subseteq Tokens
  BY DEF Calm, Shrinks, Issued, Tokens
<1>1. TokensMatch'
  BY <1>0 DEF IInv, TokensMatch
<1>2. TurnsMatch'
  <2>1. ASSUME NEW c \in Tabs, Turning(c)' PROVE tab'[c].tok \in Issued' /\ sess'[tab'[c].tok].st # "live" /\ Turning(c)
                                                 /\ tab'[c].tok = tab[c].tok /\ sess'[tab'[c].tok].root = sess[tab[c].tok].root
    BY <1>0, <2>1 DEF IInv, TurnsMatch
  <2>2. ASSUME NEW c \in Tabs, NEW d \in Tabs, Turning(c)', Turning(d)', sess'[tab'[c].tok].root = sess'[tab'[d].tok].root PROVE c = d
    BY <2>1, <2>2 DEF IInv, TurnsMatch
  <2>3. ASSUME NEW c \in Tabs, NEW t \in Tokens, Turning(c)'
        PROVE  (sess'[t].st = "live" => sess'[t].root # sess'[tab'[c].tok].root) /\ sess'[t].parent # tab'[c].tok
    BY <1>0, <2>1, <2>3 DEF IInv, TurnsMatch
  <2>4. ASSUME NEW s \in Tokens, NEW t \in Tokens, sess'[s].st = "live" PROVE sess'[t].parent # s
    BY <1>0, <2>4 DEF IInv, TurnsMatch
  <2> QED
    BY <2>1, <2>2, <2>3, <2>4 DEF TurnsMatch
<1>3. OneLivePerLogin' /\ OneSuccessor'
  BY <1>0 DEF IInv, OneLivePerLogin, OneSuccessor
<1> QED
  BY <1>1, <1>2, <1>3 DEF IInv

\* The phases of a login in words of the invariant.
LEMMA Phases ==
    ASSUME NEW r \in Tokens
    PROVE  Phase[r] = (IF sess[r].root # r THEN "unused"
                       ELSE IF \E t \in Tokens : sess[t].root = r /\ sess[t].st = "live" THEN "open"
                       ELSE IF \E c \in Tabs : Turning(c) /\ sess[tab[c].tok].root = r THEN "turning"
                       ELSE "closed")
  BY DEF Phase

LEMMA PhasesNext ==
    ASSUME NEW r \in Tokens
    PROVE  Phase'[r] = (IF sess'[r].root # r THEN "unused"
                        ELSE IF \E t \in Tokens : sess'[t].root = r /\ sess'[t].st = "live" THEN "open"
                        ELSE IF \E c \in Tabs : Turning(c)' /\ sess'[tab'[c].tok].root = r THEN "turning"
                        ELSE "closed")
  BY DEF Phase

LEMMA PhaseDomain == Phase = [r \in Tokens |-> Phase[r]] /\ Phase' = [r \in Tokens |-> Phase'[r]]
  BY DEF Phase

\* Such a step closes logins, if it changes the phase of any.
LEMMA CalmCloses ==
    ASSUME IInv, Calm
    PROVE  Lineage!Close
<1> DEFINE S == {r \in Tokens : Phase'[r] # Phase[r]}
<1>0. /\ \A t \in Tokens : sess'[t].root = sess[t].root
      /\ \A t \in Tokens : sess'[t].st = "live" => sess[t].st = "live"
      /\ \A c \in Tabs : Turning(c)' => Turning(c) /\ tab'[c].tok = tab[c].tok
      /\ \A c \in Tabs : Turning(c) => tab[c].tok \in Tokens
  BY DEF Calm, Shrinks, IInv, TurnsMatch, Issued
<1>1. ASSUME NEW r \in Tokens, Phase'[r] # Phase[r] PROVE Phase[r] \in {"open", "turning"} /\ Phase'[r] = "closed"
  <2>1. Phase'[r] # "open"
    BY <1>0, <1>1, Phases, PhasesNext
  <2>2. Phase'[r] # "turning"
    <3> SUFFICES ASSUME Phase'[r] = "turning" PROVE FALSE
      OBVIOUS
    <3>1. PICK c \in Tabs : Turning(c)' /\ sess'[tab'[c].tok].root = r
      BY PhasesNext
    <3>2. Turning(c) /\ sess[tab[c].tok].root = r
      BY <1>0, <3>1
    <3>3. \A t \in Tokens : sess[t].st = "live" => sess[t].root # r
      BY <3>2 DEF IInv, TurnsMatch
    <3>4. sess[r].root = r
      BY <1>0, PhasesNext
    <3> QED
      BY <1>1, <3>2, <3>3, <3>4, Phases
  <2>3. Phase'[r] # "unused" /\ Phase[r] # "unused"
    BY <1>0, <1>1, Phases, PhasesNext
  <2> QED
    BY <1>1, <2>1, <2>2, <2>3, Phases, PhasesNext
<1>2. Phase' = [r \in Tokens |-> IF r \in S THEN "closed" ELSE Phase[r]]
  <2>1. \A r \in Tokens : Phase'[r] = IF r \in S THEN "closed" ELSE Phase[r]
    BY <1>1
  <2> QED
    BY <2>1, PhaseDomain
<1>3. S \in SUBSET Tokens /\ \A r \in S : Phase[r] \in {"open", "turning"}
  BY <1>1
<1> QED
  BY <1>2, <1>3 DEF Lineage!Close

-----------------------------------------------------------------------------
(* A refresh that takes its token, and one that issues the next *)

LEMMA IdleRequest == Idle \in InFlight /\ Idle.at = "idle" /\ Idle.tok = 0 /\ Fit(Idle)
  BY DEF Idle, InFlight, Places, Fit

\* One request moves on; sessions keep their parents.
LEMMA TabMove ==
    ASSUME IInv, NEW c \in Tabs, NEW r \in InFlight, tab' = [tab EXCEPT ![c] = r], Fit(r),
           \A t \in Tokens : sess'[t].parent = sess[t].parent
    PROVE  TabTypes' /\ (\A d \in Tabs : Fit(tab[d])') /\ tab'[c] = r /\ \A d \in Tabs \ {c} : tab'[d] = tab[d]
<1>1. TabTypes /\ tab'[c] = r /\ \A d \in Tabs \ {c} : tab'[d] = tab[d]
  BY Types DEF IInv, TabTypes
<1>2. TabTypes'
  BY <1>1 DEF TabTypes
<1>3. ASSUME NEW d \in Tabs PROVE Fit(tab[d])'
  <2>1. Fit(tab[d]) /\ tab[d] \in InFlight
    BY <1>1 DEF IInv, PairsMatch, TabTypes
  <2>2. CASE d = c
    BY <1>1, <2>2 DEF Fit, InFlight
  <2>3. CASE d # c
    BY <1>1, <2>1, <2>3 DEF Fit, InFlight
  <2> QED
    BY <2>2, <2>3
<1> QED
  BY <1>1, <1>2, <1>3

\* What is published stays true while sessions keep their parents.
LEMMA GraceKept ==
    ASSUME IInv, grace' = grace, \A t \in Tokens : sess'[t].parent = sess[t].parent
    PROVE  \A t \in Tokens : grace'[t] # 0 => sess'[grace'[t]].parent = t
<1>1. grace \in [Tokens -> Tokens \cup {0}] /\ \A t \in Tokens : grace[t] # 0 => sess[grace[t]].parent = t
  BY Types DEF IInv, RedisTypes, PairsMatch
<1> QED
  BY <1>1

\* Revoking ends sessions and does nothing else.
LEMMA RevokedShrinks ==
    ASSUME IInv, NEW S, sess' = Revoked(S)
    PROVE  Shrinks /\ (\A t \in S \cap Tokens : sess'[t].st # "live") /\ \A t \in Tokens : sess'[t].user = sess[t].user
<1>1. sess \in [Tokens -> Session]
  BY Types DEF IInv, SessTypes
<1>2. \A t \in Tokens : [sess[t] EXCEPT !.st = "revoked"] \in Session
  BY <1>1 DEF Session
<1> QED
  BY <1>1, <1>2 DEF Revoked, Shrinks, Session

\* The claim takes a login that was open (ClaimRotation's UPDATE ... WHERE NOT revoked).
LEMMA ClaimWins ==
    ASSUME IInv, NEW c \in Tabs, ClaimRotation(c), sess[tab[c].tok].st = "live"
    PROVE  IInv' /\ \E r \in Tokens : Lineage!Turn(r)
<1> DEFINE k == tab[c].tok
           r == [tab[c] EXCEPT !.at = "mark"]
           R == sess[k].root
<1>1. /\ tab[c].at = "claim" /\ tab' = [tab EXCEPT ![c].at = "mark"] /\ sess' = Revoked({k})
      /\ UNCHANGED <<user, next, app, expired, redis, cookie, acc, events>>
  BY DEF ClaimRotation, Go
<1>2. tab[c] \in InFlight /\ Fit(tab[c]) /\ tab \in [Tabs -> InFlight] /\ sess \in [Tokens -> Session]
  BY Types DEF IInv, TabTypes, PairsMatch, SessTypes
<1>3. k \in Tokens /\ k # 0
  BY <1>1, <1>2 DEF Fit, InFlight, Tokens
<1>4. k \in Issued /\ R \in Issued /\ Issued \subseteq Tokens /\ sess[R].root = R
  BY <1>3 DEF IInv, TokensMatch, Issued
<1>5. r \in InFlight /\ Fit(r) /\ r.at = "mark" /\ r.tok = k /\ tab' = [tab EXCEPT ![c] = r]
  BY <1>1, <1>2, <1>3 DEF InFlight, Places, Fit
<1> HIDE DEF r
<1>6. /\ sess' \in [Tokens -> Session] /\ sess'[k].st # "live"
      /\ \A t \in Tokens : /\ sess'[t].root = sess[t].root /\ sess'[t].parent = sess[t].parent
                           /\ sess'[t].st = "live" => sess[t].st = "live" /\ sess'[t].user = sess[t].user
  BY <1>1, <1>3, RevokedShrinks DEF Shrinks
<1>7. TabTypes' /\ (\A d \in Tabs : Fit(tab[d])') /\ tab'[c] = r /\ \A d \in Tabs \ {c} : tab'[d] = tab[d]
  BY <1>5, <1>6, TabMove
<1>8. \A t \in Tokens : grace'[t] # 0 => sess'[grace'[t]].parent = t
  BY <1>1, <1>6, GraceKept DEF redis
<1>9. TypeOK'
  BY <1>1, <1>6, <1>7, Types, TypesNext DEF IInv, UserTypes, SessTypes, RedisTypes, ClientTypes, redis
<1>10. Issued' = Issued
  BY <1>1 DEF Issued
<1>11. /\ Turning(c)' /\ tab'[c].tok = k /\ ~Turning(c)
       /\ \A d \in Tabs \ {c} : (Turning(d)' <=> Turning(d)) /\ tab'[d].tok = tab[d].tok
  BY <1>1, <1>3, <1>5, <1>7 DEF Turning
<1>12. \A d \in Tabs : Turning(d) => tab[d].tok \in Issued /\ sess[tab[d].tok].root # R /\ sess[tab[d].tok].st # "live"
  BY <1>3 DEF IInv, TurnsMatch
<1>13. \A t \in Tokens : (sess[t].st = "live" /\ sess[t].root = R => t = k) /\ sess[t].parent # k
  BY <1>3 DEF IInv, OneLivePerLogin, TurnsMatch
<1> HIDE DEF k, R
<1>14. TurnsMatch'
  <2>1. ASSUME NEW d \in Tabs, Turning(d)'
        PROVE  /\ tab'[d].tok \in Issued' /\ sess'[tab'[d].tok].st # "live"
               /\ sess'[tab'[d].tok].root = (IF d = c THEN R ELSE sess[tab[d].tok].root)
    <3>1. sess[k].root = R
      BY DEF R
    <3> QED
      BY <1>4, <1>6, <1>10, <1>11, <1>12, <2>1, <3>1
  <2>2. ASSUME NEW d \in Tabs, NEW e \in Tabs, Turning(d)', Turning(e)', sess'[tab'[d].tok].root = sess'[tab'[e].tok].root PROVE d = e
    BY <1>11, <1>12, <2>1, <2>2 DEF IInv, TurnsMatch
  <2>3. ASSUME NEW d \in Tabs, NEW t \in Tokens, Turning(d)'
        PROVE  (sess'[t].st = "live" => sess'[t].root # sess'[tab'[d].tok].root) /\ sess'[t].parent # tab'[d].tok
    <3>1. CASE d = c
      BY <1>6, <1>11, <1>13, <2>1, <2>3, <3>1
    <3>2. CASE d # c
      BY <1>6, <1>11, <2>1, <2>3, <3>2 DEF IInv, TurnsMatch
    <3> QED
      BY <3>1, <3>2
  <2>4. ASSUME NEW s \in Tokens, NEW t \in Tokens, sess'[s].st = "live" PROVE sess'[t].parent # s
    BY <1>6, <2>4 DEF IInv, TurnsMatch
  <2> QED
    BY <2>1, <2>2, <2>3, <2>4 DEF TurnsMatch
<1>15. TokensMatch' /\ OneLivePerLogin' /\ OneSuccessor'
  BY <1>4, <1>6, <1>10 DEF IInv, TokensMatch, OneLivePerLogin, OneSuccessor
<1>16. IInv'
  BY <1>7, <1>8, <1>9, <1>14, <1>15 DEF IInv, PairsMatch
<1>17. Phase[R] = "open" /\ Phase'[R] = "turning"
  <2>1. sess[k].root = R /\ sess[k].st = "live"
    BY DEF k, R
  <2>2. Phase[R] = "open"
    BY <1>3, <1>4, <2>1, Phases
  <2>3. ~\E t \in Tokens : sess'[t].root = R /\ sess'[t].st = "live"
    BY <1>6, <1>13
  <2>4. Turning(c)' /\ sess'[tab'[c].tok].root = R /\ sess'[R].root = R
    BY <1>3, <1>4, <1>6, <1>11, <2>1
  <2> QED
    BY <1>4, <2>2, <2>3, <2>4, PhasesNext
<1>18. ASSUME NEW q \in Tokens \ {R} PROVE Phase'[q] = Phase[q]
  <2>1. (\E t \in Tokens : sess'[t].root = q /\ sess'[t].st = "live") <=> (\E t \in Tokens : sess[t].root = q /\ sess[t].st = "live")
    <3>1. \A t \in Tokens \ {k} : sess'[t] = sess[t]
      BY <1>1, <1>2 DEF Revoked
    <3>2. sess[k].root # q
      BY DEF R
    <3> QED
      BY <1>6, <3>1, <3>2
  <2>2. (\E d \in Tabs : Turning(d)' /\ sess'[tab'[d].tok].root = q) <=> (\E d \in Tabs : Turning(d) /\ sess[tab[d].tok].root = q)
    <3>1. sess'[k].root = R
      BY <1>3, <1>6 DEF R
    <3> QED
      BY <1>4, <1>6, <1>11, <1>12, <3>1
  <2> QED
    BY <1>6, <2>1, <2>2, Phases, PhasesNext
<1>19. Phase' = [Phase EXCEPT ![R] = "turning"]
  BY <1>4, <1>17, <1>18, PhaseDomain
<1>20. Lineage!Turn(R)
  BY <1>17, <1>19 DEF Lineage!Turn, Lineage!Move
<1> QED
  BY <1>4, <1>16, <1>20

\* The next token of a login, or the first of a new one (IssueFullTokens).
LEMMA IssueGrants ==
    ASSUME IInv, NEW c \in Tabs, IssueFullTokens(c), user[tab[c].u].st # "gone"
    PROVE  IInv' /\ \E r \in Tokens : Lineage!Open(r) \/ Lineage!Renew(r)
<1> DEFINE k == tab[c].tok
           n == next
           R == IF k = 0 THEN n ELSE sess[k].root
           N == [st |-> "live", user |-> tab[c].u, parent |-> k, pw |-> tab[c].read, asof |-> user[tab[c].u].pw, root |-> R]
           r == [tab[c] EXCEPT !.pair = n, !.at = IF k = 0 THEN "answer" ELSE "publish"]
<1>1. /\ tab[c].at = "issue" /\ n \in Tokens /\ sess' = [sess EXCEPT ![n] = N] /\ next' = n + 1
      /\ tab' = [tab EXCEPT ![c] = r]
      /\ UNCHANGED <<user, app, expired, redis, cookie, acc, events>>
  BY DEF IssueFullTokens, Finish
<1>2. tab[c] \in InFlight /\ Fit(tab[c]) /\ tab \in [Tabs -> InFlight] /\ sess \in [Tokens -> Session] /\ n \in Nat \ {0}
  BY Types DEF IInv, TabTypes, PairsMatch, SessTypes
<1>3. n \notin Issued /\ Issued \subseteq Tokens /\ Issued' = Issued \cup {n} /\ n # 0 /\ 0 \notin Issued
  BY <1>1, <1>2 DEF Issued, Tokens
<1>4. k # 0 => Turning(c) /\ k \in Issued /\ sess[k].root \in Issued /\ sess[sess[k].root].root = sess[k].root
  BY <1>1 DEF Turning, IInv, TurnsMatch, TokensMatch
<1>5. R \in Issued' /\ R \in Tokens /\ k \in Issued \cup {0}
  BY <1>1, <1>3, <1>4
<1>6. N \in Session /\ N.st = "live" /\ N.parent = k /\ N.root = R /\ N.user = tab[c].u /\ tab[c].u \in Users
  <2>1. tab[c].u \in Users
    BY <1>1, <1>2 DEF Fit
  <2>2. user[tab[c].u].pw \in Nat
    BY <2>1, Types DEF IInv, UserTypes, User
  <2> QED
    BY <1>2, <1>5, <2>1, <2>2 DEF Session, InFlight
<1>7. r \in InFlight /\ r.pair = n /\ r.tok = k /\ r.at = (IF k = 0 THEN "answer" ELSE "publish")
  BY <1>1, <1>2 DEF InFlight, Places
<1>8. k = 0 => R = n
  OBVIOUS
<1>9. k # 0 => R = sess[k].root
  OBVIOUS
<1> HIDE DEF k, R, N, r
<1>10. sess' \in [Tokens -> Session] /\ sess'[n] = N /\ \A t \in Tokens \ {n} : sess'[t] = sess[t]
  BY <1>1, <1>2, <1>6
<1>11. TabTypes' /\ tab'[c] = r /\ ~Turning(c)' /\ \A d \in Tabs \ {c} : tab'[d] = tab[d] /\ (Turning(d)' <=> Turning(d))
  BY <1>1, <1>2, <1>7 DEF TabTypes, Turning
<1>12. TypeOK'
  BY <1>1, <1>2, <1>10, <1>11, Types, TypesNext DEF IInv, UserTypes, SessTypes, RedisTypes, ClientTypes, redis
<1>13. sess[n].st # "live" /\ sess[n].root = 0 /\ sess[n].parent = 0
  BY <1>1, <1>3 DEF IInv, TokensMatch
<1>14. \A t \in Tokens : sess[t].parent # n /\ sess[t].root # n /\ (t # n => sess'[t].parent = sess[t].parent)
  <2> SUFFICES ASSUME NEW t \in Tokens
               PROVE  sess[t].parent # n /\ sess[t].root # n /\ (t # n => sess'[t].parent = sess[t].parent)
    OBVIOUS
  <2>1. sess[t].parent \in Issued \cup {0} /\ sess[t].root \in Issued \cup {0}
    BY DEF IInv, TokensMatch
  <2> QED
    BY <1>3, <1>10, <2>1
<1>15. PairsMatch'
  <2>1. \A t \in Tokens : grace'[t] # 0 => sess'[grace'[t]].parent = t
    <3> SUFFICES ASSUME NEW t \in Tokens, grace[t] # 0 PROVE sess'[grace[t]].parent = t
      BY <1>1 DEF redis
    <3>1. grace[t] \in Tokens /\ sess[grace[t]].parent = t /\ t # 0
      BY Types DEF IInv, RedisTypes, PairsMatch, Tokens
    <3> QED
      BY <1>10, <1>13, <3>1
  <2>2. ASSUME NEW d \in Tabs PROVE Fit(tab[d])'
    <3>1. CASE d = c
      BY <1>3, <1>6, <1>7, <1>10, <1>11, <3>1 DEF Fit
    <3>2. CASE d # c
      <4>1. tab[d] \in InFlight /\ Fit(tab[d]) /\ tab'[d] = tab[d]
        BY <1>2, <1>11, <3>2 DEF IInv, PairsMatch
      <4>2. tab[d].at \in {"publish", "answer"} /\ tab[d].tok # 0 => tab[d].pair \in Tokens /\ tab[d].pair # n
        BY <1>13, <4>1 DEF Fit, InFlight
      <4> QED
        BY <1>10, <4>1, <4>2 DEF Fit
    <3> QED
      BY <3>1, <3>2
  <2> QED
    BY <2>1, <2>2 DEF PairsMatch
<1>16. TokensMatch'
  <2>1. ASSUME NEW t \in Tokens, t \notin Issued' PROVE sess'[t].st # "live" /\ sess'[t].root = 0 /\ sess'[t].parent = 0
    BY <1>3, <1>10, <2>1 DEF IInv, TokensMatch
  <2>2. ASSUME NEW t \in Issued' PROVE sess'[t].root \in Issued' /\ sess'[sess'[t].root].root = sess'[t].root
    <3>1. CASE t = n
      <4>1. sess'[t].root = R
        BY <1>6, <1>10, <3>1
      <4>2. CASE k = 0
        BY <1>5, <1>8, <3>1, <4>1, <4>2
      <4>3. CASE k # 0
        BY <1>3, <1>4, <1>5, <1>9, <1>10, <4>1, <4>3
      <4> QED
        BY <4>2, <4>3
    <3>2. CASE t # n
      BY <1>3, <1>10, <3>2 DEF IInv, TokensMatch
    <3> QED
      BY <3>1, <3>2
  <2>3. ASSUME NEW t \in Issued' PROVE sess'[t].parent \in Issued' \cup {0}
    <3>1. CASE t = n
      BY <1>3, <1>5, <1>6, <1>10, <3>1
    <3>2. CASE t # n
      BY <1>3, <1>10, <3>2 DEF IInv, TokensMatch
    <3> QED
      BY <3>1, <3>2
  <2>4. ASSUME NEW t \in Tokens, sess'[t].st = "live" PROVE sess'[t].user \in Users
    <3>1. CASE t = n
      BY <1>6, <1>10, <3>1
    <3>2. CASE t # n
      BY <1>10, <2>4, <3>2 DEF IInv, TokensMatch
    <3> QED
      BY <3>1, <3>2
  <2> QED
    BY <2>1, <2>2, <2>3, <2>4 DEF TokensMatch
<1>17. \* nobody else has the login, or its token
       /\ \A t \in Tokens \ {n} : sess[t].st = "live" => sess[t].root # R /\ t # k
       /\ \A d \in Tabs \ {c} : Turning(d) => sess[tab[d].tok].root # R /\ tab[d].tok # k /\ tab[d].tok # n /\ tab[d].tok \in Tokens
       /\ k # 0 => \A t \in Tokens : sess[t].parent # k
  <2>1. \A d \in Tabs : Turning(d) => tab[d].tok \in Issued /\ tab[d].tok # n /\ tab[d].tok \in Tokens
    BY <1>3 DEF IInv, TurnsMatch
  <2>2. CASE k = 0
    BY <1>3, <1>8, <1>14, <2>1, <2>2 DEF Tokens
  <2>3. CASE k # 0
    <3>1. Turning(c) /\ k = tab[c].tok /\ R = sess[k].root
      BY <1>4, <1>9, <2>3 DEF k
    <3> QED
      BY <2>1, <3>1 DEF IInv, TurnsMatch
  <2> QED
    BY <2>2, <2>3
<1>18. TurnsMatch'
  <2>1. ASSUME NEW d \in Tabs, Turning(d)'
        PROVE  /\ d # c /\ Turning(d) /\ tab'[d].tok = tab[d].tok /\ tab[d].tok \in Tokens /\ sess'[tab[d].tok] = sess[tab[d].tok]
               /\ tab'[d].tok \in Issued' /\ sess'[tab'[d].tok].st # "live"
    BY <1>3, <1>10, <1>11, <1>17, <2>1 DEF IInv, TurnsMatch
  <2>2. ASSUME NEW d \in Tabs, NEW e \in Tabs, Turning(d)', Turning(e)', sess'[tab'[d].tok].root = sess'[tab'[e].tok].root PROVE d = e
    BY <2>1, <2>2 DEF IInv, TurnsMatch
  <2>3. ASSUME NEW d \in Tabs, NEW t \in Tokens, Turning(d)'
        PROVE  (sess'[t].st = "live" => sess'[t].root # sess'[tab'[d].tok].root) /\ sess'[t].parent # tab'[d].tok
    <3>1. CASE t = n
      BY <1>6, <1>10, <1>17, <2>1, <2>3, <3>1
    <3>2. CASE t # n
      BY <1>10, <2>1, <2>3, <3>2 DEF IInv, TurnsMatch
    <3> QED
      BY <3>1, <3>2
  <2>4. ASSUME NEW s \in Tokens, NEW t \in Tokens, sess'[s].st = "live" PROVE sess'[t].parent # s
    <3>1. CASE t = n /\ s = n
      BY <1>3, <1>5, <1>6, <1>10, <3>1
    <3>2. CASE t = n /\ s # n
      BY <1>6, <1>10, <1>17, <2>4, <3>2
    <3>3. CASE t # n /\ s = n
      BY <1>10, <1>14, <3>3
    <3>4. CASE t # n /\ s # n
      BY <1>10, <2>4, <3>4 DEF IInv, TurnsMatch
    <3> QED
      BY <3>1, <3>2, <3>3, <3>4
  <2> QED
    BY <2>1, <2>2, <2>3, <2>4 DEF TurnsMatch
<1>19. OneLivePerLogin'
  <2> SUFFICES ASSUME NEW t1 \in Tokens, NEW t2 \in Tokens, sess'[t1].st = "live", sess'[t2].st = "live", sess'[t1].root = sess'[t2].root
               PROVE  t1 = t2
    BY DEF OneLivePerLogin
  <2>1. CASE t1 = n \/ t2 = n
    BY <1>6, <1>10, <1>17, <2>1
  <2>2. CASE t1 # n /\ t2 # n
    BY <1>10, <2>2 DEF IInv, OneLivePerLogin
  <2> QED
    BY <2>1, <2>2
<1>20. OneSuccessor'
  <2> SUFFICES ASSUME NEW t1 \in Tokens, NEW t2 \in Tokens, sess'[t1].parent # 0, sess'[t1].parent = sess'[t2].parent
               PROVE  t1 = t2
    BY DEF OneSuccessor
  <2>1. CASE t1 = n \/ t2 = n
    BY <1>6, <1>10, <1>17, <2>1
  <2>2. CASE t1 # n /\ t2 # n
    BY <1>10, <2>2 DEF IInv, OneSuccessor
  <2> QED
    BY <2>1, <2>2
<1>21. IInv'
  BY <1>12, <1>15, <1>16, <1>18, <1>19, <1>20 DEF IInv
<1>22. Phase'[R] = "open"
  <2>1. sess'[R].root = R
    <3>1. n \in Issued' /\ sess'[n].root = R
      BY <1>3, <1>6, <1>10
    <3> QED
      BY <1>16, <3>1 DEF TokensMatch
  <2> QED
    BY <1>1, <1>5, <1>6, <1>10, <2>1, PhasesNext
<1>23. Phase[R] = IF k = 0 THEN "unused" ELSE "turning"
  <2>1. CASE k = 0
    BY <1>1, <1>3, <1>8, <1>13, <2>1, Phases
  <2>2. CASE k # 0
    <3>1. Turning(c) /\ sess[tab[c].tok].root = R /\ sess[R].root = R /\ R \in Tokens /\ R # n
      BY <1>3, <1>4, <1>5, <1>9, <2>2 DEF k
    <3>2. \A t \in Tokens : sess[t].st = "live" => sess[t].root # R
      BY <3>1 DEF IInv, TurnsMatch
    <3> QED
      BY <2>2, <3>1, <3>2, Phases
  <2> QED
    BY <2>1, <2>2
<1>24. ASSUME NEW q \in Tokens \ {R} PROVE Phase'[q] = Phase[q]
  <2>1. (\E t \in Tokens : sess'[t].root = q /\ sess'[t].st = "live") <=> (\E t \in Tokens : sess[t].root = q /\ sess[t].st = "live")
    BY <1>6, <1>10, <1>13
  <2>2. (\E d \in Tabs : Turning(d)' /\ sess'[tab'[d].tok].root = q) <=> (\E d \in Tabs : Turning(d) /\ sess[tab[d].tok].root = q)
    <3>1. Turning(c) => sess[tab[c].tok].root = R
      BY <1>9 DEF Turning, k
    <3>2. \A d \in Tabs \ {c} : Turning(d) => sess'[tab'[d].tok].root = sess[tab[d].tok].root
      BY <1>10, <1>11, <1>17
    <3> QED
      BY <1>11, <3>1, <3>2
  <2>3. sess'[q].root = q <=> sess[q].root = q
    <3>1. CASE q = n
      BY <1>3, <1>6, <1>10, <1>13, <3>1
    <3>2. CASE q # n
      BY <1>10, <3>2
    <3> QED
      BY <3>1, <3>2
  <2> QED
    BY <2>1, <2>2, <2>3, Phases, PhasesNext
<1>25. Phase' = [Phase EXCEPT ![R] = "open"]
  BY <1>5, <1>22, <1>24, PhaseDomain
<1>26. Lineage!Open(R) \/ Lineage!Renew(R)
  BY <1>23, <1>25 DEF Lineage!Open, Lineage!Renew, Lineage!Move
<1> QED
  BY <1>5, <1>21, <1>26

-----------------------------------------------------------------------------
(* The other steps *)

\* A request that moves on without taking or issuing a token.
LEMMA Moves ==
    ASSUME IInv, NEW c \in Tabs, NEW r \in InFlight, tab' = [tab EXCEPT ![c] = r], Fit(r),
           r.at \in {"mark", "issue"} /\ r.tok # 0 => Turning(c) /\ r.tok = tab[c].tok,
           Shrinks, next' = next, UserTypes', RedisTypes', ClientTypes',
           \A t \in Tokens : grace'[t] # 0 => sess'[grace'[t]].parent = t
    PROVE  IInv' /\ Calm
<1>1. \A t \in Tokens : sess'[t].parent = sess[t].parent
  BY DEF Shrinks
<1>2. TabTypes' /\ (\A d \in Tabs : Fit(tab[d])') /\ tab'[c] = r /\ \A d \in Tabs \ {c} : tab'[d] = tab[d]
  BY <1>1, TabMove
<1>3. TypeOK'
  BY <1>2, Types, TypesNext DEF IInv, SessTypes, Shrinks
<1>4. Calm
  BY <1>2 DEF Calm, Turning
<1> QED
  BY <1>2, <1>3, <1>4, CalmKeeps DEF PairsMatch

\* Most of them leave the sessions and Redis alone.
LEMMA Same ==
    ASSUME IInv
    PROVE  /\ sess' = sess => Shrinks
           /\ UNCHANGED <<user, app>> => UserTypes'
           /\ UNCHANGED <<expired, redis>> => RedisTypes'
           /\ UNCHANGED <<cookie, acc, events>> => ClientTypes'
           /\ sess' = sess /\ grace' = grace => \A t \in Tokens : grace'[t] # 0 => sess'[grace'[t]].parent = t
           /\ UserTypes /\ RedisTypes /\ ClientTypes /\ SessTypes /\ TabTypes
<1>1. UserTypes /\ RedisTypes /\ ClientTypes /\ SessTypes /\ TabTypes
  BY Types DEF IInv
<1> QED
  BY <1>1, GraceKept DEF UserTypes, RedisTypes, ClientTypes, SessTypes, Shrinks, redis

LEMMA StillMoves ==
    ASSUME IInv, NEW c \in Tabs, NEW r \in InFlight, tab' = [tab EXCEPT ![c] = r], Fit(r),
           r.at \in {"mark", "issue"} /\ r.tok # 0 => Turning(c) /\ r.tok = tab[c].tok,
           UNCHANGED <<sess, next, expired, redis>>, UserTypes', ClientTypes'
    PROVE  IInv' /\ Calm
<1>1. grace' = grace
  BY DEF redis
<1> QED
  BY <1>1, Same, Moves

\* The request at another place.
LEMMA RequestAt ==
    ASSUME IInv, NEW c \in Tabs, NEW at \in Places
    PROVE  /\ tab[c] \in InFlight /\ Fit(tab[c]) /\ [tab[c] EXCEPT !.at = at] \in InFlight
           /\ [tab[c] EXCEPT !.at = at].at = at /\ [tab[c] EXCEPT !.at = at].tok = tab[c].tok
           /\ [tab[c] EXCEPT !.at = at].pair = tab[c].pair
           /\ [tab EXCEPT ![c].at = at] = [tab EXCEPT ![c] = [tab[c] EXCEPT !.at = at]]
<1>1. tab[c] \in InFlight /\ Fit(tab[c])
  BY Types DEF IInv, TabTypes, PairsMatch
<1> QED
  BY <1>1 DEF InFlight

LEMMA SignInCalm ==
    ASSUME IInv, NEW c \in Tabs,
           (\E u \in Users : HandleLogin(c, u)) \/ HandleVerifyTOTP(c) \/ PartialExpires(c)
    PROVE  IInv' /\ Calm
<1>0. UNCHANGED <<sess, next, expired, redis>> /\ UserTypes' /\ ClientTypes' /\ UserTypes
  BY Same DEF HandleLogin, HandleVerifyTOTP, PartialExpires, rows
<1>1. ASSUME NEW u \in Users, HandleLogin(c, u) PROVE IInv' /\ Calm
  <2> DEFINE r == [Idle EXCEPT !.at = IF user[u].totp THEN "code" ELSE "issue", !.kind = "login", !.u = u, !.read = user[u].pw]
  <2>1. tab' = [tab EXCEPT ![c] = r]
    BY <1>1 DEF HandleLogin, Login
  <2>2. user[u].pw \in Nat
    BY <1>0 DEF UserTypes, User
  <2>3. r \in InFlight /\ r.at \in {"code", "issue"} /\ r.tok = 0 /\ r.u = u
    BY <2>2, IdleRequest DEF InFlight, Places
  <2> HIDE DEF r
  <2>4. Fit(r)
    BY <2>3 DEF Fit
  <2> QED
    BY <1>0, <2>1, <2>3, <2>4, StillMoves
<1>2. CASE HandleVerifyTOTP(c)
  <2> DEFINE r == [tab[c] EXCEPT !.at = "issue", !.read = user[tab[c].u].pw]
  <2>1. tab' = [tab EXCEPT ![c].at = "issue", ![c].read = user[tab[c].u].pw] /\ tab[c].at = "code"
    BY <1>2 DEF HandleVerifyTOTP, VerifyTOTP
  <2>2. tab[c] \in InFlight /\ tab[c].u \in Users /\ tab \in [Tabs -> InFlight]
    BY <2>1, Types DEF IInv, PairsMatch, Fit, TabTypes
  <2>3. user[tab[c].u].pw \in Nat
    BY <1>0, <2>2 DEF UserTypes, User
  <2>4. r \in InFlight /\ r.at = "issue" /\ r.tok = tab[c].tok /\ r.u = tab[c].u /\ tab' = [tab EXCEPT ![c] = r]
    BY <2>1, <2>2, <2>3 DEF InFlight, Places
  <2>5. tab[c].tok = 0
    BY <2>1 DEF IInv, PairsMatch, Fit
  <2> QED
    BY <1>0, <2>2, <2>4, <2>5, StillMoves DEF Fit
<1>3. CASE PartialExpires(c)
  <2>1. tab' = [tab EXCEPT ![c] = Idle]
    BY <1>3 DEF PartialExpires, Finish
  <2> QED
    BY <1>0, <2>1, IdleRequest, StillMoves
<1> QED
  BY <1>1, <1>2, <1>3

LEMMA AnswerCalm ==
    ASSUME IInv, NEW c \in Tabs, SetRefreshCookie(c) \/ ClearRefreshCookie(c)
    PROVE  IInv' /\ Calm
<1>1. tab' = [tab EXCEPT ![c] = Idle] /\ UNCHANGED <<rows, app, expired, redis, events>>
  BY DEF SetRefreshCookie, ClearRefreshCookie, Finish
<1>2. tab[c].pair \in Tokens \cup {0} /\ ClientTypes
  BY Types DEF IInv, TabTypes, InFlight
<1>3. ClientTypes'
  BY <1>1, <1>2 DEF SetRefreshCookie, ClearRefreshCookie, ClientTypes
<1>4. UNCHANGED <<user, sess, next>>
  BY <1>1 DEF rows
<1> QED
  BY <1>1, <1>3, <1>4, IdleRequest, Same, StillMoves

\* A request that begins or goes on, and holds nothing that is shared.
LEMMA Advances ==
    ASSUME IInv, NEW c \in Tabs, NEW r \in InFlight, tab' = [tab EXCEPT ![c] = r],
           r.at \notin {"claim", "mark", "issue", "poll", "exists", "publish", "answer", "code"},
           Shrinks, next' = next, UserTypes', RedisTypes', ClientTypes', grace' = grace
    PROVE  IInv' /\ Calm
<1>1. Fit(r)
  BY DEF Fit
<1>2. \A t \in Tokens : grace'[t] # 0 => sess'[grace'[t]].parent = t
  BY GraceKept DEF Shrinks
<1> QED
  BY <1>1, <1>2, Moves

LEMMA RefreshCalm ==
    ASSUME IInv, NEW c \in Tabs, HandleRefresh(c)
    PROVE  IInv' /\ Calm
<1> DEFINE t == cookie
           at == IF sess[t].st \in {"none", "gone"} \/ t \in expired THEN "clear"
                 ELSE IF sess[t].st = "revoked" THEN "poll" ELSE "claim"
           r == [Idle EXCEPT !.at = at, !.kind = "refresh", !.u = sess[t].user, !.tok = t, !.read = sess[t].pw]
<1>1. t # 0 /\ tab' = [tab EXCEPT ![c] = r] /\ UNCHANGED <<rows, app, expired, redis, cookie, acc, events>>
  BY DEF HandleRefresh, RefreshToken
<1>2. t \in Tokens /\ sess[t] \in Session
  BY <1>1, Types DEF IInv, ClientTypes, SessTypes
<1>3. r \in InFlight /\ r.at \in {"clear", "poll", "claim"} /\ r.tok = t /\ (r.at = "claim" => r.u \in Users)
  <2>1. at \in {"clear", "poll", "claim"} /\ sess[t].user \in Users \cup {None} /\ sess[t].pw \in Nat
    BY <1>2 DEF Session
  <2>2. at = "claim" => sess[t].user \in Users
    BY <1>2 DEF Session, IInv, TokensMatch
  <2> HIDE DEF at
  <2> QED
    BY <1>2, <2>1, <2>2 DEF Idle, InFlight, Places
<1> HIDE DEF r
<1>4. Fit(r)
  BY <1>1, <1>3 DEF Fit
<1>5. UNCHANGED <<user, sess, next>>
  BY <1>1 DEF rows
<1> QED
  BY <1>1, <1>3, <1>4, <1>5, Same, StillMoves

LEMMA ClaimLoses ==
    ASSUME IInv, NEW c \in Tabs, ClaimRotation(c), sess[tab[c].tok].st # "live"
    PROVE  IInv' /\ Calm
<1> DEFINE r == [tab[c] EXCEPT !.at = "poll"]
<1>1. tab' = [tab EXCEPT ![c].at = "poll"] /\ tab[c].at = "claim" /\ UNCHANGED <<sess, user, next, app, expired, redis, cookie, acc, events>>
  BY DEF ClaimRotation, Go
<1>2. r \in InFlight /\ r.at = "poll" /\ r.tok # 0 /\ tab' = [tab EXCEPT ![c] = r]
  <2>1. r \in InFlight /\ r.at = "poll" /\ r.tok = tab[c].tok /\ tab' = [tab EXCEPT ![c] = r] /\ Fit(tab[c])
    BY <1>1, RequestAt DEF Places
  <2> HIDE DEF r
  <2> QED
    BY <1>1, <2>1 DEF Fit
<1> HIDE DEF r
<1>3. Fit(r)
  BY <1>2 DEF Fit
<1> QED
  BY <1>1, <1>2, <1>3, Same, StillMoves

\* The rotating key is for a token that is still being turned over.
LEMMA MarkCalm ==
    ASSUME IInv, NEW c \in Tabs, MarkRotating(c)
    PROVE  IInv' /\ Calm
<1> DEFINE r == [tab[c] EXCEPT !.at = "issue"]
<1>1. tab' = [tab EXCEPT ![c].at = "issue"] /\ tab[c].at = "mark" /\ UNCHANGED <<rows, app, expired, blacklist, grace, cookie, acc>>
  BY DEF MarkRotating, Go
<1>2. r \in InFlight /\ r.at = "issue" /\ r.tok = tab[c].tok /\ r.tok \in Tokens /\ r.tok # 0 /\ tab' = [tab EXCEPT ![c] = r]
  <2>1. r \in InFlight /\ r.at = "issue" /\ r.tok = tab[c].tok /\ tab' = [tab EXCEPT ![c] = r] /\ Fit(tab[c])
    BY ZenonT(60), <1>1, RequestAt DEF Places
  <2> HIDE DEF r
  <2> QED
    BY <1>1, <2>1 DEF Fit, InFlight
<1>3. Turning(c)
  BY <1>1, <1>2 DEF Turning
<1>4. Fit(r)
  <2>1. r.u = tab[c].u /\ Fit(tab[c])
    <3>1. tab[c] \in InFlight /\ Fit(tab[c])
      BY RequestAt DEF Places
    <3> QED
      BY <3>1 DEF InFlight
  <2> HIDE DEF r
  <2> QED
    BY <1>1, <1>2, <2>1 DEF Fit
<1>5. RedisTypes' /\ ClientTypes'
  <2>1. rotating' \subseteq Tokens /\ events' \in Nat
    BY <1>2, Same DEF MarkRotating, RedisError, Event, RedisTypes, ClientTypes
  <2> QED
    BY <1>1, <2>1, Same DEF RedisTypes, ClientTypes
<1>6. UNCHANGED <<user, sess, next>>
  BY <1>1 DEF rows
<1> HIDE DEF r
<1> QED
  BY <1>1, <1>2, <1>3, <1>4, <1>5, <1>6, Same, Moves

\* What is published is the successor.
LEMMA PublishCalm ==
    ASSUME IInv, NEW c \in Tabs, PublishGrace(c)
    PROVE  IInv' /\ Calm
<1> DEFINE r == [tab[c] EXCEPT !.at = "answer"]
<1>1. tab' = [tab EXCEPT ![c].at = "answer"] /\ tab[c].at = "publish" /\ UNCHANGED <<rows, app, expired, blacklist, rotating, cookie, acc>>
  BY DEF PublishGrace, Go
<1>2. tab[c].tok # 0 /\ tab[c].pair # 0 /\ sess[tab[c].pair].parent = tab[c].tok /\ tab[c].tok \in Tokens /\ tab[c].pair \in Tokens
  <2>1. tab[c] \in InFlight /\ Fit(tab[c])
    BY RequestAt DEF Places
  <2> QED
    BY <1>1, <2>1 DEF Fit, InFlight
<1>3. r \in InFlight /\ r.at = "answer" /\ r.tok = tab[c].tok /\ r.pair = tab[c].pair /\ tab' = [tab EXCEPT ![c] = r]
  BY ZenonT(60), <1>1, RequestAt DEF Places
<1> HIDE DEF r
<1>4. Fit(r)
  BY <1>2, <1>3 DEF Fit
<1>5. UNCHANGED <<user, sess, next>>
  BY <1>1 DEF rows
<1>6. grace' = grace \/ grace' = [grace EXCEPT ![tab[c].tok] = tab[c].pair]
  BY DEF PublishGrace
<1>7. \A t \in Tokens : grace'[t] # 0 => sess'[grace'[t]].parent = t
  BY <1>2, <1>5, <1>6, Same DEF RedisTypes, IInv, PairsMatch
<1>8. RedisTypes' /\ ClientTypes'
  <2>1. events' \in Nat
    BY Same DEF PublishGrace, RedisError, Event, ClientTypes
  <2> QED
    BY <1>1, <1>2, <1>6, <2>1, Same DEF RedisTypes, ClientTypes
<1> QED
  BY <1>1, <1>3, <1>4, <1>5, <1>7, <1>8, Same, Moves

LEMMA PollCalm ==
    ASSUME IInv, NEW c \in Tabs, RotatedResult(c) \/ RotatingExists(c)
    PROVE  IInv' /\ Calm
<1>0. UNCHANGED <<rows, app, expired, redis, cookie, acc>> /\ tab[c].at \in {"poll", "exists"}
  BY DEF RotatedResult, RotatingExists
<1>1. UNCHANGED <<user, sess, next, app, expired, redis, cookie, acc>>
  BY <1>0 DEF rows
<1>2. ClientTypes' /\ UserTypes'
  <2>1. events' \in Nat
    BY Same DEF RotatedResult, RotatingExists, RedisError, Event, ClientTypes
  <2> QED
    BY <1>1, <2>1, Same DEF ClientTypes
<1>3. tab[c] \in InFlight /\ tab[c].tok # 0 /\ tab[c].tok \in Tokens /\ tab \in [Tabs -> InFlight]
  <2>1. tab[c] \in InFlight /\ Fit(tab[c])
    BY RequestAt DEF Places
  <2> QED
    BY <1>0, <2>1, Same DEF Fit, InFlight, TabTypes
<1>4. ASSUME NEW at \in {"poll", "exists", "clear"}, Go(c, at) PROVE IInv' /\ Calm
  <2> DEFINE r == [tab[c] EXCEPT !.at = at]
  <2>1. r \in InFlight /\ r.at = at /\ r.tok = tab[c].tok /\ tab' = [tab EXCEPT ![c] = r]
    <3>1. at \in Places
      BY DEF Places
    <3> QED
      BY <1>4, <3>1, RequestAt DEF Go
  <2> HIDE DEF r
  <2>2. Fit(r)
    BY <1>3, <2>1 DEF Fit
  <2> QED
    BY <1>1, <1>2, <2>1, <2>2, StillMoves
<1>5. CASE RotatedResult(c)
  <2> DEFINE g == grace[tab[c].tok]
  <2>1. ASSUME g # 0, tab' = [tab EXCEPT ![c].at = "answer", ![c].pair = g] PROVE IInv' /\ Calm
    <3> DEFINE r == [tab[c] EXCEPT !.at = "answer", !.pair = g]
    <3>1. g \in Tokens /\ sess[g].parent = tab[c].tok
      BY <1>3, <2>1, Same DEF RedisTypes, IInv, PairsMatch
    <3>2. r \in InFlight /\ r.at = "answer" /\ r.pair = g /\ r.tok = tab[c].tok /\ tab' = [tab EXCEPT ![c] = r]
      BY <1>3, <2>1, <3>1 DEF InFlight, Places
    <3> HIDE DEF r
    <3>3. Fit(r)
      BY <2>1, <3>1, <3>2 DEF Fit
    <3> QED
      BY <1>1, <1>2, <3>2, <3>3, StillMoves
  <2> QED
    BY <1>4, <1>5, <2>1 DEF RotatedResult
<1>6. CASE RotatingExists(c)
  <2> DEFINE n == tab[c].tries + 1
             at == IF n >= MaxTries THEN "clear" ELSE "poll"
  <2>1. ASSUME tab' = [tab EXCEPT ![c].tries = n, ![c].at = at] PROVE IInv' /\ Calm
    <3> DEFINE r == [tab[c] EXCEPT !.tries = n, !.at = at]
    <3>1. r \in InFlight /\ r.at \in {"clear", "poll"} /\ r.tok = tab[c].tok /\ tab' = [tab EXCEPT ![c] = r]
      <4>1. n \in Nat /\ at \in {"clear", "poll"} /\ {"clear", "poll"} \subseteq Places
        BY <1>3 DEF InFlight, Places
      <4> HIDE DEF n, at
      <4> QED
        BY <1>3, <2>1, <4>1 DEF InFlight
    <3> HIDE DEF r
    <3>2. Fit(r)
      BY <1>3, <3>1 DEF Fit
    <3> QED
      BY <1>1, <1>2, <3>1, <3>2, StillMoves
  <2> QED
    BY <1>4, <1>6, <2>1 DEF RotatingExists
<1> QED
  BY <1>5, <1>6

LEMMA LogoutCalm ==
    ASSUME IInv, NEW c \in Tabs, HandleLogout(c) \/ RevokeRefresh(c)
    PROVE  IInv' /\ Calm
<1>1. CASE HandleLogout(c)
  <2>1. UNCHANGED <<user, sess, next, app, expired, rotating, grace, cookie, acc>> /\ acc[c] \in Tokens
    BY <1>1, Same DEF HandleLogout, AuthRequired, rows, ClientTypes
  <2>2. blacklist' \subseteq Tokens /\ events' \in Nat
    BY <1>1, <2>1, Same DEF HandleLogout, Logout, RedisError, Event, RedisTypes, ClientTypes
  <2>3. RedisTypes' /\ ClientTypes' /\ UserTypes' /\ Shrinks
    BY <2>1, <2>2, Same DEF RedisTypes, ClientTypes
  <2>4. PICK r \in {[Idle EXCEPT !.at = "revoke", !.kind = "logout", !.tok = cookie], [Idle EXCEPT !.at = "clear", !.kind = "logout"]} :
            tab' = [tab EXCEPT ![c] = r]
    BY <1>1 DEF HandleLogout, Logout
  <2>5. r \in InFlight /\ r.at \in {"revoke", "clear"}
    BY ZenonT(60), Same, IdleRequest DEF InFlight, Places, ClientTypes
  <2> QED
    BY <2>1, <2>3, <2>4, <2>5, Advances
<1>2. CASE RevokeRefresh(c)
  <2> DEFINE r == [tab[c] EXCEPT !.at = "clear"]
  <2>1. tab' = [tab EXCEPT ![c].at = "clear"] /\ sess' = Revoked({tab[c].tok}) /\ UNCHANGED <<user, next, app, expired, redis, cookie, acc, events>>
    BY <1>2 DEF RevokeRefresh, Go
  <2>2. r \in InFlight /\ r.at = "clear" /\ tab' = [tab EXCEPT ![c] = r]
    BY <2>1, RequestAt DEF Places
  <2> HIDE DEF r
  <2>3. Shrinks /\ grace' = grace
    BY <2>1, RevokedShrinks DEF redis
  <2> QED
    BY <2>1, <2>2, <2>3, Same, Advances
<1> QED
  BY <1>1, <1>2

\* The handlers that begin with a look at the row.
LEMMA BeginCalm ==
    ASSUME IInv, NEW c \in Tabs, HandleChangePassword(c) \/ HandleSetupTOTP(c) \/ HandleConfirmTOTP(c) \/ HandleDisableTOTP(c)
    PROVE  IInv' /\ Calm
<1>1. PICK k \in {"password", "totp"}, at \in {"hash", "secret", "enable", "disable"} :
          tab' = [tab EXCEPT ![c] = [Idle EXCEPT !.at = at, !.kind = k, !.u = Me(c)]]
  BY DEF HandleChangePassword, HandleSetupTOTP, HandleConfirmTOTP, HandleDisableTOTP, Begin
<1>2. UNCHANGED <<user, sess, next, app, expired, redis, grace, cookie, acc>> /\ acc[c] # 0
  BY DEF HandleChangePassword, HandleSetupTOTP, HandleConfirmTOTP, HandleDisableTOTP, AuthRequired, rows, redis
<1>3. events' \in Nat
  BY Same DEF HandleChangePassword, HandleSetupTOTP, HandleConfirmTOTP, HandleDisableTOTP, Event, ClientTypes
<1>4. Me(c) \in Users \cup {None}
  BY <1>2, Same DEF ClientTypes, SessTypes, Session, Me
<1> DEFINE r == [Idle EXCEPT !.at = at, !.kind = k, !.u = Me(c)]
<1>5. r \in InFlight /\ r.at = at
  BY <1>4, IdleRequest DEF InFlight, Places
<1> HIDE DEF r
<1>6. ClientTypes'
  BY <1>2, <1>3, Same DEF ClientTypes
<1>7. tab' = [tab EXCEPT ![c] = r]
  BY <1>1 DEF r
<1> QED
  BY <1>2, <1>5, <1>6, <1>7, Same, Advances

LEMMA WriteCalm ==
    ASSUME IInv, NEW c \in Tabs, ChangePassword(c) \/ SetupTOTP(c) \/ ConfirmTOTP(c) \/ DisableTOTP(c)
    PROVE  IInv' /\ Calm
<1> DEFINE u == tab[c].u
<1>0. UNCHANGED <<next, expired, redis, grace, cookie, acc, events>> /\ UserTypes
  BY Same DEF ChangePassword, SetupTOTP, ConfirmTOTP, DisableTOTP, redis
<1>1. PICK r \in InFlight : r.at \in {"idle", "revokeAll"} /\ tab' = [tab EXCEPT ![c] = r]
  BY ZenonT(60), IdleRequest, RequestAt DEF ChangePassword, SetupTOTP, ConfirmTOTP, DisableTOTP, Finish, Go, Places
<1>2. Shrinks
  BY RevokedShrinks, Same DEF ChangePassword, SetupTOTP, ConfirmTOTP, DisableTOTP
<1>3. UserTypes'
  <2>1. CASE u \in Users
    <3>1. user[u] \in User
      BY <1>0, <2>1 DEF UserTypes
    <3>2. user' \in [Users -> User]
      <4>1. PICK w \in User : user' \in {user, [user EXCEPT ![u] = w]}
        <5>1. [user[u] EXCEPT !.pw = @ + 1] \in User /\ [user[u] EXCEPT !.totp = TRUE] \in User
              /\ [user[u] EXCEPT !.totp = FALSE, !.secret = 0] \in User
              /\ [user[u] EXCEPT !.cut = FALSE] \in User
              /\ [user[u] EXCEPT !.secret = user[u].made + 1, !.made = user[u].made + 1, !.totp = FALSE] \in User
          <6>1. user[u].pw + 1 \in Nat /\ user[u].made + 1 \in Nat /\ 0 \in Nat
            BY <3>1 DEF User
          <6>2. ASSUME NEW n \in Nat PROVE [user[u] EXCEPT !.pw = n] \in User
            BY <3>1 DEF User
          <6>3. ASSUME NEW b \in BOOLEAN PROVE [user[u] EXCEPT !.totp = b] \in User
            BY <3>1 DEF User
          <6>4. [user[u] EXCEPT !.totp = FALSE, !.secret = 0] \in User
            BY <3>1 DEF User
          <6>6. [user[u] EXCEPT !.cut = FALSE] \in User
            BY <3>1 DEF User
          <6>5. ASSUME NEW n \in Nat PROVE [user[u] EXCEPT !.secret = n, !.made = n, !.totp = FALSE] \in User
            BY <3>1 DEF User
          <6> QED
            BY <6>1, <6>2, <6>3, <6>4, <6>5, <6>6
        <5>2. CASE ChangePassword(c)
          BY <1>0, <2>1, <5>1, <5>2 DEF ChangePassword, UserTypes
        <5>3. CASE SetupTOTP(c)
          BY <1>0, <2>1, <5>1, <5>3 DEF SetupTOTP, UserTypes
        <5>4. CASE ConfirmTOTP(c)
          BY <1>0, <2>1, <5>1, <5>4 DEF ConfirmTOTP, UserTypes
        <5>5. CASE DisableTOTP(c)
          BY <1>0, <2>1, <5>1, <5>5 DEF DisableTOTP, UserTypes
        <5> QED
          BY <5>2, <5>3, <5>4, <5>5
      <4> QED
        BY <1>0, <4>1 DEF UserTypes
    <3>3. app' \in [Users -> Nat]
      <4>1. user[u].made + 1 \in Nat /\ app \in [Users -> Nat]
        BY <1>0, <3>1 DEF UserTypes, User
      <4>2. app' \in {app, [app EXCEPT ![u] = user[u].made + 1]}
        <5>1. CASE SetupTOTP(c)
          BY <5>1 DEF SetupTOTP
        <5>2. CASE ChangePassword(c)
          BY <5>2 DEF ChangePassword
        <5>3. CASE ConfirmTOTP(c)
          BY <5>3 DEF ConfirmTOTP
        <5>4. CASE DisableTOTP(c)
          BY <5>4 DEF DisableTOTP
        <5> QED
          BY <5>1, <5>2, <5>3, <5>4
      <4> QED
        BY <4>1, <4>2
    <3> QED
      BY <3>2, <3>3 DEF UserTypes
  <2>2. CASE u \notin Users
    BY <1>0, <2>2 DEF ChangePassword, SetupTOTP, ConfirmTOTP, DisableTOTP, UserTypes
  <2> QED
    BY <2>1, <2>2
<1> QED
  BY <1>0, <1>1, <1>2, <1>3, Same, Advances

\* Steps that are no tab's: what ends sessions or lets keys run out.
LEMMA NobodyMoves ==
    ASSUME IInv, tab' = tab, Shrinks, next' = next, UserTypes', RedisTypes', ClientTypes',
           \A t \in Tokens : grace'[t] \in {0, grace[t]}
    PROVE  IInv' /\ Calm
<1>1. Calm
  BY DEF Calm, Turning
<1>2. TypeOK'
  BY Same, TypesNext DEF SessTypes, TabTypes, Shrinks
<1>3. \A t \in Tokens : grace'[t] # 0 => sess'[grace'[t]].parent = t
  BY Same DEF Shrinks, RedisTypes, IInv, PairsMatch
<1>4. ASSUME NEW d \in Tabs PROVE Fit(tab[d])'
  <2>1. tab[d] \in InFlight /\ Fit(tab[d])
    BY Same DEF TabTypes, IInv, PairsMatch
  <2> QED
    BY <2>1 DEF Fit, InFlight, Shrinks
<1> QED
  BY <1>1, <1>2, <1>3, <1>4, CalmKeeps DEF PairsMatch

LEMMA OutsideCalm ==
    ASSUME IInv, Environment \/ \E c \in Tabs, t \in Tokens : HandleRevokeSession(c, t)
    PROVE  IInv' /\ Calm
<1>0. events' \in Nat /\ UNCHANGED <<next, app, cookie, acc, tab>>
  <2>1. UNCHANGED <<next, app, cookie, acc, tab>> /\ Event
    BY DEF Environment, DeleteUser, SetUserActive, Expire, HandleRevokeSession, rows
  <2> QED
    BY <2>1, Same DEF Event, ClientTypes
<1>1. ClientTypes'
  BY <1>0, Same DEF ClientTypes
<1>2. ASSUME NEW c \in Tabs, NEW t \in Tokens, HandleRevokeSession(c, t) PROVE IInv' /\ Calm
  <2>1. sess' = Revoked({t}) /\ UNCHANGED <<user, app, expired, redis, grace>>
    BY <1>2 DEF HandleRevokeSession, redis
  <2> QED
    BY <1>0, <1>1, <2>1, RevokedShrinks, Same, NobodyMoves
<1>3. ASSUME NEW u \in Users, NEW st \in {"active", "disabled"}, SetUserActive(u, st) PROVE IInv' /\ Calm
  <2>1. user' = [user EXCEPT ![u].st = st] /\ UNCHANGED <<sess, expired, redis, grace>>
    BY <1>3 DEF SetUserActive, redis
  <2>2. UserTypes'
    BY <1>0, <2>1, Same DEF UserTypes, User
  <2> QED
    BY <1>0, <1>1, <2>1, <2>2, Same, NobodyMoves
<1>4. ASSUME NEW u \in Users, DeleteUser(u) PROVE IInv' /\ Calm
  <2>1. user' = [user EXCEPT ![u].st = "gone"] /\ UNCHANGED <<expired, redis, grace>>
        /\ sess' = [t \in Tokens |-> IF sess[t].user = u THEN [sess[t] EXCEPT !.st = "gone"] ELSE sess[t]]
    BY <1>4 DEF DeleteUser, redis
  <2>2. UserTypes'
    BY <1>0, <2>1, Same DEF UserTypes, User
  <2>3. Shrinks
    BY <2>1, Same DEF SessTypes, Session, Shrinks
  <2> QED
    BY <1>0, <1>1, <2>1, <2>2, <2>3, Same, NobodyMoves
<1>5. ASSUME NEW t \in Tokens, Expire(t) PROVE IInv' /\ Calm
  <2>1. UNCHANGED <<user, sess>>
    BY <1>5 DEF Expire, rows
  <2>2. RedisTypes' /\ \A s \in Tokens : grace'[s] \in {0, grace[s]}
    BY <1>5, Same DEF Expire, redis, RedisTypes
  <2> QED
    BY <1>0, <1>1, <2>1, <2>2, Same, NobodyMoves
<1> QED
  BY <1>2, <1>3, <1>4, <1>5 DEF Environment

LEMMA AbortCalm ==
    ASSUME IInv, NEW c \in Tabs, Abort(c) \/ (IssueFullTokens(c) /\ user[tab[c].u].st = "gone")
    PROVE  IInv' /\ Calm
<1>1. tab' = [tab EXCEPT ![c] = Idle] /\ UNCHANGED <<sess, next, app, expired, redis, grace, cookie, acc>>
  BY DEF Abort, IssueFullTokens, Finish, redis
<1>4. UserTypes'
  <2>1. user' = user \/ user' = [user EXCEPT ![tab[c].u].cut = TRUE]
    BY DEF Abort, IssueFullTokens
  <2>2. CASE user' = user
    BY <1>1, <2>2, Same DEF UserTypes
  <2>3. CASE user' = [user EXCEPT ![tab[c].u].cut = TRUE]
    <3>1. user \in [Users -> User] /\ app \in [Users -> Nat]
      BY Same DEF UserTypes
    <3>2. ASSUME NEW w \in User PROVE [w EXCEPT !.cut = TRUE] \in User
      BY DEF User
    <3>3. user' \in [Users -> User]
      BY <2>3, <3>1, <3>2
    <3> QED
      BY <1>1, <3>1, <3>3 DEF UserTypes
  <2> QED
    BY <2>1, <2>2, <2>3
<1>2. events' \in Nat
  BY Same DEF Abort, IssueFullTokens, Event, ClientTypes
<1>3. ClientTypes'
  BY <1>1, <1>2, Same DEF ClientTypes
<1> QED
  BY <1>1, <1>3, <1>4, IdleRequest, Same, Advances

-----------------------------------------------------------------------------
(* The invariant and the refinement *)

LEMMA InitInv == Init => IInv
<1> SUFFICES ASSUME Init PROVE IInv
  OBVIOUS
<1>1. Issued = {} /\ 0 \notin Tokens
  BY SessionsAssumption DEF Init, Issued, Tokens
<1>2. TypeOK
  <2>1. UserTypes /\ RedisTypes /\ ClientTypes
    BY DEF Init, UserTypes, User, RedisTypes, ClientTypes
  <2>2. SessTypes
    BY DEF Init, SessTypes, Session
  <2>3. TabTypes
    BY IdleRequest DEF Init, TabTypes
  <2> QED
    BY <2>1, <2>2, <2>3, Types
<1>3. TokensMatch /\ OneLivePerLogin /\ OneSuccessor
  BY <1>1 DEF Init, TokensMatch, OneLivePerLogin, OneSuccessor
<1>4. TurnsMatch
  BY DEF Init, TurnsMatch, Turning, Idle
<1>5. PairsMatch
  BY IdleRequest DEF Init, PairsMatch
<1> QED
  BY <1>2, <1>3, <1>4, <1>5 DEF IInv

\* Every step keeps the invariant, and is a step of the lineages or a stutter.
LEMMA Step ==
    ASSUME IInv, [Next]_vars
    PROVE  IInv' /\ [Lineage!Next]_Phase
<1>1. CASE UNCHANGED vars
  <2>1. UNCHANGED <<user, app, sess, next, expired, redis, grace, cookie, acc, tab, events>>
    BY <1>1 DEF vars, rows, redis
  <2> QED
    BY <2>1, Same, NobodyMoves, CalmCloses DEF Lineage!Next
<1>2. CASE Environment
  BY <1>2, OutsideCalm, CalmCloses DEF Lineage!Next
<1>3. ASSUME NEW c \in Tabs, Request(c) PROVE IInv' /\ [Lineage!Next]_Phase
  BY <1>3, SignInCalm, RefreshCalm, LogoutCalm, BeginCalm, OutsideCalm, CalmCloses DEF Request, Lineage!Next
<1>4. ASSUME NEW c \in Tabs, Serve(c) PROVE IInv' /\ [Lineage!Next]_Phase
  <2>1. CASE IssueFullTokens(c)
    BY <2>1, AbortCalm, IssueGrants, CalmCloses DEF Lineage!Next
  <2>2. CASE ClaimRotation(c)
    BY <2>2, ClaimWins, ClaimLoses, CalmCloses DEF Lineage!Next
  <2>3. CASE ~IssueFullTokens(c) /\ ~ClaimRotation(c)
    <3>1. IInv' /\ Calm
      BY <1>4, <2>3, AnswerCalm, MarkCalm, PublishCalm, PollCalm, LogoutCalm, WriteCalm DEF Serve
    <3> QED
      BY <3>1, CalmCloses DEF Lineage!Next
  <2> QED
    BY <2>1, <2>2, <2>3
<1>5. ASSUME NEW c \in Tabs, Abort(c) PROVE IInv' /\ [Lineage!Next]_Phase
  BY <1>5, AbortCalm, CalmCloses DEF Lineage!Next
<1> QED
  BY <1>1, <1>2, <1>3, <1>4, <1>5 DEF Next

\* Tokens, turns and pairs match in every state.
THEOREM Inductive == Spec => []IInv
  BY InitInv, Step, PTL DEF Spec

\* The types of the rows, the keys and the requests.
THEOREM TypeCorrect == Spec => []TypeOK
<1>1. IInv => TypeOK
  BY DEF IInv
<1> QED
  BY <1>1, Inductive, PTL

\* Refreshes that race with one token are answered with its one successor,
\* whatever Redis loses and whoever reloads (RefreshToken's claim and grace key).
THEOREM RacersAlwaysAgree == Spec => []RacersAgree
<1>1. IInv => RacersAgree
  <2> SUFFICES ASSUME IInv PROVE RacersAgree
    OBVIOUS
  <2>1. \A c \in Tabs : tab[c].at = "answer" /\ tab[c].tok # 0 => sess[tab[c].pair].parent = tab[c].tok
    BY DEF IInv, PairsMatch, Fit
  <2> QED
    BY <2>1 DEF IInv, OneSuccessor, RacersAgree
<1> QED
  BY <1>1, Inductive, PTL

\* A login has at most one usable refresh token.
THEOREM LoginLivesOnce == Spec => []OneLivePerLogin
<1>1. IInv => OneLivePerLogin
  BY DEF IInv
<1> QED
  BY <1>1, Inductive, PTL

\* The sessions of every login implement LoginLineage: a login that was closed by a
\* logout, a revocation, a lost claim or the end of its account never lives again.
THEOREM Implements == Spec => LineageHolds
<1>1. Init => Lineage!Init
  <2> SUFFICES ASSUME Init PROVE Phase = [r \in Tokens |-> "unused"]
    BY DEF Lineage!Init
  <2>1. \A r \in Tokens : sess[r].root = 0 /\ r # 0
    BY DEF Init, Tokens
  <2>2. \A r \in Tokens : Phase[r] = "unused"
    BY <2>1, Phases
  <2> QED
    BY <2>2, PhaseDomain
<1>2. IInv /\ [Next]_vars => [Lineage!Next]_Phase
  BY Step
<1> QED
  BY <1>1, <1>2, Inductive, PTL DEF Spec, LineageHolds, Lineage!Spec

-----------------------------------------------------------------------------
(* Passwords *)

\* Requests go on; whoever is to revoke sessions is not among them.
TabsGoOn ==
    \A c \in Tabs : tab[c].at = "revokeAll" => tab'[c].at = "revokeAll" /\ tab'[c].u = tab[c].u

\* Sessions end and stay what they were.
SessionsEnd ==
    \A t \in Tokens :
        /\ sess'[t].st = "live" => sess[t].st = "live"
        /\ sess'[t].user = sess[t].user /\ sess'[t].pw = sess[t].pw /\ sess'[t].asof = sess[t].asof

SamePasswords == \A u \in Users : user'[u].pw = user[u].pw /\ user'[u].cut = user[u].cut

\* A step that neither issues a session nor changes a password keeps old sessions known.
LEMMA PasswordFrame ==
    ASSUME IInv, PasswordEndsSessions, TabsGoOn, SessionsEnd, SamePasswords
    PROVE  PasswordEndsSessions'
<1>2. ASSUME NEW t \in Tokens, sess'[t].st = "live", sess'[t].pw # user'[sess'[t].user].pw
      PROVE  \/ sess'[t].pw # sess'[t].asof \/ user'[sess'[t].user].cut
             \/ \E c \in Tabs : tab'[c].at = "revokeAll" /\ tab'[c].u = sess'[t].user
  <2>1. sess[t].st = "live" /\ sess'[t].user = sess[t].user /\ sess'[t].pw = sess[t].pw /\ sess'[t].asof = sess[t].asof
    BY <1>2 DEF SessionsEnd
  <2>2. sess[t].user \in Users
    BY <2>1 DEF IInv, TokensMatch
  <2>3. user'[sess[t].user].pw = user[sess[t].user].pw /\ user'[sess[t].user].cut = user[sess[t].user].cut
    BY <2>2 DEF SamePasswords
  <2> QED
    BY <1>2, <2>1, <2>3 DEF PasswordEndsSessions, TabsGoOn
<1> QED
  BY <1>2 DEF PasswordEndsSessions

\* One request moves on to r.
LEMMA OneGoesOn ==
    ASSUME IInv, NEW c \in Tabs, tab[c].at # "revokeAll", NEW r, tab' = [tab EXCEPT ![c] = r]
    PROVE  TabsGoOn
<1>1. tab'[c] = r /\ \A d \in Tabs \ {c} : tab'[d] = tab[d]
  BY Same DEF TabTypes
<1> QED
  BY <1>1 DEF TabsGoOn

\* ... to its end, or to another place.
LEMMA FinishGoesOn ==
    ASSUME IInv, NEW c \in Tabs, tab[c].at # "revokeAll", Finish(c)
    PROVE  TabsGoOn
  BY OneGoesOn DEF Finish

LEMMA PlaceGoesOn ==
    ASSUME IInv, NEW c \in Tabs, tab[c].at # "revokeAll", NEW at, Go(c, at)
    PROVE  TabsGoOn
<1>1. \A d \in Tabs \ {c} : tab'[d] = tab[d]
  BY Same DEF TabTypes, Go
<1> QED
  BY <1>1 DEF TabsGoOn

LEMMA Still ==
    ASSUME IInv
    PROVE  /\ sess' = sess => SessionsEnd
           /\ user' = user => SamePasswords
           /\ tab' = tab => TabsGoOn
  BY DEF SessionsEnd, SamePasswords, TabsGoOn

\* A revocation.
LEMMA RevokedEnds == ASSUME IInv, NEW S, sess' = Revoked(S) PROVE SessionsEnd
<1>1. sess \in [Tokens -> Session]
  BY Types DEF IInv, SessTypes
<1> QED
  BY <1>1 DEF Revoked, SessionsEnd, Session

\* Sign-in, refresh, logout and the start of every other request.
LEMMA RequestGoesOn ==
    ASSUME IInv, PasswordEndsSessions, NEW c \in Tabs, Request(c)
    PROVE  PasswordEndsSessions'
<1>1. CASE (\E u \in Users : HandleLogin(c, u)) \/ HandleVerifyTOTP(c) \/ HandleRefresh(c) \/ HandleLogout(c)
  <2>1. tab[c].at # "revokeAll" /\ UNCHANGED <<user, sess>>
    BY <1>1 DEF HandleLogin, HandleVerifyTOTP, HandleRefresh, HandleLogout, rows
  <2>2. \A d \in Tabs \ {c} : tab'[d] = tab[d]
    BY <1>1, Same DEF HandleLogin, Login, HandleVerifyTOTP, VerifyTOTP, HandleRefresh, RefreshToken, HandleLogout, Logout, TabTypes
  <2> QED
    BY <2>1, <2>2, Still, PasswordFrame DEF TabsGoOn
<1>2. CASE PartialExpires(c)
  <2>1. tab[c].at # "revokeAll" /\ Finish(c) /\ UNCHANGED <<user, sess>>
    BY <1>2 DEF PartialExpires, rows
  <2> QED
    BY <2>1, FinishGoesOn, Still, PasswordFrame
<1>3. ASSUME NEW t \in Tokens, HandleRevokeSession(c, t) PROVE PasswordEndsSessions'
  <2>1. tab' = tab /\ user' = user /\ sess' = Revoked({t})
    BY <1>3 DEF HandleRevokeSession
  <2> QED
    BY <2>1, RevokedEnds, Still, PasswordFrame
<1>4. CASE HandleChangePassword(c) \/ HandleSetupTOTP(c) \/ HandleConfirmTOTP(c) \/ HandleDisableTOTP(c)
  <2>1. UNCHANGED <<user, sess>>
    BY <1>4 DEF HandleChangePassword, HandleSetupTOTP, HandleConfirmTOTP, HandleDisableTOTP, rows
  <2>2. tab[c].at # "revokeAll" /\ \A d \in Tabs \ {c} : tab'[d] = tab[d]
    BY <1>4, Same DEF HandleChangePassword, HandleSetupTOTP, HandleConfirmTOTP, HandleDisableTOTP, Begin, TabTypes
  <2> QED
    BY <2>1, <2>2, Still, PasswordFrame DEF TabsGoOn
<1> QED
  BY <1>1, <1>2, <1>3, <1>4 DEF Request

\* The steps of a request that write neither a password nor a new session.
LEMMA ServeGoesOn ==
    ASSUME IInv, PasswordEndsSessions, NEW c \in Tabs, Serve(c), ~IssueFullTokens(c), ~ChangePassword(c)
    PROVE  PasswordEndsSessions'
<1>1. CASE SetRefreshCookie(c) \/ ClearRefreshCookie(c)
  <2>1. tab[c].at # "revokeAll" /\ Finish(c) /\ UNCHANGED <<user, sess>>
    BY <1>1 DEF SetRefreshCookie, ClearRefreshCookie, rows
  <2> QED
    BY <2>1, FinishGoesOn, Still, PasswordFrame
<1>2. CASE ClaimRotation(c)
  <2>1. tab[c].at = "claim" /\ user' = user /\ (Go(c, "mark") \/ Go(c, "poll")) /\ (sess' = sess \/ sess' = Revoked({tab[c].tok}))
    BY <1>2 DEF ClaimRotation
  <2>2. TabsGoOn
    BY <2>1, PlaceGoesOn
  <2> QED
    BY <2>1, <2>2, RevokedEnds, Still, PasswordFrame
<1>3. CASE MarkRotating(c) \/ PublishGrace(c)
  <2>1. UNCHANGED <<user, sess>> /\ ((tab[c].at = "mark" /\ Go(c, "issue")) \/ (tab[c].at = "publish" /\ Go(c, "answer")))
    BY <1>3 DEF MarkRotating, PublishGrace, rows
  <2>2. TabsGoOn
    BY <2>1, PlaceGoesOn
  <2> QED
    BY <2>1, <2>2, Still, PasswordFrame
<1>4. CASE RotatedResult(c) \/ RotatingExists(c)
  <2>1. UNCHANGED <<user, sess>> /\ tab[c].at # "revokeAll"
    BY <1>4 DEF RotatedResult, RotatingExists, rows
  <2>2. \A d \in Tabs \ {c} : tab'[d] = tab[d]
    BY <1>4, Same DEF RotatedResult, RotatingExists, Go, TabTypes
  <2> QED
    BY <2>1, <2>2, Still, PasswordFrame DEF TabsGoOn
<1>5. CASE RevokeRefresh(c)
  <2>1. tab[c].at = "revoke" /\ Go(c, "clear") /\ user' = user /\ sess' = Revoked({tab[c].tok})
    BY <1>5 DEF RevokeRefresh
  <2>2. TabsGoOn
    BY <2>1, PlaceGoesOn
  <2> QED
    BY <2>1, <2>2, RevokedEnds, Still, PasswordFrame
<1>6. CASE SetupTOTP(c) \/ ConfirmTOTP(c) \/ DisableTOTP(c)
  <2>1. tab[c].at # "revokeAll" /\ Finish(c) /\ sess' = sess
    BY <1>6 DEF SetupTOTP, ConfirmTOTP, DisableTOTP
  <2>2. user \in [Users -> User]
    BY Same DEF UserTypes
  <2>3. SamePasswords
    <3>1. CASE SetupTOTP(c)
      BY <2>2, <3>1 DEF SetupTOTP, SamePasswords, User
    <3>2. CASE ConfirmTOTP(c) \/ DisableTOTP(c)
      BY <2>2, <3>2 DEF ConfirmTOTP, DisableTOTP, SamePasswords, User
    <3> QED
      BY <1>6, <3>1, <3>2
  <2> QED
    BY <2>1, <2>3, FinishGoesOn, Still, PasswordFrame
<1> QED
  BY <1>1, <1>2, <1>3, <1>4, <1>5, <1>6 DEF Serve

\* A new session is on the password as it is, or late.
LEMMA IssueIsDated ==
    ASSUME IInv, PasswordEndsSessions, NEW c \in Tabs, IssueFullTokens(c)
    PROVE  PasswordEndsSessions'
<1>1. tab[c].at = "issue" /\ user' = user
  BY DEF IssueFullTokens
<1>2. CASE user[tab[c].u].st = "gone"
  <2>1. Finish(c) /\ sess' = sess
    BY <1>2 DEF IssueFullTokens
  <2> QED
    BY <1>1, <2>1, FinishGoesOn, Still, PasswordFrame
<1>3. CASE user[tab[c].u].st # "gone"
  <2> DEFINE N == [st |-> "live", user |-> tab[c].u, parent |-> tab[c].tok, pw |-> tab[c].read, asof |-> user[tab[c].u].pw,
                    root |-> IF tab[c].tok = 0 THEN next ELSE sess[tab[c].tok].root]
  <2>1. sess' = [sess EXCEPT ![next] = N] /\ next \in Tokens
    BY <1>3 DEF IssueFullTokens
  <2>2. sess'[next] = N /\ \A t \in Tokens \ {next} : sess'[t] = sess[t]
    BY <2>1, Same DEF SessTypes
  <2>3. \A d \in Tabs \ {c} : tab'[d] = tab[d]
    BY <1>3, Same DEF IssueFullTokens, TabTypes
  <2>4. TabsGoOn
    BY <1>1, <2>3 DEF TabsGoOn
  <2>5. N.user = tab[c].u /\ N.pw = tab[c].read /\ N.asof = user[tab[c].u].pw
    OBVIOUS
  <2> HIDE DEF N
  <2>6. ASSUME NEW t \in Tokens, sess'[t].st = "live", sess'[t].pw # user'[sess'[t].user].pw
        PROVE  \/ sess'[t].pw # sess'[t].asof \/ user'[sess'[t].user].cut
               \/ \E d \in Tabs : tab'[d].at = "revokeAll" /\ tab'[d].u = sess'[t].user
    <3>1. CASE t = next
      BY <1>1, <2>2, <2>5, <2>6, <3>1
    <3>2. CASE t # next
      BY <1>1, <2>2, <2>4, <2>6, <3>2 DEF PasswordEndsSessions, TabsGoOn
    <3> QED
      BY <3>1, <3>2
  <2> QED
    BY <2>6 DEF PasswordEndsSessions
<1> QED
  BY <1>2, <1>3

\* The hash makes every session of the account old, and the revocation ends them all.
LEMMA ChangeRevokes ==
    ASSUME IInv, PasswordEndsSessions, NEW c \in Tabs, ChangePassword(c)
    PROVE  PasswordEndsSessions'
<1>1. user \in [Users -> User] /\ tab \in [Tabs -> InFlight] /\ sess \in [Tokens -> Session]
  BY Same DEF UserTypes, TabTypes, SessTypes
<1>2. CASE tab[c].at = "hash"
  <2>1. Go(c, "revokeAll") /\ user' = [user EXCEPT ![tab[c].u].pw = @ + 1] /\ sess' = sess
    BY <1>2 DEF ChangePassword
  <2>2. TabsGoOn /\ tab'[c].at = "revokeAll" /\ tab'[c].u = tab[c].u
    <3>1. TabsGoOn
      BY <1>2, <2>1, PlaceGoesOn
    <3> QED
      BY <1>1, <2>1, <3>1 DEF Go, InFlight
  <2>3. \A u \in Users : u # tab[c].u => user'[u] = user[u]
    BY <1>1, <2>1
  <2>5. ASSUME NEW t \in Tokens, sess'[t].st = "live", sess'[t].pw # user'[sess'[t].user].pw
        PROVE  \/ sess'[t].pw # sess'[t].asof \/ user'[sess'[t].user].cut
               \/ \E d \in Tabs : tab'[d].at = "revokeAll" /\ tab'[d].u = sess'[t].user
    <3>1. CASE sess[t].user = tab[c].u
      BY <2>1, <2>2, <3>1
    <3>2. CASE sess[t].user # tab[c].u
      <4>1. user'[sess[t].user] = user[sess[t].user]
        BY <2>1, <2>3, <2>5, <3>2 DEF IInv, TokensMatch
      <4> QED
        BY <2>1, <2>2, <2>5, <4>1 DEF PasswordEndsSessions, TabsGoOn
    <3> QED
      BY <3>1, <3>2
  <2> QED
    BY <2>5 DEF PasswordEndsSessions
<1>3. CASE tab[c].at = "revokeAll"
  <2>1. /\ tab' = [tab EXCEPT ![c] = Idle] /\ user' = [user EXCEPT ![tab[c].u].cut = FALSE]
        /\ sess' = Revoked({t \in Tokens : sess[t].user = tab[c].u})
    BY <1>3 DEF ChangePassword, Finish
  <2>2. tab'[c].at = "idle" /\ \A d \in Tabs \ {c} : tab'[d] = tab[d]
    BY <1>1, <2>1 DEF Idle
  <2>3. SessionsEnd /\ \A t \in Tokens : sess[t].user = tab[c].u => sess'[t].st # "live"
    BY <2>1, RevokedEnds, RevokedShrinks
  <2>5. ASSUME NEW t \in Tokens, sess'[t].st = "live", sess'[t].pw # user'[sess'[t].user].pw
        PROVE  \/ sess'[t].pw # sess'[t].asof \/ user'[sess'[t].user].cut
               \/ \E d \in Tabs : tab'[d].at = "revokeAll" /\ tab'[d].u = sess'[t].user
    <3>1. /\ sess[t].st = "live" /\ sess'[t].user = sess[t].user /\ sess'[t].pw = sess[t].pw /\ sess'[t].asof = sess[t].asof
          /\ sess[t].user # tab[c].u /\ sess[t].user \in Users
      BY <2>3, <2>5 DEF SessionsEnd, IInv, TokensMatch
    <3>2. user'[sess[t].user] = user[sess[t].user]
      BY <1>1, <2>1, <3>1
    <3>3. \A d \in Tabs : tab[d].at = "revokeAll" /\ tab[d].u = sess[t].user => tab'[d] = tab[d]
      BY <2>2, <3>1
    <3> QED
      BY <2>5, <3>1, <3>2, <3>3 DEF PasswordEndsSessions
  <2> QED
    BY <2>5 DEF PasswordEndsSessions
<1> QED
  BY <1>2, <1>3 DEF ChangePassword

\* A reload before the revocation is remembered.
LEMMA AbortIsKnown ==
    ASSUME IInv, PasswordEndsSessions, NEW c \in Tabs, Abort(c)
    PROVE  PasswordEndsSessions'
<1>1. tab' = [tab EXCEPT ![c] = Idle] /\ sess' = sess
  BY DEF Abort, Finish
<1>2. CASE tab[c].at # "revokeAll"
  <2>1. user' = user /\ Finish(c)
    BY <1>2 DEF Abort
  <2> QED
    BY <1>1, <1>2, <2>1, FinishGoesOn, Still, PasswordFrame
<1>3. CASE tab[c].at = "revokeAll"
  <2>1. user' = [user EXCEPT ![tab[c].u].cut = TRUE] /\ user \in [Users -> User]
    BY <1>3, Same DEF Abort, UserTypes
  <2>2. tab'[c].at = "idle" /\ \A d \in Tabs \ {c} : tab'[d] = tab[d]
    BY <1>1, Same DEF TabTypes, Idle
  <2>4. ASSUME NEW t \in Tokens, sess'[t].st = "live", sess'[t].pw # user'[sess'[t].user].pw
        PROVE  \/ sess'[t].pw # sess'[t].asof \/ user'[sess'[t].user].cut
               \/ \E d \in Tabs : tab'[d].at = "revokeAll" /\ tab'[d].u = sess'[t].user
    <3>1. sess[t].user \in Users
      BY <1>1, <2>4 DEF IInv, TokensMatch
    <3>2. user'[sess[t].user].pw = user[sess[t].user].pw /\ (user[sess[t].user].cut => user'[sess[t].user].cut)
      BY <2>1, <3>1 DEF User
    <3>3. CASE sess[t].user = tab[c].u
      <4>1. user'[sess[t].user].cut = TRUE
        BY <2>1, <3>1, <3>3 DEF User
      <4> QED
        BY <1>1, <4>1
    <3>4. CASE sess[t].user # tab[c].u
      <4>1. \A d \in Tabs : tab[d].at = "revokeAll" /\ tab[d].u = sess[t].user => tab'[d] = tab[d]
        BY <2>2, <3>4
      <4> QED
        BY <1>1, <2>4, <3>2, <4>1 DEF PasswordEndsSessions
    <3> QED
      BY <3>3, <3>4
  <2> QED
    BY <2>4 DEF PasswordEndsSessions
<1> QED
  BY <1>2, <1>3

\* Administrators and lifetimes.
LEMMA OutsideGoesOn ==
    ASSUME IInv, PasswordEndsSessions, Environment
    PROVE  PasswordEndsSessions'
<1>1. user \in [Users -> User] /\ sess \in [Tokens -> Session]
  BY Same DEF UserTypes, SessTypes
<1>2. tab' = tab
  BY DEF Environment, DeleteUser, SetUserActive, Expire
<1>3. SamePasswords
  <2>1. ASSUME NEW u \in Users, NEW st, user' = [user EXCEPT ![u].st = st] PROVE SamePasswords
    BY <1>1, <2>1 DEF SamePasswords, User
  <2> QED
    BY <2>1, Still DEF Environment, DeleteUser, SetUserActive, Expire, rows
<1>4. SessionsEnd
  <2>1. ASSUME NEW u \in Users, DeleteUser(u) PROVE SessionsEnd
    BY <1>1, <2>1 DEF DeleteUser, SessionsEnd, Session
  <2> QED
    BY <2>1, Still DEF Environment, SetUserActive, Expire, rows
<1> QED
  BY <1>2, <1>3, <1>4, Still, PasswordFrame

\* A session that was issued on an older password is about to be revoked, or came late,
\* or is left from a change whose revocation failed, for any number of overlapping
\* changes, sign-ins and refreshes (ChangePassword).
THEOREM PasswordEnds == Spec => []PasswordEndsSessions
<1>1. Init => PasswordEndsSessions
  BY DEF Init, PasswordEndsSessions
<1>2. IInv /\ PasswordEndsSessions /\ [Next]_vars => PasswordEndsSessions'
  <2> SUFFICES ASSUME IInv, PasswordEndsSessions, [Next]_vars PROVE PasswordEndsSessions'
    OBVIOUS
  <2>1. CASE UNCHANGED vars
    BY <2>1, Still, PasswordFrame DEF vars, rows
  <2>2. ASSUME NEW c \in Tabs, Serve(c) PROVE PasswordEndsSessions'
    BY <2>2, ServeGoesOn, IssueIsDated, ChangeRevokes
  <2>3. ASSUME NEW c \in Tabs, Request(c) \/ Abort(c) PROVE PasswordEndsSessions'
    BY <2>3, RequestGoesOn, AbortIsKnown
  <2>4. CASE Environment
    BY <2>4, OutsideGoesOn
  <2> QED
    BY <2>1, <2>2, <2>3, <2>4 DEF Next
<1> QED
  BY <1>1, <1>2, Inductive, PTL DEF Spec

=============================================================================
