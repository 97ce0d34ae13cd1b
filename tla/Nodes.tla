-------------------------------- MODULE Nodes --------------------------------
(***************************************************************************)
(* How the panel comes to trust a node: enrollment tokens, the panel's     *)
(* certificate authority, certificate requests, heartbeats, and the pool   *)
(* of clients through which the panel calls the daemons.                   *)
(*                                                                         *)
(* One daemon is followed.  A step of a handler is one SQL statement, or   *)
(* the statements that run under a row lock.  A request that the daemon    *)
(* gives up on (30 s) is still served.  A CSR carries a fresh key, and its *)
(* certificate (its serial) is named by the key.  No server is placed on   *)
(* a node here: servers.node_id would keep the node from being deleted.    *)
(***************************************************************************)
EXTENDS Naturals, FiniteSets

CONSTANTS
    MaxNodes,       \* node rows created (bound)
    MaxCsrs,        \* certificate requests sent (bound)
    MaxAttempts,    \* PKI_MAX_ATTEMPTS of a daemon start
    MaxFaults,      \* requests given up, crashes, restarts, ageing, administrators' acts (bound)
    Workers,        \* panel requests in flight
    Statuses,       \* what an administrator sets a node to
    Origins         \* how the installation begins

ASSUME NodesAssumption ==
    /\ {MaxNodes, MaxCsrs, MaxAttempts, MaxFaults} \subseteq Nat /\ MaxNodes > 0 /\ IsFiniteSet(Workers)
    /\ Statuses \subseteq {"online", "offline", "draining"}
    /\ Origins \subseteq {"fresh", "noca", "restored"}

None == 0
Foreign == 1        \* the CA, and a certificate, of the panel before its database was restored
Rows == 1 .. MaxNodes
Keys == 2 .. MaxCsrs + 1
CAs == 2 .. Cardinality(Workers) + 2

VARIABLES
    enr,        \* the enrollment token: open, expired, or used
    node,       \* nodes
    cas,        \* CAs generated
    setting,    \* app_settings: daemon_mtls_ca, and the CA that signed daemon_mtls_panel_cert
    issued,     \* certificates: whose, and by which CA
    mat,        \* ClientPool: the TLS material
    pool,       \* ClientPool: the clients
    req,        \* requests in flight
    dmn,        \* the daemon
    files,      \* its PKI directory
    faults

vars == <<enr, node, cas, setting, issued, mat, pool, req, dmn, files, faults>>

NoRow == [st |-> "none", serial |-> None, mtls |-> FALSE, enrolled |-> FALSE]
NoCert == [node |-> 0, ca |-> None]
NoFiles == [ca |-> None, cert |-> None, key |-> None, old |-> FALSE]
Idle == [at |-> "idle", n |-> 0, key |-> None, ca |-> None, status |-> "online", mtls |-> FALSE]

\* A first installation, one whose first boot could not store a CA, or a database
\* restored from before mTLS beside a daemon that has its certificate.
Init ==
    \E origin \in Origins :
        /\ enr = "open"
        /\ node = [n \in Rows |-> IF origin = "restored" /\ n = 1 THEN [NoRow EXCEPT !.st = "online"] ELSE NoRow]
        /\ cas = IF origin = "noca" THEN {} ELSE {2}
        /\ setting = IF origin = "noca" THEN [ca |-> None, panel |-> None] ELSE [ca |-> 2, panel |-> 2]
        /\ mat = IF origin = "noca" THEN None ELSE 2
        /\ issued = [k \in {Foreign} \cup Keys |-> IF k = Foreign THEN [node |-> 1, ca |-> Foreign] ELSE NoCert]
        /\ pool = [n \in Rows |-> "none"]
        /\ req = [w \in Workers |-> Idle]
        /\ dmn = [at |-> IF origin = "restored" THEN "down" ELSE "new", node |-> IF origin = "restored" THEN 1 ELSE 0,
                  key |-> None, tries |-> 0, serve |-> None]
        /\ files = IF origin = "restored" THEN [ca |-> Foreign, cert |-> Foreign, key |-> Foreign, old |-> FALSE] ELSE NoFiles
        /\ faults = 0

-----------------------------------------------------------------------------
Begin(w, r) == req[w].at = "idle" /\ req' = [req EXCEPT ![w] = r]
Go(w, r) == req' = [req EXCEPT ![w] = r]
Finish(w) == Go(w, Idle)
Fault == faults < MaxFaults /\ faults' = faults + 1

Exists(n) == n # 0 /\ node[n].st \notin {"none", "gone"}

\* The token belongs to a node that is still there, and to the node in the path.
DaemonNodeAuth(n) == Exists(n)

InsertNode(n, enrolled) ==
    /\ node[n].st = "none" /\ \A m \in 1 .. n - 1 : node[m].st # "none"
    /\ node' = [node EXCEPT ![n] = [NoRow EXCEPT !.st = "offline", !.enrolled = enrolled]]

-----------------------------------------------------------------------------
(* Enrollment *)

\* The installer redeems the token, again after it gave up on a first try.
SendRedeem(w) ==
    /\ dmn.at = "new"
    /\ Begin(w, [Idle EXCEPT !.at = "redeem"])
    /\ dmn' = [dmn EXCEPT !.at = "enrolling"]
    /\ UNCHANGED <<enr, node, cas, setting, issued, mat, pool, files, faults>>

\* Mutant: the token row is read without a lock.
RedeemLookFree(w) ==
    /\ req[w].at = "redeem"
    /\ Go(w, IF enr = "open" THEN [req[w] EXCEPT !.at = "redeemed"] ELSE Idle)
    /\ UNCHANGED <<enr, node, cas, setting, issued, mat, pool, dmn, files, faults>>

\* SELECT ... FOR UPDATE: used and expired tokens are refused.
RedeemLook(w) ==
    /\ req[w].at = "redeem" /\ \A v \in Workers : req[v].at # "redeemed"
    /\ Go(w, IF enr = "open" THEN [req[w] EXCEPT !.at = "redeemed"] ELSE Idle)
    /\ UNCHANGED <<enr, node, cas, setting, issued, mat, pool, dmn, files, faults>>

\* The node row and the mark on the token, then the answer, if it is still awaited.
Redeem(w) ==
    /\ req[w].at = "redeemed"
    /\ enr' = "used"
    /\ \E n \in Rows :
        /\ InsertNode(n, TRUE)
        /\ dmn' = IF dmn.at = "enrolling" THEN [dmn EXCEPT !.at = "down", !.node = n] ELSE dmn
    /\ Finish(w)
    /\ UNCHANGED <<cas, setting, issued, mat, pool, files, faults>>

\* A refused or lost answer: the installer is back at its prompt.
RedeemFails ==
    /\ dmn.at = "enrolling"
    /\ Fault \/ ((\A w \in Workers : req[w].at \notin {"redeem", "redeemed"}) /\ UNCHANGED faults)
    /\ dmn' = [dmn EXCEPT !.at = "new"]
    /\ UNCHANGED <<enr, node, cas, setting, issued, mat, pool, req, files>>

\* The fifteen minutes pass (a transaction that has the row keeps what it read).
EnrollmentExpires ==
    /\ enr = "open" /\ dmn.at \in {"new", "enrolling"} /\ \A w \in Workers : req[w].at # "redeemed"
    /\ enr' = "expired"
    /\ UNCHANGED <<node, cas, setting, issued, mat, pool, req, dmn, files, faults>>

HandleRedeem(w) == RedeemLook(w) \/ Redeem(w)

\* A token with fifteen minutes to live, in place of one that is no longer good.
Create ==
    /\ enr = "expired" /\ dmn.at = "new" /\ enr' = "open"
    /\ UNCHANGED <<node, cas, setting, issued, mat, pool, req, dmn, files, faults>>

HandleCreateEnrollment == Create
NodeEnrollCmd == Create

\* A node with a static token, which the administrator puts into the daemon's file.
HandleRegisterNode(n) ==
    /\ dmn.at = "new" /\ InsertNode(n, FALSE)
    /\ dmn' = [dmn EXCEPT !.at = "down", !.node = n]
    /\ UNCHANGED <<enr, cas, setting, issued, mat, pool, req, files, faults>>

-----------------------------------------------------------------------------
(* The panel's certificate authority *)

GenerateCA(c) == c \in CAs \ cas /\ cas' = cas \cup {c}

SetIfAbsent(ca) == setting' = IF setting.ca = None THEN [setting EXCEPT !.ca = ca] ELSE setting

\* Mutant: the pair just generated instead of the one stored.
LoadOrCreatePairFresh(w) ==
    \/ /\ req[w].at = "csr" /\ setting.ca # None
       /\ Go(w, [req[w] EXCEPT !.at = "sign", !.ca = setting.ca]) /\ UNCHANGED <<cas, setting>>
    \/ /\ req[w].at = "csr" /\ setting.ca = None
       /\ \E c \in CAs : GenerateCA(c) /\ Go(w, [req[w] EXCEPT !.at = "store", !.ca = c])
       /\ UNCHANGED setting
    \/ /\ req[w].at = "store" /\ SetIfAbsent(req[w].ca)
       /\ Go(w, [req[w] EXCEPT !.at = "sign"]) /\ UNCHANGED cas

\* The stored pair; else a fresh one is inserted if absent, and the row read again.
LoadOrCreatePair(w) ==
    \/ /\ req[w].at \in {"csr", "reread"} /\ setting.ca # None
       /\ Go(w, [req[w] EXCEPT !.at = "sign", !.ca = setting.ca]) /\ UNCHANGED <<cas, setting>>
    \/ /\ req[w].at = "csr" /\ setting.ca = None
       /\ \E c \in CAs : GenerateCA(c) /\ Go(w, [req[w] EXCEPT !.at = "store", !.ca = c])
       /\ UNCHANGED setting
    \/ /\ req[w].at = "store" /\ SetIfAbsent(req[w].ca)
       /\ Go(w, [req[w] EXCEPT !.at = "reread"]) /\ UNCHANGED cas

MTLSCA(w) ==
    LoadOrCreatePair(w) /\ UNCHANGED <<enr, node, issued, mat, pool, dmn, files, faults>>

\* The panel's own certificate: kept while it chains to the CA, reissued otherwise.
UsablePanelCert(s, ca) == s.panel = ca
PanelClientCert(s, ca) == IF UsablePanelCert(s, ca) THEN s ELSE [s EXCEPT !.panel = ca]

SetTLSMaterial(ca) == mat' = ca

\* A panel start: empty pool, and the material unless the database did not answer.
PanelRestarts(ok) ==
    /\ Fault
    /\ req' = [w \in Workers |-> Idle]
    /\ pool' = [n \in Rows |-> "none"]
    /\ IF ok THEN \E ca \in IF setting.ca = None THEN CAs \ cas ELSE {setting.ca} :
                    /\ cas' = cas \cup {ca}
                    /\ setting' = PanelClientCert([setting EXCEPT !.ca = ca], ca)
                    /\ SetTLSMaterial(ca)
             ELSE SetTLSMaterial(None) /\ UNCHANGED <<cas, setting>>
    /\ UNCHANGED <<enr, node, issued, dmn, files>>

-----------------------------------------------------------------------------
(* Certificates *)

\* load_pki: a complete set for this node, signed by the CA beside it, with thirty
\* days to go.
ValidFiles ==
    /\ files.cert # None /\ files.cert = files.key /\ ~files.old
    /\ issued[files.cert] = [node |-> dmn.node, ca |-> files.ca]

CertAges ==
    /\ Fault /\ files.cert # None /\ ~files.old /\ files' = [files EXCEPT !.old = TRUE]
    /\ UNCHANGED <<enr, node, cas, setting, issued, mat, pool, req, dmn>>

DaemonStart ==
    /\ dmn.at = "down" /\ dmn.node # 0
    /\ dmn' = IF ValidFiles THEN [dmn EXCEPT !.at = "up", !.serve = files.cert]
              ELSE [dmn EXCEPT !.at = "bootstrap", !.tries = 1]
    /\ UNCHANGED <<enr, node, cas, setting, issued, mat, pool, req, files, faults>>

\* ensure_pki: a key, a CSR, and the request.
SendCsr(w) ==
    /\ dmn.at = "bootstrap"
    /\ \E k \in Keys :
        /\ issued[k] = NoCert /\ \A j \in 2 .. k - 1 : issued[j] # NoCert
        /\ dmn' = [dmn EXCEPT !.at = "csr", !.key = k]
        /\ issued' = [issued EXCEPT ![k].node = dmn.node]
        /\ Begin(w, [Idle EXCEPT !.at = "auth", !.n = dmn.node, !.key = k])
    /\ UNCHANGED <<enr, node, cas, setting, mat, pool, files, faults>>

\* Refused, unless the token is good and the node is there.
CheckCsr(w) ==
    LET r == req[w] IN
    /\ r.at = "auth"
    /\ IF DaemonNodeAuth(r.n) THEN Go(w, [r EXCEPT !.at = "csr"]) ELSE Finish(w)
    /\ UNCHANGED <<enr, node, cas, setting, issued, mat, pool, dmn, files, faults>>

\* The node's id and address, whatever the request says, over the key it carries.
SignedBy(ca, k) == issued' = [issued EXCEPT ![k].ca = ca]

\* The certificate, its serial in the row, and the answer, if it is still awaited.
SignCSR(w) ==
    LET r == req[w] IN
    /\ r.at = "sign" /\ Finish(w)
    /\ SignedBy(r.ca, r.key)
    /\ node' = IF Exists(r.n) THEN [node EXCEPT ![r.n].serial = r.key] ELSE node
    /\ dmn' = IF dmn.at = "csr" /\ dmn.key = r.key THEN [dmn EXCEPT !.at = "write"] ELSE dmn
    /\ UNCHANGED <<enr, cas, setting, mat, pool, files, faults>>

HandleSignCSR(w) == CheckCsr(w) \/ MTLSCA(w) \/ SignCSR(w)

\* No answer, or a refusal: the next attempt, or plain HTTP until the next start.
CsrFails ==
    /\ dmn.at = "csr"
    /\ Fault \/ ((\A w \in Workers : req[w].key # dmn.key) /\ UNCHANGED faults)
    /\ dmn' = IF dmn.tries < MaxAttempts THEN [dmn EXCEPT !.at = "bootstrap", !.tries = @ + 1]
              ELSE [dmn EXCEPT !.at = "up", !.key = None, !.tries = 0]
    /\ UNCHANGED <<enr, node, cas, setting, issued, mat, pool, req, files>>

\* write_pki: CA, certificate and key, each replaced atomically, the key last.
WritePki ==
    /\ dmn.at = "write"
    /\ LET c == issued[dmn.key] IN
       IF files.ca # c.ca THEN files' = [files EXCEPT !.ca = c.ca] /\ UNCHANGED dmn
       ELSE IF files.cert # dmn.key THEN files' = [files EXCEPT !.cert = dmn.key, !.old = FALSE] /\ UNCHANGED dmn
       ELSE files' = [files EXCEPT !.key = dmn.key] /\ dmn' = [dmn EXCEPT !.at = "up", !.serve = dmn.key, !.key = None, !.tries = 0]
    /\ UNCHANGED <<enr, node, cas, setting, issued, mat, pool, req, faults>>

-----------------------------------------------------------------------------
(* Heartbeats and the client pool *)

Beat(w, status) ==
    /\ dmn.at = "up" /\ DaemonNodeAuth(dmn.node)
    /\ Begin(w, [Idle EXCEPT !.at = "beat", !.n = dmn.node, !.key = dmn.serve, !.status = status])

SendHeartbeat(w) ==
    /\ Beat(w, "online")
    /\ UNCHANGED <<enr, node, cas, setting, issued, mat, pool, dmn, files, faults>>

\* A daemon that is shut down says so, beside a heartbeat that may be on its way.
DaemonStops(w) ==
    /\ Fault /\ Beat(w, "offline")
    /\ dmn' = [dmn EXCEPT !.at = "down", !.serve = None]
    /\ UNCHANGED <<enr, node, cas, setting, issued, mat, pool, files>>

DaemonCrashes ==
    /\ Fault /\ dmn.at \notin {"new", "enrolling", "down"}
    /\ dmn' = [dmn EXCEPT !.at = "down", !.serve = None, !.key = None, !.tries = 0]
    /\ UNCHANGED <<enr, node, cas, setting, issued, mat, pool, req, files>>

\* Mutant: any advertised certificate is taken.
AcceptsAny(r) == r.key # None

\* Only the certificate this panel recorded turns mTLS on.
AcceptsAdvert(r) == r.key # None /\ node[r.n].serial = r.key

UpdateNodeHeartbeat(w) ==
    LET r == req[w] IN
    /\ r.at = "beat"
    /\ IF Exists(r.n)
       THEN /\ node' = [node EXCEPT ![r.n].st = r.status, ![r.n].mtls = @ \/ AcceptsAdvert(r)]
            /\ Go(w, [r EXCEPT !.at = "fetch"])
       ELSE UNCHANGED node /\ Finish(w)
    /\ UNCHANGED <<enr, cas, setting, issued, mat, pool, dmn, files, faults>>

\* NodeHeartbeat reads the row back ...
GetNode(w) ==
    LET r == req[w] IN
    /\ r.at = "fetch"
    /\ IF Exists(r.n) THEN Go(w, [r EXCEPT !.at = "pool", !.mtls = node[r.n].mtls]) ELSE Finish(w)
    /\ UNCHANGED <<enr, node, cas, setting, issued, mat, pool, dmn, files, faults>>

\* Mutant: a node that has a client keeps it.
RegisterKeeps(w) ==
    LET r == req[w] IN
    /\ r.at = "pool" /\ Finish(w)
    /\ pool' = [pool EXCEPT ![r.n] = IF @ # "none" THEN @ ELSE IF r.mtls /\ mat # None THEN "tls" ELSE "plain"]
    /\ UNCHANGED <<enr, node, cas, setting, issued, mat, dmn, files, faults>>

\* ... and puts a client into the pool, TLS if the row says so and there is material.
Register(w) ==
    LET r == req[w] IN
    /\ r.at = "pool" /\ Finish(w)
    /\ pool' = [pool EXCEPT ![r.n] = IF r.mtls /\ mat # None THEN "tls" ELSE "plain"]
    /\ UNCHANGED <<enr, node, cas, setting, issued, mat, dmn, files, faults>>

NodeHeartbeat(w) == UpdateNodeHeartbeat(w) \/ GetNode(w) \/ Register(w)

SetNodeStatus(n, status) == Exists(n) /\ node' = [node EXCEPT ![n].st = status]

HandleUpdateNodeStatus(n, status) ==
    /\ SetNodeStatus(n, status) /\ Fault
    /\ UNCHANGED <<enr, cas, setting, issued, mat, pool, req, dmn, files>>

DeleteNode(n) == Exists(n) /\ node' = [node EXCEPT ![n].st = "gone"]

HandleDeleteNode(w, n) ==
    /\ DeleteNode(n) /\ Fault
    /\ Begin(w, [Idle EXCEPT !.at = "evict", !.n = n])
    /\ UNCHANGED <<enr, cas, setting, issued, mat, pool, dmn, files>>

Remove(w) ==
    /\ req[w].at = "evict" /\ Finish(w)
    /\ pool' = [pool EXCEPT ![req[w].n] = "none"]
    /\ UNCHANGED <<enr, node, cas, setting, issued, mat, dmn, files, faults>>

-----------------------------------------------------------------------------
Serve(w) == HandleRedeem(w) \/ HandleSignCSR(w) \/ NodeHeartbeat(w) \/ Remove(w)

Daemon == DaemonStart \/ WritePki \/ \E w \in Workers : SendCsr(w)

Next ==
    \/ Daemon \/ RedeemFails \/ CsrFails \/ CertAges \/ DaemonCrashes \/ EnrollmentExpires
    \/ HandleCreateEnrollment \/ NodeEnrollCmd
    \/ \E n \in Rows : HandleRegisterNode(n) \/ \E status \in Statuses : HandleUpdateNodeStatus(n, status)
    \/ \E ok \in BOOLEAN : PanelRestarts(ok)
    \/ \E w \in Workers :
        \/ Serve(w) \/ SendRedeem(w) \/ SendHeartbeat(w) \/ DaemonStops(w)
        \/ \E n \in Rows : HandleDeleteNode(w, n)

Spec == Init /\ [][Next]_vars

\* Handlers are scheduled, the daemon runs, and its heartbeat interval ticks (other
\* requests may hold the workers, but not for ever).
FairSpec ==
    /\ Spec /\ WF_vars(Daemon)
    /\ \A w \in Workers : WF_vars(Serve(w)) /\ SF_vars(SendHeartbeat(w))

-----------------------------------------------------------------------------
(* Properties *)

Serials == {None, Foreign} \cup Keys
Signers == {None, Foreign} \cup CAs
Reqs == [at : {"idle", "redeem", "redeemed", "auth", "csr", "store", "reread", "sign", "beat", "fetch", "pool", "evict"},
         n : {0} \cup Rows, key : Serials, ca : {None} \cup CAs, status : {"online", "offline"}, mtls : BOOLEAN]
Daemons == [at : {"new", "enrolling", "down", "bootstrap", "csr", "write", "up"}, node : {0} \cup Rows,
            key : {None} \cup Keys, tries : Nat, serve : Serials]

TypeOK ==
    /\ enr \in {"open", "expired", "used"}
    /\ node \in [Rows -> [st : {"none", "offline", "online", "draining", "gone"},
                          serial : Serials, mtls : BOOLEAN, enrolled : BOOLEAN]]
    /\ pool \in [Rows -> {"none", "plain", "tls"}]
    /\ cas \subseteq CAs /\ mat \in {None} \cup CAs
    /\ setting \in [ca : {None} \cup CAs, panel : {None} \cup CAs]
    /\ issued \in [{Foreign} \cup Keys -> [node : {0} \cup Rows, ca : Signers]]
    /\ req \in [Workers -> Reqs]
    /\ dmn \in Daemons /\ (dmn.at \in {"csr", "write"} => dmn.key \in Keys)
    /\ files \in [ca : Signers, cert : Serials, key : Serials, old : BOOLEAN]
    /\ faults \in Nat

\* A token makes one node, although a caller that got no answer redeems it again
\* while the first request is still running (Redeem: "Atomic: either both rows land
\* or neither", and used_at under FOR UPDATE).
EnrolledOnce == Cardinality({n \in Rows : node[n].enrolled}) <= 1

\* However many requests find no CA, every certificate, and the material the panel
\* calls with, comes from the one that is stored (loadOrCreatePair: "concurrent first
\* callers all converge on whichever pair was stored first").
OneCA ==
    /\ mat \in {None, setting.ca}
    /\ \A k \in Keys : issued[k].ca \in {None, setting.ca}

\* A request that is about to sign has the CA that is stored; a token that made a
\* node is used, and one transaction at a time has its row.
SignsStored == \A w \in Workers : req[w].at = "sign" => req[w].ca = setting.ca /\ setting.ca # None

RedeemsAlone ==
    /\ \A w \in Workers : req[w].at = "redeemed" => enr = "open"
    /\ \A v, w \in Workers : req[v].at = "redeemed" /\ req[w].at = "redeemed" => v = w
    /\ \A n \in Rows : node[n].enrolled => enr = "used"
    /\ \A m, n \in Rows : node[m].enrolled /\ node[n].enrolled => m = n

IInv == TypeOK /\ OneCA /\ SignsStored /\ RedeemsAlone

\* What the panel's TLS client demands of the certificate it is shown.
VerifyNodeCert(n, cert) == cert # None /\ issued[cert] = [node |-> n, ca |-> mat]

\* The panel never calls over TLS a daemon that presents a certificate it refuses, or
\* that never had one (UpdateNodeHeartbeat: "would otherwise get pinned to a cert it
\* never presents and be locked out"); crashes between the three files included.  The
\* exception is a daemon whose own set has become invalid and whose requests for a new
\* one all failed (main: "serving legacy plaintext until next restart").
NeverLockedOut ==
    dmn.at = "up" /\ Exists(dmn.node) /\ pool[dmn.node] = "tls" =>
        /\ files.ca = setting.panel /\ files.cert \in Keys
        /\ VerifyNodeCert(dmn.node, dmn.serve) \/ (dmn.serve = None /\ ~ValidFiles)

\* What makes NeverLockedOut inductive: whatever the daemon has from this panel was
\* signed for its node by the stored CA, and an advert of it, or a row or client that
\* trusts it, means that it is on the daemon's disk.
Signed(k) == issued[k] = [node |-> dmn.node, ca |-> setting.ca] /\ setting.ca # None /\ dmn.node # 0
Held == files.cert \in Keys /\ files.ca = setting.ca /\ Signed(files.cert)

DaemonHolds ==
    /\ dmn.node = 0 <=> dmn.at \in {"new", "enrolling"}
    /\ dmn.at = "write" => Signed(dmn.key)
    /\ dmn.serve # None => dmn.at = "up" /\ dmn.serve = files.cert
    /\ dmn.at \in {"bootstrap", "csr"} \/ (dmn.at = "up" /\ dmn.serve = None) => ~ValidFiles
    /\ files.cert \in Keys => Held

Knows(r) ==
    /\ r.at \in {"auth", "csr", "store", "reread", "sign"} =>
            r.key \in Keys /\ r.n = dmn.node /\ dmn.node # 0 /\ issued[r.key].node = dmn.node
    /\ r.at = "beat" /\ r.key \in Keys => Held /\ r.n = dmn.node
    /\ r.at = "pool" /\ r.mtls => r.n \in Rows /\ node[r.n].mtls

RequestsKnow == \A w \in Workers : Knows(req[w])

PanelTrusts ==
    /\ mat # None => setting = [ca |-> mat, panel |-> mat]
    /\ \A n \in Rows : node[n].serial \in {None} \cup Keys
    /\ \A n \in Rows : node[n].mtls => Held /\ n = dmn.node /\ node[n].st # "none"
    /\ \A n \in Rows : pool[n] = "tls" => mat # None /\ node[n].mtls

Trust == DaemonHolds /\ RequestsKnow /\ PanelTrusts

Recorded == dmn.at = "up" /\ Exists(dmn.node) /\ dmn.serve # None /\ node[dmn.node].serial = dmn.serve /\ mat # None

\* A daemon that serves the certificate on record comes to be called over TLS.
TlsReached == Recorded ~> (~Recorded \/ pool[dmn.node] = "tls")

\* Refuted: a daemon that holds a certificate of this panel always serves the one on
\* record (a request that was given up on records its serial after the retry did).
HeldIsRecorded ==
    dmn.at = "up" /\ Exists(dmn.node) /\ dmn.serve \in Keys => node[dmn.node].serial = dmn.serve

\* Refuted: a daemon that is called over TLS can always answer (one whose certificate
\* aged, and that got no new one at its start, serves plain HTTP; mtls_enabled stays).
TlsIsAnswered ==
    dmn.at = "up" /\ Exists(dmn.node) /\ pool[dmn.node] = "tls" => VerifyNodeCert(dmn.node, dmn.serve)

\* Refuted: the pool has clients of existing nodes only (DeleteNode: "Evict from the
\* in-memory daemon client pool"; a heartbeat in flight puts it back).
PoolIsKnown ==
    \A n \in Rows : node[n].st = "gone" /\ (\A w \in Workers : req[w].at # "evict") => pool[n] = "none"

\* Refuted: a node that is draining stays so until an administrator decides otherwise.
DrainingStays ==
    [][\A n \in Rows : node[n].st = "draining" => node'[n].st \in {"draining", "gone"} \/ faults' > faults]_vars

=============================================================================
