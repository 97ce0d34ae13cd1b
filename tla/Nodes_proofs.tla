---------------------------- MODULE Nodes_proofs ----------------------------
(***************************************************************************)
(* The types of Nodes, that one certificate authority signs everything,    *)
(* that an enrollment token makes one node, and that the panel calls no    *)
(* daemon over TLS that presents a certificate it refuses, for every       *)
(* number of nodes, requests in flight, certificate requests and faults.   *)
(*                                                                         *)
(* The last section is about Alerts, whose evaluations the nodes'          *)
(* heartbeats, reports and silence start: duplicates of an alert are       *)
(* bounded, every notice has an event, and events reach only who may see   *)
(* their server, for every number of rules, events and requests.           *)
(***************************************************************************)
EXTENDS Nodes, FiniteSetTheorems, TLAPS

Node == [st : {"none", "offline", "online", "draining", "gone"}, serial : Serials, mtls : BOOLEAN, enrolled : BOOLEAN]
Cert == [node : {0} \cup Rows, ca : Signers]
Setting == [ca : {None} \cup CAs, panel : {None} \cup CAs]
Files == [ca : Signers, cert : Serials, key : Serials, old : BOOLEAN]
Clients == {"none", "plain", "tls"}

\* The types by where the state is kept.
RowTypes == enr \in {"open", "expired", "used"} /\ node \in [Rows -> Node] /\ pool \in [Rows -> Clients]
CATypes == cas \subseteq CAs /\ mat \in {None} \cup CAs /\ setting \in Setting
CertTypes == issued \in [{Foreign} \cup Keys -> Cert]
ReqTypes == req \in [Workers -> Reqs]
DaemonTypes == dmn \in Daemons /\ (dmn.at \in {"csr", "write"} => dmn.key \in Keys) /\ files \in Files /\ faults \in Nat

LEMMA Types == TypeOK <=> RowTypes /\ CATypes /\ CertTypes /\ ReqTypes /\ DaemonTypes
  BY DEF TypeOK, RowTypes, CATypes, CertTypes, ReqTypes, DaemonTypes, Node, Cert, Setting, Files, Clients

LEMMA TypesNext == TypeOK' <=> RowTypes' /\ CATypes' /\ CertTypes' /\ ReqTypes' /\ DaemonTypes'
  BY DEF TypeOK, RowTypes, CATypes, CertTypes, ReqTypes, DaemonTypes, Node, Cert, Setting, Files, Clients

\* None, and the certificate from before, are no key and no CA of this panel.
LEMMA Names ==
    /\ None \notin Keys /\ None \notin CAs /\ Foreign \notin Keys /\ 2 \in CAs /\ 1 \in Rows /\ 0 \notin Rows /\ None = 0
<1>1. Cardinality(Workers) \in Nat
  BY NodesAssumption, FS_CardinalityType
<1> QED
  BY <1>1, NodesAssumption DEF None, Foreign, Keys, CAs, Rows

LEMMA IdleReq == Idle \in Reqs /\ Idle.at = "idle"
<1>1. None \in Serials /\ None \in {None} \cup CAs /\ 0 \in {0} \cup Rows
  BY DEF Serials
<1> QED
  BY <1>1 DEF Idle, Reqs

-----------------------------------------------------------------------------
(* Frames *)

\* Rows keep whether a token made them.
SameEnrolled == \A n \in Rows : node'[n].enrolled = node[n].enrolled

LEMMA ReqStep ==
    ASSUME IInv, NEW w \in Workers, NEW r \in Reqs, req' = [req EXCEPT ![w] = r],
           r.at = "sign" => r.ca = setting.ca /\ setting.ca # None,
           r.at # "redeemed", setting' = setting, enr' = enr, SameEnrolled
    PROVE  ReqTypes' /\ SignsStored' /\ RedeemsAlone'
<1>1. req \in [Workers -> Reqs]
  BY Types DEF IInv, ReqTypes
<1>2. req' \in [Workers -> Reqs] /\ req'[w] = r /\ \A v \in Workers \ {w} : req'[v] = req[v]
  BY <1>1
<1>3. SignsStored'
  BY <1>2 DEF IInv, SignsStored
<1>4. RedeemsAlone'
  BY <1>2 DEF IInv, RedeemsAlone, SameEnrolled
<1> QED
  BY <1>2, <1>3, <1>4 DEF ReqTypes

LEMMA ReqAlone ==
    ASSUME IInv, UNCHANGED <<req, setting, enr>>, SameEnrolled
    PROVE  ReqTypes' /\ SignsStored' /\ RedeemsAlone'
  BY Types DEF IInv, ReqTypes, SignsStored, RedeemsAlone, SameEnrolled

LEMMA CAAlone ==
    ASSUME IInv, UNCHANGED <<cas, mat, setting>>, \A k \in Keys : issued'[k].ca = issued[k].ca
    PROVE  CATypes' /\ OneCA'
  BY Types DEF IInv, CATypes, OneCA

LEMMA Facts == ASSUME IInv PROVE RowTypes /\ CATypes /\ CertTypes /\ ReqTypes /\ DaemonTypes
  BY Types DEF IInv

LEMMA RowsAlone == ASSUME IInv, UNCHANGED <<enr, node, pool>> PROVE RowTypes' /\ SameEnrolled
  BY Facts DEF RowTypes, SameEnrolled

LEMMA DaemonAlone == ASSUME IInv, UNCHANGED <<dmn, files>>, faults' \in Nat PROVE DaemonTypes'
  BY Facts DEF DaemonTypes

LEMMA CertsAlone == ASSUME IInv, issued' = issued PROVE CertTypes'
  BY Facts DEF CertTypes

LEMMA FaultCounts == ASSUME IInv, Fault \/ faults' = faults PROVE faults' \in Nat
  BY Facts DEF DaemonTypes, Fault

\* A step of the daemon alone.
LEMMA DaemonOnly ==
    ASSUME IInv, UNCHANGED <<enr, node, cas, setting, issued, mat, pool, req>>, DaemonTypes'
    PROVE  IInv'
  BY RowsAlone, CAAlone, CertsAlone, ReqAlone, TypesNext DEF IInv

\* A step of a request that signs nothing.
LEMMA RequestOnly ==
    ASSUME IInv, NEW w \in Workers, NEW r \in Reqs, req' = [req EXCEPT ![w] = r],
           r.at \notin {"sign", "redeemed"}, UNCHANGED <<enr, cas, setting, issued, mat>>,
           RowTypes', SameEnrolled, DaemonTypes'
    PROVE  IInv'
  BY ReqStep, CAAlone, CertsAlone, TypesNext DEF IInv

-----------------------------------------------------------------------------
(* The daemon *)

LEMMA DaemonInv ==
    ASSUME IInv, DaemonStart \/ WritePki \/ CertAges \/ CsrFails \/ RedeemFails \/ DaemonCrashes
    PROVE  IInv'
<1>0. dmn \in Daemons /\ files \in Files /\ (dmn.at \in {"csr", "write"} => dmn.key \in Keys) /\ CertTypes /\ faults \in Nat
  BY Facts DEF DaemonTypes
<1>1. UNCHANGED <<enr, node, cas, setting, issued, mat, pool, req>>
  BY DEF DaemonStart, WritePki, CertAges, CsrFails, RedeemFails, DaemonCrashes
<1>2. faults' \in Nat
  BY FaultCounts DEF DaemonStart, WritePki, CertAges, CsrFails, RedeemFails, DaemonCrashes
<1>3. None \in Serials /\ Keys \subseteq Serials
  BY DEF Serials
<1>4. CASE DaemonStart
  <2>1. files' = files /\ dmn.at = "down"
    BY <1>4 DEF DaemonStart
  <2>2. dmn' \in Daemons /\ dmn'.at \in {"up", "bootstrap"}
    BY <1>0, <1>4 DEF DaemonStart, Daemons, Files
  <2> QED
    BY <1>0, <1>1, <1>2, <2>1, <2>2, DaemonOnly DEF DaemonTypes
<1>5. CASE WritePki
  <2>1. dmn.key \in Keys /\ issued[dmn.key].ca \in Signers
    BY <1>0, <1>5 DEF WritePki, CertTypes, Cert
  <2>2. files' \in Files
    BY <1>0, <1>3, <1>5, <2>1 DEF WritePki, Files
  <2>3. dmn' \in Daemons /\ (dmn' = dmn \/ dmn'.at = "up")
    <3>1. dmn' = dmn \/ dmn' = [dmn EXCEPT !.at = "up", !.serve = dmn.key, !.key = None, !.tries = 0]
      BY <1>5 DEF WritePki
    <3>2. dmn.key \in Serials
      BY <1>3, <2>1
    <3>3. CASE dmn' = [dmn EXCEPT !.at = "up", !.serve = dmn.key, !.key = None, !.tries = 0]
      <4>1. dmn' \in Daemons
        BY <1>0, <3>2, <3>3 DEF Daemons
      <4>2. dmn'.at = "up"
        BY <1>0, <3>3 DEF Daemons
      <4> QED
        BY <4>1, <4>2
    <3> QED
      BY <1>0, <3>1, <3>3
  <2> QED
    BY <1>0, <1>1, <1>2, <2>2, <2>3, DaemonOnly DEF DaemonTypes
<1>6. CASE CertAges
  <2>1. files' \in Files /\ dmn' = dmn
    BY <1>0, <1>6 DEF CertAges, Files
  <2> QED
    BY <1>0, <1>1, <1>2, <2>1, DaemonOnly DEF DaemonTypes
<1>7. CASE CsrFails \/ RedeemFails \/ DaemonCrashes
  <2>1. files' = files
    BY <1>7 DEF CsrFails, RedeemFails, DaemonCrashes
  <2>2. CASE CsrFails
    <3>1. dmn' = [dmn EXCEPT !.at = "bootstrap", !.tries = @ + 1] \/ dmn' = [dmn EXCEPT !.at = "up", !.key = None, !.tries = 0]
      BY <2>2 DEF CsrFails
    <3>2. dmn' \in Daemons /\ dmn'.at \in {"bootstrap", "up"}
      <4>1. CASE dmn' = [dmn EXCEPT !.at = "bootstrap", !.tries = @ + 1]
        <5>1. dmn.tries + 1 \in Nat
          BY <1>0 DEF Daemons
        <5> QED
          BY <1>0, <4>1, <5>1 DEF Daemons
      <4>2. CASE dmn' = [dmn EXCEPT !.at = "up", !.key = None, !.tries = 0]
        BY <1>0, <4>2 DEF Daemons
      <4> QED
        BY <3>1, <4>1, <4>2
    <3> QED
      BY <1>0, <1>1, <1>2, <2>1, <3>2, DaemonOnly DEF DaemonTypes
  <2>3. CASE RedeemFails
    <3>1. dmn' \in Daemons /\ dmn'.at = "new"
      BY <1>0, <2>3 DEF RedeemFails, Daemons
    <3> QED
      BY <1>0, <1>1, <1>2, <2>1, <3>1, DaemonOnly DEF DaemonTypes
  <2>4. CASE DaemonCrashes
    <3>1. dmn' \in Daemons /\ dmn'.at = "down"
      BY <1>0, <1>3, <2>4 DEF DaemonCrashes, Daemons
    <3> QED
      BY <1>0, <1>1, <1>2, <2>1, <3>1, DaemonOnly DEF DaemonTypes
  <2> QED
    BY <1>7, <2>2, <2>3, <2>4
<1> QED
  BY <1>4, <1>5, <1>6, <1>7

\* A CSR names the node and carries no certificate yet.
LEMMA SendCsrInv ==
    ASSUME IInv, NEW w \in Workers, SendCsr(w)
    PROVE  IInv'
<1>0. dmn \in Daemons /\ files \in Files /\ faults \in Nat /\ issued \in [{Foreign} \cup Keys -> Cert] /\ Keys \subseteq Serials
  BY Facts DEF DaemonTypes, CertTypes, Serials
<1>1. PICK k \in Keys : /\ dmn' = [dmn EXCEPT !.at = "csr", !.key = k] /\ issued' = [issued EXCEPT ![k].node = dmn.node]
                        /\ req' = [req EXCEPT ![w] = [Idle EXCEPT !.at = "auth", !.n = dmn.node, !.key = k]]
  BY DEF SendCsr, Begin
<1>2. UNCHANGED <<enr, node, cas, setting, mat, pool, files, faults>>
  BY DEF SendCsr
<1> DEFINE r == [Idle EXCEPT !.at = "auth", !.n = dmn.node, !.key = k]
<1>3. r \in Reqs /\ r.at = "auth"
  BY <1>0, IdleReq DEF Reqs, Daemons
<1> HIDE DEF r
<1>4. dmn' \in Daemons /\ dmn'.key = k
  BY <1>0, <1>1 DEF Daemons
<1>5. DaemonTypes'
  BY <1>0, <1>2, <1>4 DEF DaemonTypes
<1>6. CertTypes' /\ \A j \in Keys : issued'[j].ca = issued[j].ca
  BY <1>0, <1>1 DEF CertTypes, Cert, Daemons
<1>7. req' = [req EXCEPT ![w] = r]
  BY <1>1 DEF r
<1> QED
  BY <1>2, <1>3, <1>5, <1>6, <1>7, RowsAlone, CAAlone, ReqStep, TypesNext DEF IInv

-----------------------------------------------------------------------------
(* Requests of the installer, the daemon and administrators *)

\* A request that begins beside a daemon that moves.
LEMMA BeginInv ==
    ASSUME IInv, NEW w \in Workers, SendRedeem(w) \/ SendHeartbeat(w) \/ DaemonStops(w)
    PROVE  IInv'
<1>0. dmn \in Daemons /\ files \in Files /\ (dmn.at \in {"csr", "write"} => dmn.key \in Keys) /\ None \in Serials
  BY Facts DEF DaemonTypes, Serials
<1>1. UNCHANGED <<enr, node, cas, setting, issued, mat, pool, files>>
  BY DEF SendRedeem, SendHeartbeat, DaemonStops
<1>2. faults' \in Nat
  BY FaultCounts DEF SendRedeem, SendHeartbeat, DaemonStops
<1>3. PICK r \in Reqs : r.at \in {"redeem", "beat"} /\ req' = [req EXCEPT ![w] = r]
  <2>1. [Idle EXCEPT !.at = "redeem"] \in Reqs
    BY IdleReq DEF Reqs
  <2>2. \A status \in {"online", "offline"} : [Idle EXCEPT !.at = "beat", !.n = dmn.node, !.key = dmn.serve, !.status = status] \in Reqs
    BY <1>0, IdleReq DEF Reqs, Daemons
  <2>3. CASE SendRedeem(w)
    <3>1. req' = [req EXCEPT ![w] = [Idle EXCEPT !.at = "redeem"]] /\ [Idle EXCEPT !.at = "redeem"].at = "redeem"
      BY <2>3 DEF SendRedeem, Begin, Idle
    <3> QED
      BY <2>1, <3>1
  <2>4. ASSUME NEW status \in {"online", "offline"}, Beat(w, status) PROVE \E r \in Reqs : r.at = "beat" /\ req' = [req EXCEPT ![w] = r]
    <3> DEFINE r == [Idle EXCEPT !.at = "beat", !.n = dmn.node, !.key = dmn.serve, !.status = status]
    <3>1. req' = [req EXCEPT ![w] = r] /\ r.at = "beat" /\ r \in Reqs
      BY <2>2, <2>4 DEF Beat, Begin, Idle
    <3> QED
      BY <3>1
  <2>5. CASE SendHeartbeat(w) \/ DaemonStops(w)
    BY <2>4, <2>5 DEF SendHeartbeat, DaemonStops
  <2> QED
    BY <2>3, <2>5
<1>4. dmn' \in Daemons /\ (dmn' = dmn \/ dmn'.at \in {"enrolling", "down"})
  BY <1>0 DEF SendRedeem, SendHeartbeat, DaemonStops, Daemons
<1>5. DaemonTypes'
  BY <1>0, <1>1, <1>2, <1>4 DEF DaemonTypes
<1> QED
  BY <1>1, <1>3, <1>5, RowsAlone, RequestOnly

\* A row that comes in.
LEMMA InsertRow ==
    ASSUME IInv, NEW n \in Rows, NEW b \in BOOLEAN, InsertNode(n, b)
    PROVE  /\ node' \in [Rows -> Node] /\ node'[n].enrolled = b
           /\ \A m \in Rows \ {n} : node'[m] = node[m]
<1>1. node \in [Rows -> Node] /\ None \in Serials
  BY Facts DEF RowTypes, Serials
<1>2. node' = [node EXCEPT ![n] = [NoRow EXCEPT !.st = "offline", !.enrolled = b]]
  BY DEF InsertNode
<1>3. [NoRow EXCEPT !.st = "offline", !.enrolled = b] \in Node /\ [NoRow EXCEPT !.st = "offline", !.enrolled = b].enrolled = b
  BY <1>1 DEF NoRow, Node
<1> QED
  BY <1>1, <1>2, <1>3

\* The look at the token under FOR UPDATE: one transaction at a time.
LEMMA RedeemLookInv ==
    ASSUME IInv, NEW w \in Workers, RedeemLook(w)
    PROVE  IInv'
<1> DEFINE r == [req[w] EXCEPT !.at = "redeemed"]
<1>0. req \in [Workers -> Reqs] /\ r \in Reqs /\ r.at = "redeemed" /\ RowTypes
  BY Facts DEF ReqTypes, Reqs
<1>1. UNCHANGED <<enr, node, cas, setting, issued, mat, pool, dmn, files, faults>> /\ \A v \in Workers : req[v].at # "redeemed"
  BY DEF RedeemLook
<1>2. req' = [req EXCEPT ![w] = IF enr = "open" THEN r ELSE Idle]
  BY DEF RedeemLook, Go
<1> HIDE DEF r
<1>3. req' \in [Workers -> Reqs] /\ (req'[w].at = "redeemed" => enr = "open") /\ req'[w].at \in {"redeemed", "idle"}
      /\ \A v \in Workers \ {w} : req'[v] = req[v]
  BY <1>0, <1>2, IdleReq
<1>4. SignsStored' /\ RedeemsAlone'
  BY <1>1, <1>3 DEF IInv, SignsStored, RedeemsAlone
<1> QED
  BY <1>1, <1>3, <1>4, RowsAlone, CAAlone, CertsAlone, DaemonAlone, FaultCounts, TypesNext DEF IInv, ReqTypes

\* The node and the mark on the token land together.
LEMMA RedeemInv ==
    ASSUME IInv, NEW w \in Workers, Redeem(w)
    PROVE  IInv'
<1>0. req \in [Workers -> Reqs] /\ RowTypes /\ dmn \in Daemons /\ DaemonTypes
  BY Facts DEF ReqTypes, DaemonTypes
<1>1. PICK n \in Rows : InsertNode(n, TRUE) /\ dmn' = IF dmn.at = "enrolling" THEN [dmn EXCEPT !.at = "down", !.node = n] ELSE dmn
  BY DEF Redeem
<1>2. UNCHANGED <<cas, setting, issued, mat, pool, files, faults>> /\ enr' = "used" /\ req[w].at = "redeemed" /\ req' = [req EXCEPT ![w] = Idle]
  BY DEF Redeem, Finish, Go
<1>3. node' \in [Rows -> Node] /\ node'[n].enrolled /\ \A m \in Rows \ {n} : node'[m] = node[m]
  BY <1>1, InsertRow
<1>4. enr = "open" /\ (\A m \in Rows : ~node[m].enrolled) /\ \A v \in Workers \ {w} : req[v].at # "redeemed"
  BY <1>2 DEF IInv, RedeemsAlone
<1>5. req' \in [Workers -> Reqs] /\ \A v \in Workers : req'[v].at # "redeemed" /\ (req'[v].at = "sign" => req'[v] = req[v])
  BY <1>0, <1>2, <1>4, IdleReq
<1>6. SignsStored'
  BY <1>2, <1>5 DEF IInv, SignsStored
<1>7. RedeemsAlone'
  BY <1>2, <1>3, <1>4, <1>5 DEF RedeemsAlone
<1>8. RowTypes'
  BY <1>0, <1>2, <1>3 DEF RowTypes
<1>9. dmn' \in Daemons /\ (dmn' = dmn \/ dmn'.at = "down")
  BY <1>0, <1>1 DEF Daemons
<1>10. DaemonTypes'
  BY <1>0, <1>2, <1>9 DEF DaemonTypes
<1> QED
  BY <1>2, <1>5, <1>6, <1>7, <1>8, <1>10, CAAlone, CertsAlone, TypesNext DEF IInv, ReqTypes

\* A token that runs out, or is replaced: it made no node.
LEMMA TokenInv ==
    ASSUME IInv, EnrollmentExpires \/ Create
    PROVE  IInv'
<1>1. UNCHANGED <<node, cas, setting, issued, mat, pool, req, dmn, files, faults>> /\ enr' \in {"open", "expired"} /\ enr # "used"
  BY DEF EnrollmentExpires, Create
<1>2. \A w \in Workers : req[w].at # "redeemed"
  BY DEF EnrollmentExpires, Create, IInv, RedeemsAlone
<1>3. RedeemsAlone' /\ SignsStored'
  BY <1>1, <1>2 DEF IInv, RedeemsAlone, SignsStored
<1>4. RowTypes'
  BY <1>1, Facts DEF RowTypes
<1>5. ReqTypes'
  BY <1>1, Facts DEF ReqTypes
<1> QED
  BY <1>1, <1>3, <1>4, <1>5, CAAlone, CertsAlone, DaemonAlone, FaultCounts, TypesNext DEF IInv

LEMMA RegisterNodeInv ==
    ASSUME IInv, NEW n \in Rows, HandleRegisterNode(n)
    PROVE  IInv'
<1>1. UNCHANGED <<enr, cas, setting, issued, mat, pool, req, files, faults>> /\ InsertNode(n, FALSE) /\ dmn' = [dmn EXCEPT !.at = "down", !.node = n]
  BY DEF HandleRegisterNode
<1>2. node' \in [Rows -> Node] /\ ~node'[n].enrolled /\ \A m \in Rows \ {n} : node'[m] = node[m]
  BY <1>1, InsertRow
<1>3. RowTypes'
  BY <1>1, <1>2, Facts DEF RowTypes
<1>4. RedeemsAlone' /\ SignsStored'
  BY <1>1, <1>2 DEF IInv, RedeemsAlone, SignsStored
<1>5. dmn' \in Daemons /\ dmn'.at = "down"
  BY <1>1, Facts DEF DaemonTypes, Daemons
<1>6. DaemonTypes' /\ ReqTypes'
  BY <1>1, <1>5, Facts DEF DaemonTypes, ReqTypes
<1> QED
  BY <1>1, <1>3, <1>4, <1>6, CAAlone, CertsAlone, TypesNext DEF IInv

\* A row that is written keeps whether a token made it.
LEMMA WriteRow ==
    ASSUME IInv, NEW n \in Rows, NEW d \in Node, d.enrolled = node[n].enrolled, node' = [node EXCEPT ![n] = d] \/ node' = node
    PROVE  node' \in [Rows -> Node] /\ SameEnrolled
<1>1. node \in [Rows -> Node]
  BY Facts DEF RowTypes
<1> QED
  BY <1>1 DEF SameEnrolled

LEMMA AdminInv ==
    ASSUME IInv, NEW n \in Rows,
           (\E status \in Statuses : HandleUpdateNodeStatus(n, status)) \/ \E w \in Workers : HandleDeleteNode(w, n)
    PROVE  IInv'
<1>0. node \in [Rows -> Node] /\ Statuses \subseteq {"online", "offline", "draining"} /\ RowTypes
  BY Facts, NodesAssumption DEF RowTypes
<1>1. UNCHANGED <<enr, cas, setting, issued, mat, pool, dmn, files>> /\ faults' \in Nat
  BY FaultCounts DEF HandleUpdateNodeStatus, HandleDeleteNode
<1>2. PICK st \in {"online", "offline", "draining", "gone"} : node' = [node EXCEPT ![n].st = st]
  BY <1>0 DEF HandleUpdateNodeStatus, SetNodeStatus, HandleDeleteNode, DeleteNode
<1>3. node' \in [Rows -> Node] /\ SameEnrolled
  BY <1>0, <1>2 DEF Node, SameEnrolled
<1>4. RowTypes'
  BY <1>0, <1>1, <1>3 DEF RowTypes
<1>5. DaemonTypes'
  BY <1>1, DaemonAlone
<1>6. CASE req' = req
  BY <1>1, <1>3, <1>4, <1>5, <1>6, CAAlone, CertsAlone, ReqAlone, TypesNext DEF IInv
<1>7. ASSUME NEW w \in Workers, HandleDeleteNode(w, n) PROVE IInv'
  <2> DEFINE r == [Idle EXCEPT !.at = "evict", !.n = n]
  <2>1. r \in Reqs /\ r.at = "evict" /\ req' = [req EXCEPT ![w] = r]
    BY <1>7, IdleReq DEF HandleDeleteNode, Begin, Reqs
  <2> HIDE DEF r
  <2> QED
    BY <1>1, <1>3, <1>4, <1>5, <2>1, RequestOnly
<1> QED
  BY <1>6, <1>7 DEF HandleUpdateNodeStatus

-----------------------------------------------------------------------------
(* The handlers *)

\* The request as it is, and at another place.
LEMMA ReqAt ==
    ASSUME IInv, NEW w \in Workers, NEW at \in {"csr", "reread", "fetch"}
    PROVE  /\ req[w] \in Reqs /\ [req[w] EXCEPT !.at = at] \in Reqs
           /\ [req[w] EXCEPT !.at = at].at = at
<1>1. req[w] \in Reqs
  BY Facts DEF ReqTypes
<1> QED
  BY <1>1 DEF Reqs

\* With a CA in hand.
LEMMA ReqWith ==
    ASSUME IInv, NEW w \in Workers, NEW at \in {"sign", "store"}, NEW ca \in {None} \cup CAs
    PROVE  /\ [req[w] EXCEPT !.at = at, !.ca = ca] \in Reqs
           /\ [req[w] EXCEPT !.at = at, !.ca = ca].at = at
           /\ [req[w] EXCEPT !.at = at, !.ca = ca].ca = ca
<1>1. req[w] \in Reqs
  BY Facts DEF ReqTypes
<1> QED
  BY <1>1 DEF Reqs

\* A request that ends or goes on, and leaves the rows alone.
LEMMA Goes ==
    ASSUME IInv, NEW w \in Workers, NEW r \in Reqs, req' = [req EXCEPT ![w] = r], r.at \notin {"sign", "redeemed"},
           UNCHANGED <<enr, node, cas, setting, issued, mat, pool, dmn, files, faults>>
    PROVE  IInv'
  BY RowsAlone, DaemonAlone, FaultCounts, RequestOnly

LEMMA CheckCsrInv ==
    ASSUME IInv, NEW w \in Workers, CheckCsr(w)
    PROVE  IInv'
<1>1. UNCHANGED <<enr, node, cas, setting, issued, mat, pool, dmn, files, faults>>
  BY DEF CheckCsr
<1>2. req' = [req EXCEPT ![w] = [req[w] EXCEPT !.at = "csr"]] \/ req' = [req EXCEPT ![w] = Idle]
  BY DEF CheckCsr, Go, Finish
<1> DEFINE r == [req[w] EXCEPT !.at = "csr"]
<1>3. r \in Reqs /\ r.at = "csr" /\ (req' = [req EXCEPT ![w] = r] \/ req' = [req EXCEPT ![w] = Idle])
  BY <1>2, ReqAt
<1> HIDE DEF r
<1> QED
  BY <1>1, <1>3, IdleReq, Goes

\* Whoever finds no CA inserts one if absent and reads what is stored; only what is
\* stored is used to sign (loadOrCreatePair).
LEMMA PairInv ==
    ASSUME IInv, NEW w \in Workers, MTLSCA(w)
    PROVE  IInv'
<1>0. UNCHANGED <<enr, node, issued, mat, pool, dmn, files, faults>> /\ LoadOrCreatePair(w) /\ CATypes /\ setting.ca \in {None} \cup CAs
  BY Facts DEF MTLSCA, CATypes, Setting
<1>1. RowTypes' /\ SameEnrolled /\ CertTypes' /\ DaemonTypes'
  BY <1>0, RowsAlone, CertsAlone, DaemonAlone, FaultCounts
<1>2. ASSUME setting.ca # None, req' = [req EXCEPT ![w] = [req[w] EXCEPT !.at = "sign", !.ca = setting.ca]], UNCHANGED <<cas, setting>> PROVE IInv'
  <2> DEFINE r == [req[w] EXCEPT !.at = "sign", !.ca = setting.ca]
  <2>1. r \in Reqs /\ r.at = "sign" /\ r.ca = setting.ca
    <3>1. PICK ca \in {None} \cup CAs : ca = setting.ca
      BY <1>0
    <3>2. [req[w] EXCEPT !.at = "sign", !.ca = ca] \in Reqs /\ [req[w] EXCEPT !.at = "sign", !.ca = ca].at = "sign"
          /\ [req[w] EXCEPT !.at = "sign", !.ca = ca].ca = ca
      BY ReqWith
    <3> QED
      BY <3>1, <3>2
  <2> HIDE DEF r
  <2>2. req' = [req EXCEPT ![w] = r]
    BY <1>2 DEF r
  <2> QED
    BY <1>0, <1>1, <1>2, <2>1, <2>2, CAAlone, ReqStep, TypesNext DEF IInv
<1>3. ASSUME NEW c \in CAs, GenerateCA(c), req' = [req EXCEPT ![w] = [req[w] EXCEPT !.at = "store", !.ca = c]], UNCHANGED setting PROVE IInv'
  <2> DEFINE r == [req[w] EXCEPT !.at = "store", !.ca = c]
  <2>1. r \in Reqs /\ r.at = "store"
    BY ReqWith
  <2> HIDE DEF r
  <2>2. req' = [req EXCEPT ![w] = r]
    BY <1>3 DEF r
  <2>3. CATypes' /\ OneCA'
    BY <1>0, <1>3 DEF GenerateCA, CATypes, IInv, OneCA
  <2> QED
    BY <1>0, <1>1, <1>3, <2>1, <2>2, <2>3, ReqStep, TypesNext DEF IInv
<1>4. ASSUME SetIfAbsent(req[w].ca), req' = [req EXCEPT ![w] = [req[w] EXCEPT !.at = "reread"]], UNCHANGED cas PROVE IInv'
  <2> DEFINE r == [req[w] EXCEPT !.at = "reread"]
  <2>1. r \in Reqs /\ r.at = "reread" /\ req[w].ca \in {None} \cup CAs
    BY ReqAt DEF Reqs
  <2> HIDE DEF r
  <2>2. req' = [req EXCEPT ![w] = r]
    BY <1>4 DEF r
  <2>3. CASE setting.ca # None
    <3>1. setting' = setting
      BY <1>4, <2>3 DEF SetIfAbsent
    <3> QED
      BY <1>0, <1>1, <1>4, <2>1, <2>2, <3>1, CAAlone, ReqStep, TypesNext DEF IInv
  <2>4. CASE setting.ca = None
    <3>1. setting' = [setting EXCEPT !.ca = req[w].ca]
      BY <1>4, <2>4 DEF SetIfAbsent
    <3>2. setting' \in Setting
      BY <1>0, <2>1, <3>1 DEF CATypes, Setting
    <3>3. CATypes' /\ OneCA'
      BY <1>0, <1>4, <2>4, <3>2 DEF CATypes, IInv, OneCA
    <3>4. req \in [Workers -> Reqs]
      BY Facts DEF ReqTypes
    <3>5. req' \in [Workers -> Reqs] /\ req'[w] = r /\ \A v \in Workers \ {w} : req'[v] = req[v]
      BY <2>1, <2>2, <3>4
    <3>6. SignsStored' /\ RedeemsAlone'
      BY <1>0, <2>1, <2>4, <3>5 DEF IInv, SignsStored, RedeemsAlone
    <3> QED
      BY <1>1, <3>3, <3>5, <3>6, TypesNext DEF IInv, ReqTypes
  <2> QED
    BY <2>3, <2>4
<1> QED
  BY <1>0, <1>2, <1>3, <1>4 DEF LoadOrCreatePair, Go

\* A certificate is signed by the CA that is stored.
LEMMA SignInv ==
    ASSUME IInv, NEW w \in Workers, SignCSR(w)
    PROVE  IInv'
<1> DEFINE r == req[w]
<1>0. r \in Reqs /\ r.ca = setting.ca /\ r.ca \in Signers /\ dmn \in Daemons /\ issued \in [{Foreign} \cup Keys -> Cert] /\ RowTypes /\ DaemonTypes
  BY Facts DEF ReqTypes, DaemonTypes, CertTypes, SignCSR, IInv, SignsStored, Signers, Reqs
<1>1. UNCHANGED <<enr, cas, setting, mat, pool, files, faults>> /\ req' = [req EXCEPT ![w] = Idle] /\ issued' = [issued EXCEPT ![r.key].ca = r.ca]
  BY DEF SignCSR, Finish, Go, SignedBy
<1>2. node' = (IF Exists(r.n) THEN [node EXCEPT ![r.n].serial = r.key] ELSE node)
      /\ dmn' = (IF dmn.at = "csr" /\ dmn.key = r.key THEN [dmn EXCEPT !.at = "write"] ELSE dmn)
  BY DEF SignCSR
<1>3. CertTypes'
  BY <1>0, <1>1 DEF CertTypes, Cert
<1>4. CATypes' /\ OneCA'
  <2>1. \A k \in Keys : issued'[k].ca \in {issued[k].ca, setting.ca}
    BY <1>0, <1>1 DEF Cert
  <2> QED
    BY <1>1, <2>1, Facts DEF CATypes, IInv, OneCA
<1>5. node' \in [Rows -> Node] /\ SameEnrolled
  <2>1. node \in [Rows -> Node] /\ r.key \in Serials
    BY <1>0 DEF RowTypes, Reqs
  <2> QED
    BY <1>2, <2>1 DEF Node, SameEnrolled
<1>6. RowTypes'
  BY <1>0, <1>1, <1>5 DEF RowTypes
<1>7. dmn' \in Daemons /\ (dmn'.at \in {"csr", "write"} => dmn'.key \in Keys)
  BY <1>0, <1>2 DEF Daemons, DaemonTypes
<1>8. DaemonTypes'
  BY <1>0, <1>1, <1>7 DEF DaemonTypes
<1> QED
  BY <1>1, <1>3, <1>4, <1>5, <1>6, <1>8, IdleReq, ReqStep, TypesNext DEF IInv

LEMMA HeartbeatInv ==
    ASSUME IInv, NEW w \in Workers, UpdateNodeHeartbeat(w) \/ GetNode(w)
    PROVE  IInv'
<1> DEFINE r == req[w]
<1>0. r \in Reqs /\ node \in [Rows -> Node] /\ RowTypes /\ (Exists(r.n) => r.n \in Rows)
  BY Facts DEF ReqTypes, RowTypes, Exists, Reqs
<1>1. UNCHANGED <<enr, cas, setting, issued, mat, pool, dmn, files, faults>>
  BY DEF UpdateNodeHeartbeat, GetNode
<1>2. DaemonTypes'
  BY <1>1, DaemonAlone, FaultCounts
<1>3. CASE UpdateNodeHeartbeat(w)
  <2>1. CASE Exists(r.n)
    <3> DEFINE d == [node[r.n] EXCEPT !.st = r.status, !.mtls = @ \/ AcceptsAdvert(r)]
    <3>1. node' = [node EXCEPT ![r.n] = d] /\ req' = [req EXCEPT ![w] = [r EXCEPT !.at = "fetch"]]
      BY <1>3, <2>1 DEF UpdateNodeHeartbeat, Go
    <3>2. node[r.n] \in Node /\ r.status \in {"online", "offline"} /\ (node[r.n].mtls \/ AcceptsAdvert(r)) \in BOOLEAN
      BY <1>0, <2>1 DEF Reqs
    <3>3. d \in Node /\ d.enrolled = node[r.n].enrolled
      BY <3>2 DEF Node
    <3> HIDE DEF d
    <3>4. node' \in [Rows -> Node] /\ SameEnrolled
      BY <1>0, <2>1, <3>1, <3>3, WriteRow
    <3>5. RowTypes'
      BY <1>0, <1>1, <3>4 DEF RowTypes
    <3> QED
      BY <1>1, <1>2, <3>1, <3>4, <3>5, ReqAt, RequestOnly
  <2>2. CASE ~Exists(r.n)
    <3>1. node' = node /\ req' = [req EXCEPT ![w] = Idle]
      BY <1>3, <2>2 DEF UpdateNodeHeartbeat, Finish, Go
    <3> QED
      BY <1>1, <3>1, IdleReq, Goes
  <2> QED
    BY <2>1, <2>2
<1>4. CASE GetNode(w)
  <2> DEFINE q == [r EXCEPT !.at = "pool", !.mtls = node[r.n].mtls]
  <2>1. node' = node /\ (req' = [req EXCEPT ![w] = Idle] \/ (Exists(r.n) /\ req' = [req EXCEPT ![w] = q]))
    BY <1>4 DEF GetNode, Finish, Go
  <2>2. Exists(r.n) => q \in Reqs /\ q.at = "pool"
    BY <1>0 DEF Reqs, Node
  <2> HIDE DEF q
  <2> QED
    BY <1>1, <2>1, <2>2, IdleReq, Goes
<1> QED
  BY <1>3, <1>4

LEMMA PoolInv ==
    ASSUME IInv, NEW w \in Workers, Register(w) \/ Remove(w)
    PROVE  IInv'
<1>1. UNCHANGED <<enr, node, cas, setting, issued, mat, dmn, files, faults>> /\ req' = [req EXCEPT ![w] = Idle]
  BY DEF Register, Remove, Finish, Go
<1>2. PICK x \in Clients : pool' = [pool EXCEPT ![req[w].n] = x]
  BY DEF Register, Remove, Clients
<1>3. RowTypes' /\ SameEnrolled
  BY <1>1, <1>2, Facts DEF RowTypes, SameEnrolled
<1> QED
  BY <1>1, <1>3, IdleReq, DaemonAlone, FaultCounts, RequestOnly

\* A panel start takes what is stored, or stores the first.
LEMMA PanelInv ==
    ASSUME IInv, NEW ok \in BOOLEAN, PanelRestarts(ok)
    PROVE  IInv'
<1>0. CATypes /\ setting \in Setting /\ RowTypes
  BY Facts DEF CATypes
<1>1. UNCHANGED <<enr, node, issued, dmn, files>> /\ faults' \in Nat /\ req' = [v \in Workers |-> Idle] /\ pool' = [n \in Rows |-> "none"]
  BY FaultCounts DEF PanelRestarts
<1>2. RowTypes' /\ SameEnrolled
  BY <1>0, <1>1 DEF RowTypes, SameEnrolled, Clients
<1>3. req' \in [Workers -> Reqs] /\ \A v \in Workers : req'[v].at = "idle"
  BY <1>1, IdleReq
<1>4. ReqTypes' /\ SignsStored' /\ RedeemsAlone'
  BY <1>1, <1>3 DEF ReqTypes, SignsStored, IInv, RedeemsAlone
<1>5. CATypes' /\ OneCA'
  <2>1. CASE ~ok
    BY <1>0, <1>1, <2>1 DEF PanelRestarts, SetTLSMaterial, CATypes, IInv, OneCA
  <2>2. CASE ok
    <3>1. PICK ca \in IF setting.ca = None THEN CAs \ cas ELSE {setting.ca} :
            cas' = cas \cup {ca} /\ setting' = PanelClientCert([setting EXCEPT !.ca = ca], ca) /\ mat' = ca
      BY <2>2 DEF PanelRestarts, SetTLSMaterial
    <3>2. ca \in CAs /\ setting.ca \in {None, ca}
      BY <1>0, <3>1 DEF Setting
    <3>3. setting' \in Setting /\ setting'.ca = ca
      BY <1>0, <3>1, <3>2 DEF PanelClientCert, UsablePanelCert, Setting
    <3>4. CATypes'
      BY <1>0, <3>1, <3>2, <3>3 DEF CATypes
    <3>5. OneCA'
      BY <1>1, <3>1, <3>2, <3>3 DEF IInv, OneCA
    <3> QED
      BY <3>4, <3>5
  <2> QED
    BY <2>1, <2>2
<1> QED
  BY <1>1, <1>2, <1>4, <1>5, CertsAlone, DaemonAlone, TypesNext DEF IInv

-----------------------------------------------------------------------------
(* The invariant *)

LEMMA InitInv == Init => IInv
<1> SUFFICES ASSUME Init PROVE IInv
  OBVIOUS
<1>0. None \in Serials /\ Foreign \in Serials /\ None \in Signers /\ Foreign \in Signers /\ 2 \in CAs /\ 1 \in Rows
  BY Names DEF Serials, Signers
<1>1. PICK origin \in Origins : Init!(origin)
  BY DEF Init
<1>2. RowTypes
  BY <1>0, <1>1 DEF RowTypes, NoRow, Node, Clients
<1>3. CATypes
  BY <1>0, <1>1 DEF CATypes, Setting
<1>4. CertTypes /\ \A k \in Keys : issued[k].ca = None
  BY <1>0, <1>1, Names DEF CertTypes, Cert, NoCert
<1>5. req = [w \in Workers |-> Idle]
  BY <1>1
<1>6. ReqTypes /\ SignsStored
  BY <1>5, IdleReq DEF ReqTypes, SignsStored
<1>7. DaemonTypes
  <2>1. dmn \in Daemons /\ dmn.at \in {"down", "new"}
    BY <1>0, <1>1 DEF Daemons
  <2>2. files \in Files /\ faults = 0
    BY <1>0, <1>1 DEF Files, NoFiles
  <2> QED
    BY <2>1, <2>2 DEF DaemonTypes
<1>8. RedeemsAlone
  <2>1. \A n \in Rows : ~node[n].enrolled
    BY <1>1 DEF NoRow
  <2> QED
    BY <1>5, <2>1, IdleReq DEF RedeemsAlone
<1>9. OneCA
  BY <1>1, <1>4 DEF OneCA
<1> QED
  BY <1>2, <1>3, <1>4, <1>6, <1>7, <1>8, <1>9, Types DEF IInv

LEMMA NextInv == IInv /\ [Next]_vars => IInv'
<1> SUFFICES ASSUME IInv, [Next]_vars PROVE IInv'
  OBVIOUS
<1>1. CASE UNCHANGED vars
  <2>1. UNCHANGED <<enr, node, cas, setting, issued, mat, pool, req, dmn, files, faults>>
    BY <1>1 DEF vars
  <2> QED
    BY <2>1, DaemonAlone, FaultCounts, DaemonOnly
<1>2. CASE Daemon \/ RedeemFails \/ CsrFails \/ CertAges \/ DaemonCrashes \/ EnrollmentExpires \/ HandleCreateEnrollment \/ NodeEnrollCmd
  BY <1>2, DaemonInv, SendCsrInv, TokenInv DEF Daemon, HandleCreateEnrollment, NodeEnrollCmd
<1>3. ASSUME NEW n \in Rows, HandleRegisterNode(n) \/ \E status \in Statuses : HandleUpdateNodeStatus(n, status) PROVE IInv'
  BY <1>3, RegisterNodeInv, AdminInv
<1>4. ASSUME NEW ok \in BOOLEAN, PanelRestarts(ok) PROVE IInv'
  BY <1>4, PanelInv
<1>5. ASSUME NEW w \in Workers, Serve(w) PROVE IInv'
  BY <1>5, RedeemLookInv, RedeemInv, CheckCsrInv, PairInv, SignInv, HeartbeatInv, PoolInv
     DEF Serve, HandleRedeem, HandleSignCSR, NodeHeartbeat
<1>6. ASSUME NEW w \in Workers, SendRedeem(w) \/ SendHeartbeat(w) \/ DaemonStops(w) \/ \E n \in Rows : HandleDeleteNode(w, n) PROVE IInv'
  BY <1>6, BeginInv, AdminInv
<1> QED
  BY <1>1, <1>2, <1>3, <1>4, <1>5, <1>6 DEF Next

\* Everything signed comes from what is stored, and one transaction has the token.
THEOREM Inductive == Spec => []IInv
  BY InitInv, NextInv, PTL DEF Spec

\* The types of the rows, the material, the requests and the daemon.
THEOREM TypeCorrect == Spec => []TypeOK
<1>1. IInv => TypeOK
  BY DEF IInv
<1> QED
  BY <1>1, Inductive, PTL

\* However many requests, and however many starts of the panel, find no CA at once,
\* there is one that signs (loadOrCreatePair's insert and second read).
THEOREM OneCAAlways == Spec => []OneCA
<1>1. IInv => OneCA
  BY DEF IInv
<1> QED
  BY <1>1, Inductive, PTL

\* However often a token is redeemed, it makes one node (Redeem under FOR UPDATE).
THEOREM EnrolledOnceAlways == Spec => []EnrolledOnce
<1>1. IInv => EnrolledOnce
  <2> SUFFICES ASSUME IInv PROVE EnrolledOnce
    OBVIOUS
  <2> DEFINE S == {n \in Rows : node[n].enrolled}
  <2>1. \A m, n \in S : m = n
    BY DEF IInv, RedeemsAlone
  <2>2. CASE S = {}
    <3>1. Cardinality(S) = 0
      BY <2>2, FS_EmptySet
    <3> QED
      BY <3>1 DEF EnrolledOnce
  <2>3. CASE S # {}
    <3>1. PICK n : S = {n}
      BY <2>1, <2>3
    <3>2. Cardinality(S) = 1
      BY <3>1, FS_Singleton
    <3> QED
      BY <3>2 DEF EnrolledOnce
  <2> QED
    BY <2>2, <2>3
<1> QED
  BY <1>1, Inductive, PTL

-----------------------------------------------------------------------------
(* Trust *)

\* What the daemon holds depends on the CA, the certificates, its node and its files.
LEMMA SameHeld ==
    ASSUME UNCHANGED <<setting, issued, files>>, dmn'.node = dmn.node
    PROVE  /\ Held' <=> Held
           /\ \A k : Signed(k)' <=> Signed(k)
           /\ ValidFiles' <=> ValidFiles
  BY DEF Held, Signed, ValidFiles

LEMMA TrustFacts ==
    ASSUME IInv, Trust
    PROVE  /\ DaemonHolds /\ RequestsKnow /\ PanelTrusts /\ RowTypes /\ CATypes /\ CertTypes /\ ReqTypes /\ DaemonTypes
           /\ \A k \in Keys : issued[k].ca \in {None, setting.ca}
           /\ setting.ca = None => mat = None /\ ~Held /\ \A k : ~Signed(k)
  BY Facts DEF IInv, Trust, OneCA, Held, Signed

\* A step of the daemon that leaves its files alone.
LEMMA DaemonMoves ==
    ASSUME IInv, Trust, UNCHANGED <<node, setting, issued, mat, pool, req, files>>, dmn'.node = dmn.node, DaemonHolds'
    PROVE  Trust'
<1>1. RequestsKnow' /\ PanelTrusts'
  BY SameHeld DEF Trust, RequestsKnow, Knows, PanelTrusts
<1> QED
  BY <1>1 DEF Trust

LEMMA DaemonStartTrust ==
    ASSUME IInv, Trust, DaemonStart
    PROVE  Trust'
<1>0. dmn \in Daemons /\ files \in Files
  BY TrustFacts DEF DaemonTypes
<1>1. UNCHANGED <<node, setting, issued, mat, pool, req, files>> /\ dmn.at = "down" /\ dmn.node # 0
  BY DEF DaemonStart
<1>2. CASE ValidFiles
  <2>1. dmn'.node = dmn.node /\ dmn'.at = "up" /\ dmn'.serve = files.cert /\ files.cert # None
    BY <1>0, <1>2 DEF DaemonStart, Daemons, ValidFiles
  <2> QED
    BY <1>1, <2>1, SameHeld, DaemonMoves, TrustFacts DEF DaemonHolds
<1>3. CASE ~ValidFiles
  <2>1. dmn'.node = dmn.node /\ dmn'.at = "bootstrap" /\ dmn'.serve = dmn.serve
    BY <1>0, <1>3 DEF DaemonStart, Daemons
  <2> QED
    BY <1>1, <1>3, <2>1, SameHeld, DaemonMoves, TrustFacts DEF DaemonHolds
<1> QED
  BY <1>2, <1>3

\* A request for a certificate that fails, or a daemon that dies.
LEMMA DaemonFailsTrust ==
    ASSUME IInv, Trust, CsrFails \/ RedeemFails \/ DaemonCrashes
    PROVE  Trust'
<1>0. dmn \in Daemons
  BY TrustFacts DEF DaemonTypes
<1>1. UNCHANGED <<node, setting, issued, mat, pool, req, files>>
  BY DEF CsrFails, RedeemFails, DaemonCrashes
<1>2. CASE CsrFails
  <2>1. dmn'.node = dmn.node /\ dmn'.at \in {"bootstrap", "up"} /\ dmn'.serve = dmn.serve /\ dmn.at = "csr"
    BY <1>0, <1>2 DEF CsrFails, Daemons
  <2> QED
    BY <1>1, <2>1, SameHeld, DaemonMoves, TrustFacts DEF DaemonHolds
<1>3. CASE RedeemFails
  <2>1. dmn'.node = dmn.node /\ dmn'.at = "new" /\ dmn'.serve = dmn.serve /\ dmn.at = "enrolling"
    BY <1>0, <1>3 DEF RedeemFails, Daemons
  <2> QED
    BY <1>1, <2>1, SameHeld, DaemonMoves, TrustFacts DEF DaemonHolds
<1>4. CASE DaemonCrashes
  <2>1. dmn'.node = dmn.node /\ dmn'.at = "down" /\ dmn'.serve = None /\ dmn.at \notin {"new", "enrolling"}
    BY <1>0, <1>4 DEF DaemonCrashes, Daemons
  <2> QED
    BY <1>1, <2>1, SameHeld, DaemonMoves, TrustFacts DEF DaemonHolds
<1> QED
  BY <1>2, <1>3, <1>4

\* The three files: the CA first, so a certificate of this panel lies beside its CA.
LEMMA WritePkiTrust ==
    ASSUME IInv, Trust, WritePki
    PROVE  Trust'
<1>0. dmn \in Daemons /\ files \in Files /\ dmn.at = "write" /\ dmn.key \in Keys /\ Signed(dmn.key) /\ DaemonHolds
  BY TrustFacts DEF DaemonTypes, WritePki, DaemonHolds
<1>1. UNCHANGED <<node, setting, issued, mat, pool, req>> /\ issued[dmn.key].ca = setting.ca /\ None \notin Keys
  BY <1>0, Names DEF WritePki, Signed
<1>2. CASE files.ca # setting.ca
  <2>1. files' = [files EXCEPT !.ca = setting.ca] /\ dmn' = dmn
    BY <1>1, <1>2 DEF WritePki
  <2>2. files.cert \notin Keys /\ files'.cert = files.cert
    BY <1>0, <1>2, <2>1 DEF DaemonHolds, Held, Files
  <2>3. ~Held /\ DaemonHolds'
    BY <1>0, <1>1, <2>1, <2>2 DEF DaemonHolds, Held, Signed
  <2> QED
    BY <1>1, <2>1, <2>3 DEF Trust, RequestsKnow, Knows, PanelTrusts
<1>3. CASE files.ca = setting.ca /\ files.cert # dmn.key
  <2>1. files' = [files EXCEPT !.cert = dmn.key, !.old = FALSE] /\ dmn' = dmn
    BY <1>1, <1>3 DEF WritePki
  <2>2. files'.cert = dmn.key /\ files'.ca = setting.ca
    BY <1>0, <1>3, <2>1 DEF Files
  <2>3. Held' /\ dmn.serve = None
    BY <1>0, <1>1, <2>1, <2>2 DEF Held, Signed, DaemonHolds
  <2>4. DaemonHolds'
    BY <1>0, <1>1, <2>1, <2>2, <2>3 DEF DaemonHolds, Signed
  <2> QED
    BY <1>1, <2>1, <2>3, <2>4 DEF Trust, RequestsKnow, Knows, PanelTrusts
<1>4. CASE files.ca = setting.ca /\ files.cert = dmn.key
  <2>1. files' = [files EXCEPT !.key = dmn.key] /\ dmn' = [dmn EXCEPT !.at = "up", !.serve = dmn.key, !.key = None, !.tries = 0]
    BY <1>1, <1>4 DEF WritePki
  <2>2. files'.cert = files.cert /\ files'.ca = files.ca /\ dmn'.at = "up" /\ dmn'.node = dmn.node /\ dmn'.serve = files.cert
    BY <1>0, <1>4, <2>1 DEF Files, Daemons
  <2>3. Held /\ Held'
    BY <1>0, <1>1, <1>4, <2>2 DEF Held, Signed
  <2>4. DaemonHolds'
    BY <1>0, <1>1, <1>4, <2>2, <2>3 DEF DaemonHolds
  <2> QED
    BY <1>1, <2>2, <2>3, <2>4 DEF Trust, RequestsKnow, Knows, PanelTrusts
<1> QED
  BY <1>2, <1>3, <1>4

LEMMA CertAgesTrust ==
    ASSUME IInv, Trust, CertAges
    PROVE  Trust'
<1>0. files \in Files
  BY TrustFacts DEF DaemonTypes
<1>1. UNCHANGED <<node, setting, issued, mat, pool, req, dmn>> /\ files' = [files EXCEPT !.old = TRUE]
  BY DEF CertAges
<1>2. files'.cert = files.cert /\ files'.ca = files.ca /\ files'.old
  BY <1>0, <1>1 DEF Files
<1>3. (Held' <=> Held) /\ (\A k : Signed(k)' <=> Signed(k)) /\ ~ValidFiles'
  BY <1>1, <1>2 DEF Held, Signed, ValidFiles
<1>4. DaemonHolds'
  BY <1>1, <1>2, <1>3 DEF Trust, DaemonHolds
<1> QED
  BY <1>1, <1>3, <1>4 DEF Trust, RequestsKnow, Knows, PanelTrusts

\* A step of the panel, or of a request, beside a daemon that keeps what it holds.
LEMMA PanelMoves ==
    ASSUME IInv, Trust, UNCHANGED <<setting, mat>>, DaemonHolds', Held => Held', dmn'.node = dmn.node,
           \A k \in Keys : issued[k].node # 0 => issued'[k].node = issued[k].node,
           \A v \in Workers : req'[v] = req[v] \/ Knows(req[v])',
           \A n \in Rows : node'[n].serial \in {None} \cup Keys,
           \A n \in Rows : node[n].mtls => node'[n].mtls,
           \A n \in Rows : node'[n].mtls => Held' /\ n = dmn.node /\ node'[n].st # "none",
           \A n \in Rows : pool'[n] = "tls" => mat # None /\ node'[n].mtls
    PROVE  Trust'
<1>1. ASSUME NEW v \in Workers, req'[v] = req[v] PROVE Knows(req[v])'
  BY <1>1 DEF Trust, RequestsKnow, Knows
<1>2. RequestsKnow'
  BY <1>1 DEF RequestsKnow
<1>3. PanelTrusts'
  BY DEF Trust, PanelTrusts
<1> QED
  BY <1>2, <1>3 DEF Trust

\* Nothing but a request moves.
LEMMA RequestMoves ==
    ASSUME IInv, Trust, NEW w \in Workers, NEW r \in Reqs, req' = [req EXCEPT ![w] = r], UNCHANGED <<node, setting, mat, pool>>,
           DaemonHolds', Held => Held', dmn'.node = dmn.node, Knows(r)',
           \A k \in Keys : issued[k].node # 0 => issued'[k].node = issued[k].node
    PROVE  Trust'
<1>1. \A v \in Workers : req'[v] = req[v] \/ req'[v] = r
  BY TrustFacts DEF ReqTypes
<1>2. \A v \in Workers : req'[v] = req[v] \/ Knows(req[v])'
  BY <1>1 DEF Knows
<1> QED
  BY <1>2, PanelMoves DEF Trust, PanelTrusts

\* A fresh key is none the daemon holds.
LEMMA SendCsrTrust ==
    ASSUME IInv, Trust, NEW w \in Workers, SendCsr(w)
    PROVE  Trust'
<1>0. dmn \in Daemons /\ issued \in [{Foreign} \cup Keys -> Cert] /\ DaemonHolds /\ Keys \subseteq Serials
  BY TrustFacts DEF DaemonTypes, CertTypes, Serials
<1>1. PICK k \in Keys : /\ issued[k] = NoCert /\ dmn' = [dmn EXCEPT !.at = "csr", !.key = k] /\ issued' = [issued EXCEPT ![k].node = dmn.node]
                        /\ req' = [req EXCEPT ![w] = [Idle EXCEPT !.at = "auth", !.n = dmn.node, !.key = k]]
  BY DEF SendCsr, Begin
<1>2. UNCHANGED <<node, setting, mat, pool, files>> /\ dmn.at = "bootstrap"
  BY DEF SendCsr
<1>3. dmn'.node = dmn.node /\ dmn'.at = "csr" /\ dmn'.serve = dmn.serve /\ dmn.node # 0 /\ dmn.serve = None /\ ~ValidFiles
  BY <1>0, <1>1, <1>2 DEF Daemons, DaemonHolds
<1>4. issued'[k].node = dmn.node /\ issued[k].node = 0 /\ \A j \in {Foreign} \cup Keys : j # k => issued'[j] = issued[j]
  BY <1>0, <1>1 DEF Cert, NoCert
<1>5. files.cert # k
  BY <1>0, <1>3, <1>4 DEF DaemonHolds, Held, Signed
<1>6. Held => Held'
  BY <1>2, <1>3, <1>4, <1>5 DEF Held, Signed
<1>7. ~ValidFiles'
  <2>1. files.cert # None => files.cert \in {Foreign} \cup Keys
    BY TrustFacts DEF DaemonTypes, Files, Serials
  <2> QED
    BY <1>2, <1>3, <1>4, <1>5, <2>1 DEF ValidFiles
<1>8. DaemonHolds'
  BY <1>0, <1>2, <1>3, <1>6, <1>7 DEF DaemonHolds
<1> DEFINE r == [Idle EXCEPT !.at = "auth", !.n = dmn.node, !.key = k]
<1>9. r \in Reqs /\ r.at = "auth" /\ r.n = dmn.node /\ r.key = k
  BY <1>0, IdleReq DEF Reqs, Daemons
<1>10. PICK q \in Reqs : q.at = "auth" /\ q.n = dmn.node /\ q.key = k /\ req' = [req EXCEPT ![w] = q]
  BY <1>1, <1>9
<1>11. Knows(q)'
  BY <1>3, <1>4, <1>10 DEF Knows
<1> QED
  BY <1>2, <1>3, <1>4, <1>6, <1>8, <1>9, <1>10, <1>11, RequestMoves

\* An idle request asks nothing.
LEMMA IdleKnows == Knows(Idle) /\ Knows(Idle)'
  BY IdleReq DEF Knows

\* The installer's request, and a heartbeat: it advertises what is served.
LEMMA BeginTrust ==
    ASSUME IInv, Trust, NEW w \in Workers, SendRedeem(w) \/ SendHeartbeat(w) \/ DaemonStops(w)
    PROVE  Trust'
<1>0. dmn \in Daemons /\ DaemonHolds
  BY TrustFacts DEF DaemonTypes
<1>1. UNCHANGED <<node, setting, issued, mat, pool, files>>
  BY DEF SendRedeem, SendHeartbeat, DaemonStops
<1>2. CASE SendRedeem(w)
  <2> DEFINE r == [Idle EXCEPT !.at = "redeem"]
  <2>1. r \in Reqs /\ r.at = "redeem"
    BY IdleReq DEF Reqs
  <2>2. req' = [req EXCEPT ![w] = r] /\ dmn' = [dmn EXCEPT !.at = "enrolling"] /\ dmn.at = "new"
    BY <1>2 DEF SendRedeem, Begin
  <2> HIDE DEF r
  <2>3. dmn'.node = dmn.node /\ dmn'.at = "enrolling" /\ dmn'.serve = dmn.serve
    BY <1>0, <2>2 DEF Daemons
  <2>4. DaemonHolds'
    BY <1>0, <1>1, <2>2, <2>3, SameHeld DEF DaemonHolds
  <2>5. Knows(r)'
    BY <2>1 DEF Knows
  <2> QED
    BY <1>1, <2>1, <2>2, <2>3, <2>4, <2>5, SameHeld, RequestMoves
<1>3. ASSUME NEW status \in {"online", "offline"}, Beat(w, status), dmn' = dmn \/ dmn' = [dmn EXCEPT !.at = "down", !.serve = None]
      PROVE  Trust'
  <2> DEFINE r == [Idle EXCEPT !.at = "beat", !.n = dmn.node, !.key = dmn.serve, !.status = status]
  <2>1. r \in Reqs /\ r.at = "beat" /\ r.n = dmn.node /\ r.key = dmn.serve
    BY <1>0, IdleReq DEF Reqs, Daemons
  <2>2. dmn.at = "up" /\ \E q \in Reqs : q.at = "beat" /\ q.n = dmn.node /\ q.key = dmn.serve /\ req' = [req EXCEPT ![w] = q]
    BY <1>3, <2>1 DEF Beat, Begin
  <2>7. PICK q \in Reqs : q.at = "beat" /\ q.n = dmn.node /\ q.key = dmn.serve /\ req' = [req EXCEPT ![w] = q]
    BY <2>2
  <2>3. dmn'.node = dmn.node /\ (dmn' = dmn \/ (dmn'.at = "down" /\ dmn'.serve = None))
    BY <1>0, <1>3 DEF Daemons
  <2>4. DaemonHolds'
    BY <1>0, <1>1, <2>2, <2>3, SameHeld DEF DaemonHolds
  <2>5. dmn.serve \in Keys => Held
    BY <1>0, Names DEF DaemonHolds
  <2>6. Knows(q)'
    BY <1>1, <2>3, <2>5, <2>7, SameHeld DEF Knows
  <2> QED
    BY <1>1, <2>3, <2>4, <2>6, <2>7, SameHeld, RequestMoves
<1> QED
  BY <1>2, <1>3 DEF SendHeartbeat, DaemonStops

\* A request that ends or goes on beside a daemon that stays as it is.
LEMMA GoesTrust ==
    ASSUME IInv, Trust, NEW w \in Workers, NEW r \in Reqs, req' = [req EXCEPT ![w] = r], Knows(r),
           UNCHANGED <<node, setting, issued, mat, pool, dmn, files>>
    PROVE  Trust'
<1>1. DaemonHolds' /\ (Held <=> Held')
  BY SameHeld, TrustFacts DEF DaemonHolds
<1>2. Knows(r)'
  BY <1>1 DEF Knows
<1> QED
  BY <1>1, <1>2, RequestMoves

\* The token, and the refusal of a request.
LEMMA TokenTrust ==
    ASSUME IInv, Trust, EnrollmentExpires \/ Create \/ UNCHANGED vars
    PROVE  Trust'
<1>1. UNCHANGED <<node, setting, issued, mat, pool, req, dmn, files>>
  BY DEF EnrollmentExpires, Create, vars
<1>2. DaemonHolds'
  BY <1>1, SameHeld, TrustFacts DEF DaemonHolds
<1> QED
  BY <1>1, <1>2, DaemonMoves

LEMMA RedeemLookTrust ==
    ASSUME IInv, Trust, NEW w \in Workers, RedeemLook(w)
    PROVE  Trust'
<1> DEFINE r == [req[w] EXCEPT !.at = "redeemed"]
<1>1. r \in Reqs /\ r.at = "redeemed"
  BY TrustFacts DEF ReqTypes, Reqs
<1>2. Knows(r)
  BY <1>1 DEF Knows
<1>3. UNCHANGED <<node, setting, issued, mat, pool, dmn, files>> /\ (req' = [req EXCEPT ![w] = r] \/ req' = [req EXCEPT ![w] = Idle])
  BY DEF RedeemLook, Go
<1> HIDE DEF r
<1> QED
  BY <1>1, <1>2, <1>3, IdleReq, IdleKnows, GoesTrust

\* A new row is trusted by nobody, and a daemon without a node holds nothing.
LEMMA InsertTrust ==
    ASSUME IInv, Trust, NEW n \in Rows, NEW enrolled \in BOOLEAN, InsertNode(n, enrolled), UNCHANGED <<setting, issued, mat, pool, files>>,
           dmn' = dmn \/ (dmn.at \in {"new", "enrolling"} /\ dmn' = [dmn EXCEPT !.at = "down", !.node = n]),
           \A v \in Workers : req'[v] \in {req[v], Idle}
    PROVE  Trust'
<1>0. dmn \in Daemons /\ DaemonHolds /\ RequestsKnow /\ PanelTrusts /\ node \in [Rows -> Node] /\ None \in Serials /\ 0 \notin Rows
  BY TrustFacts, Names DEF DaemonTypes, RowTypes, Serials
<1>1. node' = [node EXCEPT ![n] = [NoRow EXCEPT !.st = "offline", !.enrolled = enrolled]] /\ node[n].st = "none"
  BY DEF InsertNode
<1>2. ~node[n].mtls /\ ~node'[n].mtls /\ node'[n].serial = None /\ \A m \in Rows \ {n} : node'[m] = node[m]
  BY <1>0, <1>1 DEF PanelTrusts, NoRow, Node
<1>3. CASE dmn' = dmn
  <2>1. DaemonHolds' /\ (Held' <=> Held)
    BY <1>0, <1>3, SameHeld DEF DaemonHolds
  <2>2. \A v \in Workers : req'[v] = req[v] \/ Knows(req[v])'
    BY IdleKnows DEF Knows
  <2> QED
    BY <1>0, <1>2, <1>3, <2>1, <2>2, PanelMoves DEF PanelTrusts
<1>4. CASE dmn.at \in {"new", "enrolling"} /\ dmn' = [dmn EXCEPT !.at = "down", !.node = n]
  <2>1. dmn'.at = "down" /\ dmn'.node = n /\ dmn'.serve = dmn.serve /\ dmn.node = 0
    BY <1>0, <1>4 DEF Daemons, DaemonHolds
  <2>2. ~Held /\ files.cert \notin Keys /\ dmn.serve = None
    BY <1>0, <1>4, <2>1 DEF Held, Signed, DaemonHolds
  <2>3. DaemonHolds'
    BY <1>0, <2>1, <2>2 DEF DaemonHolds
  <2>4. \A m \in Rows : ~node[m].mtls
    BY <1>0, <2>2 DEF PanelTrusts
  <2>5. PanelTrusts'
    BY <1>0, <1>2, <2>4 DEF PanelTrusts
  <2>6. \A v \in Workers : Knows(req[v]) /\ ~(req[v].at = "pool" /\ req[v].mtls)
    BY <1>0, <2>4 DEF RequestsKnow, Knows
  <2>7. \A v \in Workers : req[v].at \notin {"auth", "csr", "store", "reread", "sign"} /\ ~(req[v].at = "beat" /\ req[v].key \in Keys)
    BY <2>1, <2>2, <2>6 DEF Knows
  <2>8. RequestsKnow'
    BY <2>6, <2>7, IdleReq DEF RequestsKnow, Knows
  <2> QED
    BY <2>3, <2>5, <2>8 DEF Trust
<1> QED
  BY <1>3, <1>4

LEMMA RedeemTrust ==
    ASSUME IInv, Trust, (\E w \in Workers : Redeem(w)) \/ \E n \in Rows : HandleRegisterNode(n)
    PROVE  Trust'
<1>0. req \in [Workers -> Reqs]
  BY TrustFacts DEF ReqTypes
<1>1. ASSUME NEW w \in Workers, Redeem(w) PROVE Trust'
  <2>1. PICK n \in Rows : InsertNode(n, TRUE) /\ dmn' = IF dmn.at = "enrolling" THEN [dmn EXCEPT !.at = "down", !.node = n] ELSE dmn
    BY <1>1 DEF Redeem
  <2>2. UNCHANGED <<setting, issued, mat, pool, files>> /\ req' = [req EXCEPT ![w] = Idle]
    BY <1>1 DEF Redeem, Finish, Go
  <2>3. \A v \in Workers : req'[v] \in {req[v], Idle}
    BY <1>0, <2>2
  <2> QED
    BY <2>1, <2>2, <2>3, InsertTrust
<1>2. ASSUME NEW n \in Rows, HandleRegisterNode(n) PROVE Trust'
  BY <1>2, InsertTrust DEF HandleRegisterNode
<1> QED
  BY <1>1, <1>2

LEMMA CheckCsrTrust ==
    ASSUME IInv, Trust, NEW w \in Workers, CheckCsr(w)
    PROVE  Trust'
<1> DEFINE r == [req[w] EXCEPT !.at = "csr"]
<1>1. r \in Reqs /\ r.at = "csr" /\ r.key = req[w].key /\ r.n = req[w].n
  BY TrustFacts DEF ReqTypes, Reqs
<1>2. req[w].at = "auth" /\ Knows(req[w])
  BY TrustFacts DEF CheckCsr, RequestsKnow
<1>3. Knows(r)
  BY <1>1, <1>2 DEF Knows
<1>4. UNCHANGED <<node, setting, issued, mat, pool, dmn, files>> /\ (req' = [req EXCEPT ![w] = r] \/ req' = [req EXCEPT ![w] = Idle])
  BY DEF CheckCsr, Go, Finish
<1> HIDE DEF r
<1> QED
  BY <1>1, <1>3, <1>4, IdleReq, IdleKnows, GoesTrust

\* While no CA is stored nothing of this panel is held, so any may be stored.
LEMMA FirstCA ==
    ASSUME IInv, Trust, setting.ca = None, UNCHANGED <<node, issued, dmn, files>>,
           mat' # None => setting' = [ca |-> mat', panel |-> mat'],
           \A n \in Rows : pool'[n] # "tls",
           \A v \in Workers : \/ req'[v] = Idle
                              \/ req'[v] = req[v]
                              \/ /\ req[v].at = "store" /\ req'[v].at = "reread"
                                 /\ req'[v].key = req[v].key /\ req'[v].n = req[v].n
    PROVE  Trust'
<1>0. DaemonHolds /\ RequestsKnow /\ PanelTrusts /\ ~Held /\ \A k : ~Signed(k)
  BY TrustFacts
<1>1. files.cert \notin Keys /\ dmn.at # "write" /\ \A n \in Rows : ~node[n].mtls
  BY <1>0 DEF DaemonHolds, PanelTrusts
<1>2. ValidFiles' <=> ValidFiles
  BY DEF ValidFiles
<1>3. DaemonHolds'
  BY <1>0, <1>1, <1>2 DEF DaemonHolds
<1>4. PanelTrusts'
  BY <1>0, <1>1 DEF PanelTrusts
<1>5. \A v \in Workers : /\ Knows(req[v]) /\ ~(req[v].at = "pool" /\ req[v].mtls)
                         /\ ~(req[v].at = "beat" /\ req[v].key \in Keys)
  BY <1>0, <1>1 DEF RequestsKnow, Knows
<1>6. RequestsKnow'
  BY <1>5, IdleReq DEF RequestsKnow, Knows
<1> QED
  BY <1>3, <1>4, <1>6 DEF Trust

LEMMA PairTrust ==
    ASSUME IInv, Trust, NEW w \in Workers, MTLSCA(w)
    PROVE  Trust'
<1>0. UNCHANGED <<node, issued, mat, pool, dmn, files>> /\ LoadOrCreatePair(w) /\ setting \in Setting /\ PanelTrusts
      /\ req \in [Workers -> Reqs] /\ Knows(req[w]) /\ req[w] \in Reqs
  BY TrustFacts DEF MTLSCA, CATypes, ReqTypes, RequestsKnow
<1>1. ASSUME NEW at \in {"sign", "store"}, NEW ca \in {None} \cup CAs, req[w].at \in {"csr", "reread"}, setting' = setting,
             req' = [req EXCEPT ![w] = [req[w] EXCEPT !.at = at, !.ca = ca]]
      PROVE  Trust'
  <2> DEFINE r == [req[w] EXCEPT !.at = at, !.ca = ca]
  <2>1. r \in Reqs /\ r.at = at
    BY <1>0 DEF Reqs
  <2>2. r.n = req[w].n /\ r.key = req[w].key
    BY <1>0 DEF Reqs
  <2>3. Knows(r)
    <3> HIDE DEF r
    <3> QED
      BY <1>0, <1>1, <2>1, <2>2 DEF Knows
  <2>4. req' = [req EXCEPT ![w] = r]
    BY <1>1
  <2> HIDE DEF r
  <2> QED
    BY <1>0, <1>1, <2>1, <2>3, <2>4, GoesTrust
<1>2. ASSUME req[w].at = "store", SetIfAbsent(req[w].ca), req' = [req EXCEPT ![w] = [req[w] EXCEPT !.at = "reread"]] PROVE Trust'
  <2> DEFINE r == [req[w] EXCEPT !.at = "reread"]
  <2>1. r \in Reqs /\ r.at = "reread" /\ r.n = req[w].n /\ r.key = req[w].key
    BY <1>0 DEF Reqs
  <2>2. req' = [req EXCEPT ![w] = r]
    BY <1>2
  <2> HIDE DEF r
  <2>3. CASE setting.ca # None
    <3>1. setting' = setting
      BY <1>2, <2>3 DEF SetIfAbsent
    <3>2. Knows(r)
      BY <1>0, <1>2, <2>1 DEF Knows
    <3> QED
      BY <1>0, <2>1, <2>2, <3>1, <3>2, GoesTrust
  <2>4. CASE setting.ca = None
    <3>1. mat = None /\ \A n \in Rows : pool[n] # "tls"
      BY <1>0, <2>4, TrustFacts DEF PanelTrusts
    <3>2. req'[w] = r /\ \A v \in Workers \ {w} : req'[v] = req[v]
      BY <1>0, <2>2
    <3> QED
      BY <1>0, <1>2, <2>1, <2>4, <3>1, <3>2, FirstCA
  <2> QED
    BY <2>3, <2>4
<1>3. setting.ca \in {None} \cup CAs
  BY <1>0 DEF Setting
<1>4. ASSUME req[w].at \in {"csr", "reread"}, setting.ca # None, req' = [req EXCEPT ![w] = [req[w] EXCEPT !.at = "sign", !.ca = setting.ca]],
             setting' = setting
      PROVE  Trust'
  <2>1. PICK ca \in {None} \cup CAs : ca = setting.ca
    BY <1>3
  <2> QED
    BY <1>1, <1>4, <2>1
<1> QED
  BY <1>0, <1>1, <1>2, <1>4 DEF LoadOrCreatePair, Go

\* A panel start: an empty pool, and the material of what is stored.
LEMMA PanelTrust ==
    ASSUME IInv, Trust, NEW ok \in BOOLEAN, PanelRestarts(ok)
    PROVE  Trust'
<1>0. setting \in Setting /\ DaemonHolds /\ PanelTrusts
  BY TrustFacts DEF CATypes
<1>1. UNCHANGED <<node, issued, dmn, files>> /\ (\A v \in Workers : req'[v] = Idle) /\ \A n \in Rows : pool'[n] # "tls"
  BY DEF PanelRestarts
<1>2. mat' # None => setting' = [ca |-> mat', panel |-> mat'] /\ setting.ca \in {None, mat'}
  <2>1. CASE ~ok
    BY <2>1 DEF PanelRestarts, SetTLSMaterial
  <2>2. CASE ok
    <3>1. PICK ca \in IF setting.ca = None THEN CAs \ cas ELSE {setting.ca} :
            setting' = PanelClientCert([setting EXCEPT !.ca = ca], ca) /\ mat' = ca
      BY <2>2 DEF PanelRestarts, SetTLSMaterial
    <3>2. setting' = [ca |-> ca, panel |-> ca]
      BY <1>0, <3>1 DEF PanelClientCert, UsablePanelCert, Setting
    <3> QED
      BY <3>1, <3>2
  <2> QED
    BY <2>1, <2>2
<1>3. CASE setting.ca = None
  BY <1>1, <1>2, <1>3, FirstCA
<1>4. CASE setting.ca # None
  <2>1. setting'.ca = setting.ca
    <3>1. CASE ~ok
      BY <3>1 DEF PanelRestarts
    <3>2. CASE ok
      BY <1>0, <1>4, <3>2 DEF PanelRestarts, PanelClientCert, UsablePanelCert, Setting
    <3> QED
      BY <3>1, <3>2
  <2>2. (Held' <=> Held) /\ (\A k : Signed(k)' <=> Signed(k)) /\ (ValidFiles' <=> ValidFiles)
    BY <1>1, <2>1 DEF Held, Signed, ValidFiles
  <2>3. DaemonHolds'
    BY <1>0, <1>1, <2>2 DEF DaemonHolds
  <2>4. PanelTrusts'
    BY <1>0, <1>1, <1>2, <2>2 DEF PanelTrusts
  <2>5. RequestsKnow'
    BY <1>1, IdleReq DEF RequestsKnow, Knows
  <2> QED
    BY <2>3, <2>4, <2>5 DEF Trust
<1> QED
  BY <1>3, <1>4

\* A certificate for the key of a request: the daemon's node, and the CA that is stored.
LEMMA SignTrust ==
    ASSUME IInv, Trust, NEW w \in Workers, SignCSR(w)
    PROVE  Trust'
<1> DEFINE r == req[w]
<1>0. r \in Reqs /\ dmn \in Daemons /\ issued \in [{Foreign} \cup Keys -> Cert] /\ node \in [Rows -> Node] /\ req \in [Workers -> Reqs]
      /\ DaemonHolds /\ PanelTrusts /\ files \in Files
  BY TrustFacts DEF ReqTypes, DaemonTypes, CertTypes, RowTypes
<1>1. r.ca = setting.ca /\ setting.ca # None /\ r.key \in Keys /\ issued[r.key].node = dmn.node /\ dmn.node # 0
  BY TrustFacts DEF SignCSR, IInv, SignsStored, RequestsKnow, Knows
<1>2. UNCHANGED <<setting, mat, pool, files>> /\ req' = [req EXCEPT ![w] = Idle] /\ issued' = [issued EXCEPT ![r.key].ca = r.ca]
  BY DEF SignCSR, Finish, Go, SignedBy
<1>3. node' = (IF Exists(r.n) THEN [node EXCEPT ![r.n].serial = r.key] ELSE node)
      /\ dmn' = (IF dmn.at = "csr" /\ dmn.key = r.key THEN [dmn EXCEPT !.at = "write"] ELSE dmn)
  BY DEF SignCSR
<1>4. issued'[r.key] = [node |-> dmn.node, ca |-> setting.ca] /\ \A k \in {Foreign} \cup Keys : k # r.key => issued'[k] = issued[k]
  BY <1>0, <1>1, <1>2 DEF Cert
<1>5. dmn'.node = dmn.node /\ dmn'.serve = dmn.serve /\ (dmn' = dmn \/ (dmn.at = "csr" /\ dmn'.at = "write" /\ dmn'.key = r.key))
  BY <1>0, <1>3 DEF Daemons
<1>6. ASSUME NEW k \in Keys, Signed(k) PROVE issued'[k] = issued[k] /\ Signed(k)'
  BY <1>2, <1>4, <1>5, <1>6 DEF Signed
<1>7. Held => Held'
  BY <1>2, <1>5, <1>6 DEF Held
<1>8. issued'[files.cert] = issued[files.cert] \/ files.cert = None
  <2>1. CASE files.cert \in Keys
    BY <1>0, <1>6, <2>1 DEF DaemonHolds, Held
  <2>2. CASE files.cert \notin Keys
    BY <1>0, <1>1, <1>4, <2>2 DEF Files, Serials
  <2> QED
    BY <2>1, <2>2
<1>9. ValidFiles' => ValidFiles
  BY <1>2, <1>5, <1>8 DEF ValidFiles
<1>10. dmn'.at = "write" => Signed(dmn.key)'
  <2>1. CASE dmn' = dmn /\ dmn.at = "write"
    BY <1>0, <1>6, <2>1, TrustFacts DEF DaemonHolds, DaemonTypes
  <2>2. CASE dmn'.key = r.key
    BY <1>1, <1>2, <1>4, <1>5, <2>2 DEF Signed
  <2> QED
    BY <1>5, <2>1, <2>2
<1>11. DaemonHolds'
  BY <1>0, <1>2, <1>5, <1>7, <1>9, <1>10 DEF DaemonHolds
<1>12. \A n \in Rows : node'[n].mtls = node[n].mtls /\ node'[n].st = node[n].st /\ node'[n].serial \in {None} \cup Keys
  BY <1>0, <1>1, <1>3 DEF PanelTrusts, Node
<1>13. \A v \in Workers : req'[v] = req[v] \/ Knows(req[v])'
  BY <1>0, <1>2, IdleReq DEF Knows
<1>14. \A k \in Keys : issued'[k].node = issued[k].node
  BY <1>1, <1>4
<1> QED
  BY <1>0, <1>2, <1>5, <1>7, <1>11, <1>12, <1>13, <1>14, PanelMoves DEF PanelTrusts

\* A heartbeat turns mTLS on for the certificate on record, which the daemon holds.
LEMMA BeatTrust ==
    ASSUME IInv, Trust, NEW w \in Workers, UpdateNodeHeartbeat(w)
    PROVE  Trust'
<1> DEFINE r == req[w]
<1>0. r \in Reqs /\ node \in [Rows -> Node] /\ req \in [Workers -> Reqs] /\ Knows(r) /\ PanelTrusts
  BY TrustFacts DEF ReqTypes, RowTypes, RequestsKnow
<1>1. UNCHANGED <<setting, issued, mat, pool, dmn, files>> /\ r.at = "beat"
  BY DEF UpdateNodeHeartbeat
<1>2. DaemonHolds' /\ (Held' <=> Held)
  BY <1>1, SameHeld, TrustFacts DEF DaemonHolds
<1>3. CASE Exists(r.n)
  <2>1. node' = [node EXCEPT ![r.n].st = r.status, ![r.n].mtls = @ \/ AcceptsAdvert(r)] /\ req' = [req EXCEPT ![w] = [r EXCEPT !.at = "fetch"]]
    BY <1>3 DEF UpdateNodeHeartbeat, Go
  <2>2. [r EXCEPT !.at = "fetch"].at = "fetch"
    BY <1>0 DEF Reqs
  <2>3. \A v \in Workers : req'[v] = req[v] \/ req'[v].at = "fetch"
    BY <1>0, <2>1, <2>2
  <2>4. \A v \in Workers : req'[v] = req[v] \/ Knows(req[v])'
    BY <2>3 DEF Knows
  <2>5. r.n \in Rows /\ r.status # "none"
    BY <1>0, <1>3 DEF Exists, Reqs
  <2>6. \A n \in Rows \ {r.n} : node'[n] = node[n]
    BY <1>0, <2>1
  <2>7. node'[r.n].serial = node[r.n].serial /\ node'[r.n].st = r.status /\ node'[r.n].mtls = (node[r.n].mtls \/ AcceptsAdvert(r))
    BY <1>0, <2>1, <2>5 DEF Node
  <2>8. AcceptsAdvert(r) => r.key \in Keys
    BY <1>0, <2>5 DEF AcceptsAdvert, PanelTrusts
  <2>9. AcceptsAdvert(r) => Held /\ r.n = dmn.node
    BY <1>0, <1>1, <2>8 DEF Knows
  <2>10. \A n \in Rows : /\ node'[n].serial \in {None} \cup Keys /\ (node[n].mtls => node'[n].mtls)
                         /\ node'[n].mtls => Held /\ n = dmn.node /\ node'[n].st # "none"
    BY <1>0, <2>5, <2>6, <2>7, <2>9 DEF PanelTrusts
  <2> QED
    BY <1>0, <1>1, <1>2, <2>4, <2>10, PanelMoves DEF PanelTrusts
<1>4. CASE ~Exists(r.n)
  BY <1>1, <1>4, IdleReq, IdleKnows, GoesTrust DEF UpdateNodeHeartbeat, Finish, Go
<1> QED
  BY <1>3, <1>4

LEMMA GetNodeTrust ==
    ASSUME IInv, Trust, NEW w \in Workers, GetNode(w)
    PROVE  Trust'
<1> DEFINE r == [req[w] EXCEPT !.at = "pool", !.mtls = node[req[w].n].mtls]
<1>0. req[w] \in Reqs /\ node \in [Rows -> Node]
  BY TrustFacts DEF ReqTypes, RowTypes
<1>1. Exists(req[w].n) => r \in Reqs /\ r.at = "pool" /\ r.n = req[w].n /\ r.n \in Rows /\ r.mtls = node[r.n].mtls
  BY <1>0 DEF Reqs, Node, Exists
<1>2. UNCHANGED <<node, setting, issued, mat, pool, dmn, files>>
      /\ ((Exists(req[w].n) /\ req' = [req EXCEPT ![w] = r]) \/ req' = [req EXCEPT ![w] = Idle])
  BY DEF GetNode, Go, Finish
<1> HIDE DEF r
<1>3. Exists(req[w].n) => Knows(r)
  BY <1>1 DEF Knows
<1> QED
  BY <1>1, <1>2, <1>3, IdleReq, IdleKnows, GoesTrust

\* A client for a row that is trusted, and an administrator's writes.
LEMMA PoolTrust ==
    ASSUME IInv, Trust, NEW w \in Workers, Register(w) \/ Remove(w) \/ \E n \in Rows : HandleDeleteNode(w, n)
    PROVE  Trust'
<1>0. node \in [Rows -> Node] /\ pool \in [Rows -> Clients] /\ req \in [Workers -> Reqs] /\ PanelTrusts /\ Knows(req[w])
  BY TrustFacts DEF ReqTypes, RowTypes, RequestsKnow
<1>1. UNCHANGED <<setting, issued, mat, dmn, files>>
  BY DEF Register, Remove, HandleDeleteNode
<1>2. DaemonHolds' /\ (Held' <=> Held)
  BY <1>1, SameHeld, TrustFacts DEF DaemonHolds
<1>3. PICK q : req' = [req EXCEPT ![w] = q] /\ q.at \in {"idle", "evict"}
  <2>1. \A n \in Rows : [Idle EXCEPT !.at = "evict", !.n = n].at = "evict"
    BY DEF Idle
  <2> QED
    BY <2>1, IdleReq DEF Register, Remove, HandleDeleteNode, Begin, Finish, Go
<1>4. \A v \in Workers : req'[v] = req[v] \/ req'[v].at \in {"idle", "evict"}
  BY <1>0, <1>3
<1>5. \A v \in Workers : req'[v] = req[v] \/ Knows(req[v])'
  BY <1>4 DEF Knows
<1>6. \A n \in Rows : node'[n].serial = node[n].serial /\ node'[n].mtls = node[n].mtls /\ (node'[n].st = node[n].st \/ node'[n].st = "gone")
  <2>1. node' = node \/ \E n \in Rows : node' = [node EXCEPT ![n].st = "gone"]
    BY DEF Register, Remove, HandleDeleteNode, DeleteNode
  <2> QED
    BY <1>0, <2>1 DEF Node
<1>7. \A n \in Rows : pool'[n] = "tls" => mat # None /\ node[n].mtls
  <2>1. CASE Register(w)
    <3>1. pool' = [pool EXCEPT ![req[w].n] = IF req[w].mtls /\ mat # None THEN "tls" ELSE "plain"] /\ req[w].at = "pool"
      BY <2>1 DEF Register
    <3>2. req[w].mtls => node[req[w].n].mtls
      BY <1>0, <3>1 DEF Knows
    <3> QED
      BY <1>0, <3>1, <3>2 DEF PanelTrusts
  <2>2. CASE Remove(w) \/ \E n \in Rows : HandleDeleteNode(w, n)
    BY <1>0, <2>2 DEF Remove, HandleDeleteNode, PanelTrusts
  <2> QED
    BY <2>1, <2>2
<1> QED
  BY <1>0, <1>1, <1>2, <1>5, <1>6, <1>7, PanelMoves DEF PanelTrusts

LEMMA StatusTrust ==
    ASSUME IInv, Trust, NEW n \in Rows, NEW status \in Statuses, HandleUpdateNodeStatus(n, status)
    PROVE  Trust'
<1>0. node \in [Rows -> Node] /\ PanelTrusts /\ status # "none"
  BY TrustFacts, NodesAssumption DEF RowTypes
<1>1. UNCHANGED <<setting, issued, mat, pool, req, dmn, files>> /\ node' = [node EXCEPT ![n].st = status]
  BY DEF HandleUpdateNodeStatus, SetNodeStatus
<1>2. DaemonHolds' /\ (Held' <=> Held)
  BY <1>1, SameHeld, TrustFacts DEF DaemonHolds
<1>3. \A m \in Rows : node'[m].serial = node[m].serial /\ node'[m].mtls = node[m].mtls /\ (node'[m].st = node[m].st \/ node'[m].st # "none")
  BY <1>0, <1>1 DEF Node
<1> QED
  BY <1>0, <1>1, <1>2, <1>3, PanelMoves DEF PanelTrusts

-----------------------------------------------------------------------------
LEMMA InitTrust == Init => Trust
<1> SUFFICES ASSUME Init PROVE Trust
  OBVIOUS
<1>1. PICK origin \in Origins : Init!(origin)
  BY DEF Init
<1>2. files.cert \notin Keys /\ dmn.serve = None /\ dmn.at \in {"new", "down"} /\ (dmn.node = 0 <=> dmn.at = "new")
  BY <1>1, Names DEF NoFiles
<1>3. DaemonHolds
  BY <1>2 DEF DaemonHolds
<1>4. RequestsKnow
  BY <1>1, IdleReq DEF RequestsKnow, Knows
<1>5. PanelTrusts
  BY <1>1 DEF PanelTrusts, NoRow
<1> QED
  BY <1>3, <1>4, <1>5 DEF Trust

LEMMA NextTrust == IInv /\ Trust /\ [Next]_vars => Trust'
<1> SUFFICES ASSUME IInv, Trust, [Next]_vars PROVE Trust'
  OBVIOUS
<1>1. CASE Daemon \/ RedeemFails \/ CsrFails \/ CertAges \/ DaemonCrashes
  BY <1>1, DaemonStartTrust, WritePkiTrust, SendCsrTrust, DaemonFailsTrust, CertAgesTrust DEF Daemon
<1>2. CASE EnrollmentExpires \/ HandleCreateEnrollment \/ NodeEnrollCmd \/ UNCHANGED vars
  BY <1>2, TokenTrust DEF HandleCreateEnrollment, NodeEnrollCmd
<1>3. ASSUME NEW n \in Rows, HandleRegisterNode(n) \/ \E status \in Statuses : HandleUpdateNodeStatus(n, status) PROVE Trust'
  BY <1>3, RedeemTrust, StatusTrust
<1>4. ASSUME NEW ok \in BOOLEAN, PanelRestarts(ok) PROVE Trust'
  BY <1>4, PanelTrust
<1>5. ASSUME NEW w \in Workers, Serve(w) PROVE Trust'
  BY <1>5, RedeemLookTrust, RedeemTrust, CheckCsrTrust, PairTrust, SignTrust, BeatTrust, GetNodeTrust, PoolTrust
     DEF Serve, HandleRedeem, HandleSignCSR, NodeHeartbeat
<1>6. ASSUME NEW w \in Workers, SendRedeem(w) \/ SendHeartbeat(w) \/ DaemonStops(w) \/ \E n \in Rows : HandleDeleteNode(w, n) PROVE Trust'
  BY <1>6, BeginTrust, PoolTrust
<1> QED
  BY <1>1, <1>2, <1>3, <1>4, <1>5, <1>6 DEF Next

\* What the daemon holds and what the panel trusts agree: a row or a client that
\* demands TLS means that the daemon has, on its disk, a certificate of the stored CA.
THEOREM TrustInductive == Spec => []Trust
  BY Inductive, InitTrust, NextTrust, PTL DEF Spec

\* No order of enrolments, certificate requests, crashes between the three files,
\* heartbeats on their way and starts of either side makes the panel call a daemon
\* over TLS that presents a certificate it refuses (AcceptsAdvert, VerifyNodeCert).
THEOREM NeverLockedOutAlways == Spec => []NeverLockedOut
<1>1. IInv /\ Trust => NeverLockedOut
  <2> SUFFICES ASSUME IInv, Trust, dmn.at = "up", Exists(dmn.node), pool[dmn.node] = "tls"
               PROVE  /\ files.ca = setting.panel /\ files.cert \in Keys
                      /\ VerifyNodeCert(dmn.node, dmn.serve) \/ (dmn.serve = None /\ ~ValidFiles)
    BY DEF NeverLockedOut
  <2>1. dmn.node \in Rows /\ DaemonHolds /\ PanelTrusts /\ setting \in Setting
    BY TrustFacts DEF DaemonTypes, Daemons, Exists, CATypes
  <2>2. Held /\ mat # None /\ setting.panel = mat /\ setting.ca = mat
    BY <2>1 DEF PanelTrusts
  <2>3. dmn.serve # None => VerifyNodeCert(dmn.node, dmn.serve)
    BY <2>1, <2>2 DEF DaemonHolds, Held, Signed, VerifyNodeCert
  <2> QED
    BY <2>1, <2>2, <2>3 DEF DaemonHolds, Held
<1> QED
  BY <1>1, Inductive, TrustInductive, PTL
-----------------------------------------------------------------------------
(* Alerting, which heartbeats and reports of the nodes drive *)

CONSTANTS Users, Servers, Hosts, Staff, Requests, Ticker, MaxRules, MaxEvents, MaxChanges, Shapes, Loads
VARIABLES staff, member, silent, rule, event, job, fired, posting, lost, late, changes

A == INSTANCE Alerts WITH Nodes <- Hosts

\* Finite sets and their sizes are those of FiniteSets.
LEMMA AlertFinite == ASSUME NEW S PROVE A!IsFiniteSet(S) <=> IsFiniteSet(S)
  BY DEF A!IsFiniteSet, IsFiniteSet

LEMMA AlertSize == ASSUME NEW S PROVE A!Cardinality(S) = Cardinality(S)
  BY DEF A!Cardinality, Cardinality

LEMMA AlertNames ==
    ASSUME A!AlertsAssumption
    PROVE  /\ Ticker \in A!Workers /\ Ticker \notin Requests /\ Requests \subseteq A!Workers
           /\ IsFiniteSet(Requests) /\ Cardinality(Requests) \in Nat
           /\ \A S \in SUBSET A!Workers : IsFiniteSet(S) /\ Cardinality(S) \in Nat
           /\ \A S \in SUBSET A!Events : IsFiniteSet(S) /\ Cardinality(S) \in Nat
           /\ A!RuleIds \subseteq Nat /\ 0 \notin A!RuleIds
<1>1. IsFiniteSet(Requests) /\ MaxEvents \in Nat /\ MaxRules \in Nat /\ Ticker \notin Requests
  BY AlertFinite DEF A!AlertsAssumption
<1>2. IsFiniteSet({Ticker})
  BY FS_Singleton
<1>3. IsFiniteSet(A!Workers)
  BY <1>1, <1>2, FS_Union DEF A!Workers
<1>4. IsFiniteSet(A!Events)
  BY <1>1, FS_Interval DEF A!Events
<1>5. \A S \in SUBSET A!Workers : IsFiniteSet(S) /\ Cardinality(S) \in Nat
  BY <1>3, FS_Subset, FS_CardinalityType
<1>6. \A S \in SUBSET A!Events : IsFiniteSet(S) /\ Cardinality(S) \in Nat
  BY <1>4, FS_Subset, FS_CardinalityType
<1>7. Ticker \in A!Workers /\ Requests \subseteq A!Workers
  BY DEF A!Workers
<1>8. A!RuleIds \subseteq Nat /\ 0 \notin A!RuleIds
  BY <1>1 DEF A!RuleIds
<1> QED
  BY <1>1, <1>5, <1>6, <1>7, <1>8, FS_CardinalityType

LEMMA AlertIdle == A!Idle \in A!Jobs /\ A!Idle.at = "idle" /\ A!Idle.rules = {} /\ A!NoRule \in A!Rules /\ A!NoRule.st = "none"
<1>1. A!NoRule \in A!Rules /\ A!NoRule.st = "none"
  BY DEF A!NoRule, A!Rules, A!NoThreshold
<1> QED
  BY <1>1 DEF A!Idle, A!Jobs

LEMMA AlertGo ==
    ASSUME A!IInv, NEW w \in A!Workers, NEW j \in A!Jobs, A!Go(w, j)
    PROVE  job' \in [A!Workers -> A!Jobs] /\ job'[w] = j /\ \A v \in A!Workers : v # w => job'[v] = job[v]
<1>1. job \in [A!Workers -> A!Jobs]
  BY DEF A!IInv, A!TypeOK
<1> QED
  BY <1>1 DEF A!Go

\* Types of what evaluations do not touch.
AlertRows ==
    /\ staff \subseteq Users /\ member \subseteq Users \X Servers /\ silent \subseteq Hosts
    /\ rule \in [A!RuleIds -> A!Rules]
    /\ posting \subseteq A!RuleIds \X A!Workers /\ lost \subseteq A!RuleIds /\ late \subseteq A!Workers /\ changes \in Nat
    /\ fired \in [A!RuleIds -> Nat]
AlertEvents ==
    event \in [A!Events -> [rule : A!RuleIds \cup {0}, subject : Hosts \cup Servers \cup {A!None}, st : {"none", "open", "old", "resolved"}]]

LEMMA AlertTypes ==
    /\ A!TypeOK <=> AlertRows /\ AlertEvents /\ job \in [A!Workers -> A!Jobs]
    /\ A!TypeOK' <=> AlertRows' /\ AlertEvents' /\ job' \in [A!Workers -> A!Jobs]
  BY DEF A!TypeOK, AlertRows, AlertEvents

\* Rules that were made stay made, with their types and owners.
AlertKept ==
    \A r \in A!RuleIds :
        /\ rule[r] # A!NoRule => rule'[r] # A!NoRule
        /\ rule'[r].type = rule[r].type /\ rule'[r].owner = rule[r].owner

\* What RulesMade and Scoped say of one worker.
AlertFit(w) ==
    /\ \A r \in A!Turn(w) : r \in A!RuleIds /\ rule[r] # A!NoRule /\ rule[r].type = job[w].type
    /\ job[w].at \in {"rules", "insert", "notify"} => (job[w].type = "node_offline" <=> w = Ticker)
    /\ job[w].at = "create" => job[w].want # A!NoRule
    /\ w \notin late => \A r \in A!Turn(w) : rule[r].owner \in staff \/ <<rule[r].owner, job[w].subject>> \in member

LEMMA AlertFits ==
    /\ A!RulesMade /\ A!Scoped <=>
          (\A w \in A!Workers : AlertFit(w)) /\ \A e \in A!Events : A!Used(e) => rule[event[e].rule] # A!NoRule
    /\ A!RulesMade' /\ A!Scoped' <=>
          (\A w \in A!Workers : AlertFit(w)') /\ \A e \in A!Events : A!Used(e)' => rule'[event'[e].rule] # A!NoRule
<1>1. A!RulesMade /\ A!Scoped <=>
          (\A w \in A!Workers : AlertFit(w)) /\ \A e \in A!Events : A!Used(e) => rule[event[e].rule] # A!NoRule
  BY DEF A!RulesMade, A!Scoped, AlertFit
<1>2. A!RulesMade' /\ A!Scoped' <=>
          (\A w \in A!Workers : AlertFit(w)') /\ \A e \in A!Events : A!Used(e)' => rule'[event'[e].rule] # A!NoRule
  BY DEF A!RulesMade, A!Scoped, AlertFit
<1> QED
  BY <1>1, <1>2

\* A worker that stays as it is.
LEMMA AlertStays ==
    ASSUME A!IInv, NEW w \in A!Workers, job'[w] = job[w], AlertKept, UNCHANGED <<staff, member>>,
           w \in late => w \in late'
    PROVE  AlertFit(w)'
<1>1. AlertFit(w)
  BY AlertFits DEF A!IInv
<1>2. A!Turn(w)' = A!Turn(w)
  BY DEF A!Turn
<1> QED
  BY <1>1, <1>2 DEF AlertFit, AlertKept

\* Counts that only shrink, beside events that only grow.
LEMMA AlertFewer ==
    ASSUME A!AlertsAssumption, A!IInv, NEW r \in A!RuleIds, fired'[r] = fired[r], rule'[r].type = rule[r].type,
           A!Recent(r)' \subseteq A!Recent(r), A!Inserting(r)' \subseteq A!Inserting(r),
           A!Notifying(r)' \subseteq A!Notifying(r), A!Recorded(r) \subseteq A!Recorded(r)'
    PROVE  A!Counted(r)'
<1>1. /\ A!Recent(r) \in SUBSET A!Events /\ A!Recent(r)' \in SUBSET A!Events
      /\ A!Inserting(r) \in SUBSET A!Workers /\ A!Inserting(r)' \in SUBSET A!Workers
      /\ A!Notifying(r) \in SUBSET A!Workers /\ A!Notifying(r)' \in SUBSET A!Workers
      /\ A!Recorded(r) \in SUBSET A!Events /\ A!Recorded(r)' \in SUBSET A!Events
  BY DEF A!Recent, A!Inserting, A!Notifying, A!Recorded
<1>2. /\ Cardinality(A!Recent(r)') <= Cardinality(A!Recent(r))
      /\ Cardinality(A!Inserting(r)') <= Cardinality(A!Inserting(r))
      /\ Cardinality(A!Notifying(r)') <= Cardinality(A!Notifying(r))
      /\ Cardinality(A!Recorded(r)) <= Cardinality(A!Recorded(r)')
  BY <1>1, AlertNames, FS_Subset
<1>3. A!Cap(r)' = A!Cap(r) /\ A!Cap(r) \in Nat
  BY AlertNames, AlertSize DEF A!Cap
<1>4. fired[r] \in Nat /\ A!Counted(r)
  BY DEF A!IInv, A!TypeOK
<1>5. /\ Cardinality(A!Recent(r)) \in Nat /\ Cardinality(A!Recent(r)') \in Nat
      /\ Cardinality(A!Inserting(r)) \in Nat /\ Cardinality(A!Inserting(r)') \in Nat
      /\ Cardinality(A!Notifying(r)) \in Nat /\ Cardinality(A!Notifying(r)') \in Nat
      /\ Cardinality(A!Recorded(r)) \in Nat /\ Cardinality(A!Recorded(r)') \in Nat
  BY <1>1, AlertNames
<1> QED
  BY <1>2, <1>3, <1>4, <1>5, AlertSize DEF A!Counted

\* The sets that are counted, when a worker goes on and the events stay.
LEMMA AlertSets ==
    ASSUME NEW w \in A!Workers, \A v \in A!Workers : v # w => job'[v] = job[v],
           \/ job'[w].at \notin {"insert", "notify"}
           \/ job'[w].at = job[w].at /\ job'[w].cur = job[w].cur
    PROVE  \A r \in A!RuleIds :
              A!Inserting(r)' \subseteq A!Inserting(r) /\ A!Notifying(r)' \subseteq A!Notifying(r)
  BY DEF A!Inserting, A!Notifying

LEMMA AlertSame ==
    ASSUME event' = event
    PROVE  \A r \in A!RuleIds : A!Recent(r)' = A!Recent(r) /\ A!Recorded(r)' = A!Recorded(r)
  BY DEF A!Recent, A!Recorded

\* A worker's step that takes nobody past the dedup query.
LEMMA AlertMoves ==
    ASSUME A!AlertsAssumption, A!IInv, NEW w \in A!Workers, NEW j \in A!Jobs, A!Go(w, j),
           j.at \notin {"insert", "notify"} \/ (j.at = job[w].at /\ j.cur = job[w].cur),
           AlertRows', UNCHANGED <<staff, member, rule, event, fired>>,
           \A v \in A!Workers : v # w /\ v \in late => v \in late',
           AlertFit(w)'
    PROVE  A!IInv'
<1>1. job' \in [A!Workers -> A!Jobs] /\ job'[w] = j /\ \A v \in A!Workers : v # w => job'[v] = job[v]
  BY AlertGo
<1>2. A!TypeOK'
  <2>1. AlertEvents'
    BY AlertTypes DEF A!IInv, AlertEvents
  <2> QED
    BY <1>1, <2>1, AlertTypes
<1>3. AlertKept
  BY DEF AlertKept
<1>4. \A v \in A!Workers : v # w => AlertFit(v)'
  BY <1>1, <1>3, AlertStays
<1>5. A!RulesMade' /\ A!Scoped'
  <2>1. \A e \in A!Events : A!Used(e)' => rule'[event'[e].rule] # A!NoRule
    BY AlertFits DEF A!IInv, A!Used
  <2> QED
    BY <1>4, <2>1, AlertFits
<1>6. \A r \in A!RuleIds : A!Counted(r)'
  BY <1>1, AlertSets, AlertSame, AlertFewer
<1> QED
  BY <1>2, <1>5, <1>6 DEF A!IInv

LEMMA AlertRowsStay ==
    ASSUME A!IInv, UNCHANGED <<staff, member, silent, rule, posting, lost, fired, changes>>, late' \subseteq late
    PROVE  AlertRows'
  BY AlertTypes DEF A!IInv, AlertRows

\* A request reads the rules that apply (Start).
LEMMA AlertStarts ==
    ASSUME A!AlertsAssumption, A!IInv, NEW w \in Requests, NEW t \in {"cpu_high", "ddos", "server_crashed"},
           NEW s \in Hosts \cup Servers, NEW x \in Nat, A!Start(w, t, s, x)
    PROVE  A!IInv'
<1>1. PICK rules : rules = {r \in A!RuleIds : A!Applies(r, t, s)}
  OBVIOUS
<1>2. PICK j : j = [A!Idle EXCEPT !.at = "rules", !.type = t, !.subject = s, !.value = x, !.rules = rules]
  OBVIOUS
<1>3. j \in A!Jobs /\ j.at = "rules" /\ j.type = t /\ j.subject = s /\ j.rules = rules
  BY <1>1, <1>2, AlertIdle DEF A!Idle, A!Jobs, A!NodeRuleTypes
<1>4. A!Go(w, j) /\ late' = late \ {w} /\ UNCHANGED <<staff, member, silent, rule, event, fired, posting, lost, changes>>
  BY <1>1, <1>2 DEF A!Start
<1>5. w \in A!Workers /\ w # Ticker
  BY AlertNames
<1>6. job'[w] = j
  BY <1>3, <1>4, <1>5, AlertGo
<1>7. AlertFit(w)'
  <2>1. A!Turn(w)' = rules
    BY <1>3, <1>6 DEF A!Turn
  <2>2. ASSUME NEW r \in rules
        PROVE  /\ r \in A!RuleIds /\ rule[r] # A!NoRule /\ rule[r].type = t
               /\ rule[r].owner \in staff \/ <<rule[r].owner, s>> \in member
    BY <1>1, <2>2, AlertIdle DEF A!Applies, A!MayView
  <2> QED
    BY <1>3, <1>4, <1>5, <1>6, <2>1, <2>2 DEF AlertFit
<1>8. AlertRows'
  BY <1>4, AlertRowsStay
<1> QED
  BY <1>3, <1>4, <1>5, <1>7, <1>8, AlertMoves

LEMMA AlertRequests ==
    ASSUME A!AlertsAssumption, A!IInv, NEW w \in Requests,
           \/ \E n \in Hosts : A!ReportDDoS(w, n) \/ \E load \in Loads : A!HeartbeatAlerts(w, n, load)
           \/ \E s \in Servers : A!CrashReport(w, s)
    PROVE  A!IInv'
<1>1. Loads \subseteq Nat
  BY DEF A!AlertsAssumption
<1>2. \E t \in {"cpu_high", "ddos", "server_crashed"}, s \in Hosts \cup Servers, x \in Nat : A!Start(w, t, s, x)
  BY <1>1 DEF A!ReportDDoS, A!HeartbeatAlerts, A!CrashReport
<1> QED
  BY <1>2, AlertStarts

\* The evaluator's tick, and the next silent node.
LEMMA AlertTicks ==
    ASSUME A!AlertsAssumption, A!IInv, A!EvaluateNodeOffline \/ A!NextNode
    PROVE  A!IInv'
<1>0. Ticker \in A!Workers /\ job[Ticker] \in A!Jobs /\ silent \subseteq Hosts
  BY AlertNames DEF A!IInv, A!TypeOK
<1>1. CASE A!EvaluateNodeOffline
  <2>1. PICK j : j = [A!Idle EXCEPT !.at = "next", !.todo = silent]
    OBVIOUS
  <2>2. j \in A!Jobs /\ j.at = "next" /\ j.rules = {}
    BY <1>0, <2>1, AlertIdle DEF A!Idle, A!Jobs
  <2>3. A!Go(Ticker, j) /\ late' = late \ {Ticker} /\ UNCHANGED <<staff, member, silent, rule, event, fired, posting, lost, changes>>
    BY <1>1, <2>1 DEF A!EvaluateNodeOffline
  <2>4. AlertFit(Ticker)'
    <3>1. job'[Ticker] = j
      BY <1>0, <2>2, <2>3, AlertGo
    <3> QED
      BY <2>2, <3>1 DEF AlertFit, A!Turn
  <2> QED
    BY <1>0, <2>2, <2>3, <2>4, AlertMoves, AlertRowsStay
<1>2. CASE A!NextNode
  <2>1. PICK n \in job[Ticker].todo :
            A!Go(Ticker, [job[Ticker] EXCEPT !.at = "rules", !.todo = @ \ {n}, !.type = "node_offline", !.subject = n,
                                             !.rules = {r \in A!RuleIds : A!Applies(r, "node_offline", n)}])
    BY <1>2 DEF A!NextNode
  <2>2. PICK rules : rules = {r \in A!RuleIds : A!Applies(r, "node_offline", n)}
    OBVIOUS
  <2>3. PICK j : j = [job[Ticker] EXCEPT !.at = "rules", !.todo = @ \ {n}, !.type = "node_offline", !.subject = n,
                                         !.rules = rules]
    OBVIOUS
  <2>4. n \in Hosts
    BY <1>0 DEF A!Jobs
  <2>5. j \in A!Jobs /\ j.at = "rules" /\ j.type = "node_offline" /\ j.subject = n /\ j.rules = rules
    BY <1>0, <2>2, <2>3, <2>4 DEF A!Jobs, A!NodeRuleTypes
  <2>6. A!Go(Ticker, j) /\ UNCHANGED <<staff, member, silent, rule, event, fired, posting, lost, late, changes>>
    BY <1>2, <2>1, <2>2, <2>3 DEF A!NextNode
  <2>7. AlertFit(Ticker)'
    <3>1. job'[Ticker] = j
      BY <1>0, <2>5, <2>6, AlertGo
    <3>2. A!Turn(Ticker)' = rules
      BY <2>5, <3>1 DEF A!Turn
    <3>3. ASSUME NEW r \in rules
          PROVE  /\ r \in A!RuleIds /\ rule[r] # A!NoRule /\ rule[r].type = "node_offline"
                 /\ rule[r].owner \in staff \/ <<rule[r].owner, n>> \in member
      BY <2>2, <3>3, AlertIdle DEF A!Applies, A!MayView
    <3> QED
      BY <2>5, <2>6, <3>1, <3>2, <3>3 DEF AlertFit
  <2> QED
    BY <1>0, <2>5, <2>6, <2>7, AlertMoves, AlertRowsStay
<1> QED
  BY <1>1, <1>2

\* A request for a rule, whose checks come before the row.
LEMMA AlertAsks ==
    ASSUME A!AlertsAssumption, A!IInv, NEW w \in Requests, NEW u \in Users, NEW shape \in Shapes, A!HandleCreateRule(w, u, shape)
    PROVE  A!IInv'
<1>1. PICK want : want = [st |-> "on", owner |-> u, type |-> shape.type, server |-> shape.server,
                          threshold |-> shape.threshold, channels |-> shape.channels]
  OBVIOUS
<1>2. shape \in [type : A!NodeRuleTypes \cup {"server_crashed"}, server : Servers \cup {A!None},
                 threshold : Nat, channels : SUBSET {"email", "webhook"}]
  BY DEF A!AlertsAssumption
<1>3. want \in A!Rules /\ want # A!NoRule
  <2>1. want \in A!Rules /\ want.st = "on"
    BY <1>1, <1>2 DEF A!Rules
  <2> QED
    BY <2>1, AlertIdle
<1>4. PICK j : j = [A!Idle EXCEPT !.at = "create", !.want = want]
  OBVIOUS
<1>5. j \in A!Jobs /\ j.at = "create" /\ j.rules = {} /\ j.want = want
  BY <1>3, <1>4, AlertIdle DEF A!Idle, A!Jobs
<1>6. A!Go(w, j) /\ UNCHANGED <<staff, member, silent, rule, event, fired, posting, lost, late, changes>>
  BY <1>1, <1>4 DEF A!HandleCreateRule
<1>7. w \in A!Workers
  BY AlertNames
<1>8. AlertFit(w)'
  <2>1. job'[w] = j
    BY <1>5, <1>6, <1>7, AlertGo
  <2> QED
    BY <1>3, <1>5, <2>1 DEF AlertFit, A!Turn
<1> QED
  BY <1>5, <1>6, <1>7, <1>8, AlertMoves, AlertRowsStay

\* What is known of the worker that takes its turn.
LEMMA AlertKnown ==
    ASSUME A!IInv, NEW w \in A!Workers
    PROVE  AlertFit(w) /\ job[w] \in A!Jobs
  BY AlertFits DEF A!IInv, A!TypeOK

\* Only requests, or only the evaluator, are past the dedup query of a rule.
LEMMA AlertRacers ==
    ASSUME A!AlertsAssumption, A!TypeOK', A!RulesMade', NEW r \in A!RuleIds
    PROVE  Cardinality(A!Inserting(r)') <= A!Cap(r)'
<1>1. ASSUME NEW w \in A!Inserting(r)'
      PROVE  rule'[r].type = "node_offline" <=> w = Ticker
  <2>1. w \in A!Workers /\ job'[w].at = "insert" /\ job'[w].cur = r
    BY <1>1 DEF A!Inserting
  <2>2. r \in A!Turn(w)'
    BY <2>1 DEF A!Turn
  <2> QED
    BY <2>1, <2>2 DEF A!RulesMade
<1>2. A!Inserting(r)' \subseteq A!Workers /\ A!Workers = Requests \cup {Ticker}
  BY DEF A!Inserting, A!Workers
<1>3. CASE rule'[r].type = "node_offline"
  <2>1. A!Inserting(r)' \subseteq {Ticker} /\ IsFiniteSet({Ticker}) /\ Cardinality({Ticker}) = 1
    BY <1>1, <1>3, FS_Singleton
  <2> QED
    BY <1>3, <2>1, FS_Subset DEF A!Cap
<1>4. CASE rule'[r].type # "node_offline"
  <2>1. A!Inserting(r)' \subseteq Requests /\ IsFiniteSet(Requests)
    BY <1>1, <1>2, <1>4, AlertNames
  <2> QED
    BY <1>4, <2>1, FS_Subset, AlertSize DEF A!Cap
<1> QED
  BY <1>3, <1>4

\* The threshold and the dedup query (CheckRule).
LEMMA AlertChecks ==
    ASSUME A!AlertsAssumption, A!IInv, NEW w \in A!Workers, A!CheckRule(w)
    PROVE  A!IInv'
<1>0. AlertFit(w) /\ job[w] \in A!Jobs /\ job[w].at = "rules" /\ A!Turn(w) = job[w].rules
  BY AlertKnown DEF A!CheckRule, A!Turn
<1>1. UNCHANGED <<staff, member, silent, rule, event, fired, posting, lost, late, changes>>
  BY DEF A!CheckRule
<1>2. PICK r \in job[w].rules :
          \/ A!OpenEvents(r) = {} /\ A!Go(w, [job[w] EXCEPT !.at = "insert", !.cur = r, !.rules = @ \ {r}])
          \/ A!Go(w, [job[w] EXCEPT !.rules = @ \ {r}])
  BY DEF A!CheckRule
<1>3. r \in A!RuleIds /\ r \in A!Turn(w)
  BY <1>0 DEF A!Jobs
<1>4. CASE A!Go(w, [job[w] EXCEPT !.rules = @ \ {r}])
  <2>0. PICK j : j = [job[w] EXCEPT !.rules = @ \ {r}]
    OBVIOUS
  <2>1. /\ j \in A!Jobs /\ A!Go(w, j) /\ j.at = "rules" /\ j.rules = job[w].rules \ {r}
        /\ j.type = job[w].type /\ j.subject = job[w].subject
    BY <1>0, <1>4, <2>0 DEF A!Jobs
  <2>2. job'[w] = j
    BY <2>1, AlertGo
  <2>3. A!Turn(w)' \subseteq A!Turn(w)
    BY <1>0, <2>1, <2>2 DEF A!Turn
  <2>4. AlertFit(w)'
    BY <1>0, <1>1, <2>1, <2>2, <2>3 DEF AlertFit
  <2> QED
    BY <1>1, <2>1, <2>4, AlertMoves, AlertRowsStay
<1>5. CASE A!OpenEvents(r) = {} /\ A!Go(w, [job[w] EXCEPT !.at = "insert", !.cur = r, !.rules = @ \ {r}])
  <2>0. PICK j : j = [job[w] EXCEPT !.at = "insert", !.cur = r, !.rules = @ \ {r}]
    OBVIOUS
  <2>1. /\ j \in A!Jobs /\ A!Go(w, j) /\ j.at = "insert" /\ j.rules = job[w].rules \ {r} /\ j.cur = r
        /\ j.type = job[w].type /\ j.subject = job[w].subject
    BY <1>0, <1>3, <1>5, <2>0 DEF A!Jobs
  <2>2. job' \in [A!Workers -> A!Jobs] /\ job'[w] = j /\ \A v \in A!Workers : v # w => job'[v] = job[v]
    BY <2>1, AlertGo
  <2>3. A!Turn(w)' \subseteq A!Turn(w)
    BY <1>0, <1>3, <2>1, <2>2 DEF A!Turn
  <2>4. AlertFit(w)'
    BY <1>0, <1>1, <2>1, <2>2, <2>3 DEF AlertFit
  <2>5. AlertKept
    BY <1>1 DEF AlertKept
  <2>6. A!TypeOK'
    <3>1. AlertRows'
      BY <1>1, AlertRowsStay
    <3>2. AlertEvents'
      BY <1>1, AlertTypes DEF A!IInv, AlertEvents
    <3> QED
      BY <2>2, <3>1, <3>2, AlertTypes
  <2>7. A!RulesMade' /\ A!Scoped'
    <3>1. \A v \in A!Workers : AlertFit(v)'
      BY <1>1, <2>2, <2>4, <2>5, AlertStays
    <3>2. \A e \in A!Events : A!Used(e)' => rule'[event'[e].rule] # A!NoRule
      BY <1>1, AlertFits DEF A!IInv, A!Used
    <3> QED
      BY <3>1, <3>2, AlertFits
  <2>8. ASSUME NEW q \in A!RuleIds
        PROVE  A!Counted(q)'
    <3>1. A!Recent(q)' = A!Recent(q) /\ A!Recorded(q)' = A!Recorded(q)
      BY <1>1, AlertSame
    <3>2. A!Notifying(q)' \subseteq A!Notifying(q)
      BY <2>1, <2>2 DEF A!Notifying
    <3>3. CASE q # r
      <4>1. A!Inserting(q)' \subseteq A!Inserting(q)
        BY <2>1, <2>2, <3>3 DEF A!Inserting
      <4> QED
        BY <1>1, <3>1, <3>2, <4>1, AlertFewer
    <3>4. CASE q = r
      <4>1. A!Recent(q) = {}
        BY <1>5, <3>4 DEF A!OpenEvents, A!Recent
      <4>2. Cardinality(A!Recent(q)') = 0
        BY <3>1, <4>1, FS_EmptySet
      <4>3. Cardinality(A!Inserting(q)') <= A!Cap(q)' /\ Cardinality(A!Inserting(q)') \in Nat
        <5>1. A!Inserting(q)' \in SUBSET A!Workers
          BY DEF A!Inserting
        <5> QED
          BY <2>6, <2>7, <5>1, AlertRacers, AlertNames
      <4>4. fired'[q] + Cardinality(A!Notifying(q)') <= Cardinality(A!Recorded(q)')
        <5>1. A!Notifying(q) \in SUBSET A!Workers /\ A!Notifying(q)' \in SUBSET A!Workers /\ A!Recorded(q) \in SUBSET A!Events
          BY DEF A!Notifying, A!Recorded
        <5>2. Cardinality(A!Notifying(q)') <= Cardinality(A!Notifying(q)) /\ Cardinality(A!Notifying(q)') \in Nat
              /\ Cardinality(A!Notifying(q)) \in Nat /\ Cardinality(A!Recorded(q)) \in Nat
          BY <3>2, <5>1, AlertNames, FS_Subset
        <5>3. fired[q] \in Nat /\ fired[q] + Cardinality(A!Notifying(q)) <= Cardinality(A!Recorded(q))
          BY AlertSize DEF A!IInv, A!TypeOK, A!Counted
        <5> QED
          BY <1>1, <3>1, <5>2, <5>3
      <4> QED
        BY <4>2, <4>3, <4>4, AlertSize DEF A!Counted
    <3> QED
      BY <3>3, <3>4
  <2> QED
    BY <2>6, <2>7, <2>8 DEF A!IInv
<1> QED
  BY <1>2, <1>4, <1>5

\* The row of an event, or a refusal (InsertEvent).
LEMMA AlertInserts ==
    ASSUME A!AlertsAssumption, A!IInv, NEW w \in A!Workers, A!InsertEvent(w)
    PROVE  A!IInv'
<1>0. /\ AlertFit(w) /\ job[w] \in A!Jobs /\ job[w].at = "insert" /\ A!Turn(w) = job[w].rules \cup {job[w].cur}
      /\ A!TypeOK
  BY AlertKnown DEF A!InsertEvent, A!Turn, A!IInv
<1>1. UNCHANGED <<staff, member, silent, rule, fired, posting, lost, late, changes>>
  BY DEF A!InsertEvent
<1>2. PICK k \in {"rules", "notify"} :
          /\ A!Go(w, [job[w] EXCEPT !.at = k])
          /\ \/ k = "rules" /\ event' = event
             \/ /\ k = "notify"
                /\ \E e \in A!Free : event' = [event EXCEPT ![e] = [rule |-> job[w].cur, subject |-> job[w].subject, st |-> "open"]]
  BY DEF A!InsertEvent
<1>3. PICK j : j = [job[w] EXCEPT !.at = k]
  OBVIOUS
<1>4. /\ j \in A!Jobs /\ A!Go(w, j) /\ j.at = k /\ j.rules = job[w].rules /\ j.cur = job[w].cur
      /\ j.type = job[w].type /\ j.subject = job[w].subject
  BY <1>0, <1>2, <1>3 DEF A!Jobs
<1>5. job' \in [A!Workers -> A!Jobs] /\ job'[w] = j /\ \A v \in A!Workers : v # w => job'[v] = job[v]
  BY <1>4, AlertGo
<1>6. AlertFit(w)'
  <2>1. A!Turn(w)' \subseteq A!Turn(w)
    BY <1>0, <1>4, <1>5 DEF A!Turn
  <2> QED
    BY <1>0, <1>1, <1>2, <1>4, <1>5, <2>1 DEF AlertFit
<1>7. CASE event' = event /\ k = "rules"
  BY <1>1, <1>4, <1>6, <1>7, AlertMoves, AlertRowsStay
<1>8. CASE k = "notify"
  <2>1. PICK e \in A!Free : event' = [event EXCEPT ![e] = [rule |-> job[w].cur, subject |-> job[w].subject, st |-> "open"]]
    BY <1>2, <1>8
  <2>2. e \in A!Events /\ event[e].rule = 0
    BY <2>1 DEF A!Free, A!Used
  <2>3. job[w].cur \in A!RuleIds /\ job[w].cur \in A!Turn(w) /\ rule[job[w].cur] # A!NoRule
    BY <1>0 DEF AlertFit
  <2>4. AlertEvents /\ AlertEvents'
    <3>1. AlertEvents
      BY <1>0, AlertTypes
    <3>2. [rule |-> job[w].cur, subject |-> job[w].subject, st |-> "open"]
            \in [rule : A!RuleIds \cup {0}, subject : Hosts \cup Servers \cup {A!None}, st : {"none", "open", "old", "resolved"}]
      BY <1>0, <2>3 DEF A!Jobs
    <3> QED
      BY <2>1, <3>1, <3>2 DEF AlertEvents
  <2>5. /\ event'[e].rule = job[w].cur /\ event'[e].st = "open"
        /\ \A d \in A!Events : d # e => event'[d] = event[d]
    BY <2>1, <2>2, <2>4 DEF AlertEvents
  <2>6. A!TypeOK'
    BY <1>1, <1>5, <2>4, AlertTypes, AlertRowsStay
  <2>7. AlertKept
    BY <1>1 DEF AlertKept
  <2>8. A!RulesMade' /\ A!Scoped'
    <3>1. \A v \in A!Workers : AlertFit(v)'
      BY <1>1, <1>5, <1>6, <2>7, AlertStays
    <3>2. \A d \in A!Events : A!Used(d)' => rule'[event'[d].rule] # A!NoRule
      BY <1>1, <2>3, <2>5, AlertFits DEF A!IInv, A!Used
    <3> QED
      BY <3>1, <3>2, AlertFits
  <2>9. ASSUME NEW q \in A!RuleIds
        PROVE  A!Counted(q)'
    <3>1. CASE q # job[w].cur
      <4>1. A!Inserting(q)' \subseteq A!Inserting(q) /\ A!Notifying(q)' \subseteq A!Notifying(q)
        BY <1>4, <1>5, <3>1 DEF A!Inserting, A!Notifying
      <4>2. A!Recent(q)' \subseteq A!Recent(q) /\ A!Recorded(q) \subseteq A!Recorded(q)'
        BY <2>2, <2>5, <3>1, AlertNames DEF A!Recent, A!Recorded
      <4> QED
        BY <1>1, <4>1, <4>2, AlertFewer
    <3>2. CASE q = job[w].cur
      <4>1. A!Recent(q)' = A!Recent(q) \cup {e} /\ e \notin A!Recent(q)
        BY <2>2, <2>5, <3>2, AlertNames DEF A!Recent
      <4>2. A!Recorded(q)' = A!Recorded(q) \cup {e} /\ e \notin A!Recorded(q)
        BY <2>2, <2>5, <3>2, AlertNames DEF A!Recorded
      <4>3. A!Inserting(q)' = A!Inserting(q) \ {w} /\ w \in A!Inserting(q)
        BY <1>0, <1>4, <1>5, <1>8, <3>2 DEF A!Inserting
      <4>4. A!Notifying(q)' = A!Notifying(q) \cup {w} /\ w \notin A!Notifying(q)
        BY <1>0, <1>4, <1>5, <1>8, <3>2 DEF A!Notifying
      <4>5. /\ A!Recent(q) \in SUBSET A!Events /\ A!Recorded(q) \in SUBSET A!Events
            /\ A!Inserting(q) \in SUBSET A!Workers /\ A!Notifying(q) \in SUBSET A!Workers
        BY DEF A!Recent, A!Recorded, A!Inserting, A!Notifying
      <4>6. /\ IsFiniteSet(A!Recent(q)) /\ IsFiniteSet(A!Recorded(q)) /\ IsFiniteSet(A!Inserting(q)) /\ IsFiniteSet(A!Notifying(q))
            /\ Cardinality(A!Recent(q)) \in Nat /\ Cardinality(A!Recorded(q)) \in Nat
            /\ Cardinality(A!Inserting(q)) \in Nat /\ Cardinality(A!Notifying(q)) \in Nat
        BY <4>5, AlertNames
      <4>7. /\ Cardinality(A!Recent(q)') = Cardinality(A!Recent(q)) + 1
            /\ Cardinality(A!Recorded(q)') = Cardinality(A!Recorded(q)) + 1
            /\ Cardinality(A!Notifying(q)') = Cardinality(A!Notifying(q)) + 1
        BY <4>1, <4>2, <4>4, <4>6, FS_AddElement
      <4>8. Cardinality(A!Inserting(q)') = Cardinality(A!Inserting(q)) - 1
        BY <4>3, <4>6, FS_RemoveElement
      <4>9. A!Cap(q)' = A!Cap(q) /\ A!Cap(q) \in Nat /\ fired'[q] = fired[q] /\ fired[q] \in Nat
        BY <1>0, <1>1, AlertNames, AlertSize DEF A!Cap, A!TypeOK
      <4>10. /\ Cardinality(A!Recent(q)) + Cardinality(A!Inserting(q)) <= A!Cap(q)
             /\ fired[q] + Cardinality(A!Notifying(q)) <= Cardinality(A!Recorded(q))
        BY AlertSize DEF A!IInv, A!Counted
      <4> QED
        BY <4>6, <4>7, <4>8, <4>9, <4>10, AlertSize DEF A!Counted
    <3> QED
      BY <3>1, <3>2
  <2> QED
    BY <2>6, <2>8, <2>9 DEF A!IInv
<1> QED
  BY <1>2, <1>7, <1>8

\* The notice, once (Dispatch).
LEMMA AlertDispatches ==
    ASSUME A!AlertsAssumption, A!IInv, NEW w \in A!Workers, A!Dispatch(w)
    PROVE  A!IInv'
<1>0. AlertFit(w) /\ job[w] \in A!Jobs /\ job[w].at = "notify" /\ A!Turn(w) = job[w].rules \cup {job[w].cur} /\ A!TypeOK
  BY AlertKnown DEF A!Dispatch, A!Turn, A!IInv
<1>1. UNCHANGED <<staff, member, silent, rule, event, lost, late, changes>> /\ A!Go(w, [job[w] EXCEPT !.at = "rules"])
  BY DEF A!Dispatch
<1>2. PICK j : j = [job[w] EXCEPT !.at = "rules"]
  OBVIOUS
<1>3. /\ j \in A!Jobs /\ A!Go(w, j) /\ j.at = "rules" /\ j.rules = job[w].rules
      /\ j.type = job[w].type /\ j.subject = job[w].subject
  BY <1>0, <1>1, <1>2 DEF A!Jobs
<1>4. job' \in [A!Workers -> A!Jobs] /\ job'[w] = j /\ \A v \in A!Workers : v # w => job'[v] = job[v]
  BY <1>3, AlertGo
<1>5. job[w].cur \in A!RuleIds /\ fired \in [A!RuleIds -> Nat]
  BY <1>0 DEF AlertFit, A!TypeOK
<1>6. /\ fired' \in [A!RuleIds -> Nat] /\ \A q \in A!RuleIds : q # job[w].cur => fired'[q] = fired[q]
      /\ fired'[job[w].cur] <= fired[job[w].cur] + 1
  BY <1>5 DEF A!Dispatch
<1>7. A!TypeOK'
  <2>1. posting' \subseteq A!RuleIds \X A!Workers
    BY <1>0, <1>5 DEF A!Dispatch, A!TypeOK
  <2>2. AlertRows'
    BY <1>0, <1>1, <1>6, <2>1, AlertTypes DEF AlertRows
  <2>3. AlertEvents'
    BY <1>0, <1>1, AlertTypes DEF AlertEvents
  <2> QED
    BY <1>4, <2>2, <2>3, AlertTypes
<1>8. AlertFit(w)'
  <2>1. A!Turn(w)' \subseteq A!Turn(w)
    BY <1>0, <1>3, <1>4 DEF A!Turn
  <2> QED
    BY <1>0, <1>1, <1>3, <1>4, <2>1 DEF AlertFit
<1>9. A!RulesMade' /\ A!Scoped'
  <2>1. AlertKept
    BY <1>1 DEF AlertKept
  <2>2. \A v \in A!Workers : AlertFit(v)'
    BY <1>1, <1>4, <1>8, <2>1, AlertStays
  <2>3. \A d \in A!Events : A!Used(d)' => rule'[event'[d].rule] # A!NoRule
    BY <1>1, AlertFits DEF A!IInv, A!Used
  <2> QED
    BY <2>2, <2>3, AlertFits
<1>10. ASSUME NEW q \in A!RuleIds
       PROVE  A!Counted(q)'
  <2>1. A!Recent(q)' = A!Recent(q) /\ A!Recorded(q)' = A!Recorded(q)
    BY <1>1, AlertSame
  <2>2. A!Inserting(q)' \subseteq A!Inserting(q)
    BY <1>3, <1>4 DEF A!Inserting
  <2>3. CASE q # job[w].cur
    <3>1. A!Notifying(q)' \subseteq A!Notifying(q)
      BY <1>3, <1>4 DEF A!Notifying
    <3> QED
      BY <1>1, <1>6, <2>1, <2>2, <2>3, <3>1, AlertFewer
  <2>4. CASE q = job[w].cur
    <3>1. A!Notifying(q)' = A!Notifying(q) \ {w} /\ w \in A!Notifying(q)
      BY <1>0, <1>3, <1>4, <2>4 DEF A!Notifying
    <3>2. A!Inserting(q) \in SUBSET A!Workers /\ A!Inserting(q)' \in SUBSET A!Workers /\ A!Notifying(q) \in SUBSET A!Workers
          /\ A!Recent(q) \in SUBSET A!Events /\ A!Recorded(q) \in SUBSET A!Events
      BY DEF A!Inserting, A!Notifying, A!Recent, A!Recorded
    <3>3. /\ IsFiniteSet(A!Notifying(q)) /\ Cardinality(A!Notifying(q)) \in Nat /\ Cardinality(A!Recorded(q)) \in Nat
          /\ Cardinality(A!Inserting(q)) \in Nat /\ Cardinality(A!Inserting(q)') \in Nat /\ Cardinality(A!Recent(q)) \in Nat
      BY <3>2, AlertNames
    <3>4. Cardinality(A!Notifying(q)') = Cardinality(A!Notifying(q)) - 1
      BY <3>1, <3>3, FS_RemoveElement
    <3>5. Cardinality(A!Inserting(q)') <= Cardinality(A!Inserting(q))
      BY <2>2, <3>2, AlertNames, FS_Subset
    <3>6. A!Cap(q)' = A!Cap(q) /\ A!Cap(q) \in Nat
      BY <1>1, AlertNames, AlertSize DEF A!Cap
    <3>7. /\ Cardinality(A!Recent(q)) + Cardinality(A!Inserting(q)) <= A!Cap(q)
          /\ fired[q] + Cardinality(A!Notifying(q)) <= Cardinality(A!Recorded(q))
      BY AlertSize DEF A!IInv, A!Counted
    <3>8. fired[q] \in Nat /\ fired'[q] \in Nat /\ fired'[q] <= fired[q] + 1
      BY <1>5, <1>6, <2>4
    <3> QED
      BY <2>1, <3>3, <3>4, <3>5, <3>6, <3>7, <3>8, AlertSize DEF A!Counted
  <2> QED
    BY <2>3, <2>4
<1> QED
  BY <1>7, <1>9, <1>10 DEF A!IInv

\* A request that ends, or an evaluator that turns to the next node (Finish).
LEMMA AlertFinishes ==
    ASSUME A!AlertsAssumption, A!IInv, NEW w \in A!Workers, A!Finish(w)
    PROVE  A!IInv'
<1>0. AlertFit(w) /\ job[w] \in A!Jobs /\ job[w].rules = {} /\ A!TypeOK
  BY AlertKnown DEF A!Finish, A!IInv
<1>1. UNCHANGED <<staff, member, silent, rule, event, fired, late, changes>>
  BY DEF A!Finish
<1>2. AlertRows'
  <2>1. posting \subseteq A!RuleIds \X A!Workers /\ lost \subseteq A!RuleIds
    BY <1>0 DEF A!TypeOK
  <2>2. posting' \subseteq posting /\ lost' \subseteq lost \cup {p[1] : p \in posting}
    BY DEF A!Finish
  <2>3. lost' \subseteq A!RuleIds
    BY <2>1, <2>2
  <2> QED
    BY <1>0, <1>1, <2>1, <2>2, <2>3, AlertTypes DEF AlertRows
<1>3. PICK j : j \in {[job[w] EXCEPT !.at = "next"], A!Idle} /\ A!Go(w, j)
  BY DEF A!Finish
<1>4. j \in A!Jobs /\ j.at \in {"next", "idle"} /\ j.rules = {}
  <2>1. CASE j = A!Idle
    BY <2>1, AlertIdle
  <2>2. CASE j = [job[w] EXCEPT !.at = "next"]
    BY <1>0, <2>2 DEF A!Jobs
  <2> QED
    BY <1>3, <2>1, <2>2
<1>5. AlertFit(w)'
  <2>1. job'[w] = j
    BY <1>3, <1>4, AlertGo
  <2> QED
    BY <1>4, <2>1 DEF AlertFit, A!Turn
<1> QED
  BY <1>1, <1>2, <1>3, <1>4, <1>5, AlertMoves

\* A request whose caller has gone (Abort).
LEMMA AlertAborts ==
    ASSUME A!AlertsAssumption, A!IInv, NEW w \in A!Workers, A!Abort(w)
    PROVE  A!IInv'
<1>0. AlertFit(w) /\ job[w] \in A!Jobs /\ A!TypeOK
  BY AlertKnown DEF A!IInv
<1>1. UNCHANGED <<staff, member, silent, rule, event, fired, posting, lost, late>> /\ A!Go(w, [job[w] EXCEPT !.live = FALSE])
      /\ changes' = changes + 1
  BY DEF A!Abort, A!Change
<1>2. PICK j : j = [job[w] EXCEPT !.live = FALSE]
  OBVIOUS
<1>3. /\ j \in A!Jobs /\ A!Go(w, j) /\ j.at = job[w].at /\ j.rules = job[w].rules /\ j.cur = job[w].cur
      /\ j.type = job[w].type /\ j.subject = job[w].subject /\ j.want = job[w].want
  BY <1>0, <1>1, <1>2 DEF A!Jobs
<1>4. AlertFit(w)'
  <2>1. job'[w] = j
    BY <1>3, AlertGo
  <2>2. A!Turn(w)' = A!Turn(w)
    BY <1>3, <2>1 DEF A!Turn
  <2> QED
    BY <1>0, <1>1, <1>3, <2>1, <2>2 DEF AlertFit
<1>5. AlertRows'
  BY <1>0, <1>1, AlertTypes DEF AlertRows
<1> QED
  BY <1>1, <1>3, <1>4, <1>5, AlertMoves

\* Steps that leave every worker as it is and add no event that is open.
LEMMA AlertRests ==
    ASSUME A!AlertsAssumption, A!IInv, job' = job, AlertKept, AlertRows', AlertEvents',
           UNCHANGED <<staff, member, fired, late>>,
           \A e \in A!Events : event'[e].rule = event[e].rule /\ (event'[e].st = "open" => event[e].st = "open")
    PROVE  A!IInv'
<1>1. A!TypeOK'
  <2>1. job' \in [A!Workers -> A!Jobs]
    BY DEF A!IInv, A!TypeOK
  <2> QED
    BY <2>1, AlertTypes
<1>2. A!RulesMade' /\ A!Scoped'
  <2>1. \A v \in A!Workers : AlertFit(v)'
    BY AlertStays
  <2>2. \A e \in A!Events : A!Used(e)' => rule'[event'[e].rule] # A!NoRule
    <3>1. \A e \in A!Events : A!Used(e) => event[e].rule \in A!RuleIds /\ rule[event[e].rule] # A!NoRule
      BY AlertFits, AlertTypes DEF A!IInv, AlertEvents, A!Used
    <3> QED
      BY <3>1 DEF A!Used, AlertKept
  <2> QED
    BY <2>1, <2>2, AlertFits
<1>3. ASSUME NEW r \in A!RuleIds
      PROVE  A!Counted(r)'
  <2>1. A!Recent(r)' \subseteq A!Recent(r) /\ A!Recorded(r)' = A!Recorded(r)
    BY DEF A!Recent, A!Recorded
  <2>2. A!Inserting(r)' = A!Inserting(r) /\ A!Notifying(r)' = A!Notifying(r)
    BY DEF A!Inserting, A!Notifying
  <2> QED
    BY <2>1, <2>2, AlertFewer DEF AlertKept
<1> QED
  BY <1>1, <1>2, <1>3 DEF A!IInv

\* Rules that are switched or deleted.
LEMMA AlertSwitches ==
    ASSUME A!AlertsAssumption, A!IInv, NEW u \in Users, NEW r \in A!RuleIds,
           A!DeleteRule(u, r) \/ \E st \in {"on", "off"} : A!ToggleRule(u, r, st)
    PROVE  A!IInv'
<1>0. A!TypeOK /\ rule \in [A!RuleIds -> A!Rules]
  BY DEF A!IInv, A!TypeOK
<1>1. PICK st \in {"on", "off", "gone"} : rule' = [rule EXCEPT ![r].st = st]
  BY DEF A!DeleteRule, A!ToggleRule
<1>2. UNCHANGED <<staff, member, silent, event, job, fired, posting, lost, late>> /\ changes' \in {changes, changes + 1}
  BY DEF A!DeleteRule, A!ToggleRule, A!Change
<1>3. PICK x : x = [rule[r] EXCEPT !.st = st]
  OBVIOUS
<1>4. x \in A!Rules /\ x.st = st /\ x.type = rule[r].type /\ x.owner = rule[r].owner
  BY <1>0, <1>1, <1>3 DEF A!Rules
<1>5. rule' \in [A!RuleIds -> A!Rules] /\ rule'[r] = x /\ \A q \in A!RuleIds : q # r => rule'[q] = rule[q]
  BY <1>0, <1>1, <1>3, <1>4
<1>6. AlertKept
  <2>1. x # A!NoRule
    BY <1>1, <1>4, AlertIdle
  <2> QED
    BY <1>4, <1>5, <2>1 DEF AlertKept
<1>7. AlertRows'
  BY <1>0, <1>2, <1>5, AlertTypes DEF AlertRows
<1>8. AlertEvents'
  BY <1>0, <1>2, AlertTypes DEF AlertEvents
<1> QED
  BY <1>2, <1>6, <1>7, <1>8, AlertRests

\* Events that are resolved or grow old.
LEMMA AlertCloses ==
    ASSUME A!AlertsAssumption, A!IInv, NEW e \in A!Events, A!EventAges(e) \/ \E u \in Users : A!ResolveEvent(u, e)
    PROVE  A!IInv'
<1>0. AlertRows /\ AlertEvents
  BY AlertTypes DEF A!IInv
<1>1. PICK st \in {"old", "resolved"} : event' = [event EXCEPT ![e].st = st]
  BY DEF A!EventAges, A!ResolveEvent
<1>2. UNCHANGED <<staff, member, silent, rule, job, fired, posting, lost, late, changes>>
  BY DEF A!EventAges, A!ResolveEvent
<1>3. PICK x : x = [event[e] EXCEPT !.st = st]
  OBVIOUS
<1>4. /\ x \in [rule : A!RuleIds \cup {0}, subject : Hosts \cup Servers \cup {A!None}, st : {"none", "open", "old", "resolved"}]
      /\ x.rule = event[e].rule /\ x.st = st
  BY <1>0, <1>1, <1>3 DEF AlertEvents
<1>5. AlertEvents' /\ event'[e] = x /\ \A d \in A!Events : d # e => event'[d] = event[d]
  BY <1>0, <1>1, <1>3, <1>4 DEF AlertEvents
<1>6. \A d \in A!Events : event'[d].rule = event[d].rule /\ (event'[d].st = "open" => event[d].st = "open")
  BY <1>1, <1>4, <1>5
<1>7. AlertKept
  BY <1>2 DEF AlertKept
<1>8. AlertRows'
  BY <1>2, AlertRowsStay
<1> QED
  BY <1>2, <1>5, <1>6, <1>7, <1>8, AlertRests

\* Posts, and nodes that fall silent or return.
LEMMA AlertWorld ==
    ASSUME A!AlertsAssumption, A!IInv,
           \/ \E w \in A!Workers, r \in A!RuleIds : A!Post(r, w)
           \/ \E n \in Hosts : A!NodeGoesSilent(n) \/ A!NodeReturns(n)
    PROVE  A!IInv'
<1>0. AlertRows /\ AlertEvents
  BY AlertTypes DEF A!IInv
<1>1. UNCHANGED <<staff, member, rule, event, job, fired, late, changes>>
  BY DEF A!Post, A!NodeGoesSilent, A!NodeReturns
<1>2. posting' \subseteq posting /\ lost' \subseteq lost \cup A!RuleIds /\ silent' \subseteq silent \cup Hosts
  BY DEF A!Post, A!NodeGoesSilent, A!NodeReturns
<1>3. AlertRows' /\ AlertEvents'
  BY <1>0, <1>1, <1>2 DEF AlertRows, AlertEvents
<1>4. AlertKept
  BY <1>1 DEF AlertKept
<1> QED
  BY <1>1, <1>3, <1>4, AlertRests

\* A role or a membership is taken away: who is evaluating is late.
LEMMA AlertLosses ==
    ASSUME A!AlertsAssumption, A!IInv, NEW u \in Users, A!LoseAccess(u)
    PROVE  A!IInv'
<1>0. A!TypeOK /\ AlertRows /\ AlertEvents /\ job \in [A!Workers -> A!Jobs]
  BY AlertTypes DEF A!IInv
<1>1. /\ UNCHANGED <<silent, rule, event, job, fired, posting, lost>> /\ changes' = changes + 1
      /\ staff' \subseteq staff /\ member' \subseteq member
      /\ late' = late \cup {w \in A!Workers : job[w] # A!Idle}
  BY DEF A!LoseAccess, A!Change
<1>2. A!TypeOK'
  <2>1. AlertRows'
    BY <1>0, <1>1 DEF AlertRows
  <2>2. AlertEvents' /\ job' \in [A!Workers -> A!Jobs]
    BY <1>0, <1>1 DEF AlertEvents
  <2> QED
    BY <2>1, <2>2, AlertTypes
<1>3. ASSUME NEW w \in A!Workers
      PROVE  AlertFit(w)'
  <2>1. AlertFit(w) /\ A!Turn(w)' = A!Turn(w)
    BY <1>1, AlertKnown DEF A!Turn
  <2>2. w \notin late' => A!Turn(w) = {}
    BY <1>1, AlertIdle DEF A!Turn
  <2> QED
    BY <1>1, <2>1, <2>2 DEF AlertFit
<1>4. \A e \in A!Events : A!Used(e)' => rule'[event'[e].rule] # A!NoRule
  BY <1>1, AlertFits DEF A!IInv, A!Used
<1>5. \A r \in A!RuleIds : A!Counted(r)'
  <2>1. \A r \in A!RuleIds : A!Inserting(r)' = A!Inserting(r) /\ A!Notifying(r)' = A!Notifying(r)
    BY <1>1 DEF A!Inserting, A!Notifying
  <2> QED
    BY <1>1, <2>1, AlertSame, AlertFewer
<1> QED
  BY <1>2, <1>3, <1>4, <1>5, AlertFits DEF A!IInv

\* Every evaluation is gone (PanelRestarts).
LEMMA AlertRestarts ==
    ASSUME A!AlertsAssumption, A!IInv, A!PanelRestarts
    PROVE  A!IInv'
<1>0. A!TypeOK /\ AlertRows /\ AlertEvents
  BY AlertTypes DEF A!IInv
<1>1. /\ UNCHANGED <<staff, member, silent, rule, event, fired, late>> /\ changes' = changes + 1
      /\ job' = [w \in A!Workers |-> A!Idle] /\ posting' = {}
      /\ lost' = lost \cup {p[1] : p \in {q \in posting : q[2] # Ticker}}
  BY DEF A!PanelRestarts, A!Change
<1>2. A!TypeOK'
  <2>1. lost' \subseteq A!RuleIds
    BY <1>0, <1>1 DEF AlertRows
  <2>2. AlertRows'
    BY <1>0, <1>1, <2>1 DEF AlertRows
  <2>3. AlertEvents' /\ job' \in [A!Workers -> A!Jobs]
    BY <1>0, <1>1, AlertIdle DEF AlertEvents
  <2> QED
    BY <2>2, <2>3, AlertTypes
<1>3. \A w \in A!Workers : job'[w].at = "idle" /\ job'[w].rules = {}
  BY <1>1, AlertIdle
<1>4. \A w \in A!Workers : AlertFit(w)'
  BY <1>3 DEF AlertFit, A!Turn
<1>5. \A e \in A!Events : A!Used(e)' => rule'[event'[e].rule] # A!NoRule
  BY <1>1, AlertFits DEF A!IInv, A!Used
<1>6. \A r \in A!RuleIds : A!Counted(r)'
  <2>1. \A r \in A!RuleIds : A!Inserting(r)' = {} /\ A!Notifying(r)' = {}
    BY <1>3 DEF A!Inserting, A!Notifying
  <2> QED
    BY <1>1, <2>1, AlertSame, AlertFewer
<1> QED
  BY <1>2, <1>4, <1>5, <1>6, AlertFits DEF A!IInv

\* Nothing is counted for a rule that was not made.
LEMMA AlertBlank ==
    ASSUME A!AlertsAssumption, A!IInv, NEW r \in A!RuleIds, rule[r] = A!NoRule
    PROVE  A!Recent(r) = {} /\ A!Recorded(r) = {} /\ A!Inserting(r) = {} /\ A!Notifying(r) = {} /\ fired[r] = 0
<1>1. \A e \in A!Events : event[e].rule # r
  BY AlertFits, AlertNames DEF A!IInv, A!Used
<1>2. \A w \in A!Workers : r \notin A!Turn(w)
  BY AlertKnown DEF AlertFit
<1>3. A!Recent(r) = {} /\ A!Recorded(r) = {}
  BY <1>1 DEF A!Recent, A!Recorded
<1>4. A!Inserting(r) = {} /\ A!Notifying(r) = {}
  BY <1>2 DEF A!Inserting, A!Notifying, A!Turn
<1>5. fired[r] \in Nat /\ fired[r] + Cardinality(A!Notifying(r)) <= Cardinality(A!Recorded(r))
  BY AlertSize DEF A!IInv, A!TypeOK, A!Counted
<1>6. Cardinality({}) = 0
  BY FS_EmptySet
<1> QED
  BY <1>3, <1>4, <1>5, <1>6

\* The row of a rule (CreateRule).
LEMMA AlertCreates ==
    ASSUME A!AlertsAssumption, A!IInv, NEW w \in A!Workers, A!CreateRule(w)
    PROVE  A!IInv'
<1>0. /\ A!TypeOK /\ AlertRows /\ AlertEvents /\ job[w] \in A!Jobs /\ job[w].at = "create" /\ job[w].want # A!NoRule
      /\ job[w].want \in A!Rules /\ rule \in [A!RuleIds -> A!Rules]
  BY AlertTypes, AlertKnown DEF A!IInv, A!CreateRule, AlertFit, A!Jobs, A!TypeOK
<1>1. A!Go(w, A!Idle) /\ UNCHANGED <<staff, member, silent, event, fired, posting, lost, late, changes>>
  BY DEF A!CreateRule
<1>2. \A r \in A!RuleIds : rule'[r] = rule[r] \/ (rule[r] = A!NoRule /\ rule'[r] = job[w].want)
  BY DEF A!CreateRule, A!FreeRule
<1>3. rule' \in [A!RuleIds -> A!Rules]
  BY <1>0 DEF A!CreateRule
<1>4. job' \in [A!Workers -> A!Jobs] /\ job'[w] = A!Idle /\ \A v \in A!Workers : v # w => job'[v] = job[v]
  BY <1>1, AlertGo, AlertIdle
<1>5. A!TypeOK'
  <2>1. AlertRows' /\ AlertEvents'
    BY <1>0, <1>1, <1>3 DEF AlertRows, AlertEvents
  <2> QED
    BY <1>4, <2>1, AlertTypes
<1>6. ASSUME NEW v \in A!Workers
      PROVE  AlertFit(v)'
  <2>1. CASE v = w
    BY <1>4, <2>1, AlertIdle DEF AlertFit, A!Turn
  <2>2. CASE v # w
    <3>1. AlertFit(v) /\ A!Turn(v)' = A!Turn(v) /\ job'[v] = job[v]
      BY <1>4, <2>2, AlertKnown DEF A!Turn
    <3>2. \A r \in A!Turn(v) : r \in A!RuleIds /\ rule'[r] = rule[r]
      BY <1>2, <3>1 DEF AlertFit
    <3> QED
      BY <1>1, <3>1, <3>2 DEF AlertFit
  <2> QED
    BY <2>1, <2>2
<1>7. \A e \in A!Events : A!Used(e)' => rule'[event'[e].rule] # A!NoRule
  <2>1. \A e \in A!Events : A!Used(e) => event[e].rule \in A!RuleIds /\ rule[event[e].rule] # A!NoRule
    BY <1>0, AlertFits DEF A!IInv, AlertEvents, A!Used
  <2> QED
    BY <1>1, <1>2, <2>1 DEF A!Used
<1>8. ASSUME NEW r \in A!RuleIds
      PROVE  A!Counted(r)'
  <2>1. A!Recent(r)' = A!Recent(r) /\ A!Recorded(r)' = A!Recorded(r) /\ fired'[r] = fired[r]
    BY <1>1, AlertSame
  <2>2. A!Inserting(r)' \subseteq A!Inserting(r) /\ A!Notifying(r)' \subseteq A!Notifying(r)
    BY <1>4, AlertIdle DEF A!Inserting, A!Notifying
  <2>3. CASE rule'[r] = rule[r]
    BY <2>1, <2>2, <2>3, AlertFewer
  <2>4. CASE rule[r] = A!NoRule
    <3>1. A!Recent(r)' = {} /\ A!Recorded(r)' = {} /\ A!Inserting(r)' = {} /\ A!Notifying(r)' = {} /\ fired'[r] = 0
      BY <2>1, <2>2, <2>4, AlertBlank
    <3>2. Cardinality({}) = 0
      BY FS_EmptySet
    <3>3. A!Cap(r)' \in Nat
      BY AlertNames, AlertSize DEF A!Cap
    <3> QED
      BY <3>1, <3>2, <3>3, AlertSize DEF A!Counted
  <2> QED
    BY <1>2, <2>3, <2>4
<1> QED
  BY <1>5, <1>6, <1>7, <1>8, AlertFits DEF A!IInv

LEMMA AlertInit == ASSUME A!AlertsAssumption, A!Init PROVE A!IInv
<1>1. \A w \in A!Workers : job[w] = A!Idle
  BY DEF A!Init
<1>2. \A e \in A!Events : event[e].rule = 0 /\ event[e].st = "none"
  BY DEF A!Init, A!NoEvent
<1>3. A!TypeOK
  <2>1. AlertRows
    <3>1. Staff \subseteq Users
      BY DEF A!AlertsAssumption
    <3> QED
      BY <3>1, AlertIdle DEF A!Init, AlertRows
  <2>2. AlertEvents
    BY DEF A!Init, AlertEvents, A!NoEvent
  <2>3. job \in [A!Workers -> A!Jobs]
    BY AlertIdle DEF A!Init
  <2> QED
    BY <2>1, <2>2, <2>3, AlertTypes
<1>4. \A w \in A!Workers : AlertFit(w)
  BY <1>1, AlertIdle DEF AlertFit, A!Turn
<1>5. \A e \in A!Events : ~A!Used(e)
  BY <1>2 DEF A!Used
<1>6. ASSUME NEW r \in A!RuleIds
      PROVE  A!Counted(r)
  <2>1. A!Recent(r) = {} /\ A!Recorded(r) = {} /\ A!Inserting(r) = {} /\ A!Notifying(r) = {}
    BY <1>1, <1>2, AlertNames, AlertIdle DEF A!Recent, A!Recorded, A!Inserting, A!Notifying
  <2>2. Cardinality({}) = 0 /\ fired[r] = 0
    BY FS_EmptySet DEF A!Init
  <2>3. A!Cap(r) \in Nat
    BY AlertNames, AlertSize DEF A!Cap
  <2> QED
    BY <2>1, <2>2, <2>3, AlertSize DEF A!Counted
<1> QED
  BY <1>3, <1>4, <1>5, <1>6, AlertFits DEF A!IInv

LEMMA AlertStutters == ASSUME A!AlertsAssumption, A!IInv, UNCHANGED A!vars PROVE A!IInv'
<1>1. UNCHANGED <<staff, member, silent, rule, event, job, fired, posting, lost, late, changes>>
  BY DEF A!vars
<1>2. AlertRows' /\ AlertEvents'
  BY <1>1, AlertTypes DEF A!IInv, AlertRows, AlertEvents
<1>3. AlertKept
  BY <1>1 DEF AlertKept
<1> QED
  BY <1>1, <1>2, <1>3, AlertRests

LEMMA AlertSteps == ASSUME A!AlertsAssumption, A!IInv, [A!Next]_(A!vars) PROVE A!IInv'
<1>1. CASE A!EvaluateNodeOffline \/ A!NextNode
  BY <1>1, AlertTicks
<1>2. CASE A!PanelRestarts
  BY <1>2, AlertRestarts
<1>3. CASE \E w \in A!Workers : A!EvaluateAndFire(w) \/ A!CreateRule(w) \/ A!Abort(w)
  BY <1>3, AlertChecks, AlertInserts, AlertDispatches, AlertFinishes, AlertCreates, AlertAborts DEF A!EvaluateAndFire
<1>4. CASE \/ \E w \in A!Workers, r \in A!RuleIds : A!Post(r, w)
           \/ \E n \in Hosts : A!NodeGoesSilent(n) \/ A!NodeReturns(n)
  BY <1>4, AlertWorld
<1>5. CASE \E w \in Requests : \/ \E n \in Hosts : A!ReportDDoS(w, n) \/ \E load \in Loads : A!HeartbeatAlerts(w, n, load)
                               \/ \E s \in Servers : A!CrashReport(w, s)
  BY <1>5, AlertRequests
<1>6. CASE \E w \in Requests, u \in Users, shape \in Shapes : A!HandleCreateRule(w, u, shape)
  BY <1>6, AlertAsks
<1>7. CASE \E u \in Users : A!LoseAccess(u)
  BY <1>7, AlertLosses
<1>8. CASE \E e \in A!Events : A!EventAges(e) \/ \E u \in Users : A!ResolveEvent(u, e)
  BY <1>8, AlertCloses
<1>9. CASE \E u \in Users, r \in A!RuleIds : A!DeleteRule(u, r) \/ \E st \in {"on", "off"} : A!ToggleRule(u, r, st)
  BY <1>9, AlertSwitches
<1>10. CASE UNCHANGED A!vars
  BY <1>10, AlertStutters
<1> QED
  BY <1>1, <1>2, <1>3, <1>4, <1>5, <1>6, <1>7, <1>8, <1>9, <1>10 DEF A!Next

\* Whatever requests, ticks, aborts, deletions and restarts of the panel interleave, the
\* evaluations of EvaluateAndFire stay within the rules they read, and the dedup query,
\* the INSERT and the notice are counted together (Counted).
THEOREM AlertInductive == ASSUME A!AlertsAssumption PROVE A!Spec => []A!IInv
<1>1. A!Init => A!IInv
  BY AlertInit
<1>2. A!IInv /\ [A!Next]_(A!vars) => A!IInv'
  BY AlertSteps
<1> QED
  BY <1>1, <1>2, PTL DEF A!Spec

\* However heartbeats, crash reports and ticks overlap, between the dedup query of
\* EvaluateAndFire and its INSERT too, a rule has at most as many recent open events as
\* there are requests in flight, and a node_offline rule, which only the one evaluator
\* fires, has at most one.
THEOREM DuplicatesStayBounded == ASSUME A!AlertsAssumption PROVE A!Spec => []A!DuplicatesBounded
<1>1. ASSUME A!IInv PROVE A!DuplicatesBounded
  <2>1. ASSUME NEW r \in A!RuleIds
        PROVE  A!Cardinality(A!Recent(r)) <= A!Cap(r)
    <3>1. A!Recent(r) \in SUBSET A!Events /\ A!Inserting(r) \in SUBSET A!Workers
      BY DEF A!Recent, A!Inserting
    <3>2. Cardinality(A!Recent(r)) \in Nat /\ Cardinality(A!Inserting(r)) \in Nat
      BY <3>1, AlertNames
    <3>3. A!Cap(r) \in Nat
      BY AlertNames, AlertSize DEF A!Cap
    <3>4. Cardinality(A!Recent(r)) + Cardinality(A!Inserting(r)) <= A!Cap(r)
      BY <1>1, AlertSize DEF A!IInv, A!Counted
    <3> QED
      BY <3>2, <3>3, <3>4, AlertSize
  <2> QED
    BY <2>1 DEF A!DuplicatesBounded, A!Cap
<1> QED
  BY <1>1, AlertInductive, PTL

\* EvaluateAndFire dispatches a notice only after the INSERT of its event succeeded: no
\* rule has sent more notices than it has events, whatever was aborted, deleted or
\* restarted in between, so what the next evaluation dedups on is there.
THEOREM NoticesHaveEvents == ASSUME A!AlertsAssumption PROVE A!Spec => []A!NoticeHasEvent
<1>1. ASSUME A!IInv PROVE A!NoticeHasEvent
  <2>1. ASSUME NEW r \in A!RuleIds
        PROVE  fired[r] <= A!Cardinality(A!Recorded(r))
    <3>1. A!Recorded(r) \in SUBSET A!Events /\ A!Notifying(r) \in SUBSET A!Workers
      BY DEF A!Recorded, A!Notifying
    <3>2. Cardinality(A!Recorded(r)) \in Nat /\ Cardinality(A!Notifying(r)) \in Nat
      BY <3>1, AlertNames
    <3>3. fired[r] \in Nat /\ fired[r] + Cardinality(A!Notifying(r)) <= Cardinality(A!Recorded(r))
      BY <1>1, AlertSize DEF A!IInv, A!TypeOK, A!Counted
    <3> QED
      BY <3>2, <3>3, AlertSize
  <2> QED
    BY <2>1 DEF A!NoticeHasEvent, A!Recorded
<1> QED
  BY <1>1, AlertInductive, PTL

\* A step that keeps rules and events as they are shows nobody more events.
LEMMA AlertShown ==
    ASSUME A!IInv, NEW u \in Users, staff' \subseteq staff,
           \A e \in A!Events : event'[e].rule = event[e].rule,
           \A r \in A!RuleIds : rule[r] # A!NoRule => (A!Exists(r)' <=> A!Exists(r)) /\ rule'[r].owner = rule[r].owner
    PROVE  A!ListEvents(u)' \subseteq A!ListEvents(u)
<1>1. SUFFICES ASSUME NEW e \in A!ListEvents(u)'
               PROVE  e \in A!ListEvents(u)
  OBVIOUS
<1>2. e \in A!Events /\ A!Used(e) /\ A!Used(e)'
  BY DEF A!ListEvents, A!Used
<1>3. PICK r : r = event[e].rule
  OBVIOUS
<1>4. r \in A!RuleIds /\ rule[r] # A!NoRule /\ event'[e].rule = r
  BY <1>2, <1>3, AlertFits, AlertTypes DEF A!IInv, A!Used, AlertEvents
<1>5. (A!Exists(r)' <=> A!Exists(r)) /\ rule'[r].owner = rule[r].owner
  BY <1>4
<1>6. IF A!Exists(r)' THEN rule'[r].owner = u ELSE u \in staff'
  BY <1>4 DEF A!ListEvents, A!Exists
<1>7. IF A!Exists(r) THEN rule[r].owner = u ELSE u \in staff
  BY <1>5, <1>6
<1> QED
  BY <1>2, <1>3, <1>7 DEF A!ListEvents

\* What a user may come to see.
AlertMaySee(u, e) == u \in staff' \/ <<u, event'[e].subject>> \in member' \/ late # {}

LEMMA AlertInsertShows ==
    ASSUME A!AlertsAssumption, A!IInv, NEW w \in A!Workers, A!InsertEvent(w), NEW u \in Users,
           NEW e \in A!ListEvents(u)' \ A!ListEvents(u)
    PROVE  AlertMaySee(u, e)
<1>0. AlertFit(w) /\ job[w] \in A!Jobs /\ job[w].at = "insert" /\ A!TypeOK
  BY AlertKnown DEF A!InsertEvent, A!IInv
<1>1. UNCHANGED <<staff, member, rule, late>>
  BY DEF A!InsertEvent
<1>2. \A r : A!Exists(r)' <=> A!Exists(r)
  BY <1>1 DEF A!Exists
<1>3. CASE event' = event
  <2>1. A!ListEvents(u)' \subseteq A!ListEvents(u)
    BY <1>1, <1>2, <1>3, AlertShown
  <2> QED
    BY <2>1
<1>4. CASE event' # event
  <2>1. A!Insertable(job[w])
    BY <1>4 DEF A!InsertEvent
  <2>2. PICK d \in A!Free : event' = [event EXCEPT ![d] = [rule |-> job[w].cur, subject |-> job[w].subject, st |-> "open"]]
    BY <2>1 DEF A!InsertEvent
  <2>3. d \in A!Events
    BY DEF A!Free
  <2>4. event \in [A!Events -> [rule : A!RuleIds \cup {0}, subject : Hosts \cup Servers \cup {A!None}, st : {"none", "open", "old", "resolved"}]]
    BY <1>0 DEF A!TypeOK
  <2>5. /\ event'[d].rule = job[w].cur /\ event'[d].subject = job[w].subject
        /\ \A c \in A!Events : c # d => event'[c] = event[c]
    BY <2>2, <2>3, <2>4
  <2>6. e \in A!Events
    BY DEF A!ListEvents
  <2>7. CASE e # d
    <3>1. event'[e] = event[e]
      BY <2>5, <2>6, <2>7
    <3>2. e \in A!ListEvents(u)
      BY <1>1, <1>2, <3>1 DEF A!ListEvents, A!Used
    <3> QED
      BY <3>2
  <2>8. CASE e = d
    <3>1. A!Exists(job[w].cur) /\ job[w].cur \in A!Turn(w)
      BY <1>0, <2>1 DEF A!Insertable, A!Turn
    <3>2. rule[job[w].cur].owner = u
      BY <1>1, <1>2, <2>5, <2>8, <3>1 DEF A!ListEvents
    <3>3. w \notin late => u \in staff \/ <<u, job[w].subject>> \in member
      BY <1>0, <3>1, <3>2 DEF AlertFit
    <3> QED
      BY <1>1, <2>5, <2>8, <3>3 DEF AlertMaySee
  <2> QED
    BY <2>7, <2>8
<1> QED
  BY <1>3, <1>4

LEMMA AlertSwitchShows ==
    ASSUME A!AlertsAssumption, A!IInv, NEW u \in Users, NEW v \in Users, NEW r \in A!RuleIds,
           A!DeleteRule(v, r) \/ \E st \in {"on", "off"} : A!ToggleRule(v, r, st),
           NEW e \in A!ListEvents(u)' \ A!ListEvents(u)
    PROVE  AlertMaySee(u, e)
<1>0. rule \in [A!RuleIds -> A!Rules] /\ event' = event /\ staff' = staff
  BY DEF A!IInv, A!TypeOK, A!DeleteRule, A!ToggleRule
<1>1. PICK st \in {"on", "off", "gone"} : rule' = [rule EXCEPT ![r].st = st] /\ A!Exists(r)
  BY DEF A!DeleteRule, A!ToggleRule
<1>2. PICK x : x = [rule[r] EXCEPT !.st = st]
  OBVIOUS
<1>3. x.st = st /\ x.owner = rule[r].owner
  BY <1>0, <1>2 DEF A!Rules
<1>4. rule'[r] = x /\ \A q \in A!RuleIds : q # r => rule'[q] = rule[q]
  BY <1>0, <1>1, <1>2
<1>5. CASE st # "gone"
  <2>1. \A q \in A!RuleIds : (A!Exists(q)' <=> A!Exists(q)) /\ rule'[q].owner = rule[q].owner
    BY <1>1, <1>3, <1>4, <1>5 DEF A!Exists
  <2>2. A!ListEvents(u)' \subseteq A!ListEvents(u)
    BY <1>0, <2>1, AlertShown
  <2> QED
    BY <2>2
<1>6. CASE st = "gone"
  <2>1. ~A!Exists(r)'
    BY <1>3, <1>4, <1>6 DEF A!Exists
  <2>2. e \in A!Events /\ A!Used(e)
    BY <1>0 DEF A!ListEvents, A!Used
  <2>3. event[e].rule \in A!RuleIds
    BY <2>2, AlertTypes DEF A!IInv, AlertEvents, A!Used
  <2>4. CASE event[e].rule = r
    BY <1>0, <2>1, <2>4 DEF A!ListEvents, AlertMaySee
  <2>5. CASE event[e].rule # r
    <3>1. rule'[event[e].rule] = rule[event[e].rule]
      BY <1>4, <2>3, <2>5
    <3>2. e \in A!ListEvents(u)
      BY <1>0, <2>2, <3>1 DEF A!ListEvents, A!Used, A!Exists
    <3> QED
      BY <3>2
  <2> QED
    BY <2>4, <2>5
<1> QED
  BY <1>5, <1>6

LEMMA AlertCloseShows ==
    ASSUME A!AlertsAssumption, A!IInv, NEW u \in Users, NEW e \in A!Events,
           A!EventAges(e) \/ \E v \in Users : A!ResolveEvent(v, e)
    PROVE  A!ListEvents(u)' \subseteq A!ListEvents(u)
<1>0. AlertEvents
  BY AlertTypes DEF A!IInv
<1>1. PICK st \in {"old", "resolved"} : event' = [event EXCEPT ![e].st = st]
  BY DEF A!EventAges, A!ResolveEvent
<1>2. UNCHANGED <<staff, rule>>
  BY DEF A!EventAges, A!ResolveEvent
<1>3. PICK x : x = [event[e] EXCEPT !.st = st]
  OBVIOUS
<1>4. x.rule = event[e].rule
  BY <1>0, <1>3 DEF AlertEvents
<1>5. event'[e] = x /\ \A d \in A!Events : d # e => event'[d] = event[d]
  BY <1>0, <1>1, <1>3 DEF AlertEvents
<1>6. \A d \in A!Events : event'[d].rule = event[d].rule
  BY <1>4, <1>5
<1>7. \A r : A!Exists(r)' <=> A!Exists(r)
  BY <1>2 DEF A!Exists
<1> QED
  BY <1>2, <1>6, <1>7, AlertShown

LEMMA AlertScopeStep ==
    ASSUME A!AlertsAssumption, A!IInv, [A!Next]_(A!vars), NEW u \in Users,
           NEW e \in A!ListEvents(u)' \ A!ListEvents(u)
    PROVE  AlertMaySee(u, e)
<1>1. CASE \E w \in A!Workers : A!InsertEvent(w)
  BY <1>1, AlertInsertShows
<1>2. CASE \E v \in Users, r \in A!RuleIds : A!DeleteRule(v, r) \/ \E st \in {"on", "off"} : A!ToggleRule(v, r, st)
  BY <1>2, AlertSwitchShows
<1>3. CASE \E d \in A!Events : A!EventAges(d) \/ \E v \in Users : A!ResolveEvent(v, d)
  <2>1. A!ListEvents(u)' \subseteq A!ListEvents(u)
    BY <1>3, AlertCloseShows
  <2> QED
    BY <2>1
<1>4. CASE event' = event /\ rule' = rule /\ staff' \subseteq staff
  <2>1. \A r : A!Exists(r)' <=> A!Exists(r)
    BY <1>4 DEF A!Exists
  <2>2. A!ListEvents(u)' \subseteq A!ListEvents(u)
    BY <1>4, <2>1, AlertShown
  <2> QED
    BY <2>2
<1>5. CASE \E w \in A!Workers : A!CreateRule(w)
  <2>1. event' = event /\ staff' = staff
    BY <1>5 DEF A!CreateRule
  <2>2. \A r \in A!RuleIds : rule[r] # A!NoRule => rule'[r] = rule[r]
    BY <1>5 DEF A!CreateRule, A!FreeRule
  <2>3. \A r \in A!RuleIds : rule[r] # A!NoRule => (A!Exists(r)' <=> A!Exists(r))
    BY <2>2 DEF A!Exists
  <2>4. A!ListEvents(u)' \subseteq A!ListEvents(u)
    BY <2>1, <2>2, <2>3, AlertShown
  <2> QED
    BY <2>4
<1>6. CASE A!EvaluateNodeOffline \/ A!NextNode \/ A!PanelRestarts
  BY <1>4, <1>6 DEF A!EvaluateNodeOffline, A!NextNode, A!PanelRestarts
<1>7. CASE \E w \in A!Workers : \/ A!CheckRule(w) \/ A!Dispatch(w) \/ A!Finish(w) \/ A!Abort(w)
                                \/ \E r \in A!RuleIds : A!Post(r, w)
  <2>1. event' = event /\ rule' = rule /\ staff' = staff
    BY <1>7 DEF A!CheckRule, A!Dispatch, A!Finish, A!Abort, A!Post
  <2> QED
    BY <1>4, <2>1
<1>8. CASE \E w \in Requests : \/ \E n \in Hosts : A!ReportDDoS(w, n) \/ \E load \in Loads : A!HeartbeatAlerts(w, n, load)
                               \/ \E s \in Servers : A!CrashReport(w, s)
                               \/ \E v \in Users, shape \in Shapes : A!HandleCreateRule(w, v, shape)
  <2>1. event' = event /\ rule' = rule /\ staff' = staff
    BY <1>8 DEF A!ReportDDoS, A!HeartbeatAlerts, A!CrashReport, A!Start, A!HandleCreateRule
  <2> QED
    BY <1>4, <2>1
<1>9. CASE \/ \E v \in Users : A!LoseAccess(v)
           \/ \E n \in Hosts : A!NodeGoesSilent(n) \/ A!NodeReturns(n)
           \/ UNCHANGED A!vars
  <2>1. event' = event /\ rule' = rule /\ staff' \subseteq staff
    BY <1>9 DEF A!LoseAccess, A!NodeGoesSilent, A!NodeReturns, A!vars
  <2> QED
    BY <1>4, <2>1
<1> QED
  BY <1>1, <1>2, <1>3, <1>5, <1>6, <1>7, <1>8, <1>9 DEF A!Next, A!EvaluateAndFire

\* Who is not staff comes to see an event (ListEvents) only if it is about a server that
\* the user owns or is a member of, whichever rules are deleted, roles taken away and
\* members removed; the exception is an evaluation that was running when access was lost.
THEOREM TenantsStayScoped == ASSUME A!AlertsAssumption PROVE A!Spec => A!TenantScope
<1>1. ASSUME A!IInv, [A!Next]_(A!vars)
      PROVE  [\A u \in Users : \A e \in A!ListEvents(u)' \ A!ListEvents(u) :
                  u \in staff' \/ <<u, event'[e].subject>> \in member' \/ late # {}]_(A!vars)
  BY <1>1, AlertScopeStep DEF AlertMaySee
<1> QED
  BY <1>1, AlertInductive, PTL DEF A!Spec, A!TenantScope
=============================================================================
