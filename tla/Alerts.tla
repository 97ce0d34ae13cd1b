------------------------------- MODULE Alerts -------------------------------
(***************************************************************************)
(* Alert rules, the evaluations that fire them, and the notices they send. *)
(*                                                                         *)
(* An evaluation runs inside a request (a heartbeat, a crash or a DDoS     *)
(* report) or on the evaluator's ticker; each SQL statement is a step.  A  *)
(* request that its caller gives up on has a cancelled context: its later  *)
(* statements fail and its posts are cut off.                              *)
(***************************************************************************)
EXTENDS Naturals, FiniteSets

CONSTANTS
    Users, Servers, Nodes,
    Staff,          \* the users that begin as administrators
    Requests,       \* requests in flight
    Ticker,         \* the evaluator's goroutine
    MaxRules,       \* rules created (bound)
    MaxEvents,      \* events recorded (bound)
    MaxChanges,     \* changes of roles and members, aborts, restarts, toggles (bound)
    Shapes,         \* rules that may be asked for: type, server, threshold, channels
    Loads           \* percentages that a heartbeat reports

None == "none"
NoThreshold == 0
NodeRuleTypes == {"cpu_high", "node_offline", "ddos"}
Workers == Requests \cup {Ticker}
RuleIds == 1 .. MaxRules
Events == 1 .. MaxEvents

ASSUME AlertsAssumption ==
    /\ Staff \subseteq Users /\ Ticker \notin Requests /\ IsFiniteSet(Requests)
    /\ {MaxRules, MaxEvents, MaxChanges} \cup Loads \subseteq Nat
    /\ Shapes \subseteq [type : NodeRuleTypes \cup {"server_crashed"}, server : Servers \cup {None},
                         threshold : Nat, channels : SUBSET {"email", "webhook"}]

VARIABLES
    staff, member,  \* users.role; servers.owner_id and server_members
    silent,         \* nodes that are "online" and five minutes without a heartbeat
    rule,           \* alert_rules
    event,          \* alert_events: open for fifteen minutes, then old, until resolved
    job,            \* evaluations and requests in flight
    fired,          \* notices dispatched, by rule
    posting, lost,  \* webhook posts under way, and cut off
    late,           \* evaluations that were running when somebody lost access
    changes

vars == <<staff, member, silent, rule, event, job, fired, posting, lost, late, changes>>

NoRule == [st |-> "none", owner |-> None, type |-> None, server |-> None, threshold |-> NoThreshold, channels |-> {}]
NoEvent == [rule |-> 0, subject |-> None, st |-> "none"]
Idle == [at |-> "idle", live |-> TRUE, todo |-> {}, type |-> None, subject |-> None, value |-> 0, rules |-> {}, cur |-> 0, want |-> NoRule]

Init ==
    /\ staff = Staff /\ member \in SUBSET ((Users \ Staff) \X Servers)
    /\ silent = {}
    /\ rule = [r \in RuleIds |-> NoRule]
    /\ event = [e \in Events |-> NoEvent]
    /\ job = [w \in Workers |-> Idle]
    /\ fired = [r \in RuleIds |-> 0]
    /\ posting = {} /\ lost = {} /\ late = {} /\ changes = 0

Change == changes < MaxChanges /\ changes' = changes + 1
Go(w, j) == job' = [job EXCEPT ![w] = j]
Used(e) == event[e].rule # 0
Free == {e \in Events : ~Used(e) /\ \A d \in 1 .. e - 1 : Used(d)}
FreeRule == {r \in RuleIds : rule[r] = NoRule /\ \A q \in 1 .. r - 1 : rule[q] # NoRule}
Exists(r) == rule[r].st \in {"on", "off"}

-----------------------------------------------------------------------------
(* Rules *)

MayView(u, s) == u \in staff \/ <<u, s>> \in member

\* Staff make any rule; others one about a server that they may view, of a server type.
CreateRuleAllowed(u, shape) ==
    \/ u \in staff
    \/ shape.server # None /\ shape.type \notin NodeRuleTypes /\ MayView(u, shape.server)

HandleCreateRule(w, u, shape) ==
    /\ job[w] = Idle /\ FreeRule # {} /\ CreateRuleAllowed(u, shape)
    /\ Go(w, [Idle EXCEPT !.at = "create", !.want = [st |-> "on", owner |-> u, type |-> shape.type, server |-> shape.server,
                                                     threshold |-> shape.threshold, channels |-> shape.channels]])
    /\ UNCHANGED <<staff, member, silent, rule, event, fired, posting, lost, late, changes>>

\* The row, after the checks.
CreateRule(w) ==
    /\ job[w].at = "create" /\ Go(w, Idle)
    /\ rule' = [r \in RuleIds |-> IF r \in FreeRule /\ job[w].live THEN job[w].want ELSE rule[r]]
    /\ UNCHANGED <<staff, member, silent, event, fired, posting, lost, late, changes>>

ToggleRule(u, r, st) ==
    /\ Exists(r) /\ rule[r].owner = u /\ rule[r].st # st /\ Change
    /\ rule' = [rule EXCEPT ![r].st = st]
    /\ UNCHANGED <<staff, member, silent, event, job, fired, posting, lost, late>>

\* Its events keep no rule (rule_id becomes NULL).
DeleteRule(u, r) ==
    /\ Exists(r) /\ rule[r].owner = u
    /\ rule' = [rule EXCEPT ![r].st = "gone"]
    /\ UNCHANGED <<staff, member, silent, event, job, fired, posting, lost, late, changes>>

\* The events a user is shown.
ListEvents(u) ==
    {e \in Events : Used(e) /\ IF Exists(event[e].rule) THEN rule[event[e].rule].owner = u ELSE u \in staff}

\* Somebody who is staff, or whose rule it is, closes an event.
ResolveEvent(u, e) ==
    /\ event[e].st \in {"open", "old"}
    /\ u \in staff \/ (Exists(event[e].rule) /\ rule[event[e].rule].owner = u)
    /\ event' = [event EXCEPT ![e].st = "resolved"]
    /\ UNCHANGED <<staff, member, silent, rule, job, fired, posting, lost, late, changes>>

-----------------------------------------------------------------------------
(* What starts an evaluation *)

\* Mutant: the rule's owner is not looked at.
AppliesUnscoped(r, type, subject) ==
    rule[r].st = "on" /\ rule[r].type = type /\ rule[r].server \in {None, subject}

\* Rules for everything fire for staff; a server's rule while its owner has access.
Applies(r, type, subject) ==
    /\ rule[r].st = "on" /\ rule[r].type = type
    /\ \/ rule[r].server = None /\ rule[r].owner \in staff
       \/ rule[r].server = subject /\ MayView(rule[r].owner, subject)

\* A request begins by reading the rules; without any it does nothing.
Start(w, type, subject, value) ==
    LET rules == {r \in RuleIds : Applies(r, type, subject)} IN
    /\ job[w] = Idle /\ rules # {}
    /\ Go(w, [Idle EXCEPT !.at = "rules", !.type = type, !.subject = subject, !.value = value, !.rules = rules])
    /\ late' = late \ {w}
    /\ UNCHANGED <<staff, member, silent, rule, event, fired, posting, lost, changes>>

HeartbeatAlerts(w, n, load) == Start(w, "cpu_high", n, load)
ReportDDoS(w, n) == Start(w, "ddos", n, 0)
CrashReport(w, s) == Start(w, "server_crashed", s, 0)

\* Every minute, each node that is silent; the rules are read anew for each.  (A tick
\* without such a rule changes nothing.)
EvaluateNodeOffline ==
    /\ job[Ticker] = Idle /\ silent # {} /\ \E r \in RuleIds : rule[r].type = "node_offline"
    /\ Go(Ticker, [Idle EXCEPT !.at = "next", !.todo = silent])
    /\ late' = late \ {Ticker}
    /\ UNCHANGED <<staff, member, silent, rule, event, fired, posting, lost, changes>>

NextNode ==
    /\ job[Ticker].at = "next"
    /\ \E n \in job[Ticker].todo :
        Go(Ticker, [job[Ticker] EXCEPT !.at = "rules", !.todo = @ \ {n}, !.type = "node_offline", !.subject = n,
                                       !.rules = {r \in RuleIds : Applies(r, "node_offline", n)}])
    /\ UNCHANGED <<staff, member, silent, rule, event, fired, posting, lost, late, changes>>

-----------------------------------------------------------------------------
(* EvaluateAndFire *)

DefaultThreshold(type) == IF type = "cpu_high" THEN 90 ELSE 0
Reaches(r, value) == value >= IF rule[r].threshold # NoThreshold THEN rule[r].threshold ELSE DefaultThreshold(rule[r].type)

\* Mutant: events of any age count.
OpenAnyAge(r) == {e \in Events : event[e].rule = r /\ event[e].st # "resolved"}

\* Unresolved events of the last fifteen minutes: of the rule, whatever the subject.
OpenEvents(r) == {e \in Events : event[e].rule = r /\ event[e].st = "open"}

\* Mutant: no dedup.
CheckRuleAlways(w) ==
    /\ job[w].at = "rules"
    /\ \E r \in job[w].rules :
        Go(w, IF Reaches(r, job[w].value) /\ job[w].live
              THEN [job[w] EXCEPT !.at = "insert", !.cur = r, !.rules = @ \ {r}] ELSE [job[w] EXCEPT !.rules = @ \ {r}])
    /\ UNCHANGED <<staff, member, silent, rule, event, fired, posting, lost, late, changes>>

\* Threshold, then the dedup query.
CheckRule(w) ==
    /\ job[w].at = "rules"
    /\ \E r \in job[w].rules :
        Go(w, IF Reaches(r, job[w].value) /\ job[w].live /\ OpenEvents(r) = {}
              THEN [job[w] EXCEPT !.at = "insert", !.cur = r, !.rules = @ \ {r}] ELSE [job[w] EXCEPT !.rules = @ \ {r}])
    /\ UNCHANGED <<staff, member, silent, rule, event, fired, posting, lost, late, changes>>

\* The row has to satisfy its foreign keys.  Only node_offline and ddos store a node.
Insertable(j) ==
    /\ j.live /\ Exists(j.cur)
    /\ j.subject \in IF j.type \in {"node_offline", "ddos"} THEN Nodes ELSE Servers

\* Mutant: the notice goes out although the row was refused.
InsertOrNot(w) ==
    LET j == job[w] IN
    /\ j.at = "insert"
    /\ IF Insertable(j) THEN \E e \in Free : event' = [event EXCEPT ![e] = [rule |-> j.cur, subject |-> j.subject, st |-> "open"]]
                        ELSE UNCHANGED event
    /\ Go(w, [j EXCEPT !.at = "notify"])
    /\ UNCHANGED <<staff, member, silent, rule, fired, posting, lost, late, changes>>

\* A refused row ends this rule's turn.
InsertEvent(w) ==
    LET j == job[w] IN
    /\ j.at = "insert"
    /\ IF Insertable(j)
       THEN /\ \E e \in Free : event' = [event EXCEPT ![e] = [rule |-> j.cur, subject |-> j.subject, st |-> "open"]]
            /\ Go(w, [j EXCEPT !.at = "notify"])
       ELSE UNCHANGED event /\ Go(w, [j EXCEPT !.at = "rules"])
    /\ UNCHANGED <<staff, member, silent, rule, fired, posting, lost, late, changes>>

\* Each channel in a goroutine of its own; a post keeps the request's context, a mail
\* has its own.
Dispatch(w) ==
    LET j == job[w] IN
    /\ j.at = "notify"
    /\ fired' = [fired EXCEPT ![j.cur] = IF @ < MaxEvents + 1 THEN @ + 1 ELSE @]
    /\ posting' = IF "webhook" \in rule[j.cur].channels THEN posting \cup {<<j.cur, w>>} ELSE posting
    /\ Go(w, [j EXCEPT !.at = "rules"])
    /\ UNCHANGED <<staff, member, silent, rule, event, lost, late, changes>>

Post(r, w) ==
    /\ <<r, w>> \in posting /\ posting' = posting \ {<<r, w>>}
    /\ lost' = IF job[w].live THEN lost ELSE lost \cup {r}
    /\ UNCHANGED <<staff, member, silent, rule, event, job, fired, late, changes>>

\* What the end of a worker's round cuts off: a request's context ends with it.
Cancelled(w) == IF w = Ticker THEN {} ELSE {<<r, w>> : r \in RuleIds}

Finish(w) ==
    LET cut == posting \cap Cancelled(w) IN
    /\ job[w].at = "rules" /\ job[w].rules = {}
    /\ IF job[w].todo # {} THEN Go(w, [job[w] EXCEPT !.at = "next"]) /\ UNCHANGED <<posting, lost>>
       ELSE Go(w, Idle) /\ posting' = posting \ cut /\ lost' = lost \cup {p[1] : p \in cut}
    /\ UNCHANGED <<staff, member, silent, rule, event, fired, late, changes>>

-----------------------------------------------------------------------------
(* The rest of the world *)

Abort(w) ==
    /\ w # Ticker /\ job[w] # Idle /\ job[w].live /\ Change
    /\ Go(w, [job[w] EXCEPT !.live = FALSE])
    /\ UNCHANGED <<staff, member, silent, rule, event, fired, posting, lost, late>>

LoseAccess(u) ==
    /\ Change /\ (u \in staff \/ \E s \in Servers : <<u, s>> \in member)
    /\ staff' = staff \ {u} /\ member' = {p \in member : p[1] # u}
    /\ late' = late \cup {w \in Workers : job[w] # Idle}
    /\ UNCHANGED <<silent, rule, event, job, fired, posting, lost>>

NodeGoesSilent(n) ==
    /\ n \notin silent /\ silent' = silent \cup {n}
    /\ UNCHANGED <<staff, member, rule, event, job, fired, posting, lost, late, changes>>

NodeReturns(n) ==
    /\ n \in silent /\ silent' = silent \ {n}
    /\ UNCHANGED <<staff, member, rule, event, job, fired, posting, lost, late, changes>>

EventAges(e) ==
    /\ event[e].st = "open" /\ event' = [event EXCEPT ![e].st = "old"]
    /\ UNCHANGED <<staff, member, silent, rule, job, fired, posting, lost, late, changes>>

PanelRestarts ==
    /\ Change /\ job # [w \in Workers |-> Idle]
    /\ job' = [w \in Workers |-> Idle] /\ lost' = lost \cup {p[1] : p \in {q \in posting : q[2] # Ticker}} /\ posting' = {}
    /\ UNCHANGED <<staff, member, silent, rule, event, fired, late>>

EvaluateAndFire(w) == CheckRule(w) \/ InsertEvent(w) \/ Dispatch(w) \/ Finish(w)

Next ==
    \/ EvaluateNodeOffline \/ NextNode \/ PanelRestarts
    \/ \E w \in Workers : EvaluateAndFire(w) \/ CreateRule(w) \/ Abort(w) \/ \E r \in RuleIds : Post(r, w)
    \/ \E w \in Requests : \/ \E n \in Nodes : ReportDDoS(w, n) \/ \E load \in Loads : HeartbeatAlerts(w, n, load)
                           \/ \E s \in Servers : CrashReport(w, s)
                           \/ \E u \in Users, shape \in Shapes : HandleCreateRule(w, u, shape)
    \/ \E u \in Users : LoseAccess(u) \/ \E e \in Events : ResolveEvent(u, e)
    \/ \E u \in Users, r \in RuleIds : DeleteRule(u, r) \/ \E st \in {"on", "off"} : ToggleRule(u, r, st)
    \/ \E n \in Nodes : NodeGoesSilent(n) \/ NodeReturns(n)
    \/ \E e \in Events : EventAges(e)

Spec == Init /\ [][Next]_vars

\* The evaluator's loop runs, and its ticker fires.
FairSpec == Spec /\ WF_vars(EvaluateNodeOffline) /\ WF_vars(NextNode) /\ WF_vars(EvaluateAndFire(Ticker))

-----------------------------------------------------------------------------
(* Properties *)

Rules == [st : {"none", "on", "off", "gone"}, owner : Users \cup {None}, type : NodeRuleTypes \cup {"server_crashed", None},
          server : Servers \cup {None}, threshold : Nat, channels : SUBSET {"email", "webhook"}]
Jobs == [at : {"idle", "create", "next", "rules", "insert", "notify"}, live : BOOLEAN, todo : SUBSET Nodes,
         type : NodeRuleTypes \cup {"server_crashed", None}, subject : Nodes \cup Servers \cup {None}, value : Nat,
         rules : SUBSET RuleIds, cur : RuleIds \cup {0}, want : Rules]

TypeOK ==
    /\ staff \subseteq Users /\ member \subseteq Users \X Servers /\ silent \subseteq Nodes
    /\ rule \in [RuleIds -> Rules]
    /\ event \in [Events -> [rule : RuleIds \cup {0}, subject : Nodes \cup Servers \cup {None}, st : {"none", "open", "old", "resolved"}]]
    /\ job \in [Workers -> Jobs] /\ fired \in [RuleIds -> Nat]
    /\ posting \subseteq RuleIds \X Workers /\ lost \subseteq RuleIds /\ late \subseteq Workers /\ changes \in Nat

Recent(r) == {e \in Events : event[e].rule = r /\ event[e].st = "open"}

\* The dedup query and the insert are separate statements, so requests that overlap
\* duplicate an alert, but never more often than there are requests; the one evaluator
\* never does.
DuplicatesBounded ==
    \A r \in RuleIds : Cardinality(Recent(r)) <= IF rule[r].type = "node_offline" THEN 1 ELSE Cardinality(Requests)

\* No notice without a row: what a later evaluation dedups on is there, so a condition
\* that persists cannot notify at every heartbeat.
NoticeHasEvent ==
    \A r \in RuleIds : fired[r] <= Cardinality({e \in Events : event[e].rule = r})

\* A user who is not staff comes to see an event only if it is about a server that the
\* user has access to, also after roles and members changed and rules were deleted
\* (EvaluateAndFire: "only while its owner still owns or is a member of that server");
\* an evaluation that was running when the access was lost still may.
TenantScope ==
    [][\A u \in Users : \A e \in ListEvents(u)' \ ListEvents(u) :
        u \in staff' \/ <<u, event'[e].subject>> \in member' \/ late # {}]_vars

-----------------------------------------------------------------------------
(* The inductive invariant behind DuplicatesBounded, NoticeHasEvent and TenantScope *)

\* The rules that worker w has read and not yet finished with.
Turn(w) == job[w].rules \cup (IF job[w].at \in {"insert", "notify"} THEN {job[w].cur} ELSE {})

\* Evaluations and events are of rules that were made; the evaluator's are node_offline
\* and nobody else's are.
RulesMade ==
    /\ \A w \in Workers :
          /\ \A r \in Turn(w) : r \in RuleIds /\ rule[r] # NoRule /\ rule[r].type = job[w].type
          /\ job[w].at \in {"rules", "insert", "notify"} => (job[w].type = "node_offline" <=> w = Ticker)
          /\ job[w].at = "create" => job[w].want # NoRule
    /\ \A e \in Events : Used(e) => rule[event[e].rule] # NoRule

\* A rule that is evaluated still has an owner with access, unless access was lost since.
Scoped ==
    \A w \in Workers \ late : \A r \in Turn(w) :
        rule[r].owner \in staff \/ <<rule[r].owner, job[w].subject>> \in member

\* Whoever has passed the dedup query counts as an event; a notice that is due, as a notice.
Inserting(r) == {w \in Workers : job[w].at = "insert" /\ job[w].cur = r}
Notifying(r) == {w \in Workers : job[w].at = "notify" /\ job[w].cur = r}
Recorded(r) == {e \in Events : event[e].rule = r}
Cap(r) == IF rule[r].type = "node_offline" THEN 1 ELSE Cardinality(Requests)
Counted(r) ==
    /\ Cardinality(Recent(r)) + Cardinality(Inserting(r)) <= Cap(r)
    /\ fired[r] + Cardinality(Notifying(r)) <= Cardinality(Recorded(r))

IInv == TypeOK /\ RulesMade /\ Scoped /\ \A r \in RuleIds : Counted(r)

-----------------------------------------------------------------------------
(* Liveness, and what does not hold *)

Armed(r) == rule[r].st = "on" /\ rule[r].type = "node_offline" /\ rule[r].owner \in staff /\ rule[r].server = None /\ rule[r].threshold = NoThreshold

\* While some node is silent, an enabled rule of an administrator has a recent open event.
OutageIsReported ==
    \A r \in RuleIds : (Armed(r) /\ silent # {}) ~> (Recent(r) # {} \/ ~Armed(r) \/ silent = {} \/ Free = {})

\* Refuted: every silent node is reported (the comment at the dedup query says
\* "subject_id-matched server/node", the query matches the rule only, so the event of
\* one node stands for all).
EveryOutageReported ==
    \A r \in RuleIds, n \in Nodes :
        (Armed(r) /\ n \in silent) ~> ((\E e \in Events : event[e].rule = r /\ event[e].subject = n) \/ ~Armed(r) \/ n \notin silent \/ Free = {})

\* Refuted: a rule has one recent open event.
OneOpenEvent == \A r \in RuleIds : Cardinality(Recent(r)) <= 1

\* Refuted: a heartbeat over the threshold is recorded (the node is stored as a server,
\* which its foreign key refuses: cpu_high, ram_high and disk_high never fire).
LoadIsRecorded ==
    \A r \in RuleIds : [](\A w \in Requests : job[w].at = "insert" /\ job[w].cur = r /\ rule[r].type = "cpu_high" => Insertable(job[w]))

\* Refuted: no post is cut off.
PostsSurvive == lost = {}

=============================================================================
