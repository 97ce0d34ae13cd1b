---------------------------- MODULE LoginLineage ----------------------------
(***************************************************************************)
(* What the panel's refresh sessions promise about one login: a lineage of *)
(* refresh tokens that is opened once, is held by at most one usable token *)
(* and, once closed, is never opened again.                                *)
(***************************************************************************)

CONSTANT Roots       \* a lineage is named by the token its login issued

VARIABLE phase

Move(from, to, r) == phase[r] \in from /\ phase' = [phase EXCEPT ![r] = to]

\* A login issues the first token.
Open(r) == Move({"unused"}, "open", r)

\* A refresh takes the token; only then can it issue the next one.
Turn(r) == Move({"open"}, "turning", r)
Renew(r) == Move({"turning"}, "open", r)

\* A logout, a revocation or an account's end closes any number of lineages; a
\* refresh that gives up closes its own.
Close ==
    \E S \in SUBSET Roots :
        /\ \A r \in S : phase[r] \in {"open", "turning"}
        /\ phase' = [r \in Roots |-> IF r \in S THEN "closed" ELSE phase[r]]

Init == phase = [r \in Roots |-> "unused"]

Next == Close \/ \E r \in Roots : Open(r) \/ Turn(r) \/ Renew(r)

Spec == Init /\ [][Next]_phase

=============================================================================
