----------------------------- MODULE MCAccounts -----------------------------
EXTENDS Accounts

CONSTANTS a, b, c

Administration == {"create", "cli", "role", "enable", "disable", "delete"}
Invitations == {"invite", "accept", "decline", "revoke", "expire"}

\* Nobody yet; two owners, who are changed and deleted; and one account of each rank,
\* where rights change under the invitations.
Empty == [u \in {a, b, c} |-> "none"]
Ranked == [u \in {a, b, c} |-> CASE u = a -> "owner" [] u = b -> "admin" [] u = c -> "user"]
TwoOwners == [Ranked EXCEPT ![b] = "owner"]

MCStart ==
    {[role |-> Empty, kinds |-> {"setup", "register"} \cup Administration],
     [role |-> TwoOwners, kinds |-> Administration],
     [role |-> Ranked, kinds |-> {"role", "delete", "perms"} \cup Invitations]}
=============================================================================
