------------------------------ MODULE MCPlayers ------------------------------
EXTENDS Players, TLC

A(op, val, srv) == [op |-> op, val |-> val, srv |-> srv]
MCAsked == {A("network", TRUE, "s1"), A("network", FALSE, "s1"), A("ban", TRUE, "s2"), A("ban", FALSE, "s2"),
            A("op", TRUE, "s2"), A("kick", TRUE, "s2")}
=============================================================================
