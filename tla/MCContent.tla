------------------------------ MODULE MCContent ------------------------------
EXTENDS Content, TLC

A(op, x, y) == [op |-> op, x |-> x, y |-> y, url |-> "none", admin |-> FALSE]
From(url, admin, a) == [a EXCEPT !.url = url, !.admin = admin]
MCAsked ==
    {A("activate", "w1", None), A("activate", "w2", None), A("delete", "w1", None), A("delete", "w2", None)}
    \cup {From("https", TRUE, A("install", "f2", None)), From("https", FALSE, A("install", "f1", None)),
          A("remove", "f1", None), A("remove", "f2", None), A("disable", "f1", None), A("enable", "f1", None), A("disable", "f2", None),
          From("cdn", FALSE, A("switch", "f1", "f1")), From("cdn", FALSE, A("switch", "f1", "f2")), A("upload", "f1", None), A("upload", "f2", None)}
    \cup {A("role", "s1", "hub"), A("role", "s2", "gamemode"), A("role", "s2", None), A("distribute", None, None)}
=============================================================================
