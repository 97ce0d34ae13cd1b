------------------------- MODULE MCServerLifecycle -------------------------
EXTENDS ServerLifecycle, TLC

\* One goroutine at a time, with losses, a daemon death and automatic restarts, in
\* production and in development; requests that wait for each other; two goroutines
\* at once.
Rough(dev) == [patient |-> FALSE, workers |-> {"w1"}, auto |-> TRUE, dev |-> dev, lost |-> {"call", "report"},
               exits |-> 1, deaths |-> 1, requests |-> 2]
Calm == [patient |-> TRUE, workers |-> {"w1"}, auto |-> FALSE, dev |-> FALSE, lost |-> {},
         exits |-> 2, deaths |-> 0, requests |-> 5]
Crowded == [patient |-> FALSE, workers |-> {"w1", "w2"}, auto |-> FALSE, dev |-> FALSE, lost |-> {},
            exits |-> 0, deaths |-> 0, requests |-> 2]
MCModes == {Rough(FALSE), Rough(TRUE), Calm, Crowded}
=============================================================================
