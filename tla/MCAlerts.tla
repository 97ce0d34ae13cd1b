------------------------------ MODULE MCAlerts ------------------------------
EXTENDS Alerts

\* A rule about every node with a post, one about a server, one about the load and one about floods.
MCShapes ==
    {[type |-> "node_offline", server |-> None, threshold |-> NoThreshold, channels |-> {"webhook"}],
     [type |-> "server_crashed", server |-> "s1", threshold |-> NoThreshold, channels |-> {"email"}],
     [type |-> "cpu_high", server |-> None, threshold |-> 40, channels |-> {"email"}],
     [type |-> "ddos", server |-> None, threshold |-> NoThreshold, channels |-> {"webhook"}]}

=============================================================================
