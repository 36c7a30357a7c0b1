--------------------------- MODULE MCChannelQueue ---------------------------
(* Two objects without and three with an eta; the etas come one by one, two *)
(* objects share the place in the order and two share the eta.              *)
EXTENDS ChannelQueue

MCObjects ==
    {[id |-> 1, eta |-> NoEta, prio |-> 10, seq |-> 1],
     [id |-> 2, eta |-> NoEta, prio |-> 5, seq |-> 2],
     [id |-> 3, eta |-> 1, prio |-> 10, seq |-> 3],
     [id |-> 4, eta |-> 1, prio |-> 10, seq |-> 3],
     [id |-> 5, eta |-> 2, prio |-> 5, seq |-> 4]}

MCTimes == 0 .. 2

=============================================================================
