-------------------------- MODULE MCChannelManager --------------------------
(* A root and two sub-channels, one below the other or side by side, with  *)
(* jobs that differ by channel, by eta and by priority.                    *)
EXTENDS ChannelManager

CONSTANTS A, B, J1, J2, J3

MCUuids == {J1, J2, J3}
MCChannels == {Root, A, B}

\* root <- A <- B
MCParent == [c \in {A, B} |-> IF c = A THEN Root ELSE A]
MCPath == [c \in MCChannels |->
             CASE c = Root -> {Root} [] c = A -> {A, Root} [] OTHER -> {A, B, Root}]
MCCapacity == [c \in MCChannels |-> CASE c = Root -> 1 [] c = A -> 0 [] OTHER -> 1]
MCSequential == {B}

Seq(u) == CASE u = J1 -> 1 [] u = J2 -> 2 [] OTHER -> 3

\* The channel of a job changes when the user moves its function, the eta
\* when the job is postponed.
MCObjects ==
    {[uuid |-> u, chan |-> c, eta |-> e, prio |-> 10, seq |-> Seq(u)] :
        u \in MCUuids, c \in {A, B}, e \in {NoEta, 1}}

MCTimes == {0, 1}

=============================================================================
