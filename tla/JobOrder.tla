------------------------------ MODULE JobOrder ------------------------------
(***************************************************************************)
(* The order in which a channel queue lets jobs go (ChannelJob.__cmp__ and *)
(* ChannelQueue.pop of jobrunner/channels.py).  A job is a record with at  *)
(* least an eta, a prio and a seq, which stands for (date_created, seq).   *)
(***************************************************************************)
EXTENDS Integers

NoEta == 0

\* ChannelJob.__cmp__
Before(a, b) ==
    \/ a.eta # NoEta /\ b.eta = NoEta
    \/ /\ (a.eta = NoEta) <=> (b.eta = NoEta)
       /\ \/ a.eta < b.eta
          \/ /\ a.eta = b.eta
             /\ \/ a.prio < b.prio
                \/ a.prio = b.prio /\ a.seq < b.seq

\* The jobs a heap may pop first: none comes before them.
Firsts(S) == {j \in S : \A k \in S : ~Before(k, j)}

\* ChannelQueue.pop: a job whose eta has passed, else a job without eta.
PoppableFrom(S, now) ==
    LET due == {j \in S : j.eta # NoEta /\ j.eta <= now}
    IN  Firsts(IF due # {} THEN due ELSE {j \in S : j.eta = NoEta})

=============================================================================
