------------------------------- MODULE JobSet -------------------------------
(***************************************************************************)
(* What a channel queue promises: it is a set of jobs, from which the one  *)
(* that is due first can be taken.                                         *)
(***************************************************************************)
EXTENDS JobOrder

CONSTANTS Objects, Times, None

VARIABLES
    content,    \* the jobs in the queue
    called,     \* the last call
    returned    \* what the last pop returned

Init == content = {} /\ called = <<"init">> /\ returned = None

Put(o) ==
    /\ called' = <<"add", o>>
    /\ content' = content \cup {o}
    /\ UNCHANGED returned

Drop(o) ==
    /\ called' = <<"remove", o>>
    /\ content' = content \ {o}
    /\ UNCHANGED returned

Take(now) ==
    /\ called' = <<"pop", now>>
    /\ \/ \E o \in PoppableFrom(content, now) :
             content' = content \ {o} /\ returned' = o
       \/ PoppableFrom(content, now) = {} /\ returned' = None /\ UNCHANGED content

Next ==
    \/ \E o \in Objects : Put(o) \/ Drop(o)
    \/ \E now \in Times : Take(now)

Spec == Init /\ [][Next]_<<content, called, returned>>

=============================================================================
