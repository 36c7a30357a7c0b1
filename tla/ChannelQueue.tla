---------------------------- MODULE ChannelQueue ----------------------------
(***************************************************************************)
(* ChannelQueue and PriorityQueue (jobrunner/channels.py): two heaps, one  *)
(* for the jobs with an eta, from which jobs are removed lazily.  A job    *)
(* that is removed stays in the heap, and in _known, until it comes to the *)
(* top; _removed remembers that it does not count.                         *)
(*                                                                         *)
(* heapq is modelled by the objects the heap holds, how many times each,   *)
(* and by what heappop takes: one that no other comes before.  Objects are *)
(* compared by identity: two of them may have the same eta, prio and seq.  *)
(***************************************************************************)
EXTENDS JobOrder, FiniteSets

CONSTANTS
    Objects,    \* the ChannelJob objects
    Times,      \* the values of "now"
    None        \* pop has nothing to return

ASSUME ObjectsAssumption ==
    /\ \A o \in Objects : o.eta \in Nat /\ o.prio \in Nat /\ o.seq \in Nat
    /\ IsFiniteSet(Objects)
    /\ Times \subseteq Nat
    /\ None \notin Objects

VARIABLES
    queue,      \* ChannelQueue._queue: the jobs without an eta
    eta_queue,  \* ChannelQueue._eta_queue
    called,     \* history: the last call
    returned    \* what the last pop returned

queueVars == <<queue, eta_queue, called, returned>>

\* A PriorityQueue
PriorityQueue == [heap: [Objects -> Nat],       \* how often an object is in _heap
                  known: SUBSET Objects,
                  removed: SUBSET Objects]

NewPriorityQueue == [heap |-> [o \in Objects |-> 0], known |-> {}, removed |-> {}]

QueueInit ==
    /\ queue = NewPriorityQueue
    /\ eta_queue = NewPriorityQueue
    /\ called = <<"init">>
    /\ returned = None

-----------------------------------------------------------------------------
(* PriorityQueue                                                           *)

\* Mutant of PQAdd: an object that was removed stays removed.
PQAddStaysRemoved(p, o) ==
    [p EXCEPT !.heap[o] = IF o \in p.known THEN @ ELSE @ + 1,
              !.known = @ \cup {o}]

\* PriorityQueue.add
PQAdd(p, o) ==
    [heap |-> IF o \in p.known THEN p.heap ELSE [p.heap EXCEPT ![o] = @ + 1],
     known |-> p.known \cup {o},
     removed |-> p.removed \ {o}]

\* PriorityQueue.remove
PQRemove(p, o) ==
    IF o \in p.known THEN [p EXCEPT !.removed = @ \cup {o}] ELSE p

\* PriorityQueue.__len__
PQLen(p) == Cardinality(p.known) - Cardinality(p.removed)

InHeap(p) == {o \in Objects : p.heap[o] > 0}

\* heappop may take the removed objects D out of the heap one after the other
\* until x, which is not removed, is on top, or nothing is left and x is None.
Uncovers(p, D, x) ==
    /\ D \subseteq p.removed
    /\ IF x = None THEN D = InHeap(p)
       ELSE /\ x \in InHeap(p) \ p.removed
            /\ D \subseteq InHeap(p)
            /\ \A o \in D : ~Before(x, o)
            /\ \A o \in InHeap(p) \ D : ~Before(o, x)

\* The removed objects D, and x if it is popped itself, leave the heap.
PQWithout(p, D, popped) ==
    [heap |-> [o \in Objects |-> IF o \in D \cup popped THEN p.heap[o] - 1 ELSE p.heap[o]],
     known |-> p.known \ (D \cup popped),
     removed |-> p.removed \ D]

-----------------------------------------------------------------------------
(* ChannelQueue                                                            *)

Add(o) ==
    /\ called' = <<"add", o>>
    /\ IF o.eta # NoEta
       THEN eta_queue' = PQAdd(eta_queue, o) /\ UNCHANGED queue
       ELSE queue' = PQAdd(queue, o) /\ UNCHANGED eta_queue
    /\ UNCHANGED returned

Remove(o) ==
    /\ called' = <<"remove", o>>
    /\ eta_queue' = PQRemove(eta_queue, o)
    /\ queue' = PQRemove(queue, o)
    /\ UNCHANGED returned

\* self._queue.pop()
PopQueue ==
    \E D \in SUBSET queue.removed, x \in Objects \cup {None} :
        /\ Uncovers(queue, D, x)
        /\ queue' = PQWithout(queue, D, {x} \ {None})
        /\ returned' = x

\* Looking at the first eta throws the removed objects above it out of the
\* heap, also when the eta has not come yet.
Pop(now) ==
    /\ called' = <<"pop", now>>
    /\ \/ PQLen(eta_queue) = 0 /\ PopQueue /\ UNCHANGED eta_queue
       \/ /\ PQLen(eta_queue) # 0
          /\ \E D \in SUBSET eta_queue.removed, x \in Objects :
                /\ Uncovers(eta_queue, D, x)
                /\ IF x.eta <= now
                   THEN /\ eta_queue' = PQWithout(eta_queue, D, {x})
                        /\ returned' = x
                        /\ UNCHANGED queue
                   ELSE /\ eta_queue' = PQWithout(eta_queue, D, {})
                        /\ PopQueue

QueueNext ==
    \/ \E o \in Objects : Add(o)
    \/ \E o \in Objects : Remove(o)
    \/ \E now \in Times : Pop(now)

QueueSpec == QueueInit /\ [][QueueNext]_queueVars

-----------------------------------------------------------------------------
(* Properties                                                              *)

\* The heap holds the known objects, once each, and the removed ones are among
\* them: the sets never raise KeyError and __len__ counts what is in the queue.
PQInvariant(p) ==
    /\ p \in PriorityQueue
    /\ \A o \in Objects : p.heap[o] = IF o \in p.known THEN 1 ELSE 0
    /\ p.removed \subseteq p.known

\* Both priority queues are in order and each keeps to its kind of jobs.
QueueInvariant ==
    /\ PQInvariant(queue) /\ \A o \in queue.known : o.eta = NoEta
    /\ PQInvariant(eta_queue) /\ \A o \in eta_queue.known : o.eta # NoEta
    /\ returned \in Objects \cup {None}

\* PriorityQueue.__contains__
PQContent(p) == p.known \ p.removed

Set == INSTANCE JobSet WITH content <- PQContent(queue) \cup PQContent(eta_queue)

\* The two heaps with lazy removal are a set of jobs from which the one that
\* is due first is taken: each call has its effect on the set, no removed job
\* comes back, none is lost or taken twice, and no stale entry of the heap
\* hides a job that is due.
ImplementsSet == Set!Spec

=============================================================================
