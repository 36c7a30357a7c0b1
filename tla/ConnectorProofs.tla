--------------------------- MODULE ConnectorProofs --------------------------
(***************************************************************************)
(* Two parts of the connector that hold no rows.  The queue of a channel:  *)
(* two heaps with lazy removal implement a set of jobs.  The classes of    *)
(* the connector, for any modules, backends, classes and models: the       *)
(* lookup finds the class meant for a backend and a model, and an export   *)
(* maps whatever depends on the fields that changed.                       *)
(***************************************************************************)
EXTENDS ChannelQueue, Mappers, FiniteSetTheorems, SequenceTheorems,
        WellFoundedInduction, TLAPS

-----------------------------------------------------------------------------
(***************************************************************************)
(* The queue of a channel                                                  *)
(***************************************************************************)

(* PriorityQueue                                                           *)

LEMMA HeapOfKnown ==
    ASSUME NEW p, PQInvariant(p) PROVE InHeap(p) = p.known /\ PQContent(p) \subseteq Objects
BY DEF PQInvariant, InHeap, PriorityQueue, PQContent

\* add puts the object in the queue.
LEMMA AddKeeps ==
    ASSUME NEW p, PQInvariant(p), NEW o \in Objects
    PROVE  /\ PQInvariant(PQAdd(p, o))
           /\ PQAdd(p, o).known = p.known \cup {o}
           /\ PQContent(PQAdd(p, o)) = PQContent(p) \cup {o}
<1>1. /\ PQAdd(p, o).known = p.known \cup {o}
      /\ PQAdd(p, o).removed = p.removed \ {o}
      /\ PQAdd(p, o).heap = IF o \in p.known THEN p.heap ELSE [p.heap EXCEPT ![o] = @ + 1]
  BY DEF PQAdd
<1>2. p \in PriorityQueue /\ \A x \in Objects : p.heap[x] = IF x \in p.known THEN 1 ELSE 0
  BY DEF PQInvariant
<1>3. PQAdd(p, o) \in PriorityQueue
  BY <1>2 DEF PQAdd, PriorityQueue
<1>4. \A x \in Objects : PQAdd(p, o).heap[x] = IF x \in p.known \cup {o} THEN 1 ELSE 0
  BY <1>1, <1>2 DEF PriorityQueue
<1> QED BY <1>1, <1>3, <1>4 DEF PQInvariant, PQContent

\* remove takes the object out of the queue and leaves it in the heap.
LEMMA RemoveKeeps ==
    ASSUME NEW p, PQInvariant(p), NEW o \in Objects
    PROVE  /\ PQInvariant(PQRemove(p, o))
           /\ PQRemove(p, o).known = p.known
           /\ PQContent(PQRemove(p, o)) = PQContent(p) \ {o}
BY DEF PQInvariant, PQRemove, PQContent, PriorityQueue

\* What leaves the heap also leaves the sets.
LEMMA WithoutKeeps ==
    ASSUME NEW p, PQInvariant(p), NEW D \in SUBSET p.removed, NEW popped \in SUBSET PQContent(p)
    PROVE  /\ PQInvariant(PQWithout(p, D, popped))
           /\ PQWithout(p, D, popped).known \subseteq p.known
           /\ PQContent(PQWithout(p, D, popped)) = PQContent(p) \ popped
<1> DEFINE w == PQWithout(p, D, popped)
<1>1. /\ w.known = p.known \ (D \cup popped)
      /\ w.removed = p.removed \ D
      /\ w.heap = [o \in Objects |-> IF o \in D \cup popped THEN p.heap[o] - 1 ELSE p.heap[o]]
  BY DEF PQWithout
<1>2. /\ p.known \subseteq Objects /\ p.removed \subseteq p.known
      /\ D \cup popped \subseteq p.known
      /\ \A o \in Objects : p.heap[o] = IF o \in p.known THEN 1 ELSE 0
  BY DEF PQInvariant, PQContent, PriorityQueue
<1>3. \A o \in Objects : w.heap[o] = IF o \in w.known THEN 1 ELSE 0
  BY <1>1, <1>2
<1>4. w.heap \in [Objects -> Nat]
  BY <1>1, <1>2
<1>5. w \in PriorityQueue
  BY <1>1, <1>2, <1>4 DEF PQWithout, PriorityQueue
<1>6. w.removed \subseteq w.known
  BY <1>1, <1>2 DEF PQContent
<1> QED BY <1>1, <1>3, <1>5, <1>6 DEF PQInvariant, PQContent

\* __len__ is 0 when the queue is empty.
LEMMA LenOfContent ==
    ASSUME NEW p, PQInvariant(p) PROVE PQLen(p) = 0 <=> PQContent(p) = {}
<1>1. p.known \subseteq Objects /\ p.removed \subseteq p.known
  BY DEF PQInvariant, PriorityQueue
<1>2. IsFiniteSet(p.known)
  BY <1>1, FS_Subset, ObjectsAssumption
<1>3. /\ IsFiniteSet(p.known \ p.removed)
      /\ Cardinality(p.known \ p.removed) = Cardinality(p.known) - Cardinality(p.known \cap p.removed)
  BY <1>2, FS_Difference
<1>4. p.known \cap p.removed = p.removed
  BY <1>1
<1> QED BY <1>3, <1>4, FS_EmptySet DEF PQLen, PQContent

\* The object that heappop uncovers is in the queue and none there comes
\* before it; when it uncovers none, the queue is empty.
LEMMA UncoveredIsFirst ==
    ASSUME NEW p, PQInvariant(p), NEW D, NEW x \in Objects \cup {None}, Uncovers(p, D, x)
    PROVE  /\ D \in SUBSET p.removed
           /\ x # None => x \in Firsts(PQContent(p))
           /\ x = None => PQContent(p) = {}
BY HeapOfKnown DEF Uncovers, Firsts, PQContent

-----------------------------------------------------------------------------
(* ChannelQueue                                                            *)

Content == PQContent(queue) \cup PQContent(eta_queue)

\* Both modules take the order of jobs from module JobOrder.
LEMMA SameOrder ==
    ASSUME NEW S, NEW t PROVE Set!PoppableFrom(S, t) = PoppableFrom(S, t)
<1>1. ASSUME NEW R PROVE Set!Firsts(R) = Firsts(R)
  BY DEF Set!Firsts, Firsts, Set!Before, Before, Set!NoEta, NoEta
<1> QED BY <1>1 DEF Set!PoppableFrom, PoppableFrom, Set!NoEta, NoEta

LEMMA Typed ==
    ASSUME QueueInvariant
    PROVE  /\ \A o \in PQContent(queue) : o \in Objects /\ o.eta = NoEta
           /\ \A o \in PQContent(eta_queue) : o \in Objects /\ o.eta # NoEta
BY DEF QueueInvariant, PQInvariant, PriorityQueue, PQContent

\* _queue.pop() when no job is due
LEMMA PopQueueKeeps ==
    ASSUME QueueInvariant, PopQueue, NEW t \in Times,
           \A o \in PQContent(eta_queue) : ~(o.eta <= t)
    PROVE  /\ PQInvariant(queue)' /\ queue'.known \subseteq queue.known
           /\ returned' \in Objects \cup {None}
           /\ \/ /\ returned' \in PoppableFrom(Content, t)
                 /\ PQContent(queue)' = PQContent(queue) \ {returned'}
                 /\ returned' \notin PQContent(eta_queue)
              \/ /\ PoppableFrom(Content, t) = {}
                 /\ returned' = None
                 /\ PQContent(queue)' = PQContent(queue)
<1>1. PICK D \in SUBSET queue.removed, x \in Objects \cup {None} :
         /\ Uncovers(queue, D, x)
         /\ queue' = PQWithout(queue, D, {x} \ {None})
         /\ returned' = x
  BY DEF PopQueue
<1>2. PQInvariant(queue)
  BY DEF QueueInvariant
<1>3. /\ x # None => x \in Firsts(PQContent(queue))
      /\ x = None => PQContent(queue) = {}
  BY <1>1, <1>2, UncoveredIsFirst
<1>4. {x} \ {None} \in SUBSET PQContent(queue)
  BY <1>3 DEF Firsts
<1>5. PoppableFrom(Content, t) = Firsts(PQContent(queue))
  <2>1. {j \in Content : j.eta # NoEta /\ j.eta <= t} = {}
    BY Typed DEF Content
  <2>2. {j \in Content : j.eta = NoEta} = PQContent(queue)
    BY Typed DEF Content
  <2> QED BY <2>1, <2>2 DEF PoppableFrom
<1>6. /\ PQInvariant(queue)' /\ queue'.known \subseteq queue.known
      /\ PQContent(queue)' = PQContent(queue) \ ({x} \ {None})
  BY <1>1, <1>2, <1>4, WithoutKeeps
<1>7. CASE x = None
  BY <1>1, <1>3, <1>5, <1>6, <1>7 DEF Firsts
<1>8. CASE x # None
  BY <1>1, <1>3, <1>5, <1>6, <1>8, Typed DEF Firsts
<1> QED BY <1>7, <1>8

LEMMA PopKeeps ==
    ASSUME QueueInvariant, NEW t \in Times, Pop(t)
    PROVE  QueueInvariant' /\ Set!Take(t)
<1>0. called' = <<"pop", t>>
  BY DEF Pop
<1>1. PQInvariant(queue) /\ PQInvariant(eta_queue)
  BY DEF QueueInvariant
<1>2. CASE PQLen(eta_queue) = 0 /\ PopQueue /\ UNCHANGED eta_queue
  <2>1. PQContent(eta_queue) = {}
    BY <1>1, <1>2, LenOfContent
  <2>2. /\ PQInvariant(queue)' /\ queue'.known \subseteq queue.known
        /\ returned' \in Objects \cup {None}
        /\ \/ /\ returned' \in PoppableFrom(Content, t)
              /\ PQContent(queue)' = PQContent(queue) \ {returned'}
              /\ returned' \notin PQContent(eta_queue)
           \/ /\ PoppableFrom(Content, t) = {}
              /\ returned' = None
              /\ PQContent(queue)' = PQContent(queue)
    BY <1>2, <2>1, PopQueueKeeps
  <2>3. QueueInvariant'
    BY <1>2, <2>2 DEF QueueInvariant
  <2>4. Content' = PQContent(queue)' \cup PQContent(eta_queue)
    BY <1>2 DEF Content
  <2> QED BY <1>0, <2>2, <2>3, <2>4, SameOrder DEF Set!Take, Content
<1>3. ASSUME NEW D \in SUBSET eta_queue.removed, NEW x \in Objects,
             Uncovers(eta_queue, D, x), x.eta <= t,
             eta_queue' = PQWithout(eta_queue, D, {x}), returned' = x, UNCHANGED queue
      PROVE  QueueInvariant' /\ Set!Take(t)
  <2>1. x \in Firsts(PQContent(eta_queue))
    BY <1>1, <1>3, UncoveredIsFirst, ObjectsAssumption
  <2>2. {x} \in SUBSET PQContent(eta_queue)
    BY <2>1 DEF Firsts
  <2>3. /\ PQInvariant(eta_queue)' /\ eta_queue'.known \subseteq eta_queue.known
        /\ PQContent(eta_queue)' = PQContent(eta_queue) \ {x}
    BY <1>1, <1>3, <2>2, WithoutKeeps
  <2>4. x \in {j \in Content : j.eta # NoEta /\ j.eta <= t}
    BY <1>3, <2>2, Typed DEF Content
  <2>5. {j \in Content : j.eta # NoEta /\ j.eta <= t} \subseteq PQContent(eta_queue)
    BY Typed DEF Content
  <2>6. x \in PoppableFrom(Content, t)
    BY <2>1, <2>4, <2>5 DEF PoppableFrom, Firsts
  <2>7. Content' = Content \ {x}
    BY <1>3, <2>2, <2>3, Typed DEF Content
  <2>8. QueueInvariant'
    BY <1>3, <2>3 DEF QueueInvariant
  <2> QED BY <1>3, <1>0, <2>6, <2>7, <2>8, SameOrder DEF Set!Take, Content
<1>4. ASSUME NEW D \in SUBSET eta_queue.removed, NEW x \in Objects,
             Uncovers(eta_queue, D, x), ~(x.eta <= t),
             eta_queue' = PQWithout(eta_queue, D, {}), PopQueue
      PROVE  QueueInvariant' /\ Set!Take(t)
  <2>1. x \in Firsts(PQContent(eta_queue))
    BY <1>1, <1>4, UncoveredIsFirst, ObjectsAssumption
  <2>2. \A o \in PQContent(eta_queue) : ~(o.eta <= t)
    <3> SUFFICES ASSUME NEW o \in PQContent(eta_queue) PROVE ~(o.eta <= t)
      OBVIOUS
    <3>1. o \in Objects /\ o.eta # NoEta /\ x.eta # NoEta
      BY <2>1, Typed DEF Firsts
    <3>2. o.eta \in Nat /\ x.eta \in Nat /\ t \in Nat
      BY <3>1, ObjectsAssumption
    <3>3. ~Before(o, x)
      BY <2>1 DEF Firsts
    <3> QED BY <1>4, <3>1, <3>2, <3>3 DEF Before
  <2>3. /\ PQInvariant(eta_queue)' /\ eta_queue'.known \subseteq eta_queue.known
        /\ PQContent(eta_queue)' = PQContent(eta_queue)
    <3>1. PQContent(eta_queue) \ {} = PQContent(eta_queue)
      OBVIOUS
    <3> QED BY <1>1, <1>4, <3>1, WithoutKeeps
  <2>4. /\ PQInvariant(queue)' /\ queue'.known \subseteq queue.known
        /\ returned' \in Objects \cup {None}
        /\ \/ /\ returned' \in PoppableFrom(Content, t)
              /\ PQContent(queue)' = PQContent(queue) \ {returned'}
              /\ returned' \notin PQContent(eta_queue)
           \/ /\ PoppableFrom(Content, t) = {}
              /\ returned' = None
              /\ PQContent(queue)' = PQContent(queue)
    BY <1>4, <2>2, PopQueueKeeps
  <2>5. QueueInvariant'
    BY <2>3, <2>4 DEF QueueInvariant
  <2>6. Content' = PQContent(queue)' \cup PQContent(eta_queue)
    BY <2>3 DEF Content
  <2> QED BY <1>0, <2>4, <2>5, <2>6, SameOrder DEF Set!Take, Content
<1> QED BY <1>2, <1>3, <1>4 DEF Pop

\* Every call keeps the queues in order and is a call on the set.
LEMMA NextKeeps ==
    ASSUME QueueInvariant, [QueueNext]_queueVars
    PROVE  QueueInvariant' /\ [Set!Next]_<<Content, called, returned>>
<1>1. PQInvariant(queue) /\ PQInvariant(eta_queue)
  BY DEF QueueInvariant
<1>2. ASSUME NEW o \in Objects, Add(o) PROVE QueueInvariant' /\ Set!Put(o)
  <2>1. CASE o.eta # NoEta
    <3>1. eta_queue' = PQAdd(eta_queue, o) /\ queue' = queue /\ returned' = returned
          /\ called' = <<"add", o>>
      BY <1>2, <2>1 DEF Add
    <3>2. /\ PQInvariant(eta_queue)' /\ eta_queue'.known = eta_queue.known \cup {o}
          /\ PQContent(eta_queue)' = PQContent(eta_queue) \cup {o}
      BY <1>1, <3>1, AddKeeps
    <3> QED BY <2>1, <3>1, <3>2 DEF QueueInvariant, Set!Put
  <2>2. CASE o.eta = NoEta
    <3>1. queue' = PQAdd(queue, o) /\ eta_queue' = eta_queue /\ returned' = returned
          /\ called' = <<"add", o>>
      BY <1>2, <2>2 DEF Add
    <3>2. /\ PQInvariant(queue)' /\ queue'.known = queue.known \cup {o}
          /\ PQContent(queue)' = PQContent(queue) \cup {o}
      BY <1>1, <3>1, AddKeeps
    <3> QED BY <2>2, <3>1, <3>2 DEF QueueInvariant, Set!Put
  <2> QED BY <2>1, <2>2
<1>3. ASSUME NEW o \in Objects, Remove(o) PROVE QueueInvariant' /\ Set!Drop(o)
  <2>1. /\ PQInvariant(queue)' /\ queue'.known = queue.known
        /\ PQContent(queue)' = PQContent(queue) \ {o}
    BY <1>1, <1>3, RemoveKeeps DEF Remove
  <2>2. /\ PQInvariant(eta_queue)' /\ eta_queue'.known = eta_queue.known
        /\ PQContent(eta_queue)' = PQContent(eta_queue) \ {o}
    BY <1>1, <1>3, RemoveKeeps DEF Remove
  <2> QED BY <1>3, <2>1, <2>2 DEF Remove, QueueInvariant, Set!Drop
<1>4. CASE UNCHANGED queueVars
  BY <1>4 DEF queueVars, QueueInvariant, PQInvariant, Content, PQContent
<1> QED BY <1>2, <1>3, <1>4, PopKeeps DEF QueueNext, Set!Next

LEMMA InitKeeps == QueueInit => QueueInvariant /\ Set!Init
BY DEF QueueInit, QueueInvariant, PQInvariant, NewPriorityQueue, PriorityQueue, Set!Init, PQContent

\* The sets beside the heaps are in order whatever is added, removed and
\* popped, also objects that were removed before.
THEOREM QueuesAreInOrder == QueueSpec => []QueueInvariant
<1> QED BY InitKeeps, NextKeeps, PTL DEF QueueSpec

\* A ChannelQueue is a set of jobs from which the one due first is popped.
THEOREM QueueIsSet == QueueSpec => ImplementsSet
<1>1. QueueInit => Set!Init
  BY InitKeeps
<1>2. QueueInvariant /\ [QueueNext]_queueVars => [Set!Next]_<<Content, called, returned>>
  BY NextKeeps
<1> QED BY <1>1, <1>2, QueuesAreInOrder, PTL DEF QueueSpec, ImplementsSet, Set!Spec, Content

-----------------------------------------------------------------------------
(***************************************************************************)
(* The registry of classes and the mappers                                 *)
(***************************************************************************)

(* The order of the classes                                                *)

Elements(s) == {s[i] : i \in DOMAIN s}

\* Every class is defined after the classes it is derived from.
OrderInv ==
    /\ Defined \subseteq Classes
    /\ \A c \in Defined :
          /\ mro[c] \in Seq(Defined) /\ c \in Ancestors(c)
          /\ \A a \in Ancestors(c) \ {Unit} : a \in Defined /\ Ancestors(a) \subseteq Ancestors(c)

LEMMA ElementsJoined ==
    ASSUME NEW S, NEW s \in Seq(S), NEW t \in Seq(S)
    PROVE  s \o t \in Seq(S) /\ Elements(s \o t) = Elements(s) \cup Elements(t)
<1> DEFINE m == Len(s)
           n == Len(t)
           u == s \o t
<1>1. /\ u \in Seq(S) /\ Len(u) = m + n
      /\ \A i \in 1..(m + n) : u[i] = IF i <= m THEN s[i] ELSE t[i - m]
  BY ConcatProperties
<1>2. m \in Nat /\ n \in Nat /\ DOMAIN s = 1..m /\ DOMAIN t = 1..n
  OBVIOUS
<1>3. DOMAIN u = 1..(m + n)
  BY <1>1
<1> HIDE DEF u, m, n
<1>4. ASSUME NEW i \in 1..(m + n) PROVE u[i] \in Elements(s) \cup Elements(t)
  <2>1. CASE i <= m
    <3>1. i \in DOMAIN s /\ u[i] = s[i]
      BY <1>1, <1>2, <2>1
    <3> QED BY <3>1 DEF Elements
  <2>2. CASE ~(i <= m)
    <3>1. i - m \in 1..n /\ u[i] = t[i - m]
      BY <1>1, <1>2, <2>2
    <3> QED BY <1>2, <3>1 DEF Elements
  <2> QED BY <2>1, <2>2
<1>5. ASSUME NEW i \in 1..m PROVE s[i] \in Elements(u)
  <2>1. i \in 1..(m + n) /\ u[i] = s[i]
    BY <1>1, <1>2
  <2> QED BY <1>3, <2>1 DEF Elements
<1>6. ASSUME NEW i \in 1..n PROVE t[i] \in Elements(u)
  <2>1. m + i \in 1..(m + n) /\ ~(m + i <= m) /\ (m + i) - m = i
    BY <1>2
  <2>2. u[m + i] = IF m + i <= m THEN s[m + i] ELSE t[(m + i) - m]
    BY <1>1, <2>1
  <2>3. u[m + i] = t[i]
    BY <2>1, <2>2
  <2> QED BY <1>3, <2>1, <2>3 DEF Elements
<1>7. Elements(u) \subseteq Elements(s) \cup Elements(t)
  BY <1>3, <1>4 DEF Elements
<1>8. Elements(s) \subseteq Elements(u)
  BY <1>2, <1>5 DEF Elements
<1>9. Elements(t) \subseteq Elements(u)
  BY <1>2, <1>6 DEF Elements
<1> QED BY <1>1, <1>7, <1>8, <1>9 DEF u

LEMMA FirstBase ==
    ASSUME OrderInv, NEW bases, {bases[1], bases[2]} \subseteq Defined, Cuts(bases) # {}
    PROVE  /\ OfFirst(bases) \in Seq(Defined)
           /\ Elements(OfFirst(bases)) \cup Elements(mro[bases[2]])
                  = Elements(mro[bases[1]]) \cup Elements(mro[bases[2]])
<1> DEFINE s == mro[bases[1]]
           t == mro[bases[2]]
           n == CHOOSE n \in Cuts(bases) : TRUE
           cut == SubSeq(s, 1, n)
<1>1. s \in Seq(Defined) /\ t \in Seq(Defined)
  BY DEF OrderInv
<1>2. n \in Cuts(bases)
  OBVIOUS
<1> HIDE DEF n
<1>3. /\ n \in 0..Len(s)
      /\ \A i \in (n + 1)..Len(s) : \E k \in DOMAIN t : t[k] = s[i]
  BY <1>2 DEF Cuts
<1> HIDE DEF s, t
<1>4. Len(s) \in Nat /\ DOMAIN s = 1..Len(s) /\ n \in Nat
  BY <1>1, <1>3
<1>5. /\ cut \in Seq(Defined) /\ DOMAIN cut = 1..n
      /\ \A i \in 1..n : cut[i] = s[i] /\ i \in DOMAIN s
  <2>1. \A i \in 1..n : i \in 1..Len(s) /\ s[i] \in Defined
    BY <1>1, <1>3, <1>4
  <2>2. /\ cut \in Seq(Defined)
        /\ Len(cut) = IF 1 <= n THEN n - 1 + 1 ELSE 0
        /\ \A i \in 1..(n - 1 + 1) : cut[i] = s[1 + i - 1]
    BY <1>4, <2>1, SubSeqProperties
  <2>3. Len(cut) = n
    BY <1>4, <2>2
  <2> HIDE DEF cut
  <2> QED BY <1>4, <2>1, <2>2, <2>3
<1> HIDE DEF cut
<1>6. Elements(cut) \subseteq Elements(s)
  BY <1>5 DEF Elements
<1>7. ASSUME NEW i \in DOMAIN s PROVE s[i] \in Elements(cut) \cup Elements(t)
  <2>1. i \in 1..n \/ i \in (n + 1)..Len(s)
    BY <1>4
  <2>2. CASE i \in 1..n
    BY <1>5, <2>2 DEF Elements
  <2>3. CASE i \in (n + 1)..Len(s)
    BY <1>3, <2>3 DEF Elements
  <2> QED BY <2>1, <2>2, <2>3
<1>8. Elements(s) \subseteq Elements(cut) \cup Elements(t)
  BY <1>7 DEF Elements
<1> QED BY <1>5, <1>6, <1>8 DEF s, t, cut, n, OfFirst

LEMMA OneTo == 1..0 = {} /\ 1..1 = {1} /\ 1..2 = {1, 2}
OBVIOUS

\* The ancestors of a class are those of its bases and itself.
LEMMA LinearizedHas ==
    ASSUME OrderInv, NEW c, NEW n \in 0..2, NEW bases \in [1..n -> Defined], Consistent(bases)
    PROVE  /\ Linearized(c, bases) \in Seq(Defined \cup {c})
           /\ Elements(Linearized(c, bases))
                  = {c} \cup UNION {Elements(mro[bases[i]]) : i \in 1..n}
<1> DEFINE S == Defined \cup {c}
           rest == CASE Len(bases) = 0 -> <<>>
                     [] Len(bases) = 1 -> mro[bases[1]]
                     [] Len(bases) = 2 -> OfFirst(bases) \o mro[bases[2]]
<1>1. bases \in Seq(Defined) /\ Len(bases) = n
  BY SeqDef
<1>2. rest \in Seq(Defined) /\ Elements(rest) = UNION {Elements(mro[bases[i]]) : i \in 1..n}
  <2>1. CASE n = 0
    <3>1. rest = <<>> /\ 1..n = {}
      BY <1>1, <2>1, OneTo
    <3>2. Elements(<<>>) = {}
      BY DEF Elements
    <3> QED BY <3>1, <3>2
  <2>2. CASE n = 1
    <3>1. 1..n = {1}
      BY <2>2, OneTo
    <3>2. bases[1] \in Defined
      BY <3>1
    <3>3. rest = mro[bases[1]]
      BY <1>1, <2>2
    <3> HIDE DEF rest
    <3>4. rest \in Seq(Defined)
      BY <3>2, <3>3 DEF OrderInv
    <3>5. UNION {Elements(mro[bases[i]]) : i \in 1..n} = Elements(mro[bases[1]])
      BY <3>1
    <3> QED BY <3>3, <3>4, <3>5
  <2>3. CASE n = 2
    <3> DEFINE cut == OfFirst(bases)
    <3>0. 1..n = {1, 2}
      BY <2>3, OneTo
    <3>1. bases[1] \in Defined /\ bases[2] \in Defined
      BY <3>0
    <3>2. Cuts(bases) # {}
      BY <1>1, <2>3 DEF Consistent
    <3>3. /\ cut \in Seq(Defined)
          /\ Elements(cut) \cup Elements(mro[bases[2]])
                 = Elements(mro[bases[1]]) \cup Elements(mro[bases[2]])
      BY <3>1, <3>2, FirstBase
    <3>4. rest = cut \o mro[bases[2]]
      BY <1>1, <2>3
    <3> HIDE DEF cut, rest
    <3>5. mro[bases[2]] \in Seq(Defined)
      BY <3>1 DEF OrderInv
    <3>6. rest \in Seq(Defined) /\ Elements(rest) = Elements(cut) \cup Elements(mro[bases[2]])
      BY <3>3, <3>4, <3>5, ElementsJoined
    <3>7. UNION {Elements(mro[bases[i]]) : i \in 1..n} = Elements(mro[bases[1]]) \cup Elements(mro[bases[2]])
      BY <3>0
    <3> QED BY <3>3, <3>6, <3>7
  <2> HIDE DEF rest
  <2>4. n = 0 \/ n = 1 \/ n = 2
    OBVIOUS
  <2> QED BY <2>1, <2>2, <2>3, <2>4
<1> HIDE DEF rest
<1>3. <<c>> \in Seq(S) /\ rest \in Seq(S) /\ Elements(<<c>>) = {c}
  BY <1>2, SeqMonotonic DEF Elements
<1>4. Linearized(c, bases) = <<c>> \o rest
  BY DEF Linearized, rest
<1> DEFINE head == <<c>>
<1> HIDE DEF S, head
<1>5. head \o rest \in Seq(S) /\ Elements(head \o rest) = {c} \cup Elements(rest)
  <2>1. head \in Seq(S) /\ rest \in Seq(S) /\ Elements(head) = {c}
    BY <1>3 DEF head
  <2> QED BY <2>1, ElementsJoined
<1> QED BY <1>2, <1>4, <1>5 DEF S, head

\* A class statement: the new class, its bases and nothing else.
Derives(c, bases) ==
    /\ c \in Classes \ Defined /\ Defined' = Defined \cup {c}
    /\ \A x \in Defined : mro'[x] = mro[x] /\ Ancestors(x)' = Ancestors(x)
    /\ Ancestors(c)' = {c, Unit} \cup UNION {Ancestors(bases[i]) : i \in DOMAIN bases}

LEMMA OrderAtFirst == InitUnits => OrderInv /\ Defined = {}
<1> SUFFICES ASSUME InitUnits PROVE OrderInv /\ Defined = {}
  OBVIOUS
<1>1. mro = <<>>
  BY DEF InitUnits
<1>2. DOMAIN mro = {}
  BY <1>1
<1>3. Defined = {}
  BY <1>2 DEF Defined
<1> QED BY <1>3 DEF OrderInv

LEMMA OrderStays ==
    ASSUME OrderInv, mro' = mro
    PROVE  OrderInv' /\ Defined' = Defined /\ \A c : Ancestors(c)' = Ancestors(c)
<1>1. Defined' = Defined
  BY DEF Defined
<1>2. \A c : Ancestors(c)' = Ancestors(c)
  BY DEF Ancestors
<1>3. OrderInv'
  BY <1>1, <1>2 DEF OrderInv
<1> QED BY <1>1, <1>2, <1>3

LEMMA OrderGrows ==
    ASSUME OrderInv, NEW c \in Classes, NEW n \in 0..2, NEW bases \in [1..n -> Defined],
           NEW b, NEW replacing, ImportUnit(c, bases, b, replacing)
    PROVE  OrderInv' /\ Derives(c, bases)
<1> DEFINE D == Defined \cup {c}
<1>1. /\ c \notin Defined /\ Consistent(bases) /\ DOMAIN bases = 1..n
      /\ mro' = [x \in D |-> IF x = c THEN Linearized(c, bases) ELSE mro[x]]
  BY DEF ImportUnit
<1>2. /\ Linearized(c, bases) \in Seq(D)
      /\ Elements(Linearized(c, bases)) = {c} \cup UNION {Elements(mro[bases[i]]) : i \in 1..n}
  BY <1>1, LinearizedHas
<1>3. Defined' = D
  BY <1>1 DEF Defined
<1> HIDE DEF D
<1>4. c \in D /\ Defined \subseteq D /\ D \subseteq Classes
  BY DEF D, OrderInv
<1>5. ASSUME NEW x \in Defined PROVE mro'[x] = mro[x] /\ Ancestors(x)' = Ancestors(x)
  <2>1. mro'[x] = mro[x]
    BY <1>1, <1>4
  <2> QED BY <2>1 DEF Ancestors
<1>6. mro'[c] = Linearized(c, bases)
  BY <1>1, <1>4
<1>7. Ancestors(c)' = {c, Unit} \cup UNION {Ancestors(bases[i]) : i \in 1..n}
  <2>1. Ancestors(c)' = Elements(Linearized(c, bases)) \cup {Unit}
    BY <1>6 DEF Ancestors, Elements
  <2>2. \A i \in 1..n : Ancestors(bases[i]) = Elements(mro[bases[i]]) \cup {Unit}
    BY DEF Ancestors, Elements
  <2>3. {Unit} \cup UNION {Ancestors(bases[i]) : i \in 1..n}
            = {Unit} \cup UNION {Elements(mro[bases[i]]) : i \in 1..n}
    BY <2>2
  <2> QED BY <1>2, <2>1, <2>3
<1>8. Derives(c, bases)
  BY <1>1, <1>3, <1>5, <1>7 DEF Derives, D
<1>9. ASSUME NEW x \in D
      PROVE  /\ mro'[x] \in Seq(D) /\ x \in Ancestors(x)'
             /\ \A a \in Ancestors(x)' \ {Unit} : a \in D /\ Ancestors(a)' \subseteq Ancestors(x)'
  <2>1. CASE x \in Defined
    <3>1. /\ mro[x] \in Seq(Defined) /\ x \in Ancestors(x)
          /\ \A a \in Ancestors(x) \ {Unit} : a \in Defined /\ Ancestors(a) \subseteq Ancestors(x)
      BY <2>1 DEF OrderInv
    <3>2. mro[x] \in Seq(D)
      BY <1>4, <3>1, SeqMonotonic
    <3> QED BY <1>4, <1>5, <2>1, <3>1, <3>2
  <2>2. CASE x = c
    <3>1. mro'[c] \in Seq(D) /\ c \in Ancestors(c)'
      BY <1>2, <1>6, <1>7
    <3>2. ASSUME NEW a \in Ancestors(c)' \ {Unit}
          PROVE  a \in D /\ Ancestors(a)' \subseteq Ancestors(c)'
      <4>1. CASE a = c
        BY <1>4, <4>1
      <4>2. CASE a # c
        <5>1. PICK i \in 1..n : a \in Ancestors(bases[i])
          BY <1>7, <3>2, <4>2
        <5>2. a \in Defined /\ Ancestors(a) \subseteq Ancestors(bases[i])
          BY <3>2, <5>1 DEF OrderInv
        <5>3. Ancestors(a)' = Ancestors(a)
          BY <1>5, <5>2
        <5>4. Ancestors(bases[i]) \subseteq Ancestors(c)'
          BY <1>7
        <5> QED BY <1>4, <5>2, <5>3, <5>4
      <4> QED BY <4>1, <4>2
    <3> QED BY <2>2, <3>1, <3>2
  <2> QED BY <2>1, <2>2 DEF D
<1>10. OrderInv'
  BY <1>3, <1>4, <1>9 DEF OrderInv
<1> QED BY <1>8, <1>10

-----------------------------------------------------------------------------
(* The methods of the mappers                                              *)

\* The definitions a class has in its own body.
Owns(a, m) == m \in DOMAIN body[a].methods

\* A class has the methods of its ancestors, each with a set that one of them made.
MethodsInv ==
    /\ DOMAIN body = Defined /\ DOMAIN basesOf = Defined /\ DOMAIN methods = Defined
    /\ \A c \in Defined : \E n \in 0..2 : basesOf[c] \in [1..n -> Defined]
    /\ \A c \in Defined : \A m \in DOMAIN methods[c] :
          /\ methods[c][m].maker \in Ancestors(c) \ {Unit}
          /\ <<methods[c][m].maker, m>> \in DOMAIN changedBy
    /\ \A c \in Defined : \A a \in Ancestors(c) \ {Unit} : \A m : Owns(a, m) => m \in DOMAIN methods[c]
    /\ \A a, m : <<a, m>> \in DOMAIN changedBy <=> a \in Defined /\ Owns(a, m)
    /\ \A cell \in DOMAIN changedBy : \E a, m : cell = <<a, m>>

\* What the fields of a method name is in its set.
NamedInv ==
    \A c \in Defined : \A m \in DOMAIN methods[c] :
        Named(c, m) \subseteq changedBy[<<methods[c][m].maker, m>>]

\* Classes that are derived from each other only: no set of theirs has a field if
\* none of them names one and no class outside has extended a set.
Closed(X) == X \subseteq Defined /\ \A c \in X : Ancestors(c) \subseteq X \cup {Unit}
Silent(X, m) == \A a \in X : Owns(a, m) => body[a].methods[m].changedBy = {}
Extends(d, X, m) ==
    /\ Len(basesOf[d]) = 2
    /\ \A i \in 1..2 : m \in DOMAIN methods[basesOf[d][i]]
    /\ methods[basesOf[d][1]][m].maker \in X
    /\ methods[basesOf[d][1]][m].maker # methods[basesOf[d][2]][m].maker
Apart(X, m) == \A d \in Defined \ X : ~Extends(d, X, m)
Empty(X, m) == \A a \in X : Owns(a, m) => changedBy[<<a, m>>] = {}
SilentInv == \A X, m : Closed(X) /\ Silent(X, m) /\ Apart(X, m) => Empty(X, m)

MapInv == OrderInv /\ MethodsInv /\ NamedInv /\ SilentInv

LEMMA MapMapped == MapInv => ChangesMapped
<1> SUFFICES ASSUME MapInv PROVE ChangesMapped
  OBVIOUS
<1> SUFFICES ASSUME NEW c \in Defined, NEW fields \in SUBSET Fields, NEW forCreate \in BOOLEAN
             PROVE  /\ {f \in Direct(c) : fields = {} \/ f \in fields}
                           \subseteq Values(c, fields, forCreate)
                    /\ \A m \in DOMAIN methods[c] :
                          /\ methods[c][m].onlyCreate => forCreate
                          /\ \/ fields = {}
                             \/ Named(c, m) \cap fields # {}
                             \/ Named(c, m) = {} /\ ~Extended(c, m)
                          => m \in Values(c, fields, forCreate)
  BY DEF ChangesMapped
<1>1. {f \in Direct(c) : fields = {} \/ f \in fields} \subseteq Values(c, fields, forCreate)
  BY DEF Values
<1>2. ASSUME NEW m \in DOMAIN methods[c], methods[c][m].onlyCreate => forCreate,
             \/ fields = {}
             \/ Named(c, m) \cap fields # {}
             \/ Named(c, m) = {} /\ ~Extended(c, m)
      PROVE  Applied(c, m, fields, forCreate)
  <2> DEFINE triggers == changedBy[<<methods[c][m].maker, m>>]
             X == Ancestors(c) \ {Unit}
  <2>1. Named(c, m) \subseteq triggers
    BY DEF MapInv, NamedInv
  <2>2. ASSUME Named(c, m) = {}, ~Extended(c, m) PROVE triggers = {}
    <3>1. Closed(X)
      BY DEF Closed, MapInv, OrderInv
    <3>2. Silent(X, m)
      <4>1. \A a \in X : Owns(a, m) => body[a].methods[m].changedBy \subseteq Named(c, m)
        BY DEF Named, Owns
      <4> QED BY <2>2, <4>1 DEF Silent
    <3>3. Apart(X, m)
      <4>1. Unit \notin Defined
        BY UnitsAssumption DEF MapInv, OrderInv
      <4>2. Defined \ X = Defined \ Ancestors(c)
        BY <4>1
      <4> QED BY <2>2, <4>2 DEF Apart, Extends, Extended
    <3>4. Empty(X, m)
      BY <3>1, <3>2, <3>3 DEF MapInv, SilentInv
    <3>5. methods[c][m].maker \in X /\ Owns(methods[c][m].maker, m)
      BY DEF MapInv, MethodsInv
    <3> QED BY <3>4, <3>5 DEF Empty
  <2> QED BY <1>2, <2>1, <2>2 DEF Applied
<1>3. ASSUME NEW m \in DOMAIN methods[c], Applied(c, m, fields, forCreate)
      PROVE  m \in Values(c, fields, forCreate)
  BY <1>3 DEF Values
<1> QED BY <1>1, <1>2, <1>3

\* Of a name that several bases have, the first has the definition.
FromFirst(n, bases) ==
    /\ DOMAIN FromBases(bases) = UNION {DOMAIN methods[bases[i]] : i \in 1..n}
    /\ \A m \in DOMAIN FromBases(bases) : \E i \in 1..n :
          /\ m \in DOMAIN methods[bases[i]]
          /\ FromBases(bases)[m] = methods[bases[i]][m]
          /\ \A j \in 1..(i - 1) : m \notin DOMAIN methods[bases[j]]

LEMMA Inherits ==
    ASSUME NEW n \in 0..2, NEW bases \in [1..n -> Defined]
    PROVE  FromFirst(n, bases)
<1> DEFINE names == UNION {DOMAIN methods[bases[i]] : i \in 1..n}
           least(m, i) == /\ m \in DOMAIN methods[bases[i]]
                          /\ \A j \in 1..(i - 1) : m \notin DOMAIN methods[bases[j]]
           first(m) == CHOOSE i \in 1..n : least(m, i)
<1>1. FromBases(bases) = [m \in names |-> methods[bases[first(m)]][m]]
  BY DEF FromBases
<1>2. ASSUME NEW m \in names PROVE first(m) \in 1..n /\ least(m, first(m))
  <2>1. PICK i \in 1..n : m \in DOMAIN methods[bases[i]]
    OBVIOUS
  <2>2. i = 1 \/ i = 2
    OBVIOUS
  <2>3. \E k \in 1..n : least(m, k)
    <3>1. CASE m \in DOMAIN methods[bases[1]]
      <4>1. 1 \in 1..n /\ 1..(1 - 1) = {}
        OBVIOUS
      <4> QED BY <3>1, <4>1
    <3>2. CASE m \notin DOMAIN methods[bases[1]]
      <4>1. i = 2 /\ 1..(2 - 1) = {1}
        BY <2>1, <2>2, <3>2
      <4> QED BY <2>1, <3>2, <4>1
    <3> QED BY <3>1, <3>2
  <2> HIDE DEF least
  <2> QED BY <2>3
<1> HIDE DEF first
<1>3. DOMAIN FromBases(bases) = names /\ \A m \in names : FromBases(bases)[m] = methods[bases[first(m)]][m]
  BY <1>1
<1> QED BY <1>2, <1>3 DEF FromFirst

\* A set after the bases are merged: unchanged, or with those of all the bases.
LEMMA Merged ==
    ASSUME NEW n \in 0..2, NEW bases \in [1..n -> Defined], NEW a, NEW m,
           <<a, m>> \in DOMAIN changedBy
    PROVE  /\ changedBy[<<a, m>>] \subseteq UpdatedInPlace(bases)[<<a, m>>]
           /\ m \in DOMAIN FromBases(bases) /\ FromBases(bases)[m].maker = a
                 => \A i \in 1..n : m \in DOMAIN methods[bases[i]] =>
                       changedBy[<<methods[bases[i]][m].maker, m>>]
                           \subseteq UpdatedInPlace(bases)[<<a, m>>]
           /\ (/\ changedBy[<<a, m>>] = {}
               /\ m \in DOMAIN FromBases(bases) /\ FromBases(bases)[m].maker = a
                    => \A i \in 1..n : m \in DOMAIN methods[bases[i]] =>
                          changedBy[<<methods[bases[i]][m].maker, m>>] = {})
              => UpdatedInPlace(bases)[<<a, m>>] = {}
<1> DEFINE I == FromBases(bases)
           has == {j \in 1..n : m \in DOMAIN methods[bases[j]]}
           all == UNION {changedBy[<<methods[bases[i]][m].maker, m>>] : i \in has}
           new == UpdatedInPlace(bases)[<<a, m>>]
<1>1. new = changedBy[<<a, m>>] \cup IF m \in DOMAIN I /\ I[m].maker = a THEN all ELSE {}
  BY DEF UpdatedInPlace
<1> HIDE DEF I, new
<1>2. ASSUME NEW i \in 1..n, m \in DOMAIN methods[bases[i]]
      PROVE  changedBy[<<methods[bases[i]][m].maker, m>>] \subseteq all
  BY <1>2
<1>3. ASSUME \A i \in has : changedBy[<<methods[bases[i]][m].maker, m>>] = {} PROVE all = {}
  <2>1. {changedBy[<<methods[bases[i]][m].maker, m>>] : i \in has} \subseteq {{}}
    BY <1>3
  <2> QED BY <2>1
<1> HIDE DEF all
<1>4. changedBy[<<a, m>>] \subseteq new
  BY <1>1
<1>5. ASSUME m \in DOMAIN I, I[m].maker = a PROVE all \subseteq new
  BY <1>1, <1>5
<1>6. ASSUME changedBy[<<a, m>>] = {},
             m \in DOMAIN I /\ I[m].maker = a
                    => \A i \in 1..n : m \in DOMAIN methods[bases[i]] =>
                          changedBy[<<methods[bases[i]][m].maker, m>>] = {}
      PROVE  new = {}
  <2>1. CASE m \in DOMAIN I /\ I[m].maker = a
    BY <1>1, <1>3, <1>6, <2>1
  <2>2. CASE ~(m \in DOMAIN I /\ I[m].maker = a)
    BY <1>1, <1>6, <2>2
  <2> QED BY <2>1, <2>2
<1> QED BY <1>2, <1>4, <1>5, <1>6 DEF I, new

\* What a class statement makes of the mappers.
Makes(c, n, bases, b) ==
    /\ c \in Classes /\ n \in 0..2 /\ bases \in [1..n -> Defined] /\ b \in Bodies[c]
    /\ Derives(c, bases) /\ DefineMapper(c, bases, b)

Outcome(c, bases, b) ==
    /\ DOMAIN body' = Defined' /\ DOMAIN basesOf' = Defined' /\ DOMAIN methods' = Defined'
    /\ \A x \in Defined : /\ body'[x] = body[x] /\ basesOf'[x] = basesOf[x]
                          /\ methods'[x] = methods[x]
    /\ body'[c] = b /\ basesOf'[c] = bases
    /\ DOMAIN methods'[c] = DOMAIN FromBases(bases) \cup DOMAIN b.methods
    /\ \A m \in DOMAIN b.methods : methods'[c][m].maker = c
    /\ \A m \in DOMAIN FromBases(bases) \ DOMAIN b.methods :
          methods'[c][m] = FromBases(bases)[m]
    /\ DOMAIN changedBy' = DOMAIN changedBy \cup {<<c, m>> : m \in DOMAIN b.methods}
    /\ \A a, m : <<a, m>> \in DOMAIN changedBy =>
          a # c /\ changedBy'[<<a, m>>] = UpdatedInPlace(bases)[<<a, m>>]
    /\ \A m \in DOMAIN b.methods :
          changedBy'[<<c, m>>] = b.methods[m].changedBy \cup
              IF m \in DOMAIN FromBases(bases)
              THEN UpdatedInPlace(bases)[<<FromBases(bases)[m].maker, m>>] ELSE {}

LEMMA Made ==
    ASSUME OrderInv, MethodsInv, NEW c, NEW n, NEW bases, NEW b, Makes(c, n, bases, b)
    PROVE  Outcome(c, bases, b)
<1> DEFINE I == FromBases(bases)
           U == UpdatedInPlace(bases)
           own == b.methods
           D == Defined \cup {c}
           made == [m \in DOMAIN I \cup DOMAIN own |->
                       IF m \in DOMAIN own THEN [maker |-> c, onlyCreate |-> own[m].onlyCreate]
                       ELSE I[m]]
           cells == DOMAIN U \cup {<<c, m>> : m \in DOMAIN own}
<1>1. /\ methods' = Put(methods, c, made)
      /\ changedBy' = [cell \in cells |->
                          IF cell[1] = c THEN NewCell(own, cell[2], I, U) ELSE U[cell]]
      /\ body' = Put(body, c, b) /\ basesOf' = Put(basesOf, c, bases)
  BY DEF Makes, DefineMapper
<1>2. DOMAIN U = DOMAIN changedBy
  BY DEF UpdatedInPlace
<1>3. c \notin Defined /\ Defined' = D
  BY DEF Makes, Derives
<1> HIDE DEF I, U
<1>4. /\ DOMAIN made = DOMAIN I \cup DOMAIN own
      /\ \A m \in DOMAIN own : made[m].maker = c
      /\ \A m \in DOMAIN I \ DOMAIN own : made[m] = I[m]
  OBVIOUS
<1> HIDE DEF made, own
<1>5. /\ DOMAIN body' = D /\ DOMAIN basesOf' = D /\ DOMAIN methods' = D
      /\ \A x \in Defined : body'[x] = body[x] /\ basesOf'[x] = basesOf[x] /\ methods'[x] = methods[x]
      /\ body'[c] = b /\ basesOf'[c] = bases /\ methods'[c] = made
  <2>1. DOMAIN body = Defined /\ DOMAIN basesOf = Defined /\ DOMAIN methods = Defined
    BY DEF MethodsInv
  <2> QED BY <1>1, <1>3, <2>1 DEF Put
<1>6. DOMAIN changedBy' = DOMAIN changedBy \cup {<<c, m>> : m \in DOMAIN own}
  BY <1>1, <1>2
<1>7. ASSUME NEW a, NEW m, <<a, m>> \in DOMAIN changedBy
      PROVE  a # c /\ changedBy'[<<a, m>>] = U[<<a, m>>]
  <2>1. a \in Defined
    BY <1>7 DEF MethodsInv
  <2>2. a # c
    BY <1>3, <2>1
  <2> QED BY <1>1, <1>2, <1>7, <2>2
<1>8. ASSUME NEW m \in DOMAIN own
      PROVE  changedBy'[<<c, m>>] = own[m].changedBy \cup
                 IF m \in DOMAIN I THEN U[<<I[m].maker, m>>] ELSE {}
  <2>1. <<c, m>> \in cells
    OBVIOUS
  <2>2. changedBy'[<<c, m>>] = NewCell(own, m, I, U)
    BY <1>1, <2>1
  <2> QED BY <2>2 DEF NewCell
<1> QED BY <1>3, <1>4, <1>5, <1>6, <1>7, <1>8 DEF I, U, own, Outcome

LEMMA MethodsGrow ==
    ASSUME OrderInv, OrderInv', MethodsInv, NEW c, NEW n, NEW bases, NEW b, Makes(c, n, bases, b)
    PROVE  MethodsInv'
<1>0. Outcome(c, bases, b)
  BY Made
<1> DEFINE I == FromBases(bases)
           own == b.methods
<1>1. /\ n \in 0..2 /\ bases \in [1..n -> Defined] /\ c \in Classes
      /\ c \notin Defined /\ Defined' = Defined \cup {c}
      /\ \A x \in Defined : Ancestors(x)' = Ancestors(x)
      /\ Ancestors(c)' = {c, Unit} \cup UNION {Ancestors(bases[i]) : i \in 1..n}
  <2>1. DOMAIN bases = 1..n
    BY DEF Makes
  <2> QED BY <2>1 DEF Makes, Derives
<1>2. /\ DOMAIN I = UNION {DOMAIN methods[bases[i]] : i \in 1..n}
      /\ \A m \in DOMAIN I : \E i \in 1..n :
             m \in DOMAIN methods[bases[i]] /\ I[m] = methods[bases[i]][m]
  <2>1. FromFirst(n, bases)
    BY <1>1, Inherits
  <2> QED BY <2>1 DEF FromFirst
<1>3. /\ DOMAIN body' = Defined' /\ DOMAIN basesOf' = Defined' /\ DOMAIN methods' = Defined'
      /\ \A x \in Defined : /\ body'[x] = body[x] /\ basesOf'[x] = basesOf[x]
                            /\ methods'[x] = methods[x]
      /\ body'[c] = b /\ basesOf'[c] = bases
      /\ DOMAIN methods'[c] = DOMAIN I \cup DOMAIN own
      /\ \A m \in DOMAIN own : methods'[c][m].maker = c
      /\ \A m \in DOMAIN I \ DOMAIN own : methods'[c][m] = I[m]
      /\ DOMAIN changedBy' = DOMAIN changedBy \cup {<<c, m>> : m \in DOMAIN own}
  BY <1>0 DEF Outcome
<1> HIDE DEF I
<1>4. Unit \notin Classes
  BY UnitsAssumption
<1>5. \A x \in Defined' : \E k \in 0..2 : basesOf'[x] \in [1..k -> Defined']
  <2>1. ASSUME NEW x \in Defined PROVE \E k \in 0..2 : basesOf'[x] \in [1..k -> Defined']
    <3>1. PICK k \in 0..2 : basesOf[x] \in [1..k -> Defined]
      BY DEF MethodsInv
    <3>2. basesOf'[x] \in [1..k -> Defined']
      BY <1>1, <1>3, <3>1
    <3> QED BY <3>2
  <2>2. basesOf'[c] \in [1..n -> Defined']
    BY <1>1, <1>3
  <2> QED BY <1>1, <2>1, <2>2
<1>6. ASSUME NEW x \in Defined', NEW m \in DOMAIN methods'[x]
      PROVE  /\ methods'[x][m].maker \in Ancestors(x)' \ {Unit}
             /\ <<methods'[x][m].maker, m>> \in DOMAIN changedBy'
  <2>1. CASE x \in Defined
    <3>1. methods'[x] = methods[x] /\ Ancestors(x)' = Ancestors(x)
      BY <1>1, <1>3, <2>1
    <3>2. /\ methods[x][m].maker \in Ancestors(x) \ {Unit}
          /\ <<methods[x][m].maker, m>> \in DOMAIN changedBy
      BY <2>1, <3>1 DEF MethodsInv
    <3> QED BY <1>3, <3>1, <3>2
  <2>2. CASE x = c /\ m \in DOMAIN own
    <3>1. methods'[c][m].maker = c /\ c # Unit
      BY <1>1, <1>3, <1>4, <2>2
    <3> QED BY <1>1, <1>3, <2>2, <3>1
  <2>3. CASE x = c /\ m \notin DOMAIN own
    <3>1. m \in DOMAIN I /\ methods'[c][m] = I[m]
      BY <1>3, <2>3
    <3>2. PICK i \in 1..n : m \in DOMAIN methods[bases[i]] /\ I[m] = methods[bases[i]][m]
      BY <1>2, <3>1
    <3>3. /\ methods[bases[i]][m].maker \in Ancestors(bases[i]) \ {Unit}
          /\ <<methods[bases[i]][m].maker, m>> \in DOMAIN changedBy
      BY <1>1, <3>2 DEF MethodsInv
    <3>4. Ancestors(bases[i]) \subseteq Ancestors(c)'
      BY <1>1
    <3> QED BY <1>3, <2>3, <3>1, <3>2, <3>3, <3>4
  <2> QED BY <1>1, <2>1, <2>2, <2>3
<1>7. ASSUME NEW x \in Defined', NEW a \in Ancestors(x)' \ {Unit}, NEW m, Owns(a, m)'
      PROVE  m \in DOMAIN methods'[x]
  <2>1. CASE x \in Defined
    <3>1. Ancestors(x)' = Ancestors(x) /\ methods'[x] = methods[x]
      BY <1>1, <1>3, <2>1
    <3>2. a \in Defined
      BY <2>1, <3>1 DEF OrderInv
    <3>3. Owns(a, m)
      BY <1>3, <1>7, <3>2 DEF Owns
    <3> QED BY <2>1, <3>1, <3>3 DEF MethodsInv
  <2>2. CASE x = c /\ a = c
    BY <1>3, <1>7, <2>2 DEF Owns
  <2>3. CASE x = c /\ a # c
    <3>1. PICK i \in 1..n : a \in Ancestors(bases[i])
      BY <1>1, <2>3
    <3>2. bases[i] \in Defined
      BY <1>1
    <3>3. a \in Defined
      BY <3>1, <3>2 DEF OrderInv
    <3>4. Owns(a, m)
      BY <1>3, <1>7, <3>3 DEF Owns
    <3>5. m \in DOMAIN methods[bases[i]]
      BY <3>1, <3>2, <3>4 DEF MethodsInv
    <3> QED BY <1>2, <1>3, <2>3, <3>5
  <2> QED BY <1>1, <2>1, <2>2, <2>3
<1>8. ASSUME NEW a, NEW m PROVE <<a, m>> \in DOMAIN changedBy' <=> a \in Defined' /\ Owns(a, m)'
  <2>1. CASE a = c
    <3>1. <<a, m>> \notin DOMAIN changedBy
      BY <1>1, <2>1 DEF MethodsInv
    <3>2. <<c, m>> \in {<<c, k>> : k \in DOMAIN own} <=> m \in DOMAIN own
      OBVIOUS
    <3> QED BY <1>1, <1>3, <2>1, <3>1, <3>2 DEF Owns
  <2>2. CASE a # c
    <3>1. <<a, m>> \notin {<<c, k>> : k \in DOMAIN own}
      BY <2>2
    <3>2. a \in Defined' <=> a \in Defined
      BY <1>1, <2>2
    <3>3. a \in Defined => body'[a] = body[a]
      BY <1>3
    <3> QED BY <1>3, <3>1, <3>2, <3>3 DEF Owns, MethodsInv
  <2> QED BY <2>1, <2>2
<1>9. \A cell \in DOMAIN changedBy' : \E a, m : cell = <<a, m>>
  BY <1>3 DEF MethodsInv
<1>10. /\ \A x \in Defined' : \A m \in DOMAIN methods'[x] :
             /\ methods'[x][m].maker \in Ancestors(x)' \ {Unit}
             /\ <<methods'[x][m].maker, m>> \in DOMAIN changedBy'
       /\ \A x \in Defined' : \A a \in Ancestors(x)' \ {Unit} : \A m :
             Owns(a, m)' => m \in DOMAIN methods'[x]
       /\ \A a, m : <<a, m>> \in DOMAIN changedBy' <=> a \in Defined' /\ Owns(a, m)'
  BY <1>6, <1>7, <1>8
<1> QED BY <1>3, <1>5, <1>9, <1>10 DEF MethodsInv

\* The set of a name that the bases have is, for the new class, that of all of them.
LEMMA Together ==
    ASSUME OrderInv, MethodsInv, NEW c, NEW n, NEW bases, NEW b, Makes(c, n, bases, b),
           NEW i \in 1..n, NEW m \in DOMAIN methods[bases[i]]
    PROVE  changedBy[<<methods[bases[i]][m].maker, m>>]
               \subseteq changedBy'[<<methods'[c][m].maker, m>>]
<1>0. Outcome(c, bases, b)
  BY Made
<1> DEFINE I == FromBases(bases)
           U == UpdatedInPlace(bases)
<1>1. n \in 0..2 /\ bases \in [1..n -> Defined] /\ c \notin Defined
  BY DEF Makes, Derives
<1>9. FromFirst(n, bases)
  BY <1>1, Inherits
<1>2. m \in DOMAIN I
  BY <1>9 DEF FromFirst
<1>3. PICK k \in 1..n : m \in DOMAIN methods[bases[k]] /\ I[m] = methods[bases[k]][m]
  BY <1>2, <1>9 DEF FromFirst
<1> DEFINE a == I[m].maker
           set == changedBy[<<methods[bases[i]][m].maker, m>>]
<1>4. <<a, m>> \in DOMAIN changedBy
  BY <1>1, <1>3 DEF MethodsInv
<1>5. \A z : z = a => (\A j \in 1..n : m \in DOMAIN methods[bases[j]] =>
          changedBy[<<methods[bases[j]][m].maker, m>>] \subseteq U[<<z, m>>])
  <2> SUFFICES ASSUME NEW z, z = a
               PROVE  \A j \in 1..n : m \in DOMAIN methods[bases[j]] =>
                          changedBy[<<methods[bases[j]][m].maker, m>>] \subseteq U[<<z, m>>]
    OBVIOUS
  <2>1. <<z, m>> \in DOMAIN changedBy /\ m \in DOMAIN FromBases(bases) /\ FromBases(bases)[m].maker = z
    BY <1>2, <1>4
  <2> HIDE DEF a, I
  <2> QED BY <1>1, <2>1, Merged
<1>6. set \subseteq U[<<a, m>>]
  BY <1>5
<1>7. CASE m \in DOMAIN b.methods
  <2>1. methods'[c][m].maker = c
    BY <1>0, <1>7 DEF Outcome
  <2>2. changedBy'[<<c, m>>] = b.methods[m].changedBy \cup IF m \in DOMAIN I THEN U[<<a, m>>] ELSE {}
    BY <1>0, <1>7 DEF Outcome
  <2> QED BY <1>2, <1>6, <2>1, <2>2
<1>8. CASE m \notin DOMAIN b.methods
  <2>1. methods'[c][m] = I[m]
    BY <1>0, <1>2, <1>8 DEF Outcome
  <2>2. changedBy'[<<a, m>>] = U[<<a, m>>]
    BY <1>0, <1>4 DEF Outcome
  <2> QED BY <1>6, <2>1, <2>2
<1> QED BY <1>7, <1>8

LEMMA NamedGrows ==
    ASSUME OrderInv, OrderInv', MethodsInv, NamedInv,
           NEW c, NEW n, NEW bases, NEW b, Makes(c, n, bases, b)
    PROVE  NamedInv'
<1>0. Outcome(c, bases, b)
  BY Made
<1>1. /\ n \in 0..2 /\ bases \in [1..n -> Defined] /\ c \notin Defined
      /\ Defined' = Defined \cup {c}
      /\ \A x \in Defined : Ancestors(x)' = Ancestors(x)
      /\ Ancestors(c)' = {c, Unit} \cup UNION {Ancestors(bases[i]) : i \in 1..n}
  <2>1. DOMAIN bases = 1..n
    BY DEF Makes
  <2> QED BY <2>1 DEF Makes, Derives
<1>2. /\ \A x \in Defined : body'[x] = body[x] /\ methods'[x] = methods[x]
      /\ body'[c] = b
      /\ DOMAIN methods'[c] = DOMAIN FromBases(bases) \cup DOMAIN b.methods
  BY <1>0 DEF Outcome
<1>3. ASSUME NEW x \in Defined, NEW m \in DOMAIN methods'[x]
      PROVE  Named(x, m)' \subseteq changedBy'[<<methods'[x][m].maker, m>>]
  <2>1. m \in DOMAIN methods[x] /\ methods'[x] = methods[x]
    BY <1>2
  <2>2. ASSUME NEW a \in Ancestors(x)' \ {Unit} PROVE a \in Ancestors(x) \ {Unit} /\ body'[a] = body[a]
    <3>1. a \in Ancestors(x)
      BY <1>1
    <3>2. a \in Defined
      BY <3>1 DEF OrderInv
    <3> QED BY <1>2, <3>1, <3>2
  <2>3. Named(x, m)' \subseteq Named(x, m)
    BY <2>2 DEF Named
  <2>4. Named(x, m) \subseteq changedBy[<<methods[x][m].maker, m>>]
    BY <2>1 DEF NamedInv
  <2>5. \A a : <<a, m>> \in DOMAIN changedBy => changedBy[<<a, m>>] \subseteq changedBy'[<<a, m>>]
    <3> SUFFICES ASSUME NEW a, <<a, m>> \in DOMAIN changedBy
                 PROVE  changedBy[<<a, m>>] \subseteq changedBy'[<<a, m>>]
      OBVIOUS
    <3>1. changedBy'[<<a, m>>] = UpdatedInPlace(bases)[<<a, m>>]
      BY <1>0 DEF Outcome
    <3>2. changedBy[<<a, m>>] \subseteq UpdatedInPlace(bases)[<<a, m>>]
      BY <1>1, Merged
    <3> QED BY <3>1, <3>2
  <2>6. <<methods[x][m].maker, m>> \in DOMAIN changedBy
    BY <2>1 DEF MethodsInv
  <2> QED BY <2>1, <2>3, <2>4, <2>5, <2>6
<1>4. ASSUME NEW m \in DOMAIN methods'[c]
      PROVE  Named(c, m)' \subseteq changedBy'[<<methods'[c][m].maker, m>>]
  <2> DEFINE set == changedBy'[<<methods'[c][m].maker, m>>]
  <2>1. ASSUME NEW a \in Ancestors(c)' \ {Unit}, m \in DOMAIN body'[a].methods
        PROVE  body'[a].methods[m].changedBy \subseteq set
    <3>1. CASE a = c
      <4>1. m \in DOMAIN b.methods /\ body'[a] = b
        BY <1>2, <2>1, <3>1
      <4>2. methods'[c][m].maker = c
        BY <1>0, <4>1 DEF Outcome
      <4>3. b.methods[m].changedBy \subseteq changedBy'[<<c, m>>]
        BY <1>0, <4>1 DEF Outcome
      <4> QED BY <4>1, <4>2, <4>3
    <3>2. CASE a # c
      <4>1. PICK i \in 1..n : a \in Ancestors(bases[i])
        BY <1>1, <3>2
      <4>2. bases[i] \in Defined
        BY <1>1
      <4>3. a \in Defined /\ body'[a] = body[a]
        BY <1>2, <4>1, <4>2 DEF OrderInv
      <4>4. Owns(a, m)
        BY <2>1, <4>3 DEF Owns
      <4>5. m \in DOMAIN methods[bases[i]]
        BY <4>1, <4>2, <4>4 DEF MethodsInv
      <4>6. changedBy[<<methods[bases[i]][m].maker, m>>] \subseteq set
        BY <4>5, Together
      <4>7. Named(bases[i], m) \subseteq changedBy[<<methods[bases[i]][m].maker, m>>]
        BY <4>2, <4>5 DEF NamedInv
      <4>8. body[a].methods[m].changedBy \subseteq Named(bases[i], m)
        BY <4>1, <4>4 DEF Named, Owns
      <4> QED BY <4>3, <4>6, <4>7, <4>8
    <3> QED BY <3>1, <3>2
  <2> HIDE DEF set
  <2>2. Named(c, m)' \subseteq set
    BY <2>1 DEF Named
  <2> QED BY <2>2 DEF set
<1>5. \A x \in Defined' : \A m \in DOMAIN methods'[x] :
          Named(x, m)' \subseteq changedBy'[<<methods'[x][m].maker, m>>]
  BY <1>1, <1>3, <1>4
<1> QED BY <1>5 DEF NamedInv

\* What a derived class adds leaves the sets of classes without fields empty.
LEMMA SilentGrows ==
    ASSUME OrderInv, OrderInv', MethodsInv, SilentInv,
           NEW c, NEW n, NEW bases, NEW b, Makes(c, n, bases, b)
    PROVE  SilentInv'
<1>1. /\ n \in 0..2 /\ bases \in [1..n -> Defined] /\ c \in Classes
      /\ c \notin Defined /\ Defined' = Defined \cup {c}
      /\ \A x \in Defined : Ancestors(x)' = Ancestors(x)
      /\ Ancestors(c)' = {c, Unit} \cup UNION {Ancestors(bases[i]) : i \in 1..n}
      /\ Unit \notin Classes
  <2>1. DOMAIN bases = 1..n
    BY DEF Makes
  <2> QED BY <2>1, UnitsAssumption DEF Makes, Derives
<1>2. Outcome(c, bases, b)
  BY Made
<1>3. /\ \A x \in Defined : /\ body'[x] = body[x] /\ basesOf'[x] = basesOf[x]
                            /\ methods'[x] = methods[x]
      /\ body'[c] = b /\ basesOf'[c] = bases
      /\ DOMAIN changedBy' = DOMAIN changedBy \cup {<<c, m>> : m \in DOMAIN b.methods}
  BY <1>2 DEF Outcome
<1>4. FromFirst(n, bases)
  BY <1>1, Inherits
<1> SUFFICES ASSUME NEW X, NEW m, Closed(X)', Silent(X, m)', Apart(X, m)'
             PROVE  Empty(X, m)'
  BY DEF SilentInv
<1> DEFINE Y == X \ {c}
           I == FromBases(bases)
           U == UpdatedInPlace(bases)
<1>5. Y \subseteq Defined /\ c \notin Y
  BY <1>1 DEF Closed
<1>6. Closed(Y)
  <2>1. ASSUME NEW x \in Y PROVE Ancestors(x) \subseteq Y \cup {Unit}
    <3>1. x \in Defined
      BY <1>5
    <3>2. Ancestors(x) \subseteq X \cup {Unit}
      <4>1. Ancestors(x)' = Ancestors(x)
        BY <1>1, <3>1
      <4> QED BY <4>1 DEF Closed
    <3>3. \A a \in Ancestors(x) \ {Unit} : a \in Defined
      BY <3>1 DEF OrderInv
    <3> QED BY <1>1, <3>2, <3>3
  <2> QED BY <1>5, <2>1 DEF Closed
<1>7. Silent(Y, m)
  <2>1. ASSUME NEW a \in Y, Owns(a, m) PROVE body[a].methods[m].changedBy = {}
    <3>1. body'[a] = body[a] /\ a \in X
      BY <1>3, <1>5
    <3>2. Owns(a, m)'
      BY <2>1, <3>1 DEF Owns
    <3> QED BY <3>1, <3>2 DEF Silent
  <2> QED BY <2>1 DEF Silent
<1>8. Apart(Y, m)
  <2>1. ASSUME NEW d \in Defined \ Y, Extends(d, Y, m) PROVE FALSE
    <3>1. d \in Defined' \ X /\ basesOf'[d] = basesOf[d]
      BY <1>1, <1>3
    <3>2. PICK k \in 0..2 : basesOf[d] \in [1..k -> Defined]
      BY DEF MethodsInv
    <3>3. Len(basesOf[d]) = 2
      BY <2>1 DEF Extends
    <3>4. k = 2
      <4>1. basesOf[d] \in Seq(Defined) /\ DOMAIN basesOf[d] = 1..k
        BY <3>2, SeqDef
      <4>2. Len(basesOf[d]) = k
        BY <4>1
      <4> QED BY <3>3, <4>2
    <3>5. 1..2 = {1, 2}
      BY OneTo
    <3>6. \A i \in 1..2 : basesOf[d][i] \in Defined
      BY <3>2, <3>4
    <3>7. \A i \in 1..2 : methods'[basesOf'[d][i]] = methods[basesOf[d][i]]
      BY <1>3, <3>1, <3>6
    <3>8. Extends(d, X, m)'
      <4>1. /\ \A i \in 1..2 : m \in DOMAIN methods[basesOf[d][i]]
            /\ methods[basesOf[d][1]][m].maker \in Y
            /\ methods[basesOf[d][1]][m].maker # methods[basesOf[d][2]][m].maker
        BY <2>1 DEF Extends
      <4>2. /\ methods'[basesOf'[d][1]] = methods[basesOf[d][1]]
            /\ methods'[basesOf'[d][2]] = methods[basesOf[d][2]]
        BY <3>5, <3>7
      <4> QED BY <3>1, <3>3, <3>7, <4>1, <4>2 DEF Extends
    <3> QED BY <3>1, <3>8 DEF Apart
  <2> QED BY <2>1 DEF Apart
<1>9. Empty(Y, m)
  BY <1>6, <1>7, <1>8 DEF SilentInv
<1>10. ASSUME NEW a \in Y, <<a, m>> \in DOMAIN changedBy PROVE changedBy[<<a, m>>] = {}
  BY <1>9, <1>10 DEF Empty, MethodsInv
\* The sets of the bases that would be put into one of these are empty.
<1>11. ASSUME m \in DOMAIN I, I[m].maker \in Y,
              NEW j \in 1..n, m \in DOMAIN methods[bases[j]]
       PROVE  methods[bases[j]][m].maker \in Y
  <2>1. /\ methods[bases[j]][m].maker \in Ancestors(bases[j]) \ {Unit}
        /\ methods[bases[j]][m].maker \in Defined
    <3>1. bases[j] \in Defined
      BY <1>1
    <3>2. methods[bases[j]][m].maker \in Ancestors(bases[j]) \ {Unit}
      BY <1>11, <3>1 DEF MethodsInv
    <3> QED BY <3>1, <3>2 DEF OrderInv
  <2>2. CASE c \in X
    <3>1. Ancestors(c)' \subseteq X \cup {Unit}
      BY <2>2 DEF Closed
    <3>2. Ancestors(bases[j]) \subseteq X \cup {Unit}
      BY <1>1, <3>1
    <3> QED BY <1>1, <2>1, <3>2
  <2>3. CASE c \notin X
    <3>1. PICK i \in 1..n : /\ m \in DOMAIN methods[bases[i]] /\ I[m] = methods[bases[i]][m]
                            /\ \A k \in 1..(i - 1) : m \notin DOMAIN methods[bases[k]]
      BY <1>4, <1>11 DEF FromFirst
    <3>2. CASE i = j
      BY <1>11, <3>1, <3>2
    <3>3. CASE i # j
      <4>1. j \notin 1..(i - 1)
        BY <1>11, <3>1
      <4>2. n = 2 /\ i = 1 /\ j = 2
        <5>1. i \in Nat /\ j \in Nat /\ i \in 1..n /\ j \in 1..n /\ n \in {0, 1, 2} /\ i # j
          BY <1>1, <3>3
        <5>2. ~(j <= i - 1)
          BY <4>1, <5>1
        <5> QED BY <5>1, <5>2
      <4>3. Len(bases) = 2
        <5>1. bases \in [1..2 -> Defined]
          BY <1>1, <4>2
        <5>2. bases \in Seq(Defined) /\ DOMAIN bases = 1..2
          BY <5>1, SeqDef
        <5> QED BY <5>2
      <4>4. ~Extends(c, X, m)'
        BY <1>1, <2>3 DEF Apart
      <4>5. /\ methods'[bases[1]] = methods[bases[1]] /\ methods'[bases[2]] = methods[bases[2]]
            /\ m \in DOMAIN methods[bases[1]] /\ m \in DOMAIN methods[bases[2]]
            /\ methods[bases[1]][m].maker \in X
        <5>1. 1..2 = {1, 2}
          BY OneTo
        <5>2. bases[1] \in Defined /\ bases[2] \in Defined
          BY <1>1, <4>2, <5>1
        <5> QED BY <1>3, <1>11, <3>1, <4>2, <5>2
      <4>6. methods[bases[1]][m].maker = methods[bases[2]][m].maker
        <5>1. \A i_1 \in 1..2 : m \in DOMAIN methods'[bases[i_1]]
          BY <4>5, OneTo
        <5> QED BY <1>3, <4>3, <4>4, <4>5, <5>1 DEF Extends
      <4> QED BY <1>11, <3>1, <4>2, <4>6
    <3> QED BY <3>2, <3>3
  <2> QED BY <2>2, <2>3
<1>12. ASSUME NEW a \in Y, <<a, m>> \in DOMAIN changedBy PROVE U[<<a, m>>] = {}
  <2>1. changedBy[<<a, m>>] = {}
    BY <1>10, <1>12
  <2>2. ASSUME m \in DOMAIN I, I[m].maker = a, NEW j \in 1..n, m \in DOMAIN methods[bases[j]]
        PROVE  changedBy[<<methods[bases[j]][m].maker, m>>] = {}
    <3>1. methods[bases[j]][m].maker \in Y
      BY <1>11, <2>2
    <3>2. <<methods[bases[j]][m].maker, m>> \in DOMAIN changedBy
      BY <1>1, <2>2 DEF MethodsInv
    <3> QED BY <1>10, <3>1, <3>2
  <2> HIDE DEF Y
  <2> QED BY <1>1, <1>12, <2>1, <2>2, Merged
<1>13. ASSUME NEW a \in Y, Owns(a, m)' PROVE changedBy'[<<a, m>>] = {}
  <2>1. CASE <<a, m>> \in DOMAIN changedBy
    <3>1. changedBy'[<<a, m>>] = U[<<a, m>>]
      BY <1>2, <2>1 DEF Outcome
    <3> QED BY <1>12, <2>1, <3>1
  <2>2. CASE <<a, m>> \notin DOMAIN changedBy
    <3>1. Owns(a, m) /\ a \in Defined
      BY <1>3, <1>5, <1>13 DEF Owns
    <3> QED BY <2>2, <3>1 DEF MethodsInv
  <2> QED BY <2>1, <2>2
<1>14. ASSUME c \in X, Owns(c, m)' PROVE changedBy'[<<c, m>>] = {}
  <2>1. m \in DOMAIN b.methods
    BY <1>3, <1>14 DEF Owns
  <2>2. b.methods[m].changedBy = {}
    BY <1>3, <1>14 DEF Silent
  <2>3. changedBy'[<<c, m>>] = b.methods[m].changedBy \cup
              IF m \in DOMAIN I THEN U[<<I[m].maker, m>>] ELSE {}
    BY <1>2, <2>1 DEF Outcome
  <2>4. ASSUME m \in DOMAIN I PROVE U[<<I[m].maker, m>>] = {}
    <3>1. PICK i \in 1..n : m \in DOMAIN methods[bases[i]] /\ I[m] = methods[bases[i]][m]
      BY <1>4, <2>4 DEF FromFirst
    <3>2. bases[i] \in Defined
      BY <1>1
    <3>3. I[m].maker \in Ancestors(bases[i]) \ {Unit} /\ <<I[m].maker, m>> \in DOMAIN changedBy
      BY <3>1, <3>2 DEF MethodsInv
    <3>4. I[m].maker \in Defined
      BY <3>2, <3>3 DEF OrderInv
    <3>5. Ancestors(bases[i]) \subseteq X \cup {Unit}
      <4>1. Ancestors(c)' \subseteq X \cup {Unit}
        BY <1>14 DEF Closed
      <4> QED BY <1>1, <4>1
    <3>6. I[m].maker \in Y
      BY <1>1, <3>3, <3>4, <3>5
    <3> QED BY <1>12, <3>3, <3>6
  <2> QED BY <2>2, <2>3, <2>4
<1> QED BY <1>13, <1>14 DEF Empty

LEMMA MapGrows ==
    ASSUME MapInv, NEW c \in Classes, NEW n \in 0..2, NEW bases \in [1..n -> Defined],
           NEW b \in Bodies[c], NEW backend, NEW replacing,
           ImportMapper(c, bases, b, backend, replacing)
    PROVE  MapInv'
<1>1. OrderInv' /\ Derives(c, bases)
  BY OrderGrows DEF ImportMapper, MapInv
<1>2. Makes(c, n, bases, b)
  BY <1>1 DEF Makes, ImportMapper
<1>3. MethodsInv'
  BY <1>1, <1>2, MethodsGrow DEF MapInv
<1>4. NamedInv'
  BY <1>1, <1>2, NamedGrows DEF MapInv
<1>5. SilentInv'
  BY <1>1, <1>2, SilentGrows DEF MapInv
<1> QED BY <1>1, <1>3, <1>4, <1>5 DEF MapInv

LEMMA MapStays ==
    ASSUME MapInv, UNCHANGED <<mro, mapVars>>
    PROVE  MapInv'
<1>1. OrderInv' /\ Defined' = Defined /\ \A c : Ancestors(c)' = Ancestors(c)
  BY OrderStays DEF MapInv
<1>2. /\ body' = body /\ basesOf' = basesOf /\ methods' = methods /\ changedBy' = changedBy
  BY DEF mapVars
<1>3. \A a, m : Owns(a, m)' = Owns(a, m)
  BY <1>2 DEF Owns
<1>4. MethodsInv'
  BY <1>1, <1>2, <1>3 DEF MapInv, MethodsInv
<1>5. \A c, m : Named(c, m)' = Named(c, m)
  BY <1>1, <1>2 DEF Named
<1>6. NamedInv'
  BY <1>1, <1>2, <1>5 DEF MapInv, NamedInv
<1>7. /\ \A X : Closed(X)' = Closed(X)
      /\ \A X, m : Silent(X, m)' = Silent(X, m)
      /\ \A X, m : Apart(X, m)' = Apart(X, m)
      /\ \A X, m : Empty(X, m)' = Empty(X, m)
  <2>1. \A X : Closed(X)' = Closed(X)
    BY <1>1 DEF Closed
  <2>2. \A X, m : Silent(X, m)' = Silent(X, m)
    BY <1>2, <1>3 DEF Silent
  <2>3. \A d, X, m : Extends(d, X, m)' = Extends(d, X, m)
    BY <1>2 DEF Extends
  <2>4. \A X, m : Apart(X, m)' = Apart(X, m)
    BY <1>1, <2>3 DEF Apart
  <2>5. \A X, m : Empty(X, m)' = Empty(X, m)
    BY <1>2, <1>3 DEF Empty
  <2> QED BY <2>1, <2>2, <2>4, <2>5
<1>8. SilentInv'
  BY <1>7 DEF MapInv, SilentInv
<1> QED BY <1>1, <1>4, <1>6, <1>8 DEF MapInv

LEMMA MapAtFirst == Init => MapInv
<1> SUFFICES ASSUME Init PROVE MapInv
  OBVIOUS
<1>1. OrderInv /\ Defined = {}
  BY OrderAtFirst DEF Init
<1>2. body = <<>> /\ basesOf = <<>> /\ methods = <<>> /\ changedBy = <<>>
  BY DEF Init
<1>3. DOMAIN body = {} /\ DOMAIN basesOf = {} /\ DOMAIN methods = {} /\ DOMAIN changedBy = {}
  BY <1>2
<1>4. MethodsInv
  BY <1>1, <1>3 DEF MethodsInv
<1>5. NamedInv
  BY <1>1 DEF NamedInv
<1>6. SilentInv
  BY <1>1 DEF SilentInv, Closed, Empty
<1> QED BY <1>1, <1>4, <1>5, <1>6 DEF MapInv

LEMMA MapStep ==
    ASSUME MapInv, [Next]_vars
    PROVE  MapInv'
<1>1. CASE UNCHANGED vars
  BY <1>1, MapStays DEF vars, unitVars
<1>2. ASSUME NEW c \in Classes \ Defined,
             NEW bases \in UNION {[1..n -> Visible(ModuleOf[c], Defined)] : n \in 0..2},
             NEW replacing, NEW backend \in Backends, NEW b \in Bodies[c],
             ImportMapper(c, bases, b, backend, replacing)
      PROVE  MapInv'
  <2>1. PICK n \in 0..2 : bases \in [1..n -> Visible(ModuleOf[c], Defined)]
    OBVIOUS
  <2>2. bases \in [1..n -> Defined]
    BY <2>1 DEF Visible
  <2> QED BY <1>2, <2>2, MapGrows
<1>3. ASSUME UNCHANGED mapVars,
             \/ \E k \in Consumers : Subscribe(k)
             \/ \E m \in Modules : EndImport(m) \/ Install(m) \/ Uninstall(m)
      PROVE  MapInv'
  <2>1. mro' = mro
    BY <1>3 DEF Subscribe, EndImport, Install, Uninstall
  <2> QED BY <1>3, <2>1, MapStays
<1> QED BY <1>1, <1>2, <1>3 DEF Next

-----------------------------------------------------------------------------
\* Whatever the classes, their bases and their methods: an export maps all that
\* depends on the fields that have changed.
THEOREM ChangesAreMapped == Spec => []ChangesMapped
<1>1. Init => MapInv
  BY MapAtFirst
<1>2. MapInv /\ [Next]_vars => MapInv'
  BY MapStep
<1>3. MapInv => ChangesMapped
  BY MapMapped
<1> QED BY <1>1, <1>2, <1>3, PTL DEF Spec

-----------------------------------------------------------------------------
(* The classes that replace a class                                        *)

LEMMA OverHas ==
    ASSUME NEW c
    PROVE  /\ ReplacersOf({c} \cup Over(c)) \subseteq Over(c) /\ Over(c) \subseteq Defined
           /\ \A S \in SUBSET Defined : ReplacersOf({c} \cup S) \subseteq S => Over(c) \subseteq S
<1>1. \A S \in SUBSET Defined : ReplacersOf({c} \cup S) \subseteq S => Over(c) \subseteq S
  BY DEF Over
<1>2. ASSUME NEW y \in ReplacersOf({c} \cup Over(c)),
             NEW S \in SUBSET Defined, ReplacersOf({c} \cup S) \subseteq S
      PROVE  y \in S
  <2>1. Over(c) \subseteq S
    BY <1>1, <1>2
  <2>2. y \in Defined /\ stated[y].replacing \cap ({c} \cup Over(c)) # {}
    BY DEF ReplacersOf
  <2>3. stated[y].replacing \cap ({c} \cup S) # {}
    BY <2>1, <2>2
  <2> QED BY <1>2, <2>2, <2>3 DEF ReplacersOf
<1>3. \A y \in ReplacersOf({c} \cup Over(c)) : y \in Defined
  BY DEF ReplacersOf
<1>4. ReplacersOf({c} \cup Over(c)) \subseteq Over(c)
  BY <1>2, <1>3 DEF Over
<1>5. Over(c) \subseteq Defined
  BY DEF Over
<1> QED BY <1>1, <1>4, <1>5

\* What replaces a class is what replaces it directly and what replaces those.
LEMMA OverStep ==
    ASSUME NEW c
    PROVE  /\ \A y \in ReplacersOf({c}) : y \in Over(c) /\ Over(y) \subseteq Over(c)
           /\ \A x \in Over(c) : \E y \in ReplacersOf({c}) : x = y \/ x \in Over(y)
<1>1. ASSUME NEW y \in ReplacersOf({c}) PROVE y \in Over(c)
  <2>1. y \in ReplacersOf({c} \cup Over(c))
    BY DEF ReplacersOf
  <2> QED BY <2>1, OverHas
<1>2. ASSUME NEW y \in Over(c) PROVE Over(y) \subseteq Over(c)
  <2>1. ReplacersOf({y} \cup Over(c)) \subseteq ReplacersOf({c} \cup Over(c))
    BY <1>2 DEF ReplacersOf
  <2>2. ReplacersOf({y} \cup Over(c)) \subseteq Over(c) /\ Over(c) \subseteq Defined
    BY <2>1, OverHas
  <2> QED BY <2>2, OverHas
<1> DEFINE S == {x \in Defined : \E y \in ReplacersOf({c}) : x = y \/ x \in Over(y)}
<1>3. ASSUME NEW z \in ReplacersOf({c} \cup S) PROVE z \in S
  <2>1. z \in Defined
    BY DEF ReplacersOf
  <2>2. PICK w \in {c} \cup S : w \in stated[z].replacing
    BY DEF ReplacersOf
  <2>3. CASE w = c
    <3>1. z \in ReplacersOf({c})
      BY <2>1, <2>2, <2>3 DEF ReplacersOf
    <3> QED BY <2>1, <3>1
  <2>4. CASE w \in S
    <3>1. PICK y \in ReplacersOf({c}) : w = y \/ w \in Over(y)
      BY <2>4
    <3>2. z \in ReplacersOf({y} \cup Over(y))
      BY <2>1, <2>2, <3>1 DEF ReplacersOf
    <3>3. z \in Over(y)
      BY <3>2, OverHas
    <3> QED BY <2>1, <3>3
  <2> QED BY <2>2, <2>3, <2>4
<1>4. Over(c) \subseteq S
  <2>1. ReplacersOf({c} \cup S) \subseteq S /\ S \in SUBSET Defined
    BY <1>3
  <2> HIDE DEF S
  <2> QED BY <2>1, OverHas
<1> QED BY <1>1, <1>2, <1>4

\* Of what replaces a class, whatever replaces that again is part.
LEMMA OverOver ==
    ASSUME NEW c, NEW y \in Over(c)
    PROVE  Over(y) \subseteq Over(c)
<1>1. ReplacersOf({y} \cup Over(c)) \subseteq ReplacersOf({c} \cup Over(c))
  BY DEF ReplacersOf
<1>2. ReplacersOf({y} \cup Over(c)) \subseteq Over(c) /\ Over(c) \subseteq Defined
  BY <1>1, OverHas
<1> QED BY <1>2, OverHas

-----------------------------------------------------------------------------
(* The entries of the backends                                             *)

\* Every class has an entry on its backend, after those of the classes it
\* replaces, and these refer to it.
Entry == [cls : Defined, replacedBy : SUBSET Nat]
EntriesInv ==
    /\ DOMAIN stated = Defined
    /\ \A c \in Defined : stated[c].backend \in Backends /\ stated[c].replacing \subseteq Defined
    /\ \A c \in Defined : \A a \in stated[c].replacing : stated[a].backend = stated[c].backend
    /\ entries \in [Backends -> Seq(Entry)]
    /\ \A b \in Backends : \A i \in DOMAIN entries[b] :
          /\ stated[entries[b][i].cls].backend = b
          /\ \A j \in entries[b][i].replacedBy : j \in DOMAIN entries[b] /\ i < j
          /\ \A j \in DOMAIN entries[b] :
                j \in entries[b][i].replacedBy <=>
                    entries[b][i].cls \in stated[entries[b][j].cls].replacing
    /\ \A c \in Defined : \E i \in DOMAIN entries[stated[c].backend] :
          entries[stated[c].backend][i].cls = c

LEMMA LastIndex ==
    ASSUME NEW L \in Nat, NEW P \in SUBSET (1..L), P # {}
    PROVE  \E i \in P : \A j \in P : j <= i
<1> DEFINE R == OpToRel(<, Nat)
           T == {L - i : i \in P}
<1>0. \A i \in P : i \in 1..L /\ L - i \in Nat
  OBVIOUS
<1>1. T \in SUBSET Nat /\ T # {}
  BY <1>0
<1>2. PICK g \in T : \A y \in T : ~(<<y, g>> \in R)
  BY <1>1, WFMin, NatLessThanWellFounded
<1>3. PICK i \in P : g = L - i
  OBVIOUS
<1>4. ASSUME NEW j \in P PROVE j <= i
  <2>1. L - j \in T /\ ~(L - j < L - i)
    BY <1>0, <1>1, <1>2, <1>3 DEF OpToRel
  <2>2. i \in Int /\ j \in Int
    OBVIOUS
  <2> QED BY <2>1, <2>2
<1> QED BY <1>4

\* A class is replaced by later entries only.
LEMMA LaterReplace ==
    ASSUME EntriesInv, NEW b \in Backends, NEW i \in DOMAIN entries[b], NEW c \in Over(entries[b][i].cls)
    PROVE  \E j \in DOMAIN entries[b] : i < j /\ entries[b][j].cls = c
<1> DEFINE es == entries[b]
           S == {es[j].cls : j \in {k \in DOMAIN es : i < k}}
<1>1. es \in Seq(Entry)
  BY DEF EntriesInv
<1>2. /\ DOMAIN es = 1..Len(es) /\ Len(es) \in Nat
      /\ \A j \in DOMAIN es : es[j].cls \in Defined
  <2> HIDE DEF es
  <2>1. /\ DOMAIN es = 1..Len(es) /\ Len(es) \in Nat
        /\ \A j \in DOMAIN es : es[j] \in Entry
    BY <1>1
  <2> QED BY <2>1 DEF Entry
<1>3. ASSUME NEW z \in ReplacersOf({es[i].cls} \cup S) PROVE z \in S
  <2>1. z \in Defined
    BY DEF ReplacersOf
  <2>2. PICK w \in {es[i].cls} \cup S : w \in stated[z].replacing
    BY DEF ReplacersOf
  <2>3. PICK k \in DOMAIN es : w = es[k].cls /\ (k = i \/ i < k)
    <3>1. CASE w = es[i].cls
      BY <3>1
    <3>2. CASE w \in S
      BY <3>2
    <3> QED BY <3>1, <3>2
  <2>4. stated[z].backend = b
    <3>1. stated[w].backend = b
      BY <2>3 DEF EntriesInv
    <3> QED BY <2>1, <2>2, <3>1 DEF EntriesInv
  <2>5. PICK j \in DOMAIN es : es[j].cls = z
    BY <2>1, <2>4 DEF EntriesInv
  <2>6. j \in es[k].replacedBy
    BY <2>2, <2>3, <2>5 DEF EntriesInv
  <2>7. k < j
    BY <2>3, <2>6 DEF EntriesInv
  <2>8. i < j
    <3>1. i \in Nat /\ j \in Nat /\ k \in Nat
      BY <1>2
    <3> QED BY <2>3, <2>7, <3>1
  <2> QED BY <2>5, <2>8
<1>4. Over(es[i].cls) \subseteq S
  <2>1. ReplacersOf({es[i].cls} \cup S) \subseteq S /\ S \in SUBSET Defined
    BY <1>2, <1>3
  <2> HIDE DEF S
  <2> QED BY <2>1, OverHas
<1> QED BY <1>4

\* The classes that no other one of the set replaces.
Tops(M) == {c \in M : Over(c) \cap M = {}}

\* Some classes of a set, with all of the set that replaces them: one is at the top.
LEMMA TopExists ==
    ASSUME EntriesInv, NEW b \in Backends,
           NEW M, \A c \in M : c \in Defined /\ stated[c].backend = b,
           NEW N \in SUBSET M, N # {}, \A t \in N : Over(t) \cap M \subseteq N
    PROVE  \E t \in N : t \in Tops(M)
<1> DEFINE es == entries[b]
           P == {i \in DOMAIN es : es[i].cls \in N}
<1>1. es \in Seq(Entry)
  BY DEF EntriesInv
<1>2. DOMAIN es = 1..Len(es) /\ Len(es) \in Nat
  BY <1>1
<1>3. P # {}
  <2>1. PICK c \in N : TRUE
    OBVIOUS
  <2>2. c \in Defined /\ stated[c].backend = b
    OBVIOUS
  <2>3. \E i \in DOMAIN es : es[i].cls = c
    BY <2>2 DEF EntriesInv
  <2> QED BY <2>3
<1>4. P \in SUBSET (1..Len(es))
  BY <1>2
<1>5. PICK i \in P : \A j \in P : j <= i
  <2> HIDE DEF P, es
  <2> QED BY <1>2, <1>3, <1>4, LastIndex
<1>6. es[i].cls \in N
  BY <1>5
<1>7. ASSUME NEW u \in Over(es[i].cls) \cap M PROVE FALSE
  <2>1. PICK j \in DOMAIN es : i < j /\ es[j].cls = u
    BY <1>5, LaterReplace
  <2>2. u \in N
    BY <1>6
  <2>3. j \in P
    BY <2>1, <2>2
  <2>4. j <= i /\ i \in Nat /\ j \in Nat
    BY <1>2, <1>5, <2>3
  <2> QED BY <2>1, <2>4
<1> QED BY <1>6, <1>7 DEF Tops

-----------------------------------------------------------------------------
(* What the walk through the entries finds                                 *)

\* The recursive function of FollowReplacing.
WalkOf(b, base, model) ==
    CHOOSE follow : follow = [i \in DOMAIN entries[b] |->
        LET replacings == UNION {follow[j] : j \in entries[b][i].replacedBy}
        IN  IF replacings # {} THEN replacings
            ELSE {c \in {entries[b][i].cls} : Matches(c, base, model)}]

LEMMA FollowsWalk ==
    ASSUME NEW b, NEW base, NEW model
    PROVE  FollowReplacing(b, base, model)
               = UNION {WalkOf(b, base, model)[i] : i \in DOMAIN entries[b]}
BY DEF FollowReplacing, WalkOf

\* What it finds at an entry, in one word.
Found(b, M, i) == {t \in M : /\ t = entries[b][i].cls \/ t \in Over(entries[b][i].cls)
                             /\ Over(t) \cap M = {}}

\* The classes that replace that of an entry directly are those of the entries
\* it refers to.
LEMMA Direct1 ==
    ASSUME EntriesInv, NEW b \in Backends, NEW i \in DOMAIN entries[b], NEW c
    PROVE  c \in ReplacersOf({entries[b][i].cls})
               <=> \E j \in entries[b][i].replacedBy : entries[b][j].cls = c
<1> DEFINE es == entries[b]
<1>1. /\ DOMAIN es = 1..Len(es) /\ Len(es) \in Nat
      /\ \A j \in DOMAIN es : es[j].cls \in Defined
  <2>1. es \in Seq(Entry)
    BY DEF EntriesInv
  <2> HIDE DEF es
  <2>2. /\ DOMAIN es = 1..Len(es) /\ Len(es) \in Nat
        /\ \A j \in DOMAIN es : es[j] \in Entry
    BY <2>1
  <2> QED BY <2>2 DEF Entry
<1>2. ASSUME c \in ReplacersOf({es[i].cls}) PROVE \E j \in es[i].replacedBy : es[j].cls = c
  <2>1. c \in Defined /\ es[i].cls \in stated[c].replacing
    BY <1>2 DEF ReplacersOf
  <2>2. stated[c].backend = b
    <3>1. stated[es[i].cls].backend = b
      BY DEF EntriesInv
    <3> QED BY <2>1, <3>1 DEF EntriesInv
  <2>3. PICK j \in DOMAIN es : es[j].cls = c
    BY <2>1, <2>2 DEF EntriesInv
  <2>4. j \in es[i].replacedBy
    BY <2>1, <2>3 DEF EntriesInv
  <2> QED BY <2>3, <2>4
<1>3. ASSUME NEW j \in es[i].replacedBy, es[j].cls = c PROVE c \in ReplacersOf({es[i].cls})
  <2>1. j \in DOMAIN es
    BY <1>3 DEF EntriesInv
  <2>2. es[i].cls \in stated[c].replacing /\ c \in Defined
    BY <1>1, <1>3, <2>1 DEF EntriesInv
  <2> QED BY <2>2 DEF ReplacersOf
<1> QED BY <1>2, <1>3

LEMMA FoundStep ==
    ASSUME EntriesInv, NEW b \in Backends, NEW i \in DOMAIN entries[b],
           NEW M, \A c \in M : c \in Defined /\ stated[c].backend = b
    PROVE  LET all == UNION {Found(b, M, j) : j \in entries[b][i].replacedBy}
           IN  Found(b, M, i) = IF all # {} THEN all ELSE {c \in {entries[b][i].cls} : c \in M}
<1> DEFINE es == entries[b]
           c == es[i].cls
           all == UNION {Found(b, M, j) : j \in es[i].replacedBy}
           tops == {t \in M : t \in Over(c) /\ Over(t) \cap M = {}}
<1>1. all \subseteq tops
  <2>1. ASSUME NEW j \in es[i].replacedBy, NEW t \in Found(b, M, j) PROVE t \in tops
    <3>1. es[j].cls \in ReplacersOf({c})
      BY Direct1
    <3>2. es[j].cls \in Over(c) /\ Over(es[j].cls) \subseteq Over(c)
      BY <3>1, OverStep
    <3> QED BY <3>2 DEF Found
  <2> QED BY <2>1
<1>2. tops \subseteq all
  <2>1. ASSUME NEW t \in tops PROVE t \in all
    <3>1. PICK y \in ReplacersOf({c}) : t = y \/ t \in Over(y)
      BY OverStep
    <3>4. \A z : z \in ReplacersOf({es[i].cls}) <=> \E j \in es[i].replacedBy : es[j].cls = z
      BY Direct1
    <3>2. PICK j \in es[i].replacedBy : es[j].cls = y
      BY <3>1, <3>4
    <3>3. t \in Found(b, M, j)
      BY <3>1, <3>2 DEF Found
    <3> QED BY <3>3
  <2> QED BY <2>1
<1>3. tops = {} => Over(c) \cap M = {}
  <2>1. SUFFICES ASSUME Over(c) \cap M # {} PROVE tops # {}
    OBVIOUS
  <2> DEFINE N == Over(c) \cap M
  <2>2. \A t \in N : Over(t) \cap M \subseteq N
    BY OverOver
  <2>3. N \in SUBSET M /\ N # {}
    BY <2>1
  <2>4. \E t \in N : t \in Tops(M)
    <3> HIDE DEF N
    <3> QED BY <2>2, <2>3, TopExists
  <2> QED BY <2>4 DEF Tops
<1>4. tops # {} => Over(c) \cap M # {}
  OBVIOUS
<1>5. Found(b, M, i) = tops \cup {t \in M : t = c /\ Over(t) \cap M = {}}
  BY DEF Found
<1> HIDE DEF c, all, tops
<1>6. CASE tops = {}
  <2>1. {t \in M : t = c /\ Over(t) \cap M = {}} = {t \in {c} : t \in M}
    BY <1>3, <1>6
  <2> QED BY <1>1, <1>2, <1>5, <1>6, <2>1 DEF c, all
<1>7. CASE tops # {}
  <2>1. {t \in M : t = c /\ Over(t) \cap M = {}} = {}
    BY <1>4, <1>7
  <2> QED BY <1>1, <1>2, <1>5, <1>7, <2>1 DEF c, all
<1> QED BY <1>6, <1>7

\* Two functions that both follow the entries are the same.
Follows(f, b, base, model) ==
    f = [i \in DOMAIN entries[b] |->
            LET replacings == UNION {f[j] : j \in entries[b][i].replacedBy}
            IN  IF replacings # {} THEN replacings
                ELSE {c \in {entries[b][i].cls} : Matches(c, base, model)}]

LEMMA OneWalk ==
    ASSUME EntriesInv, NEW b \in Backends, NEW base, NEW model, NEW f, NEW g,
           Follows(f, b, base, model), Follows(g, b, base, model)
    PROVE  \A i \in DOMAIN entries[b] : f[i] = g[i]
<1> DEFINE es == entries[b]
           P == {i \in DOMAIN es : f[i] # g[i]}
<1>1. DOMAIN es = 1..Len(es) /\ Len(es) \in Nat
  <2>1. es \in Seq(Entry)
    BY DEF EntriesInv
  <2> HIDE DEF es
  <2> QED BY <2>1
<1>2. SUFFICES ASSUME P # {} PROVE FALSE
  OBVIOUS
<1>3. PICK i \in P : \A j \in P : j <= i
  <2>1. P \in SUBSET (1..Len(es))
    BY <1>1
  <2> HIDE DEF P, es
  <2> QED BY <1>1, <1>2, <2>1, LastIndex
<1>4. \A j \in es[i].replacedBy : f[j] = g[j]
  <2> SUFFICES ASSUME NEW j \in es[i].replacedBy, f[j] # g[j] PROVE FALSE
    OBVIOUS
  <2>1. j \in DOMAIN es /\ i < j
    BY <1>3 DEF EntriesInv
  <2>2. j <= i
    BY <1>3, <2>1
  <2>3. i \in Nat /\ j \in Nat
    BY <1>1, <1>3, <2>1
  <2> QED BY <2>1, <2>2, <2>3
<1> DEFINE rest == {c \in {es[i].cls} : Matches(c, base, model)}
           F == UNION {f[j] : j \in es[i].replacedBy}
           G == UNION {g[j] : j \in es[i].replacedBy}
<1>5. F = G
  <2>1. {f[j] : j \in es[i].replacedBy} = {g[j] : j \in es[i].replacedBy}
    BY <1>4
  <2> QED BY <2>1
<1>6. f[i] = IF F # {} THEN F ELSE rest
  BY <1>3 DEF Follows
<1>7. g[i] = IF G # {} THEN G ELSE rest
  BY <1>3 DEF Follows
<1> QED BY <1>3, <1>5, <1>6, <1>7

\* The walk through the entries of a version finds the classes that match and
\* that no class that matches replaces.
LEMMA WalkFinds ==
    ASSUME EntriesInv, NEW b \in Backends, NEW base, NEW model
    PROVE  FollowReplacing(b, base, model) = Tops(Candidates(b, base, model))
<1> DEFINE es == entries[b]
           M == Candidates(b, base, model)
           w == [i \in DOMAIN es |-> Found(b, M, i)]
<1>1. \A c \in M : c \in Defined /\ stated[c].backend = b
  BY DEF Candidates
<1>2. /\ \A i \in DOMAIN es : es[i].cls \in Defined /\ stated[es[i].cls].backend = b
      /\ \A i \in DOMAIN es : \A j \in es[i].replacedBy : j \in DOMAIN es
  <2>1. es \in Seq(Entry)
    BY DEF EntriesInv
  <2>2. \A i \in DOMAIN es : es[i] \in Entry
    <3> HIDE DEF es
    <3> QED BY <2>1
  <2>3. \A i \in DOMAIN es : es[i].cls \in Defined
    BY <2>2 DEF Entry
  <2> QED BY <2>3 DEF EntriesInv
<1>3. ASSUME NEW i \in DOMAIN es PROVE \A c \in {es[i].cls} : c \in M <=> Matches(c, base, model)
  BY <1>2 DEF Candidates
<1> HIDE DEF M
<1>4. Follows(w, b, base, model)
  <2>1. ASSUME NEW i \in DOMAIN es
        PROVE  Found(b, M, i) = LET all == UNION {w[j] : j \in es[i].replacedBy}
                                IN  IF all # {} THEN all ELSE {c \in {es[i].cls} : Matches(c, base, model)}
    <3> DEFINE all == UNION {Found(b, M, j) : j \in es[i].replacedBy}
               also == UNION {w[j] : j \in es[i].replacedBy}
    <3>1. Found(b, M, i) = IF all # {} THEN all ELSE {c \in {es[i].cls} : c \in M}
      BY <1>1, FoundStep
    <3>2. \A j \in es[i].replacedBy : w[j] = Found(b, M, j)
      BY <1>2
    <3>3. also = all
      <4> HIDE DEF w
      <4>1. {w[j] : j \in es[i].replacedBy} = {Found(b, M, j) : j \in es[i].replacedBy}
        BY <3>2
      <4> QED BY <4>1
    <3>4. {c \in {es[i].cls} : c \in M} = {c \in {es[i].cls} : Matches(c, base, model)}
      BY <1>3
    <3> QED BY <3>1, <3>3, <3>4
  <2> DEFINE step(i) == LET all == UNION {w[j] : j \in es[i].replacedBy}
                        IN  IF all # {} THEN all ELSE {c \in {es[i].cls} : Matches(c, base, model)}
  <2>2. w = [i \in DOMAIN es |-> step(i)]
    BY <2>1
  <2> QED BY <2>2 DEF Follows
<1>5. Follows(WalkOf(b, base, model), b, base, model)
  <2>1. \E f : Follows(f, b, base, model)
    BY <1>4
  <2>2. WalkOf(b, base, model) = CHOOSE f : Follows(f, b, base, model)
    BY DEF WalkOf, Follows
  <2> QED BY <2>1, <2>2
<1> DEFINE walk == WalkOf(b, base, model)
<1>6. \A i \in DOMAIN es : walk[i] = Found(b, M, i)
  <2> HIDE DEF walk, w
  <2>1. \A i \in DOMAIN es : walk[i] = w[i]
    BY <1>4, <1>5, OneWalk DEF walk
  <2> QED BY <2>1 DEF w
<1>7. UNION {walk[i] : i \in DOMAIN es} = UNION {Found(b, M, i) : i \in DOMAIN es}
  <2> HIDE DEF walk
  <2>1. {walk[i] : i \in DOMAIN es} = {Found(b, M, i) : i \in DOMAIN es}
    BY <1>6
  <2> QED BY <2>1
<1>8. UNION {Found(b, M, i) : i \in DOMAIN es} = Tops(M)
  <2>1. ASSUME NEW i \in DOMAIN es, NEW t \in Found(b, M, i) PROVE t \in Tops(M)
    BY DEF Found, Tops
  <2>2. ASSUME NEW t \in Tops(M) PROVE \E i \in DOMAIN es : t \in Found(b, M, i)
    <3>1. t \in M /\ t \in Defined /\ stated[t].backend = b
      BY <1>1 DEF Tops
    <3>2. PICK i \in DOMAIN es : es[i].cls = t
      BY <3>1 DEF EntriesInv
    <3> QED BY <3>1, <3>2 DEF Found, Tops
  <2> QED BY <2>1, <2>2
<1>9. FollowReplacing(b, base, model) = UNION {walk[i] : i \in DOMAIN es}
  BY FollowsWalk
<1> QED BY <1>7, <1>8, <1>9 DEF M

-----------------------------------------------------------------------------
(* The versions of a service                                               *)

LEMMA LineageHas ==
    ASSUME NEW b \in Backends
    PROVE  /\ b \in Lineage(b) /\ Lineage(b) \subseteq Backends
           /\ \A y \in Lineage(b) : Parent[y] \in Lineage(b) \cup {NoParent}
           /\ \A S \in SUBSET Backends :
                 b \in S /\ {Parent[y] : y \in S} \subseteq S \cup {NoParent} => Lineage(b) \subseteq S
<1>1. \A S \in SUBSET Backends :
          b \in S /\ {Parent[y] : y \in S} \subseteq S \cup {NoParent} => Lineage(b) \subseteq S
  BY DEF Lineage
<1>2. ASSUME NEW y \in Lineage(b), Parent[y] # NoParent PROVE Parent[y] \in Lineage(b)
  <2>1. y \in Backends /\ Parent[y] \in Backends
    BY <1>2, UnitsAssumption DEF Lineage
  <2>2. ASSUME NEW S \in SUBSET Backends, b \in S, {Parent[z] : z \in S} \subseteq S \cup {NoParent}
        PROVE  Parent[y] \in S
    <3>1. y \in S
      BY <1>1, <2>2
    <3> QED BY <1>2, <2>2, <3>1
  <2> QED BY <2>1, <2>2 DEF Lineage
<1>3. b \in Lineage(b) /\ Lineage(b) \subseteq Backends
  BY DEF Lineage
<1> QED BY <1>1, <1>2, <1>3

\* A version is a child of itself and of whatever its parent is a child of.
LEMMA LineageStep ==
    ASSUME NEW b \in Backends
    PROVE  /\ Parent[b] = NoParent => Lineage(b) = {b}
           /\ Parent[b] # NoParent => /\ Parent[b] \in Backends
                                      /\ Lineage(b) = {b} \cup Lineage(Parent[b])
<1>1. CASE Parent[b] = NoParent
  <2>1. {b} \in SUBSET Backends /\ {Parent[y] : y \in {b}} \subseteq {b} \cup {NoParent}
    BY <1>1
  <2>2. Lineage(b) \subseteq {b}
    BY <2>1, LineageHas
  <2> QED BY <1>1, <2>2, LineageHas
<1>2. CASE Parent[b] # NoParent
  <2> DEFINE p == Parent[b]
             S == {b} \cup Lineage(p)
  <2>1. p \in Backends
    BY <1>2, UnitsAssumption
  <2>2. /\ p \in Lineage(p) /\ Lineage(p) \subseteq Backends
        /\ \A y \in Lineage(p) : Parent[y] \in Lineage(p) \cup {NoParent}
    <3> HIDE DEF p
    <3> QED BY <2>1, LineageHas
  <2>3. S \in SUBSET Backends /\ b \in S /\ {Parent[y] : y \in S} \subseteq S \cup {NoParent}
    BY <2>2
  <2>4. Lineage(b) \subseteq S
    <3> HIDE DEF S
    <3> QED BY <2>3, LineageHas
  <2>5. Lineage(p) \subseteq Lineage(b)
    <3>1. /\ Lineage(b) \in SUBSET Backends /\ b \in Lineage(b)
          /\ \A y \in Lineage(b) : Parent[y] \in Lineage(b) \cup {NoParent}
      BY LineageHas
    <3>2. p \in Lineage(b)
      BY <1>2, <3>1
    <3>3. {Parent[y] : y \in Lineage(b)} \subseteq Lineage(b) \cup {NoParent}
      BY <3>1
    <3> HIDE DEF p
    <3> QED BY <2>1, <3>1, <3>2, <3>3, LineageHas
  <2>6. b \in Lineage(b)
    BY LineageHas
  <2> QED BY <1>2, <2>1, <2>4, <2>5, <2>6
<1> QED BY <1>1, <1>2

\* No version is a child of one of its children.
LEMMA NotItsOwnParent ==
    ASSUME NEW b \in Backends, Parent[b] # NoParent
    PROVE  b \notin Lineage(Parent[b])
<1> DEFINE p == Parent[b]
           S == {z \in Lineage(p) : b \in Lineage(z)}
<1>1. p \in Backends
  BY UnitsAssumption
<1>2. /\ p \in Lineage(p) /\ Lineage(p) \subseteq Backends
      /\ \A y \in Lineage(p) : Parent[y] \in Lineage(p) \cup {NoParent}
  <2> HIDE DEF p
  <2> QED BY <1>1, LineageHas
<1>3. SUFFICES ASSUME b \in Lineage(p) PROVE FALSE
  OBVIOUS
<1>4. p \in S
  BY <1>2, <1>3
<1>5. ASSUME NEW z \in S PROVE Parent[z] \in S
  <2>1. z \in Backends /\ z \in Lineage(p) /\ b \in Lineage(z)
    BY <1>2
  <2>2. CASE z = b
    BY <1>4, <2>2
  <2>3. CASE z # b
    <3>1. Parent[z] # NoParent
      BY <2>1, <2>3, LineageStep
    <3>2. Parent[z] \in Lineage(p)
      BY <1>2, <2>1, <3>1
    <3>3. b \in Lineage(Parent[z])
      BY <2>1, <2>3, <3>1, LineageStep
    <3> QED BY <3>2, <3>3
  <2> QED BY <2>2, <2>3
<1>6. S \in SUBSET Backends /\ S # {}
  BY <1>2, <1>4
<1> HIDE DEF S
<1> QED BY <1>5, <1>6, UnitsAssumption

\* Each version takes what it has, or else what its parent takes.
Gets(f, base, model) ==
    f = [x \in Backends |->
            LET found == FollowReplacing(x, base, model)
            IN  IF found # {} \/ Parent[x] = NoParent THEN found ELSE f[Parent[x]]]

GetOf(base, model) == CHOOSE get : Gets(get, base, model)

LEMMA GetsGet ==
    ASSUME NEW b, NEW base, NEW model
    PROVE  GetClasses(b, base, model) = GetOf(base, model)[b]
BY DEF GetClasses, GetOf, Gets

LEMMA OneGet ==
    ASSUME NEW base, NEW model, NEW f, NEW g, Gets(f, base, model), Gets(g, base, model)
    PROVE  \A b \in Backends : f[b] = g[b]
<1> DEFINE S == {b \in Backends : f[b] # g[b]}
<1>1. SUFFICES ASSUME S # {} PROVE FALSE
  OBVIOUS
<1>2. PICK b \in S : Parent[b] \notin S
  <2>1. S \in SUBSET Backends
    OBVIOUS
  <2> HIDE DEF S
  <2> QED BY <1>1, <2>1, UnitsAssumption
<1> DEFINE found == FollowReplacing(b, base, model)
<1>3. f[b] = IF found # {} \/ Parent[b] = NoParent THEN found ELSE f[Parent[b]]
  BY <1>2 DEF Gets
<1>4. g[b] = IF found # {} \/ Parent[b] = NoParent THEN found ELSE g[Parent[b]]
  BY <1>2 DEF Gets
<1>5. CASE found # {} \/ Parent[b] = NoParent
  BY <1>2, <1>3, <1>4, <1>5
<1>6. CASE ~(found # {} \/ Parent[b] = NoParent)
  <2>1. Parent[b] \in Backends
    BY <1>2, <1>6, UnitsAssumption
  <2>2. f[Parent[b]] = g[Parent[b]]
    BY <1>2, <2>1
  <2> QED BY <1>2, <1>3, <1>4, <1>6, <2>2
<1> QED BY <1>5, <1>6

-----------------------------------------------------------------------------
(* The answers                                                             *)

\* The classes that could answer if I were the modules of the database, and
\* the answers there should be.
Able(I, b, base, model) ==
    {c \in Defined : /\ stated[c].backend = b /\ ModuleOf[c] \in I
                     /\ base \in Ancestors(c) /\ model = ModelOf[c]}
Having(I, b, base, model) == {x \in Lineage(b) : Able(I, x, base, model) # {}}
Nearest(I, b, base, model) ==
    {x \in Having(I, b, base, model) : \A y \in Having(I, b, base, model) : y \in Lineage(x)}
Best(I, b, base, model) ==
    UNION {Tops(Able(I, x, base, model)) : x \in Nearest(I, b, base, model)}

\* What a version has goes before what its parent has.
LEMMA BestStep ==
    ASSUME NEW I, NEW b \in Backends, NEW base, NEW model
    PROVE  /\ Able(I, b, base, model) # {} => Best(I, b, base, model) = Tops(Able(I, b, base, model))
           /\ Able(I, b, base, model) = {} /\ Parent[b] = NoParent => Best(I, b, base, model) = {}
           /\ Able(I, b, base, model) = {} /\ Parent[b] # NoParent
                 => Best(I, b, base, model) = Best(I, Parent[b], base, model)
<1> DEFINE able(x) == Able(I, x, base, model)
           has(x) == Having(I, x, base, model)
           near(x) == Nearest(I, x, base, model)
<1>1. ASSUME able(b) # {} PROVE near(b) = {b}
  <2>1. b \in near(b)
    <3>1. b \in has(b)
      BY <1>1, LineageHas DEF Having
    <3>2. \A y \in has(b) : y \in Lineage(b)
      BY DEF Having
    <3> QED BY <3>1, <3>2 DEF Nearest
  <2>2. ASSUME NEW x \in near(b), x # b PROVE FALSE
    <3>1. x \in Lineage(b) /\ b \in Lineage(x)
      BY <2>1 DEF Nearest, Having
    <3>2. Parent[b] # NoParent /\ Parent[b] \in Backends /\ x \in Lineage(Parent[b])
      BY <2>2, <3>1, LineageStep
    <3>3. x \in Backends /\ Lineage(x) \subseteq Lineage(Parent[b])
      <4> DEFINE L == Lineage(Parent[b])
      <4>1. L \in SUBSET Backends /\ \A y \in L : Parent[y] \in L \cup {NoParent}
        BY <3>2, LineageHas
      <4>2. x \in Backends /\ x \in L /\ {Parent[y] : y \in L} \subseteq L \cup {NoParent}
        BY <3>2, <4>1
      <4> HIDE DEF L
      <4>3. Lineage(x) \subseteq L
        BY <4>1, <4>2, LineageHas
      <4> QED BY <4>2, <4>3 DEF L
    <3> QED BY <3>1, <3>2, <3>3, NotItsOwnParent
  <2> QED BY <2>1, <2>2
<1>2. ASSUME able(b) = {}, Parent[b] = NoParent PROVE near(b) = {}
  <2>1. Lineage(b) = {b}
    BY <1>2, LineageStep
  <2>2. has(b) = {}
    BY <1>2, <2>1 DEF Having
  <2> QED BY <2>2 DEF Nearest
<1>3. ASSUME able(b) = {}, Parent[b] # NoParent PROVE near(b) = near(Parent[b])
  <2>1. Lineage(b) = {b} \cup Lineage(Parent[b])
    BY <1>3, LineageStep
  <2>2. has(b) = has(Parent[b])
    BY <1>3, <2>1 DEF Having
  <2> QED BY <2>2 DEF Nearest
<1>4. near(b) = {b} => Best(I, b, base, model) = Tops(able(b))
  BY DEF Best
<1>5. near(b) = {} => Best(I, b, base, model) = {}
  BY DEF Best
<1>6. near(b) = near(Parent[b]) => Best(I, b, base, model) = Best(I, Parent[b], base, model)
  BY DEF Best
<1> QED BY <1>1, <1>2, <1>3, <1>4, <1>5, <1>6

LEMMA AnswersBest ==
    ASSUME EntriesInv, NEW b \in Backends, NEW base, NEW model
    PROVE  GetClasses(b, base, model) = Best(installed, b, base, model)
<1> DEFINE best == [x \in Backends |-> Best(installed, x, base, model)]
           able(x) == Able(installed, x, base, model)
           found(x) == FollowReplacing(x, base, model)
<1>1. \A x \in Backends : Candidates(x, base, model) = able(x)
  BY DEF Candidates, Able, Matches, IsInstalled
<1>2. \A x \in Backends : found(x) = Tops(able(x))
  BY <1>1, WalkFinds
<1>3. ASSUME NEW x \in Backends PROVE able(x) = {} <=> Tops(able(x)) = {}
  <2> DEFINE M == able(x)
  <2>1. \A c \in M : c \in Defined /\ stated[c].backend = x
    BY DEF Able
  <2>2. M # {} => \E t \in M : t \in Tops(M)
    <3> HIDE DEF M
    <3> QED BY <2>1, TopExists
  <2>3. M = {} => Tops(M) = {}
    BY DEF Tops
  <2> QED BY <2>2, <2>3
<1>4. ASSUME NEW x \in Backends
      PROVE  best[x] = IF found(x) # {} \/ Parent[x] = NoParent THEN found(x) ELSE best[Parent[x]]
  <2>1. best[x] = Best(installed, x, base, model)
    OBVIOUS
  <2>2. Parent[x] # NoParent => best[Parent[x]] = Best(installed, Parent[x], base, model)
    BY UnitsAssumption
  <2> HIDE DEF best
  <2>3. CASE able(x) # {}
    <3>1. best[x] = found(x) /\ found(x) # {}
      BY <1>2, <1>3, <2>1, <2>3, BestStep
    <3> QED BY <3>1
  <2>4. CASE able(x) = {} /\ Parent[x] = NoParent
    <3>1. best[x] = {} /\ found(x) = {}
      BY <1>2, <1>3, <2>1, <2>4, BestStep
    <3> QED BY <2>4, <3>1
  <2>5. CASE able(x) = {} /\ Parent[x] # NoParent
    <3>1. best[x] = best[Parent[x]] /\ found(x) = {}
      BY <1>2, <1>3, <2>1, <2>2, <2>5, BestStep
    <3> QED BY <2>5, <3>1
  <2> QED BY <2>3, <2>4, <2>5
<1>5. Gets(best, base, model)
  <2> DEFINE step(x) == IF found(x) # {} \/ Parent[x] = NoParent THEN found(x) ELSE best[Parent[x]]
  <2>1. best = [x \in Backends |-> step(x)]
    BY <1>4
  <2> HIDE DEF best
  <2> QED BY <2>1 DEF Gets
<1>6. Gets(GetOf(base, model), base, model)
  BY <1>5 DEF GetOf
<1> DEFINE get == GetOf(base, model)
<1>7. get[b] = best[b]
  <2> HIDE DEF get, best
  <2> QED BY <1>5, <1>6, OneGet DEF get
<1> QED BY <1>7, GetsGet

\* The walk finds the classes that should answer.
LEMMA EntriesFind == EntriesInv => UnitsFound
<1> SUFFICES ASSUME EntriesInv, NEW b \in Backends, NEW base \in Defined \cup {Unit}, NEW model \in Models
             PROVE  LET having == {x \in Lineage(b) : Candidates(x, base, model) # {}}
                        nearest == {x \in having : \A y \in having : y \in Lineage(x)}
                    IN  GetClasses(b, base, model) =
                            UNION {{c \in Candidates(x, base, model) :
                                       Over(c) \cap Candidates(x, base, model) = {}} : x \in nearest}
  BY DEF UnitsFound
<1>1. \A x : Candidates(x, base, model) = Able(installed, x, base, model)
  BY DEF Candidates, Able, Matches, IsInstalled
<1>2. GetClasses(b, base, model) = Best(installed, b, base, model)
  BY AnswersBest
<1> QED BY <1>1, <1>2 DEF Best, Nearest, Having, Tops

-----------------------------------------------------------------------------
(* What a class statement makes of the entries                             *)

LEMMA EntriesStay ==
    ASSUME EntriesInv, UNCHANGED <<mro, stated, entries>>
    PROVE  EntriesInv'
<1>1. Defined' = Defined
  BY DEF Defined
<1>2. Entry' = Entry
  BY <1>1 DEF Entry
<1> QED BY <1>1, <1>2 DEF EntriesInv

LEMMA EntriesAtFirst == InitUnits => EntriesInv
<1> SUFFICES ASSUME InitUnits PROVE EntriesInv
  OBVIOUS
<1>1. Defined = {} /\ DOMAIN stated = {}
  <2>1. stated = <<>>
    BY DEF InitUnits
  <2>2. DOMAIN stated = {}
    BY <2>1
  <2> QED BY <2>2, OrderAtFirst
<1>2. entries = [b \in Backends |-> <<>>]
  BY DEF InitUnits
<1>3. \A b \in Backends : entries[b] \in Seq(Entry) /\ DOMAIN entries[b] = {}
  BY <1>2
<1>4. entries \in [Backends -> Seq(Entry)]
  BY <1>2
<1> QED BY <1>1, <1>3, <1>4 DEF EntriesInv

\* The entries of the backends after a class statement: one more, and those of the
\* classes it replaces refer to it.
Registers(c, b, replacing, es, last) ==
    /\ Len(es) \in Nat /\ DOMAIN es = 1..Len(es)
    /\ entries' \in [Backends -> Seq(Entry')]
    /\ \A x \in Backends \ {b} : entries'[x] = entries[x]
    /\ DOMAIN entries'[b] = 1..last
    /\ \A i \in 1..Len(es) :
          /\ es[i].cls \in Defined /\ entries'[b][i].cls = es[i].cls
          /\ es[i].cls \in replacing
                => entries'[b][i].replacedBy = es[i].replacedBy \cup {last}
          /\ es[i].cls \notin replacing
                => entries'[b][i].replacedBy = es[i].replacedBy
    /\ entries'[b][last].cls = c /\ entries'[b][last].replacedBy = {}

LEMMA Registered ==
    ASSUME EntriesInv, NEW c, c \notin Defined, NEW b \in Backends, NEW replacing,
           Defined' = Defined \cup {c}, RegisterClass(b, c, replacing),
           NEW es, es = entries[b], NEW last, last = Len(es) + 1
    PROVE  Registers(c, b, replacing, es, last)
<1> DEFINE new == [cls |-> c, replacedBy |-> {}]
           ws == WithReplaced(es, replacing, last)
           es2 == Append(ws, new)
<1>1. es \in Seq(Entry)
  BY DEF EntriesInv
<1>2. Len(es) \in Nat /\ DOMAIN es = 1..Len(es) /\ \A i \in 1..Len(es) : es[i] \in Entry
  BY <1>1
<1>3. /\ DOMAIN ws = 1..Len(es)
      /\ \A i \in 1..Len(es) : ws[i] =
            IF es[i].cls \in replacing THEN [es[i] EXCEPT !.replacedBy = @ \cup {last}] ELSE es[i]
  BY <1>2 DEF WithReplaced
<1>4. last \in Nat /\ last = Len(es) + 1
  BY <1>2
<1>5. \A i \in 1..Len(es) : ws[i] \in Entry'
  <2> SUFFICES ASSUME NEW i \in 1..Len(es) PROVE ws[i] \in Entry'
    OBVIOUS
  <2>1. PICK x \in Defined, r \in SUBSET Nat : es[i] = [cls |-> x, replacedBy |-> r]
    BY <1>2 DEF Entry
  <2>2. [es[i] EXCEPT !.replacedBy = @ \cup {last}] = [cls |-> x, replacedBy |-> r \cup {last}]
    BY <2>1
  <2>3. ws[i] = [cls |-> x, replacedBy |-> r \cup {last}] \/ ws[i] = [cls |-> x, replacedBy |-> r]
    BY <1>3, <2>1, <2>2
  <2>4. r \cup {last} \in SUBSET Nat
    BY <1>4
  <2> HIDE DEF ws
  <2> QED BY <2>1, <2>3, <2>4 DEF Entry
<1>6. new \in Entry'
  BY DEF Entry
<1>7. ws \in Seq(Entry') /\ Len(ws) = Len(es)
  <2> HIDE DEF ws
  <2>1. ws = [i \in 1..Len(es) |-> ws[i]]
    BY <1>2 DEF ws, WithReplaced
  <2>2. ws \in [1..Len(es) -> Entry']
    BY <1>5, <2>1
  <2>3. ws \in Seq(Entry')
    BY <1>2, <2>2, SeqDef
  <2> QED BY <1>2, <1>3, <2>3
<1>8. /\ es2 \in Seq(Entry') /\ Len(es2) = last /\ es2[last] = new
      /\ \A i \in 1..Len(es) : es2[i] = ws[i]
  <2> HIDE DEF ws, new
  <2>1. /\ Append(ws, new) \in Seq(Entry') /\ Len(Append(ws, new)) = Len(ws) + 1
        /\ \A i \in 1..Len(ws) : Append(ws, new)[i] = ws[i]
        /\ Append(ws, new)[Len(ws) + 1] = new
    BY <1>6, <1>7, AppendProperties
  <2> QED BY <1>4, <1>7, <2>1
<1>9. entries' = [entries EXCEPT ![b] = es2]
  BY DEF RegisterClass
<1> HIDE DEF es2
<1>10. entries'[b] = es2 /\ \A x \in Backends \ {b} : entries'[x] = entries[x]
  BY <1>9 DEF EntriesInv
<1>11. entries' \in [Backends -> Seq(Entry')]
  <2>1. \A x \in Backends : entries[x] \in Seq(Entry)
    BY DEF EntriesInv
  <2>2. Entry \subseteq Entry'
    BY DEF Entry
  <2>3. \A x \in Backends : entries[x] \in Seq(Entry')
    BY <2>1, <2>2, SeqMonotonic
  <2>4. DOMAIN entries = Backends
    BY DEF EntriesInv
  <2> QED BY <1>8, <1>9, <2>3, <2>4
<1>12. DOMAIN es2 = 1..last
  BY <1>8
<1>13. \A i \in 1..Len(es) :
          /\ es[i].cls \in Defined /\ es2[i].cls = es[i].cls
          /\ es[i].cls \in replacing => es2[i].replacedBy = es[i].replacedBy \cup {last}
          /\ es[i].cls \notin replacing => es2[i].replacedBy = es[i].replacedBy
  <2> SUFFICES ASSUME NEW i \in 1..Len(es)
               PROVE  /\ es[i].cls \in Defined /\ es2[i].cls = es[i].cls
                      /\ es[i].cls \in replacing => es2[i].replacedBy = es[i].replacedBy \cup {last}
                      /\ es[i].cls \notin replacing => es2[i].replacedBy = es[i].replacedBy
    OBVIOUS
  <2>1. PICK x \in Defined, r \in SUBSET Nat : es[i] = [cls |-> x, replacedBy |-> r]
    BY <1>2 DEF Entry
  <2>2. [es[i] EXCEPT !.replacedBy = @ \cup {last}] = [cls |-> x, replacedBy |-> r \cup {last}]
    BY <2>1
  <2>3. es2[i] = IF es[i].cls \in replacing THEN [es[i] EXCEPT !.replacedBy = @ \cup {last}] ELSE es[i]
    BY <1>3, <1>8
  <2>4. CASE es[i].cls \in replacing
    <3>1. es2[i] = [cls |-> x, replacedBy |-> r \cup {last}]
      BY <2>2, <2>3, <2>4
    <3> QED BY <2>1, <2>4, <3>1
  <2>5. CASE es[i].cls \notin replacing
    <3>1. es2[i] = [cls |-> x, replacedBy |-> r]
      BY <2>1, <2>3, <2>5
    <3> QED BY <2>1, <2>5, <3>1
  <2> QED BY <2>4, <2>5
<1> HIDE DEF ws
<1> QED BY <1>2, <1>8, <1>10, <1>11, <1>12, <1>13 DEF Registers

LEMMA EntriesGrow ==
    ASSUME OrderInv, EntriesInv, NEW c \in Classes, NEW n \in 0..2, NEW bases \in [1..n -> Defined],
           NEW b \in Backends, NEW replacing, ImportUnit(c, bases, b, replacing)
    PROVE  EntriesInv'
<1> DEFINE es == entries[b]
           last == Len(es) + 1
<1>1. /\ c \notin Defined /\ Defined' = Defined \cup {c}
      /\ RegisterClass(b, c, replacing) /\ c \notin replacing
      /\ stated' = [x \in Defined \cup {c} |->
                       IF x = c THEN [backend |-> b, replacing |-> replacing] ELSE stated[x]]
  BY DEF ImportUnit, RegisterClass, Defined
<1>2. /\ DOMAIN stated' = Defined'
      /\ \A x \in Defined : stated'[x] = stated[x]
      /\ stated'[c].backend = b /\ stated'[c].replacing = replacing
  BY <1>1
<1>3. /\ Len(es) \in Nat /\ DOMAIN es = 1..Len(es)
      /\ entries' \in [Backends -> Seq(Entry')]
      /\ \A x \in Backends \ {b} : entries'[x] = entries[x]
      /\ DOMAIN entries'[b] = 1..last
      /\ \A i \in 1..Len(es) :
            /\ es[i].cls \in Defined /\ entries'[b][i].cls = es[i].cls
            /\ es[i].cls \in replacing => entries'[b][i].replacedBy = es[i].replacedBy \cup {last}
            /\ es[i].cls \notin replacing => entries'[b][i].replacedBy = es[i].replacedBy
      /\ entries'[b][last].cls = c /\ entries'[b][last].replacedBy = {}
  <2> HIDE DEF es, last
  <2>1. es = entries[b] /\ last = Len(es) + 1
    BY DEF es, last
  <2>2. Registers(c, b, replacing, es, last)
    BY <1>1, <2>1, Registered
  <2> QED BY <2>2 DEF Registers
<1> HIDE DEF es
<1>4. last \in Nat /\ \A i : i \in 1..last <=> i \in 1..Len(es) \/ i = last
  BY <1>3
<1>5. \A i \in 1..Len(es) : i < last /\ last \notin 1..Len(es) /\ i \in Nat
  BY <1>3
<1> HIDE DEF last
<1>6. \A i \in 1..Len(es) :
         /\ es[i].cls \in Defined /\ entries'[b][i].cls = es[i].cls
         /\ es[i].cls \in replacing => entries'[b][i].replacedBy = es[i].replacedBy \cup {last}
         /\ es[i].cls \notin replacing => entries'[b][i].replacedBy = es[i].replacedBy
  BY <1>3
<1>7. entries'[b][last].cls = c /\ entries'[b][last].replacedBy = {}
  BY <1>3
<1>8. replacing \subseteq {es[i].cls : i \in 1..Len(es)}
  BY <1>1, <1>3 DEF RegisterClass, es
<1>9. /\ \A i \in 1..Len(es) : stated[es[i].cls].backend = b
      /\ \A i \in 1..Len(es) : \A j \in es[i].replacedBy : j \in 1..Len(es) /\ i < j
      /\ \A i, j \in 1..Len(es) :
            j \in es[i].replacedBy <=> es[i].cls \in stated[es[j].cls].replacing
  BY <1>3 DEF EntriesInv, es
<1>10. replacing \subseteq Defined /\ \A a \in replacing : stated[a].backend = b
  BY <1>6, <1>8, <1>9
<1>11. \A x \in Defined' : stated'[x].backend \in Backends /\ stated'[x].replacing \subseteq Defined'
  BY <1>1, <1>2, <1>10 DEF EntriesInv
<1>12. \A x \in Defined' : \A a \in stated'[x].replacing : stated'[a].backend = stated'[x].backend
  <2>1. ASSUME NEW x \in Defined, NEW a \in stated'[x].replacing
        PROVE  stated'[a].backend = stated'[x].backend
    <3>1. a \in stated[x].replacing /\ a \in Defined
      BY <1>2 DEF EntriesInv
    <3> QED BY <1>2, <3>1 DEF EntriesInv
  <2>2. \A a \in replacing : stated'[a].backend = b
    BY <1>2, <1>10
  <2> QED BY <1>1, <1>2, <2>1, <2>2
<1>13. ASSUME NEW i \in 1..last
       PROVE  /\ stated'[entries'[b][i].cls].backend = b
              /\ \A j \in entries'[b][i].replacedBy : j \in 1..last /\ i < j
              /\ \A j \in 1..last :
                    j \in entries'[b][i].replacedBy <=>
                        entries'[b][i].cls \in stated'[entries'[b][j].cls].replacing
  <2>1. CASE i = last
    <3>1. \A j \in 1..last : c \notin stated'[entries'[b][j].cls].replacing
      <4>1. \A j \in 1..Len(es) : c \notin stated'[entries'[b][j].cls].replacing
        BY <1>1, <1>2, <1>6 DEF EntriesInv
      <4>2. c \notin stated'[entries'[b][last].cls].replacing
        BY <1>1, <1>2, <1>7
      <4> QED BY <1>4, <4>1, <4>2
    <3> QED BY <1>2, <1>7, <2>1, <3>1
  <2>2. CASE i \in 1..Len(es)
    <3>1. stated'[entries'[b][i].cls] = stated[es[i].cls]
      BY <1>2, <1>6, <2>2
    <3>2. \A j \in entries'[b][i].replacedBy : j \in es[i].replacedBy \/ j = last
      BY <1>6, <2>2
    <3>3. \A j \in es[i].replacedBy : j \in 1..Len(es) /\ i < j
      BY <1>9, <2>2
    <3>4. \A j \in entries'[b][i].replacedBy : j \in 1..last /\ i < j
      BY <1>4, <1>5, <2>2, <3>2, <3>3
    <3>5. ASSUME NEW j \in 1..Len(es)
          PROVE  j \in entries'[b][i].replacedBy <=>
                     entries'[b][i].cls \in stated'[entries'[b][j].cls].replacing
      <4>1. j # last /\ stated'[entries'[b][j].cls] = stated[es[j].cls]
        BY <1>2, <1>5, <1>6
      <4>2. j \in entries'[b][i].replacedBy <=> j \in es[i].replacedBy
        BY <1>6, <2>2, <4>1
      <4>3. j \in es[i].replacedBy <=> es[i].cls \in stated[es[j].cls].replacing
        BY <1>9, <2>2
      <4> QED BY <1>6, <2>2, <4>1, <4>2, <4>3
    <3>6. last \in entries'[b][i].replacedBy <=>
              entries'[b][i].cls \in stated'[entries'[b][last].cls].replacing
      <4>1. last \notin es[i].replacedBy
        BY <1>5, <2>2, <3>3
      <4>2. stated'[entries'[b][last].cls].replacing = replacing
        BY <1>2, <1>7
      <4> QED BY <1>6, <2>2, <4>1, <4>2
    <3>7. stated[es[i].cls].backend = b
      BY <1>9, <2>2
    <3> QED BY <1>4, <3>1, <3>4, <3>5, <3>6, <3>7
  <2> QED BY <1>4, <2>1, <2>2
<1>14. ASSUME NEW x \in Backends \ {b}, NEW i \in DOMAIN entries'[x]
       PROVE  /\ stated'[entries'[x][i].cls].backend = x
              /\ \A j \in entries'[x][i].replacedBy : j \in DOMAIN entries'[x] /\ i < j
              /\ \A j \in DOMAIN entries'[x] :
                    j \in entries'[x][i].replacedBy <=>
                        entries'[x][i].cls \in stated'[entries'[x][j].cls].replacing
  <2>1. entries'[x] = entries[x] /\ x \in Backends
    BY <1>3
  <2>2. \A j \in DOMAIN entries[x] : entries[x][j].cls \in Defined
    <3>1. entries[x] \in Seq(Entry)
      BY <2>1 DEF EntriesInv
    <3>2. \A j \in DOMAIN entries[x] : entries[x][j] \in Entry
      BY <3>1
    <3> QED BY <3>2 DEF Entry
  <2>3. \A j \in DOMAIN entries[x] : stated'[entries[x][j].cls] = stated[entries[x][j].cls]
    BY <1>2, <2>2
  <2>4. i \in DOMAIN entries[x]
    BY <2>1
  <2>5. /\ stated[entries[x][i].cls].backend = x
        /\ \A j \in entries[x][i].replacedBy : j \in DOMAIN entries[x] /\ i < j
        /\ \A j \in DOMAIN entries[x] :
              j \in entries[x][i].replacedBy <=>
                  entries[x][i].cls \in stated[entries[x][j].cls].replacing
    BY <2>1, <2>4 DEF EntriesInv
  <2> QED BY <2>1, <2>3, <2>4, <2>5
<1>15. ASSUME NEW x \in Defined'
       PROVE  \E i \in DOMAIN entries'[stated'[x].backend] : entries'[stated'[x].backend][i].cls = x
  <2>1. CASE x = c
    BY <1>2, <1>3, <1>4, <1>7, <2>1
  <2>2. CASE x \in Defined /\ stated[x].backend = b
    <3>1. PICK i \in DOMAIN entries[b] : entries[b][i].cls = x
      BY <2>2 DEF EntriesInv
    <3>2. i \in 1..Len(es) /\ es[i].cls = x
      BY <1>3, <3>1 DEF es
    <3>3. i \in DOMAIN entries'[b] /\ entries'[b][i].cls = x /\ stated'[x].backend = b
      BY <1>2, <1>3, <1>4, <1>6, <2>2, <3>2
    <3> QED BY <3>3
  <2>3. CASE x \in Defined /\ stated[x].backend # b
    <3>1. stated[x].backend \in Backends \ {b}
      BY <2>3 DEF EntriesInv
    <3>2. entries'[stated[x].backend] = entries[stated[x].backend] /\ stated'[x] = stated[x]
      BY <1>2, <1>3, <2>3, <3>1
    <3>3. \E i \in DOMAIN entries[stated[x].backend] : entries[stated[x].backend][i].cls = x
      BY <2>3 DEF EntriesInv
    <3> QED BY <3>2, <3>3
  <2> QED BY <1>1, <2>1, <2>2, <2>3
<1>16. \A x \in Backends : \A i \in DOMAIN entries'[x] :
          /\ stated'[entries'[x][i].cls].backend = x
          /\ \A j \in entries'[x][i].replacedBy : j \in DOMAIN entries'[x] /\ i < j
          /\ \A j \in DOMAIN entries'[x] :
                j \in entries'[x][i].replacedBy <=>
                    entries'[x][i].cls \in stated'[entries'[x][j].cls].replacing
  <2>1. ASSUME NEW x \in Backends, NEW i \in DOMAIN entries'[x]
        PROVE  /\ stated'[entries'[x][i].cls].backend = x
               /\ \A j \in entries'[x][i].replacedBy : j \in DOMAIN entries'[x] /\ i < j
               /\ \A j \in DOMAIN entries'[x] :
                     j \in entries'[x][i].replacedBy <=>
                         entries'[x][i].cls \in stated'[entries'[x][j].cls].replacing
    <3>1. CASE x = b
      BY <1>3, <1>13, <3>1
    <3>2. CASE x # b
      BY <1>14, <3>2
    <3> QED BY <3>1, <3>2
  <2> QED BY <2>1
<1> QED BY <1>2, <1>3, <1>11, <1>12, <1>15, <1>16 DEF EntriesInv

LEMMA EntriesStep ==
    ASSUME OrderInv, EntriesInv, [Next]_vars
    PROVE  EntriesInv'
<1>1. CASE UNCHANGED vars
  BY <1>1, EntriesStay DEF vars, unitVars
<1>2. ASSUME NEW c \in Classes \ Defined,
             NEW bases \in UNION {[1..n -> Visible(ModuleOf[c], Defined)] : n \in 0..2},
             NEW replacing, NEW backend \in Backends, NEW b,
             ImportMapper(c, bases, b, backend, replacing)
      PROVE  EntriesInv'
  <2>1. PICK n \in 0..2 : bases \in [1..n -> Visible(ModuleOf[c], Defined)]
    OBVIOUS
  <2>2. bases \in [1..n -> Defined]
    BY <2>1 DEF Visible
  <2> QED BY <1>2, <2>2, EntriesGrow DEF ImportMapper
<1>3. ASSUME \/ \E k \in Consumers : Subscribe(k)
             \/ \E m \in Modules : EndImport(m) \/ Install(m) \/ Uninstall(m)
      PROVE  EntriesInv'
  <2>1. UNCHANGED <<mro, stated, entries>>
    BY <1>3 DEF Subscribe, EndImport, Install, Uninstall
  <2> QED BY <2>1, EntriesStay
<1> QED BY <1>1, <1>2, <1>3 DEF Next

-----------------------------------------------------------------------------
(* What changes the answers                                                *)

\* Class c is an answer: no candidate of its version replaces it, and every version
\* that has a candidate comes after that one.
IsAnswer(c, b, base, model) ==
    \E x \in Lineage(b) :
        /\ c \in Candidates(x, base, model)
        /\ Over(c) \cap Candidates(x, base, model) = {}
        /\ \A y \in Lineage(b) : Candidates(y, base, model) # {} => y \in Lineage(x)

AnswersInv ==
    \A b \in Backends : \A base, model :
        GetClasses(b, base, model) = {c \in Defined : IsAnswer(c, b, base, model)}

\* The modules of the database have been imported, and the consumers are those of
\* the models.
LoadedInv ==
    /\ installed \subseteq loaded
    /\ DOMAIN consumers = Models \cup {AnyModel}

LEMMA EntriesAnswer == EntriesInv => AnswersInv
<1> SUFFICES ASSUME EntriesInv, NEW b \in Backends, NEW base, NEW model
             PROVE  GetClasses(b, base, model) = {c \in Defined : IsAnswer(c, b, base, model)}
  BY DEF AnswersInv
<1>1. \A x : Able(installed, x, base, model) = Candidates(x, base, model)
  BY DEF Candidates, Able, Matches, IsInstalled
<1>2. \A c : c \in Best(installed, b, base, model) <=> IsAnswer(c, b, base, model)
  BY <1>1 DEF Best, Nearest, Having, Tops, IsAnswer
<1>3. \A c : IsAnswer(c, b, base, model) => c \in Defined
  BY DEF IsAnswer, Candidates
<1>4. GetClasses(b, base, model) = Best(installed, b, base, model)
  BY AnswersBest
<1> QED BY <1>2, <1>3, <1>4

LEMMA LoadedStep ==
    ASSUME LoadedInv, [Next]_vars
    PROVE  LoadedInv'
<1>1. CASE UNCHANGED vars
  BY <1>1 DEF vars, unitVars, LoadedInv
<1>2. ASSUME NEW c, NEW bases, NEW b, NEW backend, NEW replacing,
             ImportMapper(c, bases, b, backend, replacing)
      PROVE  LoadedInv'
  BY <1>2 DEF ImportMapper, ImportUnit, LoadedInv
<1>3. ASSUME NEW k \in Consumers, Subscribe(k) PROVE LoadedInv'
  BY <1>3 DEF Subscribe, LoadedInv
<1>4. ASSUME NEW m \in Modules, EndImport(m) \/ Install(m) \/ Uninstall(m) PROVE LoadedInv'
  BY <1>4 DEF EndImport, Install, Uninstall, LoadedInv
<1> QED BY <1>1, <1>2, <1>3, <1>4 DEF Next

\* The kinds of steps, as far as the answers go.
LEMMA Kinds ==
    ASSUME [Next]_vars
    PROVE  \/ UNCHANGED <<mro, stated>>
           \/ /\ UNCHANGED installed /\ UNCHANGED consumers
              /\ \E c \in Classes \ Defined, n \in 0..2, b \in Backends :
                    \E bases \in [1..n -> Defined] : \E replacing : ImportUnit(c, bases, b, replacing)
<1>1. CASE UNCHANGED vars
  BY <1>1 DEF vars, unitVars
<1>2. ASSUME NEW c \in Classes \ Defined,
             NEW bases \in UNION {[1..n -> Visible(ModuleOf[c], Defined)] : n \in 0..2},
             NEW replacing, NEW backend \in Backends, NEW b,
             ImportMapper(c, bases, b, backend, replacing)
      PROVE  /\ UNCHANGED installed /\ UNCHANGED consumers
             /\ \E n \in 0..2 : bases \in [1..n -> Defined]
             /\ ImportUnit(c, bases, backend, replacing)
  <2>1. PICK n \in 0..2 : bases \in [1..n -> Visible(ModuleOf[c], Defined)]
    OBVIOUS
  <2>2. bases \in [1..n -> Defined]
    BY <2>1 DEF Visible
  <2> QED BY <1>2, <2>2 DEF ImportMapper, ImportUnit
<1>3. ASSUME \/ \E k \in Consumers : Subscribe(k)
             \/ \E m \in Modules : EndImport(m) \/ Install(m) \/ Uninstall(m)
      PROVE  UNCHANGED <<mro, stated>>
  BY <1>3 DEF Subscribe, EndImport, Install, Uninstall
<1>4. CASE Next
  <2>1. CASE \E k \in Consumers : Subscribe(k)
    BY <1>3, <2>1
  <2>2. CASE \E m \in Modules : EndImport(m) \/ Install(m) \/ Uninstall(m)
    BY <1>3, <2>2
  <2>3. CASE \E c \in Classes \ Defined :
                \E bases \in UNION {[1..n -> Visible(ModuleOf[c], Defined)] : n \in 0..2},
                   replacing \in SUBSET Visible(ModuleOf[c], Defined), backend \in Backends,
                   b \in Bodies[c] : ImportMapper(c, bases, b, backend, replacing)
    <3>3. PICK c \in Classes \ Defined :
              \E bases \in UNION {[1..n -> Visible(ModuleOf[c], Defined)] : n \in 0..2},
                 replacing \in SUBSET Visible(ModuleOf[c], Defined), backend \in Backends,
                 b \in Bodies[c] : ImportMapper(c, bases, b, backend, replacing)
      BY <2>3
    <3>1. PICK bases \in UNION {[1..n -> Visible(ModuleOf[c], Defined)] : n \in 0..2},
               replacing \in SUBSET Visible(ModuleOf[c], Defined), backend \in Backends,
               b \in Bodies[c] : ImportMapper(c, bases, b, backend, replacing)
      BY <3>3
    <3>2. /\ UNCHANGED installed /\ UNCHANGED consumers
          /\ \E n \in 0..2 : bases \in [1..n -> Defined]
          /\ ImportUnit(c, bases, backend, replacing)
      BY <1>2, <3>1
    <3> QED BY <3>2
  <2> QED BY <1>4, <2>1, <2>2, <2>3 DEF Next
<1> QED BY <1>1, <1>4

\* A class statement adds a class that is no candidate yet.
LEMMA NewClassSilent ==
    ASSUME OrderInv, EntriesInv, LoadedInv, UNCHANGED installed,
           NEW c \in Classes \ Defined, NEW n \in 0..2, NEW b \in Backends, NEW replacing,
           NEW bases \in [1..n -> Defined], ImportUnit(c, bases, b, replacing),
           NEW x, NEW base, NEW model
    PROVE  /\ Candidates(x, base, model)' = Candidates(x, base, model)
           /\ \A d \in Defined : Over(d) \subseteq Over(d)' /\ Over(d)' \subseteq Over(d) \cup {c}
           /\ c \notin Candidates(x, base, model)
<1>1. Derives(c, bases)
  BY OrderGrows
<1>2. /\ c \notin Defined /\ Defined' = Defined \cup {c}
      /\ \A d \in Defined : Ancestors(d)' = Ancestors(d)
  BY <1>1 DEF Derives
<1>3. /\ \A d \in Defined : stated'[d] = stated[d]
      /\ stated'[c].replacing = replacing /\ replacing \subseteq Defined
  BY <1>2 DEF ImportUnit, Visible
<1>4. ModuleOf[c] \notin installed
  BY DEF ImportUnit, Importing, LoadedInv
<1>5. Candidates(x, base, model)' = Candidates(x, base, model)
  <2>1. \A d \in Defined : Matches(d, base, model)' <=> Matches(d, base, model)
    BY <1>2 DEF Matches, IsInstalled
  <2>2. ~Matches(c, base, model)'
    BY <1>4 DEF Matches, IsInstalled
  <2> QED BY <1>2, <1>3, <2>1, <2>2 DEF Candidates
<1>6. ASSUME NEW d \in Defined PROVE Over(d) \subseteq Over(d)' /\ Over(d)' \subseteq Over(d) \cup {c}
  <2>1. ReplacersOf({d} \cup Over(d)) \subseteq Over(d) /\ Over(d) \subseteq Defined
    BY OverHas
  <2> DEFINE S == Over(d) \cup {c}
  <2>2. \A T : ReplacersOf(T)' = {y \in Defined' : stated'[y].replacing \cap T # {}}
    BY DEF ReplacersOf
  <2>3. ASSUME NEW y \in Defined', stated'[y].replacing \cap ({d} \cup S) # {} PROVE y \in S
    <3>1. CASE y = c
      BY <3>1
    <3>2. CASE y # c
      <4>1. y \in Defined /\ stated'[y] = stated[y]
        BY <1>2, <1>3, <3>2
      <4>2. stated[y].replacing \subseteq Defined
        BY <4>1 DEF EntriesInv
      <4>3. stated[y].replacing \cap ({d} \cup Over(d)) # {}
        BY <1>2, <2>3, <4>1, <4>2
      <4> QED BY <2>1, <4>1, <4>3 DEF ReplacersOf
    <3> QED BY <3>1, <3>2
  <2>4. Over(d)' = {z \in Defined' : \A T \in SUBSET Defined' :
                       ReplacersOf({d} \cup T)' \subseteq T => z \in T}
    BY DEF Over
  <2>5. S \in SUBSET Defined'
    BY <1>2, <2>1
  <2> HIDE DEF S
  <2>7. Over(d)' \subseteq S
    BY <2>2, <2>3, <2>4, <2>5
  <2>8. ASSUME NEW z \in Over(d), NEW T \in SUBSET Defined', ReplacersOf({d} \cup T)' \subseteq T
        PROVE  z \in T
    <3> DEFINE U == T \cap Defined
    <3>1. ASSUME NEW y \in ReplacersOf({d} \cup U) PROVE y \in U
      <4>1. y \in Defined /\ stated[y].replacing \cap ({d} \cup U) # {}
        BY DEF ReplacersOf
      <4>2. stated'[y].replacing \cap ({d} \cup T) # {} /\ y \in Defined'
        BY <1>2, <1>3, <4>1
      <4>3. y \in T
        BY <2>2, <2>8, <4>2
      <4> QED BY <4>1, <4>3
    <3>2. Over(d) \subseteq U
      <4>1. U \in SUBSET Defined /\ ReplacersOf({d} \cup U) \subseteq U
        BY <3>1
      <4> HIDE DEF U
      <4> QED BY <4>1, OverHas
    <3> QED BY <2>8, <3>2
  <2>9. Over(d) \subseteq Over(d)'
    BY <1>2, <2>1, <2>4, <2>8
  <2> QED BY <2>7, <2>9 DEF S
<1>7. c \notin Candidates(x, base, model)
  BY <1>2 DEF Candidates
<1> QED BY <1>5, <1>6, <1>7

\* A step that leaves the modules of the database as they are changes no answer.
LEMMA AnswersStay ==
    ASSUME OrderInv, EntriesInv, LoadedInv, UNCHANGED installed, [Next]_vars,
           NEW b \in Backends, NEW base, NEW model
    PROVE  {c \in Defined : IsAnswer(c, b, base, model)}'
               = {c \in Defined : IsAnswer(c, b, base, model)}
<1> DEFINE Same == \A x : /\ Candidates(x, base, model)' = Candidates(x, base, model)
                          /\ \A d \in Candidates(x, base, model) :
                                Over(d)' \cap Candidates(x, base, model)
                                    = Over(d) \cap Candidates(x, base, model)
<1>1. Same /\ Defined \subseteq Defined'
  <2>1. CASE UNCHANGED <<mro, stated>>
    <3>1. Defined' = Defined /\ \A d : Ancestors(d)' = Ancestors(d)
      BY <2>1 DEF Defined, Ancestors
    <3>2. \A d : Matches(d, base, model)' <=> Matches(d, base, model)
      BY <3>1 DEF Matches, IsInstalled
    <3>3. \A x : Candidates(x, base, model)' = Candidates(x, base, model)
      BY <2>1, <3>1, <3>2 DEF Candidates
    <3>4. \A d : Over(d)' = Over(d)
      BY <2>1, <3>1 DEF Over, ReplacersOf
    <3> QED BY <3>1, <3>3, <3>4
  <2>2. ASSUME NEW c \in Classes \ Defined, NEW n \in 0..2, NEW k \in Backends, NEW replacing,
               NEW bases \in [1..n -> Defined], ImportUnit(c, bases, k, replacing)
        PROVE  Same /\ Defined \subseteq Defined'
    <3>1. Defined' = Defined \cup {c}
      BY <2>2, OrderGrows DEF Derives
    <3>2. ASSUME NEW x PROVE /\ Candidates(x, base, model)' = Candidates(x, base, model)
                             /\ \A d \in Candidates(x, base, model) :
                                    Over(d)' \cap Candidates(x, base, model)
                                        = Over(d) \cap Candidates(x, base, model)
      <4>1. /\ Candidates(x, base, model)' = Candidates(x, base, model)
            /\ \A d \in Defined : Over(d) \subseteq Over(d)' /\ Over(d)' \subseteq Over(d) \cup {c}
            /\ c \notin Candidates(x, base, model)
        BY <2>2, NewClassSilent
      <4>2. Candidates(x, base, model) \subseteq Defined
        BY DEF Candidates
      <4> QED BY <4>1, <4>2
    <3> QED BY <3>1, <3>2
  <2> HIDE DEF Same
  <2> QED BY <2>1, <2>2, Kinds
<1>2. ASSUME NEW c PROVE IsAnswer(c, b, base, model)' <=> IsAnswer(c, b, base, model)
  BY <1>1 DEF IsAnswer
<1>3. \A c : IsAnswer(c, b, base, model) => c \in Defined
  BY DEF IsAnswer, Candidates
<1> QED BY <1>1, <1>2, <1>3

\* A database that installs or removes modules: the classes are the same.
LEMMA AnswersMove ==
    ASSUME UNCHANGED <<mro, stated>>, NEW b \in Backends, NEW base, NEW model, NEW c
    PROVE  /\ installed \subseteq installed' /\ ModuleOf[c] \in installed
                 => (IsAnswer(c, b, base, model)' => IsAnswer(c, b, base, model))
           /\ installed' \subseteq installed /\ ModuleOf[c] \in installed'
                 => (IsAnswer(c, b, base, model) => IsAnswer(c, b, base, model)')
<1>1. Defined' = Defined /\ \A d : Ancestors(d)' = Ancestors(d)
  BY DEF Defined, Ancestors
<1>2. \A d : Over(d)' = Over(d)
  BY <1>1 DEF Over, ReplacersOf
<1> DEFINE Could(x) == {d \in Defined : /\ stated[d].backend = x
                                        /\ base \in Ancestors(d) /\ model = ModelOf[d]}
<1>3. \A x : /\ Candidates(x, base, model) = {d \in Could(x) : ModuleOf[d] \in installed}
             /\ Candidates(x, base, model)' = {d \in Could(x) : ModuleOf[d] \in installed'}
  <2>1. \A x : Candidates(x, base, model) = {d \in Could(x) : ModuleOf[d] \in installed}
    BY DEF Candidates, Matches, IsInstalled
  <2>2. \A d : Matches(d, base, model)'
                   <=> ModuleOf[d] \in installed' /\ base \in Ancestors(d) /\ model = ModelOf[d]
    BY <1>1 DEF Matches, IsInstalled
  <2>3. \A x : Candidates(x, base, model)' = {d \in Could(x) : ModuleOf[d] \in installed'}
    BY <1>1, <2>2 DEF Candidates
  <2> QED BY <2>1, <2>3
<1> HIDE DEF Could
<1>4. ASSUME installed \subseteq installed', ModuleOf[c] \in installed, IsAnswer(c, b, base, model)'
      PROVE  IsAnswer(c, b, base, model)
  <2>1. PICK x \in Lineage(b) :
           /\ c \in Candidates(x, base, model)' /\ Over(c) \cap Candidates(x, base, model)' = {}
           /\ \A y \in Lineage(b) : Candidates(y, base, model)' # {} => y \in Lineage(x)
    BY <1>2, <1>4 DEF IsAnswer
  <2>2. \A y : Candidates(y, base, model) \subseteq Candidates(y, base, model)'
    BY <1>3, <1>4
  <2>3. c \in Candidates(x, base, model)
    BY <1>3, <1>4, <2>1
  <2>4. \A y \in Lineage(b) : Candidates(y, base, model) # {} => y \in Lineage(x)
    BY <2>1, <2>2
  <2> QED BY <2>1, <2>2, <2>3, <2>4 DEF IsAnswer
<1>5. ASSUME installed' \subseteq installed, ModuleOf[c] \in installed', IsAnswer(c, b, base, model)
      PROVE  IsAnswer(c, b, base, model)'
  <2>1. PICK x \in Lineage(b) :
           /\ c \in Candidates(x, base, model) /\ Over(c) \cap Candidates(x, base, model) = {}
           /\ \A y \in Lineage(b) : Candidates(y, base, model) # {} => y \in Lineage(x)
    BY <1>5 DEF IsAnswer
  <2>2. \A y : Candidates(y, base, model)' \subseteq Candidates(y, base, model)
    BY <1>3, <1>5
  <2>3. c \in Candidates(x, base, model)'
    BY <1>3, <1>5, <2>1
  <2>4. \A y \in Lineage(b) : Candidates(y, base, model)' # {} => y \in Lineage(x)
    BY <2>1, <2>2
  <2>5. Over(c)' \cap Candidates(x, base, model)' = {}
    BY <1>2, <2>1, <2>2
  <2> QED BY <2>1, <2>3, <2>4, <2>5 DEF IsAnswer
<1> QED BY <1>4, <1>5

\* No step without an installation adds a consumer that is called.
LEMMA FiredStays ==
    ASSUME LoadedInv, UNCHANGED installed, [Next]_vars, NEW model \in Models
    PROVE  Fired(model)' \subseteq Fired(model)
<1> DEFINE For(n) == {k \in consumers[n] : ModuleOf[k] \in installed}
<1>1. \A n \in {AnyModel, model} : ConsumersFor(n) = For(n)
  BY DEF ConsumersFor, IsInstalled
<1>2. \A n \in {AnyModel, model} : {k \in consumers'[n] : ModuleOf[k] \in installed} \subseteq For(n)
  <2>1. CASE UNCHANGED consumers
    BY <2>1
  <2>2. ASSUME NEW k \in Consumers, Subscribe(k), NEW n \in {AnyModel, model}
        PROVE  {j \in consumers'[n] : ModuleOf[j] \in installed} \subseteq For(n)
    <3>1. ModuleOf[k] \notin installed
      BY <2>2 DEF Subscribe, Importing, LoadedInv
    <3>2. n \in DOMAIN consumers
      BY DEF LoadedInv
    <3>3. consumers'[n] = Unsubscribed(Replaced[k], NamesOf[k])[n]
                              \cup (IF n \in NamesOf[k] THEN {k} ELSE {})
      BY <2>2, <3>2 DEF Subscribe
    <3>4. Unsubscribed(Replaced[k], NamesOf[k])[n] \subseteq consumers[n]
      BY <3>2 DEF Unsubscribed
    <3> QED BY <3>1, <3>3, <3>4
  <2>3. UNCHANGED consumers \/ \E k \in Consumers : Subscribe(k)
    <3>1. CASE UNCHANGED vars
      BY <3>1 DEF vars, unitVars
    <3>2. ASSUME NEW c, NEW bases, NEW body_1, NEW backend, NEW replacing,
                 ImportMapper(c, bases, body_1, backend, replacing)
          PROVE  UNCHANGED consumers
      BY <3>2 DEF ImportMapper, ImportUnit
    <3>3. ASSUME NEW m \in Modules, EndImport(m) \/ Install(m) \/ Uninstall(m)
          PROVE  UNCHANGED consumers
      BY <3>3 DEF EndImport, Install, Uninstall
    <3> QED BY <3>1, <3>2, <3>3 DEF Next
  <2> QED BY <2>1, <2>2, <2>3
<1>3. \A n : ConsumersFor(n)' = {k \in consumers'[n] : ModuleOf[k] \in installed}
  BY DEF ConsumersFor, IsInstalled
<1>4. Fired(model) = For(AnyModel) \cup For(model)
  BY <1>1 DEF Fired, Fire, HasConsumerFor
<1>5. Fired(model)' \subseteq ConsumersFor(AnyModel)' \cup ConsumersFor(model)'
  BY DEF Fired, Fire, HasConsumerFor
<1> QED BY <1>2, <1>3, <1>4, <1>5

LEMMA AnswersStep ==
    ASSUME OrderInv, EntriesInv, LoadedInv, AnswersInv, AnswersInv', [Next]_vars,
           NEW b \in Backends, NEW base \in Defined \cup {Unit}, NEW model \in Models
    PROVE  LET before == GetClasses(b, base, model)
               after == GetClasses(b, base, model)'
           IN  /\ installed' = installed =>
                      after = before /\ Fired(model)' \subseteq Fired(model)
               /\ installed \subseteq installed' =>
                      \A c \in after \ before : ModuleOf[c] \in installed' \ installed
               /\ installed' \subseteq installed =>
                      {c \in before : ModuleOf[c] \in installed'} \subseteq after
<1> DEFINE before == GetClasses(b, base, model)
           after == GetClasses(b, base, model)'
<1>1. before = {c \in Defined : IsAnswer(c, b, base, model)}
  BY DEF AnswersInv
<1>2. after = {c \in Defined' : IsAnswer(c, b, base, model)'}
  BY DEF AnswersInv
<1>3. ASSUME installed' = installed PROVE after = before /\ Fired(model)' \subseteq Fired(model)
  BY <1>1, <1>2, <1>3, AnswersStay, FiredStays
<1>4. CASE installed' = installed
  <2> HIDE DEF before, after
  <2>1. after = before /\ Fired(model)' \subseteq Fired(model)
    BY <1>3, <1>4
  <2> QED BY <2>1 DEF before, after
<1>5. CASE installed' # installed
  <2>1. UNCHANGED <<mro, stated>>
    BY <1>5, Kinds
  <2>2. Defined' = Defined
    BY <2>1 DEF Defined
  <2>3. ASSUME installed \subseteq installed', NEW c \in after \ before
        PROVE  ModuleOf[c] \in installed' \ installed
    <3>1. IsAnswer(c, b, base, model)' /\ ~IsAnswer(c, b, base, model)
      BY <1>1, <1>2, <2>2
    <3>2. ModuleOf[c] \in installed'
      <4>1. PICK x : c \in Candidates(x, base, model)'
        BY <3>1 DEF IsAnswer
      <4> QED BY <4>1 DEF Candidates, Matches, IsInstalled
    <3>3. ModuleOf[c] \notin installed
      BY <2>1, <2>3, <3>1, AnswersMove
    <3> QED BY <3>2, <3>3
  <2>4. ASSUME installed' \subseteq installed, NEW c \in before, ModuleOf[c] \in installed'
        PROVE  c \in after
    <3>1. IsAnswer(c, b, base, model) /\ c \in Defined'
      BY <1>1, <2>2
    <3>2. IsAnswer(c, b, base, model)'
      BY <2>1, <2>4, <3>1, AnswersMove
    <3> QED BY <1>2, <3>1, <3>2
  <2> HIDE DEF before, after
  <2>5. /\ installed \subseteq installed' =>
               \A c \in after \ before : ModuleOf[c] \in installed' \ installed
        /\ installed' \subseteq installed =>
               {c \in before : ModuleOf[c] \in installed'} \subseteq after
    BY <2>3, <2>4
  <2> QED BY <1>5, <2>5 DEF before, after
<1> QED BY <1>4, <1>5

-----------------------------------------------------------------------------
RegistryInv == OrderInv /\ EntriesInv /\ LoadedInv

LEMMA RegistryHolds == Spec => []RegistryInv
<1>1. Init => RegistryInv
  <2>1. Init => InitUnits
    BY DEF Init
  <2>2. Init => LoadedInv
    BY <2>1 DEF InitUnits, LoadedInv
  <2> QED BY <2>1, <2>2, OrderAtFirst, EntriesAtFirst DEF RegistryInv
<1>2. MapInv /\ RegistryInv /\ [Next]_vars => RegistryInv'
  <2>1. MapInv /\ [Next]_vars => OrderInv'
    BY MapStep DEF MapInv
  <2> QED BY <2>1, EntriesStep, LoadedStep DEF RegistryInv
<1>3. Init => MapInv
  BY MapAtFirst
<1>4. MapInv /\ [Next]_vars => MapInv'
  BY MapStep
<1> QED BY <1>1, <1>2, <1>3, <1>4, PTL DEF Spec

\* Whatever the modules, the versions and what replaces what: the classes found for
\* a version are the installed ones that no installed one replaces, of the nearest
\* version that has any.
THEOREM RightClassesFound == Spec => []UnitsFound
<1>1. RegistryInv => UnitsFound
  BY EntriesFind DEF RegistryInv
<1> QED BY <1>1, RegistryHolds, PTL

\* What a database is answered changes only with the modules it installs and removes.
THEOREM AnswersByModules == Spec => AnswersFollowModules
<1>1. RegistryInv => AnswersInv
  BY EntriesAnswer DEF RegistryInv
<1> DEFINE Follow ==
       \A b \in Backends, base \in Defined \cup {Unit}, model \in Models :
          LET before == GetClasses(b, base, model)
              after == GetClasses(b, base, model)'
          IN  /\ installed' = installed =>
                     after = before /\ Fired(model)' \subseteq Fired(model)
              /\ installed \subseteq installed' =>
                     \A c \in after \ before : ModuleOf[c] \in installed' \ installed
              /\ installed' \subseteq installed =>
                     {c \in before : ModuleOf[c] \in installed'} \subseteq after
<1>2. RegistryInv /\ AnswersInv /\ AnswersInv' /\ [Next]_vars => [Follow]_unitVars
  BY AnswersStep DEF RegistryInv
<1> QED BY <1>1, <1>2, RegistryHolds, PTL DEF Spec, AnswersFollowModules

=============================================================================
