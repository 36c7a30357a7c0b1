------------------------ MODULE MagentoOrdersProofs ------------------------
(***************************************************************************)
(* The orders of Magento, for any chain of editions and any number of      *)
(* jobs: an edited order is flagged, it is not at work together with the   *)
(* one it was edited to, and an open order is not shown as canceled.       *)
(***************************************************************************)
EXTENDS MagentoOrders, FiniteSetTheorems, SequenceTheorems, TLAPS

-----------------------------------------------------------------------------
(* The inductive invariant                                                 *)

Statuses == {"none", "pending", "processing", "complete", "canceled"}
SaleRows == [state : {"draft", "progress", "except", "done", "cancel"}, canceled : BOOLEAN,
             resolved : BOOLEAN, ignore : BOOLEAN, paid : BOOLEAN, documents : BOOLEAN,
             kept : BOOLEAN]
JobRows == [task : {"import", "state"}, order : Orders, only : BOOLEAN,
            step : {"pending", "write", "send", "bind"}, late : BOOLEAN,
            seen : SUBSET Orders, conflict : BOOLEAN, paid : BOOLEAN, status : Statuses]

RowTypes ==
    /\ magento \in [Orders -> [state : {"none", "new", "canceled"}, status : Statuses,
                               paid : BOOLEAN]]
    /\ sales \in Seq(SaleRows)
    /\ binding \in [Orders -> [sale : Nat, parent : Orders \cup {NoOrder}]]
    /\ jobs \in Seq(JobRows)
    /\ listed \subseteq Orders /\ raced \subseteq {"import", "state"}

\* What one job may hold, and what is so of every binding.
JobShape(t) ==
    /\ t.step = "write" => t.task = "import" /\ t.seen \subseteq Bound
                           /\ \A p \in t.seen : Place(p) < Place(t.order)
    /\ t.step \in {"send", "bind"} => t.task = "state"
    /\ t.task = "state" => t.order \in Bound
    /\ t.step = "send" /\ t.only => t.status = "canceled"

\* An order is listed once, and its job is there until the order is bound.
ImportsOnce ==
    /\ Bound \subseteq listed
    /\ \A i, k \in DOMAIN jobs : jobs[i].task = "import" =>
          /\ jobs[i].order \in listed \ Bound
          /\ jobs[k].task = "import" /\ jobs[k].order = jobs[i].order => i = k

Bindings ==
    /\ \A o \in Orders :
          /\ binding[o].sale <= Len(sales)
          /\ binding[o].parent # NoOrder =>
                o \in Bound /\ binding[o].parent \in Bound
                /\ Place(binding[o].parent) < Place(o)
    /\ \A o, p \in Bound : binding[o].sale = binding[p].sale => o = p
    /\ \A j \in DOMAIN jobs : JobShape(jobs[j])

\* On Magento each order but the last one is canceled.
EditedOnce ==
    /\ \A p, o \in Orders : Place(p) < Place(o) /\ magento[o].state # "none"
                               => magento[p].state = "canceled"
    /\ \A o \in Orders : o \in Bound \cup listed => magento[o].state # "none"

\* The flags of a sale order.
FlagsFit(sale) ==
    /\ sale.resolved => sale.canceled
    /\ sale.canceled /\ sale.state = "cancel" => sale.resolved
    /\ sale.resolved => sale.state = "cancel" \/ sale.kept
Flags == \A s \in DOMAIN sales : FlagsFit(sales[s])

RowsInv == RowTypes /\ Bindings /\ ImportsOnce /\ EditedOnce /\ Flags

\* As long as imports run one after the other: the one at work has found all
\* that are bound, each binding has the nearest of those before as its parent,
\* and an order that is at work was confirmed when those before were resolved.
ImportsAlone ==
    \A i, j \in DOMAIN jobs : jobs[i].step = "write" /\ jobs[j].step = "write" => i = j
FoundAll == \A j \in DOMAIN jobs : jobs[j].step = "write" => jobs[j].seen = Bound
Linked == \A o \in Bound : binding[o].parent = Nearest(o, Bound)
Resolved ==
    \A p, o \in Bound : Place(p) < Place(o) =>
        /\ Sale(p).canceled
        /\ AtWork(Sale(o)) => Sale(o).ignore \/ Sale(p).resolved
LinkInv == "import" \notin raced => ImportsAlone /\ FoundAll /\ Linked /\ Resolved

\* As long as jobs that tell a state run one after the other: where an open order
\* is shown as canceled, or will be, a job that corrects it is there.
Tells(t, o) == t.order = o /\ t.step = "send" /\ t.status = "canceled"
Corrects(t, o) ==
    /\ t.task = "state" /\ t.order = o
    /\ \/ t.step = "pending" /\ ~t.only
       \/ t.step = "send" /\ t.status # "canceled"
StatesAlone ==
    \A i, j \in DOMAIN jobs :
        {jobs[i].step, jobs[j].step} \subseteq {"send", "bind"} => i = j
Corrected ==
    \A o \in Bound :
        /\ magento[o].state = "new" /\ Sale(o).state # "cancel"
        /\ magento[o].status = "canceled" \/ \E j \in DOMAIN jobs : Tells(jobs[j], o)
        => \E i \in DOMAIN jobs : Corrects(jobs[i], o)
ShownInv ==
    /\ \A o \in Orders \ Bound : magento[o].state = "new" => magento[o].status = "pending"
    /\ "state" \notin raced => StatesAlone /\ Corrected

-----------------------------------------------------------------------------
(* Places in the chain                                                     *)

LEMMA Places ==
    /\ \A o \in Orders : Place(o) \in 1..Len(Chain) /\ Place(o) \in Nat /\ Place(o) >= 1
                         /\ Chain[Place(o)] = o
    /\ \A o, p \in Orders : Place(o) = Place(p) => o = p
    /\ \A o \in Orders : Place(o) > 1 => /\ Chain[Place(o) - 1] \in Orders
                                         /\ Place(Chain[Place(o) - 1]) = Place(o) - 1
<1>1. Chain \in Seq(Orders) /\ DOMAIN Chain = 1..Len(Chain) /\ Len(Chain) \in Nat
      /\ \A m, n \in DOMAIN Chain : Chain[m] = Chain[n] => m = n
  BY OrdersAssumption DEF IsInjective
<1>2. ASSUME NEW o \in Orders PROVE Place(o) \in DOMAIN Chain /\ Chain[Place(o)] = o
  <2>1. \E n \in DOMAIN Chain : Chain[n] = o
    BY DEF Orders, Range
  <2> QED BY <2>1 DEF Place
<1>3. ASSUME NEW o \in Orders, Place(o) > 1
      PROVE  Chain[Place(o) - 1] \in Orders /\ Place(Chain[Place(o) - 1]) = Place(o) - 1
  <2>1. Place(o) - 1 \in DOMAIN Chain
    BY <1>1, <1>2, <1>3
  <2>2. Chain[Place(o) - 1] \in Orders
    BY <1>1, <2>1
  <2> QED BY <1>1, <1>2, <2>1, <2>2
<1> QED BY <1>1, <1>2, <1>3

\* Of a set of orders that is not empty, one is the last.
LEMMA LastPlace ==
    ASSUME NEW S \in SUBSET Orders, S # {}
    PROVE  \E p \in S : \A q \in S : Place(q) <= Place(p)
<1> DEFINE Gap(p) == Len(Chain) - Place(p)
           R == OpToRel(<, Nat)
           T == {Gap(p) : p \in S}
<1>1. Len(Chain) \in Nat
  BY OrdersAssumption
<1>2. \A p \in S : Gap(p) \in Nat
  BY <1>1, Places
<1>3. T \in SUBSET Nat /\ T # {}
  BY <1>2
<1>4. PICK g \in T : \A y \in T : ~(<<y, g>> \in R)
  BY <1>3, WFMin, NatLessThanWellFounded
<1>5. PICK p \in S : g = Gap(p)
  OBVIOUS
<1>6. ASSUME NEW q \in S PROVE Place(q) <= Place(p)
  <2>1. Gap(q) \in T /\ Gap(q) \in Nat /\ g \in Nat
    BY <1>2, <1>5
  <2>2. ~(Gap(q) < g)
    BY <1>4, <2>1 DEF OpToRel
  <2>3. Place(q) \in Nat /\ Place(p) \in Nat
    BY Places
  <2> QED BY <1>1, <1>5, <2>2, <2>3
<1> QED BY <1>6

LEMMA NearestIs ==
    ASSUME NEW o \in Orders, NEW ps \in SUBSET Orders
    PROVE  /\ Nearest(o, ps) = NoOrder => \A q \in ps : ~(Place(q) < Place(o))
           /\ Nearest(o, ps) # NoOrder =>
                 /\ Nearest(o, ps) \in ps /\ Place(Nearest(o, ps)) < Place(o)
                 /\ \A q \in ps : Place(q) < Place(o) => Place(q) <= Place(Nearest(o, ps))
<1> DEFINE lower == {p \in ps : Place(p) < Place(o)}
<1>1. CASE lower = {}
  BY <1>1 DEF Nearest
<1>2. CASE lower # {}
  <2>1. \E p \in lower : \A q \in lower : Place(q) <= Place(p)
    BY <1>2, LastPlace
  <2> DEFINE n == CHOOSE p \in lower : \A q \in lower : Place(q) <= Place(p)
  <2>2. n \in lower /\ \A q \in lower : Place(q) <= Place(n)
    BY <2>1
  <2>3. Nearest(o, ps) = n
    BY <1>2 DEF Nearest
  <2>4. n # NoOrder
    BY <2>2, OrdersAssumption
  <2> HIDE DEF n
  <2> QED BY <2>2, <2>3, <2>4
<1> QED BY <1>1, <1>2

\* Orders that come later change nothing.
LEMMA NearestKept ==
    ASSUME NEW o \in Orders, NEW ps \in SUBSET Orders, NEW qs \in SUBSET Orders,
           \A q \in Orders : Place(q) < Place(o) => (q \in ps <=> q \in qs)
    PROVE  Nearest(o, ps) = Nearest(o, qs)
<1> DEFINE Lower(S) == {p \in S : Place(p) < Place(o)}
           Last1(S) == IF S = {} THEN NoOrder
                       ELSE CHOOSE p \in S : \A q \in S : Place(q) <= Place(p)
<1>1. Nearest(o, ps) = Last1(Lower(ps)) /\ Nearest(o, qs) = Last1(Lower(qs))
  BY DEF Nearest
<1>2. Lower(ps) = Lower(qs)
  OBVIOUS
<1> HIDE DEF Lower, Last1
<1> QED BY <1>1, <1>2

\* The nearest ones lead to all that were bound before.
LEMMA AllParents ==
    ASSUME RowTypes, Linked, NEW p \in Bound, NEW o \in Bound, Place(p) < Place(o)
    PROVE  p \in Parents(o)
<1> USE DEF Bound
<1>1. SUFFICES ASSUME NEW S \in SUBSET Orders,
                      \A q \in S \cup {o} : binding[q].parent \in S \cup {NoOrder},
                      p \notin S
               PROVE  FALSE
  BY DEF Parents
<1> DEFINE R == OpToRel(<, Nat)
           T == {Place(q) : q \in {x \in Bound \cap (S \cup {o}) : Place(p) < Place(x)}}
<1>2. T \in SUBSET Nat /\ Place(o) \in T
  BY Places
<1>3. PICK n \in T : \A y \in T : ~(<<y, n>> \in R)
  BY <1>2, WFMin, NatLessThanWellFounded
<1>4. PICK q \in Bound \cap (S \cup {o}) : Place(p) < Place(q) /\ n = Place(q)
  OBVIOUS
<1>5. binding[q].parent = Nearest(q, Bound) /\ binding[q].parent \in S \cup {NoOrder}
  BY <1>1, <1>4 DEF Linked
<1> DEFINE r == Nearest(q, Bound)
<1>6. r # NoOrder /\ r \in Bound /\ Place(r) < Place(q) /\ Place(p) <= Place(r)
  BY <1>4, NearestIs
<1>7. r \in S /\ r # p
  BY <1>1, <1>5, <1>6
<1>8. Place(p) < Place(r)
  BY <1>6, <1>7, Places
<1>9. Place(r) \in T /\ Place(r) \in Nat /\ n \in Nat /\ Place(r) < n
  BY <1>4, <1>6, <1>7, <1>8, Places
<1> QED BY <1>3, <1>9 DEF OpToRel

-----------------------------------------------------------------------------
(* Lists of jobs                                                           *)

\* The same job, but for what other transactions have written.
Like(t, u) ==
    /\ t.task = u.task /\ t.order = u.order /\ t.only = u.only /\ t.step = u.step
    /\ t.seen = u.seen /\ t.status = u.status

\* Where each job of the next state comes from, 0 for a new one: job j is gone or
\* in At, the new ones are in New, the others are as they were.
JobsMove(old, j, At, New) ==
    /\ old \in [DOMAIN jobs' -> {0} \cup DOMAIN jobs]
    /\ \A i, k \in DOMAIN jobs' : old[i] = old[k] /\ old[i] # 0 => i = k
    /\ \A k \in DOMAIN jobs \ {j} : \E i \in DOMAIN jobs' : old[i] = k
    /\ \A i \in DOMAIN jobs' :
          /\ old[i] # 0 /\ old[i] # j => Like(jobs'[i], jobs[old[i]])
          /\ old[i] # 0 /\ old[i] = j => jobs'[i] \in At
          /\ old[i] = 0 => jobs'[i] \in New

LEMMA RemovedAt ==
    ASSUME NEW S, NEW s \in Seq(S), NEW j \in DOMAIN s
    PROVE  /\ RemoveAt(s, j) \in Seq(S) /\ Len(RemoveAt(s, j)) = Len(s) - 1
           /\ \A i \in 1..(Len(s) - 1) :
                 RemoveAt(s, j)[i] = IF i < j THEN s[i] ELSE s[i + 1]
<1>1. DOMAIN s = 1..Len(s) /\ Len(s) \in Nat /\ j \in 1..Len(s)
  OBVIOUS
<1> DEFINE a == SubSeq(s, 1, j - 1)
           b == SubSeq(s, j + 1, Len(s))
<1>2. a \in Seq(S) /\ Len(a) = j - 1 /\ \A i \in 1..(j - 1) : a[i] = s[i]
  <2>1. 1 \in 1..(Len(s) + 1) /\ j - 1 \in 0..Len(s) /\ \A i \in 1..(j - 1) : i \in 1..Len(s)
    BY <1>1
  <2> QED BY <1>1, <2>1, SubSeqProperties
<1>3. b \in Seq(S) /\ Len(b) = Len(s) - j /\ \A i \in 1..(Len(s) - j) : b[i] = s[j + i]
  <2> DEFINE n == Len(s)
             m == j + 1
  <2>1. n \in Nat /\ j \in 1..n /\ m = j + 1
    BY <1>1
  <2>2. /\ SubSeq(s, m, n) \in Seq(S)
        /\ Len(SubSeq(s, m, n)) = IF m <= n THEN n - m + 1 ELSE 0
        /\ \A i \in 1..(n - m + 1) : SubSeq(s, m, n)[i] = s[m + i - 1]
    <3>1. m \in Int /\ n \in Int /\ \A i \in m..n : i \in 1..n
      <4> HIDE DEF n, m
      <4> QED BY <2>1
    <3>2. \A i \in 1..n : s[i] \in S
      BY <1>1
    <3>3. \A i \in m..n : s[i] \in S
      BY <3>1, <3>2
    <3> HIDE DEF m, n
    <3> QED BY <3>1, <3>3, SubSeqProperties
  <2>3. (IF m <= n THEN n - m + 1 ELSE 0) = n - j /\ n - m + 1 = n - j
        /\ \A i \in 1..(n - j) : m + i - 1 = j + i
    <3> HIDE DEF n, m
    <3> QED BY <2>1
  <2>4. b = SubSeq(s, m, n)
    OBVIOUS
  <2> HIDE DEF n, m, b
  <2>5. b \in Seq(S) /\ Len(b) = n - j /\ \A i \in 1..(n - j) : b[i] = s[j + i]
    BY <2>2, <2>3, <2>4
  <2> QED BY <2>5 DEF n
<1>4. RemoveAt(s, j) = a \o b
  BY DEF RemoveAt
<1> HIDE DEF a, b
<1>5. /\ a \o b \in Seq(S) /\ Len(a \o b) = Len(a) + Len(b)
      /\ \A i \in 1..(Len(a) + Len(b)) :
            (a \o b)[i] = IF i <= Len(a) THEN a[i] ELSE b[i - Len(a)]
  BY <1>2, <1>3, ConcatProperties
<1>6. ASSUME NEW i \in 1..(Len(s) - 1)
      PROVE  (a \o b)[i] = IF i < j THEN s[i] ELSE s[i + 1]
  <2>1. CASE i < j
    BY <1>1, <1>2, <1>3, <1>5, <2>1
  <2>2. CASE ~(i < j)
    <3> DEFINE la == Len(a)
               lb == Len(b)
               n == Len(s)
    <3>1. la = j - 1 /\ lb = n - j /\ n \in Nat /\ j \in 1..n /\ i \in 1..(n - 1)
      BY <1>1, <1>2, <1>3
    <3>2. (a \o b)[i] = IF i <= la THEN a[i] ELSE b[i - la]
      <4>1. la + lb = n - 1
        <5> HIDE DEF la, lb, n
        <5> QED BY <3>1
      <4> QED BY <1>5, <4>1
    <3>3. \A k \in 1..(n - j) : b[k] = s[j + k]
      BY <1>3
    <3> HIDE DEF la, lb, n
    <3>4. i - la \in 1..(n - j) /\ j + (i - la) = i + 1 /\ ~(i <= la)
      BY <2>2, <3>1
    <3> QED BY <2>2, <3>2, <3>3, <3>4
  <2> QED BY <2>1, <2>2
<1> QED BY <1>1, <1>2, <1>3, <1>4, <1>5, <1>6

\* These jobs are all but j, each where k says.
Renumbered(js, j, k) ==
    /\ k \in [DOMAIN js -> DOMAIN jobs \ {j}]
    /\ \A m, n \in DOMAIN js : k[m] = k[n] => m = n
    /\ \A x \in DOMAIN jobs \ {j} : \E n \in DOMAIN js : k[n] = x
    /\ \A n \in DOMAIN js : Like(js[n], jobs[k[n]])

LEMMA Joined ==
    ASSUME RowTypes, NEW j, NEW js \in Seq(JobRows), NEW new \in Seq(JobRows),
           NEW k, Renumbered(js, j, k), jobs' = js \o new
    PROVE  /\ jobs' \in Seq(JobRows)
           /\ \E old : JobsMove(old, j, {}, Range(new))
           /\ \A n \in DOMAIN new : \E i \in DOMAIN jobs' : jobs'[i] = new[n]
<1> USE DEF Renumbered
<1> DEFINE old == [i \in DOMAIN jobs' |-> IF i <= Len(js) THEN k[i] ELSE 0]
<1>1. /\ jobs' \in Seq(JobRows) /\ Len(jobs') = Len(js) + Len(new)
      /\ \A i \in 1..(Len(js) + Len(new)) :
            jobs'[i] = IF i <= Len(js) THEN js[i] ELSE new[i - Len(js)]
      /\ Len(js) \in Nat /\ Len(new) \in Nat /\ DOMAIN js = 1..Len(js)
      /\ DOMAIN new = 1..Len(new) /\ DOMAIN jobs' = 1..Len(jobs')
  BY ConcatProperties
<1>2. DOMAIN jobs = 1..Len(jobs) /\ Len(jobs) \in Nat
  BY DEF RowTypes
<1>3. ASSUME NEW i \in DOMAIN jobs'
      PROVE  \/ i \in DOMAIN js /\ i <= Len(js) /\ old[i] = k[i] /\ jobs'[i] = js[i]
                /\ old[i] # 0 /\ old[i] # j /\ old[i] \in DOMAIN jobs
             \/ ~(i <= Len(js)) /\ old[i] = 0 /\ i - Len(js) \in DOMAIN new
                /\ jobs'[i] = new[i - Len(js)]
  <2>1. CASE i <= Len(js)
    <3>1. i \in DOMAIN js
      BY <1>1, <2>1
    <3> QED BY <1>1, <1>2, <2>1, <3>1
  <2>2. CASE ~(i <= Len(js))
    BY <1>1, <2>2
  <2> QED BY <2>1, <2>2
<1>4. \A n \in DOMAIN js : n \in DOMAIN jobs' /\ old[n] = k[n]
  BY <1>1
<1>5. \A n \in DOMAIN new : n + Len(js) \in DOMAIN jobs' /\ jobs'[n + Len(js)] = new[n]
  <2> TAKE n \in DOMAIN new
  <2>1. n + Len(js) \in DOMAIN jobs' /\ ~(n + Len(js) <= Len(js)) /\ (n + Len(js)) - Len(js) = n
    BY <1>1
  <2> QED BY <1>1, <2>1
<1> HIDE DEF old
<1>6. old \in [DOMAIN jobs' -> {0} \cup DOMAIN jobs]
  <2>1. old = [i \in DOMAIN jobs' |-> old[i]]
    BY DEF old
  <2> QED BY <1>3, <2>1
<1>7. JobsMove(old, j, {}, Range(new))
  <2>1. ASSUME NEW i \in DOMAIN jobs', NEW m \in DOMAIN jobs', old[i] = old[m], old[i] # 0
        PROVE  i = m
    <3>1. i \in DOMAIN js /\ m \in DOMAIN js /\ k[i] = k[m]
      BY <1>3, <2>1
    <3> QED BY <3>1
  <2>2. \A x \in DOMAIN jobs \ {j} : \E i \in DOMAIN jobs' : old[i] = x
    BY <1>4
  <2>3. ASSUME NEW i \in DOMAIN jobs'
        PROVE  /\ old[i] # 0 /\ old[i] # j => Like(jobs'[i], jobs[old[i]])
               /\ old[i] # 0 /\ old[i] = j => jobs'[i] \in {}
               /\ old[i] = 0 => jobs'[i] \in Range(new)
    <3>1. \A n \in DOMAIN new : new[n] \in Range(new)
      BY DEF Range
    <3> QED BY <1>3, <3>1
  <2> QED BY <1>6, <2>1, <2>2, <2>3 DEF JobsMove
<1> QED BY <1>1, <1>5, <1>7

LEMMA WroteLike ==
    ASSUME NEW js \in Seq(JobRows), NEW rows
    PROVE  /\ Wrote(js, rows) \in Seq(JobRows) /\ DOMAIN Wrote(js, rows) = DOMAIN js
           /\ \A i \in DOMAIN js : Like(Wrote(js, rows)[i], js[i])
<1> DEFINE one(i) == IF js[i].step = "pending" THEN js[i]
                     ELSE [js[i] EXCEPT !.conflict = @ \/ rows \cap Writes(js[i]) # {}]
<1>1. DOMAIN js = 1..Len(js) /\ Len(js) \in Nat
  OBVIOUS
<1>2. \A i \in 1..Len(js) : one(i) \in JobRows /\ Like(one(i), js[i])
  <2> TAKE i \in 1..Len(js)
  <2>1. js[i] \in JobRows
    OBVIOUS
  <2> DEFINE c == js[i].conflict \/ rows \cap Writes(js[i]) # {}
             v == [js[i] EXCEPT !.conflict = c]
  <2>2. c \in BOOLEAN
    OBVIOUS
  <2> HIDE DEF c
  <2>3. v \in JobRows /\ Like(v, js[i])
    BY <2>1, <2>2 DEF JobRows, Like
  <2>4. one(i) = js[i] \/ one(i) = v
    BY DEF c
  <2>5. Like(js[i], js[i])
    BY DEF Like
  <2> QED BY <2>1, <2>3, <2>4, <2>5
<1>3. Wrote(js, rows) = [i \in 1..Len(js) |-> one(i)]
  BY <1>1 DEF Wrote
<1> HIDE DEF one
<1>4. [i \in 1..Len(js) |-> one(i)] \in Seq(JobRows)
  BY <1>1, <1>2, IsASeq
<1> QED BY <1>1, <1>2, <1>3, <1>4

LEMMA LikeItself == \A t : Like(t, t)
BY DEF Like

LEMMA MoveWrote ==
    ASSUME RowTypes, NEW rows, NEW new \in Seq(JobRows), jobs' = Wrote(jobs, rows) \o new
    PROVE  /\ jobs' \in Seq(JobRows)
           /\ \E old : JobsMove(old, 0, {}, Range(new))
           /\ \A n \in DOMAIN new : \E i \in DOMAIN jobs' : jobs'[i] = new[n]
<1> DEFINE js == Wrote(jobs, rows)
           k == [i \in DOMAIN js |-> i]
<1>1. jobs \in Seq(JobRows) /\ DOMAIN jobs = 1..Len(jobs)
  BY DEF RowTypes
<1>2. js \in Seq(JobRows) /\ DOMAIN js = DOMAIN jobs
      /\ \A i \in DOMAIN jobs : Like(js[i], jobs[i])
  BY <1>1, WroteLike
<1> HIDE DEF js
<1>3. DOMAIN jobs \ {0} = DOMAIN jobs
  BY <1>1
<1>4. k \in [DOMAIN js -> DOMAIN jobs \ {0}]
  BY <1>2, <1>3
<1>5. /\ \A m, n \in DOMAIN js : k[m] = k[n] => m = n
      /\ \A x \in DOMAIN jobs \ {0} : \E n \in DOMAIN js : k[n] = x
      /\ \A n \in DOMAIN js : Like(js[n], jobs[k[n]])
  BY <1>2
<1>6. jobs' = js \o new
  BY DEF js
<1> HIDE DEF k
<1>7. Renumbered(js, 0, k)
  BY <1>4, <1>5 DEF Renumbered
<1> QED BY <1>2, <1>6, <1>7, Joined

LEMMA EndedLike ==
    ASSUME RowTypes, NEW j \in DOMAIN jobs, NEW js \in Seq(JobRows),
           DOMAIN js = DOMAIN Ended(j), \A i \in DOMAIN js : Like(js[i], Ended(j)[i]),
           NEW new \in Seq(JobRows), jobs' = js \o new
    PROVE  /\ jobs' \in Seq(JobRows)
           /\ \E old : JobsMove(old, j, {}, Range(new))
           /\ \A n \in DOMAIN new : \E i \in DOMAIN jobs' : jobs'[i] = new[n]
<1> DEFINE at(i) == IF i < j THEN i ELSE i + 1
           k == [i \in DOMAIN js |-> at(i)]
<1>1. jobs \in Seq(JobRows) /\ DOMAIN jobs = 1..Len(jobs) /\ Len(jobs) \in Nat
      /\ j \in 1..Len(jobs)
  BY DEF RowTypes
<1>2. /\ Ended(j) \in Seq(JobRows) /\ Len(Ended(j)) = Len(jobs) - 1
      /\ \A i \in 1..(Len(jobs) - 1) :
            Ended(j)[i] = IF i < j THEN jobs[i] ELSE jobs[i + 1]
  BY <1>1, RemovedAt DEF Ended
<1>3. DOMAIN js = 1..(Len(jobs) - 1)
  BY <1>1, <1>2
<1>4. \A i \in 1..(Len(jobs) - 1) : at(i) \in DOMAIN jobs \ {j} /\ Ended(j)[i] = jobs[at(i)]
  BY <1>1, <1>2
<1>5. \A m, n \in 1..(Len(jobs) - 1) : at(m) = at(n) => m = n
  BY <1>1
<1>6. ASSUME NEW x \in DOMAIN jobs \ {j} PROVE \E n \in 1..(Len(jobs) - 1) : at(n) = x
  <2>1. CASE x < j
    <3>1. x \in 1..(Len(jobs) - 1) /\ at(x) = x
      BY <1>1, <2>1
    <3> QED BY <3>1
  <2>2. CASE ~(x < j)
    <3>1. x - 1 \in 1..(Len(jobs) - 1) /\ at(x - 1) = x
      BY <1>1, <2>2
    <3> QED BY <3>1
  <2> QED BY <2>1, <2>2
<1> HIDE DEF at
<1>7. k \in [DOMAIN js -> DOMAIN jobs \ {j}]
  BY <1>3, <1>4
<1>8. /\ \A m, n \in DOMAIN js : k[m] = k[n] => m = n
      /\ \A x \in DOMAIN jobs \ {j} : \E n \in DOMAIN js : k[n] = x
      /\ \A n \in DOMAIN js : Like(js[n], jobs[k[n]])
  BY <1>3, <1>4, <1>5, <1>6
<1> HIDE DEF k
<1>9. Renumbered(js, j, k)
  BY <1>7, <1>8 DEF Renumbered
<1> QED BY <1>9, Joined

LEMMA MoveEnded ==
    ASSUME RowTypes, NEW j \in DOMAIN jobs, NEW rows, NEW new \in Seq(JobRows),
           jobs' = Wrote(Ended(j), rows) \o new
    PROVE  /\ jobs' \in Seq(JobRows)
           /\ \E old : JobsMove(old, j, {}, Range(new))
           /\ \A n \in DOMAIN new : \E i \in DOMAIN jobs' : jobs'[i] = new[n]
<1>1. Ended(j) \in Seq(JobRows)
  BY RemovedAt DEF Ended, RowTypes
<1>2. /\ Wrote(Ended(j), rows) \in Seq(JobRows)
      /\ DOMAIN Wrote(Ended(j), rows) = DOMAIN Ended(j)
      /\ \A i \in DOMAIN Ended(j) : Like(Wrote(Ended(j), rows)[i], Ended(j)[i])
  BY <1>1, WroteLike
<1> QED BY <1>2, EndedLike

LEMMA NoNewJobs == <<>> \in Seq(JobRows) /\ Range(<<>>) = {}
BY DEF Range

LEMMA MoveAlone ==
    ASSUME RowTypes, NEW j \in DOMAIN jobs,
           jobs' = Ended(j) \/ \E rows : jobs' = Wrote(Ended(j), rows)
    PROVE  jobs' \in Seq(JobRows) /\ \E old : JobsMove(old, j, {}, {})
<1>1. Ended(j) \in Seq(JobRows)
  BY RemovedAt DEF Ended, RowTypes
<1>2. CASE jobs' = Ended(j)
  <2>1. jobs' = Ended(j) \o <<>>
    BY <1>1, <1>2, ConcatEmptySeq
  <2> QED BY <1>1, <2>1, EndedLike, LikeItself, NoNewJobs
<1>3. ASSUME NEW rows, jobs' = Wrote(Ended(j), rows)
      PROVE  jobs' \in Seq(JobRows) /\ \E old : JobsMove(old, j, {}, {})
  <2>1. Wrote(Ended(j), rows) \in Seq(JobRows)
    BY <1>1, WroteLike
  <2>2. jobs' = Wrote(Ended(j), rows) \o <<>>
    BY <1>3, <2>1, ConcatEmptySeq
  <2> QED BY <2>2, MoveEnded, NoNewJobs
<1> QED BY <1>2, <1>3

LEMMA MoveAppend ==
    ASSUME RowTypes, NEW t \in JobRows, jobs' = Append(jobs, t)
    PROVE  jobs' \in Seq(JobRows) /\ \E old : JobsMove(old, 0, {}, {t})
<1> DEFINE k == [i \in DOMAIN jobs |-> i]
<1>1. jobs \in Seq(JobRows) /\ DOMAIN jobs = 1..Len(jobs)
  BY DEF RowTypes
<1>2. <<t>> \in Seq(JobRows) /\ Range(<<t>>) = {t} /\ jobs' = jobs \o <<t>>
  BY <1>1, AppendIsConcat DEF Range
<1>3. k \in [DOMAIN jobs -> DOMAIN jobs \ {0}]
  BY <1>1
<1>4. /\ \A m, n \in DOMAIN jobs : k[m] = k[n] => m = n
      /\ \A x \in DOMAIN jobs \ {0} : \E n \in DOMAIN jobs : k[n] = x
      /\ \A n \in DOMAIN jobs : Like(jobs[n], jobs[k[n]])
  BY LikeItself
<1> HIDE DEF k
<1>5. Renumbered(jobs, 0, k)
  BY <1>3, <1>4 DEF Renumbered
<1> QED BY <1>1, <1>2, <1>5, Joined

LEMMA MoveOne ==
    ASSUME RowTypes, NEW j \in DOMAIN jobs, NEW r \in JobRows, jobs' = [jobs EXCEPT ![j] = r]
    PROVE  /\ jobs' \in Seq(JobRows) /\ \E old : JobsMove(old, j, {r}, {})
           /\ j \in DOMAIN jobs' /\ jobs'[j] = r
<1> DEFINE old == [i \in DOMAIN jobs |-> i]
<1>1. jobs \in Seq(JobRows) /\ DOMAIN jobs = 1..Len(jobs)
  BY DEF RowTypes
<1>2. jobs' \in Seq(JobRows) /\ DOMAIN jobs' = DOMAIN jobs /\ jobs'[j] = r
      /\ \A i \in DOMAIN jobs : i # j => jobs'[i] = jobs[i]
  BY <1>1, ExceptSeq
<1>3. JobsMove(old, j, {r}, {})
  BY <1>1, <1>2, LikeItself DEF JobsMove
<1> QED BY <1>2, <1>3

-----------------------------------------------------------------------------
(* Sale orders                                                             *)

\* Each element of a finite set is in its listing.
LEMMA Listed ==
    ASSUME NEW S, IsFiniteSet(S)
    PROVE  /\ Cardinality(S) \in Nat /\ SetToSeq(S) \in [1..Cardinality(S) -> S]
           /\ \A x \in S : \E n \in 1..Cardinality(S) : SetToSeq(S)[n] = x
<1>1. Cardinality(S) \in Nat /\ ExistsBijection(1..Cardinality(S), S)
  BY FS_CardinalityType
<1>2. PICK f : f \in Bijection(1..Cardinality(S), S)
  BY <1>1 DEF ExistsBijection
<1>3. f \in [1..Cardinality(S) -> S] /\ IsInjective(f)
  BY <1>2 DEF Bijection, Injection, Surjection, IsInjective
<1>4. SetToSeq(S) \in [1..Cardinality(S) -> S] /\ IsInjective(SetToSeq(S))
  BY <1>3 DEF SetToSeq
<1>5. SetToSeq(S) \in Injection(1..Cardinality(S), S)
  BY <1>4 DEF Injection
<1>6. Cardinality(1..Cardinality(S)) = Cardinality(S)
  <2>1. 1 \in Int /\ Cardinality(S) \in Int
    BY <1>1
  <2>2. Cardinality(1..Cardinality(S)) =
            IF 1 > Cardinality(S) THEN 0 ELSE Cardinality(S) - 1 + 1
    BY <2>1, FS_Interval
  <2> QED BY <1>1, <2>2
<1>7. SetToSeq(S) \in Surjection(1..Cardinality(S), S)
  BY <1>5, <1>6, FS_Injection
<1> QED BY <1>1, <1>4, <1>7 DEF Surjection

LEMMA JobTypes ==
    ASSUME NEW o \in Orders, NEW only \in BOOLEAN
    PROVE  StateJob(o, only) \in JobRows /\ ImportJob(o) \in JobRows
BY DEF StateJob, ImportJob, Job, JobRows, Statuses

\* A job for each of these orders.
LEMMA JobsForAll ==
    ASSUME NEW os \in SUBSET Orders, NEW only \in BOOLEAN
    PROVE  /\ JobsFor(os, only) \in Seq(JobRows)
           /\ \A t \in Range(JobsFor(os, only)) : \E o \in os : t = StateJob(o, only)
           /\ \A o \in os : \E n \in DOMAIN JobsFor(os, only) :
                 JobsFor(os, only)[n] = StateJob(o, only)
<1>1. IsFiniteSet(Orders)
  <2>1. Chain \in Seq(Orders) /\ Len(Chain) \in Nat /\ DOMAIN Chain = 1..Len(Chain)
    BY OrdersAssumption
  <2>2. IsFiniteSet(1..Len(Chain))
    BY <2>1, FS_Interval
  <2>3. Chain \in Surjection(1..Len(Chain), Orders)
    BY <2>1 DEF Surjection, Orders, Range
  <2> QED BY <2>2, <2>3, FS_Surjection
<1>2. IsFiniteSet(os)
  BY <1>1, FS_Subset
<1>3. /\ Cardinality(os) \in Nat /\ SetToSeq(os) \in [1..Cardinality(os) -> os]
      /\ \A x \in os : \E n \in 1..Cardinality(os) : SetToSeq(os)[n] = x
  BY <1>2, Listed
<1>4. JobsFor(os, only) = [n \in 1..Cardinality(os) |-> StateJob(SetToSeq(os)[n], only)]
  BY DEF JobsFor
<1>5. \A n \in 1..Cardinality(os) :
         SetToSeq(os)[n] \in os /\ StateJob(SetToSeq(os)[n], only) \in JobRows
  BY <1>3, JobTypes
<1>6. JobsFor(os, only) \in Seq(JobRows)
  BY <1>3, <1>4, <1>5, IsASeq
<1>7. \A t \in Range(JobsFor(os, only)) : \E o \in os : t = StateJob(o, only)
  BY <1>4, <1>5 DEF Range
<1>8. ASSUME NEW o \in os
      PROVE  \E n \in DOMAIN JobsFor(os, only) : JobsFor(os, only)[n] = StateJob(o, only)
  <2>1. PICK n \in 1..Cardinality(os) : SetToSeq(os)[n] = o
    BY <1>3
  <2>2. n \in DOMAIN JobsFor(os, only) /\ JobsFor(os, only)[n] = StateJob(o, only)
    BY <1>4, <2>1
  <2> QED BY <2>2
<1> QED BY <1>6, <1>7, <1>8

\* What a sale order is after a step, compared with before: flags stay, work
\* does not begin, and what is canceled stays so.
Goes(sale, r) ==
    /\ sale.canceled => r.canceled
    /\ sale.resolved => r.resolved
    /\ sale.ignore => r.ignore
    /\ r.state = "cancel" \/ sale.state # "cancel"

LEMMA CanceledGoes ==
    ASSUME NEW sale \in SaleRows, FlagsFit(sale)
    PROVE  /\ Canceled(sale) \in SaleRows /\ FlagsFit(Canceled(sale))
           /\ Goes(sale, Canceled(sale)) /\ Canceled(sale).state = "cancel"
           /\ Canceled(sale).canceled = sale.canceled
BY DEF SaleRows, FlagsFit, Canceled, Goes

LEMMA FlagGoes ==
    ASSUME NEW sale \in SaleRows, FlagsFit(sale)
    PROVE  /\ Flag(sale) \in SaleRows /\ FlagsFit(Flag(sale)) /\ Goes(sale, Flag(sale))
           /\ Flag(sale).canceled /\ (AtWork(Flag(sale)) => AtWork(sale))
<1>1. CASE sale.canceled
  BY <1>1 DEF Flag, Goes
<1>2. CASE ~sale.canceled
  <2> DEFINE f == [sale EXCEPT !.canceled = TRUE]
  <2>1. f \in SaleRows /\ f.canceled /\ f.state = sale.state /\ f.ignore = sale.ignore
        /\ ~sale.resolved /\ ~f.resolved /\ Flag(sale) = TryAutoCancel(f)
    BY <1>2 DEF SaleRows, FlagsFit, Flag
  <2> HIDE DEF f
  <2>2. CASE f.state = "cancel"
    <3>1. Flag(sale) = [f EXCEPT !.resolved = TRUE]
      BY <2>1, <2>2 DEF TryAutoCancel
    <3> QED BY <2>1, <2>2, <3>1 DEF SaleRows, FlagsFit, Goes, AtWork
  <2>3. CASE f.state # "cancel" /\ Flag(sale) = Canceled(f)
    <3>1. FlagsFit(f)
      BY <2>1, <2>3 DEF FlagsFit
    <3> QED BY <2>1, <2>3, <3>1, CanceledGoes DEF Goes, AtWork
  <2>4. CASE f.state # "cancel" /\ Flag(sale) = f
    BY <2>1, <2>4 DEF FlagsFit, Goes, AtWork
  <2>5. f.state # "cancel" => Flag(sale) = Canceled(f) \/ Flag(sale) = f
    BY <2>1 DEF TryAutoCancel
  <2> QED BY <2>2, <2>3, <2>4, <2>5
<1> QED BY <1>1, <1>2

\* The sale order that a user has written.
LEMMA UserStores ==
    ASSUME RowTypes, Flags, NEW s \in DOMAIN sales,
           Confirm(s) \/ CancelSale(s) \/ UserStep(s)
    PROVE  \E r \in SaleRows :
               /\ Store(s, r) /\ FlagsFit(r) /\ Goes(sales[s], r)
               /\ AtWork(r) => AtWork(sales[s]) \/ ~Exceptions(s)
<1> DEFINE sale == sales[s]
<1>1. sale \in SaleRows /\ FlagsFit(sale)
  BY DEF RowTypes, Flags
<1>2. CASE Confirm(s)
  <2> DEFINE r == [sale EXCEPT !.state = "progress"]
  <2>1. r \in SaleRows /\ FlagsFit(r) /\ Goes(sale, r)
    BY <1>1, <1>2 DEF Confirm, SaleRows, FlagsFit, Goes
  <2> QED BY <1>2, <2>1 DEF Confirm
<1>3. CASE CancelSale(s)
  <2>1. Store(s, Canceled(sale))
    BY <1>3 DEF CancelSale
  <2> QED BY <1>1, <2>1, CanceledGoes DEF AtWork
<1>4. CASE IgnoreExceptions(s)
  <2> DEFINE r == [sale EXCEPT !.ignore = TRUE]
  <2>1. r \in SaleRows /\ FlagsFit(r) /\ Goes(sale, r) /\ (AtWork(r) => AtWork(sale))
    BY <1>1 DEF SaleRows, FlagsFit, Goes, AtWork
  <2> QED BY <1>4, <2>1 DEF IgnoreExceptions
<1>5. CASE IgnoreCancellation(s)
  <2> DEFINE r == [sale EXCEPT !.resolved = TRUE, !.kept = TRUE]
  <2>1. r \in SaleRows /\ FlagsFit(r) /\ Goes(sale, r) /\ (AtWork(r) => AtWork(sale))
    BY <1>1, <1>5 DEF SaleRows, FlagsFit, Goes, AtWork, IgnoreCancellation, NeedCancel
  <2> QED BY <1>5, <2>1 DEF IgnoreCancellation
<1>6. CASE Deliver(s)
  <2>1. PICK state \in {"progress", "except", "done"} :
            Store(s, [sale EXCEPT !.state = state, !.documents = TRUE])
    BY <1>6 DEF Deliver
  <2> DEFINE r == [sale EXCEPT !.state = state, !.documents = TRUE]
  <2>2. sale.state = "progress"
    BY <1>6 DEF Deliver
  <2>3. r \in SaleRows /\ FlagsFit(r) /\ Goes(sale, r) /\ AtWork(sale)
    BY <1>1, <2>2 DEF SaleRows, FlagsFit, Goes, AtWork
  <2> QED BY <2>1, <2>3
<1>7. CASE Recover(s)
  <2> DEFINE r == [sale EXCEPT !.state = "progress", !.documents = FALSE]
  <2>1. r \in SaleRows /\ FlagsFit(r) /\ Goes(sale, r) /\ AtWork(sale) /\ Store(s, r)
    BY <1>1, <1>7 DEF SaleRows, FlagsFit, Goes, AtWork, Recover
  <2> QED BY <2>1
<1>8. CASE SetPaid(s)
  <2> DEFINE r == [sale EXCEPT !.paid = ~@]
  <2>1. r \in SaleRows /\ FlagsFit(r) /\ Goes(sale, r) /\ (AtWork(r) => AtWork(sale))
    BY <1>1, <1>8 DEF SaleRows, FlagsFit, Goes, AtWork, SetPaid
  <2> QED BY <1>8, <2>1 DEF SetPaid
<1> QED BY <1>2, <1>3, <1>4, <1>5, <1>6, <1>7, <1>8 DEF UserStep

-----------------------------------------------------------------------------
(* Rows                                                                    *)

LEMMA MoveNone ==
    ASSUME RowTypes, UNCHANGED jobs
    PROVE  jobs' \in Seq(JobRows) /\ \E old : JobsMove(old, 0, {}, {})
<1> DEFINE old == [i \in DOMAIN jobs |-> i]
<1>1. jobs \in Seq(JobRows) /\ DOMAIN jobs = 1..Len(jobs) /\ DOMAIN jobs' = DOMAIN jobs
      /\ \A i \in DOMAIN jobs : jobs'[i] = jobs[i]
  BY DEF RowTypes
<1>2. JobsMove(old, 0, {}, {})
  BY <1>1, LikeItself DEF JobsMove
<1> QED BY <1>1, <1>2

\* Jobs that are as they were, with what was written since, keep their shape.
LEMMA ShapesKept ==
    ASSUME RowTypes, Bindings, NEW old, NEW j, NEW At, NEW New, JobsMove(old, j, At, New),
           Bound \subseteq Bound', \A t \in At \cup New : JobShape(t)'
    PROVE  (\A i \in DOMAIN jobs : JobShape(jobs[i]))'
<1>1. ASSUME NEW t, NEW u, Like(t, u), JobShape(u) PROVE JobShape(t)'
  BY <1>1 DEF Like, JobShape
<1>2. ASSUME NEW i \in DOMAIN jobs', NEW t, t = jobs'[i] PROVE JobShape(t)'
  <2>1. CASE t \in At \cup New
    BY <2>1
  <2>2. CASE t \notin At \cup New
    <3>1. old[i] \in DOMAIN jobs /\ Like(t, jobs[old[i]])
      BY <1>2, <2>2 DEF JobsMove
    <3>2. JobShape(jobs[old[i]])
      BY <3>1 DEF Bindings
    <3> QED BY <1>1, <3>1, <3>2
  <2> QED BY <2>1, <2>2
<1> QED BY <1>2

\* And there is still one import at most of an order.
LEMMA ImportsKept ==
    ASSUME RowTypes, ImportsOnce, NEW old, NEW j, NEW At, NEW New, JobsMove(old, j, At, New),
           \A t \in At : j \in DOMAIN jobs /\ t.task = jobs[j].task /\ t.order = jobs[j].order,
           \A t \in New : t.task = "state", listed \subseteq listed', Bound' \subseteq listed',
           \A i \in DOMAIN jobs : jobs[i].task = "import" /\ (i # j \/ At # {})
                                      => jobs[i].order \notin Bound'
    PROVE  ImportsOnce'
<1>1. ASSUME NEW i \in DOMAIN jobs', jobs'[i].task = "import"
      PROVE  /\ old[i] \in DOMAIN jobs /\ old[i] # 0
             /\ jobs[old[i]].task = "import" /\ jobs[old[i]].order = jobs'[i].order
             /\ old[i] # j \/ At # {}
  <2>1. old[i] # 0 /\ old[i] \in DOMAIN jobs
    BY <1>1 DEF JobsMove
  <2>2. CASE old[i] = j
    BY <1>1, <2>1, <2>2 DEF JobsMove
  <2>3. CASE old[i] # j
    BY <1>1, <2>1, <2>3 DEF JobsMove, Like
  <2> QED BY <2>1, <2>2, <2>3
<1>2. ASSUME NEW i \in DOMAIN jobs', NEW k \in DOMAIN jobs', jobs'[i].task = "import"
      PROVE  /\ jobs'[i].order \in listed' /\ jobs'[i].order \notin Bound'
             /\ jobs'[k].task = "import" /\ jobs'[k].order = jobs'[i].order => i = k
  <2>1. jobs'[i].order \in listed' /\ jobs'[i].order \notin Bound'
    BY <1>1, <1>2 DEF ImportsOnce
  <2>2. ASSUME jobs'[k].task = "import", jobs'[k].order = jobs'[i].order PROVE i = k
    <3>1. old[i] = old[k] /\ old[i] # 0
      BY <1>1, <1>2, <2>2 DEF ImportsOnce
    <3> QED BY <3>1 DEF JobsMove
  <2> QED BY <2>1, <2>2
<1> QED BY <1>2 DEF ImportsOnce

\* A step that leaves the rows of OpenERP alone, besides the jobs.
MagentoRows == [Orders -> [state : {"none", "new", "canceled"}, status : Statuses,
                           paid : BOOLEAN]]
RowsStay ==
    /\ UNCHANGED <<sales, binding, listed>> /\ magento' \in MagentoRows
    /\ \A o \in Orders : magento'[o].state = magento[o].state
    /\ raced' \subseteq {"import", "state"}

\* The jobs it may leave in the place of j, and the new ones.
Fitting(j, At, New) ==
    /\ \A t \in At : /\ j \in DOMAIN jobs /\ t.task = jobs[j].task
                     /\ t.order = jobs[j].order /\ JobShape(t)
    /\ \A t \in New : t.task = "state" /\ JobShape(t)

LEMMA JobsOnly ==
    ASSUME RowsInv, RowsStay, jobs' \in Seq(JobRows), NEW old, NEW j, NEW At, NEW New,
           JobsMove(old, j, At, New), Fitting(j, At, New)
    PROVE  RowsInv'
<1> USE DEF RowsStay, Fitting
<1>1. Bound' = Bound
  BY DEF Bound
<1>2. RowTypes'
  BY DEF RowTypes, RowsInv, MagentoRows
<1>3. (\A i \in DOMAIN jobs : JobShape(jobs[i]))'
  <2>1. \A t \in At \cup New : JobShape(t)'
    BY <1>1 DEF JobShape
  <2> QED BY <1>1, <2>1, ShapesKept DEF RowsInv
<1>4. Bindings'
  BY <1>1, <1>3 DEF Bindings, RowsInv
<1>5. ImportsOnce'
  <2>1. /\ Bound' \subseteq listed'
        /\ \A i \in DOMAIN jobs : jobs[i].task = "import" => jobs[i].order \notin Bound'
    BY <1>1 DEF RowsInv, ImportsOnce
  <2> QED BY <2>1, ImportsKept DEF RowsInv
<1>6. EditedOnce' /\ Flags'
  BY <1>1 DEF RowsInv, EditedOnce, Flags
<1> QED BY <1>2, <1>4, <1>5, <1>6 DEF RowsInv

LEMMA RowsAtFirst == Init => RowsInv /\ LinkInv /\ ShownInv
<1> SUFFICES ASSUME Init PROVE RowsInv /\ LinkInv /\ ShownInv
  OBVIOUS
<1>1. Bound = {} /\ DOMAIN jobs = {} /\ DOMAIN sales = {} /\ listed = {}
  BY DEF Init, Bound
<1>2. RowTypes
  <2>1. magento \in [Orders -> [state : {"none", "new", "canceled"}, status : Statuses,
                               paid : BOOLEAN]]
    BY DEF Init, Statuses
  <2>2. binding \in [Orders -> [sale : Nat, parent : Orders \cup {NoOrder}]]
    BY DEF Init
  <2> QED BY <2>1, <2>2 DEF Init, RowTypes
<1>3. Bindings
  <2>1. \A o \in Orders : binding[o].sale <= Len(sales) /\ binding[o].parent = NoOrder
    BY DEF Init
  <2> QED BY <1>1, <2>1 DEF Bindings
<1>4. ImportsOnce /\ Flags
  BY <1>1 DEF ImportsOnce, Flags
<1>5. \A o \in Orders : magento[o].state = "none"
  BY DEF Init
<1>6. EditedOnce
  BY <1>1, <1>5 DEF EditedOnce
<1>7. LinkInv
  BY <1>1 DEF LinkInv, ImportsAlone, FoundAll, Linked, Resolved
<1>8. ShownInv
  BY <1>1, <1>5 DEF ShownInv, StatesAlone, Corrected
<1> QED BY <1>2, <1>3, <1>4, <1>6, <1>7, <1>8 DEF RowsInv

-----------------------------------------------------------------------------
(* What each action does to the jobs and the rows                          *)

LEMMA JobAt ==
    ASSUME RowsInv, NEW j \in DOMAIN jobs
    PROVE  /\ jobs[j] \in JobRows /\ JobShape(jobs[j])
           /\ jobs[j].order \in Orders /\ jobs[j].task \in {"import", "state"}
           /\ jobs[j].only \in BOOLEAN /\ jobs[j].status \in Statuses
           /\ jobs[j].step \in {"pending", "write", "send", "bind"}
           /\ jobs[j].seen \subseteq Orders
<1>1. jobs \in Seq(JobRows)
  BY DEF RowsInv, RowTypes
<1>2. jobs[j] \in JobRows
  BY <1>1
<1>3. JobShape(jobs[j])
  BY DEF RowsInv, Bindings
<1> QED BY <1>2, <1>3 DEF JobRows

\* A job that starts again.
LEMMA PostponedMove ==
    ASSUME RowsInv, NEW j \in DOMAIN jobs, jobs' = Postponed(j)
    PROVE  \E r \in JobRows :
               /\ r.task = jobs[j].task /\ r.order = jobs[j].order
               /\ r.only = jobs[j].only /\ r.step = "pending" /\ JobShape(r)
               /\ jobs' = [jobs EXCEPT ![j] = r]
<1> DEFINE r == [Job(jobs[j].task, jobs[j].order, jobs[j].only) EXCEPT !.late = TRUE]
<1>1. jobs[j] \in JobRows /\ JobShape(jobs[j])
  BY DEF RowsInv, RowTypes, Bindings
<1>2. r \in JobRows /\ r.task = jobs[j].task /\ r.order = jobs[j].order
      /\ r.only = jobs[j].only /\ r.step = "pending"
  BY <1>1 DEF Job, JobRows, Statuses
<1>3. JobShape(r)
  BY <1>1, <1>2 DEF JobShape
<1>4. jobs' = [jobs EXCEPT ![j] = r]
  BY DEF Postponed
<1> QED BY <1>2, <1>3, <1>4

\* The job that is taken was pending, and when the history does not grow none
\* of its task was at work.
LEMMA Started ==
    ASSUME RowsInv, NEW j \in DOMAIN jobs, Start(j)
    PROVE  /\ jobs[j].step = "pending" /\ raced \subseteq raced'
           /\ raced' \subseteq {"import", "state"}
           /\ \A i \in DOMAIN jobs : Going(i) /\ jobs[i].task = jobs[j].task
                                        => jobs[j].task \in raced'
<1>1. \A i \in DOMAIN jobs : jobs[i].task \in {"import", "state"}
  BY JobAt
<1> QED BY <1>1 DEF Start, IsNext, RowsInv, RowTypes

LEMMA MagentoStays ==
    ASSUME RowsInv, UNCHANGED <<sales, binding, magento, listed>>,
           raced' \subseteq {"import", "state"}
    PROVE  RowsStay
BY DEF RowsInv, RowTypes, RowsStay, MagentoRows

\* A job that comes to an end without any other change.
LEMMA EndsAlone ==
    ASSUME RowsInv, RowsStay, NEW j \in DOMAIN jobs,
           jobs' = Ended(j) \/ \E rows : jobs' = Wrote(Ended(j), rows)
    PROVE  RowsInv' /\ \E old : JobsMove(old, j, {}, {})
<1>1. jobs' \in Seq(JobRows) /\ \E old : JobsMove(old, j, {}, {})
  BY MoveAlone DEF RowsInv
<1>2. Fitting(j, {}, {})
  BY DEF Fitting
<1> QED BY <1>1, <1>2, JobsOnly

\* A job that goes on.
LEMMA GoesOn ==
    ASSUME RowsInv, RowsStay, NEW j \in DOMAIN jobs, NEW r \in JobRows,
           r.task = jobs[j].task, r.order = jobs[j].order, JobShape(r),
           jobs' = [jobs EXCEPT ![j] = r]
    PROVE  /\ RowsInv' /\ \E old : JobsMove(old, j, {r}, {})
           /\ j \in DOMAIN jobs' /\ jobs'[j] = r
<1>1. /\ jobs' \in Seq(JobRows) /\ \E old : JobsMove(old, j, {r}, {})
      /\ j \in DOMAIN jobs' /\ jobs'[j] = r
  BY MoveOne DEF RowsInv
<1>2. Fitting(j, {r}, {})
  BY DEF Fitting
<1> QED BY <1>1, <1>2, JobsOnly

\* What the first step of an import may leave in its place.
BegunImport(j, r) ==
    /\ r.task = "import" /\ r.order = jobs[j].order /\ JobShape(r)
    /\ \/ r.step = "pending"
       \/ r.step = "write" /\ r.seen = {p \in Bound : Place(p) < Place(r.order)}
          /\ RuleGlobal(r.order)

LEMMA BeginImportMove ==
    ASSUME RowsInv, NEW j \in DOMAIN jobs, BeginImport(j)
    PROVE  /\ RowsInv'
           /\ \E old, At : /\ JobsMove(old, j, At, {})
                           /\ \A t \in At : BegunImport(j, t)
<1> DEFINE o == jobs[j].order
<1>1. jobs[j] \in JobRows /\ o \in Orders /\ jobs[j].task = "import" /\ JobShape(jobs[j])
      /\ jobs[j].step = "pending"
  BY Started, JobAt DEF BeginImport
<1>2. RowsStay
  BY Started, MagentoStays DEF BeginImport
<1>3. CASE jobs' = Ended(j)
  BY <1>2, <1>3, EndsAlone
<1>4. ASSUME NEW r \in JobRows, jobs' = [jobs EXCEPT ![j] = r], BegunImport(j, r)
      PROVE  /\ RowsInv'
             /\ \E old, At : /\ JobsMove(old, j, At, {})
                             /\ \A t \in At : BegunImport(j, t)
  <2>1. RowsInv' /\ \E old : JobsMove(old, j, {r}, {})
    BY <1>1, <1>2, <1>4, GoesOn DEF BegunImport
  <2> QED BY <1>4, <2>1
<1>5. CASE jobs' = Postponed(j)
  <2>1. PICK r \in JobRows :
               /\ r.task = jobs[j].task /\ r.order = jobs[j].order
               /\ r.only = jobs[j].only /\ r.step = "pending" /\ JobShape(r)
               /\ jobs' = [jobs EXCEPT ![j] = r]
    BY <1>5, PostponedMove
  <2>2. BegunImport(j, r)
    BY <1>1, <2>1 DEF BegunImport
  <2> QED BY <1>4, <2>1, <2>2
<1>6. CASE /\ RuleGlobal(o)
           /\ jobs' = [jobs EXCEPT ![j].step = "write", ![j].paid = magento[o].paid,
                                   ![j].seen = {p \in Bound : Place(p) < Place(o)}]
  <2> DEFINE seen == {p \in Bound : Place(p) < Place(o)}
             r == [jobs[j] EXCEPT !.step = "write", !.paid = magento[o].paid, !.seen = seen]
  <2>1. seen \in SUBSET Orders /\ magento[o].paid \in BOOLEAN /\ seen \subseteq Bound
        /\ \A p \in seen : Place(p) < Place(o)
    BY <1>1 DEF Bound, RowsInv, RowTypes
  <2>2. jobs' = [jobs EXCEPT ![j] = [jobs[j] EXCEPT !.step = "write", !.paid = magento[o].paid,
                                                    !.seen = seen]]
    BY <1>6
  <2> HIDE DEF seen
  <2>3. r \in JobRows /\ r.task = "import" /\ r.order = o /\ r.step = "write" /\ r.seen = seen
    BY <1>1, <2>1 DEF JobRows
  <2>4. JobShape(r)
    BY <2>1, <2>3 DEF JobShape
  <2>5. BegunImport(j, r)
    BY <1>6, <2>3, <2>4 DEF BegunImport, seen
  <2> HIDE DEF r
  <2>6. jobs' = [jobs EXCEPT ![j] = r]
    BY <2>2 DEF r
  <2> QED BY <1>4, <2>3, <2>5, <2>6
<1> QED BY <1>3, <1>5, <1>6 DEF BeginImport

\* The job of a state has begun.
BegunState(j, r) ==
    /\ r.task = "state" /\ r.order = jobs[j].order /\ r.step = "send"
    /\ r.status = Status(Sale(r.order).state) /\ (r.only => Sale(r.order).state = "cancel")

LEMMA SaleAt ==
    ASSUME RowsInv, NEW o \in Bound
    PROVE  /\ o \in Orders /\ binding[o].sale \in DOMAIN sales
           /\ Sale(o) \in SaleRows /\ FlagsFit(Sale(o))
           /\ Sale(o).state \in {"draft", "progress", "except", "done", "cancel"}
<1>1. o \in Orders /\ binding[o].sale # 0 /\ binding[o].sale \in Nat
  BY DEF Bound, RowsInv, RowTypes
<1>2. binding[o].sale <= Len(sales) /\ sales \in Seq(SaleRows)
  BY <1>1 DEF RowsInv, RowTypes, Bindings
<1>3. binding[o].sale \in DOMAIN sales
  BY <1>1, <1>2
<1>4. Sale(o) \in SaleRows /\ FlagsFit(Sale(o))
  BY <1>2, <1>3 DEF Sale, RowsInv, Flags
<1> QED BY <1>1, <1>3, <1>4 DEF SaleRows

LEMMA BeginStateMove ==
    ASSUME RowsInv, NEW j \in DOMAIN jobs, BeginState(j)
    PROVE  /\ RowsInv'
           /\ \/ /\ \E old : JobsMove(old, j, {}, {})
                 /\ NotExported(j)
                    \/ magento[jobs[j].order].status = Status(Sale(jobs[j].order).state)
              \/ \E r : /\ BegunState(j, r) /\ \E old : JobsMove(old, j, {r}, {})
                        /\ j \in DOMAIN jobs' /\ jobs'[j] = r
<1> DEFINE o == jobs[j].order
           status == Status(Sale(o).state)
<1>1. jobs[j] \in JobRows /\ o \in Orders /\ jobs[j].task = "state" /\ o \in Bound
  BY JobAt DEF BeginState, JobShape
<1>2. status \in Statuses /\ (status = "canceled" <=> Sale(o).state = "cancel")
  BY <1>1, SaleAt DEF Status, Statuses
<1>3. RowsStay
  BY Started, MagentoStays DEF BeginState
<1>4. CASE jobs' = Ended(j) /\ (NotExported(j) \/ magento[o].status = status)
  BY <1>3, <1>4, EndsAlone
<1>5. CASE ~NotExported(j) /\ jobs' = [jobs EXCEPT ![j].step = "send", ![j].status = status]
  <2> DEFINE r == [jobs[j] EXCEPT !.step = "send", !.status = status]
  <2> HIDE DEF status
  <2>1. r \in JobRows /\ r.task = "state" /\ r.order = o /\ r.step = "send"
        /\ r.status = status /\ r.only = jobs[j].only
    BY <1>1, <1>2 DEF JobRows
  <2>2. r.only => Sale(o).state = "cancel"
    BY <1>5, <2>1 DEF NotExported
  <2>3. JobShape(r)
    BY <1>1, <1>2, <2>1, <2>2 DEF JobShape
  <2>4. BegunState(j, r)
    BY <2>1, <2>2 DEF BegunState, status
  <2>5. jobs' = [jobs EXCEPT ![j] = r]
    BY <1>5
  <2> HIDE DEF r
  <2> QED BY <1>1, <1>3, <2>1, <2>3, <2>4, <2>5, GoesOn
<1> QED BY <1>4, <1>5 DEF BeginState

LEMMA SendStateMove ==
    ASSUME RowsInv, NEW j \in DOMAIN jobs, SendState(j)
    PROVE  /\ RowsInv'
           /\ \E r : /\ r.task = "state" /\ r.step = "bind"
                     /\ \E old : JobsMove(old, j, {r}, {})
<1> DEFINE o == jobs[j].order
           r == [jobs[j] EXCEPT !.step = "bind", !.status = "none"]
<1>1. jobs[j] \in JobRows /\ o \in Orders /\ jobs[j].task = "state" /\ o \in Bound
      /\ jobs[j].status \in Statuses
  BY JobAt DEF SendState, JobShape
<1>2. r \in JobRows /\ r.task = "state" /\ r.order = o /\ r.step = "bind"
  BY <1>1 DEF JobRows, Statuses
<1>3. JobShape(r)
  BY <1>1, <1>2 DEF JobShape
<1>4. magento \in MagentoRows
  BY DEF RowsInv, RowTypes, MagentoRows
<1>5. magento' \in MagentoRows /\ \A p \in Orders : magento'[p].state = magento[p].state
  BY <1>1, <1>4 DEF SendState, MagentoRows
<1>6. RowsStay
  BY <1>5 DEF SendState, RowsStay, RowsInv, RowTypes
<1>7. jobs' = [jobs EXCEPT ![j] = r]
  BY DEF SendState
<1> HIDE DEF r
<1> QED BY <1>1, <1>2, <1>3, <1>6, <1>7, GoesOn

\* A job that starts again, of the same task, order and states.
StartsAgain(j, r) ==
    /\ r.task = jobs[j].task /\ r.order = jobs[j].order
    /\ r.only = jobs[j].only /\ r.step = "pending"

LEMMA PostponedAlone ==
    ASSUME RowsInv, RowsStay, NEW j \in DOMAIN jobs, jobs' = Postponed(j)
    PROVE  /\ RowsInv'
           /\ \E r : /\ StartsAgain(j, r) /\ \E old : JobsMove(old, j, {r}, {})
                     /\ j \in DOMAIN jobs' /\ jobs'[j] = r
<1>1. PICK r \in JobRows :
               /\ r.task = jobs[j].task /\ r.order = jobs[j].order
               /\ r.only = jobs[j].only /\ r.step = "pending" /\ JobShape(r)
               /\ jobs' = [jobs EXCEPT ![j] = r]
  BY PostponedMove
<1>2. RowsInv' /\ (\E old : JobsMove(old, j, {r}, {})) /\ j \in DOMAIN jobs' /\ jobs'[j] = r
  BY <1>1, GoesOn
<1> QED BY <1>1, <1>2 DEF StartsAgain

LEMMA BindStateMove ==
    ASSUME RowsInv, NEW j \in DOMAIN jobs, BindState(j)
    PROVE  /\ RowsInv'
           /\ \E old, At : JobsMove(old, j, At, {}) /\ \A r \in At : StartsAgain(j, r)
<1>1. RowsStay
  BY MagentoStays DEF BindState, RowsInv, RowTypes
<1>2. CASE jobs' = Postponed(j)
  <2>1. RowsInv' /\ \E r : StartsAgain(j, r) /\ \E old : JobsMove(old, j, {r}, {})
    BY <1>1, <1>2, PostponedAlone
  <2> QED BY <2>1
<1>3. CASE jobs' = Wrote(Ended(j), Writes(jobs[j]))
  BY <1>1, <1>3, EndsAlone
<1> QED BY <1>2, <1>3 DEF BindState

LEMMA CrashMove ==
    ASSUME RowsInv, NEW j \in DOMAIN jobs, Crash(j)
    PROVE  /\ RowsInv'
           /\ \E r : /\ StartsAgain(j, r) /\ \E old : JobsMove(old, j, {r}, {})
                     /\ j \in DOMAIN jobs' /\ jobs'[j] = r
<1>1. RowsStay
  BY MagentoStays DEF Crash, RowsInv, RowTypes
<1> QED BY <1>1, PostponedAlone DEF Crash

\* The import is written: its order is bound, the parents it has found are
\* flagged, and the links are set.
ImportWritten(j) ==
    LET o == jobs[j].order  seen == jobs[j].seen
    IN /\ o \in Orders \ Bound /\ Bound' = Bound \cup {o}
       /\ sales'[binding'[o].sale].state = "draft"
       /\ \A p \in Bound : Sale(p)' = IF p \in seen THEN Flag(Sale(p)) ELSE Sale(p)
       /\ binding'[o].parent = Nearest(o, seen)
       /\ \A p \in Bound : binding'[p].parent =
              IF p \in seen /\ Nearest(p, seen) # NoOrder THEN Nearest(p, seen)
              ELSE binding[p].parent

NewSales == \A s \in DOMAIN sales' : sales'[s] \in SaleRows /\ FlagsFit(sales'[s])

LEMMA Written ==
    ASSUME RowsInv, NEW j \in DOMAIN jobs, WriteImport(j), ~jobs[j].conflict
    PROVE  /\ ImportWritten(j) /\ sales' \in Seq(SaleRows) /\ NewSales
           /\ Len(sales') = Len(sales) + 1
           /\ binding' \in [Orders -> [sale : Nat, parent : Orders \cup {NoOrder}]]
           /\ binding'[jobs[j].order].sale = Len(sales')
           /\ \A p \in Orders \ {jobs[j].order} : binding'[p].sale = binding[p].sale
<1> DEFINE o == jobs[j].order
           parents == jobs[j].seen
           new == [state |-> "draft", canceled |-> FALSE, resolved |-> FALSE, ignore |-> FALSE,
                   paid |-> HasJournal /\ jobs[j].paid, documents |-> FALSE, kept |-> FALSE]
           flagged == [s \in DOMAIN sales |->
                        IF \E p \in parents : binding[p].sale = s THEN Flag(sales[s]) ELSE sales[s]]
<1>1. /\ o \in Orders \ Bound /\ parents \subseteq Bound /\ jobs[j].paid \in BOOLEAN
      /\ \A p \in parents : Place(p) < Place(o)
  <2>1. jobs[j] \in JobRows /\ JobShape(jobs[j]) /\ jobs[j].task = "import" /\ o \in Orders
    BY JobAt DEF WriteImport, JobShape
  <2>2. o \notin Bound
    BY <2>1 DEF RowsInv, ImportsOnce
  <2>3. jobs[j].step = "write"
    BY DEF WriteImport
  <2> QED BY <2>1, <2>2, <2>3 DEF JobShape, JobRows
<1>2. /\ sales' = Append(flagged, new)
      /\ binding' = [p \in Orders |->
             IF p = o THEN [sale |-> Len(sales'), parent |-> Nearest(o, parents)]
             ELSE IF p \in parents /\ Nearest(p, parents) # NoOrder
                  THEN [binding[p] EXCEPT !.parent = Nearest(p, parents)]
                  ELSE binding[p]]
  BY DEF WriteImport
<1>3. sales \in Seq(SaleRows) /\ DOMAIN sales = 1..Len(sales) /\ Len(sales) \in Nat
      /\ (\A s \in DOMAIN sales : sales[s] \in SaleRows /\ FlagsFit(sales[s]))
      /\ binding \in [Orders -> [sale : Nat, parent : Orders \cup {NoOrder}]]
  <2>1. sales \in Seq(SaleRows)
    BY DEF RowsInv, RowTypes
  <2>2. \A s \in DOMAIN sales : sales[s] \in SaleRows
    BY <2>1
  <2> QED BY <2>1, <2>2 DEF RowsInv, RowTypes, Flags
<1>4. new \in SaleRows /\ FlagsFit(new) /\ new.state = "draft"
  BY <1>1, OrdersAssumption DEF SaleRows, FlagsFit
<1>5. \A s \in 1..Len(sales) : flagged[s] \in SaleRows /\ FlagsFit(flagged[s])
  BY <1>3, FlagGoes
<1>6. flagged \in Seq(SaleRows) /\ Len(flagged) = Len(sales)
  BY <1>3, <1>5, IsASeq
<1>7. \A p \in Bound : flagged[binding[p].sale] = IF p \in parents THEN Flag(Sale(p)) ELSE Sale(p)
  <2> TAKE p \in Bound
  <2>1. binding[p].sale \in DOMAIN sales
    BY SaleAt
  <2>2. (\E q \in parents : binding[q].sale = binding[p].sale) <=> p \in parents
    BY <1>1 DEF RowsInv, Bindings
  <2> QED BY <2>1, <2>2 DEF Sale
<1> HIDE DEF new, flagged
<1>8. /\ sales' \in Seq(SaleRows) /\ Len(sales') = Len(sales) + 1
      /\ sales'[Len(sales')] = new
      /\ \A s \in 1..Len(sales) : sales'[s] = flagged[s]
  BY <1>2, <1>3, <1>4, <1>6, AppendProperties
<1>9. NewSales
  <2> SUFFICES ASSUME NEW s \in DOMAIN sales' PROVE sales'[s] \in SaleRows /\ FlagsFit(sales'[s])
    BY DEF NewSales
  <2>1. s \in 1..Len(sales) \/ s = Len(sales')
    BY <1>3, <1>8
  <2> QED BY <1>4, <1>5, <1>8, <2>1
<1>10. \A p \in Orders, ps \in SUBSET Orders : Nearest(p, ps) \in Orders \cup {NoOrder}
  <2> TAKE p \in Orders, ps \in SUBSET Orders
  <2> QED BY NearestIs
<1>11. parents \in SUBSET Orders /\ Bound \subseteq Orders
  BY <1>1 DEF Bound
<1>12. \A p \in Orders : binding[p] \in [sale : Nat, parent : Orders \cup {NoOrder}]
  BY <1>3
<1>13. ASSUME NEW p \in Orders
       PROVE  /\ binding'[p] \in [sale : Nat, parent : Orders \cup {NoOrder}]
              /\ p # o => binding'[p].sale = binding[p].sale
              /\ p # o => binding'[p].parent =
                    IF p \in parents /\ Nearest(p, parents) # NoOrder
                    THEN Nearest(p, parents) ELSE binding[p].parent
  BY <1>2, <1>3, <1>8, <1>10, <1>11, <1>12
<1>14. binding'[o].sale = Len(sales') /\ binding'[o].parent = Nearest(o, parents)
  BY <1>1, <1>2
<1>15. binding' \in [Orders -> [sale : Nat, parent : Orders \cup {NoOrder}]]
  <2>1. binding' = [p \in Orders |-> binding'[p]]
    BY <1>2
  <2> QED BY <1>13, <2>1
<1>16. Bound' = Bound \cup {o}
  <2>1. Len(sales') # 0
    BY <1>3, <1>8
  <2>2. \A p \in Orders : binding'[p].sale # 0 <=> p = o \/ binding[p].sale # 0
    BY <1>13, <1>14, <2>1
  <2>3. Bound' = {p \in Orders : binding'[p].sale # 0}
    BY DEF Bound
  <2> QED BY <1>1, <2>2, <2>3 DEF Bound
<1>17. sales'[binding'[o].sale] = new
  BY <1>8, <1>14
<1>18. ASSUME NEW p \in Bound PROVE Sale(p)' = IF p \in parents THEN Flag(Sale(p)) ELSE Sale(p)
  <2>1. p \in Orders /\ p # o /\ binding[p].sale \in 1..Len(sales)
    BY <1>1, <1>3, SaleAt
  <2>2. Sale(p)' = flagged[binding[p].sale]
    BY <1>8, <1>13, <2>1 DEF Sale
  <2> QED BY <1>7, <2>2
<1>19. ImportWritten(j)
  <2>1. \A p \in Bound : p \in Orders /\ p # o
    BY <1>1, <1>11
  <2> QED BY <1>1, <1>4, <1>13, <1>14, <1>16, <1>17, <1>18, <2>1 DEF ImportWritten
<1> QED BY <1>8, <1>9, <1>13, <1>14, <1>15, <1>19

\* The new jobs of a step that tell a state.
TellLater(New, only) ==
    \A t \in New : \E o \in Bound' : t = StateJob(o, only)

LEMMA WrittenJobs ==
    ASSUME RowsInv, NEW j \in DOMAIN jobs, WriteImport(j), ~jobs[j].conflict
    PROVE  jobs' \in Seq(JobRows) /\ \E old, New : JobsMove(old, j, {}, New) /\ TellLater(New, TRUE)
<1> DEFINE stopped == {p \in jobs[j].seen :
                /\ Sale(p).state # "cancel"
                /\ [s \in DOMAIN sales |-> IF \E q \in jobs[j].seen : binding[q].sale = s
                                           THEN Flag(sales[s]) ELSE sales[s]]
                   [binding[p].sale].state = "cancel"}
           rows == Rows(jobs[j].seen \cup {jobs[j].order})
<1>1. jobs' = Wrote(Ended(j), rows) \o CancelJobs(stopped)
  BY DEF WriteImport
<1>2. jobs[j].seen \subseteq Bound /\ Bound \subseteq Orders
  BY JobAt DEF JobShape, WriteImport, Bound
<1> HIDE DEF rows
<1>3. stopped \subseteq Bound /\ stopped \in SUBSET Orders
  BY <1>2
<1> HIDE DEF stopped
<1>4. CancelJobs(stopped) \in Seq(JobRows)
      /\ \A t \in Range(CancelJobs(stopped)) : \E o \in stopped : t = StateJob(o, TRUE)
  BY <1>3, JobsForAll DEF CancelJobs
<1>5. jobs' \in Seq(JobRows) /\ \E old : JobsMove(old, j, {}, Range(CancelJobs(stopped)))
  BY <1>1, <1>4, MoveEnded DEF RowsInv
<1>6. Bound \subseteq Bound'
  BY Written DEF ImportWritten
<1>7. TellLater(Range(CancelJobs(stopped)), TRUE)
  BY <1>3, <1>4, <1>6 DEF TellLater
<1> QED BY <1>5, <1>7

LEMMA WriteImportMove ==
    ASSUME RowsInv, NEW j \in DOMAIN jobs, WriteImport(j)
    PROVE  /\ RowsInv' /\ jobs[j].step = "write"
           /\ \/ /\ UNCHANGED <<sales, binding>>
                 /\ \E r : StartsAgain(j, r) /\ \E old : JobsMove(old, j, {r}, {})
              \/ /\ ImportWritten(j)
                 /\ \E old, New : JobsMove(old, j, {}, New) /\ TellLater(New, TRUE)
<1>1. jobs[j].step = "write" /\ UNCHANGED <<magento, listed, raced>>
  BY DEF WriteImport
<1>2. CASE jobs[j].conflict
  <2>1. jobs' = Postponed(j) /\ UNCHANGED <<sales, binding>>
    BY <1>2 DEF WriteImport
  <2>2. RowsStay
    BY <1>1, <2>1, MagentoStays DEF RowsInv, RowTypes
  <2> QED BY <1>1, <2>1, <2>2, PostponedAlone
<1>3. CASE ~jobs[j].conflict
  <2> DEFINE o == jobs[j].order
  <2>1. /\ ImportWritten(j) /\ sales' \in Seq(SaleRows) /\ NewSales
        /\ Len(sales') = Len(sales) + 1
        /\ binding' \in [Orders -> [sale : Nat, parent : Orders \cup {NoOrder}]]
        /\ binding'[o].sale = Len(sales')
        /\ \A p \in Orders \ {o} : binding'[p].sale = binding[p].sale
    BY <1>3, Written
  <2>2. PICK old, New : JobsMove(old, j, {}, New) /\ TellLater(New, TRUE)
    BY <1>3, WrittenJobs
  <2>3. jobs' \in Seq(JobRows)
    BY <1>3, WrittenJobs
  <2>4. Bound' = Bound \cup {o} /\ o \in Orders \ Bound /\ Bound \subseteq Orders
    BY <2>1 DEF ImportWritten, Bound
  <2>5. RowTypes'
    BY <1>1, <2>1, <2>3 DEF RowsInv, RowTypes
  <2>6. (\A i \in DOMAIN jobs : JobShape(jobs[i]))'
    <3>1. ASSUME NEW t \in New PROVE JobShape(t)'
      <4>1. PICK p \in Bound' : t = StateJob(p, TRUE)
        BY <2>2 DEF TellLater
      <4> QED BY <4>1 DEF StateJob, Job, JobShape
    <3> QED BY <2>2, <2>4, <3>1, ShapesKept DEF RowsInv
  <2>7. ASSUME NEW p \in Orders
        PROVE  /\ binding'[p].sale <= Len(sales')
               /\ binding'[p].parent # NoOrder =>
                     p \in Bound' /\ binding'[p].parent \in Bound'
                     /\ Place(binding'[p].parent) < Place(p)
    <3>1. Len(sales) \in Nat /\ binding[p].sale <= Len(sales) /\ binding[p].sale \in Nat
          /\ (binding[p].parent # NoOrder =>
                     p \in Bound /\ binding[p].parent \in Bound
                     /\ Place(binding[p].parent) < Place(p))
      BY DEF RowsInv, RowTypes, Bindings
    <3>2. binding'[p].sale <= Len(sales')
      BY <2>1, <3>1
    <3>3. jobs[j].seen \subseteq Bound /\ jobs[j].seen \in SUBSET Orders
      BY <1>1, <2>4, JobAt DEF JobShape
    <3>4. Nearest(p, jobs[j].seen) # NoOrder =>
             Nearest(p, jobs[j].seen) \in Bound /\ Place(Nearest(p, jobs[j].seen)) < Place(p)
      BY <3>3, NearestIs
    <3>5. CASE p = o
      BY <2>1, <2>4, <3>2, <3>4, <3>5 DEF ImportWritten
    <3>6. CASE p \in Bound
      BY <2>1, <2>4, <3>1, <3>2, <3>4, <3>6 DEF ImportWritten
    <3>7. CASE p \notin Bound \cup {o}
      <4>1. binding'[p] = binding[p]
        <5>1. p \notin jobs[j].seen
          BY <3>3, <3>7
        <5> QED BY <1>3, <3>7, <5>1 DEF WriteImport
      <4> QED BY <2>4, <3>1, <3>2, <4>1
    <3> QED BY <3>5, <3>6, <3>7
  <2>8. ASSUME NEW p \in Bound', NEW q \in Bound', binding'[p].sale = binding'[q].sale
        PROVE  p = q
    <3>1. \A x \in Bound : x \in Orders \ {o} /\ binding'[x].sale = binding[x].sale
                           /\ binding[x].sale \in DOMAIN sales
      BY <2>1, <2>4, SaleAt
    <3>2. \A x \in Bound : binding'[x].sale # Len(sales')
      <4>1. sales \in Seq(SaleRows) /\ DOMAIN sales = 1..Len(sales)
        BY DEF RowsInv, RowTypes
      <4> QED BY <2>1, <3>1, <4>1
    <3>3. p \in Bound /\ q \in Bound => p = q
      BY <2>8, <3>1 DEF RowsInv, Bindings
    <3> QED BY <2>1, <2>4, <2>8, <3>2, <3>3
  <2>9. Bindings'
    BY <2>6, <2>7, <2>8 DEF Bindings
  <2>10. ImportsOnce'
    <3>1. ASSUME NEW i \in DOMAIN jobs, jobs[i].task = "import", i # j
          PROVE  jobs[i].order \notin Bound'
      <4>1. jobs[j].task = "import"
        BY <1>1, JobAt DEF JobShape
      <4> QED BY <2>4, <3>1, <4>1 DEF RowsInv, ImportsOnce
    <3>2. \A t \in New : t.task = "state"
      BY <2>2 DEF TellLater, StateJob, Job
    <3>3. Bound' \subseteq listed'
      <4>1. jobs[j].task = "import"
        BY <1>1, JobAt DEF JobShape
      <4> QED BY <1>1, <2>4, <4>1 DEF RowsInv, ImportsOnce
    <3> QED BY <1>1, <2>2, <3>1, <3>2, <3>3, ImportsKept DEF RowsInv
  <2>11. EditedOnce'
    <3>1. o \in listed
      <4>1. jobs[j].task = "import"
        BY <1>1, JobAt DEF JobShape
      <4> QED BY <4>1 DEF RowsInv, ImportsOnce
    <3> QED BY <1>1, <2>4, <3>1 DEF RowsInv, EditedOnce
  <2>12. Flags'
    BY <2>1 DEF NewSales, Flags
  <2> QED BY <1>1, <2>1, <2>2, <2>5, <2>9, <2>10, <2>11, <2>12 DEF RowsInv
<1> QED BY <1>2, <1>3

\* The sale orders after a step that leaves the bindings of orders alone, but for
\* moving those of one sale order to another.
LEMMA SalesTypes ==
    RowsInv => /\ sales \in Seq(SaleRows) /\ DOMAIN sales = 1..Len(sales) /\ Len(sales) \in Nat
               /\ \A s \in DOMAIN sales : sales[s] \in SaleRows /\ FlagsFit(sales[s])
               /\ binding \in [Orders -> [sale : Nat, parent : Orders \cup {NoOrder}]]
<1> SUFFICES ASSUME RowsInv
             PROVE  /\ sales \in Seq(SaleRows) /\ DOMAIN sales = 1..Len(sales) /\ Len(sales) \in Nat
                    /\ \A s \in DOMAIN sales : sales[s] \in SaleRows /\ FlagsFit(sales[s])
                    /\ binding \in [Orders -> [sale : Nat, parent : Orders \cup {NoOrder}]]
  OBVIOUS
<1>1. sales \in Seq(SaleRows)
  BY DEF RowsInv, RowTypes
<1>2. \A s \in DOMAIN sales : sales[s] \in SaleRows
  BY <1>1
<1> QED BY <1>1, <1>2 DEF RowsInv, RowTypes, Flags

LEMMA OrdersOf ==
    ASSUME RowsInv, NEW s \in DOMAIN sales
    PROVE  OrderOf(s) \subseteq Bound /\ OrderOf(s) \in SUBSET Orders
<1>1. s # 0
  BY SalesTypes
<1> QED BY <1>1 DEF OrderOf, Bound

\* What a user has written: one sale order, and perhaps jobs that tell that it is canceled.
LEMMA StoreMove ==
    ASSUME RowsInv, NEW s \in DOMAIN sales, NEW r \in SaleRows, FlagsFit(r), Store(s, r)
    PROVE  /\ RowsInv' /\ UNCHANGED <<magento, binding, raced>> /\ Bound' = Bound
           /\ \E old, New : JobsMove(old, 0, {}, New) /\ TellLater(New, TRUE)
           /\ \A o \in Bound : Sale(o)' = IF binding[o].sale = s THEN r ELSE Sale(o)
<1> DEFINE told == IF r.state = "cancel" /\ sales[s].state # "cancel"
                   THEN CancelJobs(OrderOf(s)) ELSE <<>>
<1>1. /\ sales' = [sales EXCEPT ![s] = r] /\ UNCHANGED <<magento, binding, listed, crashes, raced>>
      /\ jobs' = Wrote(jobs, {"sale"} \X OrderOf(s)) \o told
  BY DEF Store
<1>2. Bound' = Bound
  BY <1>1 DEF Bound
<1>3. told \in Seq(JobRows) /\ TellLater(Range(told), TRUE)
  <2>1. /\ CancelJobs(OrderOf(s)) \in Seq(JobRows)
        /\ \A t \in Range(CancelJobs(OrderOf(s))) : \E o \in OrderOf(s) : t = StateJob(o, TRUE)
    BY OrdersOf, JobsForAll DEF CancelJobs
  <2>2. told = <<>> \/ told = CancelJobs(OrderOf(s))
    OBVIOUS
  <2> HIDE DEF told
  <2>3. CASE told = <<>>
    BY <2>3, NoNewJobs DEF TellLater
  <2>4. CASE told = CancelJobs(OrderOf(s))
    BY <1>2, <2>1, <2>4, OrdersOf DEF TellLater
  <2> QED BY <2>2, <2>3, <2>4
<1> HIDE DEF told
<1>4. PICK old : JobsMove(old, 0, {}, Range(told))
  BY <1>1, <1>3, MoveWrote DEF RowsInv
<1>5. jobs' \in Seq(JobRows)
  BY <1>1, <1>3, MoveWrote DEF RowsInv
<1>6. /\ sales' \in Seq(SaleRows) /\ DOMAIN sales' = DOMAIN sales /\ Len(sales') = Len(sales)
      /\ sales'[s] = r /\ \A x \in DOMAIN sales : x # s => sales'[x] = sales[x]
  BY <1>1, SalesTypes, ExceptSeq
<1>7. RowTypes'
  BY <1>1, <1>5, <1>6 DEF RowsInv, RowTypes
<1>8. \A t \in Range(told) : t.task = "state" /\ JobShape(t)'
  <2> TAKE t \in Range(told)
  <2>1. PICK p \in Bound' : t = StateJob(p, TRUE)
    BY <1>3 DEF TellLater
  <2> QED BY <2>1 DEF StateJob, Job, JobShape
<1>9. (\A i \in DOMAIN jobs : JobShape(jobs[i]))'
  BY <1>2, <1>4, <1>8, ShapesKept DEF RowsInv
<1>10. Bindings'
  <2>1. binding' = binding /\ Len(sales') = Len(sales) /\ Bindings
    BY <1>1, <1>6 DEF RowsInv
  <2> QED BY <1>2, <1>9, <2>1 DEF Bindings
<1>11. ImportsOnce'
  <2>1. /\ Bound' \subseteq listed'
        /\ \A i \in DOMAIN jobs : jobs[i].task = "import" => jobs[i].order \notin Bound'
    BY <1>1, <1>2 DEF RowsInv, ImportsOnce
  <2> QED BY <1>1, <1>4, <1>8, <2>1, ImportsKept DEF RowsInv
<1>12. EditedOnce' /\ Flags'
  BY <1>1, <1>2, <1>6, SalesTypes DEF RowsInv, EditedOnce, Flags
<1>13. \A o \in Bound : Sale(o)' = IF binding[o].sale = s THEN r ELSE Sale(o)
  BY <1>1, <1>6, SaleAt DEF Sale
<1> QED BY <1>1, <1>2, <1>3, <1>4, <1>7, <1>10, <1>11, <1>12, <1>13 DEF RowsInv

\* The copy of a canceled sale order.
Copied(sale, c) ==
    /\ c \in SaleRows /\ FlagsFit(c) /\ c.state \in {"draft", "cancel"}
    /\ c.canceled = sale.canceled /\ (sale.resolved => c.resolved)

LEMMA CopyMove ==
    ASSUME RowsInv, NEW s \in DOMAIN sales, CopyQuotation(s)
    PROVE  /\ RowsInv' /\ UNCHANGED <<magento, raced>> /\ Bound' = Bound
           /\ \A o \in Orders : binding'[o].parent = binding[o].parent
           /\ \E old, New : JobsMove(old, 0, {}, New) /\ TellLater(New, FALSE)
           /\ \A o \in OrderOf(s) : \E i \in DOMAIN jobs' : jobs'[i] = StateJob(o, FALSE)
           /\ \E c : /\ Copied(sales[s], c)
                     /\ \A o \in Bound : Sale(o)' = IF o \in OrderOf(s) THEN c ELSE Sale(o)
<1> DEFINE sale == sales[s]
           copy == [sale EXCEPT !.state = "draft", !.ignore = FALSE, !.paid = FALSE,
                                !.documents = FALSE, !.kept = FALSE]
           c == IF copy.canceled THEN TryAutoCancel(copy) ELSE copy
           moved == OrderOf(s)
<1>1. /\ sale.state = "cancel" /\ sales' = Append(sales, c)
      /\ binding' = [o \in Orders |->
              IF o \in moved THEN [binding[o] EXCEPT !.sale = Len(sales')] ELSE binding[o]]
      /\ jobs' = Wrote(jobs, {"binding"} \X moved) \o ReopenJobs(moved)
      /\ UNCHANGED <<magento, listed, crashes, raced>>
  BY DEF CopyQuotation
<1>2. sale \in SaleRows /\ FlagsFit(sale)
  BY SalesTypes
<1>3. Copied(sale, c)
  <2>1. copy \in SaleRows /\ copy.state = "draft" /\ copy.canceled = sale.canceled
        /\ copy.resolved = sale.resolved /\ ~copy.paid /\ ~copy.documents
    BY <1>2 DEF SaleRows
  <2> HIDE DEF copy
  <2>2. CASE copy.canceled
    <3>1. c = Canceled(copy)
      BY <2>1, <2>2 DEF TryAutoCancel, CanCancel
    <3>2. c \in SaleRows /\ c.state = "cancel" /\ c.canceled /\ c.resolved
      BY <2>1, <2>2, <3>1 DEF Canceled, SaleRows
    <3> QED BY <2>1, <2>2, <3>2 DEF Copied, FlagsFit
  <2>3. CASE ~copy.canceled
    BY <1>2, <2>1, <2>3 DEF Copied, FlagsFit
  <2> QED BY <2>2, <2>3
<1> HIDE DEF c, copy
<1>4. /\ sales' \in Seq(SaleRows) /\ Len(sales') = Len(sales) + 1 /\ sales'[Len(sales')] = c
      /\ DOMAIN sales' = 1..(Len(sales) + 1)
      /\ \A x \in 1..Len(sales) : sales'[x] = sales[x]
  BY <1>1, <1>3, SalesTypes, AppendProperties DEF Copied
<1>5. moved \subseteq Bound /\ moved \in SUBSET Orders /\ Bound \subseteq Orders
  BY OrdersOf DEF Bound
<1>6. ASSUME NEW o \in Orders
      PROVE  /\ binding'[o] \in [sale : Nat, parent : Orders \cup {NoOrder}]
             /\ binding'[o].parent = binding[o].parent
             /\ o \in moved => binding'[o].sale = Len(sales')
             /\ o \notin moved => binding'[o].sale = binding[o].sale
  <2>1. binding[o] \in [sale : Nat, parent : Orders \cup {NoOrder}] /\ Len(sales') \in Nat
    BY <1>4, SalesTypes
  <2> QED BY <1>1, <2>1
<1>7. binding' \in [Orders -> [sale : Nat, parent : Orders \cup {NoOrder}]]
  <2>1. binding' = [o \in Orders |-> binding'[o]]
    BY <1>1
  <2> QED BY <1>6, <2>1
<1>8. Bound' = Bound
  <2>1. Len(sales') # 0
    BY <1>4, SalesTypes
  <2>2. \A o \in Orders : binding'[o].sale # 0 <=> binding[o].sale # 0
    BY <1>5, <1>6, <2>1 DEF Bound
  <2>3. Bound' = {o \in Orders : binding'[o].sale # 0}
    BY DEF Bound
  <2> QED BY <2>2, <2>3 DEF Bound
<1>9. /\ ReopenJobs(moved) \in Seq(JobRows)
      /\ \A t \in Range(ReopenJobs(moved)) : \E o \in moved : t = StateJob(o, FALSE)
      /\ \A o \in moved : \E n \in DOMAIN ReopenJobs(moved) :
            ReopenJobs(moved)[n] = StateJob(o, FALSE)
  BY <1>5, JobsForAll DEF ReopenJobs
<1> DEFINE New == Range(ReopenJobs(moved))
<1>10. TellLater(New, FALSE)
  BY <1>5, <1>8, <1>9 DEF TellLater
<1>11. /\ jobs' \in Seq(JobRows) /\ \E old : JobsMove(old, 0, {}, New)
       /\ \A n \in DOMAIN ReopenJobs(moved) : \E i \in DOMAIN jobs' :
             jobs'[i] = ReopenJobs(moved)[n]
  BY <1>1, <1>9, MoveWrote DEF RowsInv
<1> HIDE DEF New
<1>12. PICK old : JobsMove(old, 0, {}, New)
  BY <1>11
<1>13. RowTypes'
  BY <1>1, <1>4, <1>7, <1>11 DEF RowsInv, RowTypes
<1>14. \A t \in New : t.task = "state" /\ JobShape(t)'
  <2> TAKE t \in New
  <2>1. PICK p \in Bound' : t = StateJob(p, FALSE)
    BY <1>10 DEF TellLater
  <2> QED BY <2>1 DEF StateJob, Job, JobShape
<1>15. (\A i \in DOMAIN jobs : JobShape(jobs[i]))'
  BY <1>8, <1>12, <1>14, ShapesKept DEF RowsInv
<1>16. Bindings'
  <2>1. ASSUME NEW o \in Orders
        PROVE  /\ binding'[o].sale <= Len(sales')
               /\ binding'[o].parent # NoOrder =>
                     o \in Bound' /\ binding'[o].parent \in Bound'
                     /\ Place(binding'[o].parent) < Place(o)
    <3>1. binding[o].sale <= Len(sales) /\ binding[o].sale \in Nat /\ Len(sales) \in Nat
      BY SalesTypes DEF RowsInv, Bindings
    <3> QED BY <1>4, <1>6, <1>8, <3>1 DEF RowsInv, Bindings
  <2>2. ASSUME NEW o \in Bound', NEW p \in Bound', binding'[o].sale = binding'[p].sale
        PROVE  o = p
    <3>1. o \in Bound /\ p \in Bound /\ o \in Orders /\ p \in Orders
      BY <1>5, <1>8
    <3>2. binding[o].sale \in 1..Len(sales) /\ binding[p].sale \in 1..Len(sales)
      BY <3>1, SaleAt, SalesTypes
    <3>3. o \in moved <=> p \in moved
      BY <1>4, <1>6, <2>2, <3>1, <3>2, SalesTypes
    <3>4. binding[o].sale = binding[p].sale
      BY <1>6, <2>2, <3>1, <3>3 DEF OrderOf
    <3> QED BY <3>1, <3>4 DEF RowsInv, Bindings
  <2> QED BY <1>15, <2>1, <2>2 DEF Bindings
<1>17. ImportsOnce'
  <2>1. /\ Bound' \subseteq listed'
        /\ \A i \in DOMAIN jobs : jobs[i].task = "import" => jobs[i].order \notin Bound'
    BY <1>1, <1>8 DEF RowsInv, ImportsOnce
  <2> QED BY <1>1, <1>12, <1>14, <2>1, ImportsKept DEF RowsInv
<1>18. EditedOnce'
  BY <1>1, <1>8 DEF RowsInv, EditedOnce
<1>19. Flags'
  <2> SUFFICES ASSUME NEW x \in DOMAIN sales' PROVE FlagsFit(sales'[x])
    BY DEF Flags
  <2>1. x \in 1..Len(sales) \/ x = Len(sales')
    BY <1>4, SalesTypes
  <2> QED BY <1>3, <1>4, <2>1, SalesTypes DEF Copied
<1>20. \A o \in Bound : Sale(o)' = IF o \in moved THEN c ELSE Sale(o)
  <2> TAKE o \in Bound
  <2>1. o \in Orders /\ binding[o].sale \in 1..Len(sales)
    BY <1>5, SaleAt, SalesTypes
  <2> QED BY <1>4, <1>6, <2>1 DEF Sale
<1>21. \A o \in moved : \E i \in DOMAIN jobs' : jobs'[i] = StateJob(o, FALSE)
  BY <1>9, <1>11
<1>22. RowsInv'
  BY <1>13, <1>16, <1>17, <1>18, <1>19 DEF RowsInv
<1>23. \E c1 : /\ Copied(sales[s], c1)
               /\ \A o \in Bound : Sale(o)' = IF o \in OrderOf(s) THEN c1 ELSE Sale(o)
  BY <1>3, <1>20
<1>24. \E old1, New1 : JobsMove(old1, 0, {}, New1) /\ TellLater(New1, FALSE)
  BY <1>10, <1>12
<1>25. UNCHANGED <<magento, raced>> /\ \A o \in Orders : binding'[o].parent = binding[o].parent
  BY <1>1, <1>6
<1> QED BY <1>8, <1>21, <1>22, <1>23, <1>24, <1>25

\* The steps of Magento, and the batch.
LEMMA PlaceOrderMove ==
    ASSUME RowsInv, NEW o \in Orders, PlaceOrder(o)
    PROVE  /\ RowsInv' /\ UNCHANGED <<sales, binding, raced>>
           /\ \E old : JobsMove(old, 0, {}, {})
           /\ o \notin Bound /\ magento'[o].status = "pending"
           /\ \A p \in Orders \ {o} : magento'[p].state = "new" => magento'[p] = magento[p]
<1>1. /\ magento[o].state = "none"
      /\ Place(o) > 1 => magento[Chain[Place(o) - 1]].state = "new"
      /\ magento' = [p \in Orders |->
             IF p = o THEN [state |-> "new", status |-> "pending", paid |-> FALSE]
             ELSE IF Place(p) = Place(o) - 1
                  THEN [magento[p] EXCEPT !.state = "canceled", !.status = "canceled"]
                  ELSE magento[p]]
      /\ UNCHANGED <<sales, binding, jobs, listed, users, crashes, raced>>
  BY DEF PlaceOrder
<1>2. Bound' = Bound /\ Bound \subseteq Orders
  BY <1>1 DEF Bound
<1>3. magento \in MagentoRows
  BY DEF RowsInv, RowTypes, MagentoRows
<1>4. ASSUME NEW p \in Orders
      PROVE  /\ magento'[p] \in [state : {"none", "new", "canceled"}, status : Statuses,
                                 paid : BOOLEAN]
             /\ magento'[p].state = IF p = o THEN "new"
                                    ELSE IF Place(p) = Place(o) - 1 THEN "canceled"
                                    ELSE magento[p].state
             /\ p # o /\ magento'[p].state = "new" => magento'[p] = magento[p]
             /\ p = o => magento'[p].status = "pending"
  <2>1. magento[p] \in [state : {"none", "new", "canceled"}, status : Statuses, paid : BOOLEAN]
    BY <1>3 DEF MagentoRows
  <2>2. CASE p = o
    BY <1>1, <2>2 DEF Statuses
  <2>3. CASE p # o /\ Place(p) = Place(o) - 1
    BY <1>1, <2>1, <2>3 DEF Statuses
  <2>4. CASE p # o /\ Place(p) # Place(o) - 1
    BY <1>1, <2>1, <2>4
  <2> QED BY <2>2, <2>3, <2>4
<1>5. magento' \in MagentoRows
  <2>1. magento' = [p \in Orders |-> magento'[p]]
    BY <1>1
  <2> QED BY <1>4, <2>1 DEF MagentoRows
<1>6. o \notin Bound \cup listed
  BY <1>1 DEF RowsInv, EditedOnce
<1>7. RowTypes' /\ Flags'
  BY <1>1, <1>5 DEF RowsInv, RowTypes, Flags, MagentoRows
<1>8. jobs' \in Seq(JobRows) /\ \E old : JobsMove(old, 0, {}, {})
  BY <1>1, MoveNone DEF RowsInv
<1>9. (\A i \in DOMAIN jobs : JobShape(jobs[i]))'
  BY <1>2, <1>8, ShapesKept DEF RowsInv
<1>10. Bindings'
  <2>1. binding' = binding /\ Len(sales') = Len(sales) /\ Bindings
    BY <1>1 DEF RowsInv
  <2> QED BY <1>2, <1>9, <2>1 DEF Bindings
<1>11. ImportsOnce'
  <2>1. jobs' = jobs /\ listed' = listed /\ ImportsOnce
    BY <1>1 DEF RowsInv
  <2> QED BY <1>2, <2>1 DEF ImportsOnce
<1>12. EditedOnce'
  <2>1. ASSUME NEW p \in Orders, NEW q \in Orders, Place(p) < Place(q),
               magento'[q].state # "none"
        PROVE  magento'[p].state = "canceled"
    <3>1. CASE q = o
      <4>3. p # o
        <5>1. Place(o) \in Nat
          BY Places
        <5> QED BY <2>1, <3>1, <5>1
      <4>1. CASE Place(p) = Place(o) - 1
        BY <1>4, <4>1, <4>3
      <4>2. CASE Place(p) # Place(o) - 1
        <5> DEFINE r == Chain[Place(o) - 1]
        <5>1. Place(o) > 1 /\ Place(p) < Place(o) - 1
          <6>1. Place(o) \in Nat /\ Place(p) \in Nat /\ Place(p) >= 1
            BY Places
          <6> QED BY <2>1, <3>1, <4>2, <6>1
        <5>2. r \in Orders /\ Place(r) = Place(o) - 1 /\ magento[r].state = "new"
          BY <1>1, <5>1, Places
        <5>3. magento[p].state = "canceled"
          BY <5>1, <5>2 DEF RowsInv, EditedOnce
        <5> QED BY <1>4, <4>2, <4>3, <5>3
      <4> QED BY <4>1, <4>2
    <3>2. CASE q # o
      <4>1. magento[q].state # "none"
        <5>1. CASE Place(q) = Place(o) - 1
          <6>1. Place(o) > 1
            <7>1. Place(o) \in Nat /\ Place(q) \in Nat /\ Place(q) >= 1
              BY Places
            <7> QED BY <5>1, <7>1
          <6>2. q = Chain[Place(o) - 1]
            <7>1. Chain[Place(q)] = q
              BY Places
            <7> QED BY <5>1, <7>1
          <6> QED BY <1>1, <6>1, <6>2
        <5>2. CASE Place(q) # Place(o) - 1
          BY <1>4, <2>1, <3>2, <5>2
        <5> QED BY <5>1, <5>2
      <4>2. magento[p].state = "canceled"
        BY <2>1, <4>1 DEF RowsInv, EditedOnce
      <4>3. p # o
        BY <1>1, <4>2
      <4> QED BY <1>4, <4>2, <4>3
    <3> QED BY <3>1, <3>2
  <2>2. ASSUME NEW p \in Orders, p \in Bound' \cup listed' PROVE magento'[p].state # "none"
    <3>1. magento[p].state # "none"
      BY <1>1, <1>2, <2>2 DEF RowsInv, EditedOnce
    <3> QED BY <1>4, <3>1
  <2> QED BY <2>1, <2>2 DEF EditedOnce
<1>13. RowsInv'
  BY <1>7, <1>10, <1>11, <1>12 DEF RowsInv
<1> QED BY <1>1, <1>4, <1>6, <1>8, <1>13

LEMMA PayOrderMove ==
    ASSUME RowsInv, NEW o \in Orders, PayOrder(o)
    PROVE  /\ RowsInv' /\ UNCHANGED <<sales, binding, raced>>
           /\ \E old : JobsMove(old, 0, {}, {})
           /\ \A p \in Orders : /\ magento'[p].state = magento[p].state
                                /\ magento'[p].status = magento[p].status
<1>1. magento' = [magento EXCEPT ![o].paid = TRUE]
      /\ UNCHANGED <<sales, binding, jobs, listed, users, crashes, raced>>
  BY DEF PayOrder
<1>2. magento \in MagentoRows
  BY DEF RowsInv, RowTypes, MagentoRows
<1>3. magento' \in MagentoRows
      /\ \A p \in Orders : /\ magento'[p].state = magento[p].state
                           /\ magento'[p].status = magento[p].status
  BY <1>1, <1>2 DEF MagentoRows
<1>4. RowsStay
  BY <1>1, <1>3 DEF RowsStay, RowsInv, RowTypes
<1>5. jobs' \in Seq(JobRows) /\ \E old : JobsMove(old, 0, {}, {})
  BY <1>1, MoveNone DEF RowsInv
<1>6. Fitting(0, {}, {})
  BY DEF Fitting
<1> QED BY <1>1, <1>3, <1>4, <1>5, <1>6, JobsOnly

LEMMA ListOrderMove ==
    ASSUME RowsInv, NEW o \in Orders, ListOrder(o)
    PROVE  /\ RowsInv' /\ UNCHANGED <<magento, sales, binding, raced>>
           /\ \E old : JobsMove(old, 0, {}, {ImportJob(o)})
<1>1. /\ magento[o].state = "new" /\ o \notin listed
      /\ listed' = listed \cup {o} /\ jobs' = Append(jobs, ImportJob(o))
      /\ UNCHANGED <<magento, sales, binding, users, crashes, raced>>
  BY DEF ListOrder
<1> DEFINE t == ImportJob(o)
<1>2. t \in JobRows /\ t.task = "import" /\ t.order = o /\ t.step = "pending"
  BY JobTypes DEF ImportJob, Job
<1> HIDE DEF t
<1>3. jobs' = Append(jobs, t)
  BY <1>1 DEF t
<1>4. jobs' \in Seq(JobRows)
  BY <1>2, <1>3, MoveAppend DEF RowsInv
<1>5. PICK old : JobsMove(old, 0, {}, {t})
  BY <1>2, <1>3, MoveAppend DEF RowsInv
<1>6. Bound' = Bound
  BY <1>1 DEF Bound
<1>7. RowTypes'
  BY <1>1, <1>4 DEF RowsInv, RowTypes
<1>8. (\A i \in DOMAIN jobs : JobShape(jobs[i]))'
  <2>1. JobShape(t)'
    BY <1>2 DEF JobShape
  <2> QED BY <1>5, <1>6, <2>1, ShapesKept DEF RowsInv
<1>9. Bindings'
  <2>1. binding' = binding /\ Len(sales') = Len(sales) /\ Bindings
    BY <1>1 DEF RowsInv
  <2> QED BY <1>6, <1>8, <2>1 DEF Bindings
<1>10. ImportsOnce'
  <2>1. /\ Bound \subseteq listed /\ o \notin Bound
        /\ \A i \in DOMAIN jobs : jobs[i].task = "import" => jobs[i].order # o
    BY <1>1 DEF RowsInv, ImportsOnce
  <2>2. /\ DOMAIN jobs' = 1..(Len(jobs) + 1) /\ DOMAIN jobs = 1..Len(jobs) /\ Len(jobs) \in Nat
        /\ jobs'[Len(jobs) + 1] = t /\ \A i \in 1..Len(jobs) : jobs'[i] = jobs[i]
    <3>1. jobs \in Seq(JobRows)
      BY DEF RowsInv, RowTypes
    <3> QED BY <1>2, <1>3, <3>1, AppendProperties
  <2>3. \A i \in DOMAIN jobs' : \/ i \in DOMAIN jobs /\ jobs'[i] = jobs[i]
                                \/ i = Len(jobs) + 1 /\ jobs'[i] = t
    BY <2>2
  <2>4. ASSUME NEW i \in DOMAIN jobs', NEW k \in DOMAIN jobs', jobs'[i].task = "import"
        PROVE  /\ jobs'[i].order \in listed' /\ jobs'[i].order \notin Bound
               /\ jobs'[k].task = "import" /\ jobs'[k].order = jobs'[i].order => i = k
    <3>1. CASE i \in DOMAIN jobs /\ jobs'[i] = jobs[i]
      BY <1>1, <1>2, <2>1, <2>3, <2>4, <3>1 DEF RowsInv, ImportsOnce
    <3>2. CASE i = Len(jobs) + 1 /\ jobs'[i] = t
      BY <1>1, <1>2, <2>1, <2>3, <2>4, <3>2
    <3> QED BY <2>3, <3>1, <3>2
  <2> QED BY <1>1, <1>6, <2>1, <2>4 DEF ImportsOnce
<1>11. EditedOnce' /\ Flags'
  BY <1>1, <1>6 DEF RowsInv, EditedOnce, Flags
<1>12. RowsInv'
  BY <1>7, <1>9, <1>10, <1>11 DEF RowsInv
<1> QED BY <1>1, <1>5, <1>12 DEF t

-----------------------------------------------------------------------------
(* Links and flags of the orders that were edited                          *)

\* A sale order that is not another one after a step, compared with before: what
\* is so of an edited order stays so, and an order is not taken to work unless
\* nothing of those before it stands against that.
StepsOn(o) ==
    /\ Sale(o).canceled => Sale(o)'.canceled
    /\ Sale(o).resolved => Sale(o)'.resolved
    /\ AtWork(Sale(o))' =>
          \/ Sale(o)'.ignore
          \/ AtWork(Sale(o)) /\ (Sale(o).ignore => Sale(o)'.ignore)
          \/ \A p \in Bound : Place(p) < Place(o) => Sale(p).resolved

\* Imports that neither begin nor end leave all links as they were.
LEMMA LinksKept ==
    ASSUME RowsInv, LinkInv, raced \subseteq raced', Bound' = Bound,
           \A o \in Bound : binding'[o].parent = binding[o].parent /\ StepsOn(o),
           NEW old, NEW j, NEW At, NEW New, JobsMove(old, j, At, New),
           \A t \in At \cup New : t.step # "write"
    PROVE  LinkInv'
<1> SUFFICES ASSUME "import" \notin raced' PROVE (ImportsAlone /\ FoundAll /\ Linked /\ Resolved)'
  BY DEF LinkInv
<1>1. ImportsAlone /\ FoundAll /\ Linked /\ Resolved
  BY DEF LinkInv
<1>2. ASSUME NEW i \in DOMAIN jobs', jobs'[i].step = "write"
      PROVE  /\ old[i] \in DOMAIN jobs /\ old[i] # 0 /\ jobs[old[i]].step = "write"
             /\ jobs'[i].seen = jobs[old[i]].seen
  BY <1>2 DEF JobsMove, Like
<1>3. ImportsAlone'
  BY <1>1, <1>2 DEF ImportsAlone, JobsMove
<1>4. FoundAll'
  BY <1>1, <1>2 DEF FoundAll
<1>5. Linked'
  <2>1. \A o : Nearest(o, Bound)' = Nearest(o, Bound)
    BY DEF Nearest
  <2> QED BY <1>1, <2>1 DEF Linked
<1>6. Resolved'
  <2> SUFFICES ASSUME NEW p \in Bound, NEW o \in Bound, Place(p) < Place(o)
               PROVE  /\ Sale(p)'.canceled
                      /\ AtWork(Sale(o))' => Sale(o)'.ignore \/ Sale(p)'.resolved
    BY DEF Resolved
  <2>1. Sale(p).canceled /\ (AtWork(Sale(o)) => Sale(o).ignore \/ Sale(p).resolved)
    BY <1>1 DEF Resolved
  <2>2. StepsOn(p) /\ StepsOn(o)
    OBVIOUS
  <2> QED BY <2>1, <2>2 DEF StepsOn
<1> QED BY <1>3, <1>4, <1>5, <1>6

\* Steps that leave the sale orders alone.
LEMMA LinksAlone ==
    ASSUME RowsInv, LinkInv, raced \subseteq raced', UNCHANGED <<sales, binding>>,
           NEW old, NEW j, NEW At, NEW New, JobsMove(old, j, At, New),
           \A t \in At \cup New : t.step # "write"
    PROVE  LinkInv'
<1>1. Bound' = Bound
  BY DEF Bound
<1>2. \A o \in Bound : binding'[o].parent = binding[o].parent /\ StepsOn(o)
  BY DEF StepsOn, Sale, AtWork
<1> QED BY <1>1, <1>2, LinksKept

LEMMA BeginImportLinks ==
    ASSUME RowsInv, LinkInv, NEW j \in DOMAIN jobs, BeginImport(j)
    PROVE  LinkInv'
<1> SUFFICES ASSUME "import" \notin raced' PROVE (ImportsAlone /\ FoundAll /\ Linked /\ Resolved)'
  BY DEF LinkInv
<1>1. PICK old, At : JobsMove(old, j, At, {}) /\ \A t \in At : BegunImport(j, t)
  BY BeginImportMove
<1>2. /\ jobs[j].task = "import" /\ raced \subseteq raced' /\ UNCHANGED <<sales, binding, magento>>
      /\ \A i \in DOMAIN jobs : Going(i) => jobs[i].task # "import"
  BY Started DEF BeginImport
<1>3. Bound' = Bound
  BY <1>2 DEF Bound
<1>4. Linked /\ Resolved
  BY <1>2 DEF LinkInv
<1>5. \A i \in DOMAIN jobs : jobs[i].step # "write"
  <2> TAKE i \in DOMAIN jobs
  <2>1. JobShape(jobs[i])
    BY JobAt
  <2> QED BY <1>2, <2>1 DEF JobShape, Going
<1>6. ASSUME NEW i \in DOMAIN jobs', jobs'[i].step = "write"
      PROVE  old[i] = j /\ old[i] # 0 /\ jobs'[i] \in At
  BY <1>1, <1>5, <1>6 DEF JobsMove, Like
<1>7. ImportsAlone'
  BY <1>1, <1>6 DEF ImportsAlone, JobsMove
<1>8. FoundAll'
  <2> SUFFICES ASSUME NEW i \in DOMAIN jobs', jobs'[i].step = "write" PROVE jobs'[i].seen = Bound
    BY <1>3 DEF FoundAll
  <2> DEFINE o == jobs[j].order
  <2>1. jobs'[i].seen = {p \in Bound : Place(p) < Place(o)} /\ RuleGlobal(o)
    BY <1>1, <1>6 DEF BegunImport
  <2>2. o \in Orders /\ o \in listed \ Bound
    BY <1>2, JobAt DEF RowsInv, ImportsOnce
  <2>3. ASSUME NEW p \in Bound PROVE Place(p) < Place(o)
    <3>1. p \in Orders /\ p # o /\ magento[p].state # "none"
      BY <2>2 DEF Bound, RowsInv, EditedOnce
    <3>2. ~(Place(o) < Place(p))
      BY <2>1, <2>2, <3>1 DEF RowsInv, EditedOnce, RuleGlobal
    <3>3. Place(o) # Place(p) /\ Place(o) \in Nat /\ Place(p) \in Nat
      BY <2>2, <3>1, Places
    <3> QED BY <3>2, <3>3
  <2> QED BY <2>1, <2>3
<1>9. Linked'
  <2>1. \A o : Nearest(o, Bound)' = Nearest(o, Bound)
    BY <1>3 DEF Nearest
  <2> QED BY <1>2, <1>3, <1>4, <2>1 DEF Linked
<1>10. Resolved'
  BY <1>2, <1>3, <1>4 DEF Resolved, Sale, AtWork
<1> QED BY <1>7, <1>8, <1>9, <1>10

LEMMA WriteImportLinks ==
    ASSUME RowsInv, LinkInv, NEW j \in DOMAIN jobs, WriteImport(j)
    PROVE  LinkInv'
<1>1. raced' = raced /\ jobs[j].step = "write" /\ jobs[j].task = "import"
  BY JobAt DEF WriteImport, JobShape
<1>2. CASE /\ UNCHANGED <<sales, binding>>
           /\ \E r : StartsAgain(j, r) /\ \E old : JobsMove(old, j, {r}, {})
  <2>1. PICK r, old : StartsAgain(j, r) /\ JobsMove(old, j, {r}, {})
    BY <1>2
  <2>2. \A t \in {r} \cup {} : t.step # "write"
    BY <2>1 DEF StartsAgain
  <2> QED BY <1>1, <1>2, <2>1, <2>2, LinksAlone
<1>3. CASE /\ ImportWritten(j)
           /\ \E old, New : JobsMove(old, j, {}, New) /\ TellLater(New, TRUE)
  <2> SUFFICES ASSUME "import" \notin raced PROVE (ImportsAlone /\ FoundAll /\ Linked /\ Resolved)'
    BY <1>1 DEF LinkInv
  <2> DEFINE o == jobs[j].order
  <2>1. ImportsAlone /\ FoundAll /\ Linked /\ Resolved
    BY DEF LinkInv
  <2>2. PICK old, New : JobsMove(old, j, {}, New) /\ TellLater(New, TRUE)
    BY <1>3
  <2>3. /\ o \in Orders \ Bound /\ Bound' = Bound \cup {o} /\ Bound \subseteq Orders
        /\ jobs[j].seen = Bound /\ \A p \in Bound : Place(p) < Place(o)
    <3>1. jobs[j].seen = Bound
      BY <1>1, <2>1 DEF FoundAll
    <3> QED BY <1>1, <1>3, <3>1, JobAt DEF ImportWritten, JobShape, Bound
  <2>4. /\ sales'[binding'[o].sale].state = "draft"
        /\ \A p \in Bound : Sale(p)' = Flag(Sale(p))
        /\ binding'[o].parent = Nearest(o, Bound)
        /\ \A p \in Bound : binding'[p].parent =
              IF Nearest(p, Bound) # NoOrder THEN Nearest(p, Bound) ELSE binding[p].parent
    BY <1>3, <2>3 DEF ImportWritten
  <2>5. \A i \in DOMAIN jobs' : jobs'[i].step # "write"
    <3> SUFFICES ASSUME NEW i \in DOMAIN jobs', jobs'[i].step = "write" PROVE FALSE
      OBVIOUS
    <3>1. \A t \in New : t.step = "pending"
      BY <2>2 DEF TellLater, StateJob, Job
    <3>2. old[i] \in DOMAIN jobs /\ old[i] # j /\ jobs[old[i]].step = "write"
      BY <2>2, <3>1 DEF JobsMove, Like
    <3> QED BY <1>1, <2>1, <3>2 DEF ImportsAlone
  <2>6. ImportsAlone' /\ FoundAll'
    BY <2>5 DEF ImportsAlone, FoundAll
  <2>7. Linked'
    <3> SUFFICES ASSUME NEW p \in Bound' PROVE binding'[p].parent = Nearest(p, Bound)'
      BY DEF Linked
    <3>1. p \in Orders /\ (\A q \in Orders : Place(q) < Place(p) => (q \in Bound <=> q \in Bound \cup {o}))
      <4>1. ASSUME Place(o) < Place(p) PROVE FALSE
        <5>1. p \in Orders /\ Place(o) \in Nat /\ Place(p) \in Nat /\ (p = o \/ Place(p) < Place(o))
          BY <2>3, Places
        <5> QED BY <4>1, <5>1
      <4> QED BY <2>3, <4>1
    <3>2. Nearest(p, Bound) = Nearest(p, Bound \cup {o})
      BY <2>3, <3>1, NearestKept
    <3>3. Nearest(p, Bound)' = Nearest(p, Bound \cup {o})
      BY <2>3 DEF Nearest
    <3>4. p # o => binding[p].parent = Nearest(p, Bound)
      BY <2>1, <2>3 DEF Linked
    <3> QED BY <2>3, <2>4, <3>2, <3>3, <3>4
  <2>8. Resolved'
    <3> SUFFICES ASSUME NEW p \in Bound', NEW q \in Bound', Place(p) < Place(q)
                 PROVE  /\ Sale(p)'.canceled
                        /\ AtWork(Sale(q))' => Sale(q)'.ignore \/ Sale(p)'.resolved
      BY DEF Resolved
    <3>1. p \in Bound
      <4>1. ASSUME p = o PROVE FALSE
        <5>1. q \in Orders /\ Place(o) \in Nat /\ Place(q) \in Nat /\ (q = o \/ Place(q) < Place(o))
          BY <2>3, Places
        <5> QED BY <4>1, <5>1
      <4> QED BY <2>3, <4>1
    <3>2. \A x \in Bound : /\ Sale(x)' = Flag(Sale(x)) /\ Goes(Sale(x), Flag(Sale(x)))
                           /\ Flag(Sale(x)).canceled
                           /\ AtWork(Flag(Sale(x))) => AtWork(Sale(x))
      BY <2>4, SaleAt, FlagGoes
    <3>3. CASE q = o
      <4>1. ~AtWork(Sale(q))'
        <5>1. Sale(q)' = sales'[binding'[o].sale]
          BY <3>3 DEF Sale
        <5> QED BY <2>4, <5>1 DEF AtWork
      <4> QED BY <3>1, <3>2, <4>1
    <3>4. CASE q \in Bound
      <4>1. AtWork(Sale(q))' => AtWork(Sale(q))
        BY <3>2, <3>4 DEF AtWork
      <4>2. AtWork(Sale(q)) => Sale(q).ignore \/ Sale(p).resolved
        BY <2>1, <3>1, <3>4 DEF Resolved
      <4> QED BY <3>1, <3>2, <3>4, <4>1, <4>2 DEF Goes
    <3> QED BY <2>3, <3>3, <3>4
  <2> QED BY <2>6, <2>7, <2>8
<1> QED BY <1>2, <1>3, WriteImportMove

\* An order is confirmed when those it was edited from are resolved.
LEMMA StoreLinks ==
    ASSUME RowsInv, LinkInv, NEW s \in DOMAIN sales, NEW r \in SaleRows, FlagsFit(r),
           Store(s, r), Goes(sales[s], r), AtWork(r) => AtWork(sales[s]) \/ ~Exceptions(s)
    PROVE  LinkInv'
<1>1. /\ UNCHANGED <<magento, binding, raced>> /\ Bound' = Bound
      /\ \A o \in Bound : Sale(o)' = IF binding[o].sale = s THEN r ELSE Sale(o)
  BY StoreMove
<1>2. PICK old, New : JobsMove(old, 0, {}, New) /\ TellLater(New, TRUE)
  BY StoreMove
<1>3. \A t \in {} \cup New : t.step # "write"
  BY <1>2 DEF TellLater, StateJob, Job
<1>4. CASE "import" \in raced
  BY <1>1, <1>4 DEF LinkInv
<1>5. CASE "import" \notin raced
  <2>1. Linked /\ Resolved
    BY <1>5 DEF LinkInv
  <2>2. ASSUME NEW o \in Bound PROVE StepsOn(o)
    <3>1. CASE binding[o].sale # s
      <4>1. Sale(o)' = Sale(o)
        BY <1>1, <3>1
      <4> QED BY <4>1 DEF StepsOn, AtWork
    <3>2. CASE binding[o].sale = s
      <4>1. Sale(o)' = r /\ Sale(o) = sales[s]
        BY <1>1, <3>2 DEF Sale
      <4>2. AtWork(Sale(o))' = AtWork(r)
        BY <4>1 DEF AtWork
      <4>3. ASSUME ~Exceptions(s), ~sales[s].ignore, NEW p \in Bound, Place(p) < Place(o)
            PROVE  Sale(p).resolved
        <5>1. o \in OrderOf(s) /\ p \in Parents(o) /\ Sale(p).canceled
          BY <2>1, <3>2, <4>3, AllParents DEF OrderOf, Bound, Resolved, RowsInv
        <5> QED BY <4>3, <5>1 DEF Exceptions, ParentNeedCancel, NeedCancel
      <4>4. Goes(Sale(o), r) /\ (AtWork(r) => AtWork(Sale(o)) \/ ~Exceptions(s))
        BY <4>1
      <4> QED BY <4>1, <4>2, <4>3, <4>4 DEF StepsOn, Goes
    <3> QED BY <3>1, <3>2
  <2> QED BY <1>1, <1>2, <1>3, <2>2, LinksKept
<1> QED BY <1>4, <1>5

LEMMA CopyLinks ==
    ASSUME RowsInv, LinkInv, NEW s \in DOMAIN sales, CopyQuotation(s)
    PROVE  LinkInv'
<1>1. /\ UNCHANGED <<magento, raced>> /\ Bound' = Bound
      /\ \A o \in Orders : binding'[o].parent = binding[o].parent
  BY CopyMove
<1>2. PICK old, New : JobsMove(old, 0, {}, New) /\ TellLater(New, FALSE)
  BY CopyMove
<1>3. PICK c : /\ Copied(sales[s], c)
               /\ \A o \in Bound : Sale(o)' = IF o \in OrderOf(s) THEN c ELSE Sale(o)
  BY CopyMove
<1>4. \A t \in {} \cup New : t.step # "write"
  BY <1>2 DEF TellLater, StateJob, Job
<1>5. ASSUME NEW o \in Bound PROVE StepsOn(o)
  <2>1. CASE o \notin OrderOf(s)
    <3>1. Sale(o)' = Sale(o)
      BY <1>3, <2>1
    <3> QED BY <3>1 DEF StepsOn, AtWork
  <2>2. CASE o \in OrderOf(s)
    <3>1. Sale(o)' = c /\ Sale(o) = sales[s]
      BY <1>3, <2>2 DEF Sale, OrderOf
    <3>2. ~AtWork(Sale(o))'
      BY <1>3, <3>1 DEF AtWork, Copied
    <3> QED BY <1>3, <3>1, <3>2 DEF StepsOn, Copied
  <2> QED BY <2>1, <2>2
<1>6. Bound \subseteq Orders
  BY DEF Bound
<1> QED BY <1>1, <1>2, <1>4, <1>5, <1>6, LinksKept

LEMMA UserMove ==
    ASSUME RowsInv, NEW s \in DOMAIN sales, Confirm(s) \/ CancelSale(s) \/ UserStep(s)
    PROVE  \E r \in SaleRows :
               /\ Store(s, r) /\ FlagsFit(r) /\ Goes(sales[s], r)
               /\ AtWork(r) => AtWork(sales[s]) \/ ~Exceptions(s)
BY UserStores DEF RowsInv

LEMMA StutterMove ==
    ASSUME RowsInv, UNCHANGED vars
    PROVE  RowsInv' /\ \E old : JobsMove(old, 0, {}, {})
<1>1. RowsStay
  BY MagentoStays DEF vars, RowsInv, RowTypes
<1>2. jobs' \in Seq(JobRows) /\ \E old : JobsMove(old, 0, {}, {})
  BY MoveNone DEF vars, RowsInv
<1>3. Fitting(0, {}, {})
  BY DEF Fitting
<1> QED BY <1>1, <1>2, <1>3, JobsOnly

\* One step of a job, in the order of the actions.
LEMMA JobLinks ==
    ASSUME RowsInv, LinkInv, NEW j \in DOMAIN jobs, JobStep(j) \/ Crash(j)
    PROVE  RowsInv' /\ LinkInv'
<1>1. CASE BeginImport(j)
  BY <1>1, BeginImportMove, BeginImportLinks
<1>2. CASE WriteImport(j)
  BY <1>2, WriteImportMove, WriteImportLinks
<1>3. CASE BeginState(j)
  <2>1. /\ RowsInv' /\ \E old, At : JobsMove(old, j, At, {}) /\ \A t \in At : t.step # "write"
    <3>1. CASE \E old : JobsMove(old, j, {}, {})
      BY <1>3, <3>1, BeginStateMove
    <3>2. CASE \E r : BegunState(j, r) /\ \E old : JobsMove(old, j, {r}, {})
      <4>1. PICK r, old : BegunState(j, r) /\ JobsMove(old, j, {r}, {})
        BY <3>2
      <4>2. \A t \in {r} : t.step # "write"
        BY <4>1 DEF BegunState
      <4> QED BY <1>3, <4>1, <4>2, BeginStateMove
    <3> QED BY <1>3, <3>1, <3>2, BeginStateMove
  <2>2. UNCHANGED <<sales, binding>> /\ raced \subseteq raced'
    BY <1>3, Started DEF BeginState
  <2> QED BY <2>1, <2>2, LinksAlone
<1>4. CASE SendState(j)
  <2>1. PICK r, old : r.step = "bind" /\ JobsMove(old, j, {r}, {})
    BY <1>4, SendStateMove
  <2>2. \A t \in {r} \cup {} : t.step # "write"
    BY <2>1
  <2>3. UNCHANGED <<sales, binding>> /\ raced \subseteq raced'
    BY <1>4 DEF SendState
  <2> QED BY <1>4, <2>1, <2>2, <2>3, SendStateMove, LinksAlone
<1>5. CASE BindState(j)
  <2>1. PICK old, At : JobsMove(old, j, At, {}) /\ \A r \in At : StartsAgain(j, r)
    BY <1>5, BindStateMove
  <2>2. \A t \in At \cup {} : t.step # "write"
    BY <2>1 DEF StartsAgain
  <2>3. UNCHANGED <<sales, binding>> /\ raced \subseteq raced'
    BY <1>5 DEF BindState
  <2> QED BY <1>5, <2>1, <2>2, <2>3, BindStateMove, LinksAlone
<1>6. CASE Crash(j)
  <2>1. PICK r, old : StartsAgain(j, r) /\ JobsMove(old, j, {r}, {})
    BY <1>6, CrashMove
  <2>2. \A t \in {r} \cup {} : t.step # "write"
    BY <2>1 DEF StartsAgain
  <2>3. UNCHANGED <<sales, binding>> /\ raced \subseteq raced'
    BY <1>6 DEF Crash
  <2> QED BY <1>6, <2>1, <2>2, <2>3, CrashMove, LinksAlone
<1> QED BY <1>1, <1>2, <1>3, <1>4, <1>5, <1>6 DEF JobStep

LEMMA LinkSteps == RowsInv /\ LinkInv /\ [Next]_vars => RowsInv' /\ LinkInv'
<1> SUFFICES ASSUME RowsInv, LinkInv, [Next]_vars PROVE RowsInv' /\ LinkInv'
  OBVIOUS
<1>1. ASSUME NEW j \in DOMAIN jobs, JobStep(j) \/ Crash(j) PROVE RowsInv' /\ LinkInv'
  BY <1>1, JobLinks
<1>2. ASSUME NEW s \in DOMAIN sales, Confirm(s) \/ CancelSale(s) \/ UserStep(s)
      PROVE  RowsInv' /\ LinkInv'
  <2>1. PICK r \in SaleRows :
               /\ Store(s, r) /\ FlagsFit(r) /\ Goes(sales[s], r)
               /\ AtWork(r) => AtWork(sales[s]) \/ ~Exceptions(s)
    BY <1>2, UserMove
  <2> QED BY <2>1, StoreMove, StoreLinks
<1>3. ASSUME NEW s \in DOMAIN sales, CopyQuotation(s) PROVE RowsInv' /\ LinkInv'
  BY <1>3, CopyMove, CopyLinks
<1>4. ASSUME NEW o \in Orders, PlaceOrder(o) \/ PayOrder(o) PROVE RowsInv' /\ LinkInv'
  <2>1. RowsInv' /\ UNCHANGED <<sales, binding, raced>> /\ \E old : JobsMove(old, 0, {}, {})
    BY <1>4, PlaceOrderMove, PayOrderMove
  <2> QED BY <2>1, LinksAlone
<1>5. ASSUME NEW o \in Orders, ListOrder(o) PROVE RowsInv' /\ LinkInv'
  <2>1. RowsInv' /\ UNCHANGED <<magento, sales, binding, raced>>
    BY <1>5, ListOrderMove
  <2>2. PICK old : JobsMove(old, 0, {}, {ImportJob(o)})
    BY <1>5, ListOrderMove
  <2>3. \A t \in {} \cup {ImportJob(o)} : t.step # "write"
    BY DEF ImportJob, Job
  <2> QED BY <2>1, <2>2, <2>3, LinksAlone
<1>6. CASE UNCHANGED vars
  <2>1. RowsInv' /\ \E old : JobsMove(old, 0, {}, {})
    BY <1>6, StutterMove
  <2> QED BY <1>6, <2>1, LinksAlone DEF vars
<1> QED BY <1>1, <1>2, <1>3, <1>4, <1>5, <1>6 DEF Next

LEMMA LinksHold == Spec => [](RowsInv /\ LinkInv)
<1>1. Init => RowsInv /\ LinkInv
  BY RowsAtFirst
<1> QED BY <1>1, LinkSteps, PTL DEF Spec

\* Each order is bound to one sale order of its own, its parent is a bound order
\* before it, and only bound orders have jobs that tell a state.
THEOREM OrdersTypes == Spec => []OrdersTypeOK
<1>1. ASSUME RowsInv PROVE OrdersTypeOK
  <2> USE <1>1
  <2>1. ASSUME NEW o \in Orders
        PROVE  /\ binding[o].sale \in 0..Len(sales)
               /\ binding[o].parent \in {NoOrder} \cup {p \in Bound : Place(p) < Place(o)}
    <3>1. binding[o].sale \in Nat /\ binding[o].sale <= Len(sales) /\ Len(sales) \in Nat
      BY SalesTypes DEF RowsInv, Bindings
    <3>2. binding[o].parent # NoOrder => binding[o].parent \in Bound
                                         /\ Place(binding[o].parent) < Place(o)
      BY DEF RowsInv, Bindings
    <3> QED BY <3>1, <3>2
  <2>2. ASSUME NEW s \in DOMAIN sales PROVE Cardinality(OrderOf(s)) <= 1
    <3>1. \A o, p \in OrderOf(s) : o = p
      BY OrdersOf DEF OrderOf, RowsInv, Bindings
    <3>2. OrderOf(s) = {} \/ \E o : OrderOf(s) = {o}
      BY <3>1
    <3>3. \A o : Cardinality({o}) = 1
      BY FS_Singleton
    <3>4. Cardinality({}) = 0
      BY FS_EmptySet
    <3>5. Cardinality(OrderOf(s)) \in {0, 1}
      BY <3>2, <3>3, <3>4
    <3> QED BY <3>5
  <2>3. \A j \in DOMAIN jobs : jobs[j].task = "state" => jobs[j].order \in Bound
    BY JobAt DEF JobShape
  <2> QED BY <2>1, <2>2, <2>3 DEF OrdersTypeOK
<1> QED BY <1>1, LinksHold, PTL

\* For any chain of editions: an imported order that was edited is flagged as
\* canceled in the backend, unless imports have run at the same time.
THEOREM EditedAreFlagged == Spec => []ParentFlagged
<1>1. LinkInv => ParentFlagged
  BY DEF LinkInv, Resolved, ParentFlagged
<1> QED BY <1>1, LinksHold, PTL

\* For any chain of editions: two orders of it are not both at work, unless a user
\* has kept the first or ignored the exceptions of the other.
THEOREM OneOfTheChainAtWork == Spec => []OneOrderAtWork
<1>1. ASSUME RowsInv, LinkInv PROVE OneOrderAtWork
  <2> SUFFICES ASSUME "import" \notin raced, NEW p \in Bound, NEW o \in Bound,
                      Place(p) < Place(o), AtWork(Sale(p)), AtWork(Sale(o))
               PROVE  Sale(p).kept \/ Sale(o).ignore
    BY DEF OneOrderAtWork
  <2>1. Sale(o).ignore \/ Sale(p).resolved
    BY <1>1 DEF LinkInv, Resolved
  <2>2. FlagsFit(Sale(p)) /\ Sale(p).state # "cancel"
    BY <1>1, SaleAt DEF AtWork
  <2> QED BY <2>1, <2>2 DEF FlagsFit
<1> QED BY <1>1, LinksHold, PTL

-----------------------------------------------------------------------------
(* What is shown on Magento                                                *)

\* An open order o is not shown as canceled, or a job that corrects it is there.
CorrectedOf(o) ==
    /\ magento[o].state = "new" /\ Sale(o).state # "cancel"
    /\ magento[o].status = "canceled" \/ \E j \in DOMAIN jobs : Tells(jobs[j], o)
    => \E i \in DOMAIN jobs : Corrects(jobs[i], o)

\* A step that is not about this order, or that leaves a job that corrects it in
\* the place of one.
LEMMA CorrectedKept ==
    ASSUME RowsInv, NEW o \in Orders, CorrectedOf(o),
           magento'[o].state = "new" => magento[o].state = "new",
           magento'[o].status = "canceled" => magento[o].status = "canceled",
           Sale(o)'.state # "cancel" => Sale(o).state # "cancel",
           NEW old, NEW j, NEW At, NEW New, JobsMove(old, j, At, New),
           \A t \in At \cup New : ~Tells(t, o),
           j \in DOMAIN jobs /\ Corrects(jobs[j], o) =>
               \E i \in DOMAIN jobs' : Corrects(jobs'[i], o)
    PROVE  CorrectedOf(o)'
<1> SUFFICES ASSUME magento'[o].state = "new", Sale(o)'.state # "cancel",
                    magento'[o].status = "canceled" \/ \E k \in DOMAIN jobs' : Tells(jobs'[k], o)
             PROVE  \E i \in DOMAIN jobs' : Corrects(jobs'[i], o)
  BY DEF CorrectedOf, Tells, Corrects
<1>1. ASSUME NEW k \in DOMAIN jobs', Tells(jobs'[k], o) PROVE \E i \in DOMAIN jobs : Tells(jobs[i], o)
  <2>1. old[k] \in DOMAIN jobs /\ Like(jobs'[k], jobs[old[k]])
    BY <1>1 DEF JobsMove
  <2> QED BY <1>1, <2>1 DEF Tells, Like
<1>2. PICK i \in DOMAIN jobs : Corrects(jobs[i], o)
  BY <1>1 DEF CorrectedOf
<1>3. CASE i = j
  BY <1>2, <1>3
<1>4. CASE i # j
  <2>1. PICK k \in DOMAIN jobs' : old[k] = i
    BY <1>4 DEF JobsMove
  <2>2. i # 0
    BY DEF RowsInv, RowTypes
  <2>3. Like(jobs'[k], jobs[i])
    BY <1>4, <2>1, <2>2 DEF JobsMove
  <2> QED BY <1>2, <2>3 DEF Corrects, Like
<1> QED BY <1>3, <1>4

\* As long as jobs that tell a state run one after the other, no step but the
\* beginning of one makes two of them.
LEMMA StatesKept ==
    ASSUME RowsInv, StatesAlone, NEW old, NEW j, NEW At, NEW New, JobsMove(old, j, At, New),
           \A t \in At : t.step \in {"send", "bind"} => jobs[j].step \in {"send", "bind"},
           \A t \in New : t.step \notin {"send", "bind"}
    PROVE  StatesAlone'
<1>1. ASSUME NEW i \in DOMAIN jobs', jobs'[i].step \in {"send", "bind"}
      PROVE  old[i] \in DOMAIN jobs /\ old[i] # 0 /\ jobs[old[i]].step \in {"send", "bind"}
  <2>1. old[i] # 0 /\ old[i] \in DOMAIN jobs
    BY <1>1 DEF JobsMove
  <2>2. CASE old[i] = j
    BY <1>1, <2>1, <2>2 DEF JobsMove
  <2>3. CASE old[i] # j
    BY <1>1, <2>1, <2>3 DEF JobsMove, Like
  <2> QED BY <2>1, <2>2, <2>3
<1> QED BY <1>1 DEF StatesAlone, JobsMove

\* What is so of orders that are not yet imported.
NotShownYet == \A o \in Orders \ Bound : magento[o].state = "new" => magento[o].status = "pending"

\* Steps that change nothing on Magento and, for the orders that are not imported
\* by them, no sale order to an open one.
LEMMA ShownKept ==
    ASSUME RowsInv, ShownInv, raced \subseteq raced', Bound \subseteq Bound',
           \A o \in Orders : magento'[o].state = magento[o].state
                             /\ magento'[o].status = magento[o].status,
           NEW old, NEW j, NEW At, NEW New, JobsMove(old, j, At, New),
           \A t \in At \cup New : t.step \notin {"send", "bind"},
           \A o \in Bound : /\ \/ Sale(o)'.state # "cancel" => Sale(o).state # "cancel"
                               \/ \E i \in DOMAIN jobs' : Corrects(jobs'[i], o)
                            /\ j \in DOMAIN jobs /\ Corrects(jobs[j], o) =>
                                   \E i \in DOMAIN jobs' : Corrects(jobs'[i], o)
    PROVE  ShownInv'
<1>1. NotShownYet'
  BY DEF ShownInv, NotShownYet, Bound
<1>2. ASSUME "state" \notin raced' PROVE (StatesAlone /\ Corrected)'
  <2>1. StatesAlone /\ Corrected
    BY <1>2 DEF ShownInv
  <2>2. StatesAlone'
    BY <2>1, StatesKept
  <2>3. ASSUME NEW o \in Bound' PROVE CorrectedOf(o)'
    <3>1. CASE o \in Bound
      <4>1. CorrectedOf(o) /\ o \in Orders
        BY <2>1, <3>1 DEF Corrected, CorrectedOf, Bound
      <4>2. \A t \in At \cup New : ~Tells(t, o)
        BY DEF Tells
      <4>3. CASE \E i \in DOMAIN jobs' : Corrects(jobs'[i], o)
        BY <4>3 DEF CorrectedOf, Corrects
      <4>4. CASE Sale(o)'.state # "cancel" => Sale(o).state # "cancel"
        BY <3>1, <4>1, <4>2, <4>4, CorrectedKept
      <4> QED BY <3>1, <4>3, <4>4
    <3>2. CASE o \notin Bound
      <4>1. o \in Orders
        BY DEF Bound
      <4>2. magento'[o].state = "new" => magento'[o].status = "pending"
        BY <3>2, <4>1 DEF ShownInv
      <4>3. ASSUME NEW k \in DOMAIN jobs', Tells(jobs'[k], o) PROVE FALSE
        <5>1. old[k] \in DOMAIN jobs /\ Like(jobs'[k], jobs[old[k]])
          BY <4>3 DEF JobsMove, Tells
        <5>2. jobs[old[k]].step = "send" /\ jobs[old[k]].order = o
          BY <4>3, <5>1 DEF Tells, Like
        <5> QED BY <3>2, <5>1, <5>2, JobAt DEF JobShape
      <4> QED BY <4>2, <4>3 DEF CorrectedOf, Tells
    <3> QED BY <3>1, <3>2
  <2> QED BY <2>2, <2>3 DEF Corrected, CorrectedOf
<1> QED BY <1>1, <1>2 DEF ShownInv, NotShownYet

\* Steps that leave the sale orders and Magento alone.
LEMMA ShownAlone ==
    ASSUME RowsInv, ShownInv, raced \subseteq raced', UNCHANGED <<sales, binding>>,
           \A o \in Orders : magento'[o].state = magento[o].state
                             /\ magento'[o].status = magento[o].status,
           NEW old, NEW j, NEW At, NEW New, JobsMove(old, j, At, New),
           \A t \in At \cup New : t.step \notin {"send", "bind"},
           \A o \in Bound : j \in DOMAIN jobs /\ Corrects(jobs[j], o) =>
                                \E i \in DOMAIN jobs' : Corrects(jobs'[i], o)
    PROVE  ShownInv'
<1>1. Bound' = Bound
  BY DEF Bound
<1>2. \A o \in Bound : Sale(o)'.state = Sale(o).state
  BY DEF Sale
<1> QED BY <1>1, <1>2, ShownKept

LEMMA BeginImportShown ==
    ASSUME RowsInv, ShownInv, NEW j \in DOMAIN jobs, BeginImport(j)
    PROVE  ShownInv'
<1>1. PICK old, At : JobsMove(old, j, At, {}) /\ \A t \in At : BegunImport(j, t)
  BY BeginImportMove
<1>2. \A t \in At \cup {} : t.step \notin {"send", "bind"}
  BY <1>1 DEF BegunImport
<1>3. \A o \in Bound : ~Corrects(jobs[j], o)
  BY DEF BeginImport, Corrects
<1>4. UNCHANGED <<sales, binding, magento>> /\ raced \subseteq raced'
  BY Started DEF BeginImport
<1> QED BY <1>1, <1>2, <1>3, <1>4, ShownAlone

LEMMA WriteImportShown ==
    ASSUME RowsInv, ShownInv, NEW j \in DOMAIN jobs, WriteImport(j)
    PROVE  ShownInv'
<1>1. magento' = magento /\ raced' = raced /\ jobs[j].task = "import" /\ jobs[j].step = "write"
  BY JobAt DEF WriteImport, JobShape
<1>2. \A o \in Bound : ~Corrects(jobs[j], o)
  BY <1>1 DEF Corrects
<1>3. CASE /\ UNCHANGED <<sales, binding>>
           /\ \E r : StartsAgain(j, r) /\ \E old : JobsMove(old, j, {r}, {})
  <2>1. PICK r, old : StartsAgain(j, r) /\ JobsMove(old, j, {r}, {})
    BY <1>3
  <2>2. \A t \in {r} \cup {} : t.step \notin {"send", "bind"}
    BY <2>1 DEF StartsAgain
  <2> QED BY <1>1, <1>2, <1>3, <2>1, <2>2, ShownAlone
<1>4. CASE /\ ImportWritten(j)
           /\ \E old, New : JobsMove(old, j, {}, New) /\ TellLater(New, TRUE)
  <2>1. PICK old, New : JobsMove(old, j, {}, New) /\ TellLater(New, TRUE)
    BY <1>4
  <2>2. \A t \in {} \cup New : t.step \notin {"send", "bind"}
    BY <2>1 DEF TellLater, StateJob, Job
  <2>3. ASSUME NEW o \in Bound PROVE Sale(o)'.state # "cancel" => Sale(o).state # "cancel"
    <3>1. Sale(o)' = Flag(Sale(o)) \/ Sale(o)' = Sale(o)
      BY <1>4 DEF ImportWritten
    <3>2. Goes(Sale(o), Flag(Sale(o)))
      BY SaleAt, FlagGoes
    <3> QED BY <3>1, <3>2 DEF Goes
  <2>4. Bound \subseteq Bound'
    BY <1>4 DEF ImportWritten
  <2>5. \A o \in Bound :
             /\ \/ Sale(o)'.state # "cancel" => Sale(o).state # "cancel"
                \/ \E i \in DOMAIN jobs' : Corrects(jobs'[i], o)
             /\ j \in DOMAIN jobs /\ Corrects(jobs[j], o) =>
                    \E i \in DOMAIN jobs' : Corrects(jobs'[i], o)
    BY <1>2, <2>3
  <2> QED BY <1>1, <2>1, <2>2, <2>4, <2>5, ShownKept
<1> QED BY <1>3, <1>4, WriteImportMove

\* The job of a state is taken: it corrects what is shown, or finds it correct.
LEMMA BeginStateShown ==
    ASSUME RowsInv, ShownInv, NEW j \in DOMAIN jobs, BeginState(j)
    PROVE  ShownInv'
<1> DEFINE x == jobs[j].order
<1>1. /\ UNCHANGED <<sales, binding, magento>> /\ raced \subseteq raced'
      /\ jobs[j].step = "pending" /\ jobs[j].task = "state"
      /\ \A i \in DOMAIN jobs : Going(i) /\ jobs[i].task = "state" => "state" \in raced'
  BY Started DEF BeginState
<1>2. Bound' = Bound /\ Bound \subseteq Orders
  BY <1>1 DEF Bound
<1>3. NotShownYet'
  BY <1>1, <1>2 DEF ShownInv, NotShownYet
<1>4. ASSUME "state" \notin raced' PROVE (StatesAlone /\ Corrected)'
  <2>1. Corrected
    BY <1>1, <1>4 DEF ShownInv
  <2>2. \A i \in DOMAIN jobs : jobs[i].step \notin {"send", "bind"}
    <3> TAKE i \in DOMAIN jobs
    <3>1. JobShape(jobs[i])
      BY JobAt
    <3> QED BY <1>1, <1>4, <3>1 DEF JobShape, Going
  <2>3. \A o \in Bound : Sale(o)' = Sale(o)
    BY <1>1 DEF Sale
  <2>4. CASE /\ \E old : JobsMove(old, j, {}, {})
             /\ NotExported(j) \/ magento[x].status = Status(Sale(x).state)
    <3>1. PICK old : JobsMove(old, j, {}, {})
      BY <2>4
    <3>2. \A i \in DOMAIN jobs' : jobs'[i].step \notin {"send", "bind"}
      BY <2>2, <3>1 DEF JobsMove, Like
    <3>3. ASSUME NEW o \in Bound PROVE CorrectedOf(o)'
      <4>1. CASE Corrects(jobs[j], o)
        <5>1. x = o /\ ~jobs[j].only
          BY <1>1, <4>1 DEF Corrects
        <5>2. magento[o].status = Status(Sale(o).state)
          BY <2>4, <5>1 DEF NotExported
        <5>3. Sale(o).state # "cancel" => magento[o].status # "canceled"
          BY <5>2, SaleAt DEF Status
        <5> QED BY <1>1, <2>3, <3>2, <5>3 DEF CorrectedOf, Tells
      <4>2. CASE ~Corrects(jobs[j], o)
        <5>1. CorrectedOf(o) /\ o \in Orders
          BY <1>2, <2>1 DEF Corrected, CorrectedOf
        <5> QED BY <1>1, <2>3, <3>1, <4>2, <5>1, CorrectedKept
      <4> QED BY <4>1, <4>2
    <3>4. StatesAlone'
      BY <3>2 DEF StatesAlone
    <3> QED BY <1>2, <3>3, <3>4 DEF Corrected, CorrectedOf
  <2>5. CASE \E r : /\ BegunState(j, r) /\ \E old : JobsMove(old, j, {r}, {})
                    /\ j \in DOMAIN jobs' /\ jobs'[j] = r
    <3>1. PICK r, old : /\ BegunState(j, r) /\ JobsMove(old, j, {r}, {})
                        /\ j \in DOMAIN jobs' /\ jobs'[j] = r
      BY <2>5
    <3>2. ASSUME NEW o \in Bound PROVE CorrectedOf(o)'
      <4>1. CASE o = x /\ Sale(o).state # "cancel"
        <5>1. r.status # "canceled"
          BY <3>1, <4>1, SaleAt DEF BegunState, Status
        <5>2. Corrects(jobs'[j], o)
          BY <3>1, <4>1, <5>1 DEF BegunState, Corrects
        <5> QED BY <3>1, <5>2 DEF CorrectedOf, Corrects
      <4>2. CASE Sale(o).state = "cancel"
        BY <2>3, <4>2 DEF CorrectedOf
      <4>3. CASE o # x
        <5>1. CorrectedOf(o) /\ o \in Orders
          BY <1>2, <2>1 DEF Corrected, CorrectedOf
        <5>2. ~Corrects(jobs[j], o) /\ \A t \in {r} \cup {} : ~Tells(t, o)
          BY <3>1, <4>3 DEF Corrects, Tells, BegunState
        <5> QED BY <1>1, <2>3, <3>1, <5>1, <5>2, CorrectedKept
      <4> QED BY <4>1, <4>2, <4>3
    <3>3. StatesAlone'
      <4>1. ASSUME NEW i \in DOMAIN jobs', jobs'[i].step \in {"send", "bind"}
            PROVE  old[i] = j /\ old[i] # 0
        BY <2>2, <3>1, <4>1 DEF JobsMove, Like
      <4> QED BY <3>1, <4>1 DEF StatesAlone, JobsMove
    <3> QED BY <1>2, <3>2, <3>3 DEF Corrected, CorrectedOf
  <2> QED BY <2>4, <2>5, BeginStateMove
<1> QED BY <1>3, <1>4 DEF ShownInv, NotShownYet

\* A status is sent: if it is that of a canceled order, and the order is open now, a
\* job that corrects it was there and is there still.
LEMMA SendStateShown ==
    ASSUME RowsInv, ShownInv, NEW j \in DOMAIN jobs, SendState(j)
    PROVE  ShownInv'
<1> DEFINE x == jobs[j].order
<1>1. /\ magento' = [magento EXCEPT ![x].status = jobs[j].status] /\ jobs[j].step = "send"
      /\ UNCHANGED <<sales, binding, raced>>
  BY DEF SendState
<1>2. Bound' = Bound /\ Bound \subseteq Orders /\ x \in Bound
  BY <1>1, JobAt DEF Bound, JobShape
<1>3. magento \in MagentoRows
  BY DEF RowsInv, RowTypes, MagentoRows
<1>4. /\ \A o \in Orders : magento'[o].state = magento[o].state
                           /\ (o # x => magento'[o] = magento[o])
      /\ magento'[x].status = jobs[j].status
  BY <1>1, <1>2, <1>3 DEF MagentoRows
<1>5. PICK r, old : r.step = "bind" /\ JobsMove(old, j, {r}, {})
  BY SendStateMove
<1>6. NotShownYet'
  BY <1>2, <1>4 DEF ShownInv, NotShownYet
<1>7. ASSUME "state" \notin raced' PROVE (StatesAlone /\ Corrected)'
  <2>1. StatesAlone /\ Corrected
    BY <1>1, <1>7 DEF ShownInv
  <2>2. StatesAlone'
    BY <1>1, <1>5, <2>1, StatesKept
  <2>3. \A o \in Bound : Sale(o)' = Sale(o)
    BY <1>1 DEF Sale
  <2>4. ASSUME NEW o \in Bound PROVE CorrectedOf(o)'
    <3>1. CorrectedOf(o) /\ o \in Orders
      BY <1>2, <2>1 DEF Corrected, CorrectedOf
    <3>2. \A t \in {r} \cup {} : ~Tells(t, o)
      BY <1>5 DEF Tells
    <3>3. CASE o # x
      <4>1. ~Corrects(jobs[j], o)
        BY <3>3 DEF Corrects
      <4> QED BY <1>4, <1>5, <2>3, <3>1, <3>2, <3>3, <4>1, CorrectedKept
    <3>4. CASE o = x /\ jobs[j].status = "canceled"
      <4> SUFFICES ASSUME magento[o].state = "new", Sale(o).state # "cancel"
                   PROVE  \E k \in DOMAIN jobs' : Corrects(jobs'[k], o)
        BY <1>4, <2>3, <3>1 DEF CorrectedOf, Corrects
      <4>1. Tells(jobs[j], o)
        BY <1>1, <3>4 DEF Tells
      <4>2. PICK i \in DOMAIN jobs : Corrects(jobs[i], o)
        BY <3>1, <4>1 DEF CorrectedOf
      <4>3. i # j /\ i # 0
        BY <1>1, <3>4, <4>2 DEF Corrects, RowsInv, RowTypes
      <4>4. PICK k \in DOMAIN jobs' : old[k] = i
        BY <1>5, <4>3 DEF JobsMove
      <4>5. Like(jobs'[k], jobs[i])
        BY <1>5, <4>3, <4>4 DEF JobsMove
      <4> QED BY <4>2, <4>5 DEF Corrects, Like
    <3>5. CASE o = x /\ jobs[j].status # "canceled"
      <4>1. ASSUME NEW k \in DOMAIN jobs', Tells(jobs'[k], o) PROVE FALSE
        <5>1. /\ old[k] \in DOMAIN jobs /\ old[k] # 0 /\ old[k] # j
              /\ Like(jobs'[k], jobs[old[k]])
          BY <1>5, <3>2, <4>1 DEF JobsMove
        <5>2. jobs[old[k]].step = "send"
          BY <4>1, <5>1 DEF Tells, Like
        <5> QED BY <1>1, <2>1, <5>1, <5>2 DEF StatesAlone
      <4>2. magento'[o].status # "canceled"
        BY <1>4, <3>5
      <4> QED BY <4>1, <4>2 DEF CorrectedOf, Tells
    <3> QED BY <3>3, <3>4, <3>5
  <2> QED BY <1>2, <2>2, <2>4 DEF Corrected, CorrectedOf
<1> QED BY <1>6, <1>7 DEF ShownInv, NotShownYet

LEMMA BindStateShown ==
    ASSUME RowsInv, ShownInv, NEW j \in DOMAIN jobs, BindState(j)
    PROVE  ShownInv'
<1>1. PICK old, At : JobsMove(old, j, At, {}) /\ \A r \in At : StartsAgain(j, r)
  BY BindStateMove
<1>2. \A t \in At \cup {} : t.step \notin {"send", "bind"}
  BY <1>1 DEF StartsAgain
<1>3. \A o \in Bound : ~Corrects(jobs[j], o)
  BY DEF BindState, Corrects
<1>4. UNCHANGED <<sales, binding, magento>> /\ raced \subseteq raced'
  BY DEF BindState
<1> QED BY <1>1, <1>2, <1>3, <1>4, ShownAlone

\* A job that is killed after it has found the state of an open order starts again
\* as one that is for any state.
LEMMA CrashShown ==
    ASSUME RowsInv, ShownInv, NEW j \in DOMAIN jobs, Crash(j)
    PROVE  ShownInv'
<1>1. PICK r, old : /\ StartsAgain(j, r) /\ JobsMove(old, j, {r}, {})
                    /\ j \in DOMAIN jobs' /\ jobs'[j] = r
  BY CrashMove
<1>2. \A t \in {r} \cup {} : t.step \notin {"send", "bind"}
  BY <1>1 DEF StartsAgain
<1>3. ASSUME NEW o \in Bound, Corrects(jobs[j], o)
      PROVE  \E i \in DOMAIN jobs' : Corrects(jobs'[i], o)
  <2>1. ~jobs[j].only
    BY <1>3, JobAt DEF Corrects, JobShape
  <2>2. Corrects(jobs'[j], o)
    BY <1>1, <1>3, <2>1 DEF Corrects, StartsAgain
  <2> QED BY <1>1, <2>2
<1>4. UNCHANGED <<sales, binding, magento>> /\ raced \subseteq raced'
  BY DEF Crash
<1> QED BY <1>1, <1>2, <1>3, <1>4, ShownAlone

LEMMA StoreShown ==
    ASSUME RowsInv, ShownInv, NEW s \in DOMAIN sales, NEW r \in SaleRows, FlagsFit(r),
           Store(s, r), Goes(sales[s], r)
    PROVE  ShownInv'
<1>1. /\ UNCHANGED <<magento, binding, raced>> /\ Bound' = Bound
      /\ \A o \in Bound : Sale(o)' = IF binding[o].sale = s THEN r ELSE Sale(o)
  BY StoreMove
<1>2. PICK old, New : JobsMove(old, 0, {}, New) /\ TellLater(New, TRUE)
  BY StoreMove
<1>3. \A t \in {} \cup New : t.step \notin {"send", "bind"}
  BY <1>2 DEF TellLater, StateJob, Job
<1>4. 0 \notin DOMAIN jobs
  BY DEF RowsInv, RowTypes
<1>5. \A o \in Bound : Sale(o)'.state # "cancel" => Sale(o).state # "cancel"
  BY <1>1 DEF Goes, Sale
<1> QED BY <1>1, <1>2, <1>3, <1>4, <1>5, ShownKept

\* The jobs of a copy correct what its orders are shown as.
LEMMA CopyShown ==
    ASSUME RowsInv, ShownInv, NEW s \in DOMAIN sales, CopyQuotation(s)
    PROVE  ShownInv'
<1>1. UNCHANGED <<magento, raced>> /\ Bound' = Bound
  BY CopyMove
<1>2. PICK old, New : JobsMove(old, 0, {}, New) /\ TellLater(New, FALSE)
  BY CopyMove
<1>3. \A t \in {} \cup New : t.step \notin {"send", "bind"}
  BY <1>2 DEF TellLater, StateJob, Job
<1>4. 0 \notin DOMAIN jobs
  BY DEF RowsInv, RowTypes
<1>5. ASSUME NEW o \in Bound
      PROVE  \/ Sale(o)'.state # "cancel" => Sale(o).state # "cancel"
             \/ \E i \in DOMAIN jobs' : Corrects(jobs'[i], o)
  <2>1. CASE o \in OrderOf(s)
    <3>1. PICK i \in DOMAIN jobs' : jobs'[i] = StateJob(o, FALSE)
      BY <2>1, CopyMove
    <3> QED BY <3>1 DEF StateJob, Job, Corrects
  <2>2. CASE o \notin OrderOf(s)
    BY <2>2, CopyMove
  <2> QED BY <2>1, <2>2
<1> QED BY <1>1, <1>2, <1>3, <1>4, <1>5, ShownKept

LEMMA PlaceOrderShown ==
    ASSUME RowsInv, ShownInv, NEW x \in Orders, PlaceOrder(x)
    PROVE  ShownInv'
<1>1. /\ UNCHANGED <<sales, binding, raced>>
      /\ x \notin Bound /\ magento'[x].status = "pending"
      /\ \A p \in Orders \ {x} : magento'[p].state = "new" => magento'[p] = magento[p]
  BY PlaceOrderMove
<1>2. Bound' = Bound /\ Bound \subseteq Orders
  BY <1>1 DEF Bound
<1>3. PICK old : JobsMove(old, 0, {}, {})
  BY PlaceOrderMove
<1>4. NotShownYet'
  BY <1>1, <1>2 DEF ShownInv, NotShownYet
<1>5. ASSUME "state" \notin raced' PROVE (StatesAlone /\ Corrected)'
  <2>1. StatesAlone /\ Corrected
    BY <1>1, <1>5 DEF ShownInv
  <2>2. StatesAlone'
    BY <1>3, <2>1, StatesKept
  <2>3. ASSUME NEW o \in Bound PROVE CorrectedOf(o)'
    <3>1. CASE magento'[o].state = "new"
      <4>1. magento'[o] = magento[o] /\ Sale(o)' = Sale(o)
        BY <1>1, <1>2, <3>1 DEF Sale
      <4>2. CorrectedOf(o) /\ o \in Orders
        BY <1>2, <2>1 DEF Corrected, CorrectedOf
      <4>3. 0 \notin DOMAIN jobs
        BY DEF RowsInv, RowTypes
      <4> QED BY <1>3, <4>1, <4>2, <4>3, CorrectedKept
    <3>2. CASE magento'[o].state # "new"
      BY <3>2 DEF CorrectedOf
    <3> QED BY <3>1, <3>2
  <2> QED BY <1>2, <2>2, <2>3 DEF Corrected, CorrectedOf
<1> QED BY <1>4, <1>5 DEF ShownInv, NotShownYet

LEMMA ShownSteps == RowsInv /\ LinkInv /\ ShownInv /\ [Next]_vars => ShownInv'
<1> SUFFICES ASSUME RowsInv, ShownInv, [Next]_vars PROVE ShownInv'
  OBVIOUS
<1>1. ASSUME NEW j \in DOMAIN jobs, JobStep(j) \/ Crash(j) PROVE ShownInv'
  BY <1>1, BeginImportShown, WriteImportShown, BeginStateShown, SendStateShown,
     BindStateShown, CrashShown DEF JobStep
<1>2. ASSUME NEW s \in DOMAIN sales, Confirm(s) \/ CancelSale(s) \/ UserStep(s) PROVE ShownInv'
  <2>1. PICK r \in SaleRows : Store(s, r) /\ FlagsFit(r) /\ Goes(sales[s], r)
    BY <1>2, UserMove
  <2> QED BY <2>1, StoreShown
<1>3. ASSUME NEW s \in DOMAIN sales, CopyQuotation(s) PROVE ShownInv'
  BY <1>3, CopyShown
<1>4. ASSUME NEW o \in Orders, PlaceOrder(o) PROVE ShownInv'
  BY <1>4, PlaceOrderShown
<1>5. 0 \notin DOMAIN jobs
  BY DEF RowsInv, RowTypes
<1>6. ASSUME NEW o \in Orders, PayOrder(o) PROVE ShownInv'
  <2>1. PICK old : JobsMove(old, 0, {}, {})
    BY <1>6, PayOrderMove
  <2> QED BY <1>5, <1>6, <2>1, PayOrderMove, ShownAlone
<1>7. ASSUME NEW o \in Orders, ListOrder(o) PROVE ShownInv'
  <2>1. PICK old : JobsMove(old, 0, {}, {ImportJob(o)})
    BY <1>7, ListOrderMove
  <2>2. \A t \in {} \cup {ImportJob(o)} : t.step \notin {"send", "bind"}
    BY DEF ImportJob, Job
  <2>3. UNCHANGED <<magento, sales, binding, raced>>
    BY <1>7, ListOrderMove
  <2> QED BY <1>5, <2>1, <2>2, <2>3, ShownAlone
<1>8. CASE UNCHANGED vars
  <2>1. PICK old : JobsMove(old, 0, {}, {})
    BY <1>8, StutterMove
  <2>2. UNCHANGED <<magento, sales, binding, raced>>
    BY <1>8 DEF vars
  <2> QED BY <1>5, <2>1, <2>2, ShownAlone
<1> QED BY <1>1, <1>2, <1>3, <1>4, <1>6, <1>7, <1>8 DEF Next

\* For any chain of editions: when no job of an open order is left, it is not shown
\* as canceled on Magento, unless jobs that tell a state have run at the same time.
THEOREM OpenIsNotShownCanceled == Spec => []NotShownCanceled
<1>1. Init => RowsInv /\ LinkInv /\ ShownInv
  BY RowsAtFirst
<1>2. RowsInv /\ LinkInv /\ ShownInv /\ [Next]_vars => (RowsInv /\ LinkInv /\ ShownInv)'
  BY LinkSteps, ShownSteps
<1>3. ShownInv => NotShownCanceled
  BY DEF ShownInv, Corrected, Corrects, NotShownCanceled
<1> QED BY <1>1, <1>2, <1>3, PTL DEF Spec
=============================================================================
