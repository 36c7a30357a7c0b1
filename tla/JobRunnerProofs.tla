--------------------------- MODULE JobRunnerProofs ---------------------------
(***************************************************************************)
(* Every operation of the channel tree preserves TreeInvariant, for every  *)
(* tree, every configuration and every set of jobs; then the channel       *)
(* manager under any sequence of calls; then the runner, the handlers, the *)
(* clients and the users together.                                         *)
(***************************************************************************)
EXTENDS JobRunner, ChannelManager, FiniteSetTheorems, TLAPS

\* A channel is on its own way downstream.
LEMMA OwnPath == ASSUME NEW c \in Channels PROVE c \in Path[c] /\ Path[c] \subseteq Channels
BY TreeAssumption

\* Every way downstream ends at the root: no channels but the root lead only
\* to each other.
LEMMA ReachesRoot ==
    ASSUME NEW U \in SUBSET (Channels \ {Root}), \A c \in U : Parent[c] \in U
    PROVE  U = {}
<1> SUFFICES ASSUME U # {} PROVE FALSE
  OBVIOUS
<1> DEFINE T == {Path[c] : c \in U}
<1>1. T \subseteq FiniteSubsetsOf(Channels)
  BY OwnPath, TreeAssumption, FS_FiniteSubsetsOfFinite
<1>2. \E x \in T : \A y \in T : <<y, x>> \notin StrictSubsetOrdering(Channels)
  <2>1. IsWellFoundedOn(StrictSubsetOrdering(Channels), FiniteSubsetsOf(Channels))
    BY FS_StrictSubsetOrderingWellFounded
  <2>2. T # {}
    OBVIOUS
  <2> HIDE DEF T
  <2> QED BY <1>1, <2>1, <2>2, WFMin
<1>3. PICK c \in U : \A d \in U : <<Path[d], Path[c]>> \notin StrictSubsetOrdering(Channels)
  BY <1>2
<1>4. /\ Parent[c] \in U
      /\ Path[c] = {c} \cup Path[Parent[c]] /\ c \notin Path[Parent[c]]
      /\ Path[c] \subseteq Channels
  BY OwnPath, TreeAssumption
<1>5. <<Path[Parent[c]], Path[c]>> \in StrictSubsetOrdering(Channels)
  BY <1>4 DEF StrictSubsetOrdering
<1> QED BY <1>3, <1>4, <1>5

\* The way downstream from a channel goes on from each channel on it, and
\* never forks.
LEMMA PathsAreChains ==
    ASSUME NEW c \in Channels, NEW d \in Path[c]
    PROVE  /\ Path[d] \subseteq Path[c]
           /\ \A e \in Path[c] : d \in Path[e] \/ e \in Path[d]
<1> DEFINE Goes(a) == \A x \in Path[a] : Path[x] \subseteq Path[a]
           Forks(a) == \E x, y \in Path[a] : x \notin Path[y] /\ y \notin Path[x]
           U == {a \in Channels : ~Goes(a)}
           V == {a \in Channels : Forks(a)}
<1>1. U = {}
  <2>1. Root \notin U
    BY TreeAssumption
  <2>2. ASSUME NEW a \in U PROVE Parent[a] \in U
    <3>1. Parent[a] \in Channels /\ Path[a] = {a} \cup Path[Parent[a]]
      BY <2>1, TreeAssumption
    <3> QED BY <3>1
  <2> HIDE DEF U
  <2>3. U \subseteq Channels \ {Root}
    BY <2>1 DEF U
  <2> QED BY <2>2, <2>3, ReachesRoot
<1>2. V = {}
  <2>1. Root \notin V
    BY TreeAssumption
  <2>2. ASSUME NEW a \in V PROVE Parent[a] \in V
    <3>1. Parent[a] \in Channels /\ Path[a] = {a} \cup Path[Parent[a]]
      BY <2>1, TreeAssumption
    <3>2. PICK x \in Path[a], y \in Path[a] : x \notin Path[y] /\ y \notin Path[x]
      OBVIOUS
    <3>3. x # a /\ y # a
      BY <3>1, <3>2, OwnPath
    <3> QED BY <3>1, <3>2, <3>3
  <2> HIDE DEF V
  <2>3. V \subseteq Channels \ {Root}
    BY <2>1 DEF V
  <2> QED BY <2>2, <2>3, ReachesRoot
<1> QED BY <1>1, <1>2

\* The way downstream goes from each channel but the root to its parent,
\* which is another channel.
LEMMA ParentOnPath ==
    ASSUME NEW a \in Channels, NEW c \in Path[a], c # Root
    PROVE  /\ c \in Channels \ {Root}
           /\ Parent[c] \in Channels
           /\ Parent[c] \in Path[a]
           /\ Parent[c] # a
           /\ Parent[c] # c
<1>1. c \in Channels \ {Root} /\ Parent[c] \in Channels
  BY OwnPath, TreeAssumption
<1>2. Parent[c] \in Path[c] /\ Path[c] \subseteq Path[a]
  BY <1>1, OwnPath, TreeAssumption, PathsAreChains
<1>3. Parent[c] # a
  BY <1>1, TreeAssumption
<1>4. Parent[c] # c
  BY <1>1, OwnPath, TreeAssumption
<1> QED BY <1>1, <1>2, <1>3, <1>4

\* Two channels on one way downstream with the same parent are the same.
LEMMA OneChild ==
    ASSUME NEW a \in Channels, NEW c \in Path[a], NEW d \in Path[a],
           c # Root, d # Root, Parent[c] = Parent[d]
    PROVE  c = d
<1>1. c \in Channels \ {Root} /\ d \in Channels \ {Root}
  BY OwnPath
<1>2. c \in Path[d] \/ d \in Path[c]
  BY PathsAreChains
<1>3. /\ Path[c] = {c} \cup Path[Parent[c]] /\ c \notin Path[Parent[c]]
      /\ Path[d] = {d} \cup Path[Parent[d]] /\ d \notin Path[Parent[d]]
  BY <1>1, TreeAssumption
<1> QED BY <1>2, <1>3

\* Two channels are not downstream of each other.
LEMMA NoCycle ==
    ASSUME NEW a \in Channels, NEW d \in Path[a], a \in Path[d]
    PROVE  d = a
<1> SUFFICES ASSUME d # a PROVE FALSE
  OBVIOUS
<1>1. d \in Channels /\ a # Root
  BY OwnPath, TreeAssumption
<1>2. Path[a] = {a} \cup Path[Parent[a]] /\ a \notin Path[Parent[a]] /\ Parent[a] \in Channels
  BY <1>1, TreeAssumption
<1>3. Path[d] \subseteq Path[Parent[a]]
  BY <1>2, PathsAreChains
<1> QED BY <1>2, <1>3

\* RunningMeansDownstream speaks of any object: one that is in neither of two
\* channels satisfies it too.
LEMMA Downstream ==
    RunningMeansDownstream <=>
        \A c \in Channels \ {Root} : \A o :
            c \in Path[o.chan] =>
                (o \in running[c] <=> o \in queue[Parent[c]] \cup running[Parent[c]])
BY DEF RunningMeansDownstream, Members

-----------------------------------------------------------------------------
(* The state changes notified to a channel                                 *)

\* While the entry of a uuid is NoJob or o, the tree holds no object of that
\* uuid but o, and o only on its own way downstream.
LEMMA OnlyCurrent ==
    ASSUME TreeInvariant, NEW o \in ChannelJob, jobs[o.uuid] \in {NoJob, o},
           NEW c \in Channels, NEW x \in Members(c), x.uuid = o.uuid
    PROVE  x = o /\ c \in Path[o.chan]
<1>1. x \in ChannelJob /\ jobs[x.uuid] = x /\ c \in Path[x.chan]
  BY DEF TreeInvariant, TypeOK, CurrentObjects, Members
<1> QED BY <1>1, NoJobAssumption

\* Channel.remove of an object whose entry goes with it
LEMMA RemoveKeeps ==
    ASSUME TreeInvariant, NEW o \in ChannelJob, jobs[o.uuid] \in {NoJob, o},
           Remove(o), jobs' = [jobs EXCEPT ![o.uuid] = NoJob],
           UNCHANGED <<gen, drained, asof>>
    PROVE  TreeInvariant'
<1> DEFINE P == Path[o.chan]
<1> USE DEF TreeInvariant
<1>1. o.uuid \in Uuids /\ o.chan \in Channels
  BY DEF ChannelJob
<1>2. /\ queue' \in [Channels -> SUBSET ChannelJob]
      /\ running' \in [Channels -> SUBSET ChannelJob]
      /\ failed' \in [Channels -> SUBSET ChannelJob]
      /\ \A c \in Channels : /\ queue'[c] = IF c \in P THEN queue[c] \ {o} ELSE queue[c]
                             /\ running'[c] = IF c \in P THEN running[c] \ {o} ELSE running[c]
                             /\ failed'[c] = IF c \in P THEN failed[c] \ {o} ELSE failed[c]
  BY DEF TypeOK, Remove, Without
<1>3. TypeOK'
  BY <1>1, <1>2 DEF TypeOK
<1>4. \A c \in Channels : Members(c)' = Members(c) \ {o}
  <2> SUFFICES ASSUME NEW c \in Channels PROVE Members(c)' = Members(c) \ {o}
    OBVIOUS
  <2>1. CASE c \in P
    BY <2>1, <1>2 DEF Members
  <2>2. CASE c \notin P
    BY <2>2, <1>2, OnlyCurrent DEF Members
  <2> QED BY <2>1, <2>2
<1>5. CurrentObjects'
  <2> SUFFICES ASSUME NEW c \in Channels, NEW x \in Members(c)'
               PROVE  jobs'[x.uuid] = x /\ c \in Path[x.chan]
    BY DEF CurrentObjects
  <2>1. x \in Members(c) /\ x # o
    BY <1>4
  <2>2. x.uuid # o.uuid
    BY <2>1, OnlyCurrent
  <2> QED BY <2>1, <2>2, <1>1 DEF CurrentObjects, TypeOK
<1>6. OnePlace'
  BY <1>2 DEF OnePlace
<1>7. RunningMeansDownstream'
  <2> SUFFICES ASSUME NEW c \in Channels \ {Root}, NEW x, c \in Path[x.chan]
               PROVE  x \in running'[c] <=> x \in queue'[Parent[c]] \cup running'[Parent[c]]
    BY DEF RunningMeansDownstream
  <2>1. Parent[c] \in Channels
    BY TreeAssumption
  <2>2. x \in running[c] <=> x \in queue[Parent[c]] \cup running[Parent[c]]
    BY Downstream
  <2>3. CASE x = o
    BY <2>1, <2>3, <1>1, <1>2, ParentOnPath
  <2>4. CASE x # o
    BY <2>1, <2>2, <2>4, <1>2
  <2> QED BY <2>3, <2>4
<1> QED BY <1>3, <1>5, <1>6, <1>7

\* An object that replaces another one is nowhere in the tree yet.
LEMMA NewIsNowhere ==
    ASSUME TreeInvariant, NEW o \in ChannelJob, jobs[o.uuid] # o
    PROVE  \A c \in Channels : o \notin Members(c)
BY DEF TreeInvariant, CurrentObjects

\* The empty tree is well formed.
LEMMA InitTree == ChannelsInit => TreeInvariant
BY TreeAssumption
   DEF ChannelsInit, TreeInvariant, TypeOK, CurrentObjects, OnePlace,
       RunningMeansDownstream, Members

\* A step that changes nothing preserves the invariant.
LEMMA StutterKeeps == TreeInvariant /\ UNCHANGED chvars => TreeInvariant'
BY DEF TreeInvariant, TypeOK, CurrentObjects, OnePlace, RunningMeansDownstream, Members, chvars

\* What a step that places the object o has to establish: it touches the
\* objects of no other uuid, leaves no other object of this one, and what it
\* does with o on the way downstream is in order.
LEMMA Placed ==
    ASSUME TreeInvariant, NEW o \in ChannelJob, TypeOK',
           jobs' = [jobs EXCEPT ![o.uuid] = o],
           \A c \in Channels : \A x : x # o =>
              /\ x \in queue'[c] <=> x \in queue[c] /\ x.uuid # o.uuid
              /\ x \in running'[c] <=> x \in running[c] /\ x.uuid # o.uuid
              /\ x \in failed'[c] <=> x \in failed[c] /\ x.uuid # o.uuid,
           \A c \in Channels : o \in Members(c)' => c \in Path[o.chan],
           \A c \in Channels :
              /\ ~(o \in queue'[c] /\ o \in running'[c])
              /\ ~(o \in queue'[c] /\ o \in failed'[c])
              /\ ~(o \in running'[c] /\ o \in failed'[c])
              /\ o \in failed'[c] => o.chan = c,
           \A c \in Path[o.chan] \ {Root} :
              o \in running'[c] <=> o \in queue'[Parent[c]] \cup running'[Parent[c]]
    PROVE  TreeInvariant'
<1> USE DEF TreeInvariant
<1>1. o.uuid \in Uuids /\ o.chan \in Channels
  BY DEF ChannelJob
<1>2. CurrentObjects'
  <2> SUFFICES ASSUME NEW c \in Channels, NEW x \in Members(c)'
               PROVE  jobs'[x.uuid] = x /\ c \in Path[x.chan]
    BY DEF CurrentObjects
  <2>1. CASE x = o
    BY <2>1, <1>1 DEF TypeOK
  <2>2. CASE x # o
    <3>1. x \in Members(c) /\ x.uuid # o.uuid
      BY <2>2 DEF Members
    <3> QED BY <3>1, <1>1 DEF CurrentObjects, TypeOK
  <2> QED BY <2>1, <2>2
<1>3. OnePlace'
  <2> SUFFICES ASSUME NEW c \in Channels
               PROVE  \A x : /\ ~(x \in queue'[c] /\ x \in running'[c])
                             /\ ~(x \in queue'[c] /\ x \in failed'[c])
                             /\ ~(x \in running'[c] /\ x \in failed'[c])
                             /\ x \in failed'[c] => x.chan = c
    BY DEF OnePlace
  <2> QED BY DEF OnePlace
<1>4. RunningMeansDownstream'
  <2> SUFFICES ASSUME NEW c \in Channels \ {Root}, NEW x, c \in Path[x.chan]
               PROVE  x \in running'[c] <=> x \in queue'[Parent[c]] \cup running'[Parent[c]]
    BY DEF RunningMeansDownstream
  <2>1. Parent[c] \in Channels
    BY TreeAssumption
  <2>2. x \in running[c] <=> x \in queue[Parent[c]] \cup running[Parent[c]]
    BY Downstream
  <2>3. CASE x = o
    BY <2>3
  <2>4. CASE x # o
    BY <2>1, <2>2, <2>4
  <2> QED BY <2>3, <2>4
<1> QED BY <1>2, <1>3, <1>4

\* While the entry of a uuid is NoJob or o, no other object has that uuid.
LEMMA OthersDiffer ==
    ASSUME TreeInvariant, NEW o \in ChannelJob, jobs[o.uuid] \in {NoJob, o},
           NEW c \in Channels
    PROVE  \A x : x # o =>
              /\ x \in queue[c] => x.uuid # o.uuid
              /\ x \in running[c] => x.uuid # o.uuid
              /\ x \in failed[c] => x.uuid # o.uuid
BY OnlyCurrent DEF Members

\* Channel.set_pending
LEMMA PendingKeeps ==
    ASSUME TreeInvariant, NEW o \in ChannelJob, jobs[o.uuid] \in {NoJob, o},
           SetPending(o), jobs' = [jobs EXCEPT ![o.uuid] = o],
           UNCHANGED <<gen, drained, asof>>
    PROVE  TreeInvariant'
<1> DEFINE P == Path[o.chan]
<1>1. o.uuid \in Uuids /\ o.chan \in Channels /\ o.chan \in P
  BY OwnPath DEF ChannelJob
<1>a. CASE o \in queue[o.chan]
  <2>1. jobs[o.uuid] = o
    BY <1>1, <1>a DEF TreeInvariant, CurrentObjects, Members
  <2>2. UNCHANGED chvars
    BY <2>1, <1>1, <1>a DEF TreeInvariant, TypeOK, SetPending, sets, chvars
  <2> QED BY <2>2, StutterKeeps
<1>b. CASE o \notin queue[o.chan]
  <2>1. /\ queue' \in [Channels -> SUBSET ChannelJob]
        /\ running' \in [Channels -> SUBSET ChannelJob]
        /\ failed' \in [Channels -> SUBSET ChannelJob]
        /\ \A c \in Channels :
              /\ queue'[c] = IF c = o.chan THEN queue[c] \cup {o}
                             ELSE IF c \in P THEN queue[c] \ {o} ELSE queue[c]
              /\ running'[c] = IF c \in P THEN running[c] \ {o} ELSE running[c]
              /\ failed'[c] = IF c \in P THEN failed[c] \ {o} ELSE failed[c]
    BY <1>1, <1>b DEF TreeInvariant, TypeOK, SetPending, With, Without
  <2>2. TypeOK'
    BY <1>1, <2>1 DEF TreeInvariant, TypeOK
  <2>3. \A c \in Channels : o \in Members(c)' => c \in P
    <3> SUFFICES ASSUME NEW c \in Channels, o \in Members(c)', c \notin P PROVE FALSE
      OBVIOUS
    <3>1. o \in Members(c)
      BY <1>1, <2>1 DEF Members
    <3> QED BY <3>1, OnlyCurrent
  <2>4. \A c \in P \ {Root} :
           o \in running'[c] <=> o \in queue'[Parent[c]] \cup running'[Parent[c]]
    BY <1>1, <2>1, ParentOnPath, OwnPath
  <2> HIDE DEF P
  <2>5. \A c \in Channels : o \in Members(c)' =>
           IF c = o.chan THEN o \notin running'[c] /\ o \notin failed'[c]
           ELSE o \notin queue'[c] /\ o \notin running'[c] /\ o \notin failed'[c]
    BY <1>1, <2>1, <2>3
  <2>6. \A c \in Channels : \A x : x # o =>
              /\ x \in queue'[c] <=> x \in queue[c] /\ x.uuid # o.uuid
              /\ x \in running'[c] <=> x \in running[c] /\ x.uuid # o.uuid
              /\ x \in failed'[c] <=> x \in failed[c] /\ x.uuid # o.uuid
    BY <2>1, OthersDiffer
  <2>7. \A c \in Channels :
              /\ ~(o \in queue'[c] /\ o \in running'[c])
              /\ ~(o \in queue'[c] /\ o \in failed'[c])
              /\ ~(o \in running'[c] /\ o \in failed'[c])
              /\ o \in failed'[c] => o.chan = c
    BY <2>5 DEF Members
  <2> QED BY <2>2, <2>3, <2>4, <2>6, <2>7, Placed DEF P
<1> QED BY <1>a, <1>b

\* Channel.set_failed
LEMMA FailedKeeps ==
    ASSUME TreeInvariant, NEW o \in ChannelJob, jobs[o.uuid] \in {NoJob, o},
           SetFailed(o), jobs' = [jobs EXCEPT ![o.uuid] = o],
           UNCHANGED <<gen, drained, asof>>
    PROVE  TreeInvariant'
<1> DEFINE P == Path[o.chan]
<1>1. o.uuid \in Uuids /\ o.chan \in Channels /\ o.chan \in P
  BY OwnPath DEF ChannelJob
<1>a. CASE o \in failed[o.chan]
  <2>1. jobs[o.uuid] = o
    BY <1>1, <1>a DEF TreeInvariant, CurrentObjects, Members
  <2>2. UNCHANGED chvars
    BY <2>1, <1>1, <1>a DEF TreeInvariant, TypeOK, SetFailed, sets, chvars
  <2> QED BY <2>2, StutterKeeps
<1>b. CASE o \notin failed[o.chan]
  <2>1. /\ queue' \in [Channels -> SUBSET ChannelJob]
        /\ running' \in [Channels -> SUBSET ChannelJob]
        /\ failed' \in [Channels -> SUBSET ChannelJob]
        /\ \A c \in Channels :
              /\ queue'[c] = IF c \in P THEN queue[c] \ {o} ELSE queue[c]
              /\ running'[c] = IF c \in P THEN running[c] \ {o} ELSE running[c]
              /\ failed'[c] = IF c = o.chan THEN failed[c] \cup {o}
                              ELSE IF c \in P THEN failed[c] \ {o} ELSE failed[c]
    BY <1>1, <1>b DEF TreeInvariant, TypeOK, SetFailed, With, Without
  <2>2. TypeOK'
    BY <1>1, <2>1 DEF TreeInvariant, TypeOK
  <2>3. \A c \in Channels : o \in Members(c)' => c \in P
    <3> SUFFICES ASSUME NEW c \in Channels, o \in Members(c)', c \notin P PROVE FALSE
      OBVIOUS
    <3>1. o \in Members(c)
      BY <1>1, <2>1 DEF Members
    <3> QED BY <3>1, OnlyCurrent
  <2>4. \A c \in P \ {Root} :
           o \in running'[c] <=> o \in queue'[Parent[c]] \cup running'[Parent[c]]
    BY <1>1, <2>1, ParentOnPath, OwnPath
  <2> HIDE DEF P
  <2>5. \A c \in Channels : o \in Members(c)' =>
           o \notin queue'[c] /\ o \notin running'[c] /\ (o \in failed'[c] => c = o.chan)
    BY <1>1, <2>1, <2>3
  <2>6. \A c \in Channels : \A x : x # o =>
              /\ x \in queue'[c] <=> x \in queue[c] /\ x.uuid # o.uuid
              /\ x \in running'[c] <=> x \in running[c] /\ x.uuid # o.uuid
              /\ x \in failed'[c] <=> x \in failed[c] /\ x.uuid # o.uuid
    BY <2>1, OthersDiffer
  <2>7. \A c \in Channels :
              /\ ~(o \in queue'[c] /\ o \in running'[c])
              /\ ~(o \in queue'[c] /\ o \in failed'[c])
              /\ ~(o \in running'[c] /\ o \in failed'[c])
              /\ o \in failed'[c] => o.chan = c
    BY <2>5 DEF Members
  <2> QED BY <2>2, <2>3, <2>4, <2>6, <2>7, Placed DEF P
<1> QED BY <1>a, <1>b

\* The channels that set_running marks are closed upstream: when it does not
\* reach a channel it does not reach the parent, and when it reaches a channel
\* where o was not running it reaches the parent too.
LEMMA MarkedParent ==
    ASSUME TreeInvariant, NEW o \in ChannelJob,
           NEW c \in Path[o.chan], c # Root
    PROVE  c \in MarkedBySetRunning(o) <=> Parent[c] \in MarkedBySetRunning(o) /\ o \notin running[c]
<1> DEFINE P == Path[o.chan]
           p == Parent[c]
<1>1. o.chan \in Channels /\ P \subseteq Channels
  BY OwnPath DEF ChannelJob
<1>2. c \in Channels \ {Root} /\ p \in P
  BY <1>1, ParentOnPath
<1>3. \A d \in P : c \in Path[d] => p \in Path[d]
  BY <1>1, <1>2, ParentOnPath
<1>4. \A d \in P : p \in Path[d] => d = p \/ c \in Path[d]
  <2> SUFFICES ASSUME NEW d \in P, p \in Path[d], d # p PROVE c \in Path[d]
    OBVIOUS
  <2>1. c \in Path[d] \/ d \in Path[c]
    BY <1>1, PathsAreChains
  <2>2. CASE d \in Path[c]
    <3>1. Path[c] = {c} \cup Path[p] /\ c \in Path[c]
      BY <1>2, TreeAssumption
    <3>2. CASE d = c
      BY <3>1, <3>2
    <3>3. CASE d \in Path[p]
      BY <3>3, <1>1, <1>2, NoCycle
    <3> QED BY <2>2, <3>1, <3>2, <3>3
  <2> QED BY <2>1, <2>2
<1>5. o \in running[c] <=> o \in queue[p] \cup running[p]
  BY <1>2, Downstream DEF TreeInvariant
<1>6. c \in Path[c]
  BY <1>2, OwnPath
<1>7. ASSUME c \in MarkedBySetRunning(o)
      PROVE  p \in MarkedBySetRunning(o) /\ o \notin running[c]
  BY <1>7, <1>2, <1>4, <1>5, <1>6 DEF MarkedBySetRunning
<1>8. ASSUME p \in MarkedBySetRunning(o), o \notin running[c]
      PROVE  c \in MarkedBySetRunning(o)
  BY <1>8, <1>3 DEF MarkedBySetRunning
<1> QED BY <1>7, <1>8

\* Channel.set_running
LEMMA RunningKeeps ==
    ASSUME TreeInvariant, NEW o \in ChannelJob, jobs[o.uuid] \in {NoJob, o},
           SetRunning(o), jobs' = [jobs EXCEPT ![o.uuid] = o],
           UNCHANGED <<gen, drained, asof>>
    PROVE  TreeInvariant'
<1> DEFINE P == Path[o.chan]
           M == MarkedBySetRunning(o)
<1>1. o.uuid \in Uuids /\ o.chan \in Channels /\ P \subseteq Channels /\ M \subseteq P
  BY OwnPath DEF ChannelJob, MarkedBySetRunning
<1>2. \A c \in M : o \notin running[c]
  BY <1>1, OwnPath DEF MarkedBySetRunning
<1> HIDE DEF M
<1>3. /\ queue' \in [Channels -> SUBSET ChannelJob]
      /\ running' \in [Channels -> SUBSET ChannelJob]
      /\ failed' \in [Channels -> SUBSET ChannelJob]
      /\ \A c \in Channels :
            /\ queue'[c] = IF c \in M THEN queue[c] \ {o} ELSE queue[c]
            /\ running'[c] = IF c \in M THEN running[c] \cup {o} ELSE running[c]
            /\ failed'[c] = IF c \in M THEN failed[c] \ {o} ELSE failed[c]
  BY <1>1 DEF TreeInvariant, TypeOK, SetRunning, With, Without, M
<1>4. TypeOK'
  BY <1>1, <1>3 DEF TreeInvariant, TypeOK
<1>5. \A c \in Channels : o \in Members(c)' => c \in P
  <2> SUFFICES ASSUME NEW c \in Channels, o \in Members(c)', c \notin P PROVE FALSE
    OBVIOUS
  <2>1. o \in Members(c)
    BY <1>1, <1>3 DEF Members
  <2> QED BY <2>1, OnlyCurrent
<1>6. ASSUME NEW c \in P \ {Root}
      PROVE  o \in running'[c] <=> o \in queue'[Parent[c]] \cup running'[Parent[c]]
  <2>1. c \in Channels \ {Root} /\ Parent[c] \in Channels
    BY <1>1, ParentOnPath
  <2>2. o \in running[c] <=> o \in queue[Parent[c]] \cup running[Parent[c]]
    BY <2>1, Downstream DEF TreeInvariant
  <2>3. c \in M <=> Parent[c] \in M /\ o \notin running[c]
    BY MarkedParent DEF M
  <2> QED BY <2>1, <2>2, <2>3, <1>2, <1>3
<1>7. \A c \in Channels : \A x : x # o =>
            /\ x \in queue'[c] <=> x \in queue[c] /\ x.uuid # o.uuid
            /\ x \in running'[c] <=> x \in running[c] /\ x.uuid # o.uuid
            /\ x \in failed'[c] <=> x \in failed[c] /\ x.uuid # o.uuid
  BY <1>3, OthersDiffer
<1>8. \A c \in Channels :
            /\ ~(o \in queue'[c] /\ o \in running'[c])
            /\ ~(o \in queue'[c] /\ o \in failed'[c])
            /\ ~(o \in running'[c] /\ o \in failed'[c])
            /\ o \in failed'[c] => o.chan = c
  BY <1>3 DEF TreeInvariant, OnePlace
<1> QED BY <1>4, <1>5, <1>6, <1>7, <1>8, Placed

\* notify for an object that replaces another one
LEMMA ChangedKeeps ==
    ASSUME TreeInvariant, NEW o \in ChannelJob, NEW state \in States,
           jobs[o.uuid] \notin {NoJob, o}, NotifyChanged(jobs[o.uuid], o, state),
           jobs' = [jobs EXCEPT ![o.uuid] = IF state = DONE THEN NoJob ELSE o],
           UNCHANGED <<gen, drained, asof>>
    PROVE  TreeInvariant'
<1> DEFINE P == Path[o.chan]
           old == jobs[o.uuid]
           Q == Path[old.chan]
<1>1. o.uuid \in Uuids /\ o.chan \in Channels /\ o.chan \in P /\ P \subseteq Channels
  BY OwnPath DEF ChannelJob
<1>2. old \in ChannelJob /\ old # o /\ old.uuid = o.uuid
  BY <1>1 DEF TreeInvariant, TypeOK
<1>3. old.chan \in Channels
  BY <1>2 DEF ChannelJob
<1>4. \A c \in Channels : o \notin queue[c] /\ o \notin running[c] /\ o \notin failed[c]
  BY <1>2, NewIsNowhere DEF Members
\* the object of the uuid is the old one, on its own way downstream
<1>5. \A c \in Channels : \A x : x \in queue[c] \cup running[c] \cup failed[c] =>
         (x.uuid = o.uuid <=> x = old) /\ (x = old => c \in Q)
  <2> SUFFICES ASSUME NEW c \in Channels, NEW x, x \in Members(c)
               PROVE  (x.uuid = o.uuid <=> x = old) /\ (x = old => c \in Q)
    BY DEF Members
  <2>1. CurrentObjects
    BY DEF TreeInvariant
  <2>2. jobs[x.uuid] = x /\ c \in Path[x.chan]
    BY Zenon, <2>1 DEF CurrentObjects
  <2> QED BY <1>2, <2>2
<1>9. /\ queue' = [c \in Channels |-> (IF c \in Q THEN queue[c] \ {old} ELSE queue[c])
                            \cup (IF state = PENDING /\ c = o.chan THEN {o} ELSE {})]
      /\ running' = [c \in Channels |-> (IF c \in Q THEN running[c] \ {old} ELSE running[c])
                            \cup (IF state \in {ENQUEUED, STARTED} /\ c \in P THEN {o} ELSE {})]
      /\ failed' = [c \in Channels |-> (IF c \in Q THEN failed[c] \ {old} ELSE failed[c])
                            \cup (IF state = FAILED /\ c = o.chan THEN {o} ELSE {})]
  <2> DEFINE q == Without(queue, old, Q)
             r == Without(running, old, Q)
             f == Without(failed, old, Q)
  <2>1. /\ queue' = IF state = PENDING THEN With(q, o, {o.chan}) ELSE q
        /\ running' = IF state \in {ENQUEUED, STARTED} THEN With(r, o, P) ELSE r
        /\ failed' = IF state = FAILED THEN With(f, o, {o.chan}) ELSE f
    BY DEF NotifyChanged
  <2> QED BY <2>1 DEF With, Without
<1>6. \A c \in Channels :
          /\ queue'[c] = (IF c \in Q THEN queue[c] \ {old} ELSE queue[c])
                            \cup (IF state = PENDING /\ c = o.chan THEN {o} ELSE {})
          /\ running'[c] = (IF c \in Q THEN running[c] \ {old} ELSE running[c])
                            \cup (IF state \in {ENQUEUED, STARTED} /\ c \in P THEN {o} ELSE {})
          /\ failed'[c] = (IF c \in Q THEN failed[c] \ {old} ELSE failed[c])
                            \cup (IF state = FAILED /\ c = o.chan THEN {o} ELSE {})
  BY <1>9
<1>10. /\ queue' \in [Channels -> SUBSET ChannelJob]
       /\ running' \in [Channels -> SUBSET ChannelJob]
       /\ failed' \in [Channels -> SUBSET ChannelJob]
  <2>2. \A c \in Channels : queue[c] \subseteq ChannelJob /\ running[c] \subseteq ChannelJob
                            /\ failed[c] \subseteq ChannelJob
    BY DEF TreeInvariant, TypeOK
  <2> HIDE DEF P, Q, old
  <2>3. queue' \in [Channels -> SUBSET ChannelJob]
    BY <1>9, <2>2
  <2>4. running' \in [Channels -> SUBSET ChannelJob]
    BY <1>9, <2>2
  <2>5. failed' \in [Channels -> SUBSET ChannelJob]
    BY <1>9, <2>2
  <2> QED BY <2>3, <2>4, <2>5
<1>7. TypeOK'
  BY <1>1, <1>10 DEF TreeInvariant, TypeOK
<1> HIDE DEF Q, old
<1>8. \A c \in Channels : \A x : x # o =>
         /\ x \in queue'[c] <=> x \in queue[c] /\ x.uuid # o.uuid
         /\ x \in running'[c] <=> x \in running[c] /\ x.uuid # o.uuid
         /\ x \in failed'[c] <=> x \in failed[c] /\ x.uuid # o.uuid
  BY <1>5, <1>6
<1> HIDE DEF P
<1>a. CASE state = DONE
  <2>1. \A c \in Channels : o \notin Members(c)'
    <3>1. state # PENDING /\ state \notin {ENQUEUED, STARTED} /\ state # FAILED
      BY <1>a DEF DONE, PENDING, ENQUEUED, STARTED, FAILED
    <3>2. \A c \in Channels : queue'[c] \subseteq queue[c] /\ running'[c] \subseteq running[c]
                              /\ failed'[c] \subseteq failed[c]
      BY <1>6, <3>1
    <3> QED BY <1>4, <3>2 DEF Members
  <2>2. CurrentObjects'
    BY <1>1, <1>8, <2>1, <1>a DEF TreeInvariant, CurrentObjects, Members, TypeOK
  <2>3. OnePlace'
    BY <1>8, <2>1 DEF TreeInvariant, OnePlace, Members
  <2>4. RunningMeansDownstream'
    <3> SUFFICES ASSUME NEW c \in Channels \ {Root}, NEW x, c \in Path[x.chan]
                 PROVE  x \in running'[c] <=> x \in queue'[Parent[c]] \cup running'[Parent[c]]
      BY DEF RunningMeansDownstream
    <3>1. Parent[c] \in Channels
      BY TreeAssumption
    <3>2. x \in running[c] <=> x \in queue[Parent[c]] \cup running[Parent[c]]
      BY Downstream DEF TreeInvariant
    <3> QED BY <3>1, <3>2, <2>1, <1>8 DEF Members
  <2> QED BY <1>7, <2>2, <2>3, <2>4 DEF TreeInvariant
<1>b. CASE state # DONE
  <2>1. jobs' = [jobs EXCEPT ![o.uuid] = o]
    BY <1>b
  <2>2. \A c \in Channels : o \in Members(c)' => c \in P
    BY <1>1, <1>4, <1>6 DEF Members
  <2>3. \A c \in Channels :
            /\ ~(o \in queue'[c] /\ o \in running'[c])
            /\ ~(o \in queue'[c] /\ o \in failed'[c])
            /\ ~(o \in running'[c] /\ o \in failed'[c])
            /\ o \in failed'[c] => o.chan = c
    BY <1>4, <1>6 DEF PENDING, ENQUEUED, STARTED, FAILED
  <2>4. ASSUME NEW c \in P \ {Root}
        PROVE  o \in running'[c] <=> o \in queue'[Parent[c]] \cup running'[Parent[c]]
    <3>1. c \in Channels /\ Parent[c] \in Channels /\ Parent[c] \in P /\ Parent[c] # o.chan
      BY <1>1, ParentOnPath DEF P
    <3> QED BY <3>1, <1>4, <1>6
  <2> QED BY <1>7, <1>8, <2>1, <2>2, <2>3, <2>4, Placed DEF P
<1> QED BY <1>a, <1>b

\* ChannelManager.notify
LEMMA NotifyKeeps ==
    ASSUME TreeInvariant, NEW o \in ChannelJob, NEW state \in States, Notify(o, state)
    PROVE  TreeInvariant'
<1>1. CASE jobs[o.uuid] \in {NoJob, o}
  <2>1. NotifySame(o, state) /\ UNCHANGED <<gen, drained, asof>>
    BY <1>1 DEF Notify
  <2>2. jobs' = [jobs EXCEPT ![o.uuid] = IF state = DONE THEN NoJob ELSE o]
    BY DEF Notify
  <2>3. CASE state = DONE
    BY <1>1, <2>1, <2>2, <2>3, RemoveKeeps DEF NotifySame, DONE, PENDING, ENQUEUED, STARTED, FAILED
  <2>4. CASE state = PENDING
    BY <1>1, <2>1, <2>2, <2>4, PendingKeeps DEF NotifySame, DONE, PENDING, ENQUEUED, STARTED, FAILED
  <2>5. CASE state \in {ENQUEUED, STARTED}
    BY <1>1, <2>1, <2>2, <2>5, RunningKeeps DEF NotifySame, DONE, PENDING, ENQUEUED, STARTED, FAILED
  <2>6. CASE state = FAILED
    BY <1>1, <2>1, <2>2, <2>6, FailedKeeps DEF NotifySame, DONE, PENDING, ENQUEUED, STARTED, FAILED
  <2> QED BY <2>3, <2>4, <2>5, <2>6 DEF States
<1>2. CASE jobs[o.uuid] \notin {NoJob, o}
  BY <1>2, ChangedKeeps DEF Notify
<1> QED BY <1>1, <1>2

\* ChannelManager.remove_job
LEMMA RemoveJobKeeps ==
    ASSUME TreeInvariant, NEW u \in Uuids, RemoveJob(u)
    PROVE  TreeInvariant'
<1>1. CASE jobs[u] = NoJob
  BY <1>1, StutterKeeps DEF RemoveJob, chvars
<1>2. CASE jobs[u] # NoJob
  <2>1. jobs[u] \in ChannelJob /\ jobs[u].uuid = u
    BY <1>2 DEF TreeInvariant, TypeOK
  <2> QED BY <1>2, <2>1, RemoveKeeps DEF RemoveJob
<1> QED BY <1>1, <1>2

\* ChannelManager.remove_db empties the tree.
LEMMA RemoveDbKeeps ==
    ASSUME TreeInvariant, RemoveDb
    PROVE  /\ TreeInvariant'
           /\ \A c \in Channels : queue'[c] = {} /\ running'[c] = {} /\ failed'[c] = {}
<1>1. \A c \in Channels : \A o \in queue[c] \cup running[c] \cup failed[c] :
         jobs[o.uuid] = o /\ c \in Path[o.chan]
  BY DEF TreeInvariant, CurrentObjects, Members
<1>2. /\ queue' = [c \in Channels |-> {}]
      /\ running' = [c \in Channels |-> {}]
      /\ failed' = [c \in Channels |-> {}]
      /\ jobs' = [u \in Uuids |-> NoJob]
  BY <1>1 DEF RemoveDb
<1>3. TypeOK'
  BY <1>2 DEF RemoveDb, TreeInvariant, TypeOK
<1>4. CurrentObjects' /\ OnePlace' /\ RunningMeansDownstream'
  BY <1>2, TreeAssumption DEF CurrentObjects, OnePlace, RunningMeansDownstream, Members
<1> QED BY <1>2, <1>3, <1>4 DEF TreeInvariant


\* The objects of the other uuids stay where they are.
LEMMA NotifyOthers ==
    ASSUME TreeInvariant, NEW o \in ChannelJob, NEW state \in States, Notify(o, state),
           NEW c \in Channels, NEW x, x.uuid # o.uuid
    PROVE  /\ x \in queue'[c] <=> x \in queue[c]
           /\ x \in running'[c] <=> x \in running[c]
           /\ x \in failed'[c] <=> x \in failed[c]
<1>1. o.uuid \in Uuids /\ x # o
  BY DEF ChannelJob
<1>2. CASE jobs[o.uuid] \in {NoJob, o}
  BY <1>1, <1>2 DEF Notify, NotifySame, Remove, SetPending, SetRunning, SetFailed,
                    sets, With, Without, TreeInvariant, TypeOK
<1>3. CASE jobs[o.uuid] \notin {NoJob, o}
  <2>1. x # jobs[o.uuid]
    BY <1>1, <1>3 DEF TreeInvariant, TypeOK
  <2> QED BY <1>1, <1>3, <2>1 DEF Notify, NotifyChanged, With, Without, TreeInvariant, TypeOK
<1> QED BY <1>2, <1>3

\* Where notify puts the object in its own channel
LEMMA NotifyPlaces ==
    ASSUME TreeInvariant, NEW o \in ChannelJob, NEW state \in States, Notify(o, state)
    PROVE  /\ state = PENDING => o \in queue'[o.chan]
           /\ state \in {ENQUEUED, STARTED} => o \in running'[o.chan]
           /\ state = FAILED => o \in failed'[o.chan]
<1>1. o.chan \in Channels /\ o.chan \in Path[o.chan]
  BY OwnPath DEF ChannelJob
<1> USE DEF PENDING, ENQUEUED, STARTED, FAILED, DONE
<1>2. CASE jobs[o.uuid] \in {NoJob, o}
  <2>1. CASE state = PENDING
    BY <2>1, <1>1, <1>2 DEF Notify, NotifySame, SetPending, sets, With, Without
  <2>2. CASE state \in {ENQUEUED, STARTED}
    <3>1. SetRunning(o)
      BY <2>2, <1>2 DEF Notify, NotifySame
    <3>2. o \notin running[o.chan] => o.chan \in MarkedBySetRunning(o)
      BY <1>1, NoCycle DEF MarkedBySetRunning
    <3>3. running'[o.chan] = IF o.chan \in MarkedBySetRunning(o)
                             THEN running[o.chan] \cup {o} ELSE running[o.chan]
      BY <3>1, <1>1 DEF SetRunning, With
    <3> QED BY <2>2, <3>2, <3>3
  <2>3. CASE state = FAILED
    BY <2>3, <1>1, <1>2 DEF Notify, NotifySame, SetFailed, sets, With, Without
  <2>4. CASE state = DONE
    BY <2>4
  <2> QED BY <2>1, <2>2, <2>3, <2>4 DEF States
<1>3. CASE jobs[o.uuid] \notin {NoJob, o}
  BY <1>1, <1>3 DEF Notify, NotifyChanged, With, Without
<1> QED BY <1>2, <1>3

\* The object notified waits or runs where it did, or where its state says.
LEMMA NotifyMoves ==
    ASSUME TreeInvariant, NEW o \in ChannelJob, NEW state \in States, Notify(o, state),
           NEW c \in Channels
    PROVE  /\ o \in queue'[c] => o \in queue[c] \/ state = PENDING
           /\ o \in running'[c] =>
                 \/ o \in running[c]
                 \/ state \in {ENQUEUED, STARTED} /\ c \in Path[o.chan]
           /\ /\ state \in {ENQUEUED, STARTED} /\ c \in Path[o.chan]
              /\ jobs[o.uuid] # o \/ o \in running[c]
              => o \in running'[c]
<1>1. o.chan \in Channels /\ o.chan \in Path[o.chan] /\ Path[o.chan] \subseteq Channels
  BY OwnPath DEF ChannelJob
<1>2. CASE jobs[o.uuid] \notin {NoJob, o}
  BY <1>1, <1>2 DEF Notify, NotifyChanged, With, Without
<1>3. CASE jobs[o.uuid] \in {NoJob, o}
  <2>1. NotifySame(o, state)
    BY <1>3 DEF Notify
  <2>2. CASE SetRunning(o) /\ state \in {ENQUEUED, STARTED}
    <3>1. /\ queue' = Without(queue, o, MarkedBySetRunning(o))
          /\ running' = With(running, o, MarkedBySetRunning(o))
      BY <2>2 DEF SetRunning
    <3>2. MarkedBySetRunning(o) \subseteq Path[o.chan]
      BY DEF MarkedBySetRunning
    <3>3. jobs[o.uuid] # o => MarkedBySetRunning(o) = Path[o.chan]
      BY <1>1, NewIsNowhere DEF MarkedBySetRunning, Members
    <3> QED BY <1>1, <2>2, <3>1, <3>2, <3>3 DEF With, Without
  <2>3. CASE Remove(o) /\ state = DONE
    BY <1>1, <2>3 DEF Remove, Without, DONE, ENQUEUED, STARTED
  <2>4. CASE SetPending(o) /\ state = PENDING
    BY <1>1, <2>4 DEF SetPending, With, Without, sets, PENDING, ENQUEUED, STARTED
  <2>5. CASE SetFailed(o) /\ state = FAILED
    BY <1>1, <2>5 DEF SetFailed, With, Without, sets, FAILED, ENQUEUED, STARTED
  <2> QED BY <2>1, <2>2, <2>3, <2>4, <2>5 DEF NotifySame
<1> QED BY <1>2, <1>3

\* remove_job leaves the objects of the other uuids where they are.
LEMMA RemoveJobOthers ==
    ASSUME TreeInvariant, NEW u \in Uuids, RemoveJob(u),
           NEW c \in Channels, NEW x, x.uuid # u
    PROVE  /\ x \in queue'[c] <=> x \in queue[c]
           /\ x \in running'[c] <=> x \in running[c]
           /\ x \in failed'[c] <=> x \in failed[c]
<1>1. CASE jobs[u] = NoJob
  BY <1>1 DEF RemoveJob
<1>2. CASE jobs[u] # NoJob
  <2>1. x # jobs[u]
    BY <1>2 DEF TreeInvariant, TypeOK
  <2> QED BY <1>2, <2>1 DEF RemoveJob, Remove, Without
<1> QED BY <1>1, <1>2

\* The generator moves objects from the queue to the running set of a channel.
LEMMA PassDownPlaces ==
    ASSUME TreeInvariant, NEW c \in Channels, PassDown(c), NEW d \in Channels, NEW x
    PROVE  /\ x \in queue[d] \cup running[d] => x \in queue'[d] \cup running'[d]
           /\ x \in running[d] => x \in running'[d]
           /\ failed'[d] = failed[d]
<1>1. PICK o \in Poppable(c, asof) :
         /\ queue' = With(Without(queue, o, {c}), o, {Parent[c]})
         /\ running' = With(running, o, {c})
  BY DEF PassDown
<1>2. failed' = failed
  BY DEF PassDown
<1> QED BY <1>1, <1>2 DEF With, Without

LEMMA YieldPlaces ==
    ASSUME TreeInvariant, NEW o, YieldToRunner(o), NEW d \in Channels, NEW x
    PROVE  /\ x \in queue[d] \cup running[d] => x \in queue'[d] \cup running'[d]
           /\ x \in running[d] => x \in running'[d]
           /\ failed'[d] = failed[d]
BY DEF YieldToRunner, With, Without

-----------------------------------------------------------------------------
(* The generator                                                           *)

\* A job that can be popped is in the queue.
LEMMA PoppableInQueue ==
    ASSUME NEW c, NEW t PROVE Poppable(c, t) \subseteq queue[c]
BY DEF Poppable, PoppableFrom, Firsts

\* The start and the end of the generator leave the sets alone.
LEMMA SetsKept ==
    ASSUME TreeInvariant, UNCHANGED <<jobs, queue, running, failed>>,
           gen' \in {"idle", "active"}, drained' \subseteq Channels, asof' \in Nat
    PROVE  TreeInvariant'
BY DEF TreeInvariant, TypeOK, CurrentObjects, OnePlace, RunningMeansDownstream, Members

LEMMA GetJobsToRunKeeps ==
    ASSUME TreeInvariant, NEW t \in Nat, GetJobsToRun(t) PROVE TreeInvariant'
BY SetsKept DEF GetJobsToRun

LEMMA ExhaustedKeeps ==
    ASSUME TreeInvariant, NEW c \in Channels, Exhausted(c) PROVE TreeInvariant'
BY SetsKept DEF Exhausted, TreeInvariant, TypeOK

\* A channel passes a job down to its parent, which did not hold it.
LEMMA PassDownMoves ==
    ASSUME TreeInvariant, NEW c \in Channels, PassDown(c)
    PROVE  LET p == Parent[c]
           IN  /\ c # Root /\ p \in Channels /\ p # c /\ c \notin drained
               /\ \E o \in queue[c] :
                     /\ o \in ChannelJob /\ o.chan \in Channels /\ o.uuid \in Uuids
                     /\ jobs[o.uuid] = o
                     /\ c \in Path[o.chan] /\ p \in Path[o.chan] /\ p # o.chan
                     /\ o \notin running[c] /\ o \notin failed[c]
                     /\ o \notin queue[p] /\ o \notin running[p] /\ o \notin failed[p]
                     /\ queue' \in [Channels -> SUBSET ChannelJob]
                     /\ running' \in [Channels -> SUBSET ChannelJob]
                     /\ failed' = failed /\ jobs' = jobs
                     /\ \A d \in Channels :
                           /\ queue'[d] = IF d = p THEN queue[d] \cup {o}
                                          ELSE IF d = c THEN queue[d] \ {o} ELSE queue[d]
                           /\ running'[d] = IF d = c THEN running[d] \cup {o} ELSE running[d]
<1> DEFINE p == Parent[c]
<1>1. c \in Channels \ {Root} /\ p \in Channels /\ p # c
  BY TreeAssumption, OwnPath DEF PassDown
<1>2. PICK o \in Poppable(c, asof) :
         /\ queue' = With(Without(queue, o, {c}), o, {p})
         /\ running' = With(running, o, {c})
  BY DEF PassDown
<1>3. o \in queue[c] /\ o \in ChannelJob
  BY <1>1, <1>2, PoppableInQueue DEF TreeInvariant, TypeOK
<1>4. jobs[o.uuid] = o /\ c \in Path[o.chan] /\ o.chan \in Channels /\ o.uuid \in Uuids
  BY <1>1, <1>3 DEF TreeInvariant, CurrentObjects, Members, ChannelJob
<1>5. p \in Path[o.chan] /\ p # o.chan
  BY <1>1, <1>4, ParentOnPath
\* the parent does not hold the job yet
<1>6. o \notin running[c] /\ o \notin failed[c]
  BY <1>1, <1>3 DEF TreeInvariant, OnePlace
<1>7. o \notin queue[p] /\ o \notin running[p] /\ o \notin failed[p]
  <2>1. o \notin queue[p] \cup running[p]
    BY <1>1, <1>4, <1>6, Downstream DEF TreeInvariant
  <2>2. o \notin failed[p]
    BY <1>1, <1>5 DEF TreeInvariant, OnePlace
  <2> QED BY <2>1, <2>2
<1>8. /\ queue' \in [Channels -> SUBSET ChannelJob]
      /\ running' \in [Channels -> SUBSET ChannelJob]
      /\ failed' = failed /\ jobs' = jobs
      /\ \A d \in Channels :
            /\ queue'[d] = IF d = p THEN queue[d] \cup {o}
                           ELSE IF d = c THEN queue[d] \ {o} ELSE queue[d]
            /\ running'[d] = IF d = c THEN running[d] \cup {o} ELSE running[d]
  <2>1. queue \in [Channels -> SUBSET ChannelJob] /\ running \in [Channels -> SUBSET ChannelJob]
    BY DEF TreeInvariant, TypeOK
  <2>2. queue' = [d \in Channels |-> IF d = p THEN queue[d] \cup {o}
                                     ELSE IF d = c THEN queue[d] \ {o} ELSE queue[d]]
    BY <1>1, <1>2 DEF With, Without
  <2>3. running' = [d \in Channels |-> IF d = c THEN running[d] \cup {o} ELSE running[d]]
    BY <1>2 DEF With
  <2>4. failed' = failed /\ jobs' = jobs
    BY DEF PassDown
  <2> HIDE DEF p
  <2> QED BY <1>3, <2>1, <2>2, <2>3, <2>4
<1>9. c # Root /\ c \notin drained
  BY DEF PassDown, InLoop
<1> HIDE DEF p
<1>10. \E x \in queue[c] :
          /\ x \in ChannelJob /\ x.chan \in Channels /\ x.uuid \in Uuids
          /\ jobs[x.uuid] = x
          /\ c \in Path[x.chan] /\ p \in Path[x.chan] /\ p # x.chan
          /\ x \notin running[c] /\ x \notin failed[c]
          /\ x \notin queue[p] /\ x \notin running[p] /\ x \notin failed[p]
          /\ queue' \in [Channels -> SUBSET ChannelJob]
          /\ running' \in [Channels -> SUBSET ChannelJob]
          /\ failed' = failed /\ jobs' = jobs
          /\ \A d \in Channels :
                /\ queue'[d] = IF d = p THEN queue[d] \cup {x}
                               ELSE IF d = c THEN queue[d] \ {x} ELSE queue[d]
                /\ running'[d] = IF d = c THEN running[d] \cup {x} ELSE running[d]
  BY <1>3, <1>4, <1>5, <1>6, <1>7, <1>8
<1> QED BY <1>1, <1>9, <1>10 DEF p

LEMMA PassDownKeeps ==
    ASSUME TreeInvariant, NEW c \in Channels, PassDown(c)
    PROVE  TreeInvariant'
<1> DEFINE p == Parent[c]
<1>1. c \in Channels \ {Root} /\ p \in Channels /\ p # c
  BY PassDownMoves
<1>2. PICK o \in queue[c] :
         /\ o \in ChannelJob /\ o.chan \in Channels /\ o.uuid \in Uuids
         /\ jobs[o.uuid] = o
         /\ c \in Path[o.chan] /\ p \in Path[o.chan] /\ p # o.chan
         /\ o \notin running[c] /\ o \notin failed[c]
         /\ o \notin queue[p] /\ o \notin running[p] /\ o \notin failed[p]
         /\ queue' \in [Channels -> SUBSET ChannelJob]
         /\ running' \in [Channels -> SUBSET ChannelJob]
         /\ failed' = failed /\ jobs' = jobs
         /\ \A d \in Channels :
               /\ queue'[d] = IF d = p THEN queue[d] \cup {o}
                              ELSE IF d = c THEN queue[d] \ {o} ELSE queue[d]
               /\ running'[d] = IF d = c THEN running[d] \cup {o} ELSE running[d]
  BY PassDownMoves
<1>3. o \in queue[c] /\ o \in ChannelJob
  BY <1>2
<1>4. jobs[o.uuid] = o /\ c \in Path[o.chan] /\ o.chan \in Channels /\ o.uuid \in Uuids
  BY <1>2
<1>5. p \in Path[o.chan] /\ p # o.chan
  BY <1>2
<1>6. o \notin running[c] /\ o \notin failed[c]
  BY <1>2
<1>7. o \notin queue[p] /\ o \notin running[p] /\ o \notin failed[p]
  BY <1>2
<1>8. /\ queue' \in [Channels -> SUBSET ChannelJob]
      /\ running' \in [Channels -> SUBSET ChannelJob]
      /\ failed' = failed /\ jobs' = jobs
      /\ \A d \in Channels :
            /\ queue'[d] = IF d = p THEN queue[d] \cup {o}
                           ELSE IF d = c THEN queue[d] \ {o} ELSE queue[d]
            /\ running'[d] = IF d = c THEN running[d] \cup {o} ELSE running[d]
  BY <1>2
<1>9. TypeOK'
  BY <1>8 DEF TreeInvariant, TypeOK, PassDown
<1> HIDE DEF p
<1>10. CurrentObjects'
  <2> SUFFICES ASSUME NEW d \in Channels, NEW x \in Members(d)'
               PROVE  jobs[x.uuid] = x /\ d \in Path[x.chan]
    BY <1>8 DEF CurrentObjects
  <2>1. x \in Members(d) \/ (x = o /\ d \in {c, p})
    BY <1>8 DEF Members
  <2> QED BY <2>1, <1>4, <1>5 DEF TreeInvariant, CurrentObjects
<1>11. OnePlace'
  <2> SUFFICES ASSUME NEW d \in Channels
               PROVE  /\ queue'[d] \cap running'[d] = {}
                      /\ queue'[d] \cap failed[d] = {}
                      /\ running'[d] \cap failed[d] = {}
                      /\ \A x \in failed[d] : x.chan = d
    BY <1>8 DEF OnePlace
  <2>1. /\ queue[d] \cap running[d] = {}
        /\ queue[d] \cap failed[d] = {}
        /\ running[d] \cap failed[d] = {}
        /\ \A x \in failed[d] : x.chan = d
    BY DEF TreeInvariant, OnePlace
  <2>2. CASE d = c
    BY <2>1, <2>2, <1>1, <1>6, <1>8 DEF p
  <2>3. CASE d = p
    BY <2>1, <2>3, <1>1, <1>7, <1>8 DEF p
  <2>4. CASE d \notin {c, p}
    BY <2>1, <2>4, <1>8
  <2> QED BY <2>2, <2>3, <2>4
<1>12. RunningMeansDownstream'
  <2> SUFFICES ASSUME NEW d \in Channels \ {Root}, NEW x, d \in Path[x.chan]
               PROVE  x \in running'[d] <=> x \in queue'[Parent[d]] \cup running'[Parent[d]]
    BY DEF RunningMeansDownstream
  <2>1. Parent[d] \in Channels /\ Parent[d] # d
    BY TreeAssumption, OwnPath
  <2>2. x \in running[d] <=> x \in queue[Parent[d]] \cup running[Parent[d]]
    BY Downstream DEF TreeInvariant
  <2>3. CASE x # o
    BY <2>1, <2>2, <2>3, <1>8
  <2>4. CASE x = o /\ d = c
    BY <2>4, <2>1, <1>8 DEF p
  <2>5. CASE x = o /\ d # c
    <3>1. Parent[d] # p
      BY <2>5, <1>1, <1>4, OneChild DEF p
    <3>2. Parent[d] = c \/ Parent[d] # c
      OBVIOUS
    <3> QED BY <3>1, <3>2, <2>1, <2>2, <2>5, <1>3, <1>8
  <2> QED BY <2>3, <2>4, <2>5
<1> QED BY <1>9, <1>10, <1>11, <1>12 DEF TreeInvariant

\* The root yields a job.
LEMMA YieldMoves ==
    ASSUME TreeInvariant, NEW o, YieldToRunner(o)
    PROVE  /\ Root \in Channels /\ Root \notin drained
           /\ o \in queue[Root] /\ o \in ChannelJob
           /\ jobs[o.uuid] = o /\ Root \in Path[o.chan]
           /\ queue' \in [Channels -> SUBSET ChannelJob]
           /\ running' \in [Channels -> SUBSET ChannelJob]
           /\ failed' = failed /\ jobs' = jobs
           /\ \A d \in Channels :
                 /\ queue'[d] = IF d = Root THEN queue[d] \ {o} ELSE queue[d]
                 /\ running'[d] = IF d = Root THEN running[d] \cup {o} ELSE running[d]
<1>1. Root \in Channels
  BY TreeAssumption
<1>2. o \in queue[Root] /\ o \in ChannelJob
  BY <1>1, PoppableInQueue DEF YieldToRunner, TreeInvariant, TypeOK
<1>3. jobs[o.uuid] = o /\ Root \in Path[o.chan]
  BY <1>1, <1>2 DEF TreeInvariant, CurrentObjects, Members
<1>4. /\ queue' \in [Channels -> SUBSET ChannelJob]
      /\ running' \in [Channels -> SUBSET ChannelJob]
      /\ failed' = failed /\ jobs' = jobs
      /\ \A d \in Channels :
            /\ queue'[d] = IF d = Root THEN queue[d] \ {o} ELSE queue[d]
            /\ running'[d] = IF d = Root THEN running[d] \cup {o} ELSE running[d]
  BY <1>1, <1>2 DEF TreeInvariant, TypeOK, YieldToRunner, With, Without
<1>5. Root \notin drained
  BY DEF YieldToRunner, InLoop
<1> QED BY <1>1, <1>2, <1>3, <1>4, <1>5

LEMMA YieldKeeps ==
    ASSUME TreeInvariant, NEW o, YieldToRunner(o)
    PROVE  TreeInvariant' /\ o \in ChannelJob /\ jobs[o.uuid] = o
<1>1. Root \in Channels
  BY TreeAssumption
<1>2. o \in queue[Root] /\ o \in ChannelJob
  BY YieldMoves
<1>3. jobs[o.uuid] = o /\ Root \in Path[o.chan]
  BY YieldMoves
<1>4. /\ queue' \in [Channels -> SUBSET ChannelJob]
      /\ running' \in [Channels -> SUBSET ChannelJob]
      /\ failed' = failed /\ jobs' = jobs
      /\ \A d \in Channels :
            /\ queue'[d] = IF d = Root THEN queue[d] \ {o} ELSE queue[d]
            /\ running'[d] = IF d = Root THEN running[d] \cup {o} ELSE running[d]
  BY YieldMoves
<1>5. TypeOK'
  BY <1>4 DEF TreeInvariant, TypeOK, YieldToRunner
<1>6. CurrentObjects'
  <2> SUFFICES ASSUME NEW d \in Channels, NEW x \in Members(d)'
               PROVE  jobs[x.uuid] = x /\ d \in Path[x.chan]
    BY <1>4 DEF CurrentObjects
  <2>1. x \in Members(d) \/ (x = o /\ d = Root)
    BY <1>4 DEF Members
  <2> QED BY <2>1, <1>3 DEF TreeInvariant, CurrentObjects
<1>7. OnePlace'
  BY <1>1, <1>2, <1>4 DEF TreeInvariant, OnePlace
<1>8. RunningMeansDownstream'
  <2> SUFFICES ASSUME NEW d \in Channels \ {Root}, NEW x, d \in Path[x.chan]
               PROVE  x \in running'[d] <=> x \in queue'[Parent[d]] \cup running'[Parent[d]]
    BY DEF RunningMeansDownstream
  <2>1. Parent[d] \in Channels
    BY TreeAssumption
  <2>2. x \in running[d] <=> x \in queue[Parent[d]] \cup running[Parent[d]]
    BY Downstream DEF TreeInvariant
  <2> QED BY <2>1, <2>2, <1>2, <1>4
<1> QED BY <1>2, <1>3, <1>5, <1>6, <1>7, <1>8 DEF TreeInvariant

-----------------------------------------------------------------------------
(* What the generator leaves behind                                        *)

\* A job that waits in the root channel is counted in all its other channels.
LEMMA RunningDown ==
    ASSUME TreeInvariant, NEW o \in queue[Root], NEW c \in Path[o.chan], c # Root
    PROVE  o \in running[c]
<1>1. o \in ChannelJob /\ o.chan \in Channels
  BY TreeAssumption DEF TreeInvariant, TypeOK, ChannelJob
<1> DEFINE U == {d \in Path[o.chan] : d # Root /\ o \notin running[d]}
<1>2. U \in SUBSET (Channels \ {Root})
  BY <1>1, OwnPath
<1>3. ASSUME NEW d \in U PROVE Parent[d] \in U
  <2>1. Parent[d] \in Path[o.chan] /\ d \in Channels \ {Root}
    BY <1>1, <1>3, ParentOnPath
  <2>2. o \notin queue[Parent[d]] \cup running[Parent[d]]
    BY <1>3, <2>1, Downstream DEF TreeInvariant
  <2> QED BY <2>1, <2>2
<1>4. U = {}
  BY <1>2, <1>3, ReachesRoot
<1> QED BY <1>4

\* A channel whose generator has returned had nothing to let go, and neither
\* had the channels upstream, which returned before it.
DrainedBlocked ==
    gen = "active" => \A c \in drained : Children(c) \subseteq drained /\ ~CanYield(c, asof)

\* A step of the generator does not disturb the channels that have returned.
LEMMA GeneratorDrains ==
    ASSUME TreeInvariant, DrainedBlocked,
           \/ \E t \in Nat : GetJobsToRun(t)
           \/ \E c \in Channels : PassDown(c) \/ Exhausted(c)
           \/ \E o \in queue[Root] : YieldToRunner(o)
    PROVE  DrainedBlocked'
<1>1. CASE \E t \in Nat : GetJobsToRun(t)
  BY <1>1 DEF GetJobsToRun, DrainedBlocked
<1>2. ASSUME NEW c \in Channels, PassDown(c) PROVE DrainedBlocked'
  <2>1. /\ gen = "active" /\ c \notin drained /\ c # Root /\ c \in Children(Parent[c])
        /\ UNCHANGED <<gen, drained, asof, failed>>
    BY <1>2 DEF PassDown, InLoop, Children
  <2>2. \A d \in drained : d # c /\ d # Parent[c] /\ d \in Channels
    BY <2>1 DEF DrainedBlocked, TreeInvariant, TypeOK
  <2>3. \A d \in drained : queue'[d] = queue[d] /\ running'[d] = running[d]
    <3>1. PICK o \in Poppable(c, asof) :
             /\ queue' = With(Without(queue, o, {c}), o, {Parent[c]})
             /\ running' = With(running, o, {c})
      BY <1>2 DEF PassDown
    <3> QED BY <2>2, <3>1 DEF With, Without
  <2> SUFFICES ASSUME NEW d \in drained, CanYield(d, asof)' PROVE FALSE
    BY <2>1 DEF DrainedBlocked, Children
  <2>4. CanYield(d, asof)
    BY <2>1, <2>3 DEF CanYield, Poppable
  <2> QED BY <2>1, <2>4 DEF DrainedBlocked
<1>3. ASSUME NEW o \in queue[Root], YieldToRunner(o) PROVE DrainedBlocked'
  <2>1. /\ gen = "active" /\ Root \notin drained
        /\ UNCHANGED <<gen, drained, asof, failed>>
    BY <1>3 DEF YieldToRunner, InLoop
  <2>2. \A d \in drained : d # Root /\ d \in Channels
    BY <2>1 DEF TreeInvariant, TypeOK
  <2>3. \A d \in drained : queue'[d] = queue[d] /\ running'[d] = running[d]
    BY <1>3, <2>2, YieldMoves
  <2> SUFFICES ASSUME NEW d \in drained, CanYield(d, asof)' PROVE FALSE
    BY <2>1 DEF DrainedBlocked, Children
  <2>4. CanYield(d, asof)
    BY <2>1, <2>3 DEF CanYield, Poppable
  <2> QED BY <2>1, <2>4 DEF DrainedBlocked
<1>4. ASSUME NEW c \in Channels, Exhausted(c) PROVE DrainedBlocked'
  <2>1. CASE c = Root
    BY <1>4, <2>1 DEF Exhausted, DrainedBlocked
  <2>2. CASE c # Root
    <3>1. /\ gen = "active" /\ ~CanYield(c, asof) /\ Children(c) \subseteq drained
          /\ drained' = drained \cup {c}
          /\ UNCHANGED <<asof, queue, running, failed>>
      BY <1>4, <2>2 DEF Exhausted, InLoop
    <3> SUFFICES ASSUME NEW d \in drained \cup {c}
                 PROVE  Children(d) \subseteq drained /\ ~CanYield(d, asof)'
      BY <3>1 DEF DrainedBlocked, Children
    <3>2. Children(d) \subseteq drained /\ ~CanYield(d, asof)
      BY <3>1 DEF DrainedBlocked
    <3> QED BY <3>1, <3>2 DEF CanYield, Poppable
  <2> QED BY <2>1, <2>2
<1> QED BY <1>1, <1>2, <1>3, <1>4

\* When the generator of the root returns, no channel can let a job go.
LEMMA GeneratorReturns ==
    ASSUME DrainedBlocked, Exhausted(Root), NEW c \in Channels
    PROVE  ~CanYield(c, asof)
<1>1. gen = "active" /\ ~CanYield(Root, asof) /\ Children(Root) \subseteq drained
  BY DEF Exhausted, InLoop
<1> DEFINE U == {d \in Channels \ {Root} : d \notin drained}
<1>2. ASSUME NEW d \in U PROVE Parent[d] \in U
  <2>1. Parent[d] \in Channels /\ d \in Children(Parent[d])
    BY TreeAssumption DEF Children
  <2> QED BY <1>1, <2>1 DEF DrainedBlocked
<1>3. U = {}
  BY <1>2, ReachesRoot
<1> QED BY <1>1, <1>3 DEF DrainedBlocked

-----------------------------------------------------------------------------
(* The order of the jobs                                                   *)

\* The jobs of a finite set that is not empty have a first one: the order has
\* no cycles.
LEMMA FirstsExist ==
    ASSUME NEW S \in SUBSET ChannelJob, IsFiniteSet(S), S # {}
    PROVE  Firsts(S) # {}
<1>1. \A a, b, c \in S : ~Before(a, a) /\ (Before(a, b) /\ Before(b, c) => Before(a, c))
  <2> SUFFICES ASSUME NEW a \in S, NEW b \in S, NEW c \in S
               PROVE  ~Before(a, a) /\ (Before(a, b) /\ Before(b, c) => Before(a, c))
    OBVIOUS
  <2>1. \A x \in S : x.eta \in Nat /\ x.prio \in Nat /\ x.seq \in Nat
    BY DEF ChannelJob
  <2> QED BY <2>1 DEF Before, NoEta
<1> DEFINE Lower(a) == {b \in S : Before(b, a)}
           T == {Lower(a) : a \in S}
<1>2. \E x \in T : \A y \in T : <<y, x>> \notin StrictSubsetOrdering(S)
  <2>1. IsWellFoundedOn(StrictSubsetOrdering(S), FiniteSubsetsOf(S))
    BY FS_StrictSubsetOrderingWellFounded
  <2>2. T # {} /\ T \subseteq SUBSET S
    OBVIOUS
  <2>3. FiniteSubsetsOf(S) = SUBSET S
    BY FS_FiniteSubsetsOfFinite
  <2> HIDE DEF T
  <2> QED BY <2>1, <2>2, <2>3, WFMin
<1>3. PICK a \in S : \A b \in S : <<Lower(b), Lower(a)>> \notin StrictSubsetOrdering(S)
  BY <1>2
<1>4. ASSUME NEW b \in S, Before(b, a) PROVE FALSE
  <2>1. Lower(b) \subseteq Lower(a) /\ b \in Lower(a) /\ b \notin Lower(b)
    BY <1>1, <1>4
  <2>2. <<Lower(b), Lower(a)>> \in StrictSubsetOrdering(S)
    BY <2>1 DEF StrictSubsetOrdering
  <2> QED BY <1>3, <2>2
<1> QED BY <1>4 DEF Firsts

\* A channel holds each job once: its sets are finite when the jobs are.
LEMMA FiniteChannel ==
    ASSUME TreeInvariant, IsFiniteSet(Uuids), NEW c \in Channels
    PROVE  IsFiniteSet(queue[c]) /\ IsFiniteSet(running[c])
<1> DEFINE f == [o \in Members(c) |-> o.uuid]
<1>1. \A o \in Members(c) : o.uuid \in Uuids /\ jobs[o.uuid] = o
  BY DEF TreeInvariant, TypeOK, CurrentObjects, Members, ChannelJob
<1>2. f \in Injection(Members(c), Uuids)
  BY <1>1 DEF Injection, IsInjective
<1>3. IsFiniteSet(Members(c))
  BY <1>2, FS_Injection
<1>4. queue[c] \in SUBSET Members(c) /\ running[c] \in SUBSET Members(c)
  BY DEF Members
<1> QED BY <1>3, <1>4, FS_Subset

\* A channel with a job whose time has come has a job to pop.
LEMMA DueIsPoppable ==
    ASSUME TreeInvariant, IsFiniteSet(Uuids), NEW c \in Channels,
           NEW o \in queue[c], NEW t \in Nat, o.eta <= t
    PROVE  Poppable(c, t) # {}
<1> DEFINE due == {j \in queue[c] : j.eta # NoEta /\ j.eta <= t}
           S == IF due # {} THEN due ELSE {j \in queue[c] : j.eta = NoEta}
<1>1. queue[c] \subseteq ChannelJob /\ IsFiniteSet(queue[c])
  BY FiniteChannel DEF TreeInvariant, TypeOK
<1>2. S # {} /\ S \in SUBSET queue[c]
  OBVIOUS
<1>3. Poppable(c, t) = Firsts(S)
  BY DEF Poppable, PoppableFrom
<1> HIDE DEF S
<1>4. IsFiniteSet(S) /\ S \in SUBSET ChannelJob
  BY <1>1, <1>2, FS_Subset
<1> QED BY <1>2, <1>3, <1>4, FirstsExist

-----------------------------------------------------------------------------
(***************************************************************************)
(* The channel manager                                                     *)
(***************************************************************************)

LEMMA NextTree == TreeInvariant /\ [ManagerNext]_managerVars => TreeInvariant'
<1> SUFFICES ASSUME TreeInvariant, [ManagerNext]_managerVars PROVE TreeInvariant'
  OBVIOUS
<1>1. ASSUME NEW o \in Objects, NEW state \in States, NotifyRow(o, state)
      PROVE  TreeInvariant'
  BY <1>1, NotifyKeeps, EnvironmentAssumption DEF NotifyRow
<1>2. ASSUME NEW u \in Uuids, RowDeleted(u) PROVE TreeInvariant'
  BY <1>2, RemoveJobKeeps DEF RowDeleted
<1>3. ASSUME DatabaseClosed PROVE TreeInvariant'
  BY <1>3, RemoveDbKeeps DEF DatabaseClosed
<1>4. ASSUME Consume PROVE TreeInvariant'
  <2>1. ASSUME NEW t \in Times, GetJobsToRun(t) PROVE TreeInvariant'
    BY <2>1, GetJobsToRunKeeps, EnvironmentAssumption
  <2>2. ASSUME NEW c \in Channels, PassDown(c) PROVE TreeInvariant'
    BY <2>2, PassDownKeeps
  <2>3. ASSUME NEW o \in queue[Root], YieldToRunner(o) PROVE TreeInvariant'
    BY <2>3, YieldKeeps
  <2>4. ASSUME NEW c \in Channels, Exhausted(c) PROVE TreeInvariant'
    BY <2>4, ExhaustedKeeps
  <2> QED BY <1>4, <2>1, <2>2, <2>3, <2>4 DEF Consume
<1>5. CASE UNCHANGED managerVars
  BY <1>5, StutterKeeps DEF managerVars
<1> QED BY <1>1, <1>2, <1>3, <1>4, <1>5 DEF ManagerNext

\* The tree is well formed whatever is notified to it, in whatever order: no
\* object that was replaced stays behind, no job is counted twice, and a job
\* takes a place of a channel exactly while the parent holds it.
THEOREM TreeIsWellFormed == ManagerSpec => []TreeInvariant
<1>1. ManagerInit => TreeInvariant
  BY InitTree DEF ManagerInit
<1> QED BY <1>1, NextTree, PTL DEF ManagerSpec

-----------------------------------------------------------------------------
(* The tree and the database                                               *)

\* The tree and the history agree, and the history is one of states.
Follows == TreeInvariant /\ told \in [Uuids -> States] /\ FollowsDatabase

LEMMA InitFollows == ManagerInit => Follows
BY InitTree DEF ManagerInit, ChannelsInit, Follows, FollowsDatabase, States, DONE, PENDING,
                ENQUEUED, STARTED, FAILED

\* The facts of one uuid survive a step that keeps its entry, its history and
\* what its own channel does with it.
LEMMA FollowsKept ==
    ASSUME Follows, NEW u \in Uuids, jobs'[u] = jobs[u], told'[u] = told[u],
           jobs[u] # NoJob =>
              LET o == jobs[u]
                  c == o.chan
              IN  /\ o \in queue[c] \cup running[c] => o \in queue'[c] \cup running'[c]
                  /\ o \in running[c] => o \in running'[c]
                  /\ o \in failed[c] => o \in failed'[c]
    PROVE  LET o == jobs'[u]
           IN  /\ told'[u] = DONE <=> o = NoJob
               /\ told'[u] = PENDING => o \in queue'[o.chan] \cup running'[o.chan]
               /\ told'[u] \in {ENQUEUED, STARTED} => o \in running'[o.chan]
               /\ told'[u] = FAILED => o \in failed'[o.chan]
BY DEF Follows, FollowsDatabase, DONE, PENDING, ENQUEUED, STARTED, FAILED

LEMMA NextFollows == Follows /\ [ManagerNext]_managerVars => Follows'
<1> SUFFICES ASSUME Follows, [ManagerNext]_managerVars PROVE Follows'
  OBVIOUS
<1>1. TreeInvariant'
  BY NextTree DEF Follows
<1>2. \A u \in Uuids : jobs[u] # NoJob =>
         jobs[u] \in ChannelJob /\ jobs[u].chan \in Channels /\ jobs[u].uuid = u
  BY DEF Follows, TreeInvariant, TypeOK, ChannelJob
<1>3. ASSUME NEW o \in Objects, NEW state \in States, NotifyRow(o, state)
      PROVE  told' \in [Uuids -> States] /\ FollowsDatabase'
  <2>1. o \in ChannelJob /\ o.uuid \in Uuids /\ o # NoJob /\ Notify(o, state)
    BY <1>3, EnvironmentAssumption, NoJobAssumption DEF ChannelJob, NotifyRow
  <2>2. told' = [told EXCEPT ![o.uuid] = state]
    BY <1>3 DEF NotifyRow
  <2>3. jobs' = [jobs EXCEPT ![o.uuid] = IF state = DONE THEN NoJob ELSE o]
    BY <2>1 DEF Notify
  <2>4. told' \in [Uuids -> States]
    BY <2>1, <2>2 DEF Follows
  <2>5. jobs \in [Uuids -> ChannelJob \cup {NoJob}] /\ told \in [Uuids -> States] /\ TreeInvariant
    BY DEF Follows, TreeInvariant, TypeOK
  <2> SUFFICES ASSUME NEW u \in Uuids
               PROVE  LET x == jobs'[u]
                      IN  /\ told'[u] = DONE <=> x = NoJob
                          /\ told'[u] = PENDING => x \in queue'[x.chan] \cup running'[x.chan]
                          /\ told'[u] \in {ENQUEUED, STARTED} => x \in running'[x.chan]
                          /\ told'[u] = FAILED => x \in failed'[x.chan]
    BY <2>4 DEF FollowsDatabase
  <2>6. CASE u = o.uuid
    BY <2>1, <2>2, <2>3, <2>5, <2>6, NotifyPlaces DEF DONE, PENDING, ENQUEUED, STARTED, FAILED
  <2>7. CASE u # o.uuid
    <3>1. jobs'[u] = jobs[u] /\ told'[u] = told[u]
      BY <2>2, <2>3, <2>5, <2>7
    <3>2. ASSUME jobs[u] # NoJob
          PROVE  LET x == jobs[u]
                     c == x.chan
                 IN  /\ x \in queue'[c] <=> x \in queue[c]
                     /\ x \in running'[c] <=> x \in running[c]
                     /\ x \in failed'[c] <=> x \in failed[c]
      BY <3>2, <2>1, <2>5, <2>7, <1>2, NotifyOthers
    <3> QED BY <3>1, <3>2, FollowsKept
  <2> QED BY <2>6, <2>7
<1>4. ASSUME NEW v \in Uuids, RowDeleted(v)
      PROVE  told' \in [Uuids -> States] /\ FollowsDatabase'
  <2>1. /\ jobs' = [jobs EXCEPT ![v] = NoJob]
        /\ told' = [told EXCEPT ![v] = DONE]
        /\ jobs \in [Uuids -> ChannelJob \cup {NoJob}] /\ told \in [Uuids -> States] /\ TreeInvariant
        /\ RemoveJob(v)
    BY <1>4 DEF RowDeleted, RemoveJob, Follows, TreeInvariant, TypeOK
  <2>2. told' \in [Uuids -> States]
    BY <2>1 DEF States
  <2> SUFFICES ASSUME NEW u \in Uuids
               PROVE  LET x == jobs'[u]
                      IN  /\ told'[u] = DONE <=> x = NoJob
                          /\ told'[u] = PENDING => x \in queue'[x.chan] \cup running'[x.chan]
                          /\ told'[u] \in {ENQUEUED, STARTED} => x \in running'[x.chan]
                          /\ told'[u] = FAILED => x \in failed'[x.chan]
    BY <2>2 DEF FollowsDatabase
  <2>3. CASE u = v
    BY <2>1, <2>3 DEF DONE, PENDING, ENQUEUED, STARTED, FAILED
  <2>4. CASE u # v
    <3>1. jobs'[u] = jobs[u] /\ told'[u] = told[u]
      BY <2>1, <2>4
    <3>2. ASSUME jobs[u] # NoJob
          PROVE  LET x == jobs[u]
                     c == x.chan
                 IN  /\ x \in queue'[c] <=> x \in queue[c]
                     /\ x \in running'[c] <=> x \in running[c]
                     /\ x \in failed'[c] <=> x \in failed[c]
      BY <3>2, <2>1, <2>4, <1>2, RemoveJobOthers
    <3> QED BY <3>1, <3>2, FollowsKept
  <2> QED BY <2>3, <2>4
<1>5. ASSUME DatabaseClosed PROVE told' \in [Uuids -> States] /\ FollowsDatabase'
  BY <1>5 DEF DatabaseClosed, RemoveDb, FollowsDatabase, States, DONE, PENDING,
              ENQUEUED, STARTED, FAILED
<1>6. ASSUME Consume PROVE told' \in [Uuids -> States] /\ FollowsDatabase'
  <2>1. told' = told /\ jobs' = jobs
    BY <1>6 DEF Consume, GetJobsToRun, PassDown, YieldToRunner, Exhausted
  <2>2. ASSUME NEW d \in Channels, NEW x
        PROVE  /\ x \in queue[d] \cup running[d] => x \in queue'[d] \cup running'[d]
               /\ x \in running[d] => x \in running'[d]
               /\ failed'[d] = failed[d]
    <3>1. TreeInvariant
      BY DEF Follows
    <3>2. CASE \E t \in Times : t >= asof /\ GetJobsToRun(t)
      BY <3>2 DEF GetJobsToRun
    <3>3. ASSUME NEW c \in Channels, PassDown(c)
          PROVE  /\ x \in queue[d] \cup running[d] => x \in queue'[d] \cup running'[d]
                 /\ x \in running[d] => x \in running'[d]
                 /\ failed'[d] = failed[d]
      BY <3>1, <3>3, PassDownPlaces
    <3>4. ASSUME NEW o \in queue[Root], YieldToRunner(o)
          PROVE  /\ x \in queue[d] \cup running[d] => x \in queue'[d] \cup running'[d]
                 /\ x \in running[d] => x \in running'[d]
                 /\ failed'[d] = failed[d]
      BY <3>1, <3>4, YieldPlaces
    <3>5. CASE \E c \in Channels : Exhausted(c)
      BY <3>5 DEF Exhausted
    <3> QED BY <1>6, <3>2, <3>3, <3>4, <3>5 DEF Consume
  <2> SUFFICES ASSUME NEW u \in Uuids
               PROVE  LET x == jobs'[u]
                      IN  /\ told'[u] = DONE <=> x = NoJob
                          /\ told'[u] = PENDING => x \in queue'[x.chan] \cup running'[x.chan]
                          /\ told'[u] \in {ENQUEUED, STARTED} => x \in running'[x.chan]
                          /\ told'[u] = FAILED => x \in failed'[x.chan]
    BY <2>1 DEF FollowsDatabase, Follows
  <2> QED BY <2>1, <2>2, <1>2, FollowsKept
<1>7. CASE UNCHANGED managerVars
  BY <1>1, <1>7 DEF managerVars, chvars, Follows, FollowsDatabase
<1> QED BY <1>1, <1>3, <1>4, <1>5, <1>6, <1>7 DEF ManagerNext, Follows

\* What the tree holds is what it was last told of each job: no pending job is
\* ever lost in the tree, and no job that is done or deleted keeps a place.
THEOREM TreeFollowsDatabase == ManagerSpec => []FollowsDatabase
<1>1. Follows => FollowsDatabase
  BY DEF Follows
<1> QED BY <1>1, InitFollows, NextFollows, PTL DEF ManagerSpec

-----------------------------------------------------------------------------
(* What get_jobs_to_run leaves behind                                      *)

LEMMA NextDrained == TreeInvariant /\ DrainedBlocked /\ [ManagerNext]_managerVars => DrainedBlocked'
<1> SUFFICES ASSUME TreeInvariant, DrainedBlocked, [ManagerNext]_managerVars PROVE DrainedBlocked'
  OBVIOUS
<1>1. CASE gen' = "idle"
  BY <1>1 DEF DrainedBlocked
<1>2. ASSUME NEW o \in Objects, NEW state \in States, NotifyRow(o, state) PROVE gen' = "idle"
  BY <1>2 DEF NotifyRow, Notify
<1>3. ASSUME NEW u \in Uuids, RowDeleted(u) PROVE gen' = "idle"
  BY <1>3 DEF RowDeleted, RemoveJob
<1>4. CASE DatabaseClosed
  BY <1>1, <1>4 DEF DatabaseClosed, RemoveDb
<1>5. CASE Consume
  BY <1>5, GeneratorDrains, EnvironmentAssumption DEF Consume
<1>6. CASE UNCHANGED managerVars
  BY <1>6 DEF managerVars, chvars, DrainedBlocked, Children, CanYield, Poppable
<1> QED BY <1>1, <1>2, <1>3, <1>4, <1>5, <1>6 DEF ManagerNext

\* When get_jobs_to_run returns, every job has advanced as far as it can, in
\* every tree of channels: no channel has both room and a job to let go.
THEOREM JobsAdvance == ManagerSpec => NoIdleCapacity
<1> DEFINE Returns == gen = "active" /\ gen' = "idle" /\ jobs' = jobs
                         => \A c \in Channels : ~CanYield(c, asof)
<1>1. ManagerInit => TreeInvariant /\ DrainedBlocked
  BY InitTree DEF ManagerInit, ChannelsInit, DrainedBlocked
<1>2. TreeInvariant /\ DrainedBlocked /\ [ManagerNext]_managerVars => [Returns]_managerVars
  <2> SUFFICES ASSUME TreeInvariant, DrainedBlocked, ManagerNext,
                      gen = "active", gen' = "idle", jobs' = jobs,
                      NEW c \in Channels
               PROVE  ~CanYield(c, asof)
    BY DEF managerVars, chvars
  <2>1. CASE DatabaseClosed
    <3>1. \A u \in Uuids : jobs[u] = NoJob
      BY <2>1 DEF DatabaseClosed, RemoveDb
    <3>2. \A o \in queue[c] : o \in ChannelJob /\ o.uuid \in Uuids /\ jobs[o.uuid] = o
      BY DEF TreeInvariant, TypeOK, CurrentObjects, Members, ChannelJob
    <3>3. queue[c] = {}
      BY <3>1, <3>2, NoJobAssumption
    <3> QED BY <3>3, PoppableInQueue DEF CanYield
  <2>2. CASE Exhausted(Root)
    BY <2>2, GeneratorReturns
  <2>3. CASE Consume /\ ~Exhausted(Root)
    BY <2>3 DEF Consume, GetJobsToRun, PassDown, YieldToRunner, Exhausted
  <2> QED BY <2>1, <2>2, <2>3 DEF ManagerNext, NotifyRow, Notify, RowDeleted, RemoveJob
<1> QED BY <1>1, <1>2, NextTree, NextDrained, PTL DEF ManagerSpec, NoIdleCapacity

-----------------------------------------------------------------------------
(* The runner, the handlers, the clients and the users                     *)

\* The types, and the structure of the runner's channel tree
RunnerInvariant == RunnerTypeOK /\ TreeInvariant

-----------------------------------------------------------------------------
(* What the operators on rows and requests return                          *)

\* store writes a row.
LEMMA StoreRow ==
    ASSUME row \in [Uuids -> Row \cup {NotCreated, Deleted}],
           NEW u \in Uuids, NEW v \in Row, Store(u, v)
    PROVE  /\ row' \in [Uuids -> Row \cup {NotCreated, Deleted}]
           /\ row'[u] \in Row
           /\ row'[u].state = v.state /\ row'[u].date_done = v.date_done
           /\ \A w \in Uuids : w # u => row'[w] = row[w]
<1>1. Exists(u) => row[u] \in Row
  BY DEF Exists
<1>2. Exists(u) => /\ [v EXCEPT !.active = v.active /\ row[u].active] \in Row
                   /\ [v EXCEPT !.active = v.active /\ row[u].active].state = v.state
                   /\ [v EXCEPT !.active = v.active /\ row[u].active].date_done = v.date_done
  BY <1>1 DEF Row
<1> QED BY <1>1, <1>2 DEF Store

\* A row is a record or one of the two values that stand for no row.
LEMMA ExistingRow ==
    ASSUME row \in [Uuids -> Row \cup {NotCreated, Deleted}], NEW u \in Uuids
    PROVE  Exists(u) <=> row[u] \in Row
BY DistinctAssumption DEF Exists

\* Marking transactions as outdated changes nothing else of the requests.
LEMMA OutdatedRequests ==
    ASSUME NEW q, RequestsOK(q), NEW u
    PROVE  /\ RequestsOK(Outdated(q, u))
           /\ \A r \in Requests :
                 /\ Outdated(q, u)[r] = NoRequest <=> q[r] = NoRequest
                 /\ q[r] # NoRequest =>
                       /\ Outdated(q, u)[r].job = q[r].job
                       /\ Outdated(q, u)[r].client = q[r].client
                       /\ Outdated(q, u)[r].server = q[r].server
                       /\ Outdated(q, u)[r].copy = q[r].copy
                       /\ q[r].job # u => Outdated(q, u)[r] = q[r]
<1> SUFFICES ASSUME NEW r \in Requests
             PROVE  /\ Outdated(q, u)[r] \in Request \cup {NoRequest}
                    /\ Outdated(q, u)[r] = NoRequest <=> q[r] = NoRequest
                    /\ q[r] # NoRequest =>
                          /\ Outdated(q, u)[r].job = q[r].job
                          /\ Outdated(q, u)[r].client = q[r].client
                          /\ Outdated(q, u)[r].server = q[r].server
                          /\ Outdated(q, u)[r].copy = q[r].copy
                          /\ q[r].job # u => Outdated(q, u)[r] = q[r]
  BY DEF RequestsOK, Outdated
<1>1. Outdated(q, u)[r] =
        IF q[r] # NoRequest /\ q[r].job = u /\ q[r].server \in {"loaded", "started"}
        THEN [q[r] EXCEPT !.stale = TRUE] ELSE q[r]
  BY DEF Outdated
<1>2. CASE q[r] = NoRequest
  BY <1>1, <1>2
<1>3. CASE q[r] # NoRequest
  <2>1. q[r] \in Request
    BY <1>3 DEF RequestsOK
  <2>2. /\ [q[r] EXCEPT !.stale = TRUE] \in Request
        /\ [q[r] EXCEPT !.stale = TRUE].job = q[r].job
        /\ [q[r] EXCEPT !.stale = TRUE].client = q[r].client
        /\ [q[r] EXCEPT !.stale = TRUE].server = q[r].server
        /\ [q[r] EXCEPT !.stale = TRUE].copy = q[r].copy
    BY <2>1 DEF Request
  <2> QED BY <1>1, <1>3, <2>1, <2>2, NoRequestAssumption
<1> QED BY <1>2, <1>3

\* Replacing one request by one that is well formed
LEMMA ReplacedRequest ==
    ASSUME NEW q, RequestsOK(q), NEW r \in Requests, NEW x \in Request \cup {NoRequest},
           x # NoRequest /\ x.server \in {"loaded", "started"} => x.copy \in Row
    PROVE  RequestsOK([q EXCEPT ![r] = x])
BY DEF RequestsOK

\* A handler that has answered
LEMMA RepliedRequest ==
    ASSUME NEW q \in Request
    PROVE  /\ Replied(q) \in Request \cup {NoRequest}
           /\ Replied(q) # NoRequest =>
                 /\ Replied(q).server = "replied"
                 /\ Replied(q).job = q.job
                 /\ Replied(q).client = q.client
           /\ q.client = "timedout" => Replied(q) # NoRequest
           /\ q.client = "waiting" => Replied(q) = NoRequest
<1> DEFINE x == [q EXCEPT !.client = IF @ = "waiting" THEN "gone" ELSE @,
                          !.server = "replied", !.copy = NotCreated, !.stale = FALSE]
<1>1. /\ x \in Request
      /\ x.server = "replied" /\ x.job = q.job
      /\ x.client = IF q.client = "waiting" THEN "gone" ELSE q.client
  BY DEF Request
<1>2. Replied(q) = IF x.client = "gone" /\ x.server \in {"replied", "lost"} THEN NoRequest ELSE x
  BY DEF Replied, Settled
<1> HIDE DEF x
<1>3. q.client \in {"waiting", "timedout", "gone"}
  BY DEF Request
<1> QED BY <1>1, <1>2, <1>3, NoRequestAssumption

\* The client is gone.
LEMMA ClientGone ==
    ASSUME NEW q \in Request
    PROVE  LET x == Settled([q EXCEPT !.client = "gone"])
           IN  /\ x \in Request \cup {NoRequest}
               /\ x = NoRequest => q.server \in {"replied", "lost"}
               /\ x # NoRequest => /\ x.server = q.server /\ x.job = q.job
                                   /\ x.copy = q.copy /\ x.stale = q.stale
<1> DEFINE x == [q EXCEPT !.client = "gone"]
<1>1. /\ x \in Request /\ x.client = "gone"
      /\ x.server = q.server /\ x.job = q.job /\ x.copy = q.copy /\ x.stale = q.stale
  BY DEF Request
<1> HIDE DEF x
<1>2. Settled(x) = IF x.server \in {"replied", "lost"} THEN NoRequest ELSE x
  BY <1>1 DEF Settled
<1>3. Settled([q EXCEPT !.client = "gone"]) = Settled(x)
  BY DEF x
<1> QED BY <1>1, <1>2, <1>3, NoRequestAssumption

-----------------------------------------------------------------------------
(* The types                                                               *)

\* The scheduling properties of a row
LEMMA JobOfRow ==
    ASSUME NEW u \in Uuids, NEW v \in Row
    PROVE  JobOf(u, v) \in ChannelJob /\ JobOf(u, v).uuid = u /\ v.state \in States
BY RunnerAssumption DEF JobOf, ChannelJob, Row

\* Every step keeps the channel tree of the runner well formed.
LEMMA NextRunnerTree == RunnerInvariant /\ [Next]_vars => TreeInvariant'
<1> SUFFICES ASSUME RunnerInvariant, [Next]_vars PROVE TreeInvariant'
  OBVIOUS
<1> USE DEF RunnerInvariant
<1>1. CASE UNCHANGED chvars
  BY <1>1, StutterKeeps
<1>2. ASSUME NEW u \in DOMAIN selected, LoadJob(u) PROVE TreeInvariant'
  <2>1. u \in Uuids /\ selected[u] \in Row
    BY DEF RunnerTypeOK
  <2> QED BY <1>2, <2>1, JobOfRow, NotifyKeeps DEF LoadJob
<1>3. ASSUME NEW u \in notifies, ProcessNotification(u) PROVE TreeInvariant'
  <2>1. u \in Uuids /\ row \in [Uuids -> Row \cup {NotCreated, Deleted}]
    BY DEF RunnerTypeOK
  <2>2. CASE Exists(u)
    BY <1>3, <2>1, <2>2, ExistingRow, JobOfRow, NotifyKeeps DEF ProcessNotification
  <2>3. CASE ~Exists(u)
    BY <1>3, <2>1, <2>3, RemoveJobKeeps DEF ProcessNotification
  <2> QED BY <2>2, <2>3
<1>4. CASE StartRunJobs
  BY <1>4, GetJobsToRunKeeps DEF StartRunJobs, RunnerTypeOK
<1>5. CASE Flow
  BY <1>5, PassDownKeeps, ExhaustedKeeps DEF Flow
<1>6. ASSUME NEW o, NextJob(o) PROVE TreeInvariant'
  BY <1>6, YieldKeeps DEF NextJob
<1>7. CASE EndRunJobs
  BY <1>7, ExhaustedKeeps, TreeAssumption DEF EndRunJobs
<1>8. CASE RunnerException \/ Crash
  BY <1>8, RemoveDbKeeps DEF RunnerException, Crash, Disconnect
<1>9. CASE RunnerStep
  BY <1>1, <1>2, <1>3, <1>4, <1>5, <1>6, <1>7, <1>9
     DEF RunnerStep, Listen, SelectJobs, Loaded, SetJobEnqueued, AsyncHttpGet,
         WaitNotification, Poll, SelectTimeout
<1>10. ASSUME NEW r \in Requests, HandlerStep(r) PROVE TreeInvariant'
  BY <1>1, <1>10
     DEF HandlerStep, LoadForRun, SetStarted, JobDone, RowChanged, OtherConflict,
         ConcurrencyError, RetryableError, NothingToDo, JobFailed, PostponeRefused,
         StartRefused, OutcomeLost, Finish
<1>11. ASSUME NEW r \in Requests, ClientStep(r) PROVE TreeInvariant'
  BY <1>1, <1>11 DEF ClientStep, ClientTimeout, ConnectionError, SetJobPending
<1>12. CASE Outside
  BY <1>1, <1>8, <1>12 DEF Outside, CreateJob, Requeue, ButtonDone, Autovacuum, WorkerKilled
<1>13. CASE Tick \/ UNCHANGED vars
  BY <1>1, <1>13 DEF Tick, vars
<1> QED BY <1>9, <1>10, <1>11, <1>12, <1>13 DEF Next

LEMMA InitTyped == Init => RunnerInvariant
<1> SUFFICES ASSUME Init PROVE RunnerInvariant
  OBVIOUS
<1>1. TreeInvariant /\ TypeOK
  BY InitTree DEF Init, TreeInvariant
<1>2. RequestsOK(req)
  BY NoRequestAssumption DEF Init, RequestsOK
<1> QED BY <1>1, <1>2, RunnerAssumption DEF Init, RunnerInvariant, RunnerTypeOK, NoRows

\* The types of what all the actors share
SharedTypes ==
    /\ row \in [Uuids -> Row \cup {NotCreated, Deleted}]
    /\ socket \subseteq Uuids
    /\ RequestsOK(req)
    /\ left \in [Perturbations -> Nat]
    /\ commits \in [Uuids -> Nat]

LEMMA SpendKeeps ==
    ASSUME left \in [Perturbations -> Nat], NEW kind \in Perturbations, Spend(kind)
    PROVE  left' \in [Perturbations -> Nat]
BY DEF Spend

\* A handler stores the outcome of its job and answers.
LEMMA FinishKeeps ==
    ASSUME SharedTypes, NEW r \in Requests, Active(r), NEW v \in Row, Finish(r, v)
    PROVE  /\ row' \in [Uuids -> Row \cup {NotCreated, Deleted}]
           /\ socket' \subseteq Uuids
           /\ RequestsOK(req')
<1> DEFINE u == req[r].job
<1>1. req[r] \in Request /\ u \in Uuids
  BY DEF SharedTypes, RequestsOK, Active, Request
<1>2. row' \in [Uuids -> Row \cup {NotCreated, Deleted}]
  BY <1>1, StoreRow DEF Finish, SharedTypes
<1>3. socket' \subseteq Uuids
  BY <1>1 DEF Finish, Trigger, SharedTypes
<1>4. RequestsOK(req')
  BY <1>1, OutdatedRequests, RepliedRequest, ReplacedRequest DEF Finish, SharedTypes
<1> QED BY <1>2, <1>3, <1>4

\* The Job object of a handler, before and after it has counted a try
LEMMA JobObject ==
    ASSUME SharedTypes, NEW r \in Requests, Active(r), req[r].server \in {"loaded", "started"}
    PROVE  /\ req[r] \in Request /\ req[r].job \in Uuids
           /\ req[r].copy \in Row /\ Tried(r) \in Row
           /\ SetDone(Tried(r)) \in Row /\ SetDone(Tried(r)).state = DONE
           /\ req[r].copy.state \in States
           /\ Tried(r).date_done = req[r].copy.date_done
<1>1. req[r] \in Request /\ req[r].copy \in Row
  BY DEF SharedTypes, RequestsOK, Active
<1>2. Tried(r) \in Row /\ Tried(r).date_done = req[r].copy.date_done
  BY <1>1 DEF Tried, Row
<1>3. SetDone(Tried(r)) \in Row /\ SetDone(Tried(r)).state = DONE
  BY <1>2 DEF SetDone, Row, States
<1> QED BY <1>1, <1>2, <1>3 DEF Row, Request

LEMMA PostponedRow ==
    ASSUME now \in Nat, NEW v \in Row
    PROVE  /\ Postponed(v) \in Row /\ Postponed(v).state = PENDING
           /\ Postponed(v).date_done = v.date_done
<1>1. now + 1 \in Nat /\ PENDING \in States
  BY DEF States
<1> QED BY <1>1 DEF Postponed, Row

\* The steps of the handlers keep the types.
LEMMA HandlerKeeps ==
    ASSUME SharedTypes, now \in Nat, NEW r \in Requests, HandlerStep(r)
    PROVE  SharedTypes'
<1> USE DEF SharedTypes
<1>1. CASE LoadForRun(r)
  <2> DEFINE u == req[r].job
  <2>1. req[r] \in Request /\ u \in Uuids
    BY <1>1 DEF RequestsOK, LoadForRun, Active, Request
  <2>2. CASE Exists(u) /\ u \notin Unreadable /\ row[u].state = ENQUEUED
    <3>1. row[u] \in Row
      BY <2>1, <2>2, ExistingRow
    <3>2. [req[r] EXCEPT !.server = "loaded", !.copy = row[u]] \in Request
          /\ [req[r] EXCEPT !.server = "loaded", !.copy = row[u]].copy \in Row
      BY <2>1, <3>1 DEF Request
    <3>3. req' = [req EXCEPT ![r] = [req[r] EXCEPT !.server = "loaded", !.copy = row[u]]]
      BY <1>1, <2>2 DEF LoadForRun
    <3>4. RequestsOK(req')
      BY <3>2, <3>3, ReplacedRequest
    <3> QED BY <1>1, <3>4 DEF LoadForRun
  <2>3. CASE ~(Exists(u) /\ u \notin Unreadable /\ row[u].state = ENQUEUED)
    <3>1. req' = [req EXCEPT ![r] = Replied(req[r])]
      BY <1>1, <2>3 DEF LoadForRun
    <3>2. Replied(req[r]) \in Request \cup {NoRequest}
          /\ (Replied(req[r]) # NoRequest => Replied(req[r]).server = "replied")
      BY <2>1, RepliedRequest
    <3>3. RequestsOK([req EXCEPT ![r] = Replied(req[r])])
      BY <3>2, ReplacedRequest
    <3> QED BY <1>1, <3>1, <3>3 DEF LoadForRun
  <2> QED BY <2>2, <2>3
<1>2. CASE SetStarted(r)
  <2> DEFINE u == req[r].job
             v == [req[r].copy EXCEPT !.state = STARTED]
             q == Outdated(req, u)
  <2>1. req[r] \in Request /\ u \in Uuids /\ req[r].copy \in Row
    BY <1>2 DEF RequestsOK, SetStarted, Active, Request
  <2>2. v \in Row
    BY <2>1 DEF Row, States
  <2>3. RequestsOK(q) /\ q[r] \in Request
    BY <1>2, <2>1, OutdatedRequests DEF SetStarted, Active, RequestsOK
  <2>4. [q[r] EXCEPT !.server = "started", !.copy = v, !.stale = FALSE] \in Request
        /\ [q[r] EXCEPT !.server = "started", !.copy = v, !.stale = FALSE].copy = v
    BY <2>2, <2>3 DEF Request
  <2>5. req' = [q EXCEPT ![r] = [q[r] EXCEPT !.server = "started", !.copy = v, !.stale = FALSE]]
    BY <1>2, <2>3 DEF SetStarted, RequestsOK
  <2>6. RequestsOK(req')
    BY <2>2, <2>3, <2>4, <2>5, ReplacedRequest
  <2>7. row' \in [Uuids -> Row \cup {NotCreated, Deleted}]
    BY <1>2, <2>1, <2>2, StoreRow DEF SetStarted
  <2> QED BY <1>2, <2>1, <2>6, <2>7 DEF SetStarted, Trigger
<1>3. ASSUME Active(r), NEW v \in Row, Finish(r, v),
             UNCHANGED left \/ Spend("error"),
             UNCHANGED commits \/ commits' = [commits EXCEPT ![req[r].job] = @ + 1]
      PROVE  SharedTypes'
  <2>1. left' \in [Perturbations -> Nat]
    BY <1>3, SpendKeeps DEF Perturbations
  <2>2. commits' \in [Uuids -> Nat]
    BY <1>3
  <2> QED BY <1>3, <2>1, <2>2, FinishKeeps
<1>4. CASE JobDone(r)
  BY <1>3, <1>4, JobObject DEF JobDone, Performing
<1>5. CASE RowChanged(r) \/ OtherConflict(r)
  <2>1. Postponed(Tried(r)) \in Row /\ Postponed(SetDone(Tried(r))) \in Row
    BY <1>5, JobObject, PostponedRow DEF RowChanged, OtherConflict, ConcurrencyError, Performing
  <2> QED BY <1>3, <1>5, <2>1 DEF RowChanged, OtherConflict, ConcurrencyError, Performing
<1>6. ASSUME NEW ignore_retry \in BOOLEAN, RetryableError(r, ignore_retry) PROVE SharedTypes'
  <2> DEFINE v == Tried(r)
             w == CASE ignore_retry -> Postponed(req[r].copy)
                    [] ~ignore_retry /\ MaxRetries # 0 /\ v.retry >= MaxRetries
                          -> [v EXCEPT !.state = FAILED]
                    [] OTHER -> Postponed(v)
  <2>1. Performing(r) /\ Active(r) /\ Finish(r, w) /\ Spend("error") /\ UNCHANGED commits
    BY <1>6 DEF RetryableError, Performing
  <2>2. v \in Row /\ req[r].copy \in Row
    BY <2>1, JobObject DEF Performing
  <2>3. [v EXCEPT !.state = FAILED] \in Row
    BY <2>2 DEF Row, States
  <2>4. Postponed(v) \in Row /\ Postponed(req[r].copy) \in Row
    BY <2>2, PostponedRow
  <2>5. w \in Row
    BY <2>3, <2>4
  <2> QED BY <1>3, <2>1, <2>5
<1>7. CASE NothingToDo(r)
  <2>1. [SetDone(Tried(r)) EXCEPT !.active = FALSE] \in Row
    BY <1>7, JobObject DEF NothingToDo, Performing, Row
  <2> QED BY <1>3, <1>7, <2>1 DEF NothingToDo, Performing
<1>8. CASE JobFailed(r)
  <2> DEFINE v == IF req[r].copy.active THEN Tried(r) ELSE req[r].copy
  <2>1. v \in Row
    BY <1>8, JobObject DEF JobFailed, Performing
  <2>2. [v EXCEPT !.state = FAILED] \in Row
    BY <2>1 DEF Row, States
  <2> QED BY <1>3, <1>8, <2>2 DEF JobFailed, Performing
<1>9. CASE StartRefused(r)
  <2>1. Postponed(req[r].copy) \in Row
    BY <1>9, JobObject, PostponedRow DEF StartRefused
  <2> QED BY <1>3, <1>9, <2>1 DEF StartRefused
<1>10. CASE OutcomeLost(r)
  <2>1. req[r] \in Request
    BY <1>10, JobObject DEF OutcomeLost, Performing
  <2>2. Replied(req[r]) \in Request \cup {NoRequest}
        /\ (Replied(req[r]) # NoRequest => Replied(req[r]).server = "replied")
    BY <2>1, RepliedRequest
  <2>3. RequestsOK([req EXCEPT ![r] = Replied(req[r])])
    BY <2>2, ReplacedRequest
  <2> QED BY <1>10, <2>3 DEF OutcomeLost
<1>11. CASE PostponeRefused(r)
  <2>1. [Postponed(Tried(r)) EXCEPT !.state = FAILED] \in Row
    BY <1>11, JobObject, PostponedRow DEF PostponeRefused, Performing, Row, States
  <2> QED BY <1>3, <1>11, <2>1 DEF PostponeRefused, Performing
<1> QED BY <1>1, <1>2, <1>4, <1>5, <1>6, <1>7, <1>8, <1>9, <1>10, <1>11 DEF HandlerStep

\* So do the clients, ...
LEMMA ClientKeeps ==
    ASSUME SharedTypes, NEW r \in Requests, ClientStep(r)
    PROVE  SharedTypes'
<1> USE DEF SharedTypes
<1>1. req[r] \in Request /\ req[r].job \in Uuids
  BY DEF ClientStep, ClientTimeout, ConnectionError, SetJobPending, Active, RequestsOK, Request
<1>2. CASE ClientTimeout(r) \/ ConnectionError(r)
  <2>1. left' \in [Perturbations -> Nat]
    BY <1>2, SpendKeeps DEF ClientTimeout, ConnectionError, Perturbations
  <2>2. req[r].server \in {"loaded", "started"} => req[r].copy \in Row
    BY <1>1, NoRequestAssumption DEF RequestsOK
  <2>3. CASE ClientTimeout(r)
    <3>1. [req[r] EXCEPT !.client = "timedout"] \in Request
          /\ [req[r] EXCEPT !.client = "timedout"].server = req[r].server
          /\ [req[r] EXCEPT !.client = "timedout"].copy = req[r].copy
      BY <1>1 DEF Request
    <3>2. RequestsOK([req EXCEPT ![r] = [req[r] EXCEPT !.client = "timedout"]])
      BY <2>2, <3>1, ReplacedRequest
    <3>3. req' = [req EXCEPT ![r] = [req[r] EXCEPT !.client = "timedout"]]
      BY <1>1, <2>3 DEF ClientTimeout
    <3> QED BY <2>1, <2>3, <3>2, <3>3 DEF ClientTimeout
  <2>4. CASE ConnectionError(r)
    <3> DEFINE x == [req[r] EXCEPT !.client = "timedout", !.server = "lost"]
    <3>1. x \in Request /\ x.server = "lost"
      BY <1>1 DEF Request
    <3>2. req' = [req EXCEPT ![r] = x]
      BY <1>1, <2>4 DEF ConnectionError, RequestsOK
    <3> HIDE DEF x
    <3>3. RequestsOK([req EXCEPT ![r] = x])
      BY <3>1, ReplacedRequest
    <3> QED BY <2>1, <2>4, <3>2, <3>3 DEF ConnectionError
  <2> QED BY <1>2, <2>3, <2>4
<1>3. CASE SetJobPending(r)
  <2> DEFINE u == req[r].job
             x == Settled([req[r] EXCEPT !.client = "gone"])
             q == [req EXCEPT ![r] = x]
  <2>1. /\ x \in Request \cup {NoRequest}
        /\ x # NoRequest => x.server = req[r].server /\ x.job = u /\ x.copy = req[r].copy
    BY <1>1, ClientGone
  <2>2. req[r].server \in {"loaded", "started"} => req[r].copy \in Row
    BY <1>1, NoRequestAssumption DEF RequestsOK
  <2> HIDE DEF x
  <2>3. RequestsOK(q)
    BY <2>1, <2>2, ReplacedRequest
  <2>4. RequestsOK(Outdated(q, u))
    BY <2>3, OutdatedRequests
  <2>5. req' = q \/ req' = Outdated(q, u)
    BY <1>3 DEF SetJobPending, x
  <2>6. RequestsOK(req')
    BY <2>3, <2>4, <2>5
  <2>7. CASE Exists(u) /\ row[u].state = ENQUEUED
    <3>1. row[u] \in Row
      BY <1>1, <2>7, ExistingRow
    <3>2. [row[u] EXCEPT !.state = PENDING] \in Row
      BY <3>1 DEF Row, States
    <3>3. row' = [row EXCEPT ![u] = [row[u] EXCEPT !.state = PENDING]]
      BY <1>1, <1>3, <2>7 DEF SetJobPending
    <3>4. row' \in [Uuids -> Row \cup {NotCreated, Deleted}]
      BY <3>2, <3>3
    <3> QED BY <1>1, <1>3, <2>6, <2>7, <3>4 DEF SetJobPending, Trigger
  <2>8. CASE ~(Exists(u) /\ row[u].state = ENQUEUED)
    BY <1>3, <2>6, <2>8 DEF SetJobPending
  <2> QED BY <2>7, <2>8
<1> QED BY <1>2, <1>3 DEF ClientStep

\* ... users, producers, the cron and the failures of the processes, ...
LEMMA OutsideKeeps ==
    ASSUME SharedTypes, now \in Nat, Outside
    PROVE  SharedTypes'
<1> USE DEF SharedTypes
<1>1. ASSUME NEW u \in Uuids, CreateJob(u) PROVE SharedTypes'
  <2>1. PICK e \in {NoEta} \cup (IF now < MaxTime THEN {now + 1} ELSE {}) :
            Store(u, [state |-> PENDING, retry |-> 0, eta |-> e,
                      date_done |-> FALSE, active |-> TRUE])
    BY <1>1 DEF CreateJob
  <2>4. e \in Nat
    BY DEF NoEta
  <2>2. [state |-> PENDING, retry |-> 0, eta |-> e, date_done |-> FALSE, active |-> TRUE] \in Row
    BY <2>4 DEF Row, States
  <2>3. row' \in [Uuids -> Row \cup {NotCreated, Deleted}]
    BY <2>1, <2>2, StoreRow
  <2> QED BY <1>1, <2>3 DEF CreateJob, Trigger
<1>2. ASSUME NEW u \in Uuids, Requeue(u) PROVE SharedTypes'
  <2>1. row[u] \in Row
    BY <1>2, ExistingRow DEF Requeue
  <2>2. [row[u] EXCEPT !.state = PENDING, !.retry = 0] \in Row
    BY <2>1 DEF Row, States
  <2>3. row' \in [Uuids -> Row \cup {NotCreated, Deleted}]
    BY <1>2, <2>2, StoreRow DEF Requeue
  <2>4. left' \in [Perturbations -> Nat]
    BY <1>2, SpendKeeps DEF Requeue, Perturbations
  <2>5. RequestsOK(req')
    BY <1>2, OutdatedRequests DEF Requeue
  <2> QED BY <1>2, <2>3, <2>4, <2>5 DEF Requeue, Trigger
<1>3. ASSUME NEW u \in Uuids, ButtonDone(u) PROVE SharedTypes'
  <2>1. row[u] \in Row
    BY <1>3, ExistingRow DEF ButtonDone
  <2>2. [row[u] EXCEPT !.state = DONE, !.date_done = TRUE] \in Row
    BY <2>1 DEF Row, States
  <2>3. row' \in [Uuids -> Row \cup {NotCreated, Deleted}]
    BY <1>3, <2>2, StoreRow DEF ButtonDone
  <2>4. left' \in [Perturbations -> Nat]
    BY <1>3, SpendKeeps DEF ButtonDone, Perturbations
  <2>5. RequestsOK(req')
    BY <1>3, OutdatedRequests DEF ButtonDone
  <2> QED BY <1>3, <2>3, <2>4, <2>5 DEF ButtonDone, Trigger
<1>4. ASSUME NEW u \in Uuids, Autovacuum(u) PROVE SharedTypes'
  <2>1. left' \in [Perturbations -> Nat]
    BY <1>4, SpendKeeps DEF Autovacuum, Perturbations
  <2>2. RequestsOK(req')
    BY <1>4, OutdatedRequests DEF Autovacuum
  <2> QED BY <1>4, <2>1, <2>2 DEF Autovacuum, Trigger
<1>5. CASE RunnerException \/ Crash
  <2>1. left' \in [Perturbations -> Nat]
    BY <1>5, SpendKeeps DEF RunnerException, Crash, Perturbations
  <2>2. RequestsOK(req')
    BY <1>5 DEF RunnerException, Crash, RequestsOK
  <2> QED BY <1>5, <2>1, <2>2 DEF RunnerException, Crash, Disconnect
<1>6. ASSUME NEW r \in Requests, WorkerKilled(r) PROVE SharedTypes'
  <2> DEFINE x == [req[r] EXCEPT !.client = IF @ = "waiting" THEN "timedout" ELSE @,
                                 !.server = "lost", !.copy = NotCreated, !.stale = FALSE]
  <2>1. req[r] \in Request
    BY <1>6 DEF RequestsOK, WorkerKilled, Active
  <2>2. x \in Request /\ x.server = "lost"
    BY <2>1 DEF Request
  <2>3. req' = [req EXCEPT ![r] = Settled(x)]
    BY <1>6 DEF WorkerKilled
  <2> HIDE DEF x
  <2>4. Settled(x) \in Request \cup {NoRequest}
        /\ (Settled(x) # NoRequest => Settled(x).server = "lost")
    BY <2>2 DEF Settled
  <2>5. RequestsOK(req')
    BY <2>3, <2>4, ReplacedRequest
  <2>6. left' \in [Perturbations -> Nat]
    BY <1>6, SpendKeeps DEF WorkerKilled, Perturbations
  <2> QED BY <1>6, <2>5, <2>6 DEF WorkerKilled
<1> QED BY <1>1, <1>2, <1>3, <1>4, <1>5, <1>6 DEF Outside

\* ... and the runner.
LEMMA RunnerKeeps ==
    ASSUME RunnerInvariant, RunnerStep
    PROVE  SharedTypes'
<1>1. SharedTypes
  BY DEF RunnerInvariant, RunnerTypeOK, SharedTypes
<1> USE DEF SharedTypes
<1>2. CASE SetJobEnqueued
  <2>1. cur \in Uuids
    BY <1>2 DEF SetJobEnqueued, RunnerInvariant, RunnerTypeOK
  <2>2. CASE Exists(cur)
    <3>1. row[cur] \in Row
      BY <1>1, <2>1, <2>2, ExistingRow
    <3>2. [row[cur] EXCEPT !.state = ENQUEUED] \in Row
      BY <3>1 DEF Row, States
    <3>3. row' = [row EXCEPT ![cur] = [row[cur] EXCEPT !.state = ENQUEUED]]
      BY <1>1, <1>2, <2>1, <2>2 DEF SetJobEnqueued
    <3>4. row' \in [Uuids -> Row \cup {NotCreated, Deleted}]
      BY <1>1, <3>2, <3>3
    <3>5. RequestsOK(req')
      BY <1>1, <1>2, <2>2, OutdatedRequests DEF SetJobEnqueued
    <3> QED BY <1>1, <1>2, <2>2, <3>4, <3>5 DEF SetJobEnqueued, Collect
  <2>3. CASE ~Exists(cur)
    BY <1>1, <1>2, <2>3 DEF SetJobEnqueued, Collect
  <2> QED BY <2>2, <2>3
<1>3. ASSUME NEW r \in Requests, AsyncHttpGet(r) PROVE SharedTypes'
  <2> DEFINE x == [job |-> cur, client |-> "waiting", server |-> "sent",
                   copy |-> NotCreated, stale |-> FALSE]
  <2>1. cur \in Uuids
    BY <1>3 DEF AsyncHttpGet, RunnerInvariant, RunnerTypeOK
  <2>2. x \in Request /\ x.server = "sent"
    BY <2>1 DEF Request
  <2>3. req' = [req EXCEPT ![r] = x]
    BY <1>3 DEF AsyncHttpGet
  <2> HIDE DEF x
  <2>4. RequestsOK([req EXCEPT ![r] = x])
    BY <1>1, <2>2, ReplacedRequest
  <2> QED BY <1>1, <1>3, <2>3, <2>4 DEF AsyncHttpGet
<1> QED BY <1>1, <1>2, <1>3
        DEF RunnerStep, Listen, SelectJobs, LoadJob, Loaded, ProcessNotification,
            StartRunJobs, Flow, NextJob, EndRunJobs, WaitNotification, Poll,
            SelectTimeout, Collect

\* Every step keeps the types.
LEMMA NextTyped == RunnerInvariant /\ [Next]_vars => RunnerInvariant'
<1> SUFFICES ASSUME RunnerInvariant, [Next]_vars PROVE RunnerInvariant'
  OBVIOUS
<1>1. SharedTypes /\ now \in Nat
  BY DEF RunnerInvariant, RunnerTypeOK, SharedTypes
<1>2. TreeInvariant' /\ TypeOK'
  BY NextRunnerTree DEF TreeInvariant
<1>3. SharedTypes'
  <2>1. CASE Tick \/ UNCHANGED vars
    BY <1>1, <2>1 DEF Tick, vars, SharedTypes, RequestsOK
  <2> QED BY <1>1, <2>1, HandlerKeeps, ClientKeeps, OutsideKeeps, RunnerKeeps DEF Next
<1>4. now' \in Nat
  <2>1. now' = now \/ now' = now + 1
    BY DEF Next, RunnerStep, Listen, SelectJobs, LoadJob, Loaded, ProcessNotification,
           StartRunJobs, Flow, NextJob, SetJobEnqueued, AsyncHttpGet, EndRunJobs,
           WaitNotification, Poll, SelectTimeout, HandlerStep, LoadForRun, SetStarted,
           Finish, JobDone, RowChanged, OtherConflict, ConcurrencyError, RetryableError,
           NothingToDo, JobFailed, PostponeRefused, StartRefused, OutcomeLost, ClientStep,
           ClientTimeout, ConnectionError, SetJobPending, WorkerKilled, Outside, CreateJob,
           Requeue, ButtonDone, Autovacuum,
           RunnerException, Crash, Tick, vars
  <2> QED BY <1>1, <2>1
<1> DEFINE Own == /\ notifies \subseteq Uuids
                  /\ pc \in {"starting", "listening", "loading", "process", "run",
                             "sending", "requesting", "wait", "select"}
                  /\ DOMAIN selected \subseteq Uuids
                  /\ \A u \in DOMAIN selected : selected[u] \in Row
                  /\ cur \in Uuids \cup {NoJob}
                  /\ pc \in {"sending", "requesting"} => cur \in Uuids
<1>5. Own
  BY DEF RunnerInvariant, RunnerTypeOK
<1>6. Own'
  <2>1. CASE UNCHANGED <<notifies, pc, selected, cur>>
    BY <1>5, <2>1
  <2>2. ASSUME NEW r \in Requests, HandlerStep(r) \/ ClientStep(r) PROVE Own'
    BY <2>1, <2>2
       DEF HandlerStep, LoadForRun, SetStarted, Finish, JobDone, RowChanged, OtherConflict,
           ConcurrencyError, RetryableError, NothingToDo, JobFailed, PostponeRefused,
           StartRefused, OutcomeLost, ClientStep, ClientTimeout, ConnectionError,
           SetJobPending, runnervars
  <2>3. CASE RunnerException \/ Crash
    BY <2>3 DEF RunnerException, Crash, Disconnect, NoRows
  <2>4. CASE Outside
    BY <2>1, <2>3, <2>4
       DEF Outside, CreateJob, Requeue, ButtonDone, Autovacuum, WorkerKilled, runnervars
  <2>5. CASE SelectJobs
    <3>1. \A u \in DOMAIN selected' : u \in Uuids /\ selected'[u] \in Row
      BY <1>1, <2>5, ExistingRow DEF SelectJobs, SharedTypes
    <3> QED BY <1>1, <1>5, <2>5, <3>1 DEF SelectJobs, Collect, SharedTypes
  <2>6. ASSUME NEW o \in queue[Root], NextJob(o) PROVE Own'
    <3>1. o.uuid \in Uuids
      BY <2>6, YieldKeeps DEF NextJob, RunnerInvariant, ChannelJob
    <3> QED BY <1>5, <2>6, <3>1 DEF NextJob
  <2>7. CASE SetJobEnqueued
    BY <1>1, <1>5, <2>7 DEF SetJobEnqueued, Collect, SharedTypes
  <2>8. ASSUME NEW u \in notifies, ProcessNotification(u) PROVE Own'
    BY <1>1, <1>5, <2>8 DEF ProcessNotification, Collect, SharedTypes, runnervars
  <2>9. ASSUME NEW u \in DOMAIN selected, LoadJob(u) PROVE Own'
    BY <1>1, <1>5, <2>9 DEF LoadJob
  <2>10. CASE RunnerStep
    BY <1>1, <1>5, <2>5, <2>6, <2>7, <2>8, <2>9, <2>10
       DEF RunnerStep, Listen, Loaded, StartRunJobs, Flow, AsyncHttpGet, EndRunJobs,
           WaitNotification, Poll, SelectTimeout, Collect, SharedTypes, runnervars
  <2>11. CASE Tick \/ UNCHANGED vars
    BY <2>1, <2>11 DEF Tick, vars, runnervars
  <2> QED BY <2>2, <2>4, <2>10, <2>11 DEF Next
<1> QED BY <1>2, <1>3, <1>4, <1>6 DEF RunnerInvariant, RunnerTypeOK, SharedTypes

\* The state of the runner, of its channel tree and of the requests has the
\* shape the code assumes, whatever happens: in particular the handler of a
\* request has a Job object as long as it runs, and the runner never asks Odoo
\* to run a job that is not one.
THEOREM RunnerTypes == Spec => []RunnerTypeOK
<1>1. RunnerInvariant => RunnerTypeOK
  BY DEF RunnerInvariant
<1> QED BY <1>1, InitTyped, NextTyped, PTL DEF Spec

\* The channel tree is well formed whatever the runner, the handlers, the
\* users and the failures do.
THEOREM RunnerTree == Spec => []TreeInvariant
<1>1. RunnerInvariant => TreeInvariant
  BY DEF RunnerInvariant
<1> QED BY <1>1, InitTyped, NextTyped, PTL DEF Spec

-----------------------------------------------------------------------------
(* No stale jobs                                                           *)

(***************************************************************************)
(* NoStaleJob is inductive once the budget of failures is known to be what *)
(* is left of the allowance: the row of a job gets enqueued and started    *)
(* only by somebody who attends to it, and whoever stops attending to it   *)
(* has just seen it in another state or written another one.               *)
(***************************************************************************)
AttendedInvariant ==
    /\ RunnerInvariant
    /\ \A kind \in Perturbations : left[kind] <= Allowance[kind]
    /\ NoStaleJob

\* What happens to the request r and the row of its job leaves the other jobs
\* attended.
LEMMA OthersAttended ==
    ASSUME NEW r \in Requests, Active(r), NEW u, req[r].job = u,
           \A w \in Uuids : w # u => row'[w] = row[w],
           \A s \in Requests : s # r /\ req[s] # NoRequest /\ req[s].job # u =>
               req'[s] = req[s],
           UNCHANGED <<pc, cur>>,
           NEW w \in Uuids, w # u, Exists(w) => Attended(w)
    PROVE  (Exists(w) => Attended(w))'
<1> SUFFICES ASSUME Exists(w)' PROVE Attended(w)'
  OBVIOUS
<1>1. row'[w] = row[w] /\ Exists(w) /\ Attended(w)
  BY DEF Exists
<1>2. \A s \in Requests : Performs(s, w) => Performs(s, w)'
  BY DEF Performs, Active
<1>3. \A s \in Requests : Watches(s, w) => Watches(s, w)'
  BY DEF Watches, Active
<1> QED BY <1>1, <1>2, <1>3 DEF Attended

\* A step that leaves the requests to their handlers and clients attends to
\* the jobs whose rows it leaves alone.
LEMMA AttendedKept ==
    ASSUME NEW w \in Uuids, row'[w] = row[w], Exists(w) => Attended(w),
           \A s \in Requests : req[s] # NoRequest /\ req[s].job = w => req'[s] = req[s],
           cur = w /\ pc = "requesting" =>
               \/ cur' = w /\ pc' = "requesting"
               \/ \E s \in Requests : Watches(s, w)'
    PROVE  (Exists(w) => Attended(w))'
<1> SUFFICES ASSUME Exists(w)' PROVE Attended(w)'
  OBVIOUS
<1>1. row'[w] = row[w] /\ Exists(w) /\ Attended(w)
  BY DEF Exists
<1>2. \A s \in Requests : Performs(s, w) => Performs(s, w)'
  BY DEF Performs, Active
<1>3. \A s \in Requests : Watches(s, w) => Watches(s, w)'
  BY DEF Watches, Active
<1> QED BY <1>1, <1>2, <1>3 DEF Attended

\* A job that is neither enqueued nor started needs nobody.
LEMMA NeedsNobody ==
    ASSUME NEW w, row'[w].state \notin {ENQUEUED, STARTED} PROVE Attended(w)'
BY DEF Attended

\* The end of an execution
LEMMA FinishAttended ==
    ASSUME SharedTypes, NEW r \in Requests, Active(r), NEW v \in Row, Finish(r, v),
           v.state \in {PENDING, DONE, FAILED},
           UNCHANGED <<pc, cur>>,
           NEW w \in Uuids, Exists(w) => Attended(w)
    PROVE  (Exists(w) => Attended(w))'
<1> DEFINE u == req[r].job
           q == Outdated(req, u)
<1>1. req[r] \in Request /\ u \in Uuids
  BY DEF SharedTypes, RequestsOK, Active, Request
<1>2. /\ row'[u].state = v.state
      /\ \A x \in Uuids : x # u => row'[x] = row[x]
  BY <1>1, StoreRow DEF Finish, SharedTypes
<1>3. CASE w = u
  BY <1>2, <1>3, NeedsNobody DEF PENDING, DONE, FAILED, ENQUEUED, STARTED
<1>4. CASE w # u
  <2>1. \A s \in Requests : s # r => req'[s] = q[s]
    BY DEF Finish, Outdated
  <2>2. \A s \in Requests : s # r /\ req[s] # NoRequest /\ req[s].job # u => req'[s] = req[s]
    BY <2>1, OutdatedRequests DEF SharedTypes
  <2> QED BY <1>1, <1>2, <1>4, <2>2, OthersAttended
<1> QED BY <1>3, <1>4

LEMMA HandlerAttended ==
    ASSUME SharedTypes, now \in Nat, NEW r \in Requests, HandlerStep(r),
           NEW w \in Uuids \ Unreadable, Exists(w) => Attended(w)
    PROVE  (Exists(w) => Attended(w))'
<1> DEFINE u == req[r].job
<1>1. CASE LoadForRun(r)
  <2>1. req[r] \in Request /\ u \in Uuids /\ req[r].server = "sent"
    BY <1>1 DEF SharedTypes, RequestsOK, LoadForRun, Active, Request
  <2>2. \A s \in Requests : s # r => req'[s] = req[s]
    BY <1>1 DEF LoadForRun, SharedTypes, RequestsOK
  <2>3. CASE w # u
    BY <1>1, <2>1, <2>2, <2>3, OthersAttended DEF LoadForRun, runnervars
  <2>4. CASE w = u
    <3>1. ASSUME Exists(u), u \notin Unreadable, row[u].state = ENQUEUED PROVE Watches(r, w)'
      <4>1. req' = [req EXCEPT ![r] = [req[r] EXCEPT !.server = "loaded", !.copy = row[u]]]
        BY <1>1, <3>1 DEF LoadForRun
      <4>2. [req[r] EXCEPT !.server = "loaded", !.copy = row[u]] \in Request
            /\ [req[r] EXCEPT !.server = "loaded", !.copy = row[u]].job = u
            /\ [req[r] EXCEPT !.server = "loaded", !.copy = row[u]].server = "loaded"
        BY <2>1, <3>1, ExistingRow DEF Request, SharedTypes
      <4> QED BY <2>4, <4>1, <4>2, NoRequestAssumption DEF Watches, Active, SharedTypes, RequestsOK
    <3>2. \A s \in Requests : Performs(s, w) => Performs(s, w)'
      BY <2>1, <2>2 DEF Performs, Active
    <3> QED BY <1>1, <2>4, <3>1, <3>2 DEF LoadForRun, Attended, Exists
  <2> QED BY <2>3, <2>4
<1>2. CASE SetStarted(r)
  <2> DEFINE v == [req[r].copy EXCEPT !.state = STARTED]
             q == Outdated(req, u)
  <2>1. req[r] \in Request /\ u \in Uuids /\ req[r].copy \in Row /\ req[r].server = "loaded"
    BY <1>2 DEF SharedTypes, RequestsOK, SetStarted, Active, Request
  <2>2. v \in Row /\ v.state = STARTED
    BY <2>1 DEF Row, States
  <2>3. RequestsOK(q) /\ q[r] \in Request /\ q[r].job = u
    BY <1>2, <2>1, OutdatedRequests DEF SetStarted, Active, RequestsOK, SharedTypes
  <2>4. req' = [q EXCEPT ![r] = [q[r] EXCEPT !.server = "started", !.copy = v, !.stale = FALSE]]
    BY <1>2, <2>3 DEF SetStarted, RequestsOK
  <2>5. /\ row'[u].state = STARTED
        /\ \A x \in Uuids : x # u => row'[x] = row[x]
    BY <1>2, <2>1, <2>2, StoreRow DEF SetStarted, SharedTypes
  <2>6. CASE w = u
    <3>1. [q[r] EXCEPT !.server = "started", !.copy = v, !.stale = FALSE] \in Request
          /\ [q[r] EXCEPT !.server = "started", !.copy = v, !.stale = FALSE].job = u
          /\ [q[r] EXCEPT !.server = "started", !.copy = v, !.stale = FALSE].server = "started"
          /\ ~[q[r] EXCEPT !.server = "started", !.copy = v, !.stale = FALSE].stale
      BY <2>2, <2>3 DEF Request
    <3>2. Performs(r, w)'
      BY <2>3, <2>4, <2>6, <3>1, NoRequestAssumption DEF Performs, Active, RequestsOK
    <3>3. row'[w].state = STARTED
      BY <2>5, <2>6
    <3> QED BY <3>2, <3>3 DEF Attended, STARTED, ENQUEUED
  <2>8. CASE w # u
    <3>1. \A s \in Requests : s # r => req'[s] = q[s]
      BY <2>4, <2>3 DEF RequestsOK
    <3>2. \A s \in Requests : s # r /\ req[s] # NoRequest /\ req[s].job # u => req'[s] = req[s]
      BY <3>1, OutdatedRequests DEF SharedTypes
    <3> QED BY <1>2, <2>1, <2>5, <2>8, <3>2, OthersAttended DEF SetStarted, runnervars
  <2> QED BY <2>6, <2>8
<1>3. ASSUME Active(r), NEW v \in Row, Finish(r, v), v.state \in {PENDING, DONE, FAILED}
      PROVE  (Exists(w) => Attended(w))'
  <2>1. UNCHANGED <<pc, cur>>
    BY <1>3 DEF Finish, runnervars
  <2> QED BY <1>3, <2>1, FinishAttended
<1>4. CASE JobDone(r)
  BY <1>3, <1>4, JobObject DEF JobDone, Performing
<1>5. CASE RowChanged(r) \/ OtherConflict(r)
  <2>1. /\ Postponed(Tried(r)) \in Row /\ Postponed(Tried(r)).state = PENDING
        /\ Postponed(SetDone(Tried(r))) \in Row /\ Postponed(SetDone(Tried(r))).state = PENDING
    BY <1>5, JobObject, PostponedRow DEF RowChanged, OtherConflict, ConcurrencyError, Performing
  <2> QED BY <1>3, <1>5, <2>1 DEF RowChanged, OtherConflict, ConcurrencyError, Performing
<1>6. ASSUME NEW ignore_retry \in BOOLEAN, RetryableError(r, ignore_retry)
      PROVE  (Exists(w) => Attended(w))'
  <2> DEFINE v == Tried(r)
             x == CASE ignore_retry -> Postponed(req[r].copy)
                    [] ~ignore_retry /\ MaxRetries # 0 /\ v.retry >= MaxRetries
                          -> [v EXCEPT !.state = FAILED]
                    [] OTHER -> Postponed(v)
  <2>1. Performing(r) /\ Active(r) /\ Finish(r, x)
    BY <1>6 DEF RetryableError, Performing
  <2>2. v \in Row /\ req[r].copy \in Row
    BY <2>1, JobObject DEF Performing
  <2>3. [v EXCEPT !.state = FAILED] \in Row /\ [v EXCEPT !.state = FAILED].state = FAILED
    BY <2>2 DEF Row, States
  <2>4. /\ Postponed(v) \in Row /\ Postponed(v).state = PENDING
        /\ Postponed(req[r].copy) \in Row /\ Postponed(req[r].copy).state = PENDING
    BY <2>2, PostponedRow
  <2>5. x \in Row /\ x.state \in {PENDING, DONE, FAILED}
    BY <2>3, <2>4
  <2> QED BY <1>3, <2>1, <2>5
<1>7. CASE NothingToDo(r)
  <2>1. [SetDone(Tried(r)) EXCEPT !.active = FALSE] \in Row
        /\ [SetDone(Tried(r)) EXCEPT !.active = FALSE].state = DONE
    BY <1>7, JobObject DEF NothingToDo, Performing, Row
  <2> QED BY <1>3, <1>7, <2>1 DEF NothingToDo, Performing
<1>8. CASE JobFailed(r)
  <2> DEFINE v == IF req[r].copy.active THEN Tried(r) ELSE req[r].copy
  <2>1. v \in Row
    BY <1>8, JobObject DEF JobFailed, Performing
  <2>2. [v EXCEPT !.state = FAILED] \in Row /\ [v EXCEPT !.state = FAILED].state = FAILED
    BY <2>1 DEF Row, States
  <2> QED BY <1>3, <1>8, <2>2 DEF JobFailed, Performing
<1>9. CASE StartRefused(r)
  <2>1. Postponed(req[r].copy) \in Row /\ Postponed(req[r].copy).state = PENDING
    BY <1>9, JobObject, PostponedRow DEF StartRefused
  <2> QED BY <1>3, <1>9, <2>1 DEF StartRefused
<1>10. CASE OutcomeLost(r)
  <2>1. req[r] \in Request /\ req[r].server = "started" /\ req[r].stale
    BY <1>10, JobObject DEF OutcomeLost, Performing
  <2>2. req'[r] = Replied(req[r]) /\ \A s \in Requests : s # r => req'[s] = req[s]
    BY <1>10 DEF OutcomeLost, SharedTypes, RequestsOK
  <2>3. CASE w # u
    BY <1>10, <2>2, <2>3, OthersAttended DEF OutcomeLost, Performing, runnervars
  <2>4. CASE w = u
    <3>1. \A s \in Requests : Performs(s, w) => Performs(s, w)'
      BY <2>1, <2>2 DEF Performs, Active
    <3>2. Watches(r, w) => Watches(r, w)'
      BY <2>1, <2>2, <2>4, RepliedRequest DEF Watches, Active
    <3>3. \A s \in Requests : Watches(s, w) => Watches(s, w)'
      BY <2>2, <3>2 DEF Watches, Active
    <3> QED BY <1>10, <3>1, <3>3 DEF OutcomeLost, Attended, Exists, runnervars
  <2> QED BY <2>3, <2>4
<1>11. CASE PostponeRefused(r)
  <2>1. Postponed(Tried(r)) \in Row
    BY <1>11, JobObject, PostponedRow DEF PostponeRefused, Performing
  <2>2. [Postponed(Tried(r)) EXCEPT !.state = FAILED] \in Row
        /\ [Postponed(Tried(r)) EXCEPT !.state = FAILED].state = FAILED
    BY <2>1 DEF Row, States
  <2> QED BY <1>3, <1>11, <2>2 DEF PostponeRefused, Performing
<1> QED BY <1>1, <1>2, <1>4, <1>5, <1>6, <1>7, <1>8, <1>9, <1>10, <1>11 DEF HandlerStep

LEMMA ClientAttended ==
    ASSUME SharedTypes, NEW r \in Requests, ClientStep(r),
           NEW w \in Uuids, Exists(w) => Attended(w)
    PROVE  (Exists(w) => Attended(w))'
<1> DEFINE u == req[r].job
<1>1. req[r] \in Request /\ u \in Uuids /\ Active(r) /\ UNCHANGED <<pc, cur>>
  BY DEF ClientStep, ClientTimeout, ConnectionError, SetJobPending, Active, SharedTypes,
         RequestsOK, Request, runnervars
<1>2. CASE ClientTimeout(r) \/ ConnectionError(r)
  <2>1. /\ req'[r].client = "timedout" /\ req'[r].job = u
        /\ \/ req'[r].server = req[r].server /\ req'[r].stale = req[r].stale
           \/ req[r].server = "sent"
        /\ req'[r] # NoRequest
    <3> DEFINE x == [req[r] EXCEPT !.client = "timedout"]
               y == [req[r] EXCEPT !.client = "timedout", !.server = "lost"]
    <3>1. /\ x \in Request /\ x.client = "timedout" /\ x.job = u
          /\ x.server = req[r].server /\ x.stale = req[r].stale
      BY <1>1 DEF Request
    <3>2. y \in Request /\ y.client = "timedout" /\ y.job = u
      BY <1>1 DEF Request
    <3>3. \/ req'[r] = x
          \/ req'[r] = y /\ req[r].server = "sent"
      BY <1>2 DEF ClientTimeout, ConnectionError, SharedTypes, RequestsOK
    <3> QED BY <3>1, <3>2, <3>3, NoRequestAssumption
  <2>2. \A s \in Requests : s # r => req'[s] = req[s]
    BY <1>2 DEF ClientTimeout, ConnectionError, SharedTypes, RequestsOK
  <2>3. CASE w # u
    BY <1>1, <1>2, <2>2, <2>3, OthersAttended DEF ClientTimeout, ConnectionError
  <2>4. CASE w = u
    <3>1. Watches(r, w)'
      BY <2>1, <2>4 DEF Watches, Active
    <3>2. \A s \in Requests : Performs(s, w) => Performs(s, w)'
      BY <2>1, <2>2 DEF Performs, Active
    <3> QED BY <1>2, <2>4, <3>1, <3>2 DEF ClientTimeout, ConnectionError, Attended, Exists
  <2> QED BY <2>3, <2>4
<1>3. CASE SetJobPending(r)
  <2> DEFINE x == Settled([req[r] EXCEPT !.client = "gone"])
             q == [req EXCEPT ![r] = x]
  <2>1. /\ x \in Request \cup {NoRequest}
        /\ x = NoRequest => req[r].server \in {"replied", "lost"}
        /\ x # NoRequest => /\ x.server = req[r].server /\ x.job = u
                            /\ x.copy = req[r].copy /\ x.stale = req[r].stale
    BY <1>1, ClientGone
  <2>2. req[r].server \in {"loaded", "started"} => req[r].copy \in Row
    BY <1>1, NoRequestAssumption DEF SharedTypes, RequestsOK
  <2>3. req' = q \/ req' = Outdated(q, u)
    BY <1>3 DEF SetJobPending
  <2> HIDE DEF x
  <2>4. RequestsOK(q)
    BY <2>1, <2>2, ReplacedRequest DEF SharedTypes
  <2>5. \A s \in Requests : q[s] # NoRequest /\ q[s].job # u => req'[s] = q[s]
    <3> HIDE DEF q
    <3> QED BY <2>3, <2>4, OutdatedRequests
  <2>6. \A s \in Requests : s # r => q[s] = req[s]
    BY DEF SharedTypes, RequestsOK
  <2>7. q[r] = x
    BY DEF SharedTypes, RequestsOK
  <2>8. \A y \in Uuids : y # u => row'[y] = row[y]
    BY <1>3 DEF SetJobPending, SharedTypes
  <2>9. CASE w # u
    BY <1>1, <2>5, <2>6, <2>8, <2>9, OthersAttended
  <2>10. CASE w = u /\ Exists(u) /\ row[u].state = ENQUEUED
    <3>1. row[u] \in Row
      BY <1>1, <2>10, ExistingRow DEF SharedTypes
    <3>2. row'[u] = [row[u] EXCEPT !.state = PENDING]
      BY <1>1, <1>3, <2>10 DEF SetJobPending, SharedTypes
    <3>3. row'[u].state = PENDING
      BY <3>1, <3>2 DEF Row
    <3> QED BY <2>10, <3>3, NeedsNobody DEF PENDING, ENQUEUED, STARTED
  <2>11. CASE w = u /\ ~(Exists(u) /\ row[u].state = ENQUEUED)
    <3>1. row' = row /\ req' = q
      BY <1>3, <2>11 DEF SetJobPending, x
    <3>2. \A s \in Requests : Performs(s, w) => Performs(s, w)'
      BY <2>1, <2>6, <2>7, <3>1 DEF Performs, Active
    <3> QED BY <2>11, <3>1, <3>2 DEF Attended, Exists
  <2> QED BY <2>9, <2>10, <2>11
<1> QED BY <1>2, <1>3 DEF ClientStep

\* Users, producers and the cron leave the requests alone and write no row
\* that is enqueued or started.
LEMMA OutsideAttended ==
    ASSUME SharedTypes, Outside, ~RunnerException, ~Crash,
           \A r \in Requests : ~WorkerKilled(r),
           NEW w \in Uuids, Exists(w) => Attended(w)
    PROVE  (Exists(w) => Attended(w))'
<1> DEFINE Others(u) == /\ \A x \in Uuids : x # u => row'[x] = row[x]
                        /\ req' = req \/ req' = Outdated(req, u)
                        /\ UNCHANGED <<pc, cur>>
<1>1. ASSUME NEW u \in Uuids, Others(u), w # u PROVE (Exists(w) => Attended(w))'
  <2>1. \A s \in Requests : req[s] # NoRequest /\ req[s].job = w => req'[s] = req[s]
    BY <1>1, OutdatedRequests DEF SharedTypes
  <2> QED BY <1>1, <2>1, AttendedKept
<1>2. ASSUME NEW u \in Uuids, CreateJob(u) PROVE (Exists(w) => Attended(w))'
  <2>1. PICK e \in {NoEta} \cup (IF now < MaxTime THEN {now + 1} ELSE {}) :
            Store(u, [state |-> PENDING, retry |-> 0, eta |-> e,
                      date_done |-> FALSE, active |-> TRUE])
    BY <1>2 DEF CreateJob
  <2>2. row'[u].state = PENDING
    BY <1>2, <2>1 DEF CreateJob, Store, Exists, SharedTypes
  <2>3. Others(u)
    BY <1>2, <2>1 DEF CreateJob, Store, runnervars, SharedTypes
  <2> QED BY <1>1, <2>2, <2>3, NeedsNobody DEF PENDING, ENQUEUED, STARTED
<1>3. ASSUME NEW u \in Uuids, Requeue(u) PROVE (Exists(w) => Attended(w))'
  <2>1. row[u] \in Row
    BY <1>3, ExistingRow DEF Requeue, SharedTypes
  <2>2. [row[u] EXCEPT !.state = PENDING, !.retry = 0] \in Row
        /\ [row[u] EXCEPT !.state = PENDING, !.retry = 0].state = PENDING
    BY <2>1 DEF Row, States
  <2>3. row'[u].state = PENDING /\ \A x \in Uuids : x # u => row'[x] = row[x]
    BY <1>3, <2>2, StoreRow DEF Requeue, SharedTypes
  <2>4. Others(u)
    BY <1>3, <2>3 DEF Requeue, runnervars
  <2> QED BY <1>1, <2>3, <2>4, NeedsNobody DEF PENDING, ENQUEUED, STARTED
<1>4. ASSUME NEW u \in Uuids, ButtonDone(u) PROVE (Exists(w) => Attended(w))'
  <2>1. row[u] \in Row
    BY <1>4, ExistingRow DEF ButtonDone, SharedTypes
  <2>2. [row[u] EXCEPT !.state = DONE, !.date_done = TRUE] \in Row
        /\ [row[u] EXCEPT !.state = DONE, !.date_done = TRUE].state = DONE
    BY <2>1 DEF Row, States
  <2>3. row'[u].state = DONE /\ \A x \in Uuids : x # u => row'[x] = row[x]
    BY <1>4, <2>2, StoreRow DEF ButtonDone, SharedTypes
  <2>4. Others(u)
    BY <1>4, <2>3 DEF ButtonDone, runnervars
  <2> QED BY <1>1, <2>3, <2>4, NeedsNobody DEF DONE, ENQUEUED, STARTED
<1>5. ASSUME NEW u \in Uuids, Autovacuum(u) PROVE (Exists(w) => Attended(w))'
  <2>1. row'[u] = Deleted /\ \A x \in Uuids : x # u => row'[x] = row[x]
    BY <1>5 DEF Autovacuum, SharedTypes
  <2>2. Others(u)
    BY <1>5, <2>1 DEF Autovacuum, runnervars
  <2> QED BY <1>1, <2>1, <2>2 DEF Exists
<1> QED BY <1>2, <1>3, <1>4, <1>5 DEF Outside

\* The runner attends to the job it marks as enqueued until the request is on
\* its way.
LEMMA RunnerAttended ==
    ASSUME RunnerInvariant, RunnerStep,
           NEW w \in Uuids, Exists(w) => Attended(w)
    PROVE  (Exists(w) => Attended(w))'
<1>1. SharedTypes
  BY DEF RunnerInvariant, RunnerTypeOK, SharedTypes
<1>2. CASE SetJobEnqueued
  <2>1. cur \in Uuids /\ cur' = cur /\ pc = "sending" /\ pc' = "requesting"
    BY <1>2 DEF SetJobEnqueued, RunnerInvariant, RunnerTypeOK
  <2>2. /\ \A x \in Uuids : x # cur => row'[x] = row[x]
        /\ req' = req \/ req' = Outdated(req, cur)
    BY <1>1, <1>2 DEF SetJobEnqueued, SharedTypes
  <2>3. CASE w # cur
    <3>1. \A s \in Requests : req[s] # NoRequest /\ req[s].job = w => req'[s] = req[s]
      BY <1>1, <2>2, <2>3, OutdatedRequests DEF SharedTypes
    <3> QED BY <2>1, <2>2, <2>3, <3>1, AttendedKept
  <2>4. CASE w = cur /\ Exists(w)
    <3>1. row[w] \in Row
      BY <1>1, <2>4, ExistingRow DEF SharedTypes
    <3>2. row'[w] = [row[w] EXCEPT !.state = ENQUEUED]
      BY <1>1, <1>2, <2>4 DEF SetJobEnqueued, SharedTypes
    <3>3. row'[w].state = ENQUEUED
      BY <3>1, <3>2 DEF Row
    <3> QED BY <2>1, <2>4, <3>3 DEF Attended, ENQUEUED, STARTED
  <2>5. CASE w = cur /\ ~Exists(w)
    BY <1>2, <2>5 DEF SetJobEnqueued, Exists
  <2> QED BY <2>3, <2>4, <2>5
<1>3. ASSUME NEW r \in Requests, AsyncHttpGet(r) PROVE (Exists(w) => Attended(w))'
  <2>1. /\ \A s \in Requests : req[s] # NoRequest => req'[s] = req[s]
        /\ row' = row
    BY <1>1, <1>3 DEF AsyncHttpGet, SharedTypes, RequestsOK
  <2>2. CASE cur = w
    <3> DEFINE x == [job |-> cur, client |-> "waiting", server |-> "sent",
                     copy |-> NotCreated, stale |-> FALSE]
    <3>1. x \in Request /\ x.server = "sent" /\ x.job = w
      BY <2>2 DEF Request
    <3>2. req'[r] = x
      BY <1>1, <1>3 DEF AsyncHttpGet, SharedTypes, RequestsOK
    <3> HIDE DEF x
    <3>3. Watches(r, w)'
      BY <3>1, <3>2, NoRequestAssumption DEF Watches, Active
    <3> QED BY <2>1, <3>3, AttendedKept
  <2>3. CASE cur # w
    BY <2>1, <2>3, AttendedKept
  <2> QED BY <2>2, <2>3
<1>4. CASE row' = row /\ req' = req /\ pc \notin {"requesting"}
  BY <1>4, AttendedKept
<1> QED BY <1>2, <1>3, <1>4
        DEF RunnerStep, Listen, SelectJobs, LoadJob, Loaded, ProcessNotification,
            StartRunJobs, Flow, NextJob, EndRunJobs, WaitNotification, Poll,
            SelectTimeout, runnervars

\* What is left of the allowance of perturbations only decreases.
LEMMA LeftDecreases ==
    ASSUME RunnerInvariant, [Next]_vars, NEW kind \in Perturbations
    PROVE  left'[kind] <= left[kind]
<1>1. left \in [Perturbations -> Nat]
  BY DEF RunnerInvariant, RunnerTypeOK
<1>2. ASSUME NEW k \in Perturbations, Spend(k) PROVE left'[kind] <= left[kind]
  BY <1>1, <1>2 DEF Spend
<1>3. CASE UNCHANGED left
  BY <1>1, <1>3
<1> QED
  BY <1>2, <1>3
  DEF Next, RunnerStep, Listen, SelectJobs, LoadJob, Loaded, ProcessNotification,
      StartRunJobs, Flow, NextJob, SetJobEnqueued, AsyncHttpGet, EndRunJobs,
      WaitNotification, Poll, SelectTimeout, HandlerStep, LoadForRun, SetStarted,
      JobDone, RowChanged, OtherConflict, RetryableError, NothingToDo, JobFailed,
      PostponeRefused, StartRefused, OutcomeLost, ClientStep, ClientTimeout, ConnectionError,
      SetJobPending, Outside, CreateJob,
      Requeue, ButtonDone, Autovacuum, RunnerException, Crash, WorkerKilled, Tick, vars,
      Perturbations

LEMMA NextAttended == AttendedInvariant /\ [Next]_vars => AttendedInvariant'
<1> SUFFICES ASSUME AttendedInvariant, [Next]_vars PROVE AttendedInvariant'
  OBVIOUS
<1>1. RunnerInvariant /\ RunnerInvariant'
  BY NextTyped DEF AttendedInvariant
<1>2. /\ left \in [Perturbations -> Nat] /\ left' \in [Perturbations -> Nat]
      /\ Allowance \in [Perturbations -> Nat]
  BY <1>1, RunnerAssumption DEF RunnerInvariant, RunnerTypeOK
<1>3. \A kind \in Perturbations : left'[kind] <= left[kind] /\ left'[kind] <= Allowance[kind]
  BY <1>1, <1>2, LeftDecreases DEF AttendedInvariant
<1>4. NoStaleJob'
  <2> SUFFICES ASSUME ~Happened("crash")', ~Happened("exception")', 
                      NEW w \in Uuids \ Unreadable
               PROVE  (Exists(w) => Attended(w))'
    BY DEF NoStaleJob
  <2>1. ~Happened("crash") /\ ~Happened("exception")
    BY <1>2, <1>3 DEF Happened, Perturbations
  <2>2. Exists(w) => Attended(w)
    BY <2>1 DEF AttendedInvariant, NoStaleJob
  <2>3. ~Spend("exception") /\ ~Spend("crash")
    BY <1>2, <1>3 DEF Spend, Happened, Perturbations, AttendedInvariant
  <2>6. ~RunnerException /\ ~Crash /\ \A r \in Requests : ~WorkerKilled(r)
    BY <2>3 DEF RunnerException, Crash, WorkerKilled
  <2>4. SharedTypes /\ now \in Nat
    BY <1>1 DEF RunnerInvariant, RunnerTypeOK, SharedTypes
  <2>5. CASE Tick \/ UNCHANGED vars
    BY <2>2, <2>5, AttendedKept DEF Tick, vars, runnervars
  <2> QED BY <1>1, <2>2, <2>4, <2>5, <2>6, HandlerAttended, ClientAttended, OutsideAttended,
             RunnerAttended DEF Next
<1> QED BY <1>1, <1>3, <1>4 DEF AttendedInvariant

\* Without a crash, no job is left enqueued with nobody to run it or started
\* with nobody who performs it, whatever users, timeouts, retries and the
\* other jobs do in between.
THEOREM NoStaleJobs == Spec => []NoStaleJob
<1>1. Init => AttendedInvariant
  <2> SUFFICES ASSUME Init PROVE AttendedInvariant
    OBVIOUS
  <2>1. \A u \in Uuids : ~Exists(u)
    BY DEF Init, Exists
  <2>2. \A kind \in Perturbations : left[kind] <= Allowance[kind]
    BY RunnerAssumption DEF Init
  <2> QED BY <2>1, <2>2, InitTyped DEF AttendedInvariant, NoStaleJob
<1>2. AttendedInvariant => NoStaleJob
  BY DEF AttendedInvariant
<1> QED BY <1>1, <1>2, NextAttended, PTL DEF Spec

-----------------------------------------------------------------------------
(* What the runner knows of the rows                                       *)

\* The runner has read the row of u after its last change, or is about to
\* change it.
Seen(u) ==
    /\ pc \notin {"starting", "listening"}
    /\ u \notin DOMAIN selected \cup socket \cup notifies

\* The tree holds u as its row says; the runner may have taken a pending job
\* out of the tree to mark it as enqueued.
Viewed(u) ==
    LET o == JobOf(u, row[u])
        own == ChannelOf[u]
    IN  IF ~Exists(u) \/ row[u].state = DONE THEN jobs[u] = NoJob
        ELSE /\ jobs[u] = o
             /\ row[u].state = FAILED => o \in failed[own]
             /\ row[u].state = PENDING => \/ pc = "sending" /\ cur = u
                                          \/ \E c \in Path[own] : o \in queue[c]
             /\ row[u].state \in {ENQUEUED, STARTED} => o \in running[own]

\* A row read by initialize_databases is still the same, or a notification is
\* on its way.
SelectedRow(u) ==
    /\ selected[u].state \in NotDone
    /\ u \notin socket \cup notifies => row[u] = selected[u]

(***************************************************************************)
(* ViewFollowsRows becomes inductive with the two moments at which the     *)
(* runner knows less than the database: before it has read the rows, when  *)
(* its tree is empty, and while it notifies itself of what it has read.    *)
(***************************************************************************)
ViewInvariant ==
    /\ RunnerInvariant
    /\ pc \in {"starting", "listening"} => \A u \in Uuids : jobs[u] = NoJob
    /\ pc # "loading" => DOMAIN selected = {}
    /\ \A u \in DOMAIN selected : SelectedRow(u)
    /\ \A u \in Uuids : Seen(u) => Viewed(u)

\* A row that changes is notified to the runner once it listens; the deletion
\* of a job that is done is not.
Notified(u) ==
    \/ row'[u] = row[u]
    \/ u \in socket' \cup notifies'
    \/ pc = "starting"
    \/ Exists(u) /\ row[u].state = DONE /\ row'[u] = Deleted

\* A step that is not the runner's
LEMMA AwayFromRunner ==
    ASSUME ViewInvariant, RunnerInvariant', UNCHANGED <<chvars, runnervars>>,
           notifies \subseteq notifies', socket \subseteq socket' \cup notifies',
           \A u \in Uuids : Notified(u)
    PROVE  ViewInvariant'
<1>1. UNCHANGED <<jobs, queue, running, failed, pc, selected, cur>>
  BY DEF chvars, runnervars
<1>2. pc \in {"starting", "listening"} => \A u \in Uuids : jobs'[u] = NoJob
  BY <1>1 DEF ViewInvariant
<1>3. ASSUME NEW u \in DOMAIN selected PROVE SelectedRow(u)'
  <2>1. SelectedRow(u) /\ u \in Uuids /\ pc # "starting"
    BY <1>3 DEF ViewInvariant, RunnerInvariant, RunnerTypeOK
  <2>2. selected[u].state # DONE
    BY <2>1 DEF SelectedRow, NotDone, DONE, PENDING, ENQUEUED, STARTED, FAILED
  <2> QED BY <1>1, <2>1, <2>2 DEF SelectedRow, Notified
<1>4. ASSUME NEW u \in Uuids, Seen(u)' PROVE Viewed(u)'
  <2>1. Seen(u) /\ Viewed(u) /\ Notified(u) /\ pc # "starting"
    BY <1>1, <1>4 DEF Seen, ViewInvariant
  <2>2. CASE row'[u] = row[u]
    BY <1>1, <2>1, <2>2 DEF Viewed, Exists
  <2>3. CASE Exists(u) /\ row[u].state = DONE /\ row'[u] = Deleted
    BY <1>1, <2>1, <2>3 DEF Viewed, Exists
  <2> QED BY <1>4, <2>1, <2>2, <2>3 DEF Notified, Seen
<1> QED BY <1>1, <1>2, <1>3, <1>4 DEF ViewInvariant

\* Storing a row and the trigger
LEMMA StoreNotifies ==
    ASSUME SharedTypes, NEW u \in Uuids, NEW v, Store(u, v) \/ row' = [row EXCEPT ![u] = v],
           Trigger(u)
    PROVE  /\ \A w \in Uuids : Notified(w)
           /\ socket \subseteq socket'
BY DEF SharedTypes, Store, Trigger, Listening, Notified

LEMMA HandlerView ==
    ASSUME ViewInvariant, RunnerInvariant', NEW r \in Requests, HandlerStep(r) \/ ClientStep(r)
    PROVE  ViewInvariant'
<1>1. SharedTypes /\ (Active(r) => req[r].job \in Uuids)
  BY DEF ViewInvariant, RunnerInvariant, RunnerTypeOK, SharedTypes, RequestsOK, Active, Request
<1>2. UNCHANGED <<chvars, runnervars, notifies>> /\ Active(r)
  BY DEF HandlerStep, LoadForRun, SetStarted, JobDone, RowChanged, OtherConflict,
         ConcurrencyError, RetryableError, NothingToDo, JobFailed, PostponeRefused,
         StartRefused, OutcomeLost, Performing, Finish,
         ClientStep, ClientTimeout, ConnectionError, SetJobPending
<1>3. \/ row' = row /\ socket' = socket
      \/ \E v : (Store(req[r].job, v) \/ row' = [row EXCEPT ![req[r].job] = v])
                /\ Trigger(req[r].job)
  <2>1. CASE ClientStep(r)
    <3>1. CASE SetJobPending(r)
      BY <3>1 DEF SetJobPending
    <3> QED BY <2>1, <3>1 DEF ClientStep, ClientTimeout, ConnectionError
  <2>2. ASSUME NEW v, Finish(r, v) PROVE \E x : Store(req[r].job, x) /\ Trigger(req[r].job)
    BY <2>2 DEF Finish
  <2>3. CASE LoadForRun(r) \/ OutcomeLost(r)
    BY <2>3 DEF LoadForRun, OutcomeLost
  <2>4. CASE SetStarted(r)
    BY <2>4 DEF SetStarted
  <2>5. CASE HandlerStep(r)
    BY <2>2, <2>3, <2>4, <2>5
       DEF HandlerStep, JobDone, RowChanged, OtherConflict, ConcurrencyError, RetryableError,
           NothingToDo, JobFailed, PostponeRefused, StartRefused
  <2> QED BY <2>1, <2>5
<1>4. socket \subseteq socket' /\ \A w \in Uuids : Notified(w)
  <2>1. CASE row' = row /\ socket' = socket
    BY <2>1 DEF Notified
  <2>2. ASSUME NEW v, Store(req[r].job, v) \/ row' = [row EXCEPT ![req[r].job] = v],
               Trigger(req[r].job)
        PROVE  socket \subseteq socket' /\ \A w \in Uuids : Notified(w)
    BY <1>1, <1>2, <2>2, StoreNotifies
  <2> QED BY <1>3, <2>1, <2>2
<1> QED BY <1>2, <1>4, AwayFromRunner

LEMMA DisconnectedView ==
    ASSUME RunnerInvariant', Disconnect
    PROVE  ViewInvariant'
BY DEF Disconnect, RemoveDb, ViewInvariant, Seen, NoRows

LEMMA OutsideView ==
    ASSUME ViewInvariant, RunnerInvariant', Outside
    PROVE  ViewInvariant'
<1>1. SharedTypes
  BY DEF ViewInvariant, RunnerInvariant, RunnerTypeOK, SharedTypes
<1>2. CASE RunnerException \/ Crash
  BY <1>2, DisconnectedView DEF RunnerException, Crash
<1>3. ASSUME NEW u \in Uuids, CreateJob(u) \/ Requeue(u) \/ ButtonDone(u) \/ Autovacuum(u)
      PROVE  ViewInvariant'
  <2>1. UNCHANGED <<chvars, runnervars, notifies>>
    BY <1>3 DEF CreateJob, Requeue, ButtonDone, Autovacuum
  <2>2. CASE CreateJob(u) \/ Requeue(u) \/ ButtonDone(u)
    <3>1. \E v : Store(u, v) /\ Trigger(u)
      BY <2>2 DEF CreateJob, Requeue, ButtonDone
    <3> QED BY <1>1, <2>1, <3>1, StoreNotifies, AwayFromRunner
  <2>3. CASE Autovacuum(u)
    <3>1. socket \subseteq socket' /\ \A w \in Uuids : Notified(w)
      BY <1>1, <2>3 DEF Autovacuum, Notified, SharedTypes, Trigger, Listening
    <3> QED BY <2>1, <3>1, AwayFromRunner
  <2> QED BY <1>3, <2>2, <2>3
<1>4. ASSUME NEW r \in Requests, WorkerKilled(r) PROVE ViewInvariant'
  BY <1>4, AwayFromRunner DEF WorkerKilled, Notified
<1> QED BY <1>2, <1>3, <1>4 DEF Outside

\* The job the row speaks of stays where it is.
LEMMA ViewKept ==
    ASSUME NEW u \in Uuids, Viewed(u), row'[u] = row[u], jobs'[u] = jobs[u],
           LET o == JobOf(u, row[u])
               own == ChannelOf[u]
           IN  /\ o \in failed[own] => o \in failed'[own]
               /\ o \in running[own] => o \in running'[own]
               /\ (pc = "sending" /\ cur = u) \/ (\E c \in Path[own] : o \in queue[c])
                    => (pc' = "sending" /\ cur' = u) \/ (\E c \in Path[own] : o \in queue'[c])
    PROVE  Viewed(u)'
BY DEF Viewed, Exists

\* Notifying a row to the channel manager
LEMMA NotifyViews ==
    ASSUME TreeInvariant, NEW u \in Uuids, NEW v \in Row, Notify(JobOf(u, v), v.state)
    PROVE  LET o == JobOf(u, v)
               own == ChannelOf[u]
           IN  /\ jobs'[u] = IF v.state = DONE THEN NoJob ELSE o
               /\ v.state = PENDING => \E c \in Path[own] : o \in queue'[c]
               /\ v.state \in {ENQUEUED, STARTED} => o \in running'[own]
               /\ v.state = FAILED => o \in failed'[own]
               /\ \A w \in Uuids : w # u => jobs'[w] = jobs[w]
               /\ \A c \in Channels : \A x : x.uuid # u =>
                     /\ x \in queue'[c] <=> x \in queue[c]
                     /\ x \in running'[c] <=> x \in running[c]
                     /\ x \in failed'[c] <=> x \in failed[c]
<1> DEFINE o == JobOf(u, v)
<1>1. o \in ChannelJob /\ o.uuid = u /\ v.state \in States /\ o.chan = ChannelOf[u]
  BY JobOfRow DEF JobOf
<1>2. ChannelOf[u] \in Channels /\ ChannelOf[u] \in Path[ChannelOf[u]]
  BY RunnerAssumption, OwnPath
<1> HIDE DEF o
<1>3. /\ jobs' = [jobs EXCEPT ![u] = IF v.state = DONE THEN NoJob ELSE o]
      /\ Notify(o, v.state)
  BY <1>1 DEF Notify, o
<1>4. jobs \in [Uuids -> ChannelJob \cup {NoJob}]
  BY DEF TreeInvariant, TypeOK
<1>5. \A c \in Channels : \A x : x.uuid # u =>
         /\ x \in queue'[c] <=> x \in queue[c]
         /\ x \in running'[c] <=> x \in running[c]
         /\ x \in failed'[c] <=> x \in failed[c]
  BY <1>1, <1>3, NotifyOthers
<1>6. /\ v.state = PENDING => o \in queue'[ChannelOf[u]]
      /\ v.state \in {ENQUEUED, STARTED} => o \in running'[ChannelOf[u]]
      /\ v.state = FAILED => o \in failed'[ChannelOf[u]]
  BY <1>1, <1>3, NotifyPlaces
<1> QED BY <1>2, <1>3, <1>4, <1>5, <1>6 DEF o

\* The rows of the other jobs are seen as before.
LEMMA OthersViewed ==
    ASSUME NEW u \in Uuids, NEW w \in Uuids, w # u, Viewed(w), row' = row,
           jobs'[w] = jobs[w], pc' = pc \/ pc # "sending", cur' = cur,
           \A c \in Channels : \A x : x.uuid # u =>
              /\ x \in queue'[c] <=> x \in queue[c]
              /\ x \in running'[c] <=> x \in running[c]
              /\ x \in failed'[c] <=> x \in failed[c]
    PROVE  Viewed(w)'
<1>1. JobOf(w, row[w]).uuid # u
  BY DEF JobOf
<1>2. ChannelOf[w] \in Channels /\ Path[ChannelOf[w]] \subseteq Channels
        /\ ChannelOf[w] \in Path[ChannelOf[w]]
  BY RunnerAssumption, OwnPath
<1> QED BY <1>1, <1>2, ViewKept

\* The runner reads rows ...
LEMMA ReadingView ==
    ASSUME ViewInvariant, RunnerInvariant',
           \/ Listen \/ SelectJobs \/ Loaded
           \/ \E u \in DOMAIN selected : LoadJob(u)
           \/ \E u \in notifies : ProcessNotification(u)
    PROVE  ViewInvariant'
<1>1. SharedTypes /\ TreeInvariant /\ notifies \subseteq Uuids /\ DOMAIN selected \subseteq Uuids
  BY DEF ViewInvariant, RunnerInvariant, RunnerTypeOK, SharedTypes
<1>2. CASE Listen
  BY <1>2 DEF Listen, ViewInvariant, Seen, chvars
<1>3. CASE SelectJobs
  <2>1. /\ UNCHANGED <<row, jobs>> /\ pc = "listening" /\ pc' = "loading"
        /\ selected' = [u \in {v \in Uuids : Exists(v) /\ row[v].state \in NotDone} |-> row[u]]
    BY <1>3 DEF SelectJobs, chvars
  <2>2. ASSUME NEW u \in Uuids, Seen(u)' PROVE Viewed(u)'
    <3>1. ~Exists(u) \/ row[u].state \notin NotDone
      BY <2>1, <2>2 DEF Seen
    <3>2. Exists(u) => row[u].state \in States
      BY <1>1, ExistingRow DEF SharedTypes, Row
    <3>3. ~Exists(u) \/ row[u].state = DONE
      BY <3>1, <3>2 DEF NotDone, States
    <3>4. jobs[u] = NoJob
      BY <2>1 DEF ViewInvariant
    <3> QED BY <2>1, <3>3, <3>4 DEF Viewed, Exists
  <2>3. \A u \in DOMAIN selected' : SelectedRow(u)'
    BY <2>1 DEF SelectedRow
  <2> QED BY <2>1, <2>2, <2>3 DEF ViewInvariant
<1>4. CASE Loaded
  <2>1. /\ UNCHANGED <<row, jobs, queue, running, failed, socket, notifies, selected, cur>>
        /\ pc = "loading" /\ pc' = "process" /\ DOMAIN selected = {}
    BY <1>4 DEF Loaded, chvars
  <2> QED BY <2>1 DEF ViewInvariant, SelectedRow, Seen, Viewed, Exists
<1>5. ASSUME NEW u \in DOMAIN selected, LoadJob(u) PROVE ViewInvariant'
  <2>1. /\ pc = "loading" /\ UNCHANGED <<row, socket, notifies, pc, cur>>
        /\ selected' = [v \in DOMAIN selected \ {u} |-> selected[v]]
        /\ Notify(JobOf(u, selected[u]), selected[u].state)
        /\ u \in Uuids /\ selected[u] \in Row /\ SelectedRow(u)
    BY <1>5 DEF LoadJob, ViewInvariant, RunnerInvariant, RunnerTypeOK
  <2>2. \A w \in DOMAIN selected' : SelectedRow(w)'
    BY <2>1 DEF ViewInvariant, SelectedRow
  <2>3. ASSUME NEW w \in Uuids, Seen(w)' PROVE Viewed(w)'
    <3>1. CASE w = u
      <4>1. row[u] = selected[u]
        BY <2>1, <2>3, <3>1 DEF SelectedRow, Seen
      <4>2. Exists(u)
        BY <1>1, <2>1, <4>1, ExistingRow DEF SharedTypes
      <4> QED BY <1>1, <2>1, <3>1, <4>1, <4>2, NotifyViews
              DEF Viewed, Exists, DONE, PENDING, ENQUEUED, STARTED, FAILED
    <3>2. CASE w # u
      <4>1. Viewed(w)
        BY <2>1, <2>3, <3>2 DEF Seen, ViewInvariant
      <4> QED BY <1>1, <2>1, <3>2, <4>1, NotifyViews, OthersViewed
    <3> QED BY <3>1, <3>2
  <2> QED BY <2>1, <2>2, <2>3 DEF ViewInvariant
<1>6. ASSUME NEW u \in notifies, ProcessNotification(u) PROVE ViewInvariant'
  <2>1. /\ pc = "process" /\ UNCHANGED <<row, pc, cur, selected>>
        /\ notifies' = (notifies \ {u}) \cup socket /\ socket' = {}
        /\ u \in Uuids /\ DOMAIN selected = {}
    BY <1>1, <1>6 DEF ProcessNotification, Collect, runnervars, ViewInvariant
  <2>2. ASSUME NEW w \in Uuids, Seen(w)' PROVE Viewed(w)'
    <3>1. CASE w = u /\ Exists(u)
      <4>1. row[u] \in Row /\ Notify(JobOf(u, row[u]), row[u].state)
        BY <1>1, <1>6, <2>1, <3>1, ExistingRow DEF ProcessNotification, SharedTypes
      <4> QED BY <1>1, <2>1, <3>1, <4>1, NotifyViews
              DEF Viewed, Exists, DONE, PENDING, ENQUEUED, STARTED, FAILED
    <3>2. CASE w = u /\ ~Exists(u)
      <4>1. jobs'[u] = NoJob
        BY <1>1, <1>6, <2>1, <3>2 DEF ProcessNotification, RemoveJob, TreeInvariant, TypeOK
      <4> QED BY <2>1, <3>2, <4>1 DEF Viewed, Exists
    <3>3. CASE w # u
      <4>1. Viewed(w)
        BY <2>1, <2>2, <3>3 DEF Seen, ViewInvariant
      <4>2. CASE Exists(u)
        <5>1. row[u] \in Row /\ Notify(JobOf(u, row[u]), row[u].state)
          BY <1>1, <1>6, <2>1, <4>2, ExistingRow DEF ProcessNotification, SharedTypes
        <5> QED BY <1>1, <2>1, <3>3, <4>1, <5>1, NotifyViews, OthersViewed
      <4>3. CASE ~Exists(u)
        <5>1. RemoveJob(u)
          BY <1>6, <4>3 DEF ProcessNotification
        <5>2. jobs'[w] = jobs[w]
          BY <1>1, <3>3, <5>1 DEF RemoveJob, TreeInvariant, TypeOK
        <5> QED BY <1>1, <2>1, <3>3, <4>1, <5>1, <5>2, RemoveJobOthers, OthersViewed
      <4> QED BY <4>2, <4>3
    <3> QED BY <3>1, <3>2, <3>3
  <2> QED BY <2>1, <2>2 DEF ViewInvariant
<1> QED BY <1>2, <1>3, <1>4, <1>5, <1>6

\* ... and lets jobs go.
LEMMA SchedulingView ==
    ASSUME ViewInvariant, RunnerInvariant',
           \/ StartRunJobs \/ Flow \/ EndRunJobs
           \/ \E o \in queue[Root] : NextJob(o)
    PROVE  ViewInvariant'
<1>1. /\ TreeInvariant /\ pc \in {"process", "run"}
      /\ UNCHANGED <<row, socket, notifies, selected, jobs>>
      /\ pc' \notin {"starting", "listening"} /\ DOMAIN selected = {}
  BY DEF StartRunJobs, Flow, EndRunJobs, NextJob, ViewInvariant, RunnerInvariant, runnervars,
         GetJobsToRun, PassDown, Exhausted, YieldToRunner
<1> SUFFICES ASSUME NEW u \in Uuids, Viewed(u) PROVE Viewed(u)'
  BY <1>1 DEF ViewInvariant, Seen
<1> DEFINE o == JobOf(u, row[u])
           own == ChannelOf[u]
<1>2. own \in Channels /\ Path[own] \subseteq Channels
  BY RunnerAssumption, OwnPath
<1>3. CASE UNCHANGED <<queue, running, failed>>
  BY <1>1, <1>3, ViewKept
<1>4. CASE StartRunJobs \/ EndRunJobs
  BY <1>3, <1>4 DEF StartRunJobs, EndRunJobs, GetJobsToRun, Exhausted
<1>5. ASSUME NEW c \in Channels, PassDown(c) PROVE Viewed(u)'
  <2> DEFINE p == Parent[c]
  <2>1. TreeInvariant /\ PassDown(c) /\ p \in Channels
    BY <1>1, <1>5, PassDownMoves
  <2>2. PICK x \in queue[c] :
           /\ x \in ChannelJob /\ x.chan \in Channels /\ x.uuid \in Uuids
           /\ jobs[x.uuid] = x
           /\ c \in Path[x.chan] /\ p \in Path[x.chan] /\ p # x.chan
           /\ x \notin running[c] /\ x \notin failed[c]
           /\ x \notin queue[p] /\ x \notin running[p] /\ x \notin failed[p]
           /\ queue' \in [Channels -> SUBSET ChannelJob]
           /\ running' \in [Channels -> SUBSET ChannelJob]
           /\ failed' = failed /\ jobs' = jobs
           /\ \A d \in Channels :
                 /\ queue'[d] = IF d = p THEN queue[d] \cup {x}
                                ELSE IF d = c THEN queue[d] \ {x} ELSE queue[d]
                 /\ running'[d] = IF d = c THEN running[d] \cup {x} ELSE running[d]
    BY <2>1, PassDownMoves
  <2>3. o.chan = own
    BY DEF JobOf
  <2> HIDE DEF o, own, p
  <2>4. ASSUME NEW d \in Path[own], o \in queue[d] PROVE \E e \in Path[own] : o \in queue'[e]
    <3>1. CASE o = x
      BY <1>2, <2>1, <2>2, <2>3, <3>1
    <3>2. CASE o # x
      BY <1>2, <2>2, <2>4, <3>2
    <3> QED BY <3>1, <3>2
  <2>5. /\ o \in running[own] => o \in running'[own]
        /\ o \in failed[own] => o \in failed'[own]
    BY <1>2, <2>2
  <2> QED BY <1>1, <2>4, <2>5, ViewKept DEF o, own
<1>6. CASE Flow
  BY <1>3, <1>5, <1>6 DEF Flow, Exhausted
<1>7. ASSUME NEW x \in queue[Root], NextJob(x) PROVE Viewed(u)'
  <2>1. YieldToRunner(x) /\ pc' = "sending" /\ cur' = x.uuid
    BY <1>7 DEF NextJob
  <2>2. /\ failed' = failed
        /\ \A d \in Channels :
              /\ queue'[d] = IF d = Root THEN queue[d] \ {x} ELSE queue[d]
              /\ running'[d] = IF d = Root THEN running[d] \cup {x} ELSE running[d]
    BY <1>1, <2>1, YieldMoves
  <2>3. o.uuid = u
    BY DEF JobOf
  <2> HIDE DEF o, own
  <2>4. ASSUME NEW d \in Path[own], o \in queue[d]
        PROVE  (pc' = "sending" /\ cur' = u) \/ \E e \in Path[own] : o \in queue'[e]
    BY <1>2, <2>1, <2>2, <2>3, <2>4
  <2>5. /\ o \in running[own] => o \in running'[own]
        /\ o \in failed[own] => o \in failed'[own]
    BY <1>2, <2>2
  <2> QED BY <1>1, <2>4, <2>5, ViewKept DEF o, own
<1> QED BY <1>4, <1>6, <1>7

\* The runner marks a job as enqueued, asks for its execution, and waits.
LEMMA SendingView ==
    ASSUME ViewInvariant, RunnerInvariant',
           \/ SetJobEnqueued \/ WaitNotification \/ Poll \/ SelectTimeout
           \/ \E r \in Requests : AsyncHttpGet(r)
    PROVE  ViewInvariant'
<1>1. /\ UNCHANGED <<jobs, queue, running, failed, selected>> /\ DOMAIN selected = {}
      /\ pc \in {"sending", "requesting", "wait", "select"}
      /\ pc' \in {"requesting", "run", "process", "select"}
  BY DEF SetJobEnqueued, WaitNotification, Poll, SelectTimeout, AsyncHttpGet, ViewInvariant, chvars
<1> SUFFICES ASSUME NEW u \in Uuids, Seen(u)' PROVE Viewed(u)'
  BY <1>1 DEF ViewInvariant
<1>2. CASE SetJobEnqueued
  <2>1. Seen(u)
    BY <1>1, <1>2 DEF SetJobEnqueued, Collect, Seen
  <2>2. row' = row \/ (Exists(cur) /\ cur # u /\ row'[u] = row[u])
    BY <1>2 DEF SetJobEnqueued, Collect, Seen, ViewInvariant, RunnerInvariant, RunnerTypeOK
  <2>3. cur = u => ~Exists(u)
    BY <1>2 DEF SetJobEnqueued, Collect, Seen
  <2> QED BY <1>1, <2>1, <2>2, <2>3 DEF ViewInvariant, Viewed, Exists
<1>3. CASE ~SetJobEnqueued
  <2>1. row' = row /\ Seen(u) /\ pc # "sending"
    BY <1>1, <1>3 DEF WaitNotification, Poll, SelectTimeout, AsyncHttpGet, Collect, Seen
  <2> QED BY <1>1, <2>1 DEF ViewInvariant, Viewed, Exists
<1> QED BY <1>2, <1>3

LEMMA NextView == ViewInvariant /\ [Next]_vars => ViewInvariant'
<1> SUFFICES ASSUME ViewInvariant, [Next]_vars PROVE ViewInvariant'
  OBVIOUS
<1>1. RunnerInvariant'
  BY NextTyped DEF ViewInvariant
<1>2. CASE RunnerStep
  BY <1>1, <1>2, ReadingView, SchedulingView, SendingView DEF RunnerStep
<1>3. CASE Tick \/ UNCHANGED vars
  BY <1>1, <1>3, AwayFromRunner DEF Tick, vars, Notified, runnervars
<1> QED BY <1>1, <1>2, <1>3, HandlerView, OutsideView DEF Next

LEMMA InitView == Init => ViewInvariant
BY InitTyped DEF Init, ChannelsInit, ViewInvariant, NoRows, Seen

\* What the runner holds of a job whose last change it has read is what the
\* database says, whatever users, requests that time out, crashes of the
\* handlers and restarts of the runner do: no pending job is lost in the tree
\* and no job keeps a place after it is done, failed or deleted.
THEOREM ViewFollows == Spec => []ViewFollowsRows
<1>1. ViewInvariant => ViewFollowsRows
  BY DEF ViewInvariant, ViewFollowsRows, Viewed, Seen, UpToDate
<1> QED BY <1>1, InitView, NextView, PTL DEF Spec

-----------------------------------------------------------------------------
(* The runner at rest                                                      *)

(***************************************************************************)
(* Whenever run_jobs has returned, no channel can let a job go, and that   *)
(* stays so until the runner reads a row: nobody else touches the tree.    *)
(***************************************************************************)
RestInvariant ==
    /\ ViewInvariant
    /\ DrainedBlocked
    /\ pc \in {"wait", "select"} => \A c \in Channels : ~CanYield(c, asof)
    /\ pc = "select" => notifies = {}
    /\ cur # NoJob => pc \in {"sending", "requesting"}

\* The tree, and what the runner is about to do with it, stay the same.
LEMMA RestKept ==
    ASSUME RestInvariant, ViewInvariant', UNCHANGED chvars,
           pc' \in {"wait", "select"} => pc \in {"wait", "select"},
           pc' = "select" => notifies' = {},
           cur' # NoJob => pc' \in {"sending", "requesting"}
    PROVE  RestInvariant'
BY DEF RestInvariant, chvars, DrainedBlocked, Children, CanYield, Poppable

LEMMA NextRest == RestInvariant /\ [Next]_vars => RestInvariant'
<1> SUFFICES ASSUME RestInvariant, [Next]_vars PROVE RestInvariant'
  OBVIOUS
<1>1. ViewInvariant /\ ViewInvariant' /\ TreeInvariant /\ now \in Nat
  BY NextView DEF RestInvariant, ViewInvariant, RunnerInvariant, RunnerTypeOK
<1>2. CASE UNCHANGED <<chvars, pc, cur, notifies>>
  BY <1>1, <1>2, RestKept DEF RestInvariant
<1>3. ASSUME NEW r \in Requests, HandlerStep(r) \/ ClientStep(r) PROVE RestInvariant'
  BY <1>2, <1>3
     DEF HandlerStep, LoadForRun, SetStarted, Finish, JobDone, RowChanged, OtherConflict,
         ConcurrencyError, RetryableError, NothingToDo, JobFailed, PostponeRefused,
         StartRefused, OutcomeLost, ClientStep, ClientTimeout, ConnectionError,
         SetJobPending, runnervars
<1>4. CASE RunnerException \/ Crash
  BY <1>1, <1>4 DEF RunnerException, Crash, Disconnect, RemoveDb, RestInvariant, DrainedBlocked
<1>5. CASE Outside \/ Tick \/ UNCHANGED vars
  BY <1>2, <1>4, <1>5 DEF Outside, CreateJob, Requeue, ButtonDone, Autovacuum, WorkerKilled,
                          Tick, vars, runnervars
<1>6. CASE gen' = "idle" /\ pc' \in {"loading", "process"} /\ cur' = cur
           /\ pc \notin {"sending", "requesting"}
  BY <1>1, <1>6 DEF RestInvariant, DrainedBlocked
<1>7. ASSUME NEW u \in DOMAIN selected, LoadJob(u) PROVE RestInvariant'
  BY <1>6, <1>7 DEF LoadJob, Notify
<1>8. ASSUME NEW u \in notifies, ProcessNotification(u) PROVE RestInvariant'
  BY <1>6, <1>8 DEF ProcessNotification, Notify, RemoveJob, runnervars
<1>9. CASE StartRunJobs
  BY <1>1, <1>9, GeneratorDrains DEF StartRunJobs, RestInvariant
<1>10. CASE Flow
  BY <1>1, <1>10, GeneratorDrains DEF Flow, RestInvariant, runnervars
<1>11. ASSUME NEW o \in queue[Root], NextJob(o) PROVE RestInvariant'
  BY <1>1, <1>11, GeneratorDrains DEF NextJob, RestInvariant
<1>12. CASE EndRunJobs
  <2>1. \A c \in Channels : ~CanYield(c, asof)
    BY <1>12, GeneratorReturns DEF EndRunJobs, RestInvariant
  <2>2. UNCHANGED <<queue, running, failed, asof>> /\ pc' = "wait" /\ cur' = cur /\ pc = "run"
    BY <1>12 DEF EndRunJobs, Exhausted
  <2>3. \A c \in Channels : ~CanYield(c, asof)'
    BY <2>1, <2>2 DEF CanYield, Poppable
  <2>4. DrainedBlocked'
    BY <1>1, <1>12, GeneratorDrains, TreeAssumption DEF EndRunJobs, RestInvariant
  <2> QED BY <1>1, <2>2, <2>3, <2>4 DEF RestInvariant, Children
<1>13. CASE \/ Listen \/ SelectJobs \/ Loaded \/ SetJobEnqueued
            \/ WaitNotification \/ Poll \/ SelectTimeout
            \/ \E r \in Requests : AsyncHttpGet(r)
  BY <1>1, <1>13, RestKept
     DEF Listen, SelectJobs, Loaded, SetJobEnqueued, WaitNotification, Poll, SelectTimeout,
         AsyncHttpGet, RestInvariant
<1> QED BY <1>3, <1>5, <1>7, <1>8, <1>9, <1>10, <1>11, <1>12, <1>13 DEF Next, RunnerStep

\* While the runner sleeps with nothing to read, every pending job whose time
\* had come when it last looked waits behind a channel that is full or blocked
\* by a failed job: the notifications never leave a job behind that could run.
THEOREM RestsOnlyWhenBlocked == Spec => []IdleMeansBlocked
<1>1. Init => RestInvariant
  BY InitView DEF Init, ChannelsInit, RestInvariant, DrainedBlocked
<1>2. RestInvariant => IdleMeansBlocked
  <2> SUFFICES ASSUME RestInvariant, pc = "select", socket = {}, NEW u \in Uuids, Exists(u),
                      row[u].state = PENDING, row[u].eta <= asof
               PROVE  \E c \in Path[ChannelOf[u]] :
                         /\ JobOf(u, row[u]) \in queue[c]
                         /\ \/ c \in Sequential /\ failed[c] # {}
                            \/ Capacity[c] # 0 /\ Cardinality(running[c]) >= Capacity[c]
    BY DEF IdleMeansBlocked
  <2>1. Viewed(u) /\ TreeInvariant
    BY DEF RestInvariant, ViewInvariant, Seen, RunnerInvariant
  <2>2. PICK c \in Path[ChannelOf[u]] : JobOf(u, row[u]) \in queue[c]
    BY <2>1 DEF Viewed, PENDING, DONE
  <2>3. c \in Channels /\ Capacity[c] \in Nat
    BY RunnerAssumption, OwnPath, ConfigAssumption
  <2>4. row[u] \in Row /\ asof \in Nat /\ IsFiniteSet(Uuids)
    BY <2>1, ExistingRow, RunnerAssumption
       DEF RestInvariant, ViewInvariant, RunnerInvariant, RunnerTypeOK, TypeOK
  <2>5. JobOf(u, row[u]).eta <= asof
    BY DEF JobOf
  <2>6. Poppable(c, asof) # {}
    BY <2>1, <2>2, <2>3, <2>4, <2>5, DueIsPoppable
  <2>7. Cardinality(running[c]) \in Nat
    BY <2>1, <2>3, <2>4, FiniteChannel, FS_CardinalityType
  <2>8. ~CanYield(c, asof)
    BY <2>3 DEF RestInvariant
  <2> QED BY <2>2, <2>3, <2>6, <2>7, <2>8 DEF CanYield
<1> QED BY <1>1, <1>2, NextRest, PTL DEF Spec

-----------------------------------------------------------------------------
(* Undisturbed jobs                                                        *)

\* Neither users nor timeouts have interfered.
Calm == ~Happened("user") /\ ~Happened("timeout")

Occupies(u) == Exists(u) /\ row[u].state \in {ENQUEUED, STARTED}

\* The jobs that take a place of channel c according to the database
Occupying(c) == {u \in Uuids : Occupies(u) /\ c \in Path[ChannelOf[u]]}

\* The jobs to which the tree gives a place of c, or will once it is loaded
Held(c) ==
    {u \in Uuids : jobs[u] \in running[c]}
    \cup {u \in DOMAIN selected : /\ selected[u].state \in {ENQUEUED, STARTED}
                                  /\ c \in Path[ChannelOf[u]]}

\* The tree counts u in all its channels.
Counted(u) == \A c \in Path[ChannelOf[u]] : jobs[u] \in running[c]

\* How far a request has got tells the state of its job.
InStep(r) ==
    LET q == req[r]
        u == q.job
    IN  /\ Exists(u)
        /\ ~q.stale
        /\ \/ q.client = "waiting" /\ q.server \in {"sent", "loaded"} /\ row[u].state = ENQUEUED
           \/ q.client = "waiting" /\ q.server = "started" /\ row[u].state = STARTED
           \/ q.client = "timedout" /\ q.server = "lost" /\ row[u].state \in {ENQUEUED, STARTED}
        /\ q.server \in {"loaded", "started"} => ~q.copy.date_done

\* A job has at most one request.
RequestsInStep ==
    /\ \A r \in Requests : Active(r) => InStep(r)
    /\ \A r, s \in Requests : Active(r) /\ Active(s) /\ req[r].job = req[s].job => r = s

\* Only a job that is done has a date_done and committed effects, once.
RowInStep(u) ==
    /\ Exists(u) /\ row[u].date_done => row[u].state = DONE
    /\ commits[u] # 0 => /\ commits[u] = 1
                         /\ row[u] = Deleted \/ (Exists(u) /\ row[u].state = DONE)

RowsInStep == \A u \in Uuids : RowInStep(u)

Waits(u) == Exists(u) /\ row[u].state = PENDING

\* What waits in the tree is pending ...
QueuesInStep ==
    /\ \A u \in Uuids : jobs[u] # NoJob => jobs[u].chan = ChannelOf[u]
    /\ \A c \in Channels : \A o \in queue[c] : Waits(o.uuid)

\* ... and so is what initialize_databases has read as pending.
SelectedInStep ==
    \A u \in DOMAIN selected :
        /\ jobs[u] = NoJob
        /\ selected[u].state = PENDING => Waits(u)

\* The job that the runner marks as enqueued, and asks Odoo to run
CurrentInStep ==
    /\ pc = "sending" => Waits(cur) /\ Counted(cur)
    /\ pc = "requesting" => /\ Exists(cur) /\ row[cur].state = ENQUEUED
                            /\ \A r \in Requests : Active(r) => req[r].job # cur

\* The tree counts every job that is enqueued or started in all its channels.
PlacesInStep ==
    pc \notin {"starting", "listening"} =>
        \A u \in Uuids : Occupies(u) =>
            \/ u \in DOMAIN selected /\ selected[u].state \in {ENQUEUED, STARTED}
            \/ Counted(u)

WithinCapacity ==
    \A c \in Channels : Capacity[c] # 0 =>
        /\ Cardinality(Held(c)) <= Capacity[c]
        /\ Cardinality(Occupying(c)) <= Capacity[c]

Undisturbed ==
    /\ RequestsInStep
    /\ RowsInStep
    /\ QueuesInStep
    /\ SelectedInStep
    /\ CurrentInStep
    /\ PlacesInStep
    /\ WithinCapacity

CalmInvariant ==
    /\ RestInvariant
    /\ \A kind \in Perturbations : left[kind] <= Allowance[kind]
    /\ Calm => Undisturbed

\* A set of jobs within one that fits fits.
LEMMA FitsWithin ==
    ASSUME NEW S \in SUBSET Uuids, NEW T \in SUBSET S, NEW n \in Nat, Cardinality(S) <= n
    PROVE  Cardinality(T) <= n
<1>1. IsFiniteSet(S) /\ IsFiniteSet(T)
  BY RunnerAssumption, FS_Subset
<1>2. Cardinality(T) <= Cardinality(S)
  BY <1>1, FS_Subset
<1>3. Cardinality(S) \in Nat /\ Cardinality(T) \in Nat
  BY <1>1, FS_CardinalityType
<1> QED BY <1>2, <1>3

\* No channel gets another job.
LEMMA CapacityKept ==
    ASSUME WithinCapacity, RunnerInvariant,
           \A c \in Channels :
              /\ Held(c)' \subseteq Held(c) \/ Held(c)' \subseteq Occupying(c)
              /\ Occupying(c)' \subseteq Occupying(c) \/ Occupying(c)' \subseteq Held(c)
    PROVE  WithinCapacity'
<1> SUFFICES ASSUME NEW c \in Channels, Capacity[c] # 0
             PROVE  /\ Cardinality(Held(c)') <= Capacity[c]
                    /\ Cardinality(Occupying(c)') <= Capacity[c]
  BY DEF WithinCapacity
<1>1. /\ Held(c) \in SUBSET Uuids /\ Occupying(c) \in SUBSET Uuids
      /\ Held(c)' \in SUBSET Held(c) \/ Held(c)' \in SUBSET Occupying(c)
      /\ Occupying(c)' \in SUBSET Occupying(c) \/ Occupying(c)' \in SUBSET Held(c)
  BY DEF Held, Occupying, RunnerInvariant, RunnerTypeOK
<1>2. /\ Cardinality(Held(c)) <= Capacity[c] /\ Cardinality(Occupying(c)) <= Capacity[c]
      /\ Capacity[c] \in Nat
  BY ConfigAssumption DEF WithinCapacity
<1> QED BY <1>1, <1>2, FitsWithin

(***************************************************************************)
(* Somebody changes the row of one job that does not wait.                 *)
(***************************************************************************)
LEMMA RowStep ==
    ASSUME Undisturbed, RunnerInvariant, NEW u \in Uuids, ~Waits(u),
           pc = "requesting" => cur # u,
           UNCHANGED <<chvars, runnervars>>,
           \A w \in Uuids : w # u => row'[w] = row[w] /\ commits'[w] = commits[w],
           Occupies(u)' => Occupies(u),
           RowInStep(u)', RequestsInStep',
           \A r \in Requests : Active(r)' /\ pc = "requesting" => req'[r].job # cur
    PROVE  Undisturbed'
<1>1. /\ UNCHANGED <<jobs, queue, running, failed, pc, selected, cur>>
      /\ pc \in {"sending", "requesting"} => cur \in Uuids
      /\ DOMAIN selected \subseteq Uuids
      /\ \A c \in Channels : \A o \in queue[c] : o.uuid \in Uuids
  BY DEF chvars, runnervars, RunnerInvariant, RunnerTypeOK, TypeOK, ChannelJob
<1>2. \A w \in Uuids : (Waits(w) => Waits(w)') /\ (Occupies(w)' => Occupies(w))
  BY DEF Waits, Occupies, Exists
<1>3. RowsInStep'
  BY DEF Undisturbed, RowsInStep, RowInStep, Exists
<1>4. QueuesInStep' /\ SelectedInStep'
  BY <1>1, <1>2 DEF Undisturbed, QueuesInStep, SelectedInStep
<1>5. CurrentInStep'
  BY <1>1, <1>2 DEF Undisturbed, CurrentInStep, Counted, Exists
<1>6. PlacesInStep'
  BY <1>1, <1>2 DEF Undisturbed, PlacesInStep, Counted
<1>7. WithinCapacity'
  <2>1. \A c \in Channels : Held(c)' \subseteq Held(c) /\ Occupying(c)' \subseteq Occupying(c)
    BY <1>1, <1>2 DEF Held, Occupying
  <2> QED BY <2>1, CapacityKept DEF Undisturbed
<1> QED BY <1>3, <1>4, <1>5, <1>6, <1>7 DEF Undisturbed

\* A step of the only request of a job
LEMMA RequestStep ==
    ASSUME Undisturbed, RunnerInvariant, NEW r \in Requests, Active(r),
           UNCHANGED <<chvars, runnervars>>,
           NEW u, u = req[r].job,
           \A w \in Uuids : w # u => row'[w] = row[w] /\ commits'[w] = commits[w],
           \A s \in Requests : s # r => req'[s] = req[s],
           Active(r)' => InStep(r)' /\ req'[r].job = u,
           RowInStep(u)'
    PROVE  Undisturbed'
<1>1. u \in Uuids /\ \A s \in Requests : Active(s) => req[s].job \in Uuids
  BY DEF RunnerInvariant, RunnerTypeOK, RequestsOK, Active, Request
<1>2. Occupies(u) /\ ~Waits(u)
  BY DEF Undisturbed, RequestsInStep, InStep, Occupies, Waits, ENQUEUED, STARTED, PENDING
<1>3. \A s \in Requests : s # r /\ Active(s) => req[s].job # u
  BY DEF Undisturbed, RequestsInStep
<1>4. \A s \in Requests : s # r => (Active(s)' <=> Active(s))
  BY DEF Active
<1>5. ASSUME NEW s \in Requests, Active(s)' PROVE InStep(s)'
  <2>1. CASE s = r
    BY <1>5, <2>1
  <2>2. CASE s # r
    <3>1. InStep(s) /\ req'[s] = req[s] /\ row'[req[s].job] = row[req[s].job]
      BY <1>1, <1>3, <1>4, <1>5, <2>2 DEF Undisturbed, RequestsInStep
    <3> QED BY <3>1 DEF InStep, Exists
  <2> QED BY <2>1, <2>2
<1>6. ASSUME NEW s \in Requests, NEW t \in Requests, Active(s)', Active(t)',
             req'[s].job = req'[t].job
      PROVE  s = t
  BY <1>3, <1>4, <1>6 DEF Undisturbed, RequestsInStep
<1>7. RequestsInStep'
  BY <1>5, <1>6 DEF RequestsInStep
<1>8. pc = "requesting" => cur # u /\ \A s \in Requests : Active(s)' => req'[s].job # cur
  <2> SUFFICES ASSUME pc = "requesting"
               PROVE  cur # u /\ \A s \in Requests : Active(s)' => req'[s].job # cur
    OBVIOUS
  <2>1. \A s \in Requests : Active(s) => req[s].job # cur
    BY DEF Undisturbed, CurrentInStep
  <2>2. \A s \in Requests : Active(s)' => req'[s].job # cur
    BY <1>4, <2>1
  <2> QED BY <2>1, <2>2
<1> QED BY <1>1, <1>2, <1>7, <1>8, RowStep

\* What a handler that has a Job object ends with
Outcome(r, v) ==
    /\ Active(r)
    /\ Finish(r, v)
    /\ v \in Row
    /\ v.state \in {PENDING, DONE, FAILED}
    /\ \/ req[r].stale
       \/ req[r].server = "started" /\ (v.date_done => v.state = DONE \/ req[r].copy.date_done)
    /\ \/ UNCHANGED commits
       \/ v.state = DONE /\ commits' = [commits EXCEPT ![req[r].job] = @ + 1]

LEMMA HandlerOutcome ==
    ASSUME SharedTypes, now \in Nat, NEW r \in Requests, HandlerStep(r)
    PROVE  \/ LoadForRun(r) \/ SetStarted(r)
           \/ OutcomeLost(r)
           \/ \E v : Outcome(r, v)
<1>1. CASE JobDone(r)
  <2>1. Outcome(r, SetDone(Tried(r)))
    BY <1>1, JobObject DEF JobDone, Performing, Outcome
  <2> QED BY <2>1
<1>2. CASE RowChanged(r)
  <2>1. /\ Postponed(SetDone(Tried(r))) \in Row /\ Postponed(SetDone(Tried(r))).state = PENDING
        /\ Active(r) /\ req[r].stale
    BY <1>2, JobObject, PostponedRow DEF RowChanged, ConcurrencyError, Performing
  <2>2. Outcome(r, Postponed(SetDone(Tried(r))))
    BY <1>2, <2>1 DEF RowChanged, ConcurrencyError, Performing, Outcome
  <2> QED BY <2>2
<1>3. CASE OtherConflict(r)
  <2>1. /\ Postponed(Tried(r)) \in Row /\ Postponed(Tried(r)).state = PENDING
        /\ Postponed(Tried(r)).date_done = req[r].copy.date_done
    BY <1>3, JobObject, PostponedRow DEF OtherConflict, ConcurrencyError, Performing
  <2>2. Outcome(r, Postponed(Tried(r)))
    BY <1>3, <2>1 DEF OtherConflict, ConcurrencyError, Performing, Outcome
  <2> QED BY <2>2
<1>4. ASSUME NEW ignore_retry \in BOOLEAN, RetryableError(r, ignore_retry)
      PROVE  \E v : Outcome(r, v)
  <2> DEFINE v == Tried(r)
             x == CASE ignore_retry -> Postponed(req[r].copy)
                    [] ~ignore_retry /\ MaxRetries # 0 /\ v.retry >= MaxRetries
                          -> [v EXCEPT !.state = FAILED]
                    [] OTHER -> Postponed(v)
  <2>1. Performing(r) /\ Active(r) /\ Finish(r, x) /\ UNCHANGED commits
    BY <1>4 DEF RetryableError, Performing
  <2>2. v \in Row /\ req[r].copy \in Row /\ v.date_done = req[r].copy.date_done
    BY <2>1, JobObject DEF Performing
  <2>3. /\ [v EXCEPT !.state = FAILED] \in Row /\ [v EXCEPT !.state = FAILED].state = FAILED
        /\ [v EXCEPT !.state = FAILED].date_done = v.date_done
    BY <2>2 DEF Row, States
  <2>4. /\ Postponed(v) \in Row /\ Postponed(v).state = PENDING
        /\ Postponed(req[r].copy) \in Row /\ Postponed(req[r].copy).state = PENDING
        /\ Postponed(v).date_done = v.date_done
        /\ Postponed(req[r].copy).date_done = req[r].copy.date_done
    BY <2>2, PostponedRow
  <2>5. /\ x \in Row /\ x.state \in {PENDING, DONE, FAILED}
        /\ x.date_done = req[r].copy.date_done
    BY <2>2, <2>3, <2>4
  <2> HIDE DEF x
  <2>6. Outcome(r, x)
    BY <2>1, <2>5 DEF Outcome, Performing
  <2> QED BY <2>6
<1>5. CASE NothingToDo(r)
  <2> DEFINE x == [SetDone(Tried(r)) EXCEPT !.active = FALSE]
  <2>1. x \in Row /\ x.state = DONE
    BY <1>5, JobObject DEF NothingToDo, Performing, Row
  <2>2. Active(r) /\ Finish(r, x) /\ UNCHANGED commits /\ req[r].server = "started"
    BY <1>5 DEF NothingToDo, Performing
  <2> HIDE DEF x
  <2>3. Outcome(r, x)
    BY <2>1, <2>2 DEF Outcome
  <2> QED BY <2>3
<1>6. CASE JobFailed(r)
  <2> DEFINE v == IF req[r].copy.active THEN Tried(r) ELSE req[r].copy
             x == [v EXCEPT !.state = FAILED]
  <2>1. v \in Row /\ v.date_done = req[r].copy.date_done
    BY <1>6, JobObject DEF JobFailed, Performing
  <2> HIDE DEF v
  <2>2. x \in Row /\ x.state = FAILED /\ x.date_done = v.date_done
    BY <2>1 DEF Row, States
  <2>3. Active(r) /\ Finish(r, x) /\ UNCHANGED commits /\ req[r].server = "started"
    BY <1>6 DEF JobFailed, Performing, v
  <2> HIDE DEF x
  <2>4. Outcome(r, x)
    BY <2>1, <2>2, <2>3 DEF Outcome
  <2> QED BY <2>4
<1>7. CASE StartRefused(r)
  <2>1. Postponed(req[r].copy) \in Row /\ Postponed(req[r].copy).state = PENDING
    BY <1>7, JobObject, PostponedRow DEF StartRefused
  <2>2. Outcome(r, Postponed(req[r].copy))
    BY <1>7, <2>1 DEF StartRefused, Outcome
  <2> QED BY <2>2
<1>8. CASE PostponeRefused(r)
  <2>1. Postponed(Tried(r)) \in Row
    BY <1>8, JobObject, PostponedRow DEF PostponeRefused, Performing
  <2>2. [Postponed(Tried(r)) EXCEPT !.state = FAILED] \in Row
        /\ [Postponed(Tried(r)) EXCEPT !.state = FAILED].state = FAILED
    BY <2>1 DEF Row, States
  <2>3. Outcome(r, [Postponed(Tried(r)) EXCEPT !.state = FAILED])
    BY <1>8, <2>2 DEF PostponeRefused, Performing, Outcome
  <2> QED BY <2>3
<1> QED BY <1>1, <1>2, <1>3, <1>4, <1>5, <1>6, <1>7, <1>8 DEF HandlerStep

\* Without users and timeouts a request is alone with its job.
LEMMA OnlyRequest ==
    ASSUME RequestsInStep, NEW r \in Requests, Active(r), NEW u, u = req[r].job
    PROVE  /\ \A s \in Requests : s # r => Outdated(req, u)[s] = req[s]
           /\ InStep(r)
BY DEF RequestsInStep, Active, Outdated

LEMMA HandlerUndisturbed ==
    ASSUME Undisturbed, RunnerInvariant, NEW r \in Requests, HandlerStep(r)
    PROVE  Undisturbed'
<1>1. SharedTypes /\ now \in Nat /\ commits \in [Uuids -> Nat]
  BY DEF RunnerInvariant, RunnerTypeOK, SharedTypes
<1>2. Active(r) /\ UNCHANGED <<chvars, runnervars>>
  BY DEF HandlerStep, LoadForRun, SetStarted, JobDone, RowChanged, OtherConflict,
         ConcurrencyError, RetryableError, NothingToDo, JobFailed, PostponeRefused,
         StartRefused, OutcomeLost, Performing, Finish
<1>3. PICK u : u = req[r].job
  OBVIOUS
<1>4. /\ req[r] \in Request /\ u \in Uuids
      /\ req \in [Requests -> Request \cup {NoRequest}]
      /\ row \in [Uuids -> Row \cup {NotCreated, Deleted}]
  BY <1>1, <1>2, <1>3 DEF SharedTypes, RequestsOK, Active, Request
<1>5. /\ InStep(r) /\ RowInStep(u) /\ ~req[r].stale /\ Exists(u) /\ row[u] \in Row
      /\ \A s \in Requests : s # r => Outdated(req, u)[s] = req[s]
  BY <1>2, <1>3, <1>4, OnlyRequest, ExistingRow DEF Undisturbed, RowsInStep, InStep
<1>6. row[u].state \in {ENQUEUED, STARTED} => commits[u] = 0 /\ ~row[u].date_done
  BY <1>5, DistinctAssumption DEF RowInStep, Exists, ENQUEUED, STARTED, DONE
<1>7. CASE LoadForRun(r)
  <2>1. /\ UNCHANGED <<row, commits>> /\ \A s \in Requests : s # r => req'[s] = req[s]
        /\ req[r].server = "sent"
        /\ req'[r] = IF Exists(u) /\ u \notin Unreadable /\ row[u].state = ENQUEUED
                     THEN [req[r] EXCEPT !.server = "loaded", !.copy = row[u]]
                     ELSE Replied(req[r])
    BY <1>3, <1>4, <1>7 DEF LoadForRun
  <2>2. req[r].client = "waiting" /\ row[u].state = ENQUEUED
    BY <1>3, <1>5, <2>1 DEF InStep
  <2>3. ASSUME Active(r)' PROVE InStep(r)' /\ req'[r].job = u
    <3>1. req'[r] = [req[r] EXCEPT !.server = "loaded", !.copy = row[u]]
      BY <1>4, <2>1, <2>2, <2>3, RepliedRequest DEF Active
    <3>2. /\ req'[r].job = u /\ req'[r].server = "loaded" /\ req'[r].client = "waiting"
          /\ ~req'[r].stale /\ req'[r].copy = row[u]
      BY <1>3, <1>4, <1>5, <2>2, <3>1 DEF Request
    <3> QED BY <1>5, <1>6, <2>1, <2>2, <3>2 DEF InStep, Exists
  <2>4. RowInStep(u)'
    BY <1>5, <2>1 DEF RowInStep, Exists
  <2> QED BY <1>2, <1>3, <2>1, <2>3, <2>4, RequestStep
<1>8. CASE SetStarted(r)
  <2> DEFINE v == [req[r].copy EXCEPT !.state = STARTED]
  <2>1. /\ Store(u, v) /\ UNCHANGED commits /\ req[r].server = "loaded"
        /\ req' = [Outdated(req, u) EXCEPT ![r].server = "started", ![r].copy = v,
                                          ![r].stale = FALSE]
    BY <1>3, <1>8 DEF SetStarted
  <2>2. req[r].copy \in Row /\ v \in Row /\ v.state = STARTED /\ v.date_done = req[r].copy.date_done
    BY <1>1, <1>2, <2>1, JobObject DEF Row, States
  <2>3. req[r].client = "waiting" /\ row[u].state = ENQUEUED /\ ~v.date_done
    BY <1>3, <1>5, <2>1, <2>2 DEF InStep
  <2>4. Outdated(req, u)[r] = [req[r] EXCEPT !.stale = TRUE]
    BY <1>2, <1>3, <2>1 DEF Outdated, Active
  <2>5. Outdated(req, u) \in [Requests -> Request \cup {NoRequest}]
    BY <1>1, OutdatedRequests DEF SharedTypes, RequestsOK
  <2> HIDE DEF v
  <2>6. /\ row' \in [Uuids -> Row \cup {NotCreated, Deleted}] /\ row'[u] \in Row
        /\ row'[u].state = STARTED /\ ~row'[u].date_done
        /\ \A w \in Uuids : w # u => row'[w] = row[w]
    BY <1>4, <2>1, <2>2, <2>3, StoreRow
  <2>7. \A s \in Requests : s # r => req'[s] = req[s]
    BY <1>4, <1>5, <2>1, <2>5
  <2>8. /\ req'[r].job = u /\ req'[r].client = "waiting" /\ req'[r].server = "started"
        /\ req'[r].copy = v /\ ~req'[r].stale
    BY <1>3, <1>4, <2>1, <2>3, <2>4, <2>5 DEF Request
  <2>9. Exists(u)'
    BY <2>6, DistinctAssumption DEF Exists
  <2>10. InStep(r)' /\ RowInStep(u)'
    BY <1>6, <2>1, <2>3, <2>6, <2>8, <2>9 DEF InStep, RowInStep, Exists
  <2> QED BY <1>2, <1>3, <2>1, <2>6, <2>7, <2>8, <2>10, RequestStep
<1>9. ASSUME NEW v, Outcome(r, v) PROVE Undisturbed'
  <2>1. /\ Store(u, v) /\ v \in Row /\ v.state \in {PENDING, DONE, FAILED}
        /\ req' = [Outdated(req, u) EXCEPT ![r] = Replied(req[r])]
        /\ req[r].server = "started" /\ (v.date_done => v.state = DONE \/ req[r].copy.date_done)
        /\ \/ UNCHANGED commits
           \/ v.state = DONE /\ commits' = [commits EXCEPT ![u] = @ + 1]
    BY <1>3, <1>5, <1>9 DEF Outcome, Finish
  <2>2. req[r].client = "waiting" /\ row[u].state = STARTED /\ ~req[r].copy.date_done
    BY <1>3, <1>5, <2>1 DEF InStep
  <2>3. /\ row' \in [Uuids -> Row \cup {NotCreated, Deleted}] /\ row'[u] \in Row
        /\ row'[u].state = v.state /\ row'[u].date_done = v.date_done
        /\ \A w \in Uuids : w # u => row'[w] = row[w]
    BY <1>4, <2>1, StoreRow
  <2>4. /\ \A w \in Uuids : w # u => commits'[w] = commits[w]
        /\ commits'[u] = 0 \/ (commits'[u] = 1 /\ v.state = DONE)
    BY <1>1, <1>6, <2>1, <2>2
  <2>5. Outdated(req, u) \in [Requests -> Request \cup {NoRequest}]
    BY <1>1, OutdatedRequests DEF SharedTypes, RequestsOK
  <2>6. ~Active(r)' /\ \A s \in Requests : s # r => req'[s] = req[s]
    BY <1>4, <1>5, <2>1, <2>2, <2>5, RepliedRequest DEF Active
  <2>7. Exists(u)'
    BY <2>3, DistinctAssumption DEF Exists
  <2>8. RowInStep(u)'
    BY <2>1, <2>2, <2>3, <2>4, <2>7 DEF RowInStep, Exists
  <2> QED BY <1>2, <1>3, <2>3, <2>4, <2>6, <2>8, RequestStep
<1>10. ~OutcomeLost(r)
  BY <1>5 DEF OutcomeLost
<1> QED BY <1>1, <1>7, <1>8, <1>9, <1>10, HandlerOutcome

LEMMA ClientUndisturbed ==
    ASSUME Undisturbed, RunnerInvariant, NEW r \in Requests, SetJobPending(r) \/ WorkerKilled(r)
    PROVE  Undisturbed'
<1>1. /\ RequestsOK(req) /\ row \in [Uuids -> Row \cup {NotCreated, Deleted}]
      /\ UNCHANGED <<chvars, runnervars, commits>> /\ Active(r)
  BY DEF RunnerInvariant, RunnerTypeOK, SetJobPending, WorkerKilled
<1>2. PICK u : u = req[r].job
  OBVIOUS
<1>3. /\ req[r] \in Request /\ u \in Uuids /\ req \in [Requests -> Request \cup {NoRequest}]
  BY <1>1, <1>2 DEF RequestsOK, Active, Request
<1>4. InStep(r) /\ RowInStep(u)
  BY <1>1, <1>2, <1>3, OnlyRequest DEF Undisturbed, RowsInStep
<1>5. CASE SetJobPending(r)
  <2> DEFINE q == [req EXCEPT ![r] = Settled([req[r] EXCEPT !.client = "gone"])]
  <2>1. req[r].server = "lost" /\ Exists(u) /\ row[u] \in Row
    BY <1>1, <1>2, <1>3, <1>4, <1>5, ExistingRow DEF SetJobPending, InStep
  <2>2. Settled([req[r] EXCEPT !.client = "gone"]) = NoRequest
    BY <1>3, <2>1 DEF Settled, Request
  <2>3. \/ Exists(u) /\ row[u].state = ENQUEUED /\ row' = [row EXCEPT ![u].state = PENDING]
             /\ req' = Outdated(q, u)
        \/ req' = q /\ row' = row
    BY <1>2, <1>5 DEF SetJobPending
  <2>4. q = [req EXCEPT ![r] = NoRequest]
    BY <2>2
  <2> HIDE DEF q
  <2>5. \A s \in Requests : s # r => q[s] = req[s] /\ Outdated(q, u)[s] = Outdated(req, u)[s]
    BY <1>3, <2>4 DEF Outdated
  <2>6. q[r] = NoRequest /\ Outdated(q, u)[r] = NoRequest
    BY <1>3, <2>4 DEF Outdated
  <2>7. ~Active(r)' /\ \A s \in Requests : s # r => req'[s] = req[s]
    BY <1>1, <1>2, <2>3, <2>5, <2>6, OnlyRequest DEF Active, Undisturbed
  <2>8. row' = row \/ (/\ \A w \in Uuids : w # u => row'[w] = row[w]
                       /\ row[u].state = ENQUEUED
                       /\ row'[u] = [row[u] EXCEPT !.state = PENDING])
    BY <1>1, <1>3, <2>3
  <2>9. RowInStep(u)'
    <3>1. CASE row' = row
      BY <1>1, <1>4, <3>1 DEF RowInStep, Exists
    <3>2. CASE row' # row
      <4>1. commits[u] = 0 /\ ~row[u].date_done
        BY <1>4, <2>1, <2>8, <3>2, DistinctAssumption DEF RowInStep, ENQUEUED, DONE
      <4>2. row'[u].date_done = row[u].date_done
        BY <2>1, <2>8, <3>2 DEF Row
      <4> QED BY <1>1, <4>1, <4>2 DEF RowInStep
    <3> QED BY <3>1, <3>2
  <2> QED BY <1>1, <1>2, <2>7, <2>8, <2>9, RequestStep
<1>6. CASE WorkerKilled(r)
  <2> DEFINE x == [req[r] EXCEPT !.client = IF @ = "waiting" THEN "timedout" ELSE @,
                                 !.server = "lost", !.copy = NotCreated, !.stale = FALSE]
  <2>1. /\ req[r].client = "waiting" /\ Exists(u) /\ row[u].state \in {ENQUEUED, STARTED}
        /\ req' = [req EXCEPT ![r] = Settled(x)] /\ row' = row
    BY <1>2, <1>4, <1>6 DEF WorkerKilled, InStep
  <2>2. /\ x.client = "timedout" /\ x.server = "lost" /\ ~x.stale /\ x.job = u
    BY <1>2, <1>3, <2>1 DEF Request
  <2> HIDE DEF x
  <2>3. req'[r] = x /\ \A s \in Requests : s # r => req'[s] = req[s]
    BY <1>3, <2>1, <2>2 DEF Settled
  <2>4. InStep(r)' /\ RowInStep(u)' /\ req'[r].job = u
    BY <1>1, <1>4, <2>1, <2>2, <2>3 DEF InStep, RowInStep, Exists
  <2> QED BY <1>1, <1>2, <2>1, <2>3, <2>4, RequestStep
<1> QED BY <1>5, <1>6

LEMMA CreatedUndisturbed ==
    ASSUME Undisturbed, RunnerInvariant, NEW u \in Uuids, CreateJob(u) \/ Autovacuum(u)
    PROVE  Undisturbed'
<1>1. /\ RequestsOK(req) /\ row \in [Uuids -> Row \cup {NotCreated, Deleted}]
      /\ UNCHANGED <<chvars, runnervars, commits>> /\ now \in Nat
  BY DEF RunnerInvariant, RunnerTypeOK, CreateJob, Autovacuum
<1>2. /\ row[u] = NotCreated \/ (Exists(u) /\ row[u].date_done)
      /\ ~Waits(u) /\ ~Occupies(u) /\ RowInStep(u)
  BY DEF CreateJob, Autovacuum, Undisturbed, RowsInStep, RowInStep, Waits, Occupies, Exists,
         PENDING, ENQUEUED, STARTED, DONE
<1>3. \A r \in Requests : Active(r) => InStep(r) /\ req[r].job # u
  BY <1>2 DEF Undisturbed, RequestsInStep, InStep, Occupies
<1>4. req' = req
  <2>1. CASE CreateJob(u)
    BY <2>1 DEF CreateJob
  <2>2. CASE Autovacuum(u)
    <3>1. req' = Outdated(req, u) /\ req \in [Requests -> Request \cup {NoRequest}]
      BY <1>1, <2>2 DEF Autovacuum, RequestsOK
    <3> QED BY <1>3, <3>1 DEF Active, Outdated
  <2> QED BY <2>1, <2>2
<1>5. \A w \in Uuids : w # u => row'[w] = row[w]
  BY <1>1 DEF CreateJob, Autovacuum, Store
<1>6. ~Occupies(u)' /\ RowInStep(u)'
  <2>1. CASE CreateJob(u)
    <3>1. PICK e \in {NoEta} \cup (IF now < MaxTime THEN {now + 1} ELSE {}) :
              Store(u, [state |-> PENDING, retry |-> 0, eta |-> e,
                        date_done |-> FALSE, active |-> TRUE])
      BY <2>1 DEF CreateJob
    <3>2. e \in Nat
      BY <1>1 DEF NoEta
    <3>3. [state |-> PENDING, retry |-> 0, eta |-> e, date_done |-> FALSE, active |-> TRUE] \in Row
      BY <3>2 DEF Row, States
    <3>4. row'[u].state = PENDING /\ ~row'[u].date_done
      BY <1>1, <3>1, <3>3, StoreRow
    <3>5. commits[u] = 0
      BY <1>1, <1>2, <2>1, DistinctAssumption DEF CreateJob, RowInStep, Exists
    <3> QED BY <1>1, <3>4, <3>5 DEF Occupies, RowInStep, PENDING, ENQUEUED, STARTED
  <2>2. CASE Autovacuum(u)
    BY <1>1, <1>2, <2>2, DistinctAssumption DEF Autovacuum, Occupies, RowInStep, Exists
  <2> QED BY <2>1, <2>2
<1>7. RequestsInStep'
  BY <1>3, <1>4, <1>5, <1>1 DEF Undisturbed, RequestsInStep, InStep, Active, Exists, RequestsOK,
                                Request
<1>8. pc = "requesting" => cur # u /\ \A r \in Requests : Active(r)' => req'[r].job # cur
  BY <1>2, <1>4 DEF Undisturbed, CurrentInStep, Active, Occupies
<1> QED BY <1>1, <1>2, <1>5, <1>6, <1>7, <1>8, RowStep

\* The connection, or the whole server, is lost.
LEMMA DisconnectedUndisturbed ==
    ASSUME Undisturbed, RunnerInvariant, RunnerException \/ Crash
    PROVE  Undisturbed'
<1>1. /\ Disconnect /\ UNCHANGED <<row, commits>>
      /\ \A r \in Requests : Active(r)' => Active(r) /\ req'[r] = req[r]
  BY DEF RunnerException, Crash, Active
<1>2. /\ \A c \in Channels : queue'[c] = {} /\ running'[c] = {}
      /\ \A u \in Uuids : jobs'[u] = NoJob
      /\ DOMAIN selected' = {} /\ pc' = "starting"
  BY <1>1, RemoveDbKeeps DEF Disconnect, RemoveDb, NoRows, RunnerInvariant
<1>3. RequestsInStep'
  BY <1>1 DEF Undisturbed, RequestsInStep, InStep, Exists
<1>4. RowsInStep'
  BY <1>1 DEF Undisturbed, RowsInStep, RowInStep, Exists
<1>5. QueuesInStep' /\ SelectedInStep' /\ CurrentInStep' /\ PlacesInStep'
  BY <1>2 DEF QueuesInStep, SelectedInStep, CurrentInStep, PlacesInStep
<1>6. WithinCapacity'
  <2>1. \A c \in Channels : Held(c)' \subseteq Held(c) /\ Occupying(c)' \subseteq Occupying(c)
    BY <1>1, <1>2 DEF Held, Occupying, Occupies, Exists
  <2> QED BY <2>1, CapacityKept DEF Undisturbed
<1> QED BY <1>3, <1>4, <1>5, <1>6 DEF Undisturbed

\* No more jobs are held than are running.
LEMMA HeldAreRunning ==
    ASSUME RunnerInvariant, DOMAIN selected = {}, NEW c \in Channels
    PROVE  /\ IsFiniteSet(Held(c)) /\ Held(c) = {u \in Uuids : jobs[u] \in running[c]}
           /\ Cardinality(Held(c)) <= Cardinality(running[c])
<1>1. Held(c) = {u \in Uuids : jobs[u] \in running[c]}
  BY DEF Held
<1>2. IsFiniteSet(running[c])
  BY RunnerAssumption, FiniteChannel DEF RunnerInvariant
<1>3. [u \in Held(c) |-> jobs[u]] \in Injection(Held(c), running[c])
  <2>1. \A u \in Uuids : jobs[u] \in running[c] => jobs[u].uuid = u
    BY NoJobAssumption DEF RunnerInvariant, TreeInvariant, TypeOK
  <2> QED BY <1>1, <2>1 DEF Injection, IsInjective
<1> QED BY <1>1, <1>2, <1>3, FS_Injection

\* A step that moves no job
LEMMA PlacesKept ==
    ASSUME Undisturbed, RunnerInvariant,
           UNCHANGED <<row, commits, req, jobs, queue, running, selected>>,
           pc' \notin {"sending", "requesting"},
           pc \in {"starting", "listening"} => pc' \in {"starting", "listening"}
    PROVE  Undisturbed'
<1>1. RequestsInStep' /\ RowsInStep' /\ QueuesInStep' /\ SelectedInStep'
  BY DEF Undisturbed, RequestsInStep, RowsInStep, QueuesInStep, SelectedInStep, Active, InStep,
         RowInStep, Waits, Exists
<1>2. CurrentInStep' /\ PlacesInStep'
  BY DEF Undisturbed, CurrentInStep, PlacesInStep, Occupies, Counted, Exists
<1>3. WithinCapacity'
  BY CapacityKept DEF Undisturbed, Held, Occupying, Occupies, Exists
<1> QED BY <1>1, <1>2, <1>3 DEF Undisturbed

\* initialize_databases reads the rows.
LEMMA SelectUndisturbed ==
    ASSUME Undisturbed, ViewInvariant, SelectJobs
    PROVE  Undisturbed'
<1>1. /\ UNCHANGED <<row, commits, req, jobs, queue, running>> /\ pc' = "loading"
      /\ selected' = [u \in {v \in Uuids : Exists(v) /\ row[v].state \in NotDone} |-> row[u]]
      /\ \A u \in Uuids : jobs[u] = NoJob
      /\ RunnerInvariant
  BY DEF SelectJobs, ViewInvariant, chvars
<1>2. RequestsInStep' /\ RowsInStep' /\ QueuesInStep'
  BY <1>1 DEF Undisturbed, RequestsInStep, RowsInStep, QueuesInStep, Active, InStep,
         RowInStep, Waits, Exists
<1>3. SelectedInStep' /\ CurrentInStep' /\ PlacesInStep'
  BY <1>1 DEF SelectedInStep, CurrentInStep, PlacesInStep, Waits, Occupies, Exists, NotDone
<1>4. \A c \in Channels : \A u \in Uuids : jobs[u] \notin running[c]
  BY <1>1, NoJobAssumption DEF RunnerInvariant, TreeInvariant, TypeOK
<1>5. WithinCapacity'
  <2>1. \A c \in Channels : Held(c)' \subseteq Occupying(c) /\ Occupying(c)' = Occupying(c)
    BY <1>1, <1>4 DEF Held, Occupying, Occupies, Exists
  <2> QED BY <1>1, <2>1, CapacityKept DEF Undisturbed
<1> QED BY <1>2, <1>3, <1>5 DEF Undisturbed

(***************************************************************************)
(* The runner notifies a row to the tree: an object of the job is placed,  *)
(* in the state of its row.                                                *)
(***************************************************************************)
LEMMA NotifiedUndisturbed ==
    ASSUME Undisturbed, RunnerInvariant, RunnerInvariant', pc \in {"loading", "process"}, pc' = pc,
           UNCHANGED <<row, commits, req>>,
           NEW u \in Uuids, NEW v \in Row, Notify(JobOf(u, v), v.state),
           v.state = PENDING => Waits(u),
           v.state \in {ENQUEUED, STARTED} =>
              \/ u \in DOMAIN selected /\ selected[u] = v
              \/ DOMAIN selected = {} /\ row[u] = v /\ Exists(u),
           Occupies(u) => \/ u \in DOMAIN selected /\ selected[u] = v
                          \/ DOMAIN selected = {} /\ row[u] = v,
           DOMAIN selected' = DOMAIN selected \ {u},
           \A w \in DOMAIN selected' : selected'[w] = selected[w]
    PROVE  Undisturbed'
<1> DEFINE o == JobOf(u, v)
<1>1. /\ o \in ChannelJob /\ v.state \in States /\ o.uuid = u /\ o.chan = ChannelOf[u]
      /\ ChannelOf[u] \in Channels /\ Path[ChannelOf[u]] \subseteq Channels
      /\ ChannelOf[u] \in Path[ChannelOf[u]]
  BY JobOfRow, RunnerAssumption, OwnPath DEF JobOf
<1>2. TreeInvariant /\ TreeInvariant' /\ DOMAIN selected \subseteq Uuids
  BY DEF RunnerInvariant, RunnerTypeOK
<1> HIDE DEF o
<1>3. Notify(o, v.state)
  BY DEF o
<1>4. /\ jobs' = [jobs EXCEPT ![u] = IF v.state = DONE THEN NoJob ELSE o]
      /\ \A w \in Uuids : w # u => jobs'[w] = jobs[w]
  BY <1>1, <1>2, <1>3 DEF Notify, TreeInvariant, TypeOK
<1>5. \A c \in Channels : \A w \in Uuids :
         w # u /\ jobs'[w] \in running'[c] => jobs[w] \in running[c]
  <2> SUFFICES ASSUME NEW c \in Channels, NEW w \in Uuids, w # u, jobs'[w] \in running'[c]
               PROVE  jobs[w] \in running[c]
    OBVIOUS
  <2>1. jobs[w].uuid = w
    BY <1>2, <1>4, NoJobAssumption DEF TreeInvariant, TypeOK
  <2> QED BY <1>1, <1>2, <1>3, <1>4, <2>1, NotifyOthers
<1>6. \A c \in Channels : \A w \in Uuids :
         w # u /\ jobs[w] \in running[c] => jobs'[w] \in running'[c]
  <2> SUFFICES ASSUME NEW c \in Channels, NEW w \in Uuids, w # u, jobs[w] \in running[c]
               PROVE  jobs'[w] \in running'[c]
    OBVIOUS
  <2>1. jobs[w].uuid = w
    BY <1>2, NoJobAssumption DEF TreeInvariant, TypeOK
  <2> QED BY <1>1, <1>2, <1>3, <1>4, <2>1, NotifyOthers
<1>7. RequestsInStep' /\ RowsInStep'
  BY DEF Undisturbed, RequestsInStep, RowsInStep, Active, InStep, RowInStep, Exists
<1>8. QueuesInStep'
  <2>1. ASSUME NEW c \in Channels, NEW x \in queue'[c] PROVE Waits(x.uuid)
    <3>1. CASE x.uuid # u
      BY <1>1, <1>2, <1>3, <3>1, NotifyOthers DEF Undisturbed, QueuesInStep
    <3>2. CASE x.uuid = u
      <4>1. x = jobs'[u] /\ x \in ChannelJob
        BY <1>2, <3>2 DEF TreeInvariant, CurrentObjects, Members, TypeOK
      <4>2. x = o
        BY <1>2, <1>4, <4>1, NoJobAssumption DEF TreeInvariant, TypeOK
      <4>3. o \in queue[c] \/ v.state = PENDING
        BY <1>1, <1>2, <1>3, <4>2, NotifyMoves
      <4> QED BY <3>2, <4>2, <4>3 DEF Undisturbed, QueuesInStep
    <3> QED BY <3>1, <3>2
  <2>2. \A w \in Uuids : jobs'[w] # NoJob => jobs'[w].chan = ChannelOf[w]
    BY <1>1, <1>2, <1>4 DEF Undisturbed, QueuesInStep, TreeInvariant, TypeOK
  <2> QED BY <2>1, <2>2 DEF QueuesInStep, Waits, Exists
<1>9. SelectedInStep' /\ CurrentInStep'
  BY <1>2, <1>4 DEF Undisturbed, SelectedInStep, CurrentInStep, Waits, Exists
<1>10. u \in DOMAIN selected => jobs[u] = NoJob
  BY DEF Undisturbed, SelectedInStep
<1>11. ASSUME Occupies(u) PROVE Counted(u)'
  <2>1. v.state \in {ENQUEUED, STARTED} /\ jobs'[u] = o
    <3>1. \/ u \in DOMAIN selected /\ selected[u] = v /\ jobs[u] = NoJob
          \/ DOMAIN selected = {} /\ row[u] = v
      BY <1>10, <1>11
    <3>2. CASE row[u] = v
      BY <1>2, <1>4, <1>11, <3>2 DEF Occupies, TreeInvariant, TypeOK, ENQUEUED, STARTED, DONE
    <3>3. CASE u \in DOMAIN selected /\ selected[u] = v /\ jobs[u] = NoJob
      <4>1. ~Counted(u)
        BY <1>1, <1>2, <3>3, NoJobAssumption DEF Counted, TreeInvariant, TypeOK
      <4>2. v.state \in {ENQUEUED, STARTED}
        BY <1>11, <3>3, <4>1 DEF Undisturbed, PlacesInStep
      <4> QED BY <1>2, <1>4, <4>2 DEF TreeInvariant, TypeOK, ENQUEUED, STARTED, DONE
    <3> QED BY <3>1, <3>2, <3>3
  <2>2. ASSUME NEW c \in Path[ChannelOf[u]] PROVE o \in running'[c]
    <3>1. jobs[u] # o \/ o \in running[c]
      <4>1. jobs[u] = o => Counted(u)
        BY <1>1, <1>10, <1>11, NoJobAssumption DEF Undisturbed, PlacesInStep
      <4> QED BY <2>2, <4>1 DEF Counted
    <3> QED BY <1>1, <1>2, <1>3, <2>1, <2>2, <3>1, NotifyMoves
  <2> QED BY <2>1, <2>2 DEF Counted
<1>12. PlacesInStep'
  <2> SUFFICES ASSUME NEW w \in Uuids, Occupies(w)
               PROVE  \/ w \in DOMAIN selected' /\ selected'[w].state \in {ENQUEUED, STARTED}
                      \/ Counted(w)'
    BY DEF PlacesInStep, Occupies, Exists
  <2>1. CASE w = u
    BY <1>11, <2>1
  <2>2. CASE w # u
    <3>1. ChannelOf[w] \in Channels /\ Path[ChannelOf[w]] \subseteq Channels
      BY RunnerAssumption, OwnPath
    <3>2. \/ w \in DOMAIN selected /\ selected[w].state \in {ENQUEUED, STARTED}
          \/ Counted(w)
      BY DEF Undisturbed, PlacesInStep
    <3> QED BY <1>6, <2>2, <3>1, <3>2 DEF Counted
  <2> QED BY <2>1, <2>2
<1>13. ASSUME NEW c \in Channels PROVE Held(c)' \subseteq Held(c) /\ Occupying(c)' = Occupying(c)
  <2>1. Occupying(c)' = Occupying(c)
    BY DEF Occupying, Occupies, Exists
  <2>2. ASSUME NEW w \in DOMAIN selected', selected'[w].state \in {ENQUEUED, STARTED},
               c \in Path[ChannelOf[w]]
        PROVE  w \in Held(c)
    BY <2>2 DEF Held
  <2>3. ASSUME NEW w \in Uuids, jobs'[w] \in running'[c] PROVE w \in Held(c)
    <3>1. CASE w # u
      BY <1>5, <2>3, <3>1 DEF Held
    <3>2. CASE w = u
      <4>1. jobs'[u] = o
        BY <1>2, <1>4, <2>3, <3>2, NoJobAssumption DEF TreeInvariant, TypeOK
      <4>2. CASE o \in running[c]
        <5>1. jobs[u] = o
          BY <1>1, <1>2, <4>2 DEF TreeInvariant, CurrentObjects, Members
        <5> QED BY <3>2, <4>2, <5>1 DEF Held
      <4>3. CASE v.state \in {ENQUEUED, STARTED} /\ c \in Path[ChannelOf[u]]
        <5>1. CASE u \in DOMAIN selected /\ selected[u] = v
          BY <3>2, <4>3, <5>1 DEF Held
        <5>2. CASE DOMAIN selected = {} /\ row[u] = v /\ Exists(u)
          <6>1. Counted(u)
            BY <4>3, <5>2 DEF Undisturbed, PlacesInStep, Occupies
          <6> QED BY <3>2, <4>3, <6>1 DEF Counted, Held
        <5> QED BY <4>3, <5>1, <5>2
      <4> QED BY <1>1, <1>2, <1>3, <2>3, <3>2, <4>1, <4>2, <4>3, NotifyMoves
    <3> QED BY <3>1, <3>2
  <2> QED BY <2>1, <2>2, <2>3 DEF Held
<1>14. WithinCapacity'
  BY <1>13, CapacityKept DEF Undisturbed
<1> QED BY <1>7, <1>8, <1>9, <1>12, <1>14 DEF Undisturbed

LEMMA LoadUndisturbed ==
    ASSUME Undisturbed, ViewInvariant, RunnerInvariant',
           \/ \E u \in DOMAIN selected : LoadJob(u)
           \/ \E u \in notifies : ProcessNotification(u)
    PROVE  Undisturbed'
<1>1. /\ RunnerInvariant /\ TreeInvariant /\ notifies \subseteq Uuids
      /\ DOMAIN selected \subseteq Uuids
      /\ row \in [Uuids -> Row \cup {NotCreated, Deleted}]
  BY DEF ViewInvariant, RunnerInvariant, RunnerTypeOK
<1>2. ASSUME NEW u \in DOMAIN selected, LoadJob(u) PROVE Undisturbed'
  <2>1. /\ pc = "loading" /\ pc' = pc /\ UNCHANGED <<row, commits, req>>
        /\ selected' = [v \in DOMAIN selected \ {u} |-> selected[v]]
        /\ Notify(JobOf(u, selected[u]), selected[u].state)
        /\ u \in Uuids /\ selected[u] \in Row
    BY <1>1, <1>2 DEF LoadJob, RunnerInvariant, RunnerTypeOK
  <2>2. selected[u].state = PENDING => Waits(u)
    BY <1>2 DEF Undisturbed, SelectedInStep
  <2> QED BY <1>1, <1>2, <2>1, <2>2, NotifiedUndisturbed
<1>3. ASSUME NEW u \in notifies, ProcessNotification(u) PROVE Undisturbed'
  <2>1. /\ pc = "process" /\ pc' = pc /\ UNCHANGED <<row, commits, req, selected>>
        /\ DOMAIN selected = {} /\ u \in Uuids
    BY <1>1, <1>3 DEF ProcessNotification, runnervars, ViewInvariant
  <2>2. CASE Exists(u)
    <3>1. row[u] \in Row /\ Notify(JobOf(u, row[u]), row[u].state)
      BY <1>1, <1>3, <2>1, <2>2, ExistingRow DEF ProcessNotification
    <3>2. row[u].state = PENDING => Waits(u)
      BY <2>2 DEF Waits
    <3> QED BY <1>1, <2>1, <2>2, <3>1, <3>2, NotifiedUndisturbed
  <2>3. CASE ~Exists(u)
    <3>1. RemoveJob(u)
      BY <1>3, <2>3 DEF ProcessNotification
    <3>2. \A w \in Uuids : jobs'[w] = IF w = u THEN NoJob ELSE jobs[w]
      BY <1>1, <2>1, <3>1 DEF RemoveJob, TreeInvariant, TypeOK
    <3>3. TreeInvariant'
      BY DEF RunnerInvariant
    <3>4. \A c \in Channels : \A x \in queue'[c] \cup running'[c] : x.uuid # u
      BY <2>1, <3>2, <3>3, NoJobAssumption DEF TreeInvariant, TypeOK, CurrentObjects, Members
    <3>5. \A c \in Channels : \A w \in Uuids :
             jobs'[w] \in running'[c] <=> w # u /\ jobs[w] \in running[c]
      <4> SUFFICES ASSUME NEW c \in Channels, NEW w \in Uuids
                   PROVE  jobs'[w] \in running'[c] <=> w # u /\ jobs[w] \in running[c]
        OBVIOUS
      <4>1. CASE w = u
        BY <3>2, <3>3, <4>1, NoJobAssumption DEF TreeInvariant, TypeOK
      <4>2. CASE w # u
        <5>1. jobs[w] # NoJob => jobs[w].uuid = w
          BY <1>1 DEF TreeInvariant, TypeOK
        <5>2. jobs[w] = NoJob => jobs[w] \notin running[c] /\ jobs[w] \notin running'[c]
          BY <1>1, <3>3, NoJobAssumption DEF TreeInvariant, TypeOK
        <5> QED BY <1>1, <2>1, <3>1, <3>2, <4>2, <5>1, <5>2, RemoveJobOthers
      <4> QED BY <4>1, <4>2
    <3>6. RequestsInStep' /\ RowsInStep' /\ SelectedInStep' /\ CurrentInStep'
      BY <2>1 DEF Undisturbed, RequestsInStep, RowsInStep, SelectedInStep, CurrentInStep, Active,
                  InStep, RowInStep, Exists
    <3>7. QueuesInStep'
      <4>1. \A c \in Channels : \A x \in queue'[c] : x \in queue[c]
        BY <1>1, <2>1, <3>1, <3>4, RemoveJobOthers
      <4> QED BY <2>1, <3>2, <4>1 DEF Undisturbed, QueuesInStep, Waits, Exists
    <3>8. PlacesInStep'
      <4> SUFFICES ASSUME NEW w \in Uuids, Occupies(w) PROVE Counted(w)'
        BY <2>1 DEF PlacesInStep, Occupies, Exists
      <4>1. Counted(w) /\ w # u
        BY <2>1, <2>3 DEF Undisturbed, PlacesInStep, Occupies
      <4>2. ChannelOf[w] \in Channels /\ Path[ChannelOf[w]] \subseteq Channels
        BY RunnerAssumption, OwnPath
      <4> QED BY <3>5, <4>1, <4>2 DEF Counted
    <3>9. WithinCapacity'
      <4>1. \A c \in Channels : Held(c)' \subseteq Held(c) /\ Occupying(c)' = Occupying(c)
        BY <2>1, <3>5 DEF Held, Occupying, Occupies, Exists
      <4> QED BY <1>1, <4>1, CapacityKept DEF Undisturbed
    <3> QED BY <3>6, <3>7, <3>8, <3>9 DEF Undisturbed
  <2> QED BY <2>2, <2>3
<1> QED BY <1>2, <1>3

\* A channel takes one more job: there was room for it.
LEMMA CapacityTaken ==
    ASSUME RunnerInvariant, DOMAIN selected = {}, WithinCapacity, NEW c \in Channels,
           CanYield(c, asof), NEW u \in Uuids,
           Held(c)' \subseteq Held(c) \cup {u},
           Occupying(c)' = Occupying(c),
           \A d \in Channels \ {c} : Held(d)' \subseteq Held(d) /\ Occupying(d)' = Occupying(d)
    PROVE  WithinCapacity'
<1> SUFFICES ASSUME NEW d \in Channels, Capacity[d] # 0
             PROVE  /\ Cardinality(Held(d)') <= Capacity[d]
                    /\ Cardinality(Occupying(d)') <= Capacity[d]
  BY DEF WithinCapacity
<1>1. /\ Held(d) \in SUBSET Uuids /\ Held(d)' \in SUBSET (Held(d) \cup {u})
      /\ Capacity[d] \in Nat /\ Occupying(d)' = Occupying(d)
      /\ IsFiniteSet(Held(d)) /\ Cardinality(Held(d)) <= Cardinality(running[d])
      /\ Cardinality(Held(d)) <= Capacity[d] /\ Cardinality(Occupying(d)) <= Capacity[d]
  BY HeldAreRunning, ConfigAssumption DEF Held, RunnerInvariant, RunnerTypeOK, WithinCapacity
<1>2. CASE d # c
  BY <1>1, <1>2, FitsWithin
<1>3. CASE d = c
  <2>1. Cardinality(running[d]) < Capacity[d]
    BY <1>3 DEF CanYield
  <2>2. IsFiniteSet(running[d])
    BY RunnerAssumption, FiniteChannel DEF RunnerInvariant
  <2>3. Cardinality(running[d]) \in Nat /\ Cardinality(Held(d)) \in Nat
    BY <1>1, <2>2, FS_CardinalityType
  <2>4. /\ IsFiniteSet(Held(d) \cup {u})
        /\ \/ Cardinality(Held(d) \cup {u}) = Cardinality(Held(d))
           \/ Cardinality(Held(d) \cup {u}) = Cardinality(Held(d)) + 1
    BY <1>1, FS_AddElement
  <2>5. Held(d) \cup {u} \in SUBSET Uuids
    BY <1>1
  <2>6. Cardinality(Held(d) \cup {u}) \in Nat
    BY <2>4, FS_CardinalityType
  <2>7. Cardinality(Held(d) \cup {u}) <= Capacity[d]
    BY <1>1, <2>1, <2>3, <2>4, <2>6
  <2> QED BY <1>1, <2>5, <2>7, FitsWithin
<1> QED BY <1>2, <1>3

(***************************************************************************)
(* The generator lets a job go: channel c, which had room, counts x.       *)
(***************************************************************************)
LEMMA MovedUndisturbed ==
    ASSUME Undisturbed, ViewInvariant, pc = "run",
           UNCHANGED <<row, selected, commits, req, jobs>>,
           NEW c \in Channels, NEW x \in ChannelJob, jobs[x.uuid] = x, x \in queue[c],
           CanYield(c, asof),
           \A d \in Channels : running'[d] = IF d = c THEN running[d] \cup {x} ELSE running[d],
           \A d \in Channels : queue'[d] \subseteq queue[d] \cup {x},
           \/ pc' = "run"
           \/ pc' = "sending" /\ cur' = x.uuid /\ \A d \in Path[x.chan] : x \in running'[d]
    PROVE  Undisturbed'
<1>1. /\ TreeInvariant /\ RunnerInvariant /\ DOMAIN selected = {}
      /\ x.uuid \in Uuids
  BY DEF ViewInvariant, RunnerInvariant, ChannelJob
<1>2. x.chan = ChannelOf[x.uuid] /\ Waits(x.uuid)
  BY <1>1, NoJobAssumption DEF Undisturbed, QueuesInStep
<1>3. RequestsInStep' /\ RowsInStep' /\ SelectedInStep'
  BY DEF Undisturbed, RequestsInStep, RowsInStep, SelectedInStep, Active, InStep,
         RowInStep, Waits, Exists
<1>4. QueuesInStep'
  BY <1>1, <1>2 DEF Undisturbed, QueuesInStep, Waits, Exists
<1>5. CurrentInStep'
  BY <1>1, <1>2 DEF CurrentInStep, Waits, Exists, Counted
<1>6. PlacesInStep'
  <2> SUFFICES ASSUME NEW w \in Uuids, Occupies(w) PROVE Counted(w)'
    BY DEF PlacesInStep, Occupies, Exists
  <2>1. Counted(w)
    BY <1>1 DEF Undisturbed, PlacesInStep
  <2>2. ChannelOf[w] \in Channels /\ Path[ChannelOf[w]] \subseteq Channels
    BY RunnerAssumption, OwnPath
  <2> QED BY <2>1, <2>2 DEF Counted
<1>7. WithinCapacity'
  <2>1. \A d \in Channels : Occupying(d)' = Occupying(d)
    BY DEF Occupying, Occupies, Exists
  <2>2. ASSUME NEW d \in Channels, NEW w \in Uuids, jobs[w] \in running'[d]
        PROVE  jobs[w] \in running[d] \/ (d = c /\ w = x.uuid)
    <3>1. jobs[w] = x => w = x.uuid
      BY <1>1, NoJobAssumption DEF TreeInvariant, TypeOK
    <3>2. running'[d] = IF d = c THEN running[d] \cup {x} ELSE running[d]
      OBVIOUS
    <3> QED BY <2>2, <3>1, <3>2
  <2>3. \A d \in Channels : Held(d)' \subseteq Held(d) \cup (IF d = c THEN {x.uuid} ELSE {})
    BY <1>1, <2>2 DEF Held
  <2>4. /\ Held(c)' \subseteq Held(c) \cup {x.uuid}
        /\ \A d \in Channels \ {c} : Held(d)' \subseteq Held(d)
    BY <2>3
  <2> QED BY <1>1, <2>1, <2>4, CapacityTaken DEF Undisturbed
<1> QED BY <1>3, <1>4, <1>5, <1>6, <1>7 DEF Undisturbed

LEMMA SchedulingUndisturbed ==
    ASSUME Undisturbed, ViewInvariant,
           StartRunJobs \/ Flow \/ EndRunJobs \/ \E o \in queue[Root] : NextJob(o)
    PROVE  Undisturbed'
<1>1. /\ TreeInvariant /\ RunnerInvariant
      /\ UNCHANGED <<row, selected, commits, req, jobs>>
  BY DEF ViewInvariant, RunnerInvariant, StartRunJobs, Flow, EndRunJobs, NextJob, runnervars,
         GetJobsToRun, PassDown, Exhausted, YieldToRunner
<1>2. CASE StartRunJobs \/ EndRunJobs
  <2>1. /\ UNCHANGED <<queue, running>> /\ pc' \in {"run", "wait"} /\ pc \in {"process", "run"}
    BY <1>2 DEF StartRunJobs, EndRunJobs, GetJobsToRun, Exhausted
  <2> QED BY <1>1, <2>1, PlacesKept
<1>3. CASE Flow
  <2>1. pc = "run" /\ pc' = pc
    BY <1>3 DEF Flow, runnervars
  <2>2. ASSUME NEW c \in Channels, Exhausted(c) PROVE Undisturbed'
    BY <1>1, <2>1, <2>2, PlacesKept DEF Exhausted
  <2>3. ASSUME NEW c \in Channels, PassDown(c) PROVE Undisturbed'
    <3> DEFINE p == Parent[c]
    <3>1. CanYield(c, asof)
      BY <2>3 DEF PassDown
    <3>2. PICK x \in queue[c] :
             /\ x \in ChannelJob /\ x.chan \in Channels /\ x.uuid \in Uuids
             /\ jobs[x.uuid] = x
             /\ c \in Path[x.chan] /\ p \in Path[x.chan] /\ p # x.chan
             /\ x \notin running[c] /\ x \notin failed[c]
             /\ x \notin queue[p] /\ x \notin running[p] /\ x \notin failed[p]
             /\ queue' \in [Channels -> SUBSET ChannelJob]
             /\ running' \in [Channels -> SUBSET ChannelJob]
             /\ failed' = failed /\ jobs' = jobs
             /\ \A d \in Channels :
                   /\ queue'[d] = IF d = p THEN queue[d] \cup {x}
                                  ELSE IF d = c THEN queue[d] \ {x} ELSE queue[d]
                   /\ running'[d] = IF d = c THEN running[d] \cup {x} ELSE running[d]
      BY <1>1, <2>3, PassDownMoves
    <3>3. \A d \in Channels : queue'[d] \subseteq queue[d] \cup {x}
      BY <3>2
    <3> QED BY <1>1, <2>1, <3>1, <3>2, <3>3, MovedUndisturbed
  <2> QED BY <1>3, <2>2, <2>3 DEF Flow
<1>4. ASSUME NEW o \in queue[Root], NextJob(o) PROVE Undisturbed'
  <2>1. /\ YieldToRunner(o) /\ CanYield(Root, asof)
        /\ pc = "run" /\ pc' = "sending" /\ cur' = o.uuid
    BY <1>4 DEF NextJob, YieldToRunner
  <2>2. /\ Root \in Channels /\ o \in ChannelJob /\ jobs[o.uuid] = o
        /\ \A d \in Channels :
              /\ queue'[d] = IF d = Root THEN queue[d] \ {o} ELSE queue[d]
              /\ running'[d] = IF d = Root THEN running[d] \cup {o} ELSE running[d]
    BY <1>1, <2>1, YieldMoves
  <2>3. \A d \in Channels : queue'[d] \subseteq queue[d] \cup {o}
    BY <2>2
  <2>4. \A d \in Path[o.chan] : o \in running'[d]
    <3>1. Path[o.chan] \subseteq Channels
      BY <2>2, OwnPath DEF ChannelJob
    <3> QED BY <1>1, <2>2, <3>1, RunningDown
  <2> QED BY <1>1, <2>1, <2>2, <2>3, <2>4, MovedUndisturbed
<1> QED BY <1>2, <1>3, <1>4

\* The runner marks the job and asks for its execution.
LEMMA SendingUndisturbed ==
    ASSUME Undisturbed, ViewInvariant, SetJobEnqueued \/ \E r \in Requests : AsyncHttpGet(r)
    PROVE  Undisturbed'
<1>1. /\ RunnerInvariant /\ TreeInvariant /\ cur \in Uuids /\ DOMAIN selected = {}
      /\ row \in [Uuids -> Row \cup {NotCreated, Deleted}]
      /\ req \in [Requests -> Request \cup {NoRequest}]
      /\ UNCHANGED <<jobs, queue, running, selected, commits>>
  BY DEF ViewInvariant, RunnerInvariant, RunnerTypeOK, RequestsOK, SetJobEnqueued, AsyncHttpGet,
         chvars
<1>2. CASE SetJobEnqueued
  <2>1. /\ pc = "sending" /\ pc' = "requesting" /\ cur' = cur
        /\ Waits(cur) /\ Counted(cur) /\ row[cur] \in Row
        /\ row' = [row EXCEPT ![cur].state = ENQUEUED] /\ req' = Outdated(req, cur)
    BY <1>1, <1>2, ExistingRow DEF SetJobEnqueued, Undisturbed, CurrentInStep, Waits
  <2>2. /\ row'[cur] = [row[cur] EXCEPT !.state = ENQUEUED] /\ row'[cur] \in Row
        /\ row'[cur].state = ENQUEUED /\ row'[cur].date_done = row[cur].date_done
        /\ \A w \in Uuids : w # cur => row'[w] = row[w]
    BY <1>1, <2>1 DEF Row, States
  <2>3. Exists(cur) /\ Exists(cur)' /\ row[cur].state = PENDING
    BY <2>1, <2>2, DistinctAssumption DEF Exists, Waits
  <2>4. \A r \in Requests : Active(r) => InStep(r) /\ req[r].job # cur
    BY <2>1 DEF Undisturbed, RequestsInStep, InStep, Waits, PENDING, ENQUEUED, STARTED
  <2>5. req' = req
    BY <1>1, <2>1, <2>4 DEF Active, Outdated
  <2>6. RequestsInStep'
    BY <1>1, <2>2, <2>4, <2>5 DEF Undisturbed, RequestsInStep, InStep, Active, Exists, Request
  <2>7. RowsInStep'
    <3>1. ASSUME NEW w \in Uuids, w = cur PROVE RowInStep(w)'
      BY <1>1, <2>1, <2>2, <2>3, <3>1, DistinctAssumption
         DEF Undisturbed, RowsInStep, RowInStep, Exists, PENDING, DONE
    <3>2. ASSUME NEW w \in Uuids, w # cur PROVE RowInStep(w)'
      BY <1>1, <2>2, <3>2 DEF Undisturbed, RowsInStep, RowInStep, Exists
    <3> QED BY <3>1, <3>2 DEF RowsInStep
  <2>8. QueuesInStep'
    <3> SUFFICES ASSUME NEW c \in Channels, NEW x \in queue[c]
                 PROVE  x.uuid # cur /\ x.uuid \in Uuids
      BY <1>1, <2>2 DEF Undisturbed, QueuesInStep, Waits, Exists
    <3>1. jobs[x.uuid] = x /\ c \in Path[x.chan] /\ x.uuid \in Uuids
      BY <1>1 DEF TreeInvariant, CurrentObjects, Members, TypeOK, ChannelJob
    <3>2. x.uuid = cur => x \in running[c]
      BY <1>1, <2>1, <3>1, NoJobAssumption DEF Counted, Undisturbed, QueuesInStep,
                                               TreeInvariant, TypeOK
    <3> QED BY <1>1, <3>1, <3>2 DEF TreeInvariant, OnePlace
  <2>9. SelectedInStep' /\ CurrentInStep'
    BY <1>1, <2>1, <2>2, <2>3, <2>4, <2>5 DEF SelectedInStep, CurrentInStep, Active, Exists
  <2>10. PlacesInStep'
    BY <1>1, <2>1, <2>2 DEF Undisturbed, PlacesInStep, Occupies, Counted, Exists
  <2>11. WithinCapacity'
    <3>1. ASSUME NEW c \in Channels PROVE Held(c)' = Held(c) /\ Occupying(c)' \subseteq Held(c)
      <4>1. Held(c)' = Held(c)
        BY <1>1 DEF Held
      <4>2. ASSUME NEW w \in Uuids, Occupies(w)', c \in Path[ChannelOf[w]] PROVE w \in Held(c)
        <5>1. Counted(w)
          BY <1>1, <2>1, <2>2, <4>2 DEF Undisturbed, PlacesInStep, Occupies, Exists
        <5> QED BY <4>2, <5>1 DEF Counted, Held
      <4> QED BY <4>1, <4>2 DEF Occupying
    <3> QED BY <1>1, <3>1, CapacityKept DEF Undisturbed
  <2> QED BY <2>6, <2>7, <2>8, <2>9, <2>10, <2>11 DEF Undisturbed
<1>3. ASSUME NEW r \in Requests, AsyncHttpGet(r) PROVE Undisturbed'
  <2>1. /\ pc = "requesting" /\ pc' = "run" /\ row' = row /\ ~Active(r)
        /\ req'[r] = [job |-> cur, client |-> "waiting", server |-> "sent",
                      copy |-> NotCreated, stale |-> FALSE]
        /\ \A s \in Requests : s # r => req'[s] = req[s]
    BY <1>1, <1>3 DEF AsyncHttpGet, Active
  <2>2. /\ Exists(cur) /\ row[cur].state = ENQUEUED
        /\ \A s \in Requests : Active(s) => req[s].job # cur
    BY <2>1 DEF Undisturbed, CurrentInStep
  <2>3. InStep(r)'
    BY <2>1, <2>2 DEF InStep, Exists
  <2>4. RequestsInStep'
    BY <2>1, <2>2, <2>3 DEF Undisturbed, RequestsInStep, InStep, Active, Exists
  <2>5. RowsInStep' /\ QueuesInStep' /\ SelectedInStep' /\ CurrentInStep'
    BY <1>1, <2>1 DEF Undisturbed, RowsInStep, RowInStep, QueuesInStep, SelectedInStep,
                      CurrentInStep, Waits, Exists
  <2>6. PlacesInStep'
    BY <1>1, <2>1 DEF Undisturbed, PlacesInStep, Occupies, Counted, Exists
  <2>7. WithinCapacity'
    BY <1>1, <2>1, CapacityKept DEF Undisturbed, Held, Occupying, Occupies, Exists
  <2> QED BY <2>4, <2>5, <2>6, <2>7 DEF Undisturbed
<1> QED BY <1>2, <1>3

LEMMA NextUndisturbed ==
    ASSUME Undisturbed, ViewInvariant, RunnerInvariant', [Next]_vars,
           UNCHANGED <<left["user"], left["timeout"]>>
    PROVE  Undisturbed'
<1>1. RunnerInvariant /\ left \in [Perturbations -> Nat]
  BY DEF ViewInvariant, RunnerInvariant, RunnerTypeOK
<1>2. ~Spend("user") /\ ~Spend("timeout")
  BY <1>1 DEF Spend, Perturbations
<1>3. ASSUME NEW r \in Requests, HandlerStep(r) PROVE Undisturbed'
  BY <1>1, <1>3, HandlerUndisturbed
<1>4. ASSUME NEW r \in Requests, ClientStep(r) \/ WorkerKilled(r) PROVE Undisturbed'
  <2>1. SetJobPending(r) \/ WorkerKilled(r)
    BY <1>2, <1>4 DEF ClientStep, ClientTimeout, ConnectionError
  <2> QED BY <1>1, <2>1, ClientUndisturbed
<1>5. ASSUME NEW u \in Uuids, CreateJob(u) \/ Requeue(u) \/ ButtonDone(u) \/ Autovacuum(u)
      PROVE  Undisturbed'
  <2>1. CreateJob(u) \/ Autovacuum(u)
    BY <1>2, <1>5 DEF Requeue, ButtonDone
  <2> QED BY <1>1, <2>1, CreatedUndisturbed
<1>6. CASE Outside
  BY <1>1, <1>4, <1>5, <1>6, DisconnectedUndisturbed DEF Outside
<1>7. CASE Listen \/ Loaded \/ WaitNotification \/ Poll \/ SelectTimeout \/ Tick \/ UNCHANGED vars
  <2>1. UNCHANGED <<row, commits, req, jobs, queue, running, selected>>
    BY <1>7 DEF Listen, Loaded, WaitNotification, Poll, SelectTimeout, Tick, vars, chvars,
                runnervars
  <2>2. CASE UNCHANGED <<pc, cur>>
    <3>1. /\ RequestsInStep' /\ RowsInStep' /\ QueuesInStep' /\ SelectedInStep'
          /\ CurrentInStep' /\ PlacesInStep'
      BY <2>1, <2>2 DEF Undisturbed, RequestsInStep, RowsInStep, QueuesInStep, SelectedInStep,
            CurrentInStep, PlacesInStep, Active, InStep, RowInStep, Waits, Occupies, Counted, Exists
    <3>2. WithinCapacity'
      BY <1>1, <2>1, CapacityKept DEF Undisturbed, Held, Occupying, Occupies, Exists
    <3> QED BY <3>1, <3>2 DEF Undisturbed
  <2>3. CASE ~UNCHANGED <<pc, cur>>
    <3>1. /\ pc' \notin {"sending", "requesting"}
          /\ pc \in {"starting", "listening"} => pc' \in {"starting", "listening"}
      BY <1>7, <2>3 DEF Listen, Loaded, WaitNotification, Poll, SelectTimeout, Tick, vars,
                        runnervars
    <3> QED BY <1>1, <2>1, <3>1, PlacesKept
  <2> QED BY <2>2, <2>3
<1>8. CASE RunnerStep
  BY <1>7, <1>8, SelectUndisturbed, LoadUndisturbed, SchedulingUndisturbed, SendingUndisturbed
     DEF RunnerStep
<1> QED BY <1>3, <1>4, <1>6, <1>7, <1>8 DEF Next

\* Nothing has happened yet if nothing has happened after a step.
LEMMA CalmBefore ==
    ASSUME CalmInvariant, [Next]_vars, Calm'
    PROVE  Calm /\ UNCHANGED <<left["user"], left["timeout"]>>
<1>1. RunnerInvariant /\ RunnerInvariant'
  BY NextTyped DEF CalmInvariant, RestInvariant, ViewInvariant
<1> SUFFICES ASSUME NEW kind \in {"user", "timeout"}
             PROVE  ~Happened(kind) /\ left'[kind] = left[kind]
  BY DEF Calm
<1>2. kind \in Perturbations
  BY DEF Perturbations
<1>3. left'[kind] <= left[kind] /\ left[kind] <= Allowance[kind] /\ ~(left'[kind] < Allowance[kind])
  BY <1>1, <1>2, LeftDecreases DEF CalmInvariant, Calm, Happened
<1>4. left[kind] \in Nat /\ left'[kind] \in Nat /\ Allowance[kind] \in Nat
  BY <1>1, <1>2, RunnerAssumption DEF RunnerInvariant, RunnerTypeOK
<1> QED BY <1>3, <1>4 DEF Happened

LEMMA NextCalm == CalmInvariant /\ [Next]_vars => CalmInvariant'
<1> SUFFICES ASSUME CalmInvariant, [Next]_vars PROVE CalmInvariant'
  OBVIOUS
<1>1. RestInvariant' /\ ViewInvariant /\ RunnerInvariant /\ RunnerInvariant'
  BY NextRest DEF CalmInvariant, RestInvariant, ViewInvariant
<1>2. ASSUME NEW kind \in Perturbations PROVE left'[kind] <= Allowance[kind]
  <2>1. left'[kind] <= left[kind] /\ left[kind] <= Allowance[kind]
    BY <1>1, LeftDecreases DEF CalmInvariant
  <2>2. left[kind] \in Nat /\ left'[kind] \in Nat /\ Allowance[kind] \in Nat
    BY <1>1, RunnerAssumption DEF RunnerInvariant, RunnerTypeOK
  <2> QED BY <2>1, <2>2
<1>3. Calm' => Undisturbed'
  BY <1>1, CalmBefore, NextUndisturbed DEF CalmInvariant
<1> QED BY <1>1, <1>2, <1>3 DEF CalmInvariant

LEMMA InitCalm == Init => CalmInvariant
<1> SUFFICES ASSUME Init PROVE CalmInvariant
  OBVIOUS
<1>1. RestInvariant
  BY InitView DEF Init, ChannelsInit, RestInvariant, DrainedBlocked
<1>2. /\ \A u \in Uuids : ~Exists(u) /\ row[u] = NotCreated /\ commits[u] = 0
      /\ \A r \in Requests : ~Active(r)
      /\ \A u \in Uuids : jobs[u] = NoJob
      /\ \A c \in Channels : queue[c] = {} /\ running[c] = {}
      /\ DOMAIN selected = {} /\ pc = "starting" /\ left = Allowance
  BY DEF Init, ChannelsInit, NoRows, Exists, Active
<1>3. /\ RequestsInStep /\ RowsInStep /\ QueuesInStep /\ SelectedInStep /\ CurrentInStep
      /\ PlacesInStep
  BY <1>2 DEF RequestsInStep, RowsInStep, RowInStep, QueuesInStep, SelectedInStep, CurrentInStep,
              PlacesInStep
<1>4. WithinCapacity
  <2> SUFFICES ASSUME NEW c \in Channels
               PROVE  /\ Cardinality(Held(c)) <= Capacity[c]
                      /\ Cardinality(Occupying(c)) <= Capacity[c]
    BY DEF WithinCapacity
  <2>1. Held(c) = {} /\ Occupying(c) = {}
    BY <1>2 DEF Held, Occupying, Occupies
  <2>2. Capacity[c] \in Nat
    BY ConfigAssumption
  <2> QED BY <2>1, <2>2, FS_EmptySet
<1>5. \A kind \in Perturbations : left[kind] <= Allowance[kind]
  BY <1>2, RunnerAssumption
<1> QED BY <1>1, <1>3, <1>4, <1>5 DEF CalmInvariant, Undisturbed

\* Until a user requeues a job, sets it to done, or a request times out, no
\* channel has more handlers at work than its capacity, whatever crashes and
\* restarts of the runner and the handlers there are: the places of the tree,
\* refilled from the rows at each start, always cover the handlers.
THEOREM CapacityHeld == Spec => [](Calm => CapacityRespected)
<1>1. CalmInvariant => (Calm => CapacityRespected)
  <2> SUFFICES ASSUME CalmInvariant, Calm, NEW c \in Channels, Capacity[c] # 0
               PROVE  Cardinality(RunningIn(c)) <= Capacity[c]
    BY DEF CapacityRespected
  <2>1. Undisturbed /\ RunnerInvariant
    BY DEF CalmInvariant, RestInvariant, ViewInvariant
  <2>2. ASSUME NEW r \in RunningIn(c) PROVE req[r].job \in Occupying(c)
    <3>1. /\ Active(r) /\ InStep(r) /\ req[r].server \in {"loaded", "started"}
          /\ c \in Path[ChannelOf[req[r].job]]
      BY <2>1, <2>2 DEF RunningIn, Undisturbed, RequestsInStep
    <3>2. req[r].job \in Uuids
      BY <2>1, <2>2, <3>1 DEF RunningIn, RunnerInvariant, RunnerTypeOK, RequestsOK, Active, Request
    <3> QED BY <3>1, <3>2 DEF InStep, Occupying, Occupies
  <2>3. [r \in RunningIn(c) |-> req[r].job] \in Injection(RunningIn(c), Occupying(c))
    BY <2>1, <2>2 DEF RunningIn, Undisturbed, RequestsInStep, Injection, IsInjective
  <2>4. IsFiniteSet(Occupying(c)) /\ Cardinality(Occupying(c)) <= Capacity[c]
    <3>1. Occupying(c) \in SUBSET Uuids
      BY DEF Occupying
    <3> QED BY <2>1, <3>1, RunnerAssumption, FS_Subset DEF Undisturbed, WithinCapacity
  <2>5. IsFiniteSet(RunningIn(c)) /\ Cardinality(RunningIn(c)) <= Cardinality(Occupying(c))
    BY <2>3, <2>4, FS_Injection
  <2>6. /\ Cardinality(Occupying(c)) \in Nat /\ Cardinality(RunningIn(c)) \in Nat
        /\ Capacity[c] \in Nat
    BY <2>4, <2>5, FS_CardinalityType, ConfigAssumption
  <2> QED BY <2>4, <2>5, <2>6
<1> QED BY <1>1, InitCalm, NextCalm, PTL DEF Spec

\* Until then the effects of a job are committed at most once: a started job
\* whose handler is killed, or whose server crashes, is not put back.
THEOREM CommittedUntilUsersAct == Spec => [](Calm => CommittedOnce)
<1>1. CalmInvariant => (Calm => CommittedOnce)
  BY DEF CalmInvariant, Undisturbed, RowsInStep, RowInStep, CommittedOnce, RestInvariant,
         ViewInvariant, RunnerInvariant, RunnerTypeOK
<1> QED BY <1>1, InitCalm, NextCalm, PTL DEF Spec

-----------------------------------------------------------------------------
(* The job queue                                                           *)

\* What the status of a job says of its row
LEMMA StatusOfRow ==
    ASSUME NEW u \in Uuids, row[u] \in Row \cup {NotCreated, Deleted}
    PROVE  /\ row[u] = NotCreated <=> StatusOf(u) = "absent"
           /\ row[u] = Deleted <=> StatusOf(u) = "deleted"
           /\ Exists(u) /\ row[u].state = PENDING <=> StatusOf(u) = "waiting"
           /\ Exists(u) /\ row[u].state = ENQUEUED <=> StatusOf(u) = "enqueued"
           /\ Exists(u) /\ row[u].state = STARTED <=> StatusOf(u) = "running"
           /\ Exists(u) /\ row[u].state = DONE <=> StatusOf(u) = "done"
           /\ Exists(u) /\ row[u].state = FAILED <=> StatusOf(u) = "failed"
<1>1. Exists(u) => row[u].state \in States
  BY DEF Exists, Row
<1>2. NotCreated # Deleted
  BY DistinctAssumption
<1> QED BY <1>1, <1>2 DEF StatusOf, Exists, States, PENDING, ENQUEUED, STARTED, DONE, FAILED

LEMMA StatusAfter ==
    ASSUME NEW u \in Uuids, row'[u] \in Row
    PROVE  /\ row'[u].state = PENDING => StatusOf(u)' = "waiting"
           /\ row'[u].state = ENQUEUED => StatusOf(u)' = "enqueued"
           /\ row'[u].state = STARTED => StatusOf(u)' = "running"
           /\ row'[u].state = DONE => StatusOf(u)' = "done"
           /\ row'[u].state = FAILED => StatusOf(u)' = "failed"
BY DistinctAssumption DEF StatusOf, Exists, PENDING, ENQUEUED, STARTED, DONE, FAILED

\* The rows of the other jobs stay as they are.
LEMMA StatusChanges ==
    ASSUME NEW u \in Uuids, \A w \in Uuids : w # u => row'[w] = row[w]
    PROVE  /\ Queue!Become(u, StatusOf(u), StatusOf(u)')
           /\ row'[u] = row[u] => Status' = Status
<1>1. \A w \in Uuids : w # u => StatusOf(w)' = StatusOf(w)
  BY DEF StatusOf, Exists
<1>2. row'[u] = row[u] => StatusOf(u)' = StatusOf(u)
  BY DEF StatusOf, Exists
<1> QED BY <1>1, <1>2 DEF Queue!Become, Status

LEMMA RowsStay ==
    ASSUME row' = row PROVE Status' = Status
BY DEF Status, StatusOf, Exists

\* The cardinality of module JobQueue is the cardinality.
LEMMA SameCardinality == ASSUME NEW S PROVE Queue!Cardinality(S) = Cardinality(S)
BY DEF Queue!Cardinality, Cardinality

\* The job that the tree lets go has room in all its channels.
LEMMA EnqueuedHasRoom ==
    ASSUME Undisturbed, RunnerInvariant, DOMAIN selected = {}, pc = "sending",
           NEW u \in Uuids, Waits(u), Counted(u)
    PROVE  \A c \in Path[ChannelOf[u]] : Queue!HasRoom(c)
<1> SUFFICES ASSUME NEW c \in Path[ChannelOf[u]], Capacity[c] # 0
             PROVE  Cardinality(Queue!Occupants(c)) < Capacity[c]
  BY SameCardinality DEF Queue!HasRoom
<1>1. c \in Channels
  BY RunnerAssumption, OwnPath
<1>2. \A w \in Uuids : row[w] \in Row \cup {NotCreated, Deleted}
  BY DEF RunnerInvariant, RunnerTypeOK
<1>3. ASSUME NEW w \in Queue!Occupants(c) PROVE w \in Held(c) /\ w # u
  <2>1. w \in Uuids /\ c \in Path[ChannelOf[w]] /\ StatusOf(w) \in {"enqueued", "running"}
    BY <1>3 DEF Queue!Occupants, Status
  <2>2. Occupies(w)
    BY <1>2, <2>1, StatusOfRow DEF Occupies
  <2>3. Counted(w) /\ w # u
    BY <2>1, <2>2 DEF Undisturbed, PlacesInStep, Waits, Occupies, PENDING, ENQUEUED, STARTED
  <2> QED BY <2>1, <2>3 DEF Counted, Held
<1>4. u \in Held(c)
  BY DEF Counted, Held
<1>5. /\ IsFiniteSet(Held(c)) /\ Cardinality(Held(c)) <= Capacity[c] /\ Capacity[c] \in Nat
  BY <1>1, HeldAreRunning, ConfigAssumption DEF Undisturbed, WithinCapacity
<1>6. /\ IsFiniteSet(Held(c) \ {u}) /\ Cardinality(Held(c) \ {u}) = Cardinality(Held(c)) - 1
  BY <1>4, <1>5, FS_RemoveElement
<1>7. Queue!Occupants(c) \subseteq Held(c) \ {u}
  BY <1>3
<1>8. /\ IsFiniteSet(Queue!Occupants(c))
      /\ Cardinality(Queue!Occupants(c)) <= Cardinality(Held(c) \ {u})
  BY <1>6, <1>7, FS_Subset
<1>9. /\ Cardinality(Held(c)) \in Nat /\ Cardinality(Queue!Occupants(c)) \in Nat
      /\ Cardinality(Held(c) \ {u}) \in Nat
  BY <1>5, <1>6, <1>8, FS_CardinalityType
<1> QED BY <1>5, <1>6, <1>8, <1>9

LEMMA HandlerImplements ==
    ASSUME Undisturbed, RunnerInvariant, NEW r \in Requests, HandlerStep(r)
    PROVE  Queue!Next \/ UNCHANGED Status
<1>1. /\ SharedTypes /\ now \in Nat /\ Active(r)
      /\ \A w \in Uuids : row[w] \in Row \cup {NotCreated, Deleted}
  BY DEF RunnerInvariant, RunnerTypeOK, SharedTypes, HandlerStep, LoadForRun, SetStarted, JobDone,
         RowChanged, OtherConflict, ConcurrencyError, RetryableError, NothingToDo, JobFailed,
         PostponeRefused, StartRefused, OutcomeLost, Performing
<1>2. PICK u : u = req[r].job
  OBVIOUS
<1>3. /\ u \in Uuids /\ InStep(r) /\ ~req[r].stale
      /\ row \in [Uuids -> Row \cup {NotCreated, Deleted}]
  BY <1>1, <1>2 DEF SharedTypes, RequestsOK, Active, Request, Undisturbed, RequestsInStep, InStep
<1>4. CASE LoadForRun(r) \/ OutcomeLost(r)
  BY <1>4, RowsStay DEF LoadForRun, OutcomeLost
<1>5. ASSUME NEW v \in Row, Store(u, v) PROVE Queue!Become(u, StatusOf(u), StatusOf(u)')
                                              /\ Exists(u)' /\ row'[u].state = v.state
                                              /\ row'[u] \in Row
  BY <1>3, <1>5, StoreRow, StatusChanges, DistinctAssumption DEF Exists
<1>6. CASE SetStarted(r)
  <2> DEFINE v == [req[r].copy EXCEPT !.state = STARTED]
  <2>1. Store(u, v) /\ req[r].server = "loaded"
    BY <1>2, <1>6 DEF SetStarted
  <2>2. v \in Row /\ v.state = STARTED
    BY <1>1, <2>1, JobObject DEF Row, States
  <2> HIDE DEF v
  <2>3. row[u].state = ENQUEUED /\ Exists(u)
    BY <1>2, <1>3, <2>1 DEF InStep
  <2>4. /\ StatusOf(u) = "enqueued" /\ StatusOf(u)' = "running"
        /\ Queue!Become(u, StatusOf(u), StatusOf(u)')
    BY <1>1, <1>3, <1>5, <2>1, <2>2, <2>3, StatusOfRow, StatusAfter
  <2> QED BY <1>3, <2>4 DEF Queue!Next, Queue!Run
<1>7. ASSUME NEW v, Outcome(r, v) PROVE Queue!Next
  <2>1. Store(u, v) /\ v \in Row /\ v.state \in {PENDING, DONE, FAILED} /\ req[r].server = "started"
    BY <1>2, <1>3, <1>7 DEF Outcome, Finish
  <2>2. row[u].state = STARTED /\ Exists(u)
    BY <1>2, <1>3, <2>1 DEF InStep
  <2>3. StatusOf(u) = "running" /\ StatusOf(u)' \in {"waiting", "done", "failed"}
        /\ Queue!Become(u, StatusOf(u), StatusOf(u)')
    BY <1>1, <1>3, <1>5, <2>1, <2>2, StatusOfRow, StatusAfter
  <2> QED BY <1>3, <2>3 DEF Queue!Next, Queue!Finish
<1> QED BY <1>1, <1>4, <1>6, <1>7, HandlerOutcome

LEMMA OthersImplement ==
    ASSUME Undisturbed, ViewInvariant, RunnerInvariant',
           \/ SetJobEnqueued
           \/ \E r \in Requests : SetJobPending(r)
           \/ \E u \in Uuids : CreateJob(u) \/ Autovacuum(u)
    PROVE  Queue!Next \/ UNCHANGED Status
<1>1. /\ RunnerInvariant /\ RunnerInvariant'
      /\ row \in [Uuids -> Row \cup {NotCreated, Deleted}]
      /\ row' \in [Uuids -> Row \cup {NotCreated, Deleted}]
      /\ \A w \in Uuids : row[w] \in Row \cup {NotCreated, Deleted}
      /\ \A w \in Uuids : row'[w] \in Row \cup {NotCreated, Deleted}
  BY DEF ViewInvariant, RunnerInvariant, RunnerTypeOK
<1>2. CASE SetJobEnqueued
  <2>1. PICK u : u = cur
    OBVIOUS
  <2>2. /\ u \in Uuids /\ DOMAIN selected = {} /\ pc = "sending" /\ Waits(u) /\ Counted(u)
        /\ row' = [row EXCEPT ![u].state = ENQUEUED]
    BY <1>1, <1>2, <2>1 DEF SetJobEnqueued, ViewInvariant, RunnerInvariant, RunnerTypeOK,
                            Undisturbed,
                            CurrentInStep, Waits
  <2>3. row[u] \in Row
    BY <1>1, <2>2, ExistingRow DEF Waits
  <2>4. /\ \A w \in Uuids : w # u => row'[w] = row[w]
        /\ row'[u] = [row[u] EXCEPT !.state = ENQUEUED]
    BY <1>1, <2>2
  <2>5. row'[u] \in Row /\ row'[u].state = ENQUEUED
    BY <2>3, <2>4 DEF Row, States
  <2>6. Exists(u)'
    BY <2>5, DistinctAssumption DEF Exists
  <2>7. /\ StatusOf(u) = "waiting" /\ StatusOf(u)' = "enqueued"
        /\ Queue!Become(u, StatusOf(u), StatusOf(u)')
    BY <1>1, <2>2, <2>4, <2>5, <2>6, StatusOfRow, StatusAfter, StatusChanges DEF Waits
  <2>8. \A c \in Path[ChannelOf[u]] : Queue!HasRoom(c)
    BY <1>1, <2>2, EnqueuedHasRoom
  <2> QED BY <2>2, <2>7, <2>8 DEF Queue!Next, Queue!Enqueue
<1>3. ASSUME NEW r \in Requests, SetJobPending(r)
      PROVE  Queue!Next \/ UNCHANGED Status
  <2>1. PICK u : u = req[r].job
    OBVIOUS
  <2>2. u \in Uuids
    BY <1>1, <1>3, <2>1 DEF SetJobPending, RunnerInvariant, RunnerTypeOK, RequestsOK, Active,
                            Request
  <2>3. \/ row' = row
        \/ /\ Exists(u) /\ row[u].state = ENQUEUED /\ row' = [row EXCEPT ![u].state = PENDING]
    BY <1>3, <2>1 DEF SetJobPending
  <2>4. CASE row' = row
    BY <2>4, RowsStay
  <2>5. CASE Exists(u) /\ row[u].state = ENQUEUED /\ row' = [row EXCEPT ![u].state = PENDING]
    <3>1. row[u] \in Row
      BY <1>1, <2>2, <2>5, ExistingRow
    <3>2. /\ \A w \in Uuids : w # u => row'[w] = row[w]
          /\ row'[u] = [row[u] EXCEPT !.state = PENDING]
      BY <1>1, <2>2, <2>5
    <3>3. row'[u] \in Row /\ row'[u].state = PENDING
      BY <3>1, <3>2 DEF Row, States
    <3>4. Exists(u)'
      BY <3>3, DistinctAssumption DEF Exists
    <3>5. /\ StatusOf(u) = "enqueued" /\ StatusOf(u)' = "waiting"
          /\ Queue!Become(u, StatusOf(u), StatusOf(u)')
      BY <1>1, <2>2, <2>5, <3>2, <3>3, <3>4, StatusOfRow, StatusAfter, StatusChanges
    <3> QED BY <2>2, <3>5 DEF Queue!Next, Queue!GiveBack
  <2> QED BY <2>3, <2>4, <2>5
<1>4. ASSUME NEW u \in Uuids, Autovacuum(u) PROVE Queue!Next
  <2>1. Exists(u) /\ row[u].date_done /\ row' = [row EXCEPT ![u] = Deleted]
    BY <1>4 DEF Autovacuum
  <2>2. row[u].state = DONE
    BY <2>1 DEF Undisturbed, RowsInStep, RowInStep
  <2>3. row'[u] = Deleted /\ \A w \in Uuids : w # u => row'[w] = row[w]
    BY <1>1, <2>1
  <2>4. StatusOf(u)' = "deleted"
    BY <2>3, DistinctAssumption DEF StatusOf, Exists
  <2>5. StatusOf(u) = "done" /\ Queue!Become(u, StatusOf(u), StatusOf(u)')
    BY <1>1, <2>1, <2>2, <2>3, StatusOfRow, StatusChanges
  <2> QED BY <2>4, <2>5 DEF Queue!Next, Queue!Forget
<1>5. ASSUME NEW u \in Uuids, CreateJob(u) PROVE Queue!Next
  <2>1. PICK e \in {NoEta} \cup (IF now < MaxTime THEN {now + 1} ELSE {}) :
            Store(u, [state |-> PENDING, retry |-> 0, eta |-> e,
                      date_done |-> FALSE, active |-> TRUE])
    BY <1>5 DEF CreateJob
  <2>2. e \in Nat
    BY <1>1 DEF NoEta, RunnerInvariant, RunnerTypeOK
  <2>3. [state |-> PENDING, retry |-> 0, eta |-> e, date_done |-> FALSE, active |-> TRUE] \in Row
    BY <2>2 DEF Row, States
  <2>4. /\ row'[u] \in Row /\ row'[u].state = PENDING
        /\ \A w \in Uuids : w # u => row'[w] = row[w]
    BY <1>1, <2>1, <2>3, StoreRow
  <2>5. Exists(u)' /\ row[u] = NotCreated
    BY <1>5, <2>4, DistinctAssumption DEF Exists, CreateJob
  <2>6. /\ StatusOf(u) = "absent" /\ StatusOf(u)' = "waiting"
        /\ Queue!Become(u, StatusOf(u), StatusOf(u)')
    BY <1>1, <2>4, <2>5, StatusOfRow, StatusAfter, StatusChanges
  <2> QED BY <2>6 DEF Queue!Next, Queue!Submit
<1> QED BY <1>2, <1>3, <1>4, <1>5

LEMMA NextImplements ==
    ASSUME CalmInvariant, [Next]_vars, Calm, Calm'
    PROVE  Queue!Next \/ UNCHANGED Status
<1>1. /\ Undisturbed /\ ViewInvariant /\ RunnerInvariant /\ RunnerInvariant'
      /\ UNCHANGED <<left["user"], left["timeout"]>>
  BY NextTyped, CalmBefore DEF CalmInvariant, RestInvariant, ViewInvariant
<1>2. ~Spend("user") /\ ~Spend("timeout")
  BY <1>1 DEF Spend, Perturbations, RunnerInvariant, RunnerTypeOK
<1>3. CASE row' = row
  BY <1>3, RowsStay
<1>4. ASSUME NEW r \in Requests, HandlerStep(r) \/ ClientStep(r)
      PROVE  Queue!Next \/ UNCHANGED Status
  BY <1>1, <1>2, <1>4, HandlerImplements, OthersImplement DEF ClientStep, ClientTimeout,
                                                              ConnectionError
<1>5. CASE RunnerStep
  <2>1. SetJobEnqueued \/ row' = row
    BY <1>5 DEF RunnerStep, Listen, SelectJobs, LoadJob, Loaded, ProcessNotification, StartRunJobs,
         Flow, NextJob, AsyncHttpGet, EndRunJobs, WaitNotification, Poll, SelectTimeout
  <2> QED BY <1>1, <1>3, <2>1, OthersImplement
<1>6. CASE Outside
  <2>1. (\E u \in Uuids : CreateJob(u) \/ Autovacuum(u)) \/ row' = row
    BY <1>2, <1>6 DEF Outside, Requeue, ButtonDone, RunnerException, Crash, WorkerKilled
  <2> QED BY <1>1, <1>3, <2>1, OthersImplement
<1>7. CASE Tick \/ UNCHANGED vars
  BY <1>3, <1>7 DEF Tick, vars
<1> QED BY <1>4, <1>5, <1>6, <1>7 DEF Next

\* The runner, the controller, the storage, the crons and the crashes together
\* implement the job queue of module JobQueue as long as neither users nor
\* timeouts interfere: a job that waits is enqueued when all its channels have
\* room, and is started once for each time it is enqueued.
THEOREM RunnerIsQueue == Spec /\ []Calm => ImplementsQueue
<1>1. Init => Queue!Init
  <2> SUFFICES ASSUME Init PROVE Queue!Init
    OBVIOUS
  <2>1. \A u \in Uuids : row[u] = NotCreated
    BY DEF Init
  <2>2. \A u \in Uuids : StatusOf(u) = "absent"
    BY <2>1, StatusOfRow
  <2> QED BY <2>2 DEF Queue!Init, Status
<1>2. CalmInvariant /\ [Next]_vars /\ Calm /\ Calm' => [Queue!Next]_Status
  BY NextImplements
<1> QED BY <1>1, <1>2, InitCalm, NextCalm, PTL DEF Spec, ImplementsQueue, Queue!Spec

=============================================================================
