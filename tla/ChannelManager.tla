--------------------------- MODULE ChannelManager ---------------------------
(***************************************************************************)
(* The channel tree on its own, driven by any sequence of calls the runner *)
(* can make: a notification for a job in any state, the removal of a job,  *)
(* the removal of a database and the consumption of get_jobs_to_run.       *)
(*                                                                         *)
(* Rows can really be found in any state, in any order: users requeue jobs *)
(* and set them to done, edit their priority and eta, move their function  *)
(* to another channel, and a runner that (re)starts reads whatever is in   *)
(* the database.                                                           *)
(***************************************************************************)
EXTENDS Channels

CONSTANTS
    Objects,    \* the scheduling properties rows may have
    Times       \* the values of "now"

ASSUME EnvironmentAssumption == Objects \subseteq ChannelJob /\ Times \subseteq Nat

VARIABLE told   \* told[u]: the last state notified for u, DONE when removed

managerVars == <<chvars, told>>

ManagerInit == ChannelsInit /\ told = [u \in Uuids |-> DONE]

NotifyRow(o, state) ==
    /\ Notify(o, state)
    /\ told' = [told EXCEPT ![o.uuid] = state]

RowDeleted(u) ==
    /\ RemoveJob(u)
    /\ told' = [told EXCEPT ![u] = DONE]

DatabaseClosed ==
    /\ RemoveDb
    /\ told' = [u \in Uuids |-> DONE]

Consume ==
    /\ \/ \E now \in Times : now >= asof /\ GetJobsToRun(now)
       \/ \E c \in Channels : PassDown(c)
       \/ \E o \in queue[Root] : YieldToRunner(o)
       \/ \E c \in Channels : Exhausted(c)
    /\ UNCHANGED told

ManagerNext ==
    \/ \E o \in Objects, state \in States : NotifyRow(o, state)
    \/ \E u \in Uuids : RowDeleted(u)
    \/ DatabaseClosed
    \/ Consume

ManagerSpec == ManagerInit /\ [][ManagerNext]_managerVars

-----------------------------------------------------------------------------
(* Properties                                                              *)

\* The tree holds a job where the last notified state demands: a pending job
\* waits or has been passed on, it is not lost; one that is enqueued or started
\* takes a place of its channel; a failed one is remembered by its channel; one
\* that is done or deleted is forgotten.
FollowsDatabase ==
    \A u \in Uuids :
        LET o == jobs[u]
        IN  /\ told[u] = DONE <=> o = NoJob
            /\ told[u] = PENDING => o \in queue[o.chan] \cup running[o.chan]
            /\ told[u] \in {ENQUEUED, STARTED} => o \in running[o.chan]
            /\ told[u] = FAILED => o \in failed[o.chan]

\* When get_jobs_to_run returns, no channel has both a free place and a job
\* that could take it: the generators of the children ran before their
\* parent's loop, so one call lets every job advance as far as it can.
NoIdleCapacity ==
    [][gen = "active" /\ gen' = "idle" /\ jobs' = jobs
          => \A c \in Channels : ~CanYield(c, asof)]_managerVars

=============================================================================
