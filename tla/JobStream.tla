----------------------------- MODULE JobStream -----------------------------
(***************************************************************************)
(* The SRG_JOBS stream and its one durable consumer "srg-workers", as the  *)
(* worker processes use it (worker/worker.py: ConsumerConfig and the       *)
(* receive loop).  The server side of JetStream is not in the repository;  *)
(* it is modelled from the options the worker passes.                      *)
(*                                                                         *)
(* A push consumer sends a message to one member of the queue group as     *)
(* soon as fewer than max_ack_pending messages are unacknowledged.  The    *)
(* message then sits in that worker's local buffer until its sequential    *)
(* loop takes it, while the server's ack_wait timer already runs.  When    *)
(* the timer fires, or the worker naks, the message is delivered again,    *)
(* at most max_deliver times in all.                                       *)
(*                                                                         *)
(* Modules that describe a handler extend this one and conjoin their       *)
(* actions with Take, Ack, Nak and Crash.                                  *)
(***************************************************************************)
EXTENDS Naturals, FiniteSets

CONSTANTS
    Workers,        \* worker processes of the queue group
    Tasks,          \* messages that may be published to the stream
    MaxDeliver,     \* ConsumerConfig.max_deliver (3 in the code)
    MaxAckPending,  \* ConsumerConfig.max_ack_pending (10 in the code)
    QueueWait,      \* may ack_wait run out for a task queued behind another?
    None            \* no worker, or no task

ASSUME StreamAssumption ==
    /\ IsFiniteSet(Tasks) /\ IsFiniteSet(Workers)
    /\ MaxDeliver \in Nat \ {0}
    /\ MaxAckPending \in Nat \ {0}
    /\ QueueWait \in BOOLEAN
    /\ None \notin Tasks
    /\ None \notin Workers

VARIABLES
    stored,     \* tasks the stream holds
    deliveries, \* how often the consumer has delivered each task
    unacked,    \* tasks delivered whose ack_wait timer runs
    holder,     \* who got the latest delivery
    late,       \* tasks whose latest delivery waited for another to end
    acked,      \* tasks acknowledged
    inbox,      \* copies of each task in each worker's local buffer
    task        \* the task each worker's loop is handling

streamVars == <<stored, deliveries, unacked, holder, late, acked, inbox, task>>

\* Messages and inboxes are in the states the queue allows; a message is delivered
\* max_deliver times at most.
StreamTypeOK ==
    /\ stored \in SUBSET Tasks
    /\ deliveries \in [Tasks -> 0 .. MaxDeliver]
    /\ unacked \in SUBSET Tasks
    /\ holder \in [Tasks -> Workers \cup {None}]
    /\ late \in SUBSET Tasks
    /\ acked \in SUBSET Tasks
    /\ inbox \in [Workers -> [Tasks -> Nat]]
    /\ task \in [Workers -> Tasks \cup {None}]

StreamInit ==
    /\ stored = {}
    /\ deliveries = [m \in Tasks |-> 0]
    /\ unacked = {}
    /\ holder = [m \in Tasks |-> None]
    /\ late = {}
    /\ acked = {}
    /\ inbox = [w \in Workers |-> [m \in Tasks |-> 0]]
    /\ task = [w \in Workers |-> None]

Busy(w) == task[w] # None \/ \E m \in Tasks : inbox[w][m] > 0

\* Tasks whose latest delivery still waits in w's buffer.
Waiting(w) == {m \in Tasks : inbox[w][m] > 0 /\ holder[m] = w}

Holds(w, m) == task[w] = m \/ inbox[w][m] > 0

----------------------------------------------------------------------------
(***************************************************************************)
(* The server.                                                             *)
(***************************************************************************)

\* js.publish: the task is in the stream and may be delivered.
Store(m) == stored' = stored \cup {m}

\* Mutant: max_deliver is not enforced.
Deliverable_NoLimit(m) ==
    /\ m \in stored \ (unacked \cup acked)
    /\ Cardinality(unacked) < MaxAckPending

\* Mutant: a task is never delivered again.
Deliverable_Once(m) ==
    /\ m \in stored \ (unacked \cup acked)
    /\ deliveries[m] = 0
    /\ Cardinality(unacked) < MaxAckPending

Deliverable(m) ==
    /\ m \in stored \ (unacked \cup acked)
    /\ deliveries[m] < MaxDeliver
    /\ Cardinality(unacked) < MaxAckPending

\* The server pushes m to worker w, which buffers it.
Deliver(w, m) ==
    /\ Deliverable(m)
    /\ deliveries' = [deliveries EXCEPT ![m] = @ + 1]
    /\ unacked' = unacked \cup {m}
    /\ holder' = [holder EXCEPT ![m] = w]
    /\ late' = late \ {m}
    /\ inbox' = [inbox EXCEPT ![w][m] = @ + 1]
    /\ UNCHANGED <<stored, acked, task>>

\* ack_wait runs out: always when the worker that got m lost it; otherwise
\* only for a task that first waited until another one ended, because
\* ack_wait (10 min) is longer than one scrape (5-6 min) but not than two.
AckWaitExpires(m) ==
    /\ m \in unacked
    /\ ~Holds(holder[m], m) \/ (QueueWait /\ m \in late)
    /\ unacked' = unacked \ {m}
    /\ UNCHANGED <<stored, deliveries, holder, late, acked, inbox, task>>

----------------------------------------------------------------------------
(***************************************************************************)
(* The worker's receive loop.                                              *)
(***************************************************************************)

\* The loop takes the next message from its buffer.
Take(w, m) ==
    /\ task[w] = None
    /\ inbox[w][m] > 0
    /\ inbox' = [inbox EXCEPT ![w][m] = @ - 1]
    /\ task' = [task EXCEPT ![w] = m]
    /\ UNCHANGED <<stored, deliveries, unacked, holder, late, acked>>

\* The handler returned: msg.ack().
Ack(w) ==
    /\ task[w] # None
    /\ acked' = acked \cup {task[w]}
    /\ unacked' = unacked \ {task[w]}
    /\ task' = [task EXCEPT ![w] = None]
    /\ late' = late \cup Waiting(w)
    /\ UNCHANGED <<stored, deliveries, holder, inbox>>

\* The handler raised: msg.nak(), the task may be delivered again at once.
Nak(w) ==
    /\ task[w] # None
    /\ unacked' = unacked \ {task[w]}
    /\ task' = [task EXCEPT ![w] = None]
    /\ late' = late \cup Waiting(w)
    /\ UNCHANGED <<stored, deliveries, holder, acked, inbox>>

\* The handler published m, but the confirmation did not arrive and it raised.
StoreThenNak(w, m) ==
    /\ task[w] # None
    /\ Store(m)
    /\ unacked' = unacked \ {task[w]}
    /\ task' = [task EXCEPT ![w] = None]
    /\ late' = late \cup Waiting(w)
    /\ UNCHANGED <<deliveries, holder, acked, inbox>>

\* The process dies or is stopped in mid-handler: neither ack nor nak is
\* sent, and what it had buffered waits for ack_wait.
Crash(w) ==
    /\ Busy(w)
    /\ inbox' = [inbox EXCEPT ![w] = [m \in Tasks |-> 0]]
    /\ task' = [task EXCEPT ![w] = None]
    /\ UNCHANGED <<stored, deliveries, unacked, holder, late, acked>>

============================================================================
