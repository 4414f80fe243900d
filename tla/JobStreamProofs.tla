-------------------------- MODULE JobStreamProofs --------------------------
(***************************************************************************)
(* What is proved of the queue alone, for the proofs about its handlers.   *)
(***************************************************************************)
EXTENDS JobStream, FiniteSetTheorems, TLAPS

\* StreamTypeOK is kept by each action of the server and of the receive loop.
LEMMA StreamTypeStep ==
    ASSUME StreamTypeOK,
           NEW w \in Workers, NEW m \in Tasks,
           \/ Deliver(w, m) \/ AckWaitExpires(m) \/ Take(w, m)
           \/ Ack(w) \/ Nak(w) \/ Crash(w) \/ StoreThenNak(w, m) \/ UNCHANGED streamVars
    PROVE  StreamTypeOK'
<1> USE StreamAssumption DEF StreamTypeOK
<1>1. CASE Deliver(w, m)
  <2>1. deliveries'[m] \in 0 .. MaxDeliver
    BY <1>1 DEF Deliver, Deliverable
  <2>2. deliveries' \in [Tasks -> 0 .. MaxDeliver]
    BY <1>1, <2>1 DEF Deliver
  <2>3. QED
    BY <1>1, <2>2 DEF Deliver
<1>2. CASE AckWaitExpires(m)
  BY <1>2 DEF AckWaitExpires
<1>3. CASE Take(w, m)
  BY <1>3 DEF Take
<1>4. CASE Ack(w)
  BY <1>4 DEF Ack, Waiting
<1>5. CASE Nak(w)
  BY <1>5 DEF Nak, Waiting
<1>6. CASE Crash(w)
  BY <1>6 DEF Crash
<1>7. CASE UNCHANGED streamVars
  BY <1>7 DEF streamVars
<1>8. CASE StoreThenNak(w, m)
  BY <1>8 DEF StoreThenNak, Store, Waiting
<1>9. QED
  BY <1>1, <1>2, <1>3, <1>4, <1>5, <1>6, <1>7, <1>8

----------------------------------------------------------------------------
(***************************************************************************)
(* When a task is in one worker's hands at a time.                         *)
(***************************************************************************)

\* What exclusive handling asks of the deployment: an ack_wait longer than a
\* task may wait and run, or no more than one unacknowledged task.
NoEarlyExpiry == ~QueueWait \/ MaxAckPending = 1

\* A task some worker has, in its buffer or in its handler, is unacknowledged,
\* it is there once, and the worker is the one it was last delivered to.
HeldOnce ==
    \A w \in Workers, m \in Tasks :
        /\ Holds(w, m) => m \in unacked /\ holder[m] = w
        /\ inbox[w][m] <= (IF task[w] = m THEN 0 ELSE 1)

\* With max_ack_pending = 1 no task ever waits behind another.
OnePending == MaxAckPending = 1 => late = {} /\ \A m, n \in unacked : m = n

Exclusive == HeldOnce /\ OnePending

LEMMA ExclusiveInit == StreamTypeOK /\ StreamInit => Exclusive
BY StreamAssumption DEF StreamInit, Exclusive, HeldOnce, OnePending, Holds

LEMMA ExclusiveStep ==
    ASSUME StreamTypeOK, Exclusive, NoEarlyExpiry,
           NEW w \in Workers, NEW m \in Tasks,
           \/ Deliver(w, m) \/ AckWaitExpires(m) \/ Take(w, m)
           \/ Ack(w) \/ Nak(w) \/ Crash(w) \/ StoreThenNak(w, m)
           \/ UNCHANGED <<unacked, holder, late, inbox, task>>
    PROVE  Exclusive'
<1> USE StreamAssumption DEF StreamTypeOK, Exclusive, HeldOnce, OnePending, Holds
<1>1. CASE Deliver(w, m)
  <2>1. m \notin unacked /\ \A v \in Workers : ~Holds(v, m)
    BY <1>1 DEF Deliver, Deliverable
  <2>2. \A v \in Workers, n \in Tasks :
           inbox'[v][n] = IF v = w /\ n = m THEN inbox[v][n] + 1 ELSE inbox[v][n]
    BY <1>1 DEF Deliver
  <2>3. HeldOnce'
    BY <1>1, <2>1, <2>2 DEF Deliver
  <2>4. MaxAckPending = 1 => unacked = {}
    <3>1. IsFiniteSet(unacked) /\ Cardinality(unacked) \in Nat
      BY FS_Subset, FS_CardinalityType
    <3>2. MaxAckPending = 1 => Cardinality(unacked) = 0
      BY <1>1, <3>1 DEF Deliver, Deliverable
    <3>3. QED
      BY <3>1, <3>2, FS_EmptySet
  <2>5. OnePending'
    BY <1>1, <2>4 DEF Deliver
  <2>6. QED
    BY <2>3, <2>5
<1>2. CASE AckWaitExpires(m)
  <2>1. \A v \in Workers : ~Holds(v, m)
    BY <1>2 DEF AckWaitExpires, NoEarlyExpiry
  <2>2. QED
    BY <1>2, <2>1 DEF AckWaitExpires
<1>3. CASE Take(w, m)
  <2>1. /\ \A v \in Workers, n \in Tasks :
              inbox'[v][n] = IF v = w /\ n = m THEN inbox[v][n] - 1 ELSE inbox[v][n]
        /\ task' = [task EXCEPT ![w] = m]
    BY <1>3 DEF Take
  <2>2. inbox[w][m] = 1 /\ Holds(w, m) /\ task[w] = None
    BY <1>3 DEF Take
  <2>3. HeldOnce'
    BY <1>3, <2>1, <2>2 DEF Take
  <2>4. QED
    BY <1>3, <2>3 DEF Take
<1>4. CASE Ack(w) \/ Nak(w) \/ StoreThenNak(w, m)
  <2>1. /\ task[w] \in Tasks /\ unacked' = unacked \ {task[w]}
        /\ task' = [task EXCEPT ![w] = None] /\ UNCHANGED <<holder, inbox>>
        /\ late' = late \cup Waiting(w)
    BY <1>4 DEF Ack, Nak, StoreThenNak
  <2>2. \A v \in Workers : v # w => ~Holds(v, task[w])
    BY <2>1
  <2>3. inbox[w][task[w]] = 0
    BY <2>1
  <2>4. HeldOnce'
    BY <2>1, <2>2, <2>3
  <2>5. MaxAckPending = 1 => Waiting(w) = {}
    BY <2>1, <2>3 DEF Waiting
  <2>6. QED
    BY <2>1, <2>4, <2>5
<1>5. CASE Crash(w)
  BY <1>5 DEF Crash
<1>6. CASE UNCHANGED <<unacked, holder, late, inbox, task>>
  BY <1>6
<1>7. QED
  BY <1>1, <1>2, <1>3, <1>4, <1>5, <1>6

\* Two workers never have the same task.
LEMMA OneWorkerPerTask ==
    ASSUME Exclusive, NEW w \in Workers, NEW v \in Workers, NEW m \in Tasks,
           Holds(w, m), Holds(v, m)
    PROVE  v = w
BY DEF Exclusive, HeldOnce

----------------------------------------------------------------------------
(***************************************************************************)
(* What a worker has came out of the stream.                               *)
(***************************************************************************)

HeldIsStored == \A w \in Workers, m \in Tasks : Holds(w, m) => m \in stored

LEMMA HeldIsStoredStep ==
    ASSUME StreamTypeOK, HeldIsStored,
           NEW w \in Workers, NEW m \in Tasks,
           \/ Deliver(w, m) \/ AckWaitExpires(m) \/ Take(w, m)
           \/ Ack(w) \/ Nak(w) \/ Crash(w) \/ StoreThenNak(w, m)
           \/ (UNCHANGED <<inbox, task>> /\ stored \subseteq stored')
    PROVE  HeldIsStored'
<1> USE StreamAssumption DEF StreamTypeOK, HeldIsStored, Holds
<1>1. CASE Deliver(w, m)
  <2>1. m \in stored /\ UNCHANGED <<stored, task>>
    BY <1>1 DEF Deliver, Deliverable
  <2>2. \A v \in Workers, n \in Tasks : n # m => inbox'[v][n] = inbox[v][n]
    BY <1>1 DEF Deliver
  <2>3. QED
    BY <2>1, <2>2
<1>2. CASE AckWaitExpires(m) \/ (UNCHANGED <<inbox, task>> /\ stored \subseteq stored')
  BY <1>2 DEF AckWaitExpires
<1>3. CASE Take(w, m)
  BY <1>3 DEF Take
<1>4. CASE Ack(w) \/ Nak(w) \/ StoreThenNak(w, m)
  BY <1>4 DEF Ack, Nak, StoreThenNak, Store
<1>5. CASE Crash(w)
  BY <1>5 DEF Crash
<1>6. QED
  BY <1>1, <1>2, <1>3, <1>4, <1>5

----------------------------------------------------------------------------
(***************************************************************************)
(* A queue in which nothing goes wrong: nobody naks or crashes and no      *)
(* ack_wait runs out.  Each task is then handled once.                     *)
(***************************************************************************)

HandledOnce == \A m \in unacked : holder[m] \in Workers /\ Holds(holder[m], m) /\ m \notin acked

LEMMA HandledOnceStep ==
    ASSUME StreamTypeOK, Exclusive, HandledOnce, ~QueueWait,
           NEW w \in Workers, NEW m \in Tasks,
           \/ Deliver(w, m) \/ AckWaitExpires(m) \/ Take(w, m) \/ Ack(w)
           \/ UNCHANGED <<unacked, holder, acked, inbox, task>>
    PROVE  HandledOnce'
<1> USE StreamAssumption DEF StreamTypeOK, HandledOnce, Holds
<1>1. CASE Deliver(w, m)
  <2>1. \A v \in Workers, n \in Tasks : inbox'[v][n] >= inbox[v][n]
    BY <1>1 DEF Deliver
  <2>2. inbox'[w][m] > 0 /\ holder'[m] = w /\ m \notin acked
    BY <1>1 DEF Deliver, Deliverable
  <2>3. \A n \in unacked' : n # m => n \in unacked /\ holder'[n] = holder[n]
    BY <1>1 DEF Deliver
  <2>4. ASSUME NEW n \in unacked'
        PROVE  holder'[n] \in Workers /\ (task'[holder'[n]] = n \/ inbox'[holder'[n]][n] > 0)
               /\ n \notin acked'
    <3>1. CASE n = m
      BY <1>1, <2>2, <3>1 DEF Deliver
    <3>2. CASE n # m
      BY <1>1, <2>1, <2>3, <3>2 DEF Deliver
    <3>3. QED
      BY <3>1, <3>2
  <2>5. QED
    BY <2>4
<1>2. CASE AckWaitExpires(m)
  BY <1>2 DEF AckWaitExpires
<1>3. CASE Take(w, m)
  <2>1. task[w] = None /\ task' = [task EXCEPT ![w] = m]
    BY <1>3 DEF Take
  <2>2. \A v \in Workers, n \in Tasks : v # w \/ n # m => inbox'[v][n] = inbox[v][n]
    BY <1>3 DEF Take
  <2>3. QED
    BY <1>3, <2>1, <2>2 DEF Take
<1>4. CASE Ack(w)
  BY <1>4 DEF Ack
<1>5. CASE UNCHANGED <<unacked, holder, acked, inbox, task>>
  BY <1>5
<1>6. QED
  BY <1>1, <1>2, <1>3, <1>4, <1>5

============================================================================
