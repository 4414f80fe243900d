------------------------------- MODULE WsHub -------------------------------
(***************************************************************************)
(* Live events: v1/ws.go and pkg/manager.  Every connection has a handler  *)
(* (ServeWS), a reader and a writer goroutine, a NATS subscription whose   *)
(* callback runs in a goroutine of the NATS client, and a bounded channel, *)
(* Egress, from the callback to the writer.  NATS hands a subscription its *)
(* messages one by one, and unsubscribing does not wait for the callback   *)
(* it may be in.  No route is registered, so that what a client sends      *)
(* changes nothing.                                                        *)
(***************************************************************************)
EXTENDS Integers, FiniteSets, Sequences, SequencesExt

CONSTANTS
    None,
    Users,
    Conns,      \* connections, made or not yet
    UserOf,     \* connection -> its user
    Capacity,   \* of Egress (64)
    MaxEvents   \* bound on events of a user

ASSUME WsHubAssumption ==
    /\ UserOf \in [Conns -> Users] /\ None \notin Nat
    /\ Capacity \in Nat \ {0} /\ MaxEvents \in Nat

VARIABLES
    hub,      \* connections the hub knows
    conn,     \* connection -> its state
    events    \* user -> number of events published on the user's subject

hubVars == <<hub, conn, events>>

\* serve: where the handler is.  closed: Egress is.  held: the event being
\* written.  flight: the one the callback has.  since: events published before
\* the subscription.  sent, lost: history.
Away == [serve |-> "away", reader |-> "none", writer |-> "none", open |-> FALSE,
         sub |-> FALSE, pending |-> <<>>, flight |-> None, egress |-> <<>>,
         closed |-> FALSE, held |-> None, since |-> 0, sent |-> <<>>, lost |-> {}]

WsHubInit ==
    /\ hub = {} /\ conn = [c \in Conns |-> Away] /\ events = [u \in Users |-> 0]

----------------------------------------------------------------------------
(***************************************************************************)
(* The handler.                                                            *)
(***************************************************************************)

\* With a valid token; nobody asks for it again.
ServeWS(c) ==
    /\ conn[c].serve = "away"
    /\ conn' = [conn EXCEPT ![c].serve = "stored", ![c].open = TRUE]
    /\ hub' = hub \cup {c}
    /\ UNCHANGED events

Subscribe(c) ==
    /\ conn[c].serve = "stored"
    /\ conn' = [conn EXCEPT ![c].serve = "listening", ![c].sub = TRUE,
                            ![c].since = events[UserOf[c]],
                            ![c].reader = "reading", ![c].writer = "waiting"]
    /\ UNCHANGED <<hub, events>>

SubscribeFails(c) ==
    /\ conn[c].serve = "stored"
    /\ conn' = [conn EXCEPT ![c].serve = "gone", ![c].open = FALSE]
    /\ hub' = hub \ {c}
    /\ UNCHANGED events

\* Listen returns: the reader has closed done.
Unsubscribe(c) ==
    /\ conn[c].serve = "listening" /\ conn[c].reader = "done"
    /\ conn' = [conn EXCEPT ![c].serve = "unsubscribed", ![c].sub = FALSE,
                            ![c].pending = <<>>]
    /\ UNCHANGED <<hub, events>>

CloseEgress(c) ==
    /\ conn[c].serve = "unsubscribed"
    /\ conn' = [conn EXCEPT ![c].serve = "closed", ![c].closed = TRUE]
    /\ UNCHANGED <<hub, events>>

Delete(c) ==
    /\ conn[c].serve = "closed"
    /\ conn' = [conn EXCEPT ![c].serve = "gone"]
    /\ hub' = hub \ {c}
    /\ UNCHANGED events

----------------------------------------------------------------------------
(***************************************************************************)
(* NATS and the callback.                                                  *)
(***************************************************************************)
Publish(u) ==
    /\ events[u] < MaxEvents
    /\ events' = [events EXCEPT ![u] = @ + 1]
    /\ conn' = [c \in Conns |->
          IF conn[c].sub /\ UserOf[c] = u
          THEN [conn[c] EXCEPT !.pending = Append(@, events[u] + 1)] ELSE conn[c]]
    /\ UNCHANGED hub

Callback(c) ==
    /\ conn[c].sub /\ conn[c].flight = None /\ conn[c].pending # <<>>
    /\ conn' = [conn EXCEPT ![c].flight = Head(conn[c].pending), ![c].pending = Tail(@)]
    /\ UNCHANGED <<hub, events>>

InFlight(c) == conn[c].flight # None /\ ~conn[c].closed

Full(c) == Len(conn[c].egress) = Capacity

\* Mutant: a full channel loses its oldest event to the new one.
SendEvent_Overwrites(c) ==
    /\ InFlight(c)
    /\ conn' = [conn EXCEPT ![c].flight = None,
          ![c].egress = Append(IF Full(c) THEN Tail(@) ELSE @, conn[c].flight)]
    /\ UNCHANGED <<hub, events>>

SendEvent(c) ==
    /\ InFlight(c) /\ ~Full(c)
    /\ conn' = [conn EXCEPT ![c].flight = None, ![c].egress = Append(@, conn[c].flight)]
    /\ UNCHANGED <<hub, events>>

\* A full channel does not hold the callback up: the event is dropped.
DropEvent(c) ==
    /\ InFlight(c) /\ Full(c)
    /\ conn' = [conn EXCEPT ![c].flight = None, ![c].lost = @ \cup {conn[c].flight}]
    /\ UNCHANGED <<hub, events>>

\* A late callback sends on the closed channel: the process panics.
Panics(c) == conn[c].flight # None /\ conn[c].closed

----------------------------------------------------------------------------
(***************************************************************************)
(* The reader and the writer.                                              *)
(***************************************************************************)

\* The peer closed, was silent for a minute or sent too much; or the writer
\* closed the socket.  Deferred: Shutdown is closed, then done.
ReadMessages(c) ==
    /\ conn[c].reader = "reading"
    /\ conn' = [conn EXCEPT ![c].reader = "shutdown"]
    /\ UNCHANGED <<hub, events>>

CloseDone(c) ==
    /\ conn[c].reader = "shutdown"
    /\ conn' = [conn EXCEPT ![c].reader = "done"]
    /\ UNCHANGED <<hub, events>>

Waiting(c) == conn[c].writer = "waiting" /\ conn[c].held = None

TakeEvent(c) ==
    /\ Waiting(c) /\ conn[c].egress # <<>>
    /\ conn' = [conn EXCEPT ![c].held = Head(conn[c].egress), ![c].egress = Tail(@)]
    /\ UNCHANGED <<hub, events>>

WriteEvent(c) ==
    /\ conn[c].held # None /\ conn[c].open
    /\ conn' = [conn EXCEPT ![c].held = None, ![c].sent = Append(@, conn[c].held)]
    /\ UNCHANGED <<hub, events>>

\* Mutant: the socket is left open.
EndWriter_KeepsSocket(c) == conn' = [conn EXCEPT ![c].writer = "done", ![c].held = None]

\* Deferred: the socket is closed.
EndWriter(c) == conn' = [conn EXCEPT ![c].writer = "done", ![c].held = None,
                                     ![c].open = FALSE]

\* An event or a ping cannot be written, within ten seconds.
WriteFails(c) ==
    /\ conn[c].writer = "waiting"
    /\ EndWriter(c)
    /\ UNCHANGED <<hub, events>>

\* The writer's other exits; with several cases ready, select takes any.
WriteMessages(c) ==
    /\ Waiting(c)
    /\ \/ conn[c].reader \in {"shutdown", "done"}
       \/ conn[c].closed /\ conn[c].egress = <<>>
    /\ EndWriter(c)
    /\ UNCHANGED <<hub, events>>

----------------------------------------------------------------------------
Serve(c) == Subscribe(c) \/ Unsubscribe(c) \/ CloseEgress(c) \/ Delete(c)

Read(c) == (ReadMessages(c) /\ ~conn[c].open) \/ CloseDone(c)

WriteOut(c) == TakeEvent(c) \/ WriteEvent(c) \/ WriteMessages(c)

\* Steps that write nothing to the log that is counted.
WsHubNext ==
    \/ \E u \in Users : Publish(u)
    \/ \E c \in Conns : ServeWS(c) \/ SubscribeFails(c) \/ Serve(c)
    \/ \E c \in Conns : Callback(c) \/ SendEvent(c)
    \/ \E c \in Conns : ReadMessages(c) \/ CloseDone(c) \/ WriteOut(c) \/ WriteFails(c)

\* Every connection is cut, made or being made.
WsHubRestart ==
    /\ hub' = {}
    /\ conn' = [c \in Conns |-> IF conn[c].serve = "away" THEN Away
          ELSE [Away EXCEPT !.serve = "gone", !.reader = "done", !.writer = "done",
                            !.sent = conn[c].sent, !.lost = conn[c].lost]]
    /\ UNCHANGED events

----------------------------------------------------------------------------
(***************************************************************************)
(* Properties.                                                             *)
(***************************************************************************)
One(e) == IF e = None THEN <<>> ELSE <<e>>

\* Between a subscription and the end of its writer, each event published for
\* the user is at one place - delivered, on its way or dropped because Egress
\* was full - and those not dropped are in the order they were published.
EveryEventIsAccounted == \A c \in Conns :
    conn[c].sub /\ conn[c].writer # "done" =>
        LET k == conn[c]
            line == k.sent \o One(k.held) \o k.egress \o One(k.flight) \o k.pending
        IN /\ \A i, j \in DOMAIN line : i < j => line[i] < line[j]
           /\ ToSet(line) \cap k.lost = {}
           /\ ToSet(line) \cup k.lost = k.since + 1 .. events[UserOf[c]]

\* Whichever of a connection's socket, reader and writer ends first, all its
\* goroutines do, and the hub forgets it.
ClosedConnectionsEnd == \A c \in Conns :
    LET k == conn[c] IN
    (k.writer # "none" /\ (~k.open \/ k.reader # "reading" \/ k.writer = "done"))
    ~> /\ k.serve = "gone" /\ c \notin hub
       /\ k.reader = "done" /\ k.writer = "done"
============================================================================
