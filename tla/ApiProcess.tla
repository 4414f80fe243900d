----------------------------- MODULE ApiProcess -----------------------------
(***************************************************************************)
(* The API process of app.go: live events and the rotation of its log run  *)
(* side by side.  Of the log's lines those count that tell of an event     *)
(* dropped for a slow client.  A restart - a shutdown, which waits for     *)
(* neither, a crash, or the panic of a late callback - cuts the            *)
(* connections and starts the log anew, with what is on disk.              *)
(***************************************************************************)
EXTENDS WsHub, LogRotation

CONSTANT MaxRestarts  \* bound on restarts

ASSUME ApiProcessAssumption == MaxRestarts \in Nat

VARIABLE restarts  \* number of restarts so far

vars == <<hubVars, logVars, restarts>>

Init == WsHubInit /\ LogRotationInit /\ restarts = 0

\* The line of a warning tells of the event the callback has.
DropWithWarning(c) ==
    DropEvent(c) /\ Write(<<c, conn[c].flight>>) /\ UNCHANGED restarts

Restart ==
    /\ restarts < MaxRestarts \/ \E c \in Conns : Panics(c)
    /\ restarts' = restarts + 1
    /\ WsHubRestart
    /\ LogRotationRestart

Next ==
    \/ WsHubNext /\ UNCHANGED <<logVars, restarts>>
    \/ \E c \in Conns : DropWithWarning(c)
    \/ Rotation /\ UNCHANGED <<hubVars, restarts>>
    \/ Restart

Spec == Init /\ [][Next]_vars

\* The goroutines of a connection run; peers, NATS and cron need not act.
FairSpec ==
    /\ Spec
    /\ \A c \in Conns :
          /\ WF_hubVars(Serve(c)) /\ WF_hubVars(Read(c)) /\ WF_hubVars(WriteOut(c))

----------------------------------------------------------------------------
(***************************************************************************)
(* Properties.                                                             *)
(***************************************************************************)
\* The local log files together have a line for every event a connection lost,
\* and tell of no other, through all rotations, failed or not, and restarts;
\* only what is written to a closed file or to stderr is not among them.
DropsAreOnRecord == Lines \cup missed = UNION {{c} \X conn[c].lost : c \in Conns}
=============================================================================
