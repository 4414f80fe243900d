-------------------------- MODULE ApiProcessProofs --------------------------
(***************************************************************************)
(* What is proved of ApiProcess for any number of days, connections,       *)
(* events and restarts: the log's rotation - WsHub's steps write lines and *)
(* touch nothing else of it - and the events of every connection.          *)
(***************************************************************************)
EXTENDS ApiProcess, SequenceTheorems, TLAPS

LogStep == (\E line : Write(line)) \/ Rotation \/ LogRotationRestart \/ UNCHANGED logVars

\* The steps of the process are steps of the log.
LEMMA ProcessSteps == [Next]_vars => LogStep
  BY DEF Next, vars, LogStep, DropWithWarning, Restart

\* Where the rotation is while nothing has gone wrong.
OnTime ==
    /\ fired => late
    /\ ~disturbed =>
          /\ minio
          /\ rotator # "idle" => fired
          /\ writer = IF fired /\ rotator = "idle" THEN day + 1 ELSE day
          /\ rotator = "uploading" => upload.name = day
          /\ rotator = "rotate" => day \in DOMAIN stored
          /\ \A d \in since .. writer - 1 : d \in DOMAIN stored

LogInv == LogRotationTypeOK /\ OnTime

----------------------------------------------------------------------------
(***************************************************************************)
(* Types.                                                                  *)
(***************************************************************************)
LEMMA InitKeeps == LogRotationInit => LogInv
<1> SUFFICES ASSUME LogRotationInit PROVE LogInv
  OBVIOUS
<1>1. /\ disturbed \in BOOLEAN /\ minio \in BOOLEAN /\ (~disturbed => minio /\ writer = 0)
      /\ late \in BOOLEAN /\ fired \in BOOLEAN /\ ~fired
  BY DEF LogRotationInit
<1>2. /\ DOMAIN files = {0} \cap {writer} /\ DOMAIN stored = {}
  BY DEF LogRotationInit
<1>3. /\ day = 0 /\ since = 0 /\ writer \in {0} \cup Nowhere
      /\ rotator = "idle" /\ LastDay \in Nat
  BY LogRotationAssumption DEF LogRotationInit, Nowhere
<1>4. LogRotationTypeOK
  <2>1. writer \in Nowhere \cup 0 .. LastDay + 1 /\ 0 \notin Nowhere
    BY <1>3 DEF Nowhere, Closed, Stderr
  <2>2. writer \notin Nowhere => writer \in DOMAIN files
    BY <1>2, <1>3
  <2>3. DOMAIN files \subseteq 0 .. LastDay + 1
    BY <1>2, <1>3
  <2>4. QED
    BY <1>1, <1>2, <1>3, <2>1, <2>2, <2>3 DEF LogRotationTypeOK
<1>5. OnTime
  BY <1>1, <1>3 DEF OnTime
<1>6. QED
  BY <1>4, <1>5 DEF LogInv

\* Opening a file for appending loses none of its lines.
LEMMA OpenKeeps ==
  ASSUME NEW f
  PROVE  /\ DOMAIN Opened(f) = DOMAIN files \cup {f}
         /\ \A d \in DOMAIN files : Opened(f)[d] = files[d]
         /\ f \notin DOMAIN files => Opened(f)[f] = {}
  BY DEF Opened, LinesOf

LEMMA TypesKeep ==
  ASSUME LogRotationTypeOK, LogStep
  PROVE  LogRotationTypeOK'
<1> USE LogRotationAssumption
<1>1. ASSUME NEW line, Write(line) PROVE LogRotationTypeOK'
  <2>1. DOMAIN files' = DOMAIN files /\ \A d \in DOMAIN files : files[d] \subseteq files'[d]
    BY <1>1 DEF Write, LogRotationTypeOK
  <2>2. LinesOf(upload.name) \subseteq LinesOf(upload.name)' /\ UNCHANGED <<upload, stored, rotator>>
    BY <1>1, <2>1 DEF Write, LinesOf
  <2>3. \A d \in DOMAIN stored : stored[d] \subseteq files'[d]
    BY <2>1 DEF LogRotationTypeOK
  <2>4. QED
    BY <1>1, <2>1, <2>2, <2>3 DEF Write, LogRotationTypeOK
<1>2. CASE UploadToday
  <2>1. rotator' = "uploading" => upload'.lines = LinesOf(upload'.name)
    BY <1>2 DEF UploadToday
  <2>2. files' = files
    BY <1>2 DEF UploadToday
  <2>3. rotator' = "uploading" => upload'.lines \subseteq LinesOf(upload.name)'
    BY <2>1, <2>2 DEF LinesOf
  <2>4. QED
    BY <1>2, <2>3 DEF UploadToday, LogRotationTypeOK
<1>3. CASE UploadSucceeds
  <2>1. LinesOf(upload.name) = files[upload.name]
    BY <1>3 DEF UploadSucceeds, LinesOf
  <2>2. \A d \in DOMAIN stored' : d \in DOMAIN files /\ stored'[d] \subseteq files[d]
    BY <1>3, <2>1 DEF UploadSucceeds, LogRotationTypeOK
  <2>3. QED
    BY <1>3, <2>2 DEF UploadSucceeds, LogRotationTypeOK
<1>4. CASE UploadFails
  BY <1>4 DEF UploadFails, LogRotationTypeOK
<1>5. ASSUME NEW d \in 0 .. LastDay + 1, files' = Opened(d), UNCHANGED stored
      PROVE  /\ DOMAIN files' = DOMAIN files \cup {d}
             /\ DOMAIN files' \subseteq 0 .. LastDay + 1 /\ DOMAIN stored' \subseteq DOMAIN files'
             /\ \A e \in DOMAIN stored' : stored'[e] \subseteq files'[e]
  <2>1. DOMAIN stored \subseteq DOMAIN files /\ \A e \in DOMAIN stored : stored[e] \subseteq files[e]
    BY DEF LogRotationTypeOK
  <2>2. DOMAIN files' = DOMAIN files \cup {d} /\ \A e \in DOMAIN files : files'[e] = files[e]
    BY <1>5, OpenKeeps
  <2>3. DOMAIN files \subseteq 0 .. LastDay + 1
    BY DEF LogRotationTypeOK
  <2>4. QED
    BY <1>5, <2>1, <2>2, <2>3
<1>6. CASE RotateToNewDay
  <2>1. Tomorrow \in 0 .. LastDay + 1
    BY DEF LogRotationTypeOK, Tomorrow
  <2>2. /\ UNCHANGED <<day, late, fired, stored, minio, upload, since>> /\ rotator' = "idle"
        /\ disturbed' \in {disturbed, TRUE}
    BY <1>6 DEF RotateToNewDay, Rotates, OpenFails, SwapFails
  <2>3. CASE files' = Opened(Tomorrow) /\ writer' \in {Tomorrow, Closed}
    BY <1>5, <2>1, <2>2, <2>3 DEF LogRotationTypeOK, Nowhere
  <2>4. CASE UNCHANGED <<writer, files>>
    BY <2>2, <2>4 DEF LogRotationTypeOK
  <2>5. QED
    BY <1>6, <2>3, <2>4 DEF RotateToNewDay, Rotates, OpenFails, SwapFails
<1>7. CASE Pass
  <2>1. disturbed' \in BOOLEAN /\ late' \in BOOLEAN /\ fired' \in BOOLEAN
    BY <1>7 DEF Pass, LogRotationTypeOK
  <2>2. day' \in 0 .. LastDay /\ since' \in 0 .. day'
    BY <1>7 DEF Pass, LogRotationTypeOK
  <2>3. LinesOf(upload.name)' = LinesOf(upload.name) /\ UNCHANGED <<upload, rotator, files, stored, writer, minio>>
    BY <1>7 DEF Pass, LinesOf
  <2>4. QED
    BY <2>1, <2>2, <2>3 DEF LogRotationTypeOK
<1>8. CASE LogRotationRestart
  <2>1. day \in 0 .. LastDay + 1
    BY DEF LogRotationTypeOK
  <2>2. /\ UNCHANGED <<day, late, stored, upload>> /\ since' = day /\ rotator' = "idle"
        /\ fired' = late /\ minio' \in BOOLEAN /\ disturbed' \in BOOLEAN
    BY <1>8 DEF LogRotationRestart, LogRotationTypeOK
  <2>3. since' \in 0 .. day'
    BY <2>2 DEF LogRotationTypeOK
  <2>4. CASE files' = Opened(day) /\ writer' = day
    BY <1>5, <2>1, <2>2, <2>3, <2>4 DEF LogRotationTypeOK
  <2>5. CASE writer' = Stderr /\ UNCHANGED files
    BY <2>2, <2>3, <2>5 DEF LogRotationTypeOK, Nowhere
  <2>6. QED
    BY <1>8, <2>4, <2>5 DEF LogRotationRestart
<1>9. CASE UNCHANGED logVars
  BY <1>9 DEF logVars, LogRotationTypeOK, LinesOf
<1>10. QED
  BY <1>1, <1>2, <1>3, <1>4, <1>6, <1>7, <1>8, <1>9 DEF LogStep, Rotation

----------------------------------------------------------------------------
(***************************************************************************)
(* The rotation.                                                           *)
(***************************************************************************)
LEMMA OnTimeKeeps ==
  ASSUME LogInv, LogStep
  PROVE  OnTime'
<1> USE LogRotationAssumption DEF LogInv
<1>0. /\ day \in Nat /\ writer \in Int /\ since \in Nat
  BY DEF LogRotationTypeOK, Nowhere, Closed, Stderr
<1>1. CASE (\E line : Write(line)) \/ UNCHANGED logVars
  BY <1>1 DEF Write, logVars, OnTime
<1>2. CASE UploadToday
  BY <1>0, <1>2 DEF UploadToday, OnTime
<1>3. CASE UploadSucceeds
  BY <1>3 DEF UploadSucceeds, OnTime
<1>4. CASE UploadFails
  BY <1>4 DEF UploadFails, OnTime
<1>5. CASE RotateToNewDay
  BY <1>0, <1>5 DEF RotateToNewDay, Rotates, OpenFails, SwapFails, Tomorrow, OnTime
<1>6. CASE Pass
  BY <1>0, <1>6 DEF Pass, OnTime, LogRotationTypeOK
<1>7. CASE LogRotationRestart
  BY <1>0, <1>7 DEF LogRotationRestart, OnTime, LogRotationTypeOK
<1>8. QED
  BY <1>1, <1>2, <1>3, <1>4, <1>5, <1>6, <1>7 DEF LogStep, Rotation

----------------------------------------------------------------------------
(***************************************************************************)
(* Theorems.                                                               *)
(***************************************************************************)

\* The inductive invariant: types, what is uploaded is on disk, and where
\* logrotate.go's two steps are while none of them has failed.
THEOREM LogInvariant == Spec => []LogInv
<1>1. Init => LogInv
  BY InitKeeps DEF Init
<1>2. LogInv /\ [Next]_vars => LogInv'
  BY ProcessSteps, TypesKeep, OnTimeKeeps DEF LogInv
<1>3. QED
  BY <1>1, <1>2, PTL DEF Spec

\* For any number of days and restarts, the logger is at the right day's file
\* and every file logrotate.go has left since the start is in MinIO, as long as
\* uploads succeed before midnight and the log files open and close.
THEOREM DaysUploaded == Spec => []EveryDayIsUploaded
<1>1. LogInv => EveryDayIsUploaded
  BY DEF LogInv, OnTime, EveryDayIsUploaded
<1>2. QED
  BY <1>1, LogInvariant, PTL
----------------------------------------------------------------------------
(***************************************************************************)
(* Sequences of events: what becomes of their elements and of their order. *)
(***************************************************************************)
Sorted(s) == \A i, j \in DOMAIN s : i < j => s[i] < s[j]

Before(s, t) == \A x \in ToSet(s), y \in ToSet(t) : x < y

LEMMA OneEvent ==
  ASSUME NEW e \in Nat
  PROVE  /\ One(e) = <<e>> /\ <<e>> \in Seq(Nat) /\ ToSet(<<e>>) = {e} /\ Sorted(<<e>>)
         /\ One(None) = <<>> /\ <<>> \in Seq(Nat) /\ ToSet(<<>>) = {} /\ Sorted(<<>>)
  BY WsHubAssumption DEF One, ToSet, Sorted

LEMMA ConcatParts ==
  ASSUME NEW s \in Seq(Nat), NEW t \in Seq(Nat), NEW st, st = s \o t, NEW n, n = Len(s)
  PROVE  /\ n \in Nat /\ DOMAIN s \subseteq 1 .. n /\ DOMAIN t \subseteq Int
         /\ DOMAIN st \subseteq Int
         /\ \A i \in DOMAIN s : i \in DOMAIN st /\ st[i] = s[i]
         /\ \A i \in DOMAIN t : i >= 1 /\ i + n \in DOMAIN st /\ st[i + n] = t[i]
         /\ \A i \in DOMAIN st : IF i <= n THEN i \in DOMAIN s /\ st[i] = s[i]
                                 ELSE i - n \in DOMAIN t /\ st[i] = t[i - n]
<1> DEFINE m == Len(t)
<1>1. /\ DOMAIN s = 1 .. n /\ DOMAIN t = 1 .. m /\ n \in Nat /\ m \in Nat
      /\ st \in Seq(Nat) /\ Len(st) = n + m
      /\ \A i \in 1 .. n + m : st[i] = IF i <= n THEN s[i] ELSE t[i - n]
  BY ConcatProperties, LenProperties
<1>2. DOMAIN st = 1 .. n + m
  BY <1>1, LenProperties
<1> HIDE DEF m
<1>3. ASSUME NEW i \in 1 .. m PROVE i + n \in 1 .. n + m /\ st[i + n] = t[i]
  <2>1. i + n \in 1 .. n + m /\ ~(i + n <= n) /\ (i + n) - n = i
    BY <1>1
  <2>2. QED
    BY <1>1, <2>1
<1>4. QED
  BY <1>1, <1>2, <1>3

LEMMA ConcatElements ==
  ASSUME NEW s \in Seq(Nat), NEW t \in Seq(Nat)
  PROVE  ToSet(s \o t) = ToSet(s) \cup ToSet(t)
<1> DEFINE st == s \o t
           n == Len(s)
<1>1. /\ \A i \in DOMAIN s : i \in DOMAIN st /\ st[i] = s[i]
      /\ \A i \in DOMAIN t : i + n \in DOMAIN st /\ st[i + n] = t[i]
      /\ \A i \in DOMAIN st : \/ i \in DOMAIN s /\ st[i] = s[i]
                              \/ i - n \in DOMAIN t /\ st[i] = t[i - n]
  BY ConcatParts
<1> HIDE DEF st, n
<1>2. \A x : x \in ToSet(st) <=> x \in ToSet(s) \/ x \in ToSet(t)
  BY <1>1 DEF ToSet
<1>3. QED
  BY <1>2 DEF st

LEMMA ConcatOrder ==
  ASSUME NEW s \in Seq(Nat), NEW t \in Seq(Nat)
  PROVE  Sorted(s \o t) <=> Sorted(s) /\ Sorted(t) /\ Before(s, t)
<1> DEFINE st == s \o t
           n == Len(s)
<1>1. /\ n \in Nat /\ DOMAIN s \subseteq 1 .. n /\ DOMAIN t \subseteq Int
      /\ DOMAIN st \subseteq Int
      /\ \A i \in DOMAIN s : i \in DOMAIN st /\ st[i] = s[i]
      /\ \A i \in DOMAIN t : i >= 1 /\ i + n \in DOMAIN st /\ st[i + n] = t[i]
      /\ \A i \in DOMAIN st : IF i <= n THEN i \in DOMAIN s /\ st[i] = s[i]
                              ELSE i - n \in DOMAIN t /\ st[i] = t[i - n]
  BY ConcatParts
<1> HIDE DEF st, n
<1>2. ASSUME Sorted(st) PROVE Sorted(s) /\ Sorted(t) /\ Before(s, t)
  <2>1. Sorted(s)
    BY <1>1, <1>2 DEF Sorted
  <2>2. Sorted(t)
    <3>1. SUFFICES ASSUME NEW i \in DOMAIN t, NEW j \in DOMAIN t, i < j PROVE t[i] < t[j]
      BY DEF Sorted
    <3>2. i + n < j + n
      BY <1>1, <3>1
    <3>3. QED
      BY <1>1, <1>2, <3>2 DEF Sorted
  <2>3. Before(s, t)
    <3>1. SUFFICES ASSUME NEW i \in DOMAIN s, NEW j \in DOMAIN t PROVE s[i] < t[j]
      BY DEF Before, ToSet
    <3>2. i < j + n
      BY <1>1
    <3>3. QED
      BY <1>1, <1>2, <3>2 DEF Sorted
  <2>4. QED
    BY <2>1, <2>2, <2>3
<1>3. ASSUME Sorted(s), Sorted(t), Before(s, t) PROVE Sorted(st)
  <2>1. SUFFICES ASSUME NEW i \in DOMAIN st, NEW j \in DOMAIN st, i < j PROVE st[i] < st[j]
    BY DEF Sorted
  <2>2. i \in Int /\ j \in Int
    BY <1>1
  <2>3. CASE j <= n
    BY <1>1, <1>3, <2>1, <2>2, <2>3 DEF Sorted
  <2>4. CASE i <= n /\ ~(j <= n)
    BY <1>1, <1>3, <2>4 DEF Before, ToSet
  <2>5. CASE ~(i <= n)
    <3>1. i - n < j - n /\ ~(j <= n)
      BY <1>1, <2>1, <2>2, <2>5
    <3>2. QED
      BY <1>1, <1>3, <2>5, <3>1 DEF Sorted
  <2>6. QED
    BY <1>1, <2>3, <2>4, <2>5
<1>4. QED
  BY <1>2, <1>3 DEF st

\* The head of a queue is taken.
LEMMA HeadMoves ==
  ASSUME NEW s \in Seq(Nat), NEW t \in Seq(Nat), t # <<>>
  PROVE  /\ Head(t) \in Nat /\ Tail(t) \in Seq(Nat)
         /\ (s \o <<>>) \o t = (s \o <<Head(t)>>) \o Tail(t)
<1>1. Head(t) \in Nat /\ Tail(t) \in Seq(Nat) /\ <<Head(t)>> \in Seq(Nat)
  BY HeadTailProperties
<1>2. t = <<Head(t)>> \o Tail(t)
  <2>1. /\ Len(t) \in Nat /\ Len(t) > 0 /\ Len(Tail(t)) = Len(t) - 1
        /\ \A i \in 1 .. Len(Tail(t)) : Tail(t)[i] = t[i + 1]
    BY HeadTailProperties, EmptySeq, LenProperties
  <2>2. /\ <<Head(t)>> \o Tail(t) \in Seq(Nat) /\ Len(<<Head(t)>> \o Tail(t)) = Len(t)
        /\ \A i \in 1 .. Len(t) :
              (<<Head(t)>> \o Tail(t))[i] = IF i <= 1 THEN Head(t) ELSE Tail(t)[i - 1]
    BY <1>1, <2>1, ConcatProperties
  <2>3. ASSUME NEW i \in 1 .. Len(t) PROVE (<<Head(t)>> \o Tail(t))[i] = t[i]
    <3>1. CASE i <= 1
      BY <2>1, <2>2, <3>1
    <3>2. CASE ~(i <= 1)
      <4>1. i - 1 \in 1 .. Len(Tail(t)) /\ (i - 1) + 1 = i
        BY <2>1, <3>2
      <4>2. QED
        BY <2>1, <2>2, <3>2, <4>1
    <3>3. QED
      BY <3>1, <3>2
  <2>4. QED
    BY <2>2, <2>3, SeqEqual
<1>3. (s \o <<Head(t)>>) \o Tail(t) = s \o (<<Head(t)>> \o Tail(t))
  BY <1>1, ConcatAssociative
<1>4. s \o <<>> = s
  BY ConcatEmptySeq
<1>5. QED
  BY <1>1, <1>2, <1>3, <1>4

\* An element is put at the end of a queue.
LEMMA LastJoins ==
  ASSUME NEW s \in Seq(Nat), NEW t \in Seq(Nat), NEW e \in Nat
  PROVE  /\ Append(t, e) \in Seq(Nat) /\ Append(t, e) = t \o <<e>>
         /\ s \o Append(t, e) = (s \o t) \o <<e>>
         /\ (s \o Append(t, e)) \o <<>> = (s \o t) \o <<e>>
<1>1. <<e>> \in Seq(Nat) /\ Append(t, e) \in Seq(Nat) /\ Append(t, e) = t \o <<e>>
  BY AppendProperties, AppendIsConcat
<1>2. s \o (t \o <<e>>) = (s \o t) \o <<e>>
  BY <1>1, ConcatAssociative
<1>3. (s \o t) \o <<e>> \in Seq(Nat)
  BY <1>1, ConcatProperties
<1>4. QED
  BY <1>1, <1>2, <1>3, ConcatEmptySeq

----------------------------------------------------------------------------
(***************************************************************************)
(* The events of a connection, from its client back to NATS.               *)
(***************************************************************************)
Line(k) == k.sent \o One(k.held) \o k.egress \o One(k.flight) \o k.pending

Accounted(k, n) ==
    /\ Sorted(Line(k))
    /\ ToSet(Line(k)) \cap k.lost = {}
    /\ ToSet(Line(k)) \cup k.lost = k.since + 1 .. n

Connections ==
    [serve : {"away", "stored", "listening", "unsubscribed", "closed", "gone"},
     reader : {"none", "reading", "shutdown", "done"},
     writer : {"none", "waiting", "done"},
     open : BOOLEAN, sub : BOOLEAN, closed : BOOLEAN,
     pending : Seq(Nat), egress : Seq(Nat), sent : Seq(Nat),
     flight : Nat \cup {None}, held : Nat \cup {None}, since : Nat, lost : SUBSET Nat]

Blank(k) ==
    /\ k.sent = <<>> /\ k.held = None /\ k.egress = <<>>
    /\ k.flight = None /\ k.pending = <<>> /\ k.lost = {}

\* What holds of a connection when its user has had n events.
ConnInv(k, n) ==
    /\ k \in Connections
    /\ k.sub => k.serve = "listening" /\ k.since <= n
    /\ k.serve \in {"away", "stored"} => Blank(k)
    /\ k.sub /\ k.writer # "done" => Accounted(k, n)

HubInv ==
    /\ events \in [Users -> Nat] /\ DOMAIN conn = Conns
    /\ \A c \in Conns : ConnInv(conn[c], events[UserOf[c]])

LEMMA LineParts ==
  ASSUME NEW k \in Connections
  PROVE  /\ k.sent \in Seq(Nat) /\ k.egress \in Seq(Nat) /\ k.pending \in Seq(Nat)
         /\ One(k.held) \in Seq(Nat) /\ One(k.flight) \in Seq(Nat)
         /\ k.sent \o One(k.held) \in Seq(Nat)
         /\ k.sent \o One(k.held) \o k.egress \in Seq(Nat)
         /\ k.sent \o One(k.held) \o k.egress \o One(k.flight) \in Seq(Nat)
         /\ Line(k) \in Seq(Nat)
<1>1. k.sent \in Seq(Nat) /\ k.egress \in Seq(Nat) /\ k.pending \in Seq(Nat)
  BY DEF Connections
<1>2. One(k.held) \in Seq(Nat) /\ One(k.flight) \in Seq(Nat)
  <2>1. k.held \in Nat \cup {None} /\ k.flight \in Nat \cup {None}
    BY DEF Connections
  <2>2. \A e \in Nat \cup {None} : One(e) \in Seq(Nat)
    BY OneEvent
  <2>3. QED
    BY <2>1, <2>2
<1>3. k.sent \o One(k.held) \in Seq(Nat)
  BY <1>1, <1>2, ConcatProperties
<1>4. k.sent \o One(k.held) \o k.egress \in Seq(Nat)
  BY <1>1, <1>3, ConcatProperties
<1>5. k.sent \o One(k.held) \o k.egress \o One(k.flight) \in Seq(Nat)
  BY <1>2, <1>4, ConcatProperties
<1>6. Line(k) \in Seq(Nat)
  BY <1>1, <1>5, ConcatProperties DEF Line
<1>7. QED
  BY <1>1, <1>2, <1>3, <1>4, <1>5, <1>6

----------------------------------------------------------------------------
(***************************************************************************)
(* An event moves along the line of a connection.                          *)
(***************************************************************************)
LEMMA CallbackMoves ==
  ASSUME NEW k \in Connections, k.flight = None, k.pending # <<>>,
         NEW m, m = [k EXCEPT !.flight = Head(k.pending), !.pending = Tail(k.pending)]
  PROVE  m \in Connections /\ Line(m) = Line(k)
<1> DEFINE s == k.sent \o One(k.held) \o k.egress
           p == k.pending
<1>1. s \in Seq(Nat) /\ p \in Seq(Nat)
  BY LineParts
<1>2. Head(p) \in Nat /\ Tail(p) \in Seq(Nat) /\ (s \o <<>>) \o p = (s \o <<Head(p)>>) \o Tail(p)
  BY <1>1, HeadMoves
<1>3. m \in Connections
  BY <1>2 DEF Connections
<1>4. One(k.flight) = <<>> /\ One(Head(p)) = <<Head(p)>>
  BY <1>2, OneEvent
<1>5. /\ m.sent = k.sent /\ m.held = k.held /\ m.egress = k.egress
      /\ m.flight = Head(p) /\ m.pending = Tail(p)
  BY DEF Connections
<1>6. QED
  BY <1>2, <1>3, <1>4, <1>5 DEF Line

LEMMA SendMoves ==
  ASSUME NEW k \in Connections, k.flight # None,
         NEW m, m = [k EXCEPT !.flight = None, !.egress = Append(k.egress, k.flight)]
  PROVE  m \in Connections /\ Line(m) = Line(k)
<1> DEFINE s == k.sent \o One(k.held)
           e == k.egress
           f == k.flight
<1>1. s \in Seq(Nat) /\ e \in Seq(Nat) /\ f \in Nat
  BY LineParts DEF Connections
<1>2. Append(e, f) \in Seq(Nat) /\ (s \o Append(e, f)) \o <<>> = (s \o e) \o <<f>>
  BY <1>1, LastJoins
<1>3. m \in Connections
  BY <1>2 DEF Connections
<1>4. One(None) = <<>> /\ One(f) = <<f>>
  BY <1>1, OneEvent
<1>5. /\ m.sent = k.sent /\ m.held = k.held /\ m.egress = Append(e, f)
      /\ m.flight = None /\ m.pending = k.pending
  BY DEF Connections
<1>6. QED
  BY <1>2, <1>3, <1>4, <1>5 DEF Line

LEMMA TakeMoves ==
  ASSUME NEW k \in Connections, k.held = None, k.egress # <<>>,
         NEW m, m = [k EXCEPT !.held = Head(k.egress), !.egress = Tail(k.egress)]
  PROVE  m \in Connections /\ Line(m) = Line(k)
<1> DEFINE s == k.sent
           e == k.egress
<1>1. s \in Seq(Nat) /\ e \in Seq(Nat)
  BY LineParts
<1>2. Head(e) \in Nat /\ Tail(e) \in Seq(Nat) /\ (s \o <<>>) \o e = (s \o <<Head(e)>>) \o Tail(e)
  BY <1>1, HeadMoves
<1>3. m \in Connections
  BY <1>2 DEF Connections
<1>4. One(k.held) = <<>> /\ One(Head(e)) = <<Head(e)>>
  BY <1>2, OneEvent
<1>5. /\ m.sent = k.sent /\ m.held = Head(e) /\ m.egress = Tail(e)
      /\ m.flight = k.flight /\ m.pending = k.pending
  BY DEF Connections
<1>6. QED
  BY <1>2, <1>3, <1>4, <1>5 DEF Line

LEMMA WriteMoves ==
  ASSUME NEW k \in Connections, k.held # None,
         NEW m, m = [k EXCEPT !.held = None, !.sent = Append(k.sent, k.held)]
  PROVE  m \in Connections /\ Line(m) = Line(k)
<1> DEFINE s == k.sent
           h == k.held
<1>1. s \in Seq(Nat) /\ h \in Nat
  BY LineParts DEF Connections
<1>2. Append(s, h) \in Seq(Nat) /\ Append(s, h) = s \o <<h>> /\ Append(s, h) \o <<>> = s \o <<h>>
  <2>1. Append(s, h) \in Seq(Nat) /\ Append(s, h) = s \o <<h>>
    BY <1>1, AppendProperties, AppendIsConcat
  <2>2. Append(s, h) \o <<>> = Append(s, h)
    BY <2>1, ConcatEmptySeq
  <2>3. QED
    BY <2>1, <2>2
<1>3. m \in Connections
  BY <1>2 DEF Connections
<1>4. One(None) = <<>> /\ One(h) = <<h>>
  BY <1>1, OneEvent
<1>5. /\ m.sent = Append(s, h) /\ m.held = None /\ m.egress = k.egress
      /\ m.flight = k.flight /\ m.pending = k.pending
  BY DEF Connections
<1>6. QED
  BY <1>2, <1>3, <1>4, <1>5 DEF Line

\* An event dropped for a full channel leaves the line for the lost ones.
LEMMA DropAccounted ==
  ASSUME NEW k \in Connections, k.flight # None, NEW n,
         NEW m, m = [k EXCEPT !.flight = None, !.lost = k.lost \cup {k.flight}]
  PROVE  m \in Connections /\ (Accounted(k, n) => Accounted(m, n))
<1> DEFINE s == k.sent \o One(k.held) \o k.egress
           p == k.pending
           f == k.flight
<1>1. s \in Seq(Nat) /\ p \in Seq(Nat) /\ f \in Nat /\ k.lost \in SUBSET Nat
  BY LineParts DEF Connections
<1>2. m \in Connections
  BY <1>1 DEF Connections
<1>3. One(None) = <<>> /\ One(f) = <<f>> /\ <<f>> \in Seq(Nat) /\ ToSet(<<f>>) = {f}
  BY <1>1, OneEvent
<1>4. /\ m.sent = k.sent /\ m.held = k.held /\ m.egress = k.egress /\ m.since = k.since
      /\ m.flight = None /\ m.pending = p /\ m.lost = k.lost \cup {f}
  BY DEF Connections
<1>5. Line(k) = (s \o <<f>>) \o p /\ Line(m) = s \o p
  <2>1. s \o <<>> = s
    BY <1>1, ConcatEmptySeq
  <2>2. QED
    BY <1>3, <1>4, <2>1 DEF Line
<1> HIDE DEF s, p, f
<1>6. s \o <<f>> \in Seq(Nat)
  BY <1>1, <1>3, ConcatProperties
<1>7. /\ ToSet(Line(k)) = ToSet(s) \cup {f} \cup ToSet(p)
      /\ ToSet(Line(m)) = ToSet(s) \cup ToSet(p)
      /\ ToSet(s \o <<f>>) = ToSet(s) \cup {f}
  <2>1. ToSet((s \o <<f>>) \o p) = ToSet(s \o <<f>>) \cup ToSet(p)
    BY <1>1, <1>6, ConcatElements
  <2>2. ToSet(s \o <<f>>) = ToSet(s) \cup {f}
    BY <1>1, <1>3, ConcatElements
  <2>3. ToSet(s \o p) = ToSet(s) \cup ToSet(p)
    BY <1>1, ConcatElements
  <2>4. QED
    BY <1>5, <2>1, <2>2, <2>3
<1>8. ASSUME Sorted(Line(k))
      PROVE  Sorted(Line(m)) /\ f \notin ToSet(s) /\ f \notin ToSet(p)
  <2>1. Sorted(s \o <<f>>) /\ Sorted(p) /\ Before(s \o <<f>>, p)
    BY <1>1, <1>5, <1>6, <1>8, ConcatOrder
  <2>2. Sorted(s) /\ Before(s, <<f>>)
    BY <1>1, <1>3, <2>1, ConcatOrder
  <2>3. Before(s, p)
    BY <1>7, <2>1 DEF Before
  <2>4. Sorted(Line(m))
    <3>1. Sorted(s \o p)
      BY <1>1, <2>1, <2>2, <2>3, ConcatOrder
    <3>2. QED
      BY <1>5, <3>1
  <2>5. ~(f < f)
    BY <1>1
  <2>6. QED
    BY <1>3, <1>7, <2>1, <2>2, <2>4, <2>5 DEF Before
<1>9. QED
  BY <1>2, <1>4, <1>7, <1>8 DEF Accounted, f

\* A user's next event comes to the end of the line.
LEMMA PublishAccounted ==
  ASSUME NEW k \in Connections, NEW n \in Nat, k.since <= n,
         NEW m, m = [k EXCEPT !.pending = Append(k.pending, n + 1)]
  PROVE  m \in Connections /\ (Accounted(k, n) => Accounted(m, n + 1))
<1> DEFINE s == k.sent \o One(k.held) \o k.egress \o One(k.flight)
           p == k.pending
           l == Line(k)
<1>1. s \in Seq(Nat) /\ p \in Seq(Nat) /\ l \in Seq(Nat) /\ n + 1 \in Nat /\ k.since \in Nat
  BY LineParts DEF Connections
<1>2. Append(p, n + 1) \in Seq(Nat) /\ s \o Append(p, n + 1) = (s \o p) \o <<n + 1>>
  BY <1>1, LastJoins
<1>3. m \in Connections
  BY <1>2 DEF Connections
<1>4. /\ m.sent = k.sent /\ m.held = k.held /\ m.egress = k.egress /\ m.since = k.since
      /\ m.flight = k.flight /\ m.pending = Append(p, n + 1) /\ m.lost = k.lost
  BY DEF Connections
<1>5. Line(m) = l \o <<n + 1>>
  BY <1>2, <1>4 DEF Line
<1>6. <<n + 1>> \in Seq(Nat) /\ ToSet(<<n + 1>>) = {n + 1} /\ Sorted(<<n + 1>>)
  BY <1>1, OneEvent
<1> HIDE DEF s, p, l
<1>7. ToSet(Line(m)) = ToSet(l) \cup {n + 1}
  BY <1>1, <1>5, <1>6, ConcatElements
<1>8. ASSUME Accounted(k, n) PROVE Accounted(m, n + 1)
  <2>1. Sorted(l) /\ ToSet(l) \cap k.lost = {} /\ ToSet(l) \cup k.lost = k.since + 1 .. n
    BY <1>8 DEF Accounted, l
  <2>2. \A x \in ToSet(l) : x < n + 1
    BY <1>1, <2>1
  <2>3. Sorted(Line(m))
    <3>1. Before(l, <<n + 1>>)
      BY <1>6, <2>2 DEF Before
    <3>2. Sorted(l \o <<n + 1>>)
      BY <1>1, <1>6, <2>1, <3>1, ConcatOrder
    <3>3. QED
      BY <1>5, <3>2
  <2>4. n + 1 \notin k.lost
    BY <2>1
  <2>5. k.since + 1 .. n + 1 = (k.since + 1 .. n) \cup {n + 1}
    BY <1>1
  <2>6. QED
    BY <1>4, <1>7, <2>1, <2>3, <2>4, <2>5 DEF Accounted
<1>9. QED
  BY <1>3, <1>8

----------------------------------------------------------------------------
(***************************************************************************)
(* The steps of a connection keep its events accounted for.                *)
(***************************************************************************)

\* An event moves along the line of a connection that has been subscribed.
LEMMA MovesKeep ==
  ASSUME NEW n, NEW k, ConnInv(k, n), NEW m \in Connections, Line(m) = Line(k), ~Blank(k),
         m.serve = k.serve, m.sub = k.sub, m.writer = k.writer, m.since = k.since,
         m.lost = k.lost
  PROVE  ConnInv(m, n)
  BY DEF ConnInv, Accounted

\* A connection's reader or writer goes on; no event moves, or the writer ends.
LEMMA QuietKeeps ==
  ASSUME NEW n, NEW k, ConnInv(k, n), NEW m \in Connections,
         m.serve = k.serve, m.sub = k.sub, m.since = k.since, m.lost = k.lost,
         m.sent = k.sent, m.egress = k.egress, m.flight = k.flight, m.pending = k.pending,
         m.held \in {k.held, None}, m.writer # "done" => k.writer # "done" /\ m.held = k.held
  PROVE  ConnInv(m, n)
<1>1. m.serve \in {"away", "stored"} => Blank(m)
  BY DEF ConnInv, Blank
<1>2. m.sub /\ m.writer # "done" => Accounted(m, n)
  BY DEF ConnInv, Accounted, Line
<1>3. QED
  BY <1>1, <1>2 DEF ConnInv

LEMMA BlankLine ==
  ASSUME NEW k, Blank(k)
  PROVE  Line(k) = <<>>
<1>1. <<>> \o <<>> = <<>>
  BY EmptySeq, ConcatEmptySeq
<1>2. QED
  BY <1>1 DEF Line, Blank, One

LEMMA OneConnection ==
  ASSUME HubInv, NEW c \in Conns, NEW m, conn' = [conn EXCEPT ![c] = m], events' = events,
         ConnInv(m, events[UserOf[c]])
  PROVE  HubInv'
  BY DEF HubInv

LEMMA ServeKeeps ==
  ASSUME HubInv, NEW c \in Conns, ServeWS(c) \/ SubscribeFails(c) \/ Serve(c)
  PROVE  HubInv'
<1> DEFINE k == conn[c]
           n == events[UserOf[c]]
<1>1. ConnInv(k, n) /\ k \in Connections /\ n \in Nat /\ events' = events
  BY WsHubAssumption DEF HubInv, ConnInv, ServeWS, SubscribeFails, Serve, Subscribe, Unsubscribe,
     CloseEgress, Delete
<1>2. CASE ServeWS(c)
  <2> DEFINE m == [k EXCEPT !.serve = "stored", !.open = TRUE]
  <2>1. conn' = [conn EXCEPT ![c] = m] /\ k.serve = "away"
    BY <1>2 DEF ServeWS
  <2>2. ConnInv(m, n)
    BY <1>1, <2>1 DEF Connections, ConnInv, Blank
  <2>3. QED
    BY <1>1, <2>1, <2>2, OneConnection
<1>3. CASE SubscribeFails(c)
  <2> DEFINE m == [k EXCEPT !.serve = "gone", !.open = FALSE]
  <2>1. conn' = [conn EXCEPT ![c] = m] /\ k.serve = "stored"
    BY <1>3 DEF SubscribeFails
  <2>2. ConnInv(m, n)
    BY <1>1, <2>1 DEF Connections, ConnInv
  <2>3. QED
    BY <1>1, <2>1, <2>2, OneConnection
<1>4. CASE Subscribe(c)
  <2> DEFINE m == [k EXCEPT !.serve = "listening", !.sub = TRUE, !.since = n,
                            !.reader = "reading", !.writer = "waiting"]
  <2>1. conn' = [conn EXCEPT ![c] = m] /\ k.serve = "stored"
    BY <1>4 DEF Subscribe
  <2>2. m \in Connections /\ m.since = n /\ m.serve = "listening" /\ Blank(m)
    BY <1>1, <2>1 DEF Connections, ConnInv, Blank
  <2>3. Accounted(m, n)
    <3>1. Line(m) = <<>>
      BY <2>2, BlankLine
    <3>2. n + 1 .. n = {}
      BY <1>1
    <3>3. QED
      BY <2>2, <3>1, <3>2, OneEvent DEF Accounted, Blank
  <2> HIDE DEF m
  <2>4. ConnInv(m, n)
    BY <1>1, <2>2, <2>3 DEF ConnInv
  <2>5. QED
    BY <1>1, <2>1, <2>4, OneConnection
<1>5. CASE Unsubscribe(c)
  <2> DEFINE m == [k EXCEPT !.serve = "unsubscribed", !.sub = FALSE, !.pending = <<>>]
  <2>1. conn' = [conn EXCEPT ![c] = m]
    BY <1>5 DEF Unsubscribe
  <2>2. ConnInv(m, n)
    BY <1>1, EmptySeq DEF Connections, ConnInv
  <2>3. QED
    BY <1>1, <2>1, <2>2, OneConnection
<1>6. CASE CloseEgress(c)
  <2> DEFINE m == [k EXCEPT !.serve = "closed", !.closed = TRUE]
  <2>1. conn' = [conn EXCEPT ![c] = m] /\ k.serve = "unsubscribed"
    BY <1>6 DEF CloseEgress
  <2>2. ConnInv(m, n)
    BY <1>1, <2>1 DEF Connections, ConnInv
  <2>3. QED
    BY <1>1, <2>1, <2>2, OneConnection
<1>7. CASE Delete(c)
  <2> DEFINE m == [k EXCEPT !.serve = "gone"]
  <2>1. conn' = [conn EXCEPT ![c] = m] /\ k.serve = "closed"
    BY <1>7 DEF Delete
  <2>2. ConnInv(m, n)
    BY <1>1, <2>1 DEF Connections, ConnInv
  <2>3. QED
    BY <1>1, <2>1, <2>2, OneConnection
<1>8. QED
  BY <1>2, <1>3, <1>4, <1>5, <1>6, <1>7 DEF Serve

LEMMA EventKeeps ==
  ASSUME HubInv, NEW c \in Conns,
         Callback(c) \/ SendEvent(c) \/ DropEvent(c) \/ TakeEvent(c) \/ WriteEvent(c)
  PROVE  HubInv'
<1> DEFINE k == conn[c]
           n == events[UserOf[c]]
<1>1. ConnInv(k, n) /\ k \in Connections /\ events' = events
  BY DEF HubInv, ConnInv, Callback, SendEvent, DropEvent, TakeEvent, WriteEvent
<1>2. CASE Callback(c)
  <2> DEFINE m == [k EXCEPT !.flight = Head(k.pending), !.pending = Tail(k.pending)]
  <2>1. conn' = [conn EXCEPT ![c] = m] /\ k.flight = None /\ k.pending # <<>>
    BY <1>2 DEF Callback
  <2>2. m \in Connections /\ Line(m) = Line(k) /\ ~Blank(k)
    BY <1>1, <2>1, CallbackMoves DEF Blank
  <2>3. /\ m.serve = k.serve /\ m.sub = k.sub /\ m.writer = k.writer /\ m.since = k.since
        /\ m.lost = k.lost
    BY <1>1 DEF Connections
  <2> HIDE DEF m
  <2>4. ConnInv(m, n)
    BY <1>1, <2>2, <2>3, MovesKeep
  <2>5. QED
    BY <1>1, <2>1, <2>4, OneConnection
<1>3. CASE SendEvent(c)
  <2> DEFINE m == [k EXCEPT !.flight = None, !.egress = Append(k.egress, k.flight)]
  <2>1. conn' = [conn EXCEPT ![c] = m] /\ k.flight # None
    BY <1>3 DEF SendEvent, InFlight
  <2>2. m \in Connections /\ Line(m) = Line(k) /\ ~Blank(k)
    BY <1>1, <2>1, SendMoves DEF Blank
  <2>3. /\ m.serve = k.serve /\ m.sub = k.sub /\ m.writer = k.writer /\ m.since = k.since
        /\ m.lost = k.lost
    BY <1>1 DEF Connections
  <2> HIDE DEF m
  <2>4. ConnInv(m, n)
    BY <1>1, <2>2, <2>3, MovesKeep
  <2>5. QED
    BY <1>1, <2>1, <2>4, OneConnection
<1>4. CASE TakeEvent(c)
  <2> DEFINE m == [k EXCEPT !.held = Head(k.egress), !.egress = Tail(k.egress)]
  <2>1. conn' = [conn EXCEPT ![c] = m] /\ k.held = None /\ k.egress # <<>>
    BY <1>4 DEF TakeEvent, Waiting
  <2>2. m \in Connections /\ Line(m) = Line(k) /\ ~Blank(k)
    BY <1>1, <2>1, TakeMoves DEF Blank
  <2>3. /\ m.serve = k.serve /\ m.sub = k.sub /\ m.writer = k.writer /\ m.since = k.since
        /\ m.lost = k.lost
    BY <1>1 DEF Connections
  <2> HIDE DEF m
  <2>4. ConnInv(m, n)
    BY <1>1, <2>2, <2>3, MovesKeep
  <2>5. QED
    BY <1>1, <2>1, <2>4, OneConnection
<1>5. CASE WriteEvent(c)
  <2> DEFINE m == [k EXCEPT !.held = None, !.sent = Append(k.sent, k.held)]
  <2>1. conn' = [conn EXCEPT ![c] = m] /\ k.held # None
    BY <1>5 DEF WriteEvent
  <2>2. m \in Connections /\ Line(m) = Line(k) /\ ~Blank(k)
    BY <1>1, <2>1, WriteMoves DEF Blank
  <2>3. /\ m.serve = k.serve /\ m.sub = k.sub /\ m.writer = k.writer /\ m.since = k.since
        /\ m.lost = k.lost
    BY <1>1 DEF Connections
  <2> HIDE DEF m
  <2>4. ConnInv(m, n)
    BY <1>1, <2>2, <2>3, MovesKeep
  <2>5. QED
    BY <1>1, <2>1, <2>4, OneConnection
<1>6. CASE DropEvent(c)
  <2> DEFINE m == [k EXCEPT !.flight = None, !.lost = k.lost \cup {k.flight}]
  <2>1. conn' = [conn EXCEPT ![c] = m] /\ k.flight # None
    BY <1>6 DEF DropEvent, InFlight
  <2>2. m \in Connections /\ (Accounted(k, n) => Accounted(m, n)) /\ ~Blank(k)
    BY <1>1, <2>1, DropAccounted DEF Blank
  <2>3. m.serve = k.serve /\ m.sub = k.sub /\ m.writer = k.writer /\ m.since = k.since
    BY <1>1 DEF Connections
  <2> HIDE DEF m
  <2>4. ConnInv(m, n)
    BY <1>1, <2>2, <2>3 DEF ConnInv
  <2>5. QED
    BY <1>1, <2>1, <2>4, OneConnection
<1>7. QED
  BY <1>2, <1>3, <1>4, <1>5, <1>6

LEMMA ReaderKeeps ==
  ASSUME HubInv, NEW c \in Conns,
         ReadMessages(c) \/ CloseDone(c) \/ WriteFails(c) \/ WriteMessages(c)
  PROVE  HubInv'
<1> DEFINE k == conn[c]
           n == events[UserOf[c]]
<1>1. ConnInv(k, n) /\ k \in Connections /\ events' = events
  BY DEF HubInv, ConnInv, ReadMessages, CloseDone, WriteFails, WriteMessages
<1>2. ASSUME NEW step \in {"shutdown", "done"}, conn' = [conn EXCEPT ![c].reader = step]
      PROVE  HubInv'
  <2> DEFINE m == [k EXCEPT !.reader = step]
  <2>1. conn' = [conn EXCEPT ![c] = m]
    BY <1>2
  <2>2. ConnInv(m, n)
    <3>1. m \in Connections
      BY <1>1 DEF Connections
    <3>2. /\ m.serve = k.serve /\ m.sub = k.sub /\ m.since = k.since /\ m.lost = k.lost
          /\ m.sent = k.sent /\ m.egress = k.egress /\ m.flight = k.flight
          /\ m.pending = k.pending /\ m.held = k.held /\ m.writer = k.writer
      BY <1>1 DEF Connections
    <3> HIDE DEF m
    <3>3. QED
      BY <1>1, <3>1, <3>2, QuietKeeps
  <2>3. QED
    BY <1>1, <2>1, <2>2, OneConnection
<1>3. CASE EndWriter(c)
  <2> DEFINE m == [k EXCEPT !.writer = "done", !.held = None, !.open = FALSE]
  <2>1. conn' = [conn EXCEPT ![c] = m]
    BY <1>3 DEF EndWriter
  <2>2. ConnInv(m, n)
    <3>1. m \in Connections
      BY <1>1 DEF Connections
    <3>2. QED
      BY <1>1, <3>1, QuietKeeps DEF Connections
  <2>3. QED
    BY <1>1, <2>1, <2>2, OneConnection
<1>4. QED
  BY <1>2, <1>3 DEF ReadMessages, CloseDone, WriteFails, WriteMessages

LEMMA PublishKeeps ==
  ASSUME HubInv, NEW u \in Users, Publish(u)
  PROVE  HubInv'
<1>1. /\ events[u] \in Nat /\ events' \in [Users -> Nat] /\ events'[u] = events[u] + 1
      /\ \A v \in Users \ {u} : events'[v] = events[v]
      /\ DOMAIN conn' = Conns
  BY DEF HubInv, Publish
<1>2. ASSUME NEW c \in Conns PROVE ConnInv(conn'[c], events'[UserOf[c]])
  <2> DEFINE k == conn[c]
             n == events[u]
             m == [k EXCEPT !.pending = Append(k.pending, n + 1)]
  <2>1. ConnInv(k, events[UserOf[c]]) /\ k \in Connections /\ UserOf[c] \in Users
    BY WsHubAssumption DEF HubInv, ConnInv
  <2>2. CASE ~(k.sub /\ UserOf[c] = u)
    <3>1. conn'[c] = k
      BY <2>2 DEF Publish
    <3>2. k.sub => events'[UserOf[c]] = events[UserOf[c]]
      BY <1>1, <2>1, <2>2
    <3>3. QED
      BY <2>1, <3>1, <3>2 DEF ConnInv
  <2>3. CASE k.sub /\ UserOf[c] = u
    <3>1. conn'[c] = m
      BY <2>3 DEF Publish
    <3>2. k.serve = "listening" /\ k.since <= n /\ n \in Nat /\ k.since \in Nat
      BY <1>1, <2>1, <2>3 DEF ConnInv, Connections
    <3>3. m \in Connections /\ (Accounted(k, n) => Accounted(m, n + 1))
      BY <2>1, <3>2, PublishAccounted
    <3>4. m.serve = k.serve /\ m.sub = k.sub /\ m.writer = k.writer /\ m.since = k.since
      BY <2>1 DEF Connections
    <3> HIDE DEF m
    <3>5. ConnInv(m, n + 1)
      BY <2>1, <2>3, <3>2, <3>3, <3>4 DEF ConnInv
    <3>6. QED
      BY <1>1, <2>3, <3>1, <3>5
  <2>4. QED
    BY <2>2, <2>3
<1>3. QED
  BY <1>1, <1>2 DEF HubInv

LEMMA RestartKeeps ==
  ASSUME HubInv, WsHubRestart
  PROVE  HubInv'
<1>1. ASSUME NEW c \in Conns PROVE ConnInv(conn'[c], events[UserOf[c]])
  <2> DEFINE k == conn[c]
             m == [Away EXCEPT !.serve = "gone", !.reader = "done", !.writer = "done",
                               !.sent = k.sent, !.lost = k.lost]
  <2>1. k \in Connections /\ conn'[c] \in {Away, m}
    BY DEF HubInv, ConnInv, WsHubRestart
  <2>2. ConnInv(Away, events[UserOf[c]])
    BY EmptySeq DEF Away, ConnInv, Connections, Blank
  <2>3. k.sent \in Seq(Nat) /\ k.lost \in SUBSET Nat
    BY <2>1 DEF Connections
  <2>4. Away \in Connections
    BY EmptySeq DEF Away, Connections
  <2>5. m \in Connections
    BY <2>3, <2>4 DEF Connections
  <2>6. m.serve = "gone" /\ ~m.sub
    BY DEF Away
  <2> HIDE DEF m
  <2>7. ConnInv(m, events[UserOf[c]])
    BY <2>5, <2>6 DEF ConnInv
  <2>8. QED
    BY <2>1, <2>2, <2>7
<1>2. QED
  BY <1>1 DEF HubInv, WsHubRestart

LEMMA HubKeeps == HubInv /\ [Next]_vars => HubInv'
<1> SUFFICES ASSUME HubInv, [Next]_vars PROVE HubInv'
  OBVIOUS
<1>1. CASE WsHubNext
  BY <1>1, ServeKeeps, EventKeeps, ReaderKeeps, PublishKeeps DEF WsHubNext, WriteOut
<1>2. CASE WsHubRestart
  BY <1>2, RestartKeeps
<1>3. ASSUME NEW c \in Conns, DropEvent(c) PROVE HubInv'
  BY <1>3, EventKeeps
<1>4. CASE UNCHANGED hubVars
  BY <1>4 DEF hubVars, HubInv
<1>5. QED
  BY <1>1, <1>2, <1>3, <1>4 DEF Next, vars, DropWithWarning, Restart

LEMMA HubInit == WsHubInit => HubInv
<1>1. ConnInv(Away, 0)
  BY EmptySeq DEF Away, ConnInv, Connections, Blank
<1>2. QED
  BY <1>1, WsHubAssumption DEF WsHubInit, HubInv

\* For any number of users, connections, channel capacity and events, and
\* whenever connections end or the process restarts: what ws.go and pkg/manager
\* do with a user's events neither loses one silently nor reorders any.
THEOREM EventsAccounted == Spec => []EveryEventIsAccounted
<1>1. Init => HubInv
  BY HubInit DEF Init
<1>2. HubInv => EveryEventIsAccounted
  BY DEF HubInv, ConnInv, Accounted, Sorted, Line, EveryEventIsAccounted
<1>3. QED
  BY <1>1, <1>2, HubKeeps, PTL DEF Spec

----------------------------------------------------------------------------
(***************************************************************************)
(* What the log tells of dropped events.                                   *)
(***************************************************************************)
LEMMA LinesGrow ==
  ASSUME LogRotationTypeOK, NEW line, Write(line)
  PROVE  (Lines \cup missed)' = Lines \cup missed \cup {line}
<1>1. CASE writer \in Nowhere
  BY <1>1 DEF Write, Lines
<1>2. CASE writer \notin Nowhere
  <2>1. /\ writer \in DOMAIN files /\ DOMAIN files' = DOMAIN files /\ missed' = missed
        /\ files'[writer] = files[writer] \cup {line}
        /\ \A d \in DOMAIN files \ {writer} : files'[d] = files[d]
    BY <1>2 DEF LogRotationTypeOK, Write
  <2>2. \A x : x \in Lines <=> \E d \in DOMAIN files : x \in files[d]
    BY DEF Lines
  <2>3. \A x : x \in Lines' <=> \E d \in DOMAIN files' : x \in files'[d]
    BY DEF Lines
  <2>4. \A x : x \in Lines' <=> x \in Lines \/ x = line
    BY <2>1, <2>2, <2>3
  <2>5. QED
    BY <2>1, <2>4
<1>3. QED
  BY <1>1, <1>2

\* Neither uploads nor rotations nor a restart lose a line.
LEMMA LinesStay ==
  ASSUME Rotation \/ LogRotationRestart \/ UNCHANGED logVars
  PROVE  (Lines \cup missed)' = Lines \cup missed
<1>1. ASSUME NEW f, files' = Opened(f) PROVE Lines' = Lines
  <2>1. \A x : x \in Lines <=> \E d \in DOMAIN files : x \in files[d]
    BY DEF Lines
  <2>2. \A x : x \in Lines' <=> \E d \in DOMAIN files' : x \in files'[d]
    BY DEF Lines
  <2>3. /\ DOMAIN files' = DOMAIN files \cup {f}
        /\ \A d \in DOMAIN files : files'[d] = files[d]
        /\ f \notin DOMAIN files => files'[f] = {}
    BY <1>1 DEF Opened, LinesOf
  <2>4. \A x : x \in Lines' <=> x \in Lines
    BY <2>1, <2>2, <2>3
  <2>5. QED
    BY <2>4
<1>2. ASSUME UNCHANGED files PROVE Lines' = Lines
  BY <1>2 DEF Lines
<1>3. ASSUME RotateToNewDay \/ LogRotationRestart PROVE Lines' = Lines
  BY <1>1, <1>2, <1>3 DEF RotateToNewDay, Rotates, OpenFails, SwapFails, LogRotationRestart
<1>4. ASSUME UploadToday \/ UploadSucceeds \/ UploadFails \/ Pass \/ UNCHANGED logVars
      PROVE  Lines' = Lines
  BY <1>2, <1>4 DEF UploadToday, UploadSucceeds, UploadFails, Pass, logVars
<1>5. missed' = missed
  BY DEF Rotation, UploadToday, UploadSucceeds, UploadFails, RotateToNewDay, Pass,
         LogRotationRestart, logVars
<1>6. QED
  BY <1>3, <1>4, <1>5 DEF Rotation

LossesStay == \A c \in Conns : conn'[c].lost = conn[c].lost

LEMMA HubLosesNone ==
  ASSUME HubInv, WsHubNext \/ WsHubRestart \/ UNCHANGED hubVars
  PROVE  LossesStay
<1>0. \A c \in Conns : c \in DOMAIN conn /\ "lost" \in DOMAIN conn[c]
  BY DEF HubInv, ConnInv, Connections
<1> USE DEF LossesStay
<1>1. ASSUME NEW c \in Conns, ServeWS(c) \/ SubscribeFails(c) \/ Serve(c) PROVE LossesStay
  <2>1. CASE ServeWS(c) \/ SubscribeFails(c)
    BY <1>0, <2>1 DEF ServeWS, SubscribeFails
  <2>2. CASE Subscribe(c)
    BY <1>0, <2>2 DEF Subscribe
  <2>3. CASE Unsubscribe(c) \/ CloseEgress(c) \/ Delete(c)
    BY <1>0, <2>3 DEF Unsubscribe, CloseEgress, Delete
  <2>4. QED
    BY <1>1, <2>1, <2>2, <2>3 DEF Serve
<1>2. ASSUME NEW c \in Conns, Callback(c) \/ SendEvent(c) PROVE LossesStay
  <2>1. CASE Callback(c)
    BY <1>0, <2>1 DEF Callback
  <2>2. CASE SendEvent(c)
    BY <1>0, <2>2 DEF SendEvent
  <2>3. QED
    BY <1>2, <2>1, <2>2
<1>3. ASSUME NEW c \in Conns, ReadMessages(c) \/ CloseDone(c) \/ WriteOut(c) \/ WriteFails(c)
      PROVE  LossesStay
  <2>1. CASE ReadMessages(c) \/ CloseDone(c)
    BY <1>0, <2>1 DEF ReadMessages, CloseDone
  <2>2. CASE TakeEvent(c)
    BY <1>0, <2>2 DEF TakeEvent
  <2>3. CASE WriteEvent(c)
    BY <1>0, <2>3 DEF WriteEvent
  <2>4. CASE WriteMessages(c) \/ WriteFails(c)
    BY <1>0, <2>4 DEF WriteMessages, WriteFails, EndWriter
  <2>5. QED
    BY <1>3, <2>1, <2>2, <2>3, <2>4 DEF WriteOut
<1>4. ASSUME NEW u \in Users, Publish(u) PROVE LossesStay
  BY <1>0, <1>4 DEF Publish
<1>5. CASE WsHubRestart
  <2>1. \A c \in Conns : conn[c].serve = "away" => conn[c].lost = {}
    BY DEF HubInv, ConnInv, Blank
  <2>2. QED
    BY <1>0, <1>5, <2>1 DEF WsHubRestart, Away
<1>6. CASE UNCHANGED hubVars
  BY <1>6 DEF hubVars
<1>7. QED
  BY <1>1, <1>2, <1>3, <1>4, <1>5, <1>6 DEF WsHubNext

RecordInv == LogInv /\ HubInv /\ DropsAreOnRecord

LEMMA RecordStep == RecordInv /\ [Next]_vars => RecordInv'
<1> SUFFICES ASSUME RecordInv, [Next]_vars PROVE RecordInv'
  OBVIOUS
<1>0. LogInv' /\ HubInv'
  BY ProcessSteps, TypesKeep, OnTimeKeeps, HubKeeps DEF RecordInv, LogInv
<1>1. /\ \A x : x \in UNION {{c} \X conn[c].lost : c \in Conns}
                  <=> \E c \in Conns : \E e \in conn[c].lost : x = <<c, e>>
      /\ \A x : x \in UNION {{c} \X conn'[c].lost : c \in Conns}
                  <=> \E c \in Conns : \E e \in conn'[c].lost : x = <<c, e>>
  OBVIOUS
<1>2. ASSUME (Lines \cup missed)' = Lines \cup missed, LossesStay PROVE DropsAreOnRecord'
  BY <1>1, <1>2 DEF RecordInv, DropsAreOnRecord, LossesStay
<1>3. ASSUME NEW c \in Conns, DropWithWarning(c) PROVE DropsAreOnRecord'
  <2>1. (Lines \cup missed)' = Lines \cup missed \cup {<<c, conn[c].flight>>}
    BY <1>3, LinesGrow DEF DropWithWarning, RecordInv, LogInv
  <2>2. /\ conn'[c].lost = conn[c].lost \cup {conn[c].flight}
        /\ \A d \in Conns \ {c} : conn'[d].lost = conn[d].lost
    BY <1>3 DEF DropWithWarning, DropEvent, RecordInv, HubInv, ConnInv, Connections
  <2>3. \A x : x \in Lines \cup missed <=> \E d \in Conns : \E e \in conn[d].lost : x = <<d, e>>
    BY <1>1 DEF RecordInv, DropsAreOnRecord
  <2>4. \A x : x \in (Lines \cup missed)' <=> \E d \in Conns : \E e \in conn'[d].lost : x = <<d, e>>
    BY <2>1, <2>2, <2>3
  <2>5. QED
    BY <1>1, <2>4 DEF DropsAreOnRecord
<1>4. ASSUME Rotation \/ LogRotationRestart \/ UNCHANGED logVars,
             WsHubNext \/ WsHubRestart \/ UNCHANGED hubVars
      PROVE  DropsAreOnRecord'
  <2>1. (Lines \cup missed)' = Lines \cup missed
    BY <1>4, LinesStay
  <2>2. LossesStay
    BY <1>4, HubLosesNone DEF RecordInv
  <2>3. QED
    BY <1>2, <2>1, <2>2
<1>5. ASSUME WsHubNext /\ UNCHANGED <<logVars, restarts>> PROVE DropsAreOnRecord'
  BY <1>4, <1>5
<1>6. ASSUME Rotation /\ UNCHANGED <<hubVars, restarts>> PROVE DropsAreOnRecord'
  BY <1>4, <1>6
<1>7. ASSUME Restart \/ UNCHANGED vars PROVE DropsAreOnRecord'
  BY <1>4, <1>7 DEF Restart, vars
<1>8. DropsAreOnRecord'
  BY <1>3, <1>5, <1>6, <1>7 DEF Next
<1>9. QED
  BY <1>0, <1>8 DEF RecordInv

\* Every event ws.go drops for a slow client is told of in one of the log files
\* on disk, whatever rotations, failed uploads, failed rotations and restarts
\* there are between, unless the logger had no open file to write to.
THEOREM DropsOnRecord == Spec => []DropsAreOnRecord
<1>1. Init => RecordInv
  <2> SUFFICES ASSUME Init PROVE RecordInv
    OBVIOUS
  <2>1. LogInv /\ HubInv
    BY InitKeeps, HubInit DEF Init
  <2>2. Lines \cup missed = {}
    BY DEF Init, LogRotationInit, Lines
  <2>3. \A c \in Conns : conn[c].lost = {}
    BY DEF Init, WsHubInit, Away
  <2>4. UNION {{c} \X conn[c].lost : c \in Conns} = {}
    BY <2>3
  <2>5. QED
    BY <2>1, <2>2, <2>4 DEF RecordInv, DropsAreOnRecord
<1>2. RecordInv => DropsAreOnRecord
  BY DEF RecordInv
<1>3. QED
  BY <1>1, <1>2, RecordStep, PTL DEF Spec

============================================================================
