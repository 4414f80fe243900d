------------------------------ MODULE Session ------------------------------
(***************************************************************************)
(* Sessions and tokens (pkg/oauth2, the session rows, the Protect          *)
(* middleware).  An issue signs an access and a refresh token with the     *)
(* same claims, so the claims stand for both; they are stamped in seconds, *)
(* and two issues of a session in one second give equal tokens.  Redis     *)
(* keeps the last refresh token of a session and a mark on sessions        *)
(* revoked by somebody else.  Keys and tokens expire as the clock advances.*)
(***************************************************************************)
EXTENDS Integers, FiniteSets

CONSTANTS
    Nil,
    Slots,          \* request goroutines
    Sessions,       \* ids createSession may draw
    AccessExpiry, RefreshExpiry,
    MaxClock,       \* bound on time
    RedisFails      \* BOOLEAN: calls to Redis may fail

ASSUME SessionAssumption ==
    /\ AccessExpiry \in Nat \ {0} /\ RefreshExpiry \in Nat \ {0}
    /\ MaxClock \in Nat /\ RedisFails \in BOOLEAN
    /\ Nil \notin Nat

VARIABLES
    clock,
    drawn,      \* session ids drawn so far
    rows,       \* session -> its row in srg_sessions, or Nil
    stored,     \* session -> claims of the refresh token Redis keeps, or Nil
    marks,      \* session -> when its revocation mark expires, or Nil
    tokens,     \* claims handed out so far
    pc,         \* slot -> step of its request
    mine,       \* slot -> claims the request was sent with, or is to issue
    issues,     \* history: session -> pairs stored
    exchanges,  \* history: session -> refresh tokens accepted
    strays      \* history: sessions revoked while Redis failed or an issue was under way

redisVars == <<stored, marks, tokens, issues, exchanges, strays>>
sessionVars == <<clock, drawn, rows, redisVars>>

SessionInit ==
    /\ clock = 0 /\ drawn = {}
    /\ rows = [s \in Sessions |-> Nil]
    /\ stored = [s \in Sessions |-> Nil]
    /\ marks = [s \in Sessions |-> Nil]
    /\ tokens = {} /\ strays = {}
    /\ pc = [q \in Slots |-> "idle"]
    /\ mine = [q \in Slots |-> Nil]
    /\ issues = [s \in Sessions |-> 0]
    /\ exchanges = [s \in Sessions |-> 0]

Goto(q, step) == pc' = [pc EXCEPT ![q] = step]

----------------------------------------------------------------------------
(***************************************************************************)
(* pkg/oauth2.                                                             *)
(***************************************************************************)
generateToken(s, u, role) == [session |-> s, user |-> u, role |-> role, iat |-> clock]

\* A signed token that has not expired.
validateToken(t, expiry) == t \in tokens /\ clock < t.iat + expiry

ValidateAccessToken(t) == validateToken(t, AccessExpiry)

\* The refresh token Redis keeps for a session, until its expiry.
Kept(s) == IF stored[s] # Nil /\ clock < stored[s].iat + RefreshExpiry THEN stored[s] ELSE Nil

\* The pair is signed for the session and the refresh token stored.
GenerateTokenPair(t) ==
    /\ stored' = [stored EXCEPT ![t.session] = t]
    /\ tokens' = tokens \cup {t}
    /\ issues' = [issues EXCEPT ![t.session] = @ + 1]
    /\ UNCHANGED <<marks, exchanges, strays>>

\* Mutant: the key is read, and not deleted in the same step.
ValidateRefreshToken_KeepsKey(t) ==
    /\ validateToken(t, RefreshExpiry)
    /\ Kept(t.session) # Nil /\ Kept(t.session) = t
    /\ exchanges' = [exchanges EXCEPT ![t.session] = @ + 1]
    /\ UNCHANGED <<stored, marks, tokens, issues, strays>>

\* The token is good: the stored one, which this transaction deletes.
ValidateRefreshToken(t) ==
    /\ validateToken(t, RefreshExpiry)
    /\ Kept(t.session) # Nil /\ Kept(t.session) = t
    /\ stored' = [stored EXCEPT ![t.session] = Nil]
    /\ exchanges' = [exchanges EXCEPT ![t.session] = @ + 1]
    /\ UNCHANGED <<marks, tokens, issues, strays>>

\* An older token of the session is refused, yet the key is gone.
RefusedRefresh(t) ==
    /\ validateToken(t, RefreshExpiry)
    /\ Kept(t.session) # t
    /\ stored' = [stored EXCEPT ![t.session] = Nil]
    /\ UNCHANGED <<marks, tokens, issues, exchanges, strays>>

\* A request is about to store a refresh token of the session.
Issuing(s) == \E q \in Slots :
    pc[q] \in {"refreshed", "issue"} /\ mine[q].session = s

\* The refresh key is deleted; callers ignore a failure.
RevokeSession(s) ==
    /\ \/ /\ stored' = [stored EXCEPT ![s] = Nil]
          /\ strays' = IF Issuing(s) THEN strays \cup {s} ELSE strays
       \/ /\ RedisFails
          /\ strays' = strays \cup {s}
          /\ UNCHANGED stored
    /\ UNCHANGED <<marks, tokens, issues, exchanges>>

\* Mutant: the mark goes a second too early.
MarkSessionRevoked_Short(s) ==
    /\ marks' = [marks EXCEPT ![s] = clock + AccessExpiry - 1]
    /\ UNCHANGED <<stored, tokens, issues, exchanges, strays>>

\* The mark lasts as long as an access token; callers ignore a failure.
MarkSessionRevoked(s) ==
    /\ \/ /\ marks' = [marks EXCEPT ![s] = clock + AccessExpiry]
          /\ UNCHANGED strays
       \/ /\ RedisFails
          /\ strays' = strays \cup {s}
          /\ UNCHANGED marks
    /\ UNCHANGED <<stored, tokens, issues, exchanges>>

IsSessionRevoked(s) == marks[s] # Nil /\ clock < marks[s]

----------------------------------------------------------------------------
(***************************************************************************)
(* The row is created first and the pair issued next; when that fails the  *)
(* row is deleted again.                                                   *)
(***************************************************************************)
createSession(q, u, role) == \E s \in Sessions \ drawn :
    /\ drawn' = drawn \cup {s}
    /\ rows' = [rows EXCEPT ![s] = [user |-> u, expires |-> clock + RefreshExpiry,
                                    revoked |-> Nil, forced |-> FALSE]]
    /\ mine' = [mine EXCEPT ![q] = generateToken(s, u, role)]
    /\ Goto(q, "issue")
    /\ UNCHANGED <<clock, redisVars>>

\* The two tokens are stamped when they are signed.
Restamp(t) == generateToken(t.session, t.user, t.role)

\* GenerateTokenPair as createSession and RefreshToken call it.
IssuePair(q) ==
    /\ pc[q] \in {"issue", "refreshed"}
    /\ GenerateTokenPair(Restamp(mine[q]))
    /\ Goto(q, "idle")
    /\ mine' = [mine EXCEPT ![q] = Nil]
    /\ UNCHANGED <<clock, drawn, rows>>

\* Redis refuses the pair: a new session's row is deleted, an old one's stays.
IssueFails(q) ==
    /\ RedisFails /\ pc[q] \in {"issue", "refreshed"}
    /\ IF pc[q] = "issue"
       THEN /\ Goto(q, "undo") /\ UNCHANGED mine
       ELSE /\ Goto(q, "idle") /\ mine' = [mine EXCEPT ![q] = Nil]
    /\ UNCHANGED sessionVars

DeleteRow(q) ==
    /\ pc[q] = "undo"
    /\ rows' = [rows EXCEPT ![mine[q].session] = Nil]
    /\ mine' = [mine EXCEPT ![q] = Nil]
    /\ Goto(q, "idle")
    /\ UNCHANGED <<clock, drawn, redisVars>>

\* The row of a session is marked; forced when somebody else than its user
\* at that session asked for it.
MarkRow(s, forced) ==
    rows' = [rows EXCEPT ![s] = IF @ = Nil THEN Nil
                                ELSE [@ EXCEPT !.revoked = clock, !.forced = forced]]

Tick ==
    /\ clock < MaxClock
    /\ clock' = clock + 1
    /\ UNCHANGED <<drawn, rows, redisVars, pc, mine>>
============================================================================
