--------------------------- MODULE AccountsProofs ---------------------------
(***************************************************************************)
(* What is proved of Accounts for any number of users, sessions, request   *)
(* goroutines and restarts, with or without Redis failing: the accounting  *)
(* of refresh tokens; what saves of whole rows keep, avatar files          *)
(* included; that closed sessions stay closed; what a password change      *)
(* leaves behind.                                                          *)
(***************************************************************************)
EXTENDS Accounts, TLAPS

\* What the handlers do to the refresh tokens in Redis.
TokenStep ==
    \/ \E t : GenerateTokenPair(t) \/ ValidateRefreshToken(t) \/ RefusedRefresh(t)
    \/ \E s : stored' = [stored EXCEPT ![s] = Nil] /\ UNCHANGED <<issues, exchanges>>
    \/ UNCHANGED <<stored, issues, exchanges>>

Counters ==
    /\ issues \in [Sessions -> Nat] /\ exchanges \in [Sessions -> Nat]
    /\ DOMAIN stored = Sessions

TokenInv == Counters /\ EachIssueIsExchangedOnce

----------------------------------------------------------------------------
(***************************************************************************)
(* Every handler's step is such a step.                                    *)
(***************************************************************************)
LEMMA RevokeSteps ==
  ASSUME NEW s, RevokeSession(s)
  PROVE  TokenStep
  BY DEF RevokeSession, TokenStep

LEMMA SignInSteps ==
  ASSUME NEW q \in Slots, SignIn(q)
  PROVE  TokenStep
<1> USE DEF Same
<1>1. CASE Register(q) \/ Login(q) \/ OpenSession(q)
  BY <1>1 DEF Register, Login, OpenSession, createSession, sessionVars, redisVars, TokenStep
<1>2. CASE RefreshToken(q)
  BY <1>2 DEF RefreshToken, TokenStep
<1>3. CASE GoogleLogin(q) \/ GoogleCallback(q) \/ DropState(q) \/ ResolveGoogleUser(q)
           \/ GoogleFails(q)
  BY <1>3 DEF GoogleLogin, GoogleCallback, DropState, ResolveGoogleUser, GoogleFails,
              sessionVars, redisVars, TokenStep
<1>4. CASE SyncAvatar(q) \/ LinkAccount(q) \/ AdmitLinked(q)
  BY <1>4 DEF SyncAvatar, LinkAccount, AdmitLinked, sessionVars, redisVars, TokenStep
<1>5. CASE Logout(q)
  BY <1>5, RevokeSteps DEF Logout
<1>6. CASE LogoutRow(q)
  BY <1>6 DEF LogoutRow, redisVars, TokenStep
<1>7. CASE IssuePair(q)
  BY <1>7 DEF IssuePair, TokenStep
<1>8. CASE IssueFails(q) \/ DeleteRow(q)
  BY <1>8 DEF IssueFails, DeleteRow, sessionVars, redisVars, TokenStep
<1>9. QED
  BY <1>1, <1>2, <1>3, <1>4, <1>5, <1>6, <1>7, <1>8 DEF SignIn

LEMMA ProfileSteps ==
  ASSUME NEW q \in Slots, Profile(q)
  PROVE  TokenStep
<1> USE DEF Same
<1>1. CASE UpdateProfile(q) \/ Save(q) \/ SaveFails(q) \/ UploadAvatar(q) \/ ReplaceAvatar(q) \/ RemoveAvatar(q)
  BY <1>1 DEF UpdateProfile, Save, SaveFails, UploadAvatar, ReplaceAvatar, RemoveAvatar,
              sessionVars, redisVars, TokenStep
<1>2. CASE ChangePassword(q) \/ SavePassword(q) \/ ListOtherSessions(q)
  BY <1>2 DEF ChangePassword, SavePassword, ListOtherSessions, sessionVars, redisVars, TokenStep
<1>3. CASE RevokeKey(q)
  BY <1>3, RevokeSteps DEF RevokeKey
<1>4. CASE WriteMark(q)
  BY <1>4 DEF WriteMark, MarkSessionRevoked, TokenStep
<1>5. CASE RevokeRow(q)
  BY <1>5 DEF RevokeRow, redisVars, TokenStep
<1>6. QED
  BY <1>1, <1>2, <1>3, <1>4, <1>5 DEF Profile

LEMMA AdminSteps ==
  ASSUME NEW q \in Slots, Administer(q)
  PROVE  TokenStep
  BY DEF Administer, AdminCreateUser, AdminUpdateUserRole, AdminUpdateUserStatus,
         AdminDeleteUser, AdminAddPolicy, AdminRemovePolicy, AdminRevokeSession,
         Same, sessionVars, redisVars, TokenStep

LEMMA AccountSteps ==
  ASSUME [Next]_vars
  PROVE  TokenStep
<1> USE DEF Same, sessionVars, redisVars
<1>1. ASSUME NEW q \in Slots, Protect(q) \/ Answer(q) PROVE TokenStep
  BY <1>1 DEF Protect, Answer, TokenStep
<1>2. CASE StateExpires \/ Restart
  BY <1>2 DEF StateExpires, Restart, TokenStep
<1>3. CASE Tick
  BY <1>3 DEF Tick, TokenStep
<1>4. CASE UNCHANGED vars
  BY <1>4 DEF vars, TokenStep
<1>5. QED
  BY <1>1, <1>2, <1>3, <1>4, SignInSteps, ProfileSteps, AdminSteps DEF Next

----------------------------------------------------------------------------
(***************************************************************************)
(* The steps keep the account.                                             *)
(***************************************************************************)
LEMMA CountUp ==
  ASSUME NEW f \in [Sessions -> Nat], NEW s
  PROVE  [f EXCEPT ![s] = @ + 1] \in [Sessions -> Nat]
<1>1. CASE s \in Sessions
  <2>1. f[s] + 1 \in Nat
    BY <1>1
  <2>2. QED
    BY <2>1
<1>2. CASE s \notin Sessions
  <2>1. \A r \in Sessions : [f EXCEPT ![s] = @ + 1][r] = f[r]
    BY <1>2
  <2>2. QED
    BY <2>1
<1>3. QED
  BY <1>1, <1>2

LEMMA TokensKeep ==
  ASSUME TokenInv, TokenStep
  PROVE  TokenInv'
<1>1. ASSUME NEW t, GenerateTokenPair(t) PROVE TokenInv'
  <2>1. Counters'
    BY <1>1, CountUp DEF GenerateTokenPair, TokenInv, Counters
  <2>2. ASSUME NEW s \in Sessions, s = t.session
        PROVE  issues'[s] = issues[s] + 1 /\ exchanges'[s] = exchanges[s]
    BY <1>1, <2>2 DEF GenerateTokenPair, TokenInv, Counters
  <2>3. ASSUME NEW s \in Sessions, s # t.session
        PROVE  issues'[s] = issues[s] /\ exchanges'[s] = exchanges[s] /\ stored'[s] = stored[s]
    BY <1>1, <2>3 DEF GenerateTokenPair, TokenInv, Counters
  <2>4. QED
    BY <2>1, <2>2, <2>3 DEF TokenInv, Counters, EachIssueIsExchangedOnce
<1>2. ASSUME NEW t, ValidateRefreshToken(t) PROVE TokenInv'
  <2>1. /\ stored' = [stored EXCEPT ![t.session] = Nil]
        /\ exchanges' = [exchanges EXCEPT ![t.session] = @ + 1]
        /\ issues' = issues
        /\ stored[t.session] # Nil
    BY <1>2 DEF ValidateRefreshToken, Kept
  <2>2. Counters'
    BY <2>1, CountUp DEF TokenInv, Counters
  <2>3. ASSUME NEW s \in Sessions, s = t.session
        PROVE  exchanges'[s] = exchanges[s] + 1 /\ stored'[s] = Nil /\ stored[s] # Nil
    BY <2>1, <2>3 DEF TokenInv, Counters
  <2>4. ASSUME NEW s \in Sessions, s # t.session
        PROVE  exchanges'[s] = exchanges[s] /\ stored'[s] = stored[s]
    BY <2>1, <2>4 DEF TokenInv, Counters
  <2>5. QED
    BY <2>1, <2>2, <2>3, <2>4 DEF TokenInv, Counters, EachIssueIsExchangedOnce
<1>3. ASSUME NEW s, stored' = [stored EXCEPT ![s] = Nil], UNCHANGED <<issues, exchanges>>
      PROVE  TokenInv'
  BY <1>3 DEF TokenInv, Counters, EachIssueIsExchangedOnce
<1>4. ASSUME NEW t, RefusedRefresh(t) PROVE TokenInv'
  BY <1>3, <1>4 DEF RefusedRefresh
<1>5. CASE UNCHANGED <<stored, issues, exchanges>>
  BY <1>5 DEF TokenInv, Counters, EachIssueIsExchangedOnce
<1>6. QED
  BY <1>1, <1>2, <1>3, <1>4, <1>5 DEF TokenStep

\* However refreshes, revocations, restarts and failures interleave, oauth2.go
\* accepts no more refresh tokens of a session than it has stored, the one it
\* would still accept included: a token is not replayed.
THEOREM IssuesExchangedOnce == Spec => []EachIssueIsExchangedOnce
<1>1. Init => TokenInv
  BY DEF Init, SessionInit, TokenInv, Counters, EachIssueIsExchangedOnce
<1>2. TokenInv /\ [Next]_vars => TokenInv'
  BY AccountSteps, TokensKeep
<1>3. TokenInv => EachIssueIsExchangedOnce
  BY DEF TokenInv
<1>4. QED
  BY <1>1, <1>2, <1>3, PTL DEF Spec
----------------------------------------------------------------------------
(***************************************************************************)
(* Users: what the handlers in flight know of the rows they are to save.   *)
(***************************************************************************)
\* Rows are never taken out of the table.
Known(u) == u \in Users /\ users[u] # Nil

\* The copy is still to be saved; it is held a little longer by a sign-in.
Writing == {"save", "save_password", "link"}
Holding == Writing \cup {"sync", "admit"}

SlotsType ==
    DOMAIN pc = Slots /\ DOMAIN mine = Slots /\ DOMAIN edit = Slots /\ DOMAIN copy = Slots

UsersType ==
    /\ users \in [Users -> User \cup {Nil}]
    /\ ideal \in [Users -> User \cup {Nil}]
    /\ policies \subseteq Roles \X Resources
    /\ clock \in Nat
    /\ SlotsType
    /\ \A u \in Users : users[u] # Nil => users[u].avatar \in ({u} \X Nat) \cup {Nil}

\* Requests stand for users that have a row.
TokensKnown == \A t \in tokens : Known(t.user)

CallerKnown(q) ==
    /\ pc[q] \in {"in", "open", "issue", "refreshed"} => Known(mine[q].user)
    /\ pc[q] = "upload" => /\ Known(edit[q].user)
                           /\ edit[q].field = "avatar"
                           /\ edit[q].val \in {edit[q].user} \X Nat

\* A copy differs from the row in the field that is changed, unless it overlapped.
CopyInv(q) == LET e == edit[q] IN
    /\ copy[q] # Nil <=> pc[q] \in Holding
    /\ pc[q] \in Holding =>
          /\ Known(e.user)
          /\ copy[q] \in User
          /\ copy[q].avatar \in ({e.user} \X Nat) \cup {Nil}
    /\ pc[q] = "sync" => e.field = "avatar"
    /\ pc[q] = "link" => e.field = "sub"
    /\ pc[q] = "save_password" => e.field = "pw"
    /\ pc[q] \in Writing /\ ideal[e.user] # Nil =>
          copy[q] = [users[e.user] EXCEPT ![e.field] = e.val]
    /\ pc[q] \in Holding \ Writing /\ ideal[e.user] # Nil /\ e.field = "avatar" =>
          users[e.user].avatar = Nil

\* Two copies of a row have overlapped.
CopiesAlone == \A q, p \in Slots :
    q # p /\ pc[q] \in Holding /\ pc[p] \in Holding /\ edit[q].user = edit[p].user =>
        ideal[edit[q].user] = Nil

UserInv ==
    /\ UsersType /\ TokensKnown /\ CopiesAlone
    /\ \A q \in Slots : CallerKnown(q) /\ CopyInv(q)
    /\ SavesKeepOtherFields

\* A slot has written a file that is to be the user's avatar.
Uploaded(q, u) ==
    /\ pc[q] \in {"upload", "save"} /\ edit[q].user = u /\ edit[q].field = "avatar"
    /\ edit[q].val # Nil

OnDisk(u) ==
    /\ \/ users[u].avatar = Nil \/ users[u].avatar \in files \/ u \in broken
       \/ \E q \in Slots : Replacing(q, u)
    /\ \A q \in Slots : Uploaded(q, u) =>
          /\ edit[q].val \in files /\ edit[q].val \in {u} \X Nat
          /\ edit[q].val # users[u].avatar
          /\ \A p \in Slots \ {q} : Uploaded(p, u) => edit[p].val # edit[q].val

DiskInv == \A u \in Users : ideal[u] # Nil => OnDisk(u)

----------------------------------------------------------------------------
(***************************************************************************)
(* Sessions: once the refresh key of a session was deleted on the way to   *)
(* revoking it, none is stored again.                                      *)
(***************************************************************************)
RevokedRow(s) == rows[s] # Nil /\ rows[s].revoked # Nil

\* A slot is past the deletion of the key of a session it revokes.
Revoking(q, s) ==
    \/ pc[q] \in {"mark", "row"} /\ Current(q) = s
    \/ pc[q] = "logout" /\ mine[q].session = s

Closed(s) == RevokedRow(s) \/ \E q \in Slots : Revoking(q, s)

SessionsType ==
    /\ clock \in Nat /\ drawn \subseteq Sessions
    /\ rows \in [Sessions -> [user : Users, expires : Nat, revoked : Nat \cup {Nil},
                              forced : BOOLEAN] \cup {Nil}]
    /\ marks \in [Sessions -> Nat \cup {Nil}]
    /\ DOMAIN stored = Sessions
    /\ DOMAIN pc = Slots /\ DOMAIN mine = Slots /\ DOMAIN todo = Slots

\* Sessions in use have been drawn.
SlotDrawn(q) ==
    /\ pc[q] \in {"in", "issue", "refreshed", "undo", "logout"} => mine[q].session \in drawn
    /\ pc[q] \in {"revoke", "mark", "row"} => todo[q] # {}
    /\ todo[q] \subseteq drawn

SessionsDrawn ==
    /\ \A s \in Sessions : rows[s] # Nil => s \in drawn
    /\ \A t \in tokens : t.session \in drawn /\ t.iat \in 0 .. clock
    /\ \A q \in Slots : SlotDrawn(q)

\* The mark outlives the access tokens there are.
Marked(s) == marks[s] # Nil /\ \A t \in tokens : t.session = s => t.iat + AccessExpiry <= marks[s]

RevocationAt(s) == s \notin strays =>
    /\ Closed(s) => stored[s] = Nil /\ ~Issuing(s)
    /\ RevokedRow(s) =>
          /\ \A t \in tokens : t.session = s => t.iat <= rows[s].revoked
          /\ rows[s].forced => Marked(s)
    /\ \A q \in Slots : pc[q] = "row" /\ Current(q) = s => Marked(s)

RevocationHolds == \A s \in Sessions : RevocationAt(s)

RevokedInv == SessionsType /\ SessionsDrawn /\ RevocationHolds

----------------------------------------------------------------------------
(***************************************************************************)
(* Password changes: what is left of the sessions a change has to end.     *)
(***************************************************************************)
Gone(s) == rows[s] = Nil \/ rows[s].revoked # Nil

Owned(s, u) == rows[s] = Nil \/ rows[s].user = u

Ending == {"list", "revoke", "mark", "row"}

DueAt(q) ==
    /\ due[q] \subseteq drawn
    /\ pc[q] = "list" => \A s \in due[q] : s # mine[q].session /\ Owned(s, mine[q].user)
    /\ pc[q] \in Ending \ {"list"} => \A s \in due[q] : s \in todo[q] \/ Gone(s)
    /\ pc[q] \notin Ending => due[q] = {}

DueInv == restarts \in Nat /\ DOMAIN due = Slots /\ \A q \in Slots : DueAt(q)

----------------------------------------------------------------------------
(***************************************************************************)
(* Steps of one slot that touch one row at most.                           *)
(***************************************************************************)
OnlySlot(q) == \A p \in Slots \ {q} :
    pc'[p] = pc[p] /\ mine'[p] = mine[p] /\ edit'[p] = edit[p] /\ copy'[p] = copy[p]

\* Other slots with a copy of u's row are done with it, or it has overlapped.
NoOthers(q, u) == \A p \in Slots \ {q} : ~(pc[p] \in Holding /\ edit[p].user = u)

Fades(v) == users'[v] = users[v] /\ ideal'[v] \in {ideal[v], Nil}

LEMMA SlotSteps ==
  ASSUME UserInv, NEW q \in Slots, NEW u \in Users,
         UsersType', TokensKnown', OnlySlot(q), CallerKnown(q)', CopyInv(q)',
         \A v \in Users : users[v] # Nil => users'[v] # Nil,
         \A v \in Users \ {u} : Fades(v),
         Fades(u) \/ ideal'[u] = Nil \/ NoOthers(q, u),
         ideal'[u] # Nil => ideal'[u] = users'[u],
         pc'[q] \in Holding => LET v == edit'[q].user IN ideal'[v] = Nil \/ NoOthers(q, v)
  PROVE  UserInv'
<1>1. SavesKeepOtherFields'
  BY DEF UserInv, SavesKeepOtherFields, Fades
<1>2. ASSUME NEW p \in Slots \ {q} PROVE CallerKnown(p)'
  BY <1>2 DEF UserInv, CallerKnown, OnlySlot, Known
<1>3. ASSUME NEW p \in Slots \ {q} PROVE CopyInv(p)'
  <2>1. CopyInv(p) /\ UNCHANGED <<pc[p], edit[p], copy[p]>>
    BY <1>3 DEF UserInv, OnlySlot
  <2>2. CASE pc[p] \notin Holding
    BY <2>1, <2>2 DEF CopyInv, Holding
  <2>3. CASE pc[p] \in Holding
    <3>1. Known(edit[p].user) /\ Known(edit[p].user)'
      BY <2>1, <2>3 DEF CopyInv, Known
    <3>2. Fades(edit[p].user) \/ ideal'[edit[p].user] = Nil
      BY <3>1, <2>3, <1>3 DEF NoOthers, Known
    <3>3. QED
      BY <2>1, <2>3, <3>1, <3>2 DEF CopyInv, Fades
  <2>4. QED
    BY <2>2, <2>3
<1>4. CopiesAlone'
  <2>1. ASSUME NEW r \in Slots, NEW p \in Slots, r # p, r # q, p # q,
               pc'[r] \in Holding, pc'[p] \in Holding, edit'[r].user = edit'[p].user
        PROVE  ideal'[edit'[r].user] = Nil
    <3>1. pc[r] \in Holding /\ pc[p] \in Holding /\ edit[r].user = edit[p].user
      BY <2>1 DEF OnlySlot
    <3>2. ideal[edit[r].user] = Nil /\ Known(edit[r].user)
      BY <2>1, <3>1 DEF UserInv, CopiesAlone, CopyInv
    <3>3. Fades(edit[r].user) \/ ideal'[edit[r].user] = Nil
      BY <3>1, <3>2, <2>1 DEF NoOthers, Known
    <3>4. QED
      BY <3>2, <3>3, <2>1 DEF Fades, OnlySlot
  <2>2. ASSUME NEW p \in Slots \ {q}, pc'[q] \in Holding, pc'[p] \in Holding,
               edit'[q].user = edit'[p].user
        PROVE  ideal'[edit'[q].user] = Nil
    BY <2>2 DEF OnlySlot, NoOthers
  <2>3. QED
    BY <2>1, <2>2 DEF CopiesAlone
<1>5. QED
  BY <1>1, <1>2, <1>3, <1>4 DEF UserInv

\* A step after which the slot holds no copy, and no row has changed.
LEMMA FreeSteps ==
  ASSUME UserInv, NEW q \in Slots, SlotsType', OnlySlot(q),
         users' = users, ideal' = ideal, policies' \subseteq Roles \X Resources, clock' \in Nat,
         TokensKnown', CallerKnown(q)', pc'[q] \notin Holding, copy'[q] = Nil
  PROVE  UserInv'
<1>1. UsersType'
  BY DEF UserInv, UsersType
<1>2. CopyInv(q)'
  BY DEF CopyInv, Holding, Writing
<1>3. \A v \in Users : Fades(v)
  BY DEF Fades
<1>4. \A v \in Users : ideal'[v] # Nil => ideal'[v] = users'[v]
  BY DEF UserInv, SavesKeepOtherFields
<1>5. Root \in Users
  BY AccountsAssumption
<1>6. QED
  BY <1>1, <1>2, <1>3, <1>4, <1>5, SlotSteps

\* A slot takes a copy of a row and changes a field of it.
LEMMA CopySteps ==
  ASSUME UserInv, NEW q \in Slots, NEW u \in Users, Exists(u),
         SlotsType', OnlySlot(q), UNCHANGED <<users, policies, clock, tokens>>,
         ideal' = Overlap(q, u),
         edit'[q].user = u, copy'[q] \in User,
         copy'[q] = [users[u] EXCEPT ![edit'[q].field] = edit'[q].val],
         copy'[q].avatar \in ({u} \X Nat) \cup {Nil},
         \/ pc'[q] = "save"
         \/ pc'[q] = "save_password" /\ edit'[q].field = "pw"
         \/ pc'[q] = "link" /\ edit'[q].field = "sub"
         \/ pc'[q] = "sync" /\ edit'[q].field = "avatar" /\ users[u].avatar = Nil
  PROVE  UserInv'
<1>1. ideal' \in [Users -> User \cup {Nil}] /\ \A w \in Users : Fades(w)
  BY DEF Overlap, UserInv, UsersType, Fades
<1>2. UsersType'
  BY <1>1 DEF UserInv, UsersType
<1>3. TokensKnown' /\ CallerKnown(q)'
  BY DEF UserInv, TokensKnown, CallerKnown, Known, Writing
<1>5. CopyInv(q)'
  BY AccountsAssumption DEF CopyInv, Holding, Writing, Known, Exists
<1>6. ideal'[u] = Nil \/ NoOthers(q, u)
  <2>1. CASE Others(q, u)
    BY <2>1 DEF Overlap, UserInv, UsersType
  <2>2. CASE ~Others(q, u)
    BY <2>2 DEF Others, NoOthers, UserInv, CopyInv
  <2>3. QED
    BY <2>1, <2>2
<1>7. ideal'[u] # Nil => ideal'[u] = users'[u]
  BY <1>1 DEF UserInv, SavesKeepOtherFields, Fades
<1>8. \A w \in Users : users[w] # Nil => users'[w] # Nil
  OBVIOUS
<1>9. QED
  BY <1>1, <1>2, <1>3, <1>5, <1>6, <1>7, <1>8, SlotSteps

\* A slot saves its copy; it is then free, or done with the writing.
LEMMA SaveSteps ==
  ASSUME UserInv, NEW q \in Slots, pc[q] \in Writing, SaveCopy(q),
         SlotsType', OnlySlot(q), UNCHANGED <<policies, clock, tokens>>,
         \/ pc'[q] \notin Holding \cup {"in", "open", "issue", "refreshed", "upload"}
            /\ copy'[q] = Nil
         \/ pc'[q] = "admit" /\ edit[q].field # "avatar" /\ UNCHANGED <<edit, copy>>
  PROVE  UserInv'
<1> DEFINE e == edit[q]  u == e.user
<1>1. /\ u \in Users /\ users[u] # Nil /\ copy[q] \in User /\ copy[q] # Nil
      /\ copy[q].avatar \in ({u} \X Nat) \cup {Nil}
      /\ ideal[u] # Nil => copy[q] = [users[u] EXCEPT ![e.field] = e.val] /\ ideal[u] = users[u]
  BY AccountsAssumption DEF UserInv, CopyInv, Holding, Known, SavesKeepOtherFields
<1>2. users' = [users EXCEPT ![u] = copy[q]]
  BY DEF SaveCopy
<1>3. /\ ideal' \in [Users -> User \cup {Nil}]
      /\ \A v \in Users \ {u} : ideal'[v] = ideal[v]
      /\ ideal'[u] # Nil => ideal'[u] = users'[u]
      /\ ideal'[u] # Nil => ideal[u] # Nil
  <2>1. CASE ideal[u] = Nil
    BY <2>1 DEF SaveCopy, UserInv, UsersType
  <2>2. CASE ideal[u] # Nil
    <3>1. ideal' = [ideal EXCEPT ![u] = copy[q]]
      BY <2>2, <1>1 DEF SaveCopy
    <3>2. QED
      BY <3>1, <2>2, <1>1, <1>2 DEF UserInv, UsersType
  <2>3. QED
    BY <2>1, <2>2
<1>4. UsersType'
  BY <1>1, <1>2, <1>3 DEF UserInv, UsersType
<1>5. \A v \in Users : users[v] # Nil => users'[v] # Nil
  BY <1>1, <1>2 DEF UserInv, UsersType
<1>6. \A v \in Users \ {u} : Fades(v)
  BY <1>2, <1>3 DEF Fades, UserInv, UsersType
<1>7. TokensKnown' /\ CallerKnown(q)'
  BY <1>5 DEF UserInv, TokensKnown, CallerKnown, Known, Holding
<1>8. CopyInv(q)'
  BY <1>1, <1>5 DEF UserInv, CopyInv, Known, Holding, Writing
<1>9. ideal'[u] = Nil \/ NoOthers(q, u)
  BY <1>1, <1>3 DEF UserInv, CopiesAlone, NoOthers, Holding
<1>10. pc'[q] \in Holding => edit'[q].user = u
  BY DEF Holding
<1>11. QED
  BY <1>1, <1>3, <1>4, <1>5, <1>6, <1>7, <1>8, <1>9, <1>10, SlotSteps

\* A change of a row that saves no copy.
LEMMA RowSteps ==
  ASSUME UserInv, NEW q \in Slots, NEW u \in Users, NEW row \in User,
         row.avatar \in ({u} \X Nat) \cup {Nil},
         users' = [users EXCEPT ![u] = row],
         ideal' \in [Users -> User \cup {Nil}],
         \A v \in Users \ {u} : ideal'[v] = ideal[v],
         ideal'[u] # Nil => ideal'[u] = row /\ NoOthers(q, u),
         SlotsType', OnlySlot(q), UNCHANGED <<policies, clock, tokens>>,
         CallerKnown(q)', CopyInv(q)',
         pc'[q] \in Holding =>
            /\ pc[q] \in Holding /\ edit'[q].user = edit[q].user
            /\ ideal'[edit[q].user] # Nil => ideal[edit[q].user] # Nil
  PROVE  UserInv'
<1>1. row # Nil
  BY AccountsAssumption
<1>2. UsersType' /\ users'[u] = row /\ \A v \in Users \ {u} : users'[v] = users[v]
  BY <1>1 DEF UserInv, UsersType
<1>3. \A v \in Users : users[v] # Nil => users'[v] # Nil
  BY <1>1, <1>2
<1>4. \A v \in Users \ {u} : Fades(v)
  BY <1>2 DEF Fades
<1>5. TokensKnown'
  BY <1>3 DEF UserInv, TokensKnown, Known
<1>6. ASSUME pc'[q] \in Holding
      PROVE  ideal'[edit'[q].user] = Nil \/ NoOthers(q, edit'[q].user)
  BY <1>6 DEF UserInv, CopiesAlone, NoOthers
<1>7. QED
  BY <1>2, <1>3, <1>4, <1>5, <1>6, SlotSteps

\* A step of a slot that ends without a copy.
LEMMA IdleSteps ==
  ASSUME UserInv, NEW q \in Slots, SlotsType', OnlySlot(q),
         UNCHANGED <<users, ideal, clock, tokens>>, policies' \subseteq Roles \X Resources,
         CallerKnown(q)', pc'[q] \notin Holding,
         copy'[q] = Nil \/ (pc[q] \notin Holding /\ copy' = copy)
  PROVE  UserInv'
<1>1. copy'[q] = Nil
  BY DEF UserInv, CopyInv
<1>2. TokensKnown'
  BY DEF UserInv, TokensKnown, Known
<1>3. clock' \in Nat
  BY DEF UserInv, UsersType
<1>4. QED
  BY <1>1, <1>2, <1>3, FreeSteps

LEMMA Finished ==
  ASSUME UserInv, NEW q \in Slots, Finish(q)
  PROVE  /\ SlotsType' /\ OnlySlot(q) /\ CallerKnown(q)' /\ CopyInv(q)'
         /\ pc'[q] = "idle" /\ copy'[q] = Nil
<1>1. /\ SlotsType' /\ OnlySlot(q) /\ pc'[q] = "idle" /\ copy'[q] = Nil
  BY DEF Finish, Goto, UserInv, UsersType, SlotsType, OnlySlot
<1>2. QED
  BY <1>1 DEF CallerKnown, CopyInv, Holding, Writing

LEMMA FinishSteps ==
  ASSUME UserInv, NEW q \in Slots, Finish(q), UNCHANGED <<users, ideal, clock, tokens>>,
         policies' \subseteq Roles \X Resources
  PROVE  UserInv'
  BY Finished, IdleSteps DEF Holding, Writing

\* The slot goes to a step that needs neither its caller nor a copy.
LEMMA PassSteps ==
  ASSUME UserInv, NEW q \in Slots, pc[q] \notin Holding, NEW step, Goto(q, step),
         step \notin Holding \cup {"in", "open", "issue", "refreshed", "upload"},
         DOMAIN edit' = Slots, DOMAIN mine' = Slots,
         \A p \in Slots \ {q} : mine'[p] = mine[p] /\ edit'[p] = edit[p],
         UNCHANGED <<users, ideal, clock, tokens, policies, copy>>
  PROVE  UserInv'
<1>1. SlotsType' /\ OnlySlot(q) /\ pc'[q] = step
  BY DEF Goto, UserInv, UsersType, SlotsType, OnlySlot
<1>2. CallerKnown(q)'
  BY <1>1 DEF CallerKnown
<1>3. policies' \subseteq Roles \X Resources
  BY DEF UserInv, UsersType
<1>4. QED
  BY <1>1, <1>2, <1>3, IdleSteps

\* createSession, or a handler, is next for a user that has a row.
LEMMA CallerSteps ==
  ASSUME UserInv, NEW q \in Slots, pc[q] \notin Holding, NEW step, Goto(q, step),
         step \in {"in", "open", "issue", "refreshed"},
         NEW t, mine' = [mine EXCEPT ![q] = t], Known(t.user),
         UNCHANGED <<users, ideal, clock, tokens, policies, edit, copy>>
  PROVE  UserInv'
<1>1. SlotsType' /\ OnlySlot(q) /\ pc'[q] = step /\ mine'[q] = t
  BY DEF Goto, UserInv, UsersType, SlotsType, OnlySlot
<1>2. CallerKnown(q)'
  BY <1>1 DEF CallerKnown, Known
<1>3. policies' \subseteq Roles \X Resources
  BY DEF UserInv, UsersType
<1>4. QED
  BY <1>1, <1>2, <1>3, IdleSteps DEF Holding, Writing

LEMMA Fields ==
  ASSUME NEW row \in User
  PROVE  /\ [row EXCEPT !["name"] = 1] \in User
         /\ \A r \in Roles : [row EXCEPT !["role"] = r] \in User
         /\ \A b \in BOOLEAN : [row EXCEPT !["active"] = b] \in User
         /\ \A n \in Nat : [row EXCEPT !["pw"] = n] \in User
         /\ \A g \in GoogleAccounts : [row EXCEPT !["sub"] = g] \in User
         /\ \A a \in (Users \X Nat) \cup {Nil} : [row EXCEPT !["avatar"] = a] \in User
         /\ [row EXCEPT !["deleted"] = TRUE] \in User
  BY DEF User

LEMMA NewRows ==
  ASSUME NEW r \in Roles, NEW g \in GoogleAccounts
  PROVE  /\ Seeded \in User /\ Seeded.avatar = Nil
         /\ LocalRow(r) \in User /\ LocalRow(r).avatar = Nil
         /\ GoogleRow(g) \in User /\ GoogleRow(g).avatar = Nil
  BY AccountsAssumption DEF User, Seeded, LocalRow, GoogleRow

----------------------------------------------------------------------------
(***************************************************************************)
(* What is known of users is kept, action by action.                       *)
(***************************************************************************)
LEMMA NewRowKeeps ==
  ASSUME UserInv, NEW q \in Slots, NEW u \in Users, NEW row \in User, row.avatar = Nil,
         NewRow(u, row), SlotsType', OnlySlot(q), UNCHANGED <<policies, clock, tokens>>,
         CallerKnown(q)', pc'[q] \notin Holding, copy'[q] = Nil
  PROVE  UserInv'
<1>1. users' = [users EXCEPT ![u] = row] /\ ideal' = [ideal EXCEPT ![u] = row]
  BY DEF NewRow
<1>2. NoOthers(q, u)
  BY DEF NewRow, NoOthers, UserInv, CopyInv, Known
<1>3. CopyInv(q)'
  BY DEF CopyInv, Holding, Writing
<1>4. /\ ideal' \in [Users -> User \cup {Nil}] /\ ideal'[u] = row
      /\ \A v \in Users \ {u} : ideal'[v] = ideal[v]
  BY <1>1 DEF UserInv, UsersType
<1>5. QED
  BY <1>1, <1>2, <1>3, <1>4, RowSteps

\* A known user's row is a user.
LEMMA RowOf ==
  ASSUME UserInv, NEW u, Known(u)
  PROVE  u \in Users /\ users[u] \in User /\ users[u].avatar \in ({u} \X Nat) \cup {Nil}
  BY DEF UserInv, UsersType, Known

\* Change, as the handlers call it.
LEMMA ChangeKeeps ==
  ASSUME UserInv, NEW q \in Slots, NEW u, Known(u), NEW f, NEW v, NEW step,
         Change(q, u, f, v, step), [users[u] EXCEPT ![f] = v] \in User,
         f # "avatar" \/ v \in ({u} \X Nat) \cup {Nil},
         mine' = mine, UNCHANGED <<policies, clock, tokens>>,
         \/ step = "save"
         \/ step = "save_password" /\ f = "pw"
         \/ step = "link" /\ f = "sub"
         \/ step = "sync" /\ f = "avatar" /\ users[u].avatar = Nil
  PROVE  UserInv'
<1>1. u \in Users /\ Exists(u) /\ users[u] \in User
      /\ users[u].avatar \in ({u} \X Nat) \cup {Nil}
  BY RowOf DEF Change
<1>2. /\ SlotsType' /\ OnlySlot(q) /\ pc'[q] = step
      /\ edit'[q].user = u /\ edit'[q].field = f /\ edit'[q].val = v
      /\ copy'[q] = [users[u] EXCEPT ![f] = v]
      /\ ideal' = Overlap(q, u) /\ users' = users
  BY DEF Change, Goto, UserInv, UsersType, SlotsType, OnlySlot
<1>3. copy'[q].avatar \in ({u} \X Nat) \cup {Nil} /\ copy'[q] \in User
      /\ UNCHANGED <<users, policies, clock, tokens>>
      /\ copy'[q] = [users[u] EXCEPT ![edit'[q].field] = edit'[q].val]
  BY <1>1, <1>2 DEF User
<1>4. \/ pc'[q] = "save"
      \/ pc'[q] = "save_password" /\ edit'[q].field = "pw"
      \/ pc'[q] = "link" /\ edit'[q].field = "sub"
      \/ pc'[q] = "sync" /\ edit'[q].field = "avatar" /\ users[u].avatar = Nil
  BY <1>2
<1>5. QED
  BY <1>1, <1>2, <1>3, <1>4, CopySteps

LEMMA OpenKeeps ==
  ASSUME UserInv, NEW q \in Slots, NEW u, Known(u), NEW row, Open(q, u, row),
         pc[q] \notin Holding, UNCHANGED <<users, ideal, clock, tokens, policies>>
  PROVE  UserInv'
<1> DEFINE t == [session |-> Nil, user |-> u, role |-> row.role, iat |-> clock]
<1>1. Goto(q, "open") /\ mine' = [mine EXCEPT ![q] = t] /\ t.user = u
      /\ UNCHANGED <<edit, copy>>
  BY DEF Open, work
<1> HIDE DEF t
<1>2. QED
  BY <1>1, CallerSteps

LEMMA OpenNewKeeps ==
  ASSUME UserInv, NEW q \in Slots, NEW u \in Users, NEW row \in User, row.avatar = Nil,
         pc[q] \notin Holding, NewRow(u, row), Open(q, u, row),
         UNCHANGED <<policies, clock, tokens>>
  PROVE  UserInv'
<1>1. /\ SlotsType' /\ OnlySlot(q) /\ pc'[q] = "open" /\ mine'[q].user = u /\ copy'[q] = copy[q]
  BY DEF Open, Goto, work, UserInv, UsersType, SlotsType, OnlySlot
<1>2. copy[q] = Nil
  BY DEF UserInv, CopyInv
<1>3. users'[u] # Nil
  BY AccountsAssumption DEF NewRow, UserInv, UsersType
<1>4. CallerKnown(q)'
  BY <1>1, <1>3 DEF CallerKnown, Known
<1>5. QED
  BY <1>1, <1>2, <1>4, NewRowKeeps DEF Holding, Writing

LEMMA SignInKeepsUsers ==
  ASSUME UserInv, NEW q \in Slots, SignIn(q)
  PROVE  UserInv'
<1> USE DEF Same, Arrive, sessionVars, redisVars, userVars, disk, work
<1>1. ASSUME Register(q) PROVE UserInv'
  <2>1. PICK u \in Users : /\ pc[q] = "idle" /\ NewRow(u, LocalRow("user"))
                           /\ Open(q, u, LocalRow("user"))
                           /\ UNCHANGED <<policies, clock, tokens>>
    BY <1>1 DEF Register
  <2>2. LocalRow("user") \in User /\ LocalRow("user").avatar = Nil
    BY AccountsAssumption DEF User, Seeded, LocalRow
  <2>3. QED
    BY <2>1, <2>2, OpenNewKeeps DEF Holding, Writing
<1>2. ASSUME Login(q) PROVE UserInv'
  <2>1. PICK u \in Users : /\ pc[q] = "idle" /\ Known(u) /\ Open(q, u, users[u])
                           /\ UNCHANGED <<users, ideal, policies, clock, tokens>>
    BY <1>2 DEF Login, Exists, Known
  <2>2. QED
    BY <2>1, OpenKeeps DEF Holding, Writing
<1>3. ASSUME OpenSession(q) PROVE UserInv'
  <2>1. PICK t : /\ pc[q] = "open" /\ mine' = [mine EXCEPT ![q] = t] /\ t.user = mine[q].user
                 /\ Goto(q, "issue")
                 /\ UNCHANGED <<users, ideal, policies, clock, tokens, edit, copy>>
    BY <1>3 DEF OpenSession, createSession, generateToken
  <2>2. Known(t.user)
    BY <2>1 DEF UserInv, CallerKnown
  <2>3. QED
    BY <2>1, <2>2, CallerSteps DEF Holding, Writing
<1>4. ASSUME RefreshToken(q) PROVE UserInv'
  <2>1. PICK t \in tokens :
           /\ pc[q] = "idle" /\ UNCHANGED <<users, ideal, policies, clock, tokens, edit, copy>>
           /\ \/ mine' = [mine EXCEPT ![q] = t] /\ Goto(q, "refreshed")
              \/ UNCHANGED <<mine, pc>>
    BY <1>4 DEF RefreshToken, ValidateRefreshToken, RefusedRefresh
  <2>2. CASE mine' = [mine EXCEPT ![q] = t] /\ Goto(q, "refreshed")
    BY <2>1, <2>2, CallerSteps DEF Holding, Writing, UserInv, TokensKnown
  <2>3. CASE UNCHANGED <<mine, pc>>
    BY <2>1, <2>3 DEF UserInv, UsersType, SlotsType, TokensKnown, CallerKnown, CopyInv,
                      CopiesAlone, Known, SavesKeepOtherFields
  <2>4. QED
    BY <2>1, <2>2, <2>3
<1>5. ASSUME GoogleLogin(q) PROVE UserInv'
  BY <1>5 DEF GoogleLogin, UserInv, UsersType, SlotsType, TokensKnown, CallerKnown, CopyInv,
              CopiesAlone, Known, SavesKeepOtherFields
<1>6. ASSUME GoogleCallback(q) \/ DropState(q) PROVE UserInv'
  <2>1. PICK step, e :
           /\ step \in {"callback", "google"}
           /\ pc[q] \in {"idle", "callback"} /\ Goto(q, step)
           /\ edit' = [edit EXCEPT ![q] = e]
           /\ UNCHANGED <<users, ideal, policies, clock, tokens, mine, copy>>
    BY <1>6 DEF GoogleCallback, DropState
  <2>2. DOMAIN edit' = Slots /\ DOMAIN mine' = Slots
        /\ \A p \in Slots \ {q} : mine'[p] = mine[p] /\ edit'[p] = edit[p]
    BY <2>1 DEF UserInv, UsersType, SlotsType
  <2>3. QED
    BY <2>1, <2>2, PassSteps DEF Holding, Writing
<1>7. ASSUME ResolveGoogleUser(q) PROVE UserInv'
  <2>1. PICK g \in GoogleAccounts : LET u == EmailOf[g] IN
    /\ pc[q] = "google"
    /\ \/ \E v \in LinkedTo(g) :
             IF users[v].avatar = Nil
             THEN Change(q, v, "avatar", Nil, "sync") /\ UNCHANGED <<mine, disk>>
             ELSE Admit(q, v, users[v]) /\ UNCHANGED userVars
       \/ /\ LinkedTo(g) = {} /\ ~Exists(u)
          /\ \/ NewRow(u, GoogleRow(g)) /\ Open(q, u, GoogleRow(g))
             \/ users[u] # Nil /\ Finish(q) /\ UNCHANGED userVars
       \/ /\ LinkedTo(g) = {} /\ Exists(u)
          /\ IF users[u].provider = "google"
             THEN Change(q, u, "sub", g, "link") /\ UNCHANGED <<mine, disk>>
             ELSE Finish(q) /\ UNCHANGED userVars
    /\ UNCHANGED <<clock, tokens, policies>>
    BY <1>7 DEF ResolveGoogleUser
  <2> DEFINE u == EmailOf[g]
  <2>2. u \in Users
    BY AccountsAssumption
  <2> HIDE DEF u
  <2>3. ASSUME Finish(q), UNCHANGED userVars PROVE UserInv'
    <3>1. policies' \subseteq Roles \X Resources
      BY <2>1 DEF UserInv, UsersType
    <3>2. QED
      BY <2>1, <2>3, <3>1, FinishSteps
  <2>4. ASSUME NEW v \in LinkedTo(g), users[v].avatar = Nil,
               Change(q, v, "avatar", Nil, "sync"), UNCHANGED mine
        PROVE  UserInv'
    <3>1. Known(v)
      BY <2>4 DEF LinkedTo, Exists, Known
    <3>2. [users[v] EXCEPT !["avatar"] = Nil] \in User
      BY <3>1, RowOf, Fields
    <3>3. QED
      BY <2>1, <2>4, <3>1, <3>2, ChangeKeeps
  <2>5. ASSUME NEW v \in LinkedTo(g), Admit(q, v, users[v]), UNCHANGED userVars PROVE UserInv'
    <3>1. Known(v)
      BY <2>5 DEF LinkedTo, Exists, Known
    <3>2. pc[q] \notin Holding
      BY <2>1 DEF Holding, Writing
    <3>3. QED
      BY <2>1, <2>3, <2>5, <3>1, <3>2, OpenKeeps DEF Admit
  <2>6. ASSUME NewRow(u, GoogleRow(g)), Open(q, u, GoogleRow(g)) PROVE UserInv'
    <3>1. GoogleRow(g) \in User /\ GoogleRow(g).avatar = Nil
      BY AccountsAssumption DEF User, Seeded, GoogleRow
    <3>2. pc[q] \notin Holding
      BY <2>1 DEF Holding, Writing
    <3>3. QED
      BY <2>1, <2>2, <2>6, <3>1, <3>2, OpenNewKeeps
  <2>7. ASSUME Exists(u), Change(q, u, "sub", g, "link"), UNCHANGED mine PROVE UserInv'
    <3>1. Known(u)
      BY <2>2, <2>7 DEF Exists, Known
    <3>2. [users[u] EXCEPT !["sub"] = g] \in User
      BY <3>1, RowOf, Fields
    <3>3. QED
      BY <2>1, <2>7, <3>1, <3>2, ChangeKeeps DEF Writing
  <2>8. QED
    BY <2>1, <2>3, <2>4, <2>5, <2>6, <2>7 DEF u
<1>8. ASSUME GoogleFails(q) PROVE UserInv'
  <2>1. policies' \subseteq Roles \X Resources
    BY <1>8 DEF GoogleFails, UserInv, UsersType
  <2>2. QED
    BY <1>8, <2>1, FinishSteps DEF GoogleFails
<1>9. ASSUME SyncAvatar(q) PROVE UserInv'
  <2> DEFINE u == edit[q].user  row == [users[u] EXCEPT !["avatar"] = Nil]
  <2>1. pc[q] = "sync" /\ edit[q].field = "avatar" /\ Known(u) /\ u \in Users /\ row \in User
    BY <1>9, RowOf, Fields DEF SyncAvatar, UserInv, CopyInv, Holding
  <2>2. row.avatar = Nil /\ users' = [users EXCEPT ![u] = row]
    BY <1>9, <2>1, RowOf DEF SyncAvatar, User
  <2>3. ideal[u] # Nil => ideal[u] = row /\ NoOthers(q, u)
    <3>1. ideal[u] # Nil => users[u].avatar = Nil /\ ideal[u] = users[u]
      BY <2>1 DEF UserInv, CopyInv, Holding, Writing, SavesKeepOtherFields
    <3>2. ideal[u] # Nil => NoOthers(q, u)
      BY <2>1 DEF UserInv, CopiesAlone, NoOthers, Holding
    <3>3. users[u].avatar = Nil => row = users[u]
      BY <2>1, RowOf DEF User
    <3>4. QED
      BY <3>1, <3>2, <3>3
  <2>4. SlotsType' /\ OnlySlot(q) /\ pc'[q] = "admit"
        /\ UNCHANGED <<ideal, policies, clock, tokens, edit, copy>>
    BY <1>9 DEF SyncAvatar, Goto, UserInv, UsersType, SlotsType, OnlySlot
  <2>5. CallerKnown(q)'
    BY <2>4 DEF CallerKnown
  <2>6. users'[u].avatar = Nil /\ users'[u] # Nil
    BY <2>1, <2>2, AccountsAssumption DEF UserInv, UsersType
  <2>7. CopyInv(q)'
    BY <2>1, <2>4, <2>6 DEF UserInv, CopyInv, Known, Holding, Writing
  <2>8. ideal' \in [Users -> User \cup {Nil}]
    BY <2>4 DEF UserInv, UsersType
  <2>9. pc[q] \in Holding
    BY <2>1 DEF Holding
  <2> HIDE DEF row
  <2>10. QED
    BY <2>1, <2>2, <2>3, <2>4, <2>5, <2>7, <2>8, <2>9, RowSteps
<1>10. ASSUME LinkAccount(q) PROVE UserInv'
  <2>1. /\ pc[q] \in Writing /\ edit[q].field # "avatar"
        /\ SaveCopy(q) /\ SlotsType' /\ OnlySlot(q) /\ pc'[q] = "admit"
        /\ UNCHANGED <<policies, clock, tokens, edit, copy>>
    BY <1>10 DEF LinkAccount, Goto, UserInv, UsersType, SlotsType, OnlySlot, CopyInv, Writing
  <2>2. QED
    BY <2>1, SaveSteps
<1>11. ASSUME AdmitLinked(q) PROVE UserInv'
  <2>1. /\ SlotsType' /\ OnlySlot(q) /\ copy'[q] = Nil
        /\ UNCHANGED <<users, ideal, policies, clock, tokens>>
    BY <1>11 DEF AdmitLinked, Goto, UserInv, UsersType, SlotsType, OnlySlot
  <2>2. \/ pc'[q] = "idle"
        \/ pc'[q] = "open" /\ mine'[q].user = edit[q].user
    BY <1>11 DEF AdmitLinked, Goto, UserInv, UsersType, SlotsType
  <2>3. Known(edit[q].user)
    BY <1>11 DEF AdmitLinked, UserInv, CopyInv, Holding
  <2>4. CallerKnown(q)' /\ pc'[q] \notin Holding
    BY <2>1, <2>2, <2>3 DEF CallerKnown, Known, Holding, Writing
  <2>5. policies' \subseteq Roles \X Resources
    BY <2>1 DEF UserInv, UsersType
  <2>6. QED
    BY <2>1, <2>4, <2>5, IdleSteps
<1>12. ASSUME Logout(q) PROVE UserInv'
  <2>1. /\ pc[q] = "in" /\ Goto(q, "logout") /\ tokens' = tokens
        /\ UNCHANGED <<users, ideal, policies, clock, mine, edit, copy>>
    BY <1>12 DEF Logout, RevokeSession
  <2>2. DOMAIN edit' = Slots /\ DOMAIN mine' = Slots
    BY <2>1 DEF UserInv, UsersType, SlotsType
  <2>3. QED
    BY <2>1, <2>2, PassSteps DEF Holding, Writing
<1>13. ASSUME LogoutRow(q) PROVE UserInv'
  <2>1. policies' \subseteq Roles \X Resources
    BY <1>13 DEF LogoutRow, UserInv, UsersType
  <2>2. QED
    BY <1>13, <2>1, FinishSteps DEF LogoutRow
<1>14. ASSUME IssuePair(q), UNCHANGED <<userVars, work, policies>> PROVE UserInv'
  <2>1. /\ SlotsType' /\ OnlySlot(q) /\ pc'[q] = "idle" /\ copy' = copy
        /\ UNCHANGED <<users, ideal, policies, clock>>
        /\ pc[q] \in {"issue", "refreshed"}
    BY <1>14 DEF IssuePair, Goto, UserInv, UsersType, SlotsType, OnlySlot
  <2>2. tokens' = tokens \cup {Restamp(mine[q])} /\ Restamp(mine[q]).user = mine[q].user
    BY <1>14 DEF IssuePair, GenerateTokenPair, Restamp, generateToken
  <2>3. Known(mine[q].user)
    BY <2>1 DEF UserInv, CallerKnown
  <2>4. TokensKnown'
    BY <2>1, <2>2, <2>3 DEF UserInv, TokensKnown, Known
  <2>5. CallerKnown(q)' /\ pc'[q] \notin Holding
    BY <2>1 DEF CallerKnown, Holding, Writing
  <2>6. copy'[q] = Nil
    BY <2>1 DEF UserInv, CopyInv, Holding, Writing
  <2>7. policies' \subseteq Roles \X Resources /\ clock' \in Nat
    BY <2>1 DEF UserInv, UsersType
  <2>8. QED
    BY <2>1, <2>4, <2>5, <2>6, <2>7, FreeSteps
<1>15. ASSUME IssueFails(q) \/ DeleteRow(q), UNCHANGED <<userVars, work, policies>> PROVE UserInv'
  <2>1. PICK step :
           /\ step \in {"idle", "undo"} /\ Goto(q, step)
           /\ pc[q] \in {"issue", "refreshed", "undo"}
           /\ mine' = mine \/ mine' = [mine EXCEPT ![q] = Nil]
           /\ UNCHANGED <<users, ideal, policies, clock, tokens, edit, copy>>
    BY <1>15 DEF IssueFails, DeleteRow
  <2>2. DOMAIN edit' = Slots /\ DOMAIN mine' = Slots
        /\ \A p \in Slots \ {q} : mine'[p] = mine[p] /\ edit'[p] = edit[p]
    BY <2>1 DEF UserInv, UsersType, SlotsType
  <2>3. QED
    BY <2>1, <2>2, PassSteps DEF Holding, Writing
<1>16. QED
  BY <1>1, <1>2, <1>3, <1>4, <1>5, <1>6, <1>7, <1>8, <1>9, <1>10, <1>11, <1>12, <1>13,
     <1>14, <1>15 DEF SignIn
\* A handler past Protect changes a field of a user.
LEMMA EditKeeps ==
  ASSUME UserInv, NEW q \in Slots, NEW u \in Users, Exists(u), NEW f, NEW v,
         NEW step, step = "save" \/ (step = "save_password" /\ f = "pw"),
         Change(q, u, f, v, step), [users[u] EXCEPT ![f] = v] \in User,
         f # "avatar" \/ v = Nil,
         mine' = mine, UNCHANGED <<policies, clock, tokens>>
  PROVE  UserInv'
<1>1. Known(u)
  BY DEF Known, Exists
<1>2. f # "avatar" \/ v \in ({u} \X Nat) \cup {Nil}
  OBVIOUS
<1>3. QED
  BY <1>1, <1>2, ChangeKeeps

LEMMA ProfileKeepsUsers ==
  ASSUME UserInv, NEW q \in Slots, Profile(q)
  PROVE  UserInv'
<1> USE DEF Same, sessionVars, redisVars, userVars, disk, work
<1>1. ASSUME UpdateProfile(q) \/ RemoveAvatar(q) \/ ChangePassword(q) PROVE UserInv'
  <2> DEFINE u == mine[q].user
  <2>1. pc[q] = "in" /\ UNCHANGED <<mine, policies, clock, tokens>>
    BY <1>1 DEF UpdateProfile, RemoveAvatar, ChangePassword, Authorize
  <2>2. u \in Users /\ Exists(u) /\ users[u] \in User
    BY <1>1, <2>1, RowOf DEF UserInv, CallerKnown, UpdateProfile, RemoveAvatar, ChangePassword,
                             Change
  <2>3. \/ Change(q, u, "name", 1, "save") \/ Change(q, u, "avatar", Nil, "save")
        \/ users[u].pw # Nil /\ Change(q, u, "pw", users[u].pw + 1, "save_password")
    BY <1>1 DEF UpdateProfile, RemoveAvatar, ChangePassword
  <2>4. [users[u] EXCEPT !["name"] = 1] \in User /\ [users[u] EXCEPT !["avatar"] = Nil] \in User
    BY <2>2, Fields
  <2>5. users[u].pw # Nil => [users[u] EXCEPT !["pw"] = users[u].pw + 1] \in User
    <3>1. users[u].pw # Nil => users[u].pw + 1 \in Nat
      BY <2>2 DEF User
    <3>2. QED
      BY <2>2, <3>1, Fields
  <2> HIDE DEF u
  <2>6. CASE Change(q, u, "name", 1, "save")
    BY <2>1, <2>2, <2>4, <2>6, EditKeeps
  <2>7. CASE Change(q, u, "avatar", Nil, "save")
    BY <2>1, <2>2, <2>4, <2>7, EditKeeps
  <2>8. CASE users[u].pw # Nil /\ Change(q, u, "pw", users[u].pw + 1, "save_password")
    BY <2>1, <2>2, <2>5, <2>8, EditKeeps
  <2>9. QED
    BY <2>3, <2>6, <2>7, <2>8
<1>2. ASSUME Save(q) PROVE UserInv'
  <2>1. pc[q] \in Writing /\ SaveCopy(q) /\ UNCHANGED <<policies, clock, tokens>> /\ Finish(q)
    BY <1>2 DEF Save, Writing
  <2>2. SlotsType' /\ OnlySlot(q) /\ copy'[q] = Nil
        /\ pc'[q] \notin Holding \cup {"in", "open", "issue", "refreshed", "upload"}
    BY <2>1, Finished DEF Holding, Writing
  <2>3. QED
    BY <2>1, <2>2, SaveSteps
<1>13. ASSUME SaveFails(q) PROVE UserInv'
  BY <1>13, FinishSteps DEF SaveFails, UserInv, UsersType
<1>3. ASSUME UploadAvatar(q) PROVE UserInv'
  <2>0. PICK u : u = mine[q].user
    OBVIOUS
  <2>1. /\ pc[q] = "in" /\ pc'[q] = "upload" /\ SlotsType' /\ OnlySlot(q)
        /\ edit'[q] = [user |-> u, field |-> "avatar", val |-> <<u, clock>>]
        /\ UNCHANGED <<users, policies, clock, tokens, copy>>
    BY <1>3, <2>0 DEF UploadAvatar, Authorize, Goto, UserInv, UsersType, SlotsType, OnlySlot
  <2>2. u \in Users /\ Known(u) /\ Known(u)'
    BY <2>0, <2>1 DEF UserInv, CallerKnown, Known
  <2>3. ideal' \in [Users -> User \cup {Nil}] /\ \A w \in Users : Fades(w)
    BY <1>3, <2>0, <2>1 DEF UploadAvatar, UserInv, UsersType, Fades
  <2>4. UsersType' /\ TokensKnown'
    BY <2>1, <2>3 DEF UserInv, UsersType, TokensKnown, Known
  <2>5. edit'[q].user = u /\ edit'[q].field = "avatar" /\ edit'[q].val \in {u} \X Nat
    BY <2>1 DEF UserInv, UsersType
  <2>6. CallerKnown(q)'
    BY <2>1, <2>2, <2>5 DEF CallerKnown
  <2>7. CopyInv(q)'
    BY <2>1 DEF UserInv, CopyInv, Holding, Writing
  <2>8. ideal'[u] # Nil => ideal'[u] = users'[u]
    BY <2>2, <2>3 DEF UserInv, SavesKeepOtherFields, Fades
  <2>9. pc'[q] \notin Holding
    BY <2>1 DEF Holding, Writing
  <2>10. QED
    BY <2>1, <2>2, <2>3, <2>4, <2>6, <2>7, <2>8, <2>9, SlotSteps
<1>4. ASSUME ReplaceAvatar(q) PROVE UserInv'
  <2>0. PICK u : u = edit[q].user
    OBVIOUS
  <2>1. /\ pc[q] = "upload" /\ Known(u) /\ u \in Users /\ users[u] \in User
        /\ edit[q].field = "avatar" /\ edit[q].val \in {u} \X Nat
        /\ UNCHANGED <<policies, clock, tokens>>
    BY <1>4, <2>0, RowOf DEF ReplaceAvatar, UserInv, CallerKnown
  <2>2. ASSUME Exists(u) PROVE UserInv'
    <3>1. /\ SlotsType' /\ OnlySlot(q) /\ pc'[q] = "save" /\ users' = users /\ edit' = edit
          /\ ideal' = Overlap(q, u)
          /\ copy'[q] = [users[u] EXCEPT !["avatar"] = edit[q].val]
      BY <1>4, <2>0, <2>2 DEF ReplaceAvatar, Goto, UserInv, UsersType, SlotsType, OnlySlot
    <3>2. edit[q].val \in (Users \X Nat) \cup {Nil}
      BY <2>1
    <3>3. copy'[q] \in User /\ copy'[q].avatar = edit[q].val
      BY <2>1, <3>1, <3>2, Fields DEF User
    <3>4. /\ edit'[q].user = u
          /\ copy'[q] = [users[u] EXCEPT ![edit'[q].field] = edit'[q].val]
      BY <2>0, <2>1, <3>1
    <3>5. copy'[q].avatar \in ({u} \X Nat) \cup {Nil}
      BY <2>1, <3>3
    <3>6. QED
      BY <2>1, <2>2, <3>1, <3>3, <3>4, <3>5, CopySteps
  <2>3. ASSUME Finish(q), UNCHANGED userVars PROVE UserInv'
    BY <2>1, <2>3, FinishSteps DEF UserInv, UsersType
  <2>4. QED
    BY <1>4, <2>0, <2>2, <2>3 DEF ReplaceAvatar
<1>5. ASSUME SavePassword(q) PROVE UserInv'
  <2>1. /\ pc[q] \in Writing /\ SaveCopy(q) /\ SlotsType' /\ OnlySlot(q) /\ pc'[q] = "list"
        /\ copy'[q] = Nil /\ UNCHANGED <<policies, clock, tokens>>
    BY <1>5 DEF SavePassword, Goto, UserInv, UsersType, SlotsType, OnlySlot, Writing
  <2>2. pc'[q] \notin Holding \cup {"in", "open", "issue", "refreshed", "upload"}
    BY <2>1 DEF Holding, Writing
  <2>3. QED
    BY <2>1, <2>2, SaveSteps
<1>6. ASSUME Finish(q), UNCHANGED <<users, ideal, clock, tokens, policies>> PROVE UserInv'
  BY <1>6, FinishSteps DEF UserInv, UsersType
<1>7. ASSUME NEW step, step \in {"revoke", "mark", "row"}, Goto(q, step),
             pc[q] \in {"list", "revoke", "mark", "row"},
             UNCHANGED <<users, ideal, clock, tokens, policies, mine, edit, copy>>
      PROVE  UserInv'
  <2>1. DOMAIN edit' = Slots /\ DOMAIN mine' = Slots
    BY <1>7 DEF UserInv, UsersType, SlotsType
  <2>2. QED
    BY <1>7, <2>1, PassSteps DEF Holding, Writing
<1>8. CASE ListOtherSessions(q)
  BY <1>6, <1>7, <1>8 DEF ListOtherSessions
<1>9. CASE RevokeKey(q)
  BY <1>7, <1>9 DEF RevokeKey, RevokeSession
<1>10. CASE WriteMark(q)
  BY <1>7, <1>10 DEF WriteMark, MarkSessionRevoked
<1>11. CASE RevokeRow(q)
  BY <1>6, <1>7, <1>11 DEF RevokeRow
<1>12. QED
  BY <1>1, <1>2, <1>3, <1>4, <1>5, <1>8, <1>9, <1>10, <1>11, <1>13 DEF Profile

LEMMA AdministerKeepsUsers ==
  ASSUME UserInv, NEW q \in Slots, Administer(q)
  PROVE  UserInv'
<1> USE DEF Same, sessionVars, redisVars, userVars, disk, work
<1>1. ASSUME AdminCreateUser(q) PROVE UserInv'
  <2>1. PICK u \in Users, r \in Roles :
           NewRow(u, LocalRow(r)) /\ Finish(q) /\ UNCHANGED <<policies, clock, tokens>>
    BY <1>1 DEF AdminCreateUser
  <2>2. LocalRow(r) \in User /\ LocalRow(r).avatar = Nil
    BY AccountsAssumption DEF User, Seeded, LocalRow
  <2>3. SlotsType' /\ OnlySlot(q) /\ CallerKnown(q)' /\ copy'[q] = Nil /\ pc'[q] \notin Holding
    BY <2>1, Finished DEF Holding, Writing
  <2>4. QED
    BY <2>1, <2>2, <2>3, NewRowKeeps
<1>2. ASSUME AdminUpdateUserRole(q) PROVE UserInv'
  <2>1. PICK u \in Users, r \in AdminListRoles :
           Exists(u) /\ Change(q, u, "role", r, "save") /\ UNCHANGED <<mine, policies, clock, tokens>>
    BY <1>2 DEF AdminUpdateUserRole, AdminListUsers
  <2>2. r \in Roles
    BY DEF AdminListRoles, GetAllPolicies, UserInv, UsersType, Exists, User
  <2>3. [users[u] EXCEPT !["role"] = r] \in User
    BY <2>1, <2>2, RowOf, Fields DEF Known, Exists
  <2>4. QED
    BY <2>1, <2>3, EditKeeps
<1>3. ASSUME AdminUpdateUserStatus(q) PROVE UserInv'
  <2>1. PICK u \in Users, b \in BOOLEAN :
           Exists(u) /\ Change(q, u, "active", b, "save") /\ UNCHANGED <<mine, policies, clock, tokens>>
    BY <1>3 DEF AdminUpdateUserStatus, AdminListUsers
  <2>2. [users[u] EXCEPT !["active"] = b] \in User
    BY <2>1, RowOf, Fields DEF Known, Exists
  <2>3. QED
    BY <2>1, <2>2, EditKeeps
<1>4. ASSUME AdminDeleteUser(q) PROVE UserInv'
  <2>1. PICK u \in Users :
           /\ pc[q] = "in" /\ Exists(u) /\ users' = [users EXCEPT ![u].deleted = TRUE]
           /\ ideal' = IF Others(q, u) \/ ideal[u] = Nil THEN [ideal EXCEPT ![u] = Nil]
                       ELSE [ideal EXCEPT ![u].deleted = TRUE]
           /\ Finish(q) /\ UNCHANGED <<policies, clock, tokens>>
    BY <1>4 DEF AdminDeleteUser, AdminListUsers, Authorize
  <2> DEFINE row == [users[u] EXCEPT !["deleted"] = TRUE]
  <2>2. users[u] \in User /\ users[u].avatar \in ({u} \X Nat) \cup {Nil}
    BY <2>1, RowOf DEF Known, Exists
  <2>3. row \in User /\ row.avatar = users[u].avatar /\ users' = [users EXCEPT ![u] = row]
    <3>1. row \in User
      BY <2>2, Fields
    <3>2. row.avatar = users[u].avatar
      BY <2>2 DEF User
    <3>3. users' = [users EXCEPT ![u] = row]
      BY <2>1
    <3>4. QED
      BY <3>1, <3>2, <3>3
  <2>4. /\ ideal' \in [Users -> User \cup {Nil}]
        /\ \A v \in Users \ {u} : ideal'[v] = ideal[v]
        /\ ideal'[u] # Nil => ideal'[u] = row /\ ~Others(q, u)
    <3>1. CASE Others(q, u) \/ ideal[u] = Nil
      BY <2>1, <3>1 DEF UserInv, UsersType
    <3>2. CASE ~Others(q, u) /\ ideal[u] # Nil
      <4>1. ideal' = [ideal EXCEPT ![u] = row]
        BY <2>1, <3>2 DEF UserInv, SavesKeepOtherFields
      <4>2. QED
        BY <3>2, <4>1, <2>3 DEF UserInv, UsersType
    <3>3. QED
      BY <3>1, <3>2
  <2>5. ~Others(q, u) => NoOthers(q, u)
    BY DEF Others, NoOthers, UserInv, CopyInv
  <2>6. /\ SlotsType' /\ OnlySlot(q) /\ CallerKnown(q)' /\ CopyInv(q)' /\ pc'[q] \notin Holding
    BY <2>1, Finished DEF Holding, Writing
  <2> HIDE DEF row
  <2>7. QED
    BY <2>1, <2>2, <2>3, <2>4, <2>5, <2>6, RowSteps
<1>5. ASSUME AdminAddPolicy(q) \/ AdminRemovePolicy(q) PROVE UserInv'
  <2>1. policies' \subseteq Roles \X Resources
    BY <1>5 DEF AdminAddPolicy, AdminRemovePolicy, UserInv, UsersType
  <2>2. QED
    BY <1>5, <2>1, FinishSteps DEF AdminAddPolicy, AdminRemovePolicy
<1>6. ASSUME AdminRevokeSession(q) PROVE UserInv'
  <2>1. /\ pc[q] = "in" /\ Goto(q, "revoke")
        /\ UNCHANGED <<users, ideal, clock, tokens, policies, mine, edit, copy>>
    BY <1>6 DEF AdminRevokeSession, Authorize
  <2>2. DOMAIN edit' = Slots /\ DOMAIN mine' = Slots
    BY <2>1 DEF UserInv, UsersType, SlotsType
  <2>3. QED
    BY <2>1, <2>2, PassSteps DEF Holding, Writing
<1>7. QED
  BY <1>1, <1>2, <1>3, <1>4, <1>5, <1>6 DEF Administer

LEMMA UsersKeep ==
  ASSUME UserInv, [Next]_vars
  PROVE  UserInv'
<1> USE DEF Same, sessionVars, redisVars, userVars, disk, work
<1>1. ASSUME NEW q \in Slots, Protect(q) PROVE UserInv'
  <2>1. PICK t \in tokens :
           /\ pc[q] = "idle" /\ mine' = [mine EXCEPT ![q] = t] /\ Goto(q, "in")
           /\ UNCHANGED <<users, ideal, clock, tokens, policies, edit, copy>>
    BY <1>1 DEF Protect, Arrive
  <2>2. Known(t.user)
    BY DEF UserInv, TokensKnown
  <2>3. QED
    BY <2>1, <2>2, CallerSteps DEF Holding, Writing
<1>2. ASSUME NEW q \in Slots, Answer(q) PROVE UserInv'
  BY <1>2, FinishSteps DEF Answer, UserInv, UsersType
<1>3. CASE \/ StateExpires \/ UNCHANGED vars
           \/ Tick /\ Same(<<userVars, work, policies, oauth>>)
  <2>1. UNCHANGED <<users, ideal, policies, tokens, pc, mine, edit, copy>> /\ clock' \in Nat
    BY <1>3 DEF StateExpires, Tick, vars, UserInv, UsersType
  <2>2. QED
    BY <2>1 DEF UserInv, UsersType, SlotsType, TokensKnown, CallerKnown, CopyInv,
                CopiesAlone, Known, SavesKeepOtherFields
<1>4. CASE Restart
  <2>1. /\ UNCHANGED <<users, ideal, clock, tokens>>
        /\ policies' \subseteq Roles \X Resources /\ SlotsType'
        /\ \A q \in Slots : pc'[q] = "idle" /\ copy'[q] = Nil
    BY <1>4, AccountsAssumption DEF Restart, UserInv, UsersType, SlotsType
  <2>2. UsersType' /\ TokensKnown' /\ SavesKeepOtherFields'
    BY <2>1 DEF UserInv, UsersType, TokensKnown, Known, SavesKeepOtherFields
  <2>3. \A q \in Slots : CallerKnown(q)' /\ CopyInv(q)' /\ pc'[q] \notin Holding
    BY <2>1 DEF CallerKnown, CopyInv, Holding, Writing
  <2>4. QED
    BY <2>2, <2>3 DEF UserInv, CopiesAlone
<1> HIDE DEF Same, sessionVars, redisVars, userVars, disk, work
<1>5. QED
  BY <1>1, <1>2, <1>3, <1>4, SignInKeepsUsers, ProfileKeepsUsers, AdministerKeepsUsers DEF Next

LEMMA UsersStart ==
  ASSUME Init
  PROVE  UserInv
<1>1. Seeded \in User /\ Seeded.avatar = Nil
  BY AccountsAssumption DEF User, Seeded
<1>2. users \in [Users -> User \cup {Nil}]
      /\ \A u \in Users : users[u] # Nil => users[u] = Seeded
  BY <1>1 DEF Init
<1>3. UsersType
  BY <1>1, <1>2, AccountsAssumption DEF Init, SessionInit, UsersType, SlotsType
<1>4. \A q \in Slots : pc[q] = "idle" /\ copy[q] = Nil
  BY DEF Init, SessionInit
<1>5. \A q \in Slots : CallerKnown(q) /\ CopyInv(q) /\ pc[q] \notin Holding
  BY <1>4 DEF CallerKnown, CopyInv, Holding, Writing
<1>6. TokensKnown /\ SavesKeepOtherFields
  BY DEF Init, SessionInit, TokensKnown, SavesKeepOtherFields
<1>7. QED
  BY <1>3, <1>5, <1>6 DEF UserInv, CopiesAlone

\* The handlers save whole rows (user.go, admin.go), and yet, as long as no two
\* of them hold copies of a row at once, a save writes back no field of it that
\* was changed since the row was read, whatever else runs in between.
THEOREM SavesKeepFields == Spec => []SavesKeepOtherFields
<1>1. Init => UserInv
  BY UsersStart
<1>2. UserInv /\ [Next]_vars => UserInv'
  BY UsersKeep
<1>3. UserInv => SavesKeepOtherFields
  BY DEF UserInv
<1>4. QED
  BY <1>1, <1>2, <1>3, PTL DEF Spec

----------------------------------------------------------------------------
(***************************************************************************)
(* The avatar files.                                                       *)
(***************************************************************************)
\* The row of v, as far as avatars go, is the same, new, or overlapped.
SameAvatar(v) == ideal'[v] # Nil =>
    \/ ideal[v] # Nil /\ users'[v].avatar = users[v].avatar
    \/ ~Known(v) /\ users'[v].avatar = Nil

LEMMA UploadsKnown ==
  ASSUME UserInv, NEW q \in Slots, NEW u, Uploaded(q, u) \/ Replacing(q, u)
  PROVE  Known(u)
  BY DEF UserInv, CallerKnown, CopyInv, Uploaded, Replacing, Holding, Writing

\* A step of a slot that neither begins nor ends the replacing of an avatar.
LEMMA DiskKeeps ==
  ASSUME UserInv, DiskInv, NEW q \in Slots, OnlySlot(q), UNCHANGED disk,
         \A v \in Users : ~Replacing(q, v),
         pc'[q] \notin {"upload", "save"} \/ edit'[q].field # "avatar",
         \A v \in Users : SameAvatar(v)
  PROVE  DiskInv'
<1>0. files' = files /\ broken' = broken
  BY DEF disk
<1>1. ASSUME NEW v \in Users, NEW p \in Slots, Uploaded(p, v)'
      PROVE  Uploaded(p, v) /\ edit'[p] = edit[p] /\ p # q
  BY <1>1 DEF OnlySlot, Uploaded
<1>2. ASSUME NEW v \in Users, NEW p \in Slots, Replacing(p, v)
      PROVE  Replacing(p, v)'
  BY <1>2 DEF OnlySlot, Replacing
<1>3. ASSUME NEW v \in Users, ideal'[v] # Nil PROVE OnDisk(v)'
  <2>1. CASE ideal[v] # Nil /\ users'[v].avatar = users[v].avatar
    <3>1. OnDisk(v)
      BY <2>1 DEF DiskInv
    <3>2. \/ users'[v].avatar = Nil \/ users'[v].avatar \in files' \/ v \in broken'
          \/ \E p \in Slots : Replacing(p, v)'
      BY <3>1, <2>1, <1>0, <1>2 DEF OnDisk
    <3>3. ASSUME NEW p \in Slots, Uploaded(p, v)'
          PROVE  /\ edit'[p].val \in files' /\ edit'[p].val \in {v} \X Nat
                 /\ edit'[p].val # users'[v].avatar
                 /\ \A r \in Slots \ {p} : Uploaded(r, v)' => edit'[r].val # edit'[p].val
      BY <3>1, <3>3, <2>1, <1>0, <1>1 DEF OnDisk
    <3>4. QED
      BY <3>2, <3>3 DEF OnDisk
  <2>2. CASE ~Known(v) /\ users'[v].avatar = Nil
    BY <2>2, <1>1, UploadsKnown DEF OnDisk
  <2>3. QED
    BY <1>3, <2>1, <2>2 DEF SameAvatar
<1>4. QED
  BY <1>3 DEF DiskInv

LEMMA DiskIdle ==
  ASSUME UserInv, DiskInv, NEW q \in Slots, OnlySlot(q), UNCHANGED <<users, ideal, disk>>,
         pc[q] # "save", pc'[q] \notin {"upload", "save"}
  PROVE  DiskInv'
  BY DiskKeeps DEF SameAvatar, Replacing

\* The names of a user's files are the user's own.
LEMMA OwnNames ==
  ASSUME UserInv, NEW u \in Users, NEW v \in Users, u # v, Known(u),
         NEW a, a \in {v} \X Nat, a # Nil
  PROVE  a # users[u].avatar
<1>1. users[u].avatar \in ({u} \X Nat) \cup {Nil}
  BY RowOf
<1>2. QED
  BY <1>1

\* A slot removes the old file, to save its copy with the new avatar.
LEMMA DiskReplace ==
  ASSUME UserInv, UserInv', DiskInv, NEW q \in Slots, OnlySlot(q), NEW u \in Users, Known(u),
         users' = users, ideal' = Overlap(q, u), files' = RemoveOldFile(u),
         broken' = broken, pc[q] \in {"in", "upload"}, pc'[q] = "save",
         edit'[q].user = u, edit'[q].field = "avatar",
         edit'[q].val = Nil \/ (edit' = edit /\ pc[q] = "upload")
  PROVE  DiskInv'
<1>1. Replacing(q, u)' /\ \A v \in Users : ~Replacing(q, v)
  BY DEF Replacing
<1>2. ASSUME NEW v \in Users, NEW p \in Slots, Uploaded(p, v)'
      PROVE  Uploaded(p, v) /\ edit'[p].val = edit[p].val
  BY <1>2 DEF OnlySlot, Uploaded
<1>3. ASSUME NEW v \in Users, ideal'[v] # Nil
      PROVE  ideal[v] # Nil /\ OnDisk(v)
  <2>1. ideal[v] # Nil
    BY <1>3 DEF Overlap, UserInv, UsersType
  <2>2. QED
    BY <2>1 DEF DiskInv
<1>5. ASSUME NEW v \in Users, ideal'[v] # Nil PROVE OnDisk(v)'
  <2>1. CASE v = u
    <3>1. ASSUME NEW p \in Slots, Uploaded(p, v)'
          PROVE  /\ edit'[p].val \in files' /\ edit'[p].val \in {v} \X Nat
                 /\ edit'[p].val # users'[v].avatar
                 /\ \A r \in Slots \ {p} : Uploaded(r, v)' => edit'[r].val # edit'[p].val
      BY <1>2, <1>3, <1>5, <2>1, <3>1 DEF OnDisk, RemoveOldFile
    <3>2. QED
      BY <1>1, <2>1, <3>1 DEF OnDisk
  <2>2. CASE v # u
    <3>1. OnDisk(v)
      BY <1>3, <1>5
    <3>2. ASSUME NEW p \in Slots, Replacing(p, v) PROVE Replacing(p, v)'
      BY <1>1, <3>2 DEF Replacing, OnlySlot
    <3>3. ASSUME NEW p \in Slots, Uploaded(p, v)'
          PROVE  /\ edit'[p].val \in files' /\ edit'[p].val \in {v} \X Nat
                 /\ edit'[p].val # users'[v].avatar
                 /\ \A r \in Slots \ {p} : Uploaded(r, v)' => edit'[r].val # edit'[p].val
      <4>1. Uploaded(p, v) /\ edit'[p].val = edit[p].val
        BY <1>2, <3>3
      <4>2. edit[p].val \in files /\ edit[p].val \in {v} \X Nat /\ edit[p].val # Nil
        BY <3>1, <4>1 DEF OnDisk, Uploaded
      <4>3. edit'[p].val \in files'
        BY <4>1, <4>2, <2>2, OwnNames DEF RemoveOldFile
      <4>4. \A r \in Slots \ {p} : Uploaded(r, v)' => edit'[r].val # edit'[p].val
        BY <3>1, <4>1, <1>2 DEF OnDisk
      <4>5. edit'[p].val # users'[v].avatar
        BY <3>1, <4>1 DEF OnDisk
      <4>6. QED
        BY <4>1, <4>2, <4>3, <4>4, <4>5
    <3>4. \/ users'[v].avatar = Nil \/ users'[v].avatar \in files' \/ v \in broken'
          \/ \E p \in Slots : Replacing(p, v)'
      <4>1. CASE users[v].avatar \in files /\ users[v].avatar # Nil
        <5>1. users[v].avatar \in {v} \X Nat
          BY <1>3, <1>5, <4>1, AccountsAssumption
             DEF UserInv, UsersType, SavesKeepOtherFields
        <5>2. QED
          BY <4>1, <5>1, <2>2, OwnNames DEF RemoveOldFile
      <4>2. QED
        BY <4>1, <3>1, <3>2 DEF OnDisk
    <3>5. QED
      BY <3>3, <3>4 DEF OnDisk
  <2>3. QED
    BY <2>1, <2>2
<1>6. QED
  BY <1>5 DEF DiskInv

LEMMA DiskUpload ==
  ASSUME UserInv, DiskInv, NEW q \in Slots, UploadAvatar(q)
  PROVE  DiskInv'
<1>1. PICK u : u = mine[q].user
  OBVIOUS
<1>2. /\ pc[q] = "in" /\ pc'[q] = "upload" /\ OnlySlot(q) /\ users' = users
      /\ edit'[q].user = u /\ edit'[q].field = "avatar" /\ edit'[q].val = <<u, clock>>
      /\ files' = files \cup {<<u, clock>>} /\ broken' = broken
  BY <1>1 DEF UploadAvatar, Same, Authorize, Goto, UserInv, UsersType, SlotsType, OnlySlot
<1>3. Known(u) /\ u \in Users /\ <<u, clock>> \in {u} \X Nat
  BY <1>1, <1>2 DEF UserInv, CallerKnown, Known, UsersType
<1>4. ASSUME NEW v \in Users, ideal'[v] # Nil
      PROVE  ideal[v] # Nil /\ OnDisk(v) /\ (v = u => ~NameTaken(u, <<u, clock>>))
  BY <1>1, <1>3, <1>4 DEF UploadAvatar, DiskInv, UserInv, UsersType
<1>5. ASSUME NEW v \in Users, NEW p \in Slots, p # q
      PROVE  /\ Uploaded(p, v)' <=> Uploaded(p, v)
             /\ Replacing(p, v)' <=> Replacing(p, v)
             /\ edit'[p] = edit[p]
  <2>1. edit'[p] = edit[p] /\ pc'[p] = pc[p]
    BY <1>2, <1>5 DEF OnlySlot
  <2>2. QED
    BY <2>1 DEF Uploaded, Replacing
<1>6. ASSUME NEW v \in Users
      PROVE  ~Replacing(q, v) /\ (Uploaded(q, v)' => v = u)
  BY <1>2 DEF Replacing, Uploaded
<1>7. ASSUME NEW v \in Users, ideal'[v] # Nil PROVE OnDisk(v)'
  <2>1. ASSUME NEW p \in Slots, Replacing(p, v) PROVE Replacing(p, v)'
    BY <1>5, <1>6, <2>1
  <2>2. \/ users'[v].avatar = Nil \/ users'[v].avatar \in files' \/ v \in broken'
        \/ \E p \in Slots : Replacing(p, v)'
    BY <1>2, <1>4, <1>7, <2>1 DEF OnDisk
  <2>3. ASSUME NEW p \in Slots, p # q, Uploaded(p, v)'
        PROVE  /\ edit'[p].val \in files /\ edit'[p].val \in {v} \X Nat
               /\ edit'[p].val # users'[v].avatar
               /\ \A r \in Slots \ {p, q} : Uploaded(r, v)' => edit'[r].val # edit'[p].val
    BY <1>2, <1>4, <1>5, <1>7, <2>3 DEF OnDisk
  <2>4. ASSUME Uploaded(q, v)'
        PROVE  /\ edit'[q].val \in files' /\ edit'[q].val \in {v} \X Nat
               /\ edit'[q].val # users'[v].avatar
               /\ edit'[q].val \notin files
    <3>1. v = u /\ <<u, clock>> \notin files /\ users[u].avatar # <<u, clock>>
      BY <1>3, <1>4, <1>6, <1>7, <2>4 DEF NameTaken, Known
    <3>3. edit'[q].val # users'[v].avatar
      BY <1>2, <3>1
    <3>4. QED
      BY <1>2, <1>3, <3>1, <3>3
  <2>5. QED
    BY <1>2, <2>2, <2>3, <2>4 DEF OnDisk
<1>8. QED
  BY <1>7 DEF DiskInv

\* What a save makes of the row, as long as nothing overlapped.
LEMMA SavedRow ==
  ASSUME UserInv, NEW q \in Slots, pc[q] \in Writing, SaveCopy(q), NEW u, u = edit[q].user
  PROVE  /\ u \in Users /\ users[u] \in User /\ files' = files
         /\ broken' = {v \in broken : ~Replacing(q, v)}
         /\ \A v \in Users \ {u} : users'[v] = users[v] /\ ideal'[v] = ideal[v]
         /\ ideal'[u] # Nil => /\ ideal[u] # Nil
                               /\ users'[u] = [users[u] EXCEPT ![edit[q].field] = edit[q].val]
<1>1. Known(u) /\ u \in Users /\ users[u] \in User
  BY RowOf DEF UserInv, CopyInv, Holding
<1>2. /\ users' = [users EXCEPT ![u] = copy[q]] /\ files' = files
      /\ broken' = {v \in broken : ~Replacing(q, v)}
      /\ ideal[u] = Nil => ideal' = ideal
      /\ \A v \in Users \ {u} : ideal'[v] = ideal[v]
  BY DEF SaveCopy, UserInv, UsersType
<1>3. ideal[u] # Nil => copy[q] = [users[u] EXCEPT ![edit[q].field] = edit[q].val]
  BY DEF UserInv, CopyInv
<1>4. QED
  BY <1>1, <1>2, <1>3 DEF UserInv, UsersType

LEMMA DiskSaveOther ==
  ASSUME UserInv, DiskInv, NEW q \in Slots, pc[q] \in Writing, SaveCopy(q), OnlySlot(q),
         edit[q].field # "avatar", pc'[q] \notin {"upload", "save"}
  PROVE  DiskInv'
<1>1. PICK u : u = edit[q].user
  OBVIOUS
<1>2. /\ u \in Users /\ users[u] \in User /\ files' = files
      /\ broken' = {v \in broken : ~Replacing(q, v)}
      /\ \A v \in Users \ {u} : users'[v] = users[v] /\ ideal'[v] = ideal[v]
      /\ ideal'[u] # Nil => /\ ideal[u] # Nil
                            /\ users'[u] = [users[u] EXCEPT ![edit[q].field] = edit[q].val]
  BY <1>1, SavedRow
<1>3. ideal'[u] # Nil => users'[u].avatar = users[u].avatar
  BY <1>2 DEF User
<1>4. \A v \in Users : SameAvatar(v)
  BY <1>2, <1>3 DEF SameAvatar
<1>5. (\A v : ~Replacing(q, v)) /\ UNCHANGED disk
  BY <1>2 DEF Replacing, disk
<1>6. QED
  BY <1>4, <1>5, DiskKeeps

LEMMA DiskSaveAvatar ==
  ASSUME UserInv, DiskInv, NEW q \in Slots, pc[q] = "save", SaveCopy(q), OnlySlot(q),
         edit[q].field = "avatar", pc'[q] = "idle"
  PROVE  DiskInv'
<1>1. PICK u : u = edit[q].user
  OBVIOUS
<1>2. /\ u \in Users /\ files' = files /\ broken \ {u} \subseteq broken'
      /\ \A v \in Users \ {u} : users'[v] = users[v] /\ ideal'[v] = ideal[v]
      /\ ideal'[u] # Nil => ideal[u] # Nil /\ users'[u].avatar = edit[q].val
  <2>1. pc[q] \in Writing
    BY DEF Writing
  <2>2. /\ u \in Users /\ users[u] \in User /\ files' = files
        /\ broken' = {v \in broken : ~Replacing(q, v)}
        /\ \A v \in Users \ {u} : users'[v] = users[v] /\ ideal'[v] = ideal[v]
        /\ ideal'[u] # Nil => /\ ideal[u] # Nil
                              /\ users'[u] = [users[u] EXCEPT ![edit[q].field] = edit[q].val]
    BY <1>1, <2>1, SavedRow
  <2>3. QED
    BY <1>1, <2>2 DEF User, Replacing
<1>3. ASSUME NEW v \in Users, NEW p \in Slots
      PROVE  /\ Uploaded(p, v)' => p # q /\ Uploaded(p, v) /\ edit'[p] = edit[p]
             /\ p # q /\ Replacing(p, v) => Replacing(p, v)'
             /\ Replacing(q, v) => v = u
  BY <1>1 DEF OnlySlot, Uploaded, Replacing
<1>4. ASSUME NEW v \in Users, ideal'[v] # Nil PROVE OnDisk(v)'
  <2>1. ideal[v] # Nil /\ OnDisk(v)
    BY <1>2, <1>4 DEF DiskInv
  <2>2. CASE v = u
    <3>1. users'[v].avatar = edit[q].val /\ (edit[q].val # Nil => Uploaded(q, v))
      BY <1>1, <1>2, <1>4, <2>2 DEF Uploaded
    <3>2. \/ users'[v].avatar = Nil \/ users'[v].avatar \in files'
      BY <1>2, <2>1, <3>1 DEF OnDisk
    <3>3. ASSUME NEW p \in Slots, Uploaded(p, v)'
          PROVE  /\ edit'[p].val \in files' /\ edit'[p].val \in {v} \X Nat
                 /\ edit'[p].val # users'[v].avatar
                 /\ \A r \in Slots \ {p} : Uploaded(r, v)' => edit'[r].val # edit'[p].val
      <4>1. Uploaded(p, v) /\ p # q /\ edit'[p] = edit[p] /\ edit[p].val # Nil
        BY <1>3, <3>3 DEF Uploaded
      <4>2. edit[p].val # edit[q].val
        BY <2>1, <3>1, <4>1 DEF OnDisk
      <4>3. QED
        BY <1>2, <1>3, <2>1, <3>1, <4>1, <4>2 DEF OnDisk
    <3>4. QED
      BY <3>2, <3>3 DEF OnDisk
  <2>3. CASE v # u
    <3>1. ASSUME NEW p \in Slots, Replacing(p, v) PROVE Replacing(p, v)'
      BY <1>3, <2>3, <3>1
    <3>2. ASSUME NEW p \in Slots, Uploaded(p, v)'
          PROVE  /\ edit'[p].val \in files' /\ edit'[p].val \in {v} \X Nat
                 /\ edit'[p].val # users'[v].avatar
                 /\ \A r \in Slots \ {p} : Uploaded(r, v)' => edit'[r].val # edit'[p].val
      BY <1>2, <1>3, <2>1, <2>3, <3>2 DEF OnDisk
    <3>3. \/ users'[v].avatar = Nil \/ users'[v].avatar \in files' \/ v \in broken'
          \/ \E p \in Slots : Replacing(p, v)'
      BY <1>2, <2>1, <2>3, <3>1 DEF OnDisk
    <3>4. QED
      BY <3>2, <3>3 DEF OnDisk
  <2>4. QED
    BY <2>2, <2>3
<1>5. QED
  BY <1>4 DEF DiskInv

\* Steps that only the tables of sessions, tokens and policies notice.
LEMMA QuietSteps ==
  ASSUME UserInv, NEW q \in Slots,
         \/ Protect(q) \/ Answer(q) \/ Login(q) \/ OpenSession(q) \/ RefreshToken(q)
         \/ GoogleLogin(q) \/ GoogleCallback(q) \/ DropState(q) \/ GoogleFails(q)
         \/ AdmitLinked(q) \/ Logout(q) \/ LogoutRow(q)
         \/ (IssuePair(q) \/ IssueFails(q) \/ DeleteRow(q))
            /\ Same(<<userVars, work, policies, oauth>>)
         \/ ListOtherSessions(q) \/ RevokeKey(q) \/ WriteMark(q) \/ RevokeRow(q)
         \/ AdminAddPolicy(q) \/ AdminRemovePolicy(q) \/ AdminRevokeSession(q)
  PROVE  /\ OnlySlot(q) /\ UNCHANGED <<users, ideal, disk>>
         /\ pc[q] # "save" /\ pc'[q] \notin {"upload", "save"}
<1> USE DEF UserInv, UsersType, SlotsType, OnlySlot, Same, sessionVars, redisVars, userVars, disk, work,
            Arrive, Goto, Finish, Authorize
<1>1. CASE Protect(q) \/ Answer(q)
  BY <1>1 DEF Protect, Answer
<1>2. CASE Login(q)
  BY <1>2 DEF Login, Open
<1>3. CASE OpenSession(q)
  BY <1>3 DEF OpenSession, createSession
<1>4. CASE RefreshToken(q)
  BY <1>4 DEF RefreshToken
<1>5. CASE GoogleLogin(q) \/ GoogleCallback(q)
  BY <1>5 DEF GoogleLogin, GoogleCallback
<1>6. CASE DropState(q) \/ GoogleFails(q)
  BY <1>6 DEF DropState, GoogleFails
<1>7. CASE AdmitLinked(q)
  BY <1>7 DEF AdmitLinked
<1>8. CASE Logout(q) \/ LogoutRow(q)
  BY <1>8 DEF Logout, LogoutRow
<1>9. CASE (IssuePair(q) \/ IssueFails(q) \/ DeleteRow(q))
           /\ Same(<<userVars, work, policies, oauth>>)
  BY <1>9 DEF IssuePair, IssueFails, DeleteRow
<1>10. CASE ListOtherSessions(q)
  BY <1>10 DEF ListOtherSessions
<1>11. CASE RevokeKey(q) \/ WriteMark(q)
  BY <1>11 DEF RevokeKey, WriteMark
<1>12. CASE RevokeRow(q)
  BY <1>12 DEF RevokeRow
<1>13. CASE AdminAddPolicy(q) \/ AdminRemovePolicy(q) \/ AdminRevokeSession(q)
  BY <1>13 DEF AdminAddPolicy, AdminRemovePolicy, AdminRevokeSession
<1>14. QED
  BY <1>1, <1>2, <1>3, <1>4, <1>5, <1>6, <1>7, <1>8, <1>9, <1>10, <1>11, <1>12, <1>13

\* A copy is taken to change another field, or to link the account.
LEMMA DiskChange ==
  ASSUME UserInv, DiskInv, NEW q \in Slots, NEW u, NEW f, NEW v, NEW step,
         Change(q, u, f, v, step), mine' = mine, UNCHANGED disk,
         pc[q] # "save", step # "upload", f # "avatar" \/ step # "save"
  PROVE  DiskInv'
<1>1. /\ OnlySlot(q) /\ pc'[q] = step /\ edit'[q].field = f
      /\ users' = users /\ ideal' = Overlap(q, u)
  BY DEF Change, Goto, UserInv, UsersType, SlotsType, OnlySlot
<1>2. \A w \in Users : SameAvatar(w)
  BY <1>1 DEF SameAvatar, Overlap, UserInv, UsersType
<1>3. \A w \in Users : ~Replacing(q, w)
  BY DEF Replacing
<1>4. QED
  BY <1>1, <1>2, <1>3, DiskKeeps

\* A row is inserted.
LEMMA DiskNewRow ==
  ASSUME UserInv, DiskInv, NEW q \in Slots, NEW u \in Users, NEW row, row.avatar = Nil,
         NewRow(u, row), OnlySlot(q), pc[q] # "save", pc'[q] \notin {"upload", "save"}
  PROVE  DiskInv'
<1>1. /\ users[u] = Nil /\ users'[u] = row /\ UNCHANGED disk
      /\ \A v \in Users \ {u} : users'[v] = users[v] /\ ideal'[v] = ideal[v]
  BY DEF NewRow, UserInv, UsersType
<1>2. \A v \in Users : SameAvatar(v)
  BY <1>1 DEF SameAvatar, Known
<1>3. \A v \in Users : ~Replacing(q, v)
  BY DEF Replacing
<1>4. QED
  BY <1>1, <1>2, <1>3, DiskKeeps

LEMMA SignInKeepsDisk ==
  ASSUME UserInv, DiskInv, NEW q \in Slots, SignIn(q)
  PROVE  DiskInv'
<1>1. ASSUME Register(q) PROVE DiskInv'
  <2>1. PICK u \in Users : NewRow(u, LocalRow("user")) /\ Open(q, u, LocalRow("user"))
    BY <1>1 DEF Register
  <2>2. OnlySlot(q) /\ pc[q] = "idle" /\ pc'[q] = "open"
    BY <1>1, <2>1 DEF Register, Arrive, Open, Goto, work, UserInv, UsersType, SlotsType, OnlySlot
  <2>3. LocalRow("user").avatar = Nil
    BY DEF LocalRow, Seeded
  <2>4. QED
    BY <2>1, <2>2, <2>3, DiskNewRow
<1>2. ASSUME ResolveGoogleUser(q) PROVE DiskInv'
  <2>1. pc[q] = "google"
    BY <1>2 DEF ResolveGoogleUser
  <2>2. PICK g \in GoogleAccounts : LET u == EmailOf[g] IN
           \/ \E v \in LinkedTo(g) :
                 IF users[v].avatar = Nil
                 THEN Change(q, v, "avatar", Nil, "sync") /\ UNCHANGED <<mine, disk>>
                 ELSE Admit(q, v, users[v]) /\ UNCHANGED userVars
           \/ /\ LinkedTo(g) = {} /\ ~Exists(u)
              /\ \/ NewRow(u, GoogleRow(g)) /\ Open(q, u, GoogleRow(g))
                 \/ users[u] # Nil /\ Finish(q) /\ UNCHANGED userVars
           \/ /\ LinkedTo(g) = {} /\ Exists(u)
              /\ IF users[u].provider = "google"
                 THEN Change(q, u, "sub", g, "link") /\ UNCHANGED <<mine, disk>>
                 ELSE Finish(q) /\ UNCHANGED userVars
    BY <1>2 DEF ResolveGoogleUser
  <2>3. ASSUME NEW v, Change(q, v, "avatar", Nil, "sync") \/ Change(q, v, "sub", g, "link"),
               UNCHANGED <<mine, disk>>
        PROVE  DiskInv'
    BY <2>1, <2>3, DiskChange
  <2>4. ASSUME NEW v, NEW row, Admit(q, v, row) \/ Finish(q), UNCHANGED userVars PROVE DiskInv'
    <3>1. OnlySlot(q) /\ pc'[q] \in {"open", "idle"}
      BY <2>4 DEF Admit, Open, Finish, Goto, work, UserInv, UsersType, SlotsType, OnlySlot
    <3>2. QED
      BY <2>1, <2>4, <3>1, DiskIdle DEF userVars, disk
  <2>5. ASSUME NEW u \in Users, NewRow(u, GoogleRow(g)), Open(q, u, GoogleRow(g)) PROVE DiskInv'
    <3>1. OnlySlot(q) /\ pc'[q] = "open"
      BY <2>5 DEF Open, Goto, work, UserInv, UsersType, SlotsType, OnlySlot
    <3>2. GoogleRow(g).avatar = Nil
      BY DEF GoogleRow, Seeded
    <3>3. QED
      BY <2>1, <2>5, <3>1, <3>2, DiskNewRow
  <2>6. EmailOf[g] \in Users
    BY AccountsAssumption
  <2>7. QED
    BY <2>2, <2>3, <2>4, <2>5, <2>6
<1>3. ASSUME SyncAvatar(q) PROVE DiskInv'
  <2>1. PICK u : u = edit[q].user
    OBVIOUS
  <2>2. /\ pc[q] = "sync" /\ pc'[q] = "admit" /\ OnlySlot(q) /\ ideal' = ideal /\ UNCHANGED disk
        /\ users' = [users EXCEPT ![u].avatar = Nil]
    BY <1>3, <2>1 DEF SyncAvatar, Same, work, Goto, UserInv, UsersType, SlotsType, OnlySlot
  <2>3. Known(u) /\ users[u] \in User /\ (ideal[u] # Nil => users[u].avatar = Nil)
    BY <2>1, <2>2, RowOf DEF UserInv, CopyInv, Holding, Writing
  <2>4. users'[u].avatar = Nil /\ \A v \in Users \ {u} : users'[v] = users[v]
    BY <2>2, <2>3 DEF Known, UserInv, UsersType, User
  <2>5. \A v \in Users : SameAvatar(v)
    BY <2>2, <2>3, <2>4 DEF SameAvatar
  <2>6. QED
    BY <2>2, <2>5, DiskKeeps DEF Replacing
<1>4. ASSUME LinkAccount(q) PROVE DiskInv'
  <2>1. /\ pc[q] \in Writing /\ SaveCopy(q) /\ OnlySlot(q) /\ pc'[q] = "admit"
        /\ edit[q].field # "avatar"
    BY <1>4 DEF LinkAccount, Same, work, Goto, Writing, UserInv, UsersType, SlotsType, OnlySlot,
                CopyInv
  <2>2. QED
    BY <2>1, DiskSaveOther
<1>5. QED
  BY <1>1, <1>2, <1>3, <1>4, QuietSteps, DiskIdle DEF SignIn

\* Some slots end, and leave users broken whose avatar they were replacing.
LEMMA DiskCutOff ==
  ASSUME DiskInv, NEW slots \in SUBSET Slots, UNCHANGED <<users, files, ideal>>,
         broken' = broken \cup CutOff(slots),
         \A q \in slots : pc'[q] = "idle",
         \A q \in Slots \ slots : pc'[q] = pc[q] /\ edit'[q] = edit[q]
  PROVE  DiskInv'
<1>1. ASSUME NEW u \in Users, NEW q \in Slots, Replacing(q, u)
      PROVE  u \in broken' \/ Replacing(q, u)'
  BY <1>1 DEF CutOff, Replacing
<1>2. ASSUME NEW u \in Users, NEW q \in Slots, Uploaded(q, u)'
      PROVE  Uploaded(q, u) /\ edit'[q] = edit[q]
  BY <1>2 DEF Uploaded
<1>3. ASSUME NEW u \in Users, ideal'[u] # Nil PROVE OnDisk(u)'
  <2>1. OnDisk(u)
    BY <1>3 DEF DiskInv
  <2>2. QED
    BY <2>1, <1>1, <1>2 DEF OnDisk
<1>4. QED
  BY <1>3 DEF DiskInv

LEMMA ProfileKeepsDisk ==
  ASSUME UserInv, UserInv', DiskInv, NEW q \in Slots, Profile(q)
  PROVE  DiskInv'
<1>1. ASSUME UpdateProfile(q) PROVE DiskInv'
  BY <1>1, DiskChange DEF UpdateProfile, Same, Authorize
<1>2. ASSUME Save(q) PROVE DiskInv'
  <2>1. pc[q] = "save" /\ pc[q] \in Writing /\ SaveCopy(q) /\ OnlySlot(q) /\ pc'[q] = "idle"
    BY <1>2, Finished DEF Save, Writing
  <2>2. QED
    BY <2>1, DiskSaveOther, DiskSaveAvatar
<1>8. ASSUME SaveFails(q) PROVE DiskInv'
  <2>1. /\ UNCHANGED <<users, files, ideal>> /\ broken' = broken \cup CutOff({q})
        /\ OnlySlot(q) /\ pc'[q] = "idle"
    BY <1>8, Finished DEF SaveFails, Same
  <2>2. {q} \in SUBSET Slots /\ \A p \in {q} : pc'[p] = "idle"
    BY <2>1
  <2>3. \A p \in Slots \ {q} : pc'[p] = pc[p] /\ edit'[p] = edit[p]
    BY <2>1 DEF OnlySlot
  <2>4. QED
    BY <2>1, <2>2, <2>3, DiskCutOff
<1>3. ASSUME ReplaceAvatar(q) PROVE DiskInv'
  <2>1. PICK u : u = edit[q].user
    OBVIOUS
  <2>2. pc[q] = "upload" /\ Known(u) /\ u \in Users /\ edit[q].field = "avatar"
    BY <1>3, <2>1 DEF ReplaceAvatar, UserInv, CallerKnown, Known
  <2>3. ASSUME Exists(u) PROVE DiskInv'
    <3>1. /\ OnlySlot(q) /\ pc'[q] = "save" /\ users' = users /\ edit' = edit
          /\ ideal' = Overlap(q, u) /\ files' = RemoveOldFile(u) /\ broken' = broken
      BY <1>3, <2>1, <2>3 DEF ReplaceAvatar, Goto, UserInv, UsersType, SlotsType, OnlySlot
    <3>2. edit'[q].user = u /\ edit'[q].field = "avatar"
      BY <2>1, <2>2, <3>1
    <3>3. QED
      BY <2>2, <3>1, <3>2, DiskReplace
  <2>4. ASSUME Finish(q), UNCHANGED userVars PROVE DiskInv'
    BY <2>2, <2>4, Finished, DiskIdle DEF userVars, disk
  <2>5. QED
    BY <1>3, <2>1, <2>3, <2>4 DEF ReplaceAvatar
<1>4. ASSUME RemoveAvatar(q) PROVE DiskInv'
  <2>1. PICK u : u = mine[q].user
    OBVIOUS
  <2>2. /\ pc[q] = "in" /\ files' = RemoveOldFile(u) /\ mine' = mine /\ broken' = broken
        /\ Change(q, u, "avatar", Nil, "save")
    BY <1>4, <2>1 DEF RemoveAvatar, Authorize, Same
  <2>3. Known(u) /\ u \in Users
    BY <2>1, <2>2 DEF UserInv, CallerKnown, Known
  <2>4. /\ OnlySlot(q) /\ pc'[q] = "save" /\ users' = users /\ ideal' = Overlap(q, u)
        /\ edit'[q].user = u /\ edit'[q].field = "avatar" /\ edit'[q].val = Nil
    BY <2>2 DEF Change, Goto, UserInv, UsersType, SlotsType, OnlySlot
  <2>5. QED
    BY <2>2, <2>3, <2>4, DiskReplace
<1>5. ASSUME ChangePassword(q) PROVE DiskInv'
  BY <1>5, DiskChange DEF ChangePassword, Same, Authorize
<1>6. ASSUME SavePassword(q) PROVE DiskInv'
  <2>1. /\ pc[q] \in Writing /\ SaveCopy(q) /\ OnlySlot(q) /\ pc'[q] = "list"
        /\ edit[q].field # "avatar"
    BY <1>6 DEF SavePassword, Same, Goto, Writing, UserInv, UsersType, SlotsType, OnlySlot, CopyInv
  <2>2. QED
    BY <2>1, DiskSaveOther
<1>7. QED
  BY <1>1, <1>2, <1>3, <1>4, <1>5, <1>6, <1>8, DiskUpload, QuietSteps, DiskIdle DEF Profile

LEMMA AdministerKeepsDisk ==
  ASSUME UserInv, DiskInv, NEW q \in Slots, Administer(q)
  PROVE  DiskInv'
<1>1. ASSUME AdminCreateUser(q) PROVE DiskInv'
  <2>1. PICK u \in Users, r \in Roles : pc[q] = "in" /\ NewRow(u, LocalRow(r)) /\ Finish(q)
    BY <1>1 DEF AdminCreateUser, Authorize
  <2>2. LocalRow(r).avatar = Nil
    BY DEF LocalRow, Seeded
  <2>3. QED
    BY <2>1, <2>2, Finished, DiskNewRow
<1>2. ASSUME AdminUpdateUserRole(q) \/ AdminUpdateUserStatus(q) PROVE DiskInv'
  <2>1. PICK u, f, v : /\ pc[q] = "in" /\ Change(q, u, f, v, "save") /\ f # "avatar"
                       /\ UNCHANGED <<mine, disk>>
    BY <1>2 DEF AdminUpdateUserRole, AdminUpdateUserStatus, Authorize, Same
  <2>2. QED
    BY <2>1, DiskChange
<1>3. ASSUME AdminDeleteUser(q) PROVE DiskInv'
  <2>1. PICK u \in Users :
           /\ pc[q] = "in" /\ Exists(u) /\ users' = [users EXCEPT ![u].deleted = TRUE]
           /\ ideal' = IF Others(q, u) \/ ideal[u] = Nil THEN [ideal EXCEPT ![u] = Nil]
                       ELSE [ideal EXCEPT ![u].deleted = TRUE]
           /\ Finish(q) /\ UNCHANGED disk
    BY <1>3 DEF AdminDeleteUser, AdminListUsers, Authorize, Same
  <2>2. users[u] \in User
    BY <2>1, RowOf DEF Known, Exists
  <2>3. users'[u].avatar = users[u].avatar /\ \A v \in Users \ {u} : users'[v] = users[v]
    BY <2>1, <2>2 DEF UserInv, UsersType, User
  <2>4. /\ ideal'[u] # Nil => ideal[u] # Nil
        /\ \A v \in Users \ {u} : ideal'[v] = ideal[v]
    BY <2>1 DEF UserInv, UsersType
  <2>5. \A v \in Users : SameAvatar(v)
    BY <2>3, <2>4 DEF SameAvatar
  <2>6. QED
    BY <2>1, <2>5, Finished, DiskKeeps DEF Replacing
<1>4. QED
  BY <1>1, <1>2, <1>3, QuietSteps, DiskIdle DEF Administer

LEMMA DiskKeep ==
  ASSUME UserInv, UserInv', DiskInv, [Next]_vars
  PROVE  DiskInv'
<1>1. ASSUME NEW q \in Slots, Protect(q) \/ Answer(q) PROVE DiskInv'
  BY <1>1, QuietSteps, DiskIdle
<1>2. CASE \/ StateExpires \/ UNCHANGED vars
           \/ Tick /\ Same(<<userVars, work, policies, oauth>>)
  <2>1. UNCHANGED <<users, ideal, files, broken, pc, edit>>
    BY <1>2 DEF StateExpires, Tick, vars, Same, userVars, disk, work
  <2>2. QED
    BY <2>1 DEF DiskInv, OnDisk, Uploaded, Replacing
<1>3. CASE Restart
  <2>1. /\ UNCHANGED <<users, files, ideal>> /\ broken' = broken \cup CutOff(Slots)
        /\ \A q \in Slots : pc'[q] = "idle"
    BY <1>3 DEF Restart
  <2>2. QED
    BY <2>1, DiskCutOff
<1>4. QED
  BY <1>1, <1>2, <1>3, SignInKeepsDisk, ProfileKeepsDisk, AdministerKeepsDisk DEF Next

\* UploadAvatar, ReplaceAvatar and RemoveAvatar (user.go) change the directory
\* of avatars and the row in separate steps, the old file first.  A row names a
\* file that is not there only between the two, or when the save failed or was
\* cut off and no avatar of the user was saved since; whatever other requests
\* come in between, as long as changes of the row did not overlap and no two
\* uploads fell into one second.
THEOREM AvatarsOnDisk == Spec => []AvatarIsOnDisk
<1>1. Init => UserInv /\ DiskInv
  <2>1. ASSUME Init, NEW u \in Users, ideal[u] # Nil PROVE OnDisk(u)
    <3>1. users[u].avatar = Nil
      BY <2>1 DEF Init, Seeded
    <3>2. \A q \in Slots : ~Uploaded(q, u)
      BY <2>1 DEF Init, SessionInit, Uploaded
    <3>3. QED
      BY <3>1, <3>2 DEF OnDisk
  <2>2. QED
    BY <2>1, UsersStart DEF DiskInv
<1>2. UserInv /\ DiskInv /\ [Next]_vars => UserInv' /\ DiskInv'
  BY UsersKeep, DiskKeep
<1>3. UserInv /\ DiskInv => AvatarIsOnDisk
  BY DEF DiskInv, OnDisk, AvatarIsOnDisk, Replacing
<1>4. QED
  BY <1>1, <1>2, <1>3, PTL DEF Spec

----------------------------------------------------------------------------
(***************************************************************************)
(* Revoked sessions.                                                       *)
(***************************************************************************)
OnlyCaller(q) == \A p \in Slots \ {q} :
    pc'[p] = pc[p] /\ mine'[p] = mine[p] /\ todo'[p] = todo[p]

LEMMA CurrentInTodo ==
  ASSUME NEW q, todo[q] # {}
  PROVE  Current(q) \in todo[q]
  BY DEF Current

LEMMA SameCurrent ==
  ASSUME NEW q, todo'[q] = todo[q]
  PROVE  Current(q)' = Current(q)
  BY DEF Current

LEMMA OtherSlots ==
  ASSUME NEW q \in Slots, OnlyCaller(q), NEW p \in Slots \ {q}
  PROVE  /\ pc'[p] = pc[p] /\ mine'[p] = mine[p] /\ todo'[p] = todo[p]
         /\ Current(p)' = Current(p)
         /\ \A s : Revoking(p, s)' <=> Revoking(p, s)
<1>1. pc'[p] = pc[p] /\ mine'[p] = mine[p] /\ todo'[p] = todo[p]
  BY DEF OnlyCaller
<1>2. Current(p)' = Current(p)
  BY <1>1, SameCurrent
<1>3. QED
  BY <1>1, <1>2 DEF Revoking

\* A session under way to be revoked is one that was drawn.
LEMMA RevokingDrawn ==
  ASSUME RevokedInv, NEW s \in Sessions, Closed(s)
  PROVE  s \in drawn
<1>1. CASE RevokedRow(s)
  BY <1>1 DEF RevokedRow, RevokedInv, SessionsDrawn
<1>2. ASSUME NEW q \in Slots, Revoking(q, s) PROVE s \in drawn
  <2>1. SlotDrawn(q)
    BY DEF RevokedInv, SessionsDrawn
  <2>2. QED
    BY <1>2, <2>1, CurrentInTodo DEF SlotDrawn, Revoking
<1>3. QED
  BY <1>1, <1>2 DEF Closed

LEMMA DrawnSteps ==
  ASSUME RevokedInv, NEW q \in Slots, OnlyCaller(q), SlotDrawn(q)', drawn \subseteq drawn',
         clock' = clock,
         \A s \in Sessions : rows'[s] # Nil => rows[s] # Nil \/ s \in drawn',
         \A t \in tokens' : t \in tokens \/ (t.session \in drawn' /\ t.iat = clock)
  PROVE  SessionsDrawn'
<1>1. ASSUME NEW p \in Slots \ {q} PROVE SlotDrawn(p)'
  <2>1. SlotDrawn(p)
    BY DEF RevokedInv, SessionsDrawn
  <2>2. QED
    BY <1>1, <2>1 DEF SlotDrawn, OnlyCaller
<1>2. \A t \in tokens' : t.session \in drawn' /\ t.iat \in 0 .. clock'
  BY DEF RevokedInv, SessionsDrawn, SessionsType
<1>3. QED
  BY <1>1, <1>2 DEF RevokedInv, SessionsDrawn

\* A step that leaves the sessions alone, of a slot that begins no revocation and no issue.
LEMMA AloneSteps ==
  ASSUME RevokedInv, NEW q \in Slots, OnlyCaller(q), SlotDrawn(q)',
         UNCHANGED <<clock, drawn, rows, stored, marks, tokens, strays>>,
         DOMAIN pc' = Slots, DOMAIN mine' = Slots, DOMAIN todo' = Slots,
         pc'[q] \notin {"mark", "row", "logout", "refreshed", "issue"}
  PROVE  RevokedInv'
<1>1. SessionsType'
  BY DEF RevokedInv, SessionsType
<1>2. SessionsDrawn'
  BY DrawnSteps
<1>3. ASSUME NEW s \in Sessions PROVE RevocationAt(s)'
  <2>1. RevocationAt(s)
    BY DEF RevokedInv, RevocationHolds
  <2>2. Closed(s)' => Closed(s)
    BY OtherSlots DEF Closed, RevokedRow, Revoking
  <2>3. Issuing(s)' => Issuing(s)
    BY OtherSlots DEF Issuing
  <2>4. (Marked(s) <=> Marked(s)') /\ (RevokedRow(s) <=> RevokedRow(s)')
    BY DEF Marked, RevokedRow
  <2>5. \A p \in Slots : pc'[p] = "row" /\ Current(p)' = s => pc[p] = "row" /\ Current(p) = s
    BY OtherSlots
  <2>6. QED
    BY <2>1, <2>2, <2>3, <2>4, <2>5 DEF RevocationAt
<1>4. QED
  BY <1>1, <1>2, <1>3 DEF RevokedInv, RevocationHolds

\* A step about one session.
LEMMA FocusSteps ==
  ASSUME RevokedInv, NEW q \in Slots, NEW r \in Sessions, OnlyCaller(q),
         strays \subseteq strays',
         \A s \in Sessions \ {r} :
            rows'[s] = rows[s] /\ marks'[s] = marks[s] /\ stored'[s] = stored[s],
         \A t \in tokens' : t \in tokens \/ t.session = r,
         pc'[q] \in {"mark", "row"} => Current(q)' = r,
         pc'[q] \in {"logout", "refreshed", "issue"} => mine'[q].session = r,
         RevocationAt(r)'
  PROVE  RevocationHolds'
<1>1. ASSUME NEW s \in Sessions, s # r PROVE RevocationAt(s)'
  <2>1. RevocationAt(s)
    BY DEF RevokedInv, RevocationHolds
  <2>2. RevokedRow(s)' <=> RevokedRow(s)
    BY <1>1 DEF RevokedRow
  <2>3. Closed(s)' => Closed(s)
    BY <1>1, <2>2, OtherSlots DEF Closed, Revoking
  <2>4. Issuing(s)' => Issuing(s)
    BY <1>1, OtherSlots DEF Issuing
  <2>5. Marked(s) => Marked(s)'
    BY <1>1 DEF Marked
  <2>6. \A p \in Slots : pc'[p] = "row" /\ Current(p)' = s => pc[p] = "row" /\ Current(p) = s
    BY <1>1, OtherSlots
  <2>7. rows'[s] = rows[s] /\ stored'[s] = stored[s] /\ (s \notin strays' => s \notin strays)
        /\ \A t \in tokens' : t.session = s => t \in tokens
    BY <1>1
  <2>8. QED
    BY <2>1, <2>2, <2>3, <2>4, <2>5, <2>6, <2>7 DEF RevocationAt
<1>2. QED
  BY <1>1 DEF RevocationHolds

\* Rows that are marked revoked.
LEMMA MarkedRows ==
  ASSUME SessionsType, NEW s \in Sessions, NEW forced \in BOOLEAN, MarkRow(s, forced)
  PROVE  /\ rows' \in [Sessions -> [user : Users, expires : Nat, revoked : Nat \cup {Nil},
                                    forced : BOOLEAN] \cup {Nil}]
         /\ \A r \in Sessions \ {s} : rows'[r] = rows[r]
         /\ rows'[s] # Nil => rows[s] # Nil /\ rows'[s].revoked = clock /\ rows'[s].forced = forced
<1>1. CASE rows[s] = Nil
  <2>1. rows' = rows
    BY <1>1 DEF MarkRow, SessionsType
  <2>2. QED
    BY <1>1, <2>1 DEF SessionsType
<1>2. CASE rows[s] # Nil
  <2> DEFINE row == [rows[s] EXCEPT !.revoked = clock, !.forced = forced]
  <2>1. rows' = [rows EXCEPT ![s] = row]
    BY <1>2 DEF MarkRow
  <2>2. /\ row \in [user : Users, expires : Nat, revoked : Nat \cup {Nil}, forced : BOOLEAN]
        /\ row.revoked = clock /\ row.forced = forced
    BY <1>2 DEF SessionsType
  <2> HIDE DEF row
  <2>3. QED
    BY <1>2, <2>1, <2>2 DEF SessionsType
<1>3. QED
  BY <1>1, <1>2

LEMMA CreateSteps ==
  ASSUME RevokedInv, UserInv, NEW q \in Slots, OpenSession(q)
  PROVE  RevokedInv'
<1>1. PICK s \in Sessions \ drawn :
        /\ pc[q] = "open" /\ drawn' = drawn \cup {s}
        /\ rows' = [rows EXCEPT ![s] = [user |-> mine[q].user, expires |-> clock + RefreshExpiry,
                                        revoked |-> Nil, forced |-> FALSE]]
        /\ mine' = [mine EXCEPT ![q] = generateToken(s, mine[q].user, mine[q].role)]
        /\ Goto(q, "issue") /\ todo' = todo
        /\ UNCHANGED <<clock, stored, marks, tokens, strays>>
  BY DEF OpenSession, createSession, Same, redisVars, work
<1>2. /\ OnlyCaller(q) /\ pc'[q] = "issue" /\ mine'[q].session = s
      /\ DOMAIN pc' = Slots /\ DOMAIN mine' = Slots /\ DOMAIN todo' = Slots
  BY <1>1 DEF Goto, generateToken, OnlyCaller, RevokedInv, SessionsType
<1>3. mine[q].user \in Users
  BY <1>1 DEF UserInv, CallerKnown, Known
<1>4. SessionsType'
  <2>1. clock + RefreshExpiry \in Nat
    BY SessionAssumption DEF RevokedInv, SessionsType
  <2>2. QED
    BY <1>1, <1>2, <1>3, <2>1 DEF RevokedInv, SessionsType
<1>5. \A r \in Sessions \ {s} : rows'[r] = rows[r]
  BY <1>1 DEF RevokedInv, SessionsType
<1>6. SessionsDrawn'
  <2>1. SlotDrawn(q)'
    BY <1>1, <1>2 DEF RevokedInv, SessionsDrawn, SlotDrawn
  <2>2. \A r \in Sessions : rows'[r] # Nil => rows[r] # Nil \/ r \in drawn'
    BY <1>1, <1>5
  <2>3. QED
    BY <1>1, <1>2, <2>1, <2>2, DrawnSteps
<1>7. RevocationAt(s)'
  <2>1. ~Closed(s)
    BY <1>1, RevokingDrawn
  <2>2. ~RevokedRow(s)'
    BY <1>1 DEF RevokedRow, RevokedInv, SessionsType
  <2>3. \A p \in Slots : ~Revoking(p, s)'
    <3>1. ~Revoking(q, s)'
      BY <1>2 DEF Revoking
    <3>2. QED
      BY <1>2, <2>1, <3>1, OtherSlots DEF Closed
  <2>4. QED
    BY <2>2, <2>3 DEF RevocationAt, Closed, Revoking
<1>8. RevocationHolds'
  BY <1>1, <1>2, <1>5, <1>7, FocusSteps
<1>9. QED
  BY <1>4, <1>6, <1>8 DEF RevokedInv

\* A pair is stored for a session no revocation has closed.
LEMMA IssueSteps ==
  ASSUME RevokedInv, NEW q \in Slots, IssuePair(q), todo' = todo
  PROVE  RevokedInv'
<1>1. PICK s : s = mine[q].session
  OBVIOUS
<1>2. PICK t : /\ t.session = s /\ t.iat = clock
               /\ stored' = [stored EXCEPT ![s] = t] /\ tokens' = tokens \cup {t}
               /\ UNCHANGED <<marks, strays>>
  BY <1>1 DEF IssuePair, GenerateTokenPair, Restamp, generateToken
<1>3. /\ pc[q] \in {"issue", "refreshed"} /\ OnlyCaller(q) /\ pc'[q] = "idle"
      /\ UNCHANGED <<clock, drawn, rows>>
      /\ DOMAIN pc' = Slots /\ DOMAIN mine' = Slots /\ DOMAIN todo' = Slots
  BY DEF IssuePair, Goto, OnlyCaller, RevokedInv, SessionsType
<1>4. s \in drawn /\ s \in Sessions
  BY <1>1, <1>3 DEF RevokedInv, SessionsDrawn, SlotDrawn, SessionsType
<1>5. SessionsType'
  BY <1>2, <1>3 DEF RevokedInv, SessionsType
<1>6. SessionsDrawn'
  <2>1. SlotDrawn(q)'
    BY <1>3 DEF RevokedInv, SessionsDrawn, SlotDrawn
  <2>2. \A r \in tokens' : r \in tokens \/ (r.session \in drawn' /\ r.iat = clock)
    BY <1>2, <1>3, <1>4
  <2>3. QED
    BY <1>3, <2>1, <2>2, DrawnSteps
<1>7. RevocationAt(s)'
  <2>1. s \notin strays => ~Closed(s)
    BY <1>1, <1>3, <1>4 DEF Issuing, RevokedInv, RevocationHolds, RevocationAt
  <2>2. Closed(s)' => Closed(s)
    BY <1>3, OtherSlots DEF Closed, RevokedRow, Revoking
  <2>3. QED
    BY <1>2, <2>1, <2>2 DEF RevocationAt, Closed, Revoking
<1>8. RevocationHolds'
  BY <1>2, <1>3, <1>4, <1>7, FocusSteps DEF RevokedInv, SessionsType
<1>9. QED
  BY <1>5, <1>6, <1>8 DEF RevokedInv

\* A stored token is exchanged: no revocation has closed its session.
LEMMA RefreshSteps ==
  ASSUME RevokedInv, NEW q \in Slots, RefreshToken(q)
  PROVE  RevokedInv'
<1>1. PICK t \in tokens :
        /\ pc[q] = "idle"
        /\ \/ /\ ValidateRefreshToken(t)
              /\ mine' = [mine EXCEPT ![q] = t] /\ Goto(q, "refreshed")
           \/ RefusedRefresh(t) /\ UNCHANGED <<mine, pc>>
        /\ UNCHANGED <<clock, drawn, rows, todo>>
  BY DEF RefreshToken, Arrive, work
<1>2. PICK s : s = t.session
  OBVIOUS
<1>3. s \in drawn /\ s \in Sessions
  BY <1>2 DEF RevokedInv, SessionsDrawn, SessionsType
<1>4. stored' = [stored EXCEPT ![s] = Nil] /\ UNCHANGED <<marks, tokens, strays>>
  BY <1>1, <1>2 DEF ValidateRefreshToken, RefusedRefresh
<1>5. SessionsType'
  BY <1>1, <1>4 DEF Goto, RevokedInv, SessionsType
<1>6. /\ OnlyCaller(q)
      /\ \/ pc'[q] = "refreshed" /\ mine'[q].session = s /\ stored[s] # Nil
         \/ pc'[q] = "idle" /\ UNCHANGED <<mine, pc>>
  BY <1>1, <1>2 DEF Goto, OnlyCaller, RevokedInv, SessionsType, ValidateRefreshToken, Kept
<1>7. SessionsDrawn'
  <2>1. SlotDrawn(q)'
    BY <1>1, <1>3, <1>6 DEF RevokedInv, SessionsDrawn, SlotDrawn
  <2>2. QED
    BY <1>1, <1>4, <1>6, <2>1, DrawnSteps
<1>8. RevocationAt(s)'
  <2>1. RevocationAt(s)
    BY <1>3 DEF RevokedInv, RevocationHolds
  <2>2. Closed(s)' => Closed(s)
    BY <1>1, <1>6, OtherSlots DEF Closed, RevokedRow, Revoking
  <2>3. stored'[s] = Nil
    BY <1>3, <1>4 DEF RevokedInv, SessionsType
  <2>4. Issuing(s)' => Issuing(s) \/ stored[s] # Nil
    BY <1>6, OtherSlots DEF Issuing
  <2>5. (Marked(s) <=> Marked(s)') /\ (RevokedRow(s) <=> RevokedRow(s)')
    BY <1>1, <1>4 DEF Marked, RevokedRow
  <2>6. \A p \in Slots : pc'[p] = "row" /\ Current(p)' = s => pc[p] = "row" /\ Current(p) = s
    BY <1>6, OtherSlots
  <2>7. QED
    BY <1>1, <1>4, <2>1, <2>2, <2>3, <2>4, <2>5, <2>6 DEF RevocationAt
<1>9. RevocationHolds'
  BY <1>1, <1>3, <1>4, <1>6, <1>8, FocusSteps DEF RevokedInv, SessionsType
<1>10. QED
  BY <1>5, <1>7, <1>9 DEF RevokedInv

\* RevokeSession closes the session, or makes a stray of it.
LEMMA RevokeKeySteps ==
  ASSUME RevokedInv, NEW q \in Slots, NEW s \in drawn, RevokeSession(s), OnlyCaller(q),
         UNCHANGED <<clock, drawn, rows, mine, todo>>, DOMAIN pc' = Slots,
         pc[q] \notin {"issue", "refreshed"}, SlotDrawn(q)',
         \/ pc'[q] = "logout" /\ mine[q].session = s
         \/ pc'[q] = "mark" /\ Current(q) = s
  PROVE  RevokedInv'
<1>1. s \in Sessions
  BY DEF RevokedInv, SessionsType
<1>2. /\ UNCHANGED <<marks, tokens>> /\ strays \subseteq strays'
      /\ s \notin strays' => stored' = [stored EXCEPT ![s] = Nil] /\ ~Issuing(s)
      /\ \A r \in Sessions \ {s} : stored'[r] = stored[r]
      /\ DOMAIN stored' = Sessions
  BY DEF RevokeSession, RevokedInv, SessionsType
<1>3. SessionsType'
  BY <1>2 DEF RevokedInv, SessionsType
<1>4. SessionsDrawn'
  BY <1>2, DrawnSteps
<1>5. RevocationAt(s)'
  <2>1. RevocationAt(s)
    BY <1>1 DEF RevokedInv, RevocationHolds
  <2>2. s \notin strays' => stored'[s] = Nil
    BY <1>1, <1>2 DEF RevokedInv, SessionsType
  <2>3. Issuing(s)' => Issuing(s)
    BY OtherSlots DEF Issuing
  <2>4. (Marked(s) <=> Marked(s)') /\ (RevokedRow(s) <=> RevokedRow(s)')
    BY <1>2 DEF Marked, RevokedRow
  <2>5. \A p \in Slots : pc'[p] = "row" /\ Current(p)' = s => pc[p] = "row" /\ Current(p) = s
    BY OtherSlots
  <2>6. QED
    BY <1>2, <2>1, <2>2, <2>3, <2>4, <2>5 DEF RevocationAt
<1>6. Current(q)' = Current(q)
  BY SameCurrent
<1>7. RevocationHolds'
  <2>1. pc'[q] \in {"mark", "row"} => Current(q)' = s
    BY <1>6
  <2>2. pc'[q] \in {"logout", "refreshed", "issue"} => mine'[q].session = s
    OBVIOUS
  <2>3. \A r \in Sessions \ {s} :
           rows'[r] = rows[r] /\ marks'[r] = marks[r] /\ stored'[r] = stored[r]
    BY <1>2
  <2>4. QED
    BY <1>1, <1>2, <1>5, <2>1, <2>2, <2>3, FocusSteps
<1>8. QED
  BY <1>3, <1>4, <1>7 DEF RevokedInv

LEMMA WriteMarkSteps ==
  ASSUME RevokedInv, NEW q \in Slots, WriteMark(q)
  PROVE  RevokedInv'
<1>1. PICK s : s = Current(q)
  OBVIOUS
<1>2. /\ pc[q] = "mark" /\ pc'[q] = "row" /\ OnlyCaller(q) /\ MarkSessionRevoked(s)
      /\ UNCHANGED <<clock, drawn, rows, mine, todo>>
      /\ DOMAIN pc' = Slots
  BY <1>1 DEF WriteMark, Same, work, Goto, OnlyCaller, RevokedInv, SessionsType
<1>3. todo[q] # {} /\ s \in todo[q] /\ todo[q] \subseteq drawn /\ s \in Sessions
  <2>1. SlotDrawn(q)
    BY DEF RevokedInv, SessionsDrawn
  <2>2. QED
    BY <1>1, <1>2, <2>1, CurrentInTodo DEF SlotDrawn, RevokedInv, SessionsType
<1>4. /\ UNCHANGED <<stored, tokens>> /\ strays \subseteq strays'
      /\ \A r \in Sessions \ {s} : marks'[r] = marks[r]
      /\ s \notin strays' => marks'[s] = clock + AccessExpiry
      /\ marks' \in [Sessions -> Nat \cup {Nil}]
  <2>1. clock + AccessExpiry \in Nat
    BY SessionAssumption DEF RevokedInv, SessionsType
  <2>2. QED
    BY <1>2, <1>3, <2>1 DEF MarkSessionRevoked, RevokedInv, SessionsType
<1>5. SessionsType'
  BY <1>2, <1>4 DEF RevokedInv, SessionsType
<1>6. SessionsDrawn'
  <2>1. SlotDrawn(q)'
    BY <1>2, <1>3 DEF SlotDrawn
  <2>2. QED
    BY <1>2, <1>4, <2>1, DrawnSteps
<1>7. RevocationAt(s)'
  <2>1. RevocationAt(s) /\ Revoking(q, s)
    BY <1>1, <1>2, <1>3 DEF RevokedInv, RevocationHolds, Revoking
  <2>2. Issuing(s)' => Issuing(s)
    BY <1>2, OtherSlots DEF Issuing
  <2>3. s \notin strays' => Marked(s)'
    <3>1. \A t \in tokens : t.iat \in 0 .. clock
      BY DEF RevokedInv, SessionsDrawn
    <3>2. clock \in Nat /\ AccessExpiry \in Nat /\ clock + AccessExpiry # Nil
      BY SessionAssumption DEF RevokedInv, SessionsType
    <3>3. QED
      BY <1>4, <3>1, <3>2 DEF Marked
  <2>4. RevokedRow(s) <=> RevokedRow(s)'
    BY <1>2 DEF RevokedRow
  <2>5. QED
    BY <1>2, <1>4, <2>1, <2>2, <2>3, <2>4 DEF RevocationAt, Closed
<1>8. RevocationHolds'
  <2>1. Current(q)' = s
    BY <1>1, <1>2, SameCurrent
  <2>2. \A r \in Sessions \ {s} :
           rows'[r] = rows[r] /\ marks'[r] = marks[r] /\ stored'[r] = stored[r]
    BY <1>2, <1>4
  <2>3. QED
    BY <1>2, <1>3, <1>4, <1>7, <2>1, <2>2, FocusSteps
<1>9. QED
  BY <1>5, <1>6, <1>8 DEF RevokedInv

\* The last step of a revocation; the slot may go on to the next session.
LEMMA MarkRowSteps ==
  ASSUME RevokedInv, NEW q \in Slots, NEW s \in Sessions, NEW forced \in BOOLEAN,
         MarkRow(s, forced), Revoking(q, s), forced => pc[q] = "row" /\ Current(q) = s,
         OnlyCaller(q), SlotDrawn(q)',
         UNCHANGED <<clock, drawn, stored, marks, tokens, strays>>,
         DOMAIN pc' = Slots, DOMAIN mine' = Slots, DOMAIN todo' = Slots,
         pc'[q] \in {"idle", "revoke"}
  PROVE  RevokedInv'
<1>1. /\ \A r \in Sessions \ {s} : rows'[r] = rows[r]
      /\ rows'[s] # Nil => rows[s] # Nil /\ rows'[s].revoked = clock /\ rows'[s].forced = forced
  BY MarkedRows DEF RevokedInv
<1>2. SessionsType'
  BY MarkedRows DEF RevokedInv, SessionsType
<1>3. SessionsDrawn'
  BY <1>1, DrawnSteps
<1>4. RevocationAt(s)'
  <2>1. RevocationAt(s)
    BY DEF RevokedInv, RevocationHolds
  <2>2. Closed(s)
    BY DEF Closed
  <2>3. Issuing(s)' => Issuing(s)
    BY OtherSlots DEF Issuing
  <2>4. Marked(s) <=> Marked(s)'
    BY DEF Marked
  <2>5. \A p \in Slots : pc'[p] = "row" /\ Current(p)' = s => pc[p] = "row" /\ Current(p) = s
    BY OtherSlots
  <2>6. RevokedRow(s)' => /\ \A t \in tokens : t.session = s => t.iat <= rows'[s].revoked
                          /\ rows'[s].forced => forced
    <3>1. \A t \in tokens : t.iat \in 0 .. clock
      BY DEF RevokedInv, SessionsDrawn
    <3>2. clock \in Nat
      BY DEF RevokedInv, SessionsType
    <3>3. QED
      BY <1>1, <3>1, <3>2 DEF RevokedRow
  <2>7. QED
    BY <2>1, <2>2, <2>3, <2>4, <2>5, <2>6 DEF RevocationAt
<1>5. RevocationHolds'
  BY <1>1, <1>4, FocusSteps
<1>6. QED
  BY <1>2, <1>3, <1>5 DEF RevokedInv

LEMMA DeleteRowSteps ==
  ASSUME RevokedInv, NEW q \in Slots, DeleteRow(q), todo' = todo
  PROVE  RevokedInv'
<1>1. PICK s : s = mine[q].session
  OBVIOUS
<1>2. /\ pc[q] = "undo" /\ pc'[q] = "idle" /\ OnlyCaller(q) /\ rows' = [rows EXCEPT ![s] = Nil]
      /\ UNCHANGED <<clock, drawn, stored, marks, tokens, strays>>
      /\ DOMAIN pc' = Slots /\ DOMAIN mine' = Slots /\ DOMAIN todo' = Slots
  BY <1>1 DEF DeleteRow, redisVars, Goto, OnlyCaller, RevokedInv, SessionsType
<1>3. s \in Sessions
  BY <1>1, <1>2 DEF RevokedInv, SessionsDrawn, SlotDrawn, SessionsType
<1>4. SessionsType'
  BY <1>2 DEF RevokedInv, SessionsType
<1>5. (\A r \in Sessions \ {s} : rows'[r] = rows[r]) /\ rows'[s] = Nil
  BY <1>2, <1>3 DEF RevokedInv, SessionsType
<1>6. SessionsDrawn'
  <2>1. SlotDrawn(q)'
    BY <1>2 DEF RevokedInv, SessionsDrawn, SlotDrawn
  <2>2. QED
    BY <1>2, <1>5, <2>1, DrawnSteps
<1>7. RevocationAt(s)'
  <2>1. RevocationAt(s)
    BY <1>3 DEF RevokedInv, RevocationHolds
  <2>2. ~RevokedRow(s)'
    BY <1>5 DEF RevokedRow
  <2>3. Closed(s)' => Closed(s)
    BY <1>2, <2>2, OtherSlots DEF Closed, Revoking
  <2>4. Issuing(s)' => Issuing(s)
    BY <1>2, OtherSlots DEF Issuing
  <2>5. Marked(s) <=> Marked(s)'
    BY <1>2 DEF Marked
  <2>6. \A p \in Slots : pc'[p] = "row" /\ Current(p)' = s => pc[p] = "row" /\ Current(p) = s
    BY <1>2, OtherSlots
  <2>7. QED
    BY <1>2, <2>1, <2>2, <2>3, <2>4, <2>5, <2>6 DEF RevocationAt
<1>8. RevocationHolds'
  BY <1>2, <1>3, <1>5, <1>7, FocusSteps
<1>9. QED
  BY <1>4, <1>6, <1>8 DEF RevokedInv

\* A handler ends, or goes to a step that has nothing to do with sessions.
LEMMA EndSteps ==
  ASSUME RevokedInv, NEW q \in Slots, NEW step, Goto(q, step),
         step \notin {"in", "undo", "revoke", "mark", "row", "logout", "refreshed", "issue"},
         mine' = mine \/ (\E t : mine' = [mine EXCEPT ![q] = t]),
         todo' = todo \/ todo' = [todo EXCEPT ![q] = {}],
         UNCHANGED <<sessionVars>>
  PROVE  RevokedInv'
<1>1. /\ OnlyCaller(q) /\ pc'[q] = step
      /\ DOMAIN pc' = Slots /\ DOMAIN mine' = Slots /\ DOMAIN todo' = Slots
      /\ todo'[q] \in {todo[q], {}}
  BY DEF Goto, OnlyCaller, RevokedInv, SessionsType
<1>2. UNCHANGED <<clock, drawn, rows, stored, marks, tokens, strays>>
  BY DEF sessionVars, redisVars
<1>3. SlotDrawn(q)'
  BY <1>1, <1>2 DEF SlotDrawn, RevokedInv, SessionsDrawn
<1>4. QED
  BY <1>1, <1>2, <1>3, AloneSteps

LEMMA SignInKeepsSessions ==
  ASSUME RevokedInv, UserInv, NEW q \in Slots, SignIn(q)
  PROVE  RevokedInv'
<1> USE DEF Same, Arrive
<1>1. ASSUME Finish(q), UNCHANGED sessionVars PROVE RevokedInv'
  BY <1>1, EndSteps DEF Finish
<1>2. ASSUME NEW u, NEW row, Open(q, u, row), UNCHANGED sessionVars PROVE RevokedInv'
  BY <1>2, EndSteps DEF Open, work
<1>3. CASE Register(q) \/ Login(q)
  BY <1>2, <1>3 DEF Register, Login
<1>4. ASSUME GoogleLogin(q) PROVE RevokedInv'
  <2>1. UNCHANGED <<sessionVars, pc, mine, todo>>
    BY <1>4 DEF GoogleLogin, work
  <2>2. OnlyCaller(q)
    BY <2>1 DEF OnlyCaller
  <2>3. UNCHANGED <<clock, drawn, rows, stored, marks, tokens, strays>>
    BY <2>1 DEF sessionVars, redisVars
  <2>4. SlotDrawn(q)' /\ pc'[q] = "idle"
    BY <1>4, <2>1, <2>3 DEF GoogleLogin, SlotDrawn, RevokedInv, SessionsDrawn
  <2>5. QED
    BY <2>1, <2>2, <2>3, <2>4, AloneSteps DEF RevokedInv, SessionsType
<1>5. CASE GoogleCallback(q) \/ DropState(q)
  BY <1>5, EndSteps DEF GoogleCallback, DropState
<1>6. CASE GoogleFails(q)
  BY <1>1, <1>6 DEF GoogleFails
<1>7. ASSUME ResolveGoogleUser(q) PROVE RevokedInv'
  <2>1. ASSUME NEW v, NEW f, NEW x, NEW step \in {"sync", "link"}, Change(q, v, f, x, step), mine' = mine,
               UNCHANGED sessionVars
        PROVE  RevokedInv'
    BY <2>1, EndSteps DEF Change
  <2>2. QED
    BY <1>1, <1>2, <1>7, <2>1 DEF ResolveGoogleUser, Admit
<1>8. CASE SyncAvatar(q) \/ LinkAccount(q)
  BY <1>8, EndSteps DEF SyncAvatar, LinkAccount, work
<1>9. CASE AdmitLinked(q)
  BY <1>9, EndSteps DEF AdmitLinked
<1>10. ASSUME Logout(q) PROVE RevokedInv'
  <2>1. PICK s : s = mine[q].session
    OBVIOUS
  <2>2. /\ pc[q] = "in" /\ pc'[q] = "logout" /\ RevokeSession(s) /\ OnlyCaller(q)
        /\ UNCHANGED <<clock, drawn, rows, mine, todo>> /\ DOMAIN pc' = Slots
    BY <1>10, <2>1 DEF Logout, work, Goto, OnlyCaller, RevokedInv, SessionsType
  <2>3. s \in drawn /\ SlotDrawn(q)'
    BY <2>1, <2>2 DEF RevokedInv, SessionsDrawn, SlotDrawn
  <2>4. QED
    BY <2>1, <2>2, <2>3, RevokeKeySteps
<1>11. ASSUME LogoutRow(q) PROVE RevokedInv'
  <2>1. PICK s : s = mine[q].session
    OBVIOUS
  <2>2. /\ pc[q] = "logout" /\ pc'[q] = "idle" /\ MarkRow(s, FALSE) /\ OnlyCaller(q)
        /\ UNCHANGED <<clock, drawn, stored, marks, tokens, strays>>
        /\ DOMAIN pc' = Slots /\ DOMAIN mine' = Slots /\ DOMAIN todo' = Slots /\ todo'[q] = {}
    BY <1>11, <2>1 DEF LogoutRow, Finish, redisVars, Goto, OnlyCaller, RevokedInv, SessionsType
  <2>3. s \in Sessions /\ SlotDrawn(q)' /\ Revoking(q, s)
    BY <2>1, <2>2 DEF RevokedInv, SessionsDrawn, SlotDrawn, Revoking, SessionsType
  <2>4. QED
    BY <2>2, <2>3, MarkRowSteps
<1>12. CASE IssuePair(q) /\ Same(<<userVars, work, policies, oauth>>)
  BY <1>12, IssueSteps DEF work
<1>13. ASSUME IssueFails(q), Same(<<userVars, work, policies, oauth>>) PROVE RevokedInv'
  <2>1. /\ OnlyCaller(q) /\ todo' = todo
        /\ pc'[q] = "idle" \/ (pc'[q] = "undo" /\ pc[q] = "issue" /\ mine'[q] = mine[q])
        /\ UNCHANGED <<clock, drawn, rows, stored, marks, tokens, strays>>
        /\ DOMAIN pc' = Slots /\ DOMAIN mine' = Slots /\ DOMAIN todo' = Slots
    BY <1>13 DEF IssueFails, sessionVars, redisVars, work, Goto, OnlyCaller, RevokedInv, SessionsType
  <2>2. SlotDrawn(q)'
    BY <2>1 DEF SlotDrawn, RevokedInv, SessionsDrawn
  <2>3. QED
    BY <2>1, <2>2, AloneSteps
<1>14. CASE DeleteRow(q) /\ Same(<<userVars, work, policies, oauth>>)
  BY <1>14, DeleteRowSteps DEF work
<1>15. QED
  BY <1>3, <1>4, <1>5, <1>6, <1>7, <1>8, <1>9, <1>10, <1>11, <1>12, <1>13, <1>14,
     CreateSteps, RefreshSteps DEF SignIn

LEMMA ProfileKeepsSessions ==
  ASSUME RevokedInv, NEW q \in Slots, Profile(q)
  PROVE  RevokedInv'
<1> USE DEF Same
<1>1. ASSUME Finish(q), UNCHANGED sessionVars PROVE RevokedInv'
  BY <1>1, EndSteps DEF Finish
<1>2. ASSUME NEW u, NEW f, NEW v, NEW step \in {"save", "save_password"},
             Change(q, u, f, v, step), mine' = mine, UNCHANGED sessionVars
      PROVE  RevokedInv'
  BY <1>2, EndSteps DEF Change
<1>3. CASE UpdateProfile(q) \/ RemoveAvatar(q) \/ ChangePassword(q)
  BY <1>2, <1>3 DEF UpdateProfile, RemoveAvatar, ChangePassword
<1>4. CASE Save(q) \/ SaveFails(q)
  BY <1>1, <1>4 DEF Save, SaveFails
<1>5. CASE UploadAvatar(q)
  BY <1>5, EndSteps DEF UploadAvatar
<1>6. ASSUME ReplaceAvatar(q) PROVE RevokedInv'
  <2>1. UNCHANGED sessionVars /\ (Finish(q) \/ (Goto(q, "save") /\ UNCHANGED <<mine, todo>>))
    BY <1>6 DEF ReplaceAvatar
  <2>2. QED
    BY <1>1, <2>1, EndSteps
<1>7. CASE SavePassword(q)
  BY <1>7, EndSteps DEF SavePassword
<1>8. ASSUME ListOtherSessions(q) PROVE RevokedInv'
  <2>1. ASSUME OtherSessions(q) # {}, todo' = [todo EXCEPT ![q] = OtherSessions(q)],
               Goto(q, "revoke"), UNCHANGED mine, UNCHANGED sessionVars
        PROVE  RevokedInv'
    <3>1. /\ OnlyCaller(q) /\ pc'[q] = "revoke" /\ todo'[q] = OtherSessions(q)
          /\ UNCHANGED <<clock, drawn, rows, stored, marks, tokens, strays>>
          /\ DOMAIN pc' = Slots /\ DOMAIN mine' = Slots /\ DOMAIN todo' = Slots
      BY <2>1 DEF sessionVars, redisVars, Goto, OnlyCaller, RevokedInv, SessionsType
    <3>2. OtherSessions(q) \subseteq drawn
      BY DEF OtherSessions, RevokedInv, SessionsDrawn
    <3>3. SlotDrawn(q)'
      BY <2>1, <3>1, <3>2 DEF SlotDrawn
    <3>4. QED
      BY <3>1, <3>3, AloneSteps
  <2>2. QED
    BY <1>1, <1>8, <2>1 DEF ListOtherSessions
<1>9. ASSUME RevokeKey(q) PROVE RevokedInv'
  <2>1. PICK s : s = Current(q)
    OBVIOUS
  <2>2. /\ pc[q] = "revoke" /\ pc'[q] = "mark" /\ RevokeSession(s) /\ OnlyCaller(q)
        /\ UNCHANGED <<clock, drawn, rows, mine, todo>> /\ DOMAIN pc' = Slots
    BY <1>9, <2>1 DEF RevokeKey, work, Goto, OnlyCaller, RevokedInv, SessionsType
  <2>3. SlotDrawn(q)
    BY DEF RevokedInv, SessionsDrawn
  <2>4. s \in drawn /\ SlotDrawn(q)'
    BY <2>1, <2>2, <2>3, CurrentInTodo DEF SlotDrawn
  <2>5. QED
    BY <2>1, <2>2, <2>4, RevokeKeySteps
<1>10. ASSUME RevokeRow(q) PROVE RevokedInv'
  <2>1. PICK s : s = Current(q)
    OBVIOUS
  <2>2. /\ pc[q] = "row" /\ MarkRow(s, TRUE) /\ OnlyCaller(q)
        /\ UNCHANGED <<clock, drawn, stored, marks, tokens, strays>>
        /\ DOMAIN pc' = Slots /\ DOMAIN mine' = Slots /\ DOMAIN todo' = Slots
        /\ \/ pc'[q] = "idle" /\ todo'[q] = {}
           \/ pc'[q] = "revoke" /\ todo[q] # {s} /\ todo'[q] = todo[q] \ {s}
    BY <1>10, <2>1 DEF RevokeRow, Finish, redisVars, Goto, OnlyCaller, RevokedInv, SessionsType
  <2>3. SlotDrawn(q)
    BY DEF RevokedInv, SessionsDrawn
  <2>4. s \in todo[q]
    BY <2>1, <2>2, <2>3, CurrentInTodo DEF SlotDrawn
  <2>5. s \in Sessions /\ SlotDrawn(q)'
    BY <2>2, <2>3, <2>4 DEF SlotDrawn, RevokedInv, SessionsType
  <2>6. Revoking(q, s)
    BY <2>1, <2>2 DEF Revoking
  <2>7. QED
    BY <2>1, <2>2, <2>5, <2>6, MarkRowSteps
<1>11. QED
  BY <1>3, <1>4, <1>5, <1>6, <1>7, <1>8, <1>9, <1>10, WriteMarkSteps DEF Profile

LEMMA AdministerKeepsSessions ==
  ASSUME RevokedInv, NEW q \in Slots, Administer(q)
  PROVE  RevokedInv'
<1> USE DEF Same
<1>1. ASSUME Finish(q), UNCHANGED sessionVars PROVE RevokedInv'
  BY <1>1, EndSteps DEF Finish
<1>2. ASSUME NEW u, NEW f, NEW v, Change(q, u, f, v, "save"), mine' = mine, UNCHANGED sessionVars
      PROVE  RevokedInv'
  BY <1>2, EndSteps DEF Change
<1>3. CASE AdminCreateUser(q) \/ AdminDeleteUser(q) \/ AdminAddPolicy(q) \/ AdminRemovePolicy(q)
  BY <1>1, <1>3 DEF AdminCreateUser, AdminDeleteUser, AdminAddPolicy, AdminRemovePolicy
<1>4. CASE AdminUpdateUserRole(q) \/ AdminUpdateUserStatus(q)
  BY <1>2, <1>4 DEF AdminUpdateUserRole, AdminUpdateUserStatus
<1>5. ASSUME AdminRevokeSession(q) PROVE RevokedInv'
  <2>1. PICK s : s \in Sessions /\ rows[s] # Nil /\ todo' = [todo EXCEPT ![q] = {s}]
    BY <1>5 DEF AdminRevokeSession, AdminListSessions
  <2>2. /\ OnlyCaller(q) /\ pc'[q] = "revoke" /\ todo'[q] = {s}
        /\ UNCHANGED <<clock, drawn, rows, stored, marks, tokens, strays>>
        /\ DOMAIN pc' = Slots /\ DOMAIN mine' = Slots /\ DOMAIN todo' = Slots
    BY <1>5, <2>1 DEF AdminRevokeSession, sessionVars, redisVars, Goto, OnlyCaller,
                      RevokedInv, SessionsType
  <2>3. SlotDrawn(q)'
    BY <2>1, <2>2 DEF SlotDrawn, RevokedInv, SessionsDrawn
  <2>4. QED
    BY <2>2, <2>3, AloneSteps
<1>6. QED
  BY <1>3, <1>4, <1>5 DEF Administer

LEMMA SessionsKeep ==
  ASSUME RevokedInv, UserInv, [Next]_vars
  PROVE  RevokedInv'
<1>1. ASSUME NEW q \in Slots, Protect(q) PROVE RevokedInv'
  <2>1. PICK t \in tokens : pc[q] = "idle" /\ mine' = [mine EXCEPT ![q] = t]
    BY <1>1 DEF Protect, Arrive
  <2>2. /\ OnlyCaller(q) /\ pc'[q] = "in" /\ mine'[q] = t /\ todo' = todo
        /\ UNCHANGED <<clock, drawn, rows, stored, marks, tokens, strays>>
        /\ DOMAIN pc' = Slots /\ DOMAIN mine' = Slots /\ DOMAIN todo' = Slots
    BY <1>1, <2>1 DEF Protect, sessionVars, redisVars, work, Goto, OnlyCaller,
                      RevokedInv, SessionsType
  <2>3. SlotDrawn(q)'
    BY <2>2 DEF SlotDrawn, RevokedInv, SessionsDrawn
  <2>4. QED
    BY <2>2, <2>3, AloneSteps
<1>2. ASSUME NEW q \in Slots, Answer(q) PROVE RevokedInv'
  BY <1>2, EndSteps DEF Answer, Finish, Same
<1>3. CASE \/ StateExpires \/ UNCHANGED vars
           \/ Tick /\ Same(<<userVars, work, policies, oauth>>)
  <2>1. /\ UNCHANGED <<drawn, rows, stored, marks, tokens, strays, pc, mine, todo>>
        /\ clock' \in {clock, clock + 1}
    BY <1>3 DEF StateExpires, Tick, vars, Same, sessionVars, redisVars, work
  <2>2. SessionsType'
    BY <2>1 DEF RevokedInv, SessionsType
  <2>3. SessionsDrawn'
    <3>1. \A t \in tokens : t.iat \in 0 .. clock => t.iat \in 0 .. clock'
      BY <2>1 DEF RevokedInv, SessionsType
    <3>2. QED
      BY <2>1, <3>1 DEF RevokedInv, SessionsDrawn, SlotDrawn
  <2>4. ASSUME NEW s \in Sessions PROVE RevocationAt(s)'
    <3>1. RevocationAt(s)
      BY DEF RevokedInv, RevocationHolds
    <3>2. \A p \in Slots : Current(p)' = Current(p)
      BY <2>1, SameCurrent
    <3>3. QED
      BY <2>1, <3>1, <3>2 DEF RevocationAt, Closed, RevokedRow, Revoking, Issuing, Marked
  <2>5. QED
    BY <2>2, <2>3, <2>4 DEF RevokedInv, RevocationHolds
<1>4. CASE Restart
  <2>1. /\ UNCHANGED <<clock, drawn, rows, stored, marks, tokens, strays>>
        /\ \A q \in Slots : pc'[q] = "idle" /\ todo'[q] = {}
        /\ DOMAIN pc' = Slots /\ DOMAIN mine' = Slots /\ DOMAIN todo' = Slots
    BY <1>4 DEF Restart, sessionVars, redisVars
  <2>2. SessionsType' /\ SessionsDrawn'
    BY <2>1 DEF RevokedInv, SessionsType, SessionsDrawn, SlotDrawn
  <2>3. ASSUME NEW s \in Sessions PROVE RevocationAt(s)'
    <3>1. RevocationAt(s)
      BY DEF RevokedInv, RevocationHolds
    <3>2. \A p \in Slots : ~Revoking(p, s)'
      BY <2>1 DEF Revoking
    <3>3. (Closed(s)' => Closed(s)) /\ ~Issuing(s)'
      BY <2>1, <3>2 DEF Closed, RevokedRow, Issuing
    <3>4. QED
      BY <2>1, <3>1, <3>3 DEF RevocationAt, RevokedRow, Marked
  <2>4. QED
    BY <2>2, <2>3 DEF RevokedInv, RevocationHolds
<1>5. QED
  BY <1>1, <1>2, <1>3, <1>4, SignInKeepsSessions, ProfileKeepsSessions, AdministerKeepsSessions
  DEF Next

\* What is known of sessions always holds: types, sessions in use were drawn, and
\* one on its way to being revoked has no refresh key and none is being issued.
THEOREM RevocationInvariant == Spec => [](UserInv /\ RevokedInv)
<1>1. Init => UserInv /\ RevokedInv
  <2>1. ASSUME Init PROVE RevokedInv
    <3>1. /\ \A s \in Sessions : rows[s] = Nil
          /\ \A q \in Slots : pc[q] = "idle" /\ todo[q] = {}
      BY <2>1 DEF Init, SessionInit
    <3>2. SessionsType /\ SessionsDrawn
      BY <2>1, <3>1 DEF Init, SessionInit, SessionsType, SessionsDrawn, SlotDrawn
    <3>3. RevocationHolds
      BY <3>1 DEF RevocationHolds, RevocationAt, Closed, RevokedRow, Revoking
    <3>4. QED
      BY <3>2, <3>3 DEF RevokedInv
  <2>2. QED
    BY <2>1, UsersStart
<1>2. UserInv /\ RevokedInv /\ [Next]_vars => UserInv' /\ RevokedInv'
  BY UsersKeep, SessionsKeep
<1>3. QED
  BY <1>1, <1>2, PTL DEF Spec

\* Logout, the administrator's revocation and a password change delete the
\* refresh key, write the mark and update the row one after the other
\* (user.go:254, admin.go:747), while other requests refresh, sign in and are
\* cut off.  A session whose row says revoked is never renewed, and its access
\* tokens end within their expiry, at once where somebody else revoked it.
THEOREM RevokedStayOut == Spec => []RevokedStaysOut
<1>1. RevokedInv => RevokedStaysOut
  <2>1. ASSUME RevokedInv, NEW s \in Sessions \ strays, RevokedRow(s)
        PROVE  /\ Kept(s) = Nil
               /\ \A t \in tokens : t.session = s /\ ValidateAccessToken(t) =>
                     /\ clock < rows[s].revoked + AccessExpiry
                     /\ rows[s].forced => IsSessionRevoked(s)
    <3>1. RevocationAt(s) /\ Closed(s)
      BY <2>1 DEF RevokedInv, RevocationHolds, Closed
    <3>2. Kept(s) = Nil
      BY <2>1, <3>1 DEF RevocationAt, Kept
    <3>3. ASSUME NEW t \in tokens, t.session = s, ValidateAccessToken(t)
          PROVE  /\ clock < rows[s].revoked + AccessExpiry
                 /\ rows[s].forced => IsSessionRevoked(s)
      <4>1. clock < t.iat + AccessExpiry
        BY <3>3 DEF ValidateAccessToken, validateToken
      <4>2. /\ t.iat \in Nat /\ clock \in Nat /\ AccessExpiry \in Nat /\ rows[s].revoked \in Nat
            /\ marks[s] \in Nat \cup {Nil}
        BY <2>1, <3>3, SessionAssumption
           DEF RevokedInv, SessionsDrawn, SessionsType, RevokedRow
      <4>3. /\ t.iat <= rows[s].revoked
            /\ rows[s].forced => marks[s] # Nil /\ t.iat + AccessExpiry <= marks[s]
        BY <2>1, <3>1, <3>3 DEF RevocationAt, Marked
      <4>4. QED
        BY <4>1, <4>2, <4>3 DEF IsSessionRevoked
    <3>4. QED
      BY <3>2, <3>3
  <2>2. QED
    BY <2>1 DEF RevokedStaysOut, RevokedRow
<1>2. QED
  BY <1>1, RevocationInvariant, PTL

----------------------------------------------------------------------------
(***************************************************************************)
(* Password changes.                                                       *)
(***************************************************************************)
\* A row stays its user's, and revoked, until it is deleted.
RowsMove == \A s \in drawn :
    (Gone(s) => Gone(s)') /\ \A u : Owned(s, u) => Owned(s, u)'

LEMMA MarkMoves ==
  ASSUME RevokedInv, NEW s, NEW forced, MarkRow(s, forced)
  PROVE  /\ RowsMove
         /\ s \in Sessions => Gone(s)'
<1>1. clock # Nil /\ DOMAIN rows = Sessions /\ drawn \subseteq Sessions
  BY SessionAssumption DEF RevokedInv, SessionsType
<1>2. ASSUME NEW r \in Sessions, r # s PROVE rows'[r] = rows[r]
  BY <1>1, <1>2 DEF MarkRow
<1>3. ASSUME s \in Sessions
      PROVE  Gone(s)' /\ (rows[s] = Nil => rows'[s] = Nil)
             /\ (rows[s] # Nil => rows'[s].user = rows[s].user)
  <2>1. CASE rows[s] = Nil
    BY <1>1, <1>3, <2>1 DEF MarkRow, Gone
  <2>2. CASE rows[s] # Nil
    <3>1. rows'[s] = [rows[s] EXCEPT !.revoked = clock, !.forced = forced]
      BY <1>1, <1>3, <2>2 DEF MarkRow
    <3>2. rows[s] \in [user : Users, expires : Nat, revoked : Nat \cup {Nil}, forced : BOOLEAN]
      BY <1>3, <2>2 DEF RevokedInv, SessionsType
    <3>3. rows'[s].revoked = clock /\ rows'[s].user = rows[s].user
      BY <3>1, <3>2
    <3>4. QED
      BY <1>1, <2>2, <3>3 DEF Gone
  <2>3. QED
    BY <2>1, <2>2
<1>4. QED
  BY <1>1, <1>2, <1>3 DEF RowsMove, Gone, Owned

LEMMA RowsMoves ==
  ASSUME RevokedInv, [Next]_vars
  PROVE  RowsMove /\ drawn \subseteq drawn'
<1> USE DEF Same, sessionVars, redisVars
<1>1. CASE UNCHANGED <<rows, drawn>>
  BY <1>1 DEF RowsMove, Gone, Owned
<1>2. ASSUME NEW q \in Slots, OpenSession(q) PROVE RowsMove /\ drawn \subseteq drawn'
  BY <1>2 DEF OpenSession, createSession, RowsMove, Gone, Owned, RevokedInv, SessionsType
<1>3. ASSUME NEW q \in Slots, DeleteRow(q) PROVE RowsMove /\ drawn \subseteq drawn'
  BY <1>3 DEF DeleteRow, RowsMove, Gone, Owned, RevokedInv, SessionsType
<1>4. ASSUME NEW q \in Slots, LogoutRow(q) \/ RevokeRow(q) PROVE RowsMove /\ drawn \subseteq drawn'
  BY <1>4, MarkMoves DEF LogoutRow, RevokeRow
<1>5. ASSUME NEW q \in Slots, SignIn(q) PROVE RowsMove /\ drawn \subseteq drawn'
  <2>1. CASE Register(q) \/ Login(q) \/ RefreshToken(q) \/ GoogleLogin(q) \/ GoogleCallback(q)
             \/ DropState(q) \/ ResolveGoogleUser(q) \/ GoogleFails(q) \/ SyncAvatar(q)
             \/ LinkAccount(q) \/ AdmitLinked(q) \/ Logout(q) \/ IssuePair(q) \/ IssueFails(q)
    BY <1>1, <2>1 DEF Register, Login, RefreshToken, GoogleLogin, GoogleCallback, DropState,
          ResolveGoogleUser, GoogleFails, SyncAvatar, LinkAccount, AdmitLinked, Logout,
          IssuePair, IssueFails
  <2>2. QED
    BY <1>2, <1>3, <1>4, <1>5, <2>1 DEF SignIn
<1>6. ASSUME NEW q \in Slots, Profile(q) PROVE RowsMove /\ drawn \subseteq drawn'
  <2>1. CASE UpdateProfile(q) \/ Save(q) \/ SaveFails(q) \/ UploadAvatar(q) \/ ReplaceAvatar(q) \/ RemoveAvatar(q)
             \/ ChangePassword(q) \/ SavePassword(q) \/ ListOtherSessions(q)
             \/ RevokeKey(q) \/ WriteMark(q)
    BY <1>1, <2>1 DEF UpdateProfile, Save, SaveFails, UploadAvatar, ReplaceAvatar, RemoveAvatar,
          ChangePassword, SavePassword, ListOtherSessions, RevokeKey, WriteMark
  <2>2. QED
    BY <1>4, <1>6, <2>1 DEF Profile
<1>7. ASSUME NEW q \in Slots, Administer(q) PROVE UNCHANGED <<rows, drawn>>
  BY <1>7 DEF Administer, AdminCreateUser, AdminUpdateUserRole, AdminUpdateUserStatus,
        AdminDeleteUser, AdminAddPolicy, AdminRemovePolicy, AdminRevokeSession
<1>8. ASSUME NEW q \in Slots, Protect(q) \/ Answer(q) PROVE UNCHANGED <<rows, drawn>>
  BY <1>8 DEF Protect, Answer
<1>9. CASE StateExpires \/ Restart \/ Tick \/ UNCHANGED vars
  BY <1>1, <1>9 DEF StateExpires, Restart, Tick, vars
<1> HIDE DEF Same, sessionVars, redisVars
<1>10. QED
  BY <1>1, <1>5, <1>6, <1>7, <1>8, <1>9 DEF Next

OnlyDue(q) == \A p \in Slots \ {q} :
    pc'[p] = pc[p] /\ mine'[p] = mine[p] /\ todo'[p] = todo[p] /\ due'[p] = due[p]

\* A handler that has come to its end has ended the sessions it had to.
Done(q) == pc[q] \in {"list", "row"} /\ pc'[q] = "idle" => \A s \in due[q] : Gone(s)'

DueStep == DueInv' /\ \A q \in Slots : Done(q)

LEMMA DueSteps ==
  ASSUME DueInv, RowsMove, drawn \subseteq drawn', NEW q \in Slots, OnlyDue(q), restarts' = restarts,
         DOMAIN due' = Slots, DueAt(q)', Done(q)
  PROVE  DueStep
<1>1. ASSUME NEW p \in Slots \ {q} PROVE DueAt(p)' /\ Done(p)
  <2>1. DueAt(p) /\ pc'[p] = pc[p] /\ mine'[p] = mine[p] /\ todo'[p] = todo[p] /\ due'[p] = due[p]
    BY <1>1 DEF DueInv, OnlyDue
  <2>2. \A s \in due[p] : s \in drawn
    BY <2>1 DEF DueAt
  <2>3. QED
    BY <2>1, <2>2 DEF DueAt, RowsMove, Done
<1>2. QED
  BY <1>1 DEF DueStep, DueInv

\* Steps of a slot that is not ending sessions.
LEMMA NoDueSteps ==
  ASSUME DueInv, RowsMove, drawn \subseteq drawn', NEW q \in Slots, OnlyDue(q), restarts' = restarts,
         DOMAIN due' = Slots, pc[q] \notin Ending, pc'[q] \notin Ending \ {"revoke"},
         due'[q] \in {due[q], {}}
  PROVE  DueStep
<1>1. due'[q] = {}
  BY DEF DueInv, DueAt
<1>2. DueAt(q)' /\ Done(q)
  BY <1>1 DEF DueAt, Done, Ending
<1>3. QED
  BY <1>2, DueSteps

\* No step of these handlers ends sessions, but the one that starts to.
LEMMA NotEnding ==
  ASSUME RevokedInv, DueInv, NEW q \in Slots, Protect(q) \/ Answer(q) \/ SignIn(q) \/ Administer(q)
  PROVE  /\ OnlyDue(q) /\ DOMAIN due' = Slots
         /\ pc[q] \notin Ending /\ pc'[q] \notin Ending \ {"revoke"}
         /\ due'[q] \in {due[q], {}} /\ restarts' = restarts
<1> USE DEF RevokedInv, SessionsType, DueInv, OnlyDue, Ending, Same, work, Arrive, Goto, Finish,
            Authorize, Open, Admit, Change
<1>1. CASE Protect(q) \/ Answer(q)
  BY <1>1 DEF Protect, Answer
<1>2. CASE Register(q) \/ Login(q)
  BY <1>2 DEF Register, Login
<1>3. CASE OpenSession(q)
  BY <1>3 DEF OpenSession, createSession
<1>4. CASE RefreshToken(q) \/ GoogleLogin(q) \/ GoogleCallback(q)
  BY <1>4 DEF RefreshToken, GoogleLogin, GoogleCallback
<1>5. CASE DropState(q) \/ GoogleFails(q) \/ SyncAvatar(q) \/ LinkAccount(q)
  BY <1>5 DEF DropState, GoogleFails, SyncAvatar, LinkAccount
<1>6. CASE ResolveGoogleUser(q)
  BY <1>6 DEF ResolveGoogleUser
<1>7. CASE AdmitLinked(q)
  BY <1>7 DEF AdmitLinked
<1>8. CASE Logout(q) \/ LogoutRow(q)
  BY <1>8 DEF Logout, LogoutRow
<1>9. CASE (IssuePair(q) \/ IssueFails(q) \/ DeleteRow(q))
           /\ Same(<<userVars, work, policies, oauth>>)
  BY <1>9 DEF IssuePair, IssueFails, DeleteRow
<1>10. CASE AdminCreateUser(q) \/ AdminDeleteUser(q) \/ AdminAddPolicy(q) \/ AdminRemovePolicy(q)
  BY <1>10 DEF AdminCreateUser, AdminDeleteUser, AdminAddPolicy, AdminRemovePolicy
<1>11. CASE AdminUpdateUserRole(q) \/ AdminUpdateUserStatus(q) \/ AdminRevokeSession(q)
  BY <1>11 DEF AdminUpdateUserRole, AdminUpdateUserStatus, AdminRevokeSession
<1>12. QED
  BY <1>1, <1>2, <1>3, <1>4, <1>5, <1>6, <1>7, <1>8, <1>9, <1>10, <1>11 DEF SignIn, Administer

LEMMA ProfileKeepsDue ==
  ASSUME RevokedInv, DueInv, RowsMove, drawn \subseteq drawn', restarts' = restarts,
         NEW q \in Slots, Profile(q)
  PROVE  DueStep
<1> USE DEF Same, work, Goto, Finish
<1>1. CASE UpdateProfile(q) \/ RemoveAvatar(q) \/ ChangePassword(q)
  <2>1. /\ OnlyDue(q) /\ DOMAIN due' = Slots /\ due'[q] = due[q]
        /\ pc[q] \notin Ending /\ pc'[q] \notin Ending \ {"revoke"}
    BY <1>1 DEF UpdateProfile, RemoveAvatar, ChangePassword, Authorize, Change, Ending,
                RevokedInv, SessionsType, DueInv, OnlyDue
  <2>2. QED
    BY <2>1, NoDueSteps
<1>2. CASE Save(q) \/ SaveFails(q) \/ UploadAvatar(q) \/ ReplaceAvatar(q)
  <2>1. /\ OnlyDue(q) /\ DOMAIN due' = Slots /\ due'[q] \in {due[q], {}}
        /\ pc[q] \notin Ending /\ pc'[q] \notin Ending \ {"revoke"}
    BY <1>2 DEF Save, SaveFails, UploadAvatar, ReplaceAvatar, Authorize, Ending,
                RevokedInv, SessionsType, DueInv, OnlyDue
  <2>2. QED
    BY <2>1, NoDueSteps
<1>3. CASE SavePassword(q)
  <2>1. /\ OnlyDue(q) /\ DOMAIN due' = Slots /\ due'[q] = OtherSessions(q)
        /\ pc[q] = "save_password" /\ pc'[q] = "list" /\ UNCHANGED <<rows, drawn, mine>>
    BY <1>3 DEF SavePassword, sessionVars, RevokedInv, SessionsType, DueInv, OnlyDue
  <2>2. \A s \in OtherSessions(q) : s \in drawn /\ s # mine[q].session /\ Owned(s, mine[q].user)
    BY DEF OtherSessions, Owned, RevokedInv, SessionsDrawn
  <2>3. DueAt(q)' /\ Done(q)
    BY <2>1, <2>2 DEF DueAt, Owned, Done, Ending
  <2>4. QED
    BY <2>1, <2>3, DueSteps
<1>4. CASE ListOtherSessions(q)
  <2>1. /\ OnlyDue(q) /\ DOMAIN due' = Slots /\ pc[q] = "list" /\ UNCHANGED <<rows, drawn>>
        /\ \/ OtherSessions(q) = {} /\ pc'[q] = "idle" /\ due'[q] = {}
           \/ /\ pc'[q] = "revoke" /\ due'[q] = due[q]
              /\ todo'[q] = OtherSessions(q)
    BY <1>4 DEF ListOtherSessions, sessionVars, RevokedInv, SessionsType, DueInv, OnlyDue
  <2>2. DueAt(q)
    BY DEF DueInv
  <2>3. \A s \in due[q] : s \in drawn /\ (s \in OtherSessions(q) \/ Gone(s))
    BY <2>1, <2>2 DEF DueAt, OtherSessions, Owned, Gone, RevokedInv, SessionsType
  <2>4. DueAt(q)' /\ Done(q)
    BY <2>1, <2>3 DEF DueAt, Done, Gone, Ending
  <2>5. QED
    BY <2>1, <2>4, DueSteps
<1>5. CASE RevokeKey(q) \/ WriteMark(q)
  <2>1. /\ OnlyDue(q) /\ UNCHANGED <<due, todo, rows, drawn>>
        /\ pc[q] \in {"revoke", "mark"} /\ pc'[q] \in {"mark", "row"}
    BY <1>5 DEF RevokeKey, WriteMark, RevokedInv, SessionsType, DueInv, OnlyDue
  <2>2. DueAt(q)' /\ Done(q) /\ DOMAIN due' = Slots
    BY <2>1 DEF DueInv, DueAt, Done, Gone, Ending
  <2>3. QED
    BY <2>1, <2>2, DueSteps
<1>6. CASE RevokeRow(q)
  <2>1. PICK s : s = Current(q)
    OBVIOUS
  <2>2. /\ OnlyDue(q) /\ DOMAIN due' = Slots /\ pc[q] = "row" /\ MarkRow(s, TRUE)
        /\ \/ todo[q] = {s} /\ pc'[q] = "idle" /\ due'[q] = {}
           \/ pc'[q] = "revoke" /\ due'[q] = due[q] /\ todo'[q] = todo[q] \ {s}
    BY <1>6, <2>1 DEF RevokeRow, RevokedInv, SessionsType, DueInv, OnlyDue
  <2>3. DueAt(q) /\ (s \in Sessions => Gone(s)')
    BY <2>2, MarkMoves DEF DueInv
  <2>4. \A r \in due[q] : r \in drawn /\ r \in drawn' /\ (r \in todo[q] \ {s} \/ Gone(r)')
    BY <2>2, <2>3 DEF DueAt, RowsMove, Ending, RevokedInv, SessionsType
  <2>5. DueAt(q)' /\ Done(q)
    BY <2>2, <2>4 DEF DueAt, Done, Ending
  <2>6. QED
    BY <2>2, <2>5, DueSteps
<1>7. QED
  BY <1>1, <1>2, <1>3, <1>4, <1>5, <1>6 DEF Profile

LEMMA DueKeeps ==
  ASSUME RevokedInv, DueInv, [Next]_vars
  PROVE  DueInv' /\ (restarts' = restarts => \A q \in Slots : Done(q))
<1>1. RowsMove /\ drawn \subseteq drawn'
  BY RowsMoves
<1>2. ASSUME NEW q \in Slots, Protect(q) \/ Answer(q) \/ SignIn(q) \/ Administer(q)
      PROVE  DueStep
  BY <1>1, <1>2, NotEnding, NoDueSteps
<1>3. ASSUME NEW q \in Slots, Profile(q) PROVE DueStep
  <2>1. restarts' = restarts
    BY <1>3 DEF Profile, UpdateProfile, Save, SaveFails, UploadAvatar, ReplaceAvatar, RemoveAvatar,
          ChangePassword, SavePassword, ListOtherSessions, RevokeKey, WriteMark, RevokeRow, Same
  <2>2. QED
    BY <1>1, <1>3, <2>1, ProfileKeepsDue
<1>4. CASE \/ StateExpires \/ UNCHANGED vars
           \/ Tick /\ Same(<<userVars, work, policies, oauth>>)
  <2>1. UNCHANGED <<drawn, rows, pc, mine, todo, due, restarts>>
    BY <1>4 DEF StateExpires, Tick, Same, vars, sessionVars, work
  <2>2. QED
    BY <2>1 DEF DueInv, DueAt, Done, Gone, Owned
<1>5. CASE Restart
  <2>1. /\ restarts' = restarts + 1 /\ DOMAIN due' = Slots
        /\ \A q \in Slots : pc'[q] = "idle" /\ due'[q] = {}
    BY <1>5 DEF Restart
  <2>2. QED
    BY <2>1 DEF DueInv, DueAt, Ending
<1>6. QED
  BY <1>2, <1>3, <1>4, <1>5 DEF Next, DueStep

\* ChangePassword (user.go:254) lists the user's other sessions after the new
\* password was saved, and revokes them one after the other; sign-ins,
\* refreshes, logouts and administrators change the same rows meanwhile.  When
\* the handler ends, every session that was open at the save is revoked or gone.
THEOREM PasswordChangesEndOthers == Spec => PasswordChangeEndsOthers
<1> DEFINE Ends == \A q \in Slots :
    pc[q] \in {"list", "row"} /\ pc'[q] = "idle" /\ restarts' = restarts =>
        \A s \in due[q] : rows'[s] = Nil \/ rows'[s].revoked # Nil
<1>1. Init => DueInv
  BY DEF Init, SessionInit, DueInv, DueAt, Ending
<1>2. RevokedInv /\ DueInv /\ [Next]_vars => DueInv' /\ Ends
  BY DueKeeps DEF Done, Gone
<1>3. QED
  BY <1>1, <1>2, RevocationInvariant, PTL DEF Spec, PasswordChangeEndsOthers
=============================================================================
