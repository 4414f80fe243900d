------------------------------ MODULE Accounts ------------------------------
(***************************************************************************)
(* The API's handlers on accounts: signing in and out, the profile, and    *)
(* the administrator's calls on users, policies and sessions, over         *)
(* Session's tokens.  A handler that changes a user reads the row, edits   *)
(* its copy and saves the whole row (gorm's Save, which also inserts the   *)
(* row again when it was deleted meanwhile).                               *)
(*                                                                         *)
(* A slot is a request goroutine.  A save may fail, and a restart cut a    *)
(* handler off before it; the other calls of the database succeed, and     *)
(* files are written and removed when the code asks for it.                *)
(***************************************************************************)
EXTENDS Session

CONSTANTS
    Users,          \* by e-mail address, which is unique
    Root,           \* the account seeded first
    GoogleAccounts, \* Google's subject ids
    EmailOf,        \* Google account -> its address
    States,         \* OAuth states GoogleLogin may draw
    Roles,
    Resources,      \* resources policies are about
    Defaults,       \* policies seeded at every start: <<role, resource>>
    SaveMayFail,    \* may the save of a row fail?
    MaxRequests,    \* bound on requests
    MaxRestarts     \* bound on restarts of the API

\* A row of srg_users; an avatar is named after the user and the second.
User == [role : Roles, active : BOOLEAN, pw : Nat \cup {Nil}, provider : {"local", "google"},
         sub : GoogleAccounts \cup {Nil}, avatar : (Users \X Nat) \cup {Nil},
         name : {0, 1}, deleted : BOOLEAN]

ASSUME AccountsAssumption ==
    /\ Nil \notin User
    /\ Root \in Users /\ {"user", "admin"} \subseteq Roles
    /\ EmailOf \in [GoogleAccounts -> Users]
    /\ Defaults \subseteq Roles \X Resources
    /\ <<"admin", "policies">> \in Defaults
    /\ SaveMayFail \in BOOLEAN
    /\ MaxRequests \in Nat /\ MaxRestarts \in Nat

VARIABLES
    users,     \* address -> row in srg_users, or Nil
    policies,  \* the enforcer's policies, which it saves as it changes them
    oauth,     \* OAuth states in Redis
    files,     \* avatar files on disk: <<user, second of the upload>>
    edit,      \* slot -> the change it makes: [user, field, val], or Nil
    copy,      \* slot -> its copy of the row, changed
    todo,      \* slot -> sessions it has still to revoke
    due,       \* history: slot -> sessions its password change must end
    ideal,     \* history: address -> the row had every change touched its own
               \*   field only, or Nil once two changes overlapped
    broken,    \* history: users whose row was not saved after the file it
               \*   names was removed, and has not been since
    served,    \* number of requests so far
    restarts   \* number of restarts so far

work == <<edit, copy, todo, due>>
disk == <<files, broken>>
userVars == <<users, disk, ideal>>
vars == <<sessionVars, pc, mine, userVars, work, policies, oauth, served, restarts>>

Seeded == [role |-> "admin", active |-> TRUE, pw |-> 1, provider |-> "local",
           sub |-> Nil, avatar |-> Nil, name |-> 0, deleted |-> FALSE]

Init ==
    /\ SessionInit
    /\ users = [u \in Users |-> IF u = Root THEN Seeded ELSE Nil]
    /\ policies = Defaults
    /\ oauth = {} /\ files = {} /\ broken = {}
    /\ edit = [q \in Slots |-> Nil] /\ copy = [q \in Slots |-> Nil]
    /\ todo = [q \in Slots |-> {}] /\ due = [q \in Slots |-> {}]
    /\ ideal = users
    /\ served = 0 /\ restarts = 0

Exists(u) == users[u] # Nil /\ ~users[u].deleted

\* A request comes in on a free slot.
Arrive(q) ==
    /\ pc[q] = "idle" /\ served < MaxRequests
    /\ served' = served + 1
    /\ UNCHANGED restarts

Same(part) == UNCHANGED <<part, served, restarts>>

Finish(q) ==
    /\ Goto(q, "idle")
    /\ mine' = [mine EXCEPT ![q] = Nil]
    /\ edit' = [edit EXCEPT ![q] = Nil]
    /\ copy' = [copy EXCEPT ![q] = Nil]
    /\ todo' = [todo EXCEPT ![q] = {}]
    /\ due' = [due EXCEPT ![q] = {}]

----------------------------------------------------------------------------
(***************************************************************************)
(* Policies.                                                               *)
(***************************************************************************)
Enforce(role, obj) == <<role, obj>> \in policies

GetAllPolicies == policies

\* What the policy page shows for a role.
AdminListPolicies(role) == {obj \in Resources : <<role, obj>> \in GetAllPolicies}

\* Roles of policies and of users.
AdminListRoles ==
    {p[1] : p \in GetAllPolicies} \cup {users[u].role : u \in {v \in Users : Exists(v)}}

(***************************************************************************)
(* Middleware: the access token is checked, then its session's mark; when  *)
(* that cannot be read the request passes.  A handler is chosen next.      *)
(***************************************************************************)
Protect(q) == \E t \in tokens :
    /\ Arrive(q)
    /\ ValidateAccessToken(t)
    /\ ~IsSessionRevoked(t.session) \/ RedisFails
    /\ mine' = [mine EXCEPT ![q] = t]
    /\ Goto(q, "in")
    /\ UNCHANGED <<sessionVars, userVars, work, policies, oauth>>

\* The request passed Protect and its role may use the resource.
Authorize(q, obj) == pc[q] = "in" /\ Enforce(mine[q].role, obj)

\* A request that is refused, finds nothing or only reads.
Answer(q) ==
    /\ pc[q] = "in"
    /\ Finish(q)
    /\ Same(<<sessionVars, userVars, policies, oauth>>)

----------------------------------------------------------------------------
(***************************************************************************)
(* A change of one field of a user: the row is read, its copy changed, and *)
(* the copy saved by a later step.                                         *)
(***************************************************************************)
Others(q, u) == \E p \in Slots \ {q} : copy[p] # Nil /\ edit[p].user = u

Overlap(q, u) == IF Others(q, u) THEN [ideal EXCEPT ![u] = Nil] ELSE ideal

Change(q, u, f, v, next) ==
    /\ Exists(u)
    /\ edit' = [edit EXCEPT ![q] = [user |-> u, field |-> f, val |-> v]]
    /\ copy' = [copy EXCEPT ![q] = [users[u] EXCEPT ![f] = v]]
    /\ ideal' = Overlap(q, u)
    /\ Goto(q, next)
    /\ UNCHANGED <<users, todo, due>>

\* The old file of the user's avatar is gone, and the row is still to be saved.
Replacing(q, u) == pc[q] = "save" /\ edit[q].user = u /\ edit[q].field = "avatar"

SaveCopy(q) == LET e == edit[q] IN
    /\ users' = [users EXCEPT ![e.user] = copy[q]]
    /\ broken' = {u \in broken : ~Replacing(q, u)}
    /\ ideal' = IF ideal[e.user] = Nil THEN ideal
                ELSE [ideal EXCEPT ![e.user] = [@ EXCEPT ![e.field] = e.val]]
    /\ UNCHANGED files

Save(q) ==
    /\ pc[q] = "save"
    /\ SaveCopy(q)
    /\ Finish(q)
    /\ Same(<<sessionVars, policies, oauth>>)

\* The users whose avatar one of these slots was replacing.
CutOff(slots) == {u \in Users : \E q \in slots : Replacing(q, u)}

\* The database refuses the save: an error is answered, and the row stays.
SaveFails(q) ==
    /\ SaveMayFail /\ pc[q] \in {"save", "save_password", "link"}
    /\ broken' = broken \cup CutOff({q})
    /\ Finish(q)
    /\ Same(<<sessionVars, users, files, ideal, policies, oauth>>)

----------------------------------------------------------------------------
(***************************************************************************)
(* Signing in and out.                                                     *)
(***************************************************************************)

\* The user is known and active: createSession is next.
Open(q, u, row) ==
    /\ Goto(q, "open")
    /\ mine' = [mine EXCEPT ![q] = [session |-> Nil, user |-> u, role |-> row.role, iat |-> clock]]
    /\ UNCHANGED work

OpenSession(q) ==
    /\ pc[q] = "open"
    /\ createSession(q, mine[q].user, mine[q].role)
    /\ Same(<<userVars, work, policies, oauth>>)

NewRow(u, row) ==
    /\ users[u] = Nil
    /\ users' = [users EXCEPT ![u] = row]
    /\ ideal' = [ideal EXCEPT ![u] = row]
    /\ UNCHANGED disk

LocalRow(role) == [Seeded EXCEPT !.role = role]

\* The address must be free; the unique index has the last word.
Register(q) == \E u \in Users :
    /\ Arrive(q)
    /\ NewRow(u, LocalRow("user"))
    /\ Open(q, u, LocalRow("user"))
    /\ UNCHANGED <<sessionVars, policies, oauth>>

\* With the password the row has now; accounts of Google have none.
Login(q) == \E u \in Users :
    /\ Arrive(q)
    /\ Exists(u) /\ users[u].pw # Nil /\ users[u].active
    /\ Open(q, u, users[u])
    /\ UNCHANGED <<sessionVars, userVars, policies, oauth>>

\* A good token is exchanged: a pair with its claims is issued next.
RefreshToken(q) == \E t \in tokens :
    /\ Arrive(q)
    /\ \/ /\ ValidateRefreshToken(t)
          /\ mine' = [mine EXCEPT ![q] = t]
          /\ Goto(q, "refreshed")
       \/ /\ RefusedRefresh(t)
          /\ UNCHANGED <<mine, pc>>
    /\ UNCHANGED <<clock, drawn, rows, userVars, work, policies, oauth>>

GoogleLogin(q) == \E st \in States \ oauth :
    /\ Arrive(q)
    /\ oauth' = oauth \cup {st}
    /\ UNCHANGED <<sessionVars, pc, mine, userVars, work, policies>>

\* The state must be in Redis; it is deleted by the next step.
GoogleCallback(q) == \E st \in oauth :
    /\ Arrive(q)
    /\ edit' = [edit EXCEPT ![q] = [user |-> Nil, field |-> "state", val |-> st]]
    /\ Goto(q, "callback")
    /\ UNCHANGED <<sessionVars, mine, userVars, copy, todo, due, policies, oauth>>

DropState(q) ==
    /\ pc[q] = "callback"
    /\ \/ oauth' = oauth \ {edit[q].val}
       \/ RedisFails /\ UNCHANGED oauth
    /\ edit' = [edit EXCEPT ![q] = Nil]
    /\ Goto(q, "google")
    /\ Same(<<sessionVars, mine, userVars, copy, todo, due, policies>>)

StateExpires == \E st \in oauth :
    /\ oauth' = oauth \ {st}
    /\ Same(<<sessionVars, pc, mine, userVars, work, policies>>)

\* An inactive user is turned away.
Admit(q, u, row) == IF row.active THEN Open(q, u, row) ELSE Finish(q)

GoogleRow(g) == [Seeded EXCEPT !.role = "user", !.pw = Nil, !.provider = "google", !.sub = g]

LinkedTo(g) == {u \in Users : Exists(u) /\ users[u].provider = "google" /\ users[u].sub = g}

\* Who the answer of Google stands for: the account linked to it; else the
\* account with its address, linked anew if it is Google's; else a new one.
ResolveGoogleUser(q) == \E g \in GoogleAccounts : LET u == EmailOf[g] IN
    /\ pc[q] = "google"
    /\ \/ \E v \in LinkedTo(g) :
             IF users[v].avatar = Nil
             THEN Change(q, v, "avatar", Nil, "sync") /\ UNCHANGED <<mine, disk>>
             ELSE Admit(q, v, users[v]) /\ UNCHANGED userVars
       \/ /\ LinkedTo(g) = {} /\ ~Exists(u)
          /\ \/ NewRow(u, GoogleRow(g)) /\ Open(q, u, GoogleRow(g))
             \/ users[u] # Nil /\ Finish(q) /\ UNCHANGED userVars
       \/ /\ LinkedTo(g) = {} /\ Exists(u)
          /\ IF users[u].provider = "google"
             THEN Change(q, u, "sub", g, "link") /\ UNCHANGED <<mine, disk>>
             ELSE Finish(q) /\ UNCHANGED userVars
    /\ Same(<<sessionVars, policies, oauth>>)

\* Google cannot be reached, or the address is not verified.
GoogleFails(q) ==
    /\ pc[q] = "google"
    /\ Finish(q)
    /\ Same(<<sessionVars, userVars, policies, oauth>>)

\* The picture is the only column updated.
SyncAvatar(q) == LET u == edit[q].user IN
    /\ pc[q] = "sync"
    /\ users' = [users EXCEPT ![u].avatar = Nil]
    /\ Goto(q, "admit")
    /\ Same(<<sessionVars, mine, disk, ideal, work, policies, oauth>>)

LinkAccount(q) ==
    /\ pc[q] = "link"
    /\ SaveCopy(q)
    /\ Goto(q, "admit")
    /\ Same(<<sessionVars, mine, work, policies, oauth>>)

AdmitLinked(q) ==
    /\ pc[q] = "admit"
    /\ edit' = [edit EXCEPT ![q] = Nil]
    /\ copy' = [copy EXCEPT ![q] = Nil]
    /\ IF copy[q].active
       THEN /\ Goto(q, "open")
            /\ mine' = [mine EXCEPT ![q] = [session |-> Nil, user |-> edit[q].user,
                                            role |-> copy[q].role, iat |-> clock]]
       ELSE Goto(q, "idle") /\ UNCHANGED mine
    /\ Same(<<sessionVars, userVars, todo, due, policies, oauth>>)

\* No mark is written: the caller gives up its own token.
Logout(q) ==
    /\ pc[q] = "in"
    /\ RevokeSession(mine[q].session)
    /\ Goto(q, "logout")
    /\ Same(<<clock, drawn, rows, mine, userVars, work, policies, oauth>>)

LogoutRow(q) ==
    /\ pc[q] = "logout"
    /\ MarkRow(mine[q].session, FALSE)
    /\ Finish(q)
    /\ Same(<<clock, drawn, redisVars, userVars, policies, oauth>>)

----------------------------------------------------------------------------
(***************************************************************************)
(* The profile.                                                            *)
(***************************************************************************)
\* Mutant: the avatar is generated anew for the new name.
UpdateProfile_NewAvatar(q) == LET u == mine[q].user IN
    /\ Authorize(q, "profile") /\ Exists(u)
    /\ edit' = [edit EXCEPT ![q] = [user |-> u, field |-> "name", val |-> 1]]
    /\ copy' = [copy EXCEPT ![q] = [users[u] EXCEPT !.name = 1, !.avatar = Nil]]
    /\ ideal' = Overlap(q, u)
    /\ Goto(q, "save")
    /\ Same(<<sessionVars, mine, users, disk, todo, due, policies, oauth>>)

UpdateProfile(q) ==
    /\ Authorize(q, "profile")
    /\ Change(q, mine[q].user, "name", 1, "save")
    /\ Same(<<sessionVars, mine, disk, policies, oauth>>)

\* A file, or the row, has this name.
NameTaken(u, name) == name \in files \/ (users[u] # Nil /\ users[u].avatar = name)

\* The file is written first, named after the user and the second: a second
\* upload within the second has the same name.
UploadAvatar(q) == LET u == mine[q].user IN
    /\ Authorize(q, "profile")
    /\ files' = files \cup {<<u, clock>>}
    /\ edit' = [edit EXCEPT ![q] = [user |-> u, field |-> "avatar", val |-> <<u, clock>>]]
    /\ ideal' = IF NameTaken(u, <<u, clock>>) THEN [ideal EXCEPT ![u] = Nil] ELSE ideal
    /\ Goto(q, "upload")
    /\ Same(<<sessionVars, mine, users, broken, copy, todo, due, policies, oauth>>)

\* Mutant: every file of the user goes, the new one too.
RemoveOldFile_Any(u) == files \ {<<u, t>> : t \in 0 .. MaxClock}

\* The file the row refers to.
RemoveOldFile(u) == files \ {users[u].avatar}

\* The old file goes before the row is saved, even if it has the new one's name.
ReplaceAvatar(q) == LET u == edit[q].user IN
    /\ pc[q] = "upload"
    /\ IF Exists(u)
       THEN /\ files' = RemoveOldFile(u)
            /\ copy' = [copy EXCEPT ![q] = [users[u] EXCEPT !.avatar = edit[q].val]]
            /\ ideal' = Overlap(q, u)
            /\ Goto(q, "save")
            /\ UNCHANGED <<users, broken, mine, edit, todo, due>>
       ELSE Finish(q) /\ UNCHANGED userVars
    /\ Same(<<sessionVars, policies, oauth>>)

RemoveAvatar(q) == LET u == mine[q].user IN
    /\ Authorize(q, "profile")
    /\ files' = RemoveOldFile(u)
    /\ Change(q, u, "avatar", Nil, "save")
    /\ Same(<<sessionVars, mine, broken, policies, oauth>>)

\* The current password is checked against the row that is read.
ChangePassword(q) == LET u == mine[q].user IN
    /\ Authorize(q, "profile")
    /\ Exists(u) /\ users[u].pw # Nil
    /\ Change(q, u, "pw", users[u].pw + 1, "save_password")
    /\ Same(<<sessionVars, mine, disk, policies, oauth>>)

\* The user's open sessions but the one that asks.
OtherSessions(q) == {s \in Sessions \ {mine[q].session} :
    rows[s] # Nil /\ rows[s].user = mine[q].user /\ rows[s].revoked = Nil}

SavePassword(q) ==
    /\ pc[q] = "save_password"
    /\ SaveCopy(q)
    /\ copy' = [copy EXCEPT ![q] = Nil]
    /\ due' = [due EXCEPT ![q] = OtherSessions(q)]
    /\ Goto(q, "list")
    /\ Same(<<sessionVars, mine, edit, todo, policies, oauth>>)

\* Mutant: only sessions Redis keeps a refresh token of, not those refreshing.
ListOtherSessions_Kept(q) == LET kept == {s \in OtherSessions(q) : Kept(s) # Nil} IN
    /\ pc[q] = "list"
    /\ IF kept = {} THEN Finish(q)
       ELSE /\ todo' = [todo EXCEPT ![q] = kept]
            /\ Goto(q, "revoke")
            /\ UNCHANGED <<mine, edit, copy, due>>
    /\ Same(<<sessionVars, userVars, policies, oauth>>)

ListOtherSessions(q) ==
    /\ pc[q] = "list"
    /\ IF OtherSessions(q) = {} THEN Finish(q)
       ELSE /\ todo' = [todo EXCEPT ![q] = OtherSessions(q)]
            /\ Goto(q, "revoke")
            /\ UNCHANGED <<mine, edit, copy, due>>
    /\ Same(<<sessionVars, userVars, policies, oauth>>)

(***************************************************************************)
(* Revoking sessions, one after the other: the refresh key, the mark, the  *)
(* row.                                                                    *)
(***************************************************************************)
Current(q) == CHOOSE s \in todo[q] : TRUE

RevokeKey(q) ==
    /\ pc[q] = "revoke"
    /\ RevokeSession(Current(q))
    /\ Goto(q, "mark")
    /\ Same(<<clock, drawn, rows, mine, userVars, work, policies, oauth>>)

WriteMark(q) ==
    /\ pc[q] = "mark"
    /\ MarkSessionRevoked(Current(q))
    /\ Goto(q, "row")
    /\ Same(<<clock, drawn, rows, mine, userVars, work, policies, oauth>>)

RevokeRow(q) ==
    /\ pc[q] = "row"
    /\ MarkRow(Current(q), TRUE)
    /\ IF todo[q] = {Current(q)} THEN Finish(q)
       ELSE /\ todo' = [todo EXCEPT ![q] = @ \ {Current(q)}]
            /\ Goto(q, "revoke")
            /\ UNCHANGED <<mine, edit, copy, due>>
    /\ Same(<<clock, drawn, redisVars, userVars, policies, oauth>>)

----------------------------------------------------------------------------
(***************************************************************************)
(* The administrator's calls.                                              *)
(***************************************************************************)

\* Users by role and status; Nil stands for any.
AdminListUsers(role, status) == {u \in Users :
    /\ Exists(u)
    /\ role = Nil \/ users[u].role = role
    /\ status = Nil \/ users[u].active = (status = "active")}

AdminListSessions(status) == {s \in Sessions :
    /\ rows[s] # Nil
    /\ CASE status = "active"  -> rows[s].revoked = Nil /\ rows[s].expires > clock
         [] status = "revoked" -> rows[s].revoked # Nil
         [] OTHER -> TRUE}

AdminCreateUser(q) == \E u \in Users, r \in Roles :
    /\ Authorize(q, "users")
    /\ NewRow(u, LocalRow(r))
    /\ Finish(q)
    /\ Same(<<sessionVars, policies, oauth>>)

\* Not one's own role, and only a role with a policy.
AdminUpdateUserRole(q) == \E u \in AdminListUsers(Nil, Nil), r \in AdminListRoles :
    /\ Authorize(q, "users")
    /\ u # mine[q].user /\ AdminListPolicies(r) # {}
    /\ Change(q, u, "role", r, "save")
    /\ Same(<<sessionVars, mine, disk, policies, oauth>>)

AdminUpdateUserStatus(q) == \E u \in AdminListUsers(Nil, Nil), active \in BOOLEAN :
    /\ Authorize(q, "users")
    /\ u # mine[q].user
    /\ Change(q, u, "active", active, "save")
    /\ Same(<<sessionVars, mine, disk, policies, oauth>>)

\* A soft delete; sessions and tokens stay.
AdminDeleteUser(q) == \E u \in AdminListUsers(Nil, Nil) :
    /\ Authorize(q, "users")
    /\ u # mine[q].user
    /\ users' = [users EXCEPT ![u].deleted = TRUE]
    /\ ideal' = IF Others(q, u) \/ ideal[u] = Nil THEN [ideal EXCEPT ![u] = Nil]
                ELSE [ideal EXCEPT ![u].deleted = TRUE]
    /\ Finish(q)
    /\ Same(<<sessionVars, disk, policies, oauth>>)

AdminAddPolicy(q) == \E r \in Roles, obj \in Resources :
    /\ Authorize(q, "policies")
    /\ policies' = policies \cup {<<r, obj>>}
    /\ Finish(q)
    /\ Same(<<sessionVars, userVars, oauth>>)

\* Never the administrators' own access to policies.
AdminRemovePolicy(q) == \E r \in Roles : \E obj \in AdminListPolicies(r) :
    /\ Authorize(q, "policies")
    /\ <<r, obj>> # <<"admin", "policies">>
    /\ policies' = policies \ {<<r, obj>>}
    /\ Finish(q)
    /\ Same(<<sessionVars, userVars, oauth>>)

\* A session that is not revoked yet.
AdminRevokeSession(q) == \E s \in AdminListSessions(Nil) :
    /\ Authorize(q, "sessions")
    /\ rows[s].revoked = Nil
    /\ todo' = [todo EXCEPT ![q] = {s}]
    /\ Goto(q, "revoke")
    /\ Same(<<sessionVars, mine, userVars, edit, copy, due, policies, oauth>>)

----------------------------------------------------------------------------
(***************************************************************************)
(* A restart of the API: requests are cut off, the enforcer is loaded and  *)
(* the defaults are seeded again.  The administrator is seeded only into   *)
(* an empty table: its row, once there, holds the address for good.        *)
(***************************************************************************)
Restart ==
    /\ restarts < MaxRestarts
    /\ restarts' = restarts + 1
    /\ pc' = [q \in Slots |-> "idle"]
    /\ mine' = [q \in Slots |-> Nil]
    /\ edit' = [q \in Slots |-> Nil] /\ copy' = [q \in Slots |-> Nil]
    /\ todo' = [q \in Slots |-> {}] /\ due' = [q \in Slots |-> {}]
    /\ broken' = broken \cup CutOff(Slots)
    /\ policies' = policies \cup Defaults
    /\ UNCHANGED <<sessionVars, users, files, ideal, oauth, served>>

SignIn(q) ==
    \/ Register(q) \/ Login(q) \/ OpenSession(q) \/ RefreshToken(q)
    \/ GoogleLogin(q) \/ GoogleCallback(q) \/ DropState(q) \/ ResolveGoogleUser(q)
    \/ GoogleFails(q) \/ SyncAvatar(q) \/ LinkAccount(q) \/ AdmitLinked(q)
    \/ Logout(q) \/ LogoutRow(q)
    \/ (IssuePair(q) \/ IssueFails(q) \/ DeleteRow(q))
       /\ Same(<<userVars, work, policies, oauth>>)

Profile(q) ==
    \/ UpdateProfile(q) \/ Save(q) \/ SaveFails(q) \/ UploadAvatar(q) \/ ReplaceAvatar(q) \/ RemoveAvatar(q)
    \/ ChangePassword(q) \/ SavePassword(q) \/ ListOtherSessions(q)
    \/ RevokeKey(q) \/ WriteMark(q) \/ RevokeRow(q)

Administer(q) ==
    \/ AdminCreateUser(q) \/ AdminUpdateUserRole(q) \/ AdminUpdateUserStatus(q)
    \/ AdminDeleteUser(q) \/ AdminAddPolicy(q) \/ AdminRemovePolicy(q) \/ AdminRevokeSession(q)

Next ==
    \/ \E q \in Slots : Protect(q) \/ Answer(q) \/ SignIn(q) \/ Profile(q) \/ Administer(q)
    \/ StateExpires \/ Restart
    \/ Tick /\ Same(<<userVars, work, policies, oauth>>)

Spec == Init /\ [][Next]_vars

----------------------------------------------------------------------------
(***************************************************************************)
(* Properties.                                                             *)
(***************************************************************************)
\* However refreshes interleave, one stored refresh token is exchanged at most
\* once: exchanges, and the token that may still be, never exceed the issues.
EachIssueIsExchangedOnce == \A s \in Sessions :
    exchanges[s] + (IF stored[s] = Nil THEN 0 ELSE 1) <= issues[s]

\* A revoked session is not renewed, from the moment its row says so and for ever,
\* and its access tokens run out within their expiry; none of them passes Protect
\* when an administrator or a password change revoked it.  Unless Redis refused a
\* call, or a pair was being issued.
RevokedStaysOut == \A s \in Sessions \ strays :
    rows[s] # Nil /\ rows[s].revoked # Nil =>
        /\ Kept(s) = Nil
        /\ \A t \in tokens : t.session = s /\ ValidateAccessToken(t) =>
              /\ clock < rows[s].revoked + AccessExpiry
              /\ rows[s].forced => IsSessionRevoked(s)

\* A password change that completes has revoked every other session its user
\* had open when the new password was saved.
PasswordChangeEndsOthers == [][\A q \in Slots :
    pc[q] \in {"list", "row"} /\ pc'[q] = "idle" /\ restarts' = restarts =>
        \A s \in due[q] : rows'[s] = Nil \/ rows'[s].revoked # Nil]_vars

\* Handlers save whole rows, and yet a row is what its fields' changes make it,
\* as long as no two handlers hold copies of it at once.
SavesKeepOtherFields == \A u \in Users : ideal[u] # Nil => ideal[u] = users[u]

\* The avatar a row names is on disk.  Not between the removal of the old file and
\* the save of the row; nor after it, when the save failed or a restart came first
\* (user.go removes, then saves), until the user's avatar is saved again; and not
\* once changes of the row overlapped or two uploads fell into one second.
AvatarIsOnDisk == \A u \in Users :
    ideal[u] # Nil /\ users[u].avatar # Nil
    /\ ~(\E q \in Slots : Replacing(q, u)) /\ u \notin broken =>
        users[u].avatar \in files
============================================================================
