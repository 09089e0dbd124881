------------------------------ MODULE Sessions ------------------------------
(***************************************************************************)
(* auth-service: accounts, and what a login leaves behind.                 *)
(*                                                                         *)
(* A session is one login: the refresh token the caller holds, the row in  *)
(* auth.refresh_token and the access tokens minted from it.  Tokens are    *)
(* JWTs without a random part, so two logins of one user in one second     *)
(* hold the same refresh token (createToken, jwt_issuer.go).  The table    *)
(* accepts duplicates.  A request runs next to the others: Refresh is cut  *)
(* where it has checked the row and not yet minted the token.              *)
(***************************************************************************)
EXTENDS Integers, FiniteSets

CONSTANTS Users,          \* e-mail addresses
          Sessions,       \* bound: logins of a behaviour
          AccessTTL, RefreshTTL,   \* in ticks of the clock, one per second
          MaxClock        \* bound: the clock runs from 0 to MaxClock

ASSUME SessionsAssumption == AccessTTL \in Nat /\ RefreshTTL \in Nat /\ MaxClock \in Nat

VARIABLES account,   \* per user: None, or the role of the row CreateUser inserted
          clientRow, \* users with a row in auth.client
          session,   \* per session: the login as its caller sees it, or NoSession
          tokenRow,  \* sessions whose row is in auth.refresh_token
          checked,   \* sessions with a refresh past its checks, mapped to the moment's view
          access,    \* per session: the last access token minted for it, or NoAccess
          seconds    \* the clock

sessionVars == <<account, clientRow, session, tokenRow, checked, access, seconds>>

Roles == {"Client", "Driver"}
NoAccount == "none"
NoSession == [user |-> NoAccount, iat |-> -1, kept |-> FALSE, gone |-> FALSE]
NoAccess == [user |-> NoAccount, exp |-> -1, client |-> FALSE, late |-> FALSE]
NoCheck == "none"

SessionsInit ==
  /\ account = [u \in Users |-> NoAccount]
  /\ clientRow = {}
  /\ session = [s \in Sessions |-> NoSession]
  /\ tokenRow = {}
  /\ checked = [s \in Sessions |-> NoCheck]
  /\ access = [s \in Sessions |-> NoAccess]
  /\ seconds = 0

\* createToken: the claims decide the token, so these two fields identify it.
Token(s) == <<session[s].user, session[s].iat>>

\* The client id goes into the token of a client with a row; without one it stays empty.
LookupClientID(user) == account[user] = "Client" /\ user \in clientRow

\* late is ghost: the request was checked after its session had ended.
IssueAccess(user, late) ==
  [user |-> user, exp |-> seconds + AccessTTL, late |-> late, client |-> LookupClientID(user)]

IssueRefresh(user, kept) == [user |-> user, iat |-> seconds, kept |-> kept, gone |-> FALSE]

\* INSERT; a second row with the same e-mail is ErrConflict.
CreateUser(u, role) ==
  /\ account[u] = NoAccount
  /\ account' = [account EXCEPT ![u] = role]

GetByEmail(u) == account[u] # NoAccount

\* Signup: the user row and, for a client, the client row commit together.
Signup(u, role) ==
  /\ CreateUser(u, role)
  /\ clientRow' = IF role = "Client" THEN clientRow \cup {u} ELSE clientRow
  /\ UNCHANGED <<session, tokenRow, checked, access, seconds>>

Store(s, kept) == tokenRow' = IF kept THEN tokenRow \cup {s} ELSE tokenRow

\* Login with the right password.  A failed Store is logged and the tokens returned anyway.
Login(s, u, kept) ==
  /\ session[s] = NoSession
  /\ GetByEmail(u)
  /\ session' = [session EXCEPT ![s] = IssueRefresh(u, kept)]
  /\ Store(s, kept)
  /\ access' = [access EXCEPT ![s] = IssueAccess(u, FALSE)]
  /\ UNCHANGED <<account, clientRow, checked, seconds>>

\* ParseRefresh: the token's own expiry.
ParseRefresh(s) == session[s] # NoSession /\ seconds < session[s].iat + RefreshTTL

\* Exists: some row carries this token for this user and has not expired.
Exists(s) == \E t \in tokenRow : Token(t) = Token(s) /\ seconds < session[t].iat + RefreshTTL

\* The session's token was revoked, and no other login holds the same one (ghost).
Ended(s) ==
  \/ seconds >= session[s].iat + RefreshTTL
  \/ session[s].gone /\ \A t \in Sessions : Token(t) = Token(s) => session[t].gone \/ ~session[t].kept

\* Mutant of BeginRefresh: the token's signature and expiry are enough.
BeginRefreshUnchecked(s) ==
  /\ checked[s] = NoCheck
  /\ ParseRefresh(s)
  /\ checked' = [checked EXCEPT ![s] = IF Ended(s) THEN "late" ELSE "ok"]
  /\ UNCHANGED <<account, clientRow, session, tokenRow, access, seconds>>

\* Refresh up to and including Exists; a refused request changes nothing.
BeginRefresh(s) ==
  /\ checked[s] = NoCheck
  /\ ParseRefresh(s)
  /\ Exists(s)
  /\ checked' = [checked EXCEPT ![s] = IF Ended(s) THEN "late" ELSE "ok"]
  /\ UNCHANGED <<account, clientRow, session, tokenRow, access, seconds>>

\* The rest of Refresh: the user is read again and an access token minted.
EndRefresh(s) ==
  /\ checked[s] # NoCheck
  /\ access' = [access EXCEPT ![s] = IssueAccess(session[s].user, checked[s] = "late")]
  /\ checked' = [checked EXCEPT ![s] = NoCheck]
  /\ UNCHANGED <<account, clientRow, session, tokenRow, seconds>>

\* DELETE ... WHERE user_id = $1 AND token = $2
Deleted(user, token) == {t \in tokenRow : session[t].user = user /\ Token(t) = token}

\* Logout by the holder of s, who presents the refresh token of t.  The gateway lets the
\* request through while the access token of s lives, and names its user.
Logout(s, t) ==
  /\ access[s] # NoAccess /\ seconds < access[s].exp
  /\ session[t] # NoSession
  /\ tokenRow' = tokenRow \ Deleted(access[s].user, Token(t))
  /\ session' = [x \in Sessions |->
                   IF session[x].user = access[s].user /\ x = t
                     THEN [session[x] EXCEPT !.gone = TRUE] ELSE session[x]]
  /\ UNCHANGED <<account, clientRow, checked, access, seconds>>

SecondPasses ==
  /\ seconds < MaxClock
  /\ seconds' = seconds + 1
  /\ UNCHANGED <<account, clientRow, session, tokenRow, checked, access>>

SessionsNext ==
  \/ \E u \in Users, role \in Roles : Signup(u, role)
  \/ \E s \in Sessions, u \in Users, kept \in BOOLEAN : Login(s, u, kept)
  \/ \E s \in Sessions : BeginRefresh(s) \/ EndRefresh(s)
  \/ \E s, t \in Sessions : Logout(s, t)
  \/ SecondPasses

---------------------------------------------------------------------------
(* Properties *)

Twin(s, t) == t # s /\ session[t] # NoSession /\ Token(t) = Token(s)

\* "revokes one refresh token, scoped to the caller" (docs/CHANGELOG.md:415): a session nobody
\* logged out, whose row was stored and has not expired, can be refreshed, unless another
\* login of the same user in the same second was logged out; and a session that was logged
\* out cannot be, unless such a login is still signed in.
LogoutScoped ==
  \A s \in Sessions : session[s] # NoSession /\ ParseRefresh(s) =>
    /\ session[s].kept /\ ~session[s].gone
         => Exists(s) \/ \E t \in Sessions : Twin(s, t) /\ session[t].gone
    /\ session[s].gone /\ Exists(s)
         => \E t \in Sessions : Twin(s, t) /\ session[t].kept /\ ~session[t].gone

\* However requests overlap, an access token was minted for its session's own user by a
\* request that was checked while the session lived, so it outlives a logout or the refresh
\* token only by AccessTTL and the length of that request; a client's token always names
\* its client row, because Signup commits both rows at once.
AccessIsEarned ==
  \A s \in Sessions : access[s] # NoAccess =>
    /\ access[s].user = session[s].user
    /\ ~access[s].late
    /\ access[s].client <=> account[access[s].user] = "Client"

\* A login can be used as long as it should and no longer: what Logout, Refresh and the two
\* expiry times promise together (LogoutScoped and AccessIsEarned).
SessionsSound == LogoutScoped /\ AccessIsEarned
=============================================================================
