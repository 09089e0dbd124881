--------------------------- MODULE ServiceProofs ---------------------------
(***************************************************************************)
(* What a service process tells its probes, what a login can be used for,  *)
(* what a wallet keeps, what the pages of a list show, what a caller may   *)
(* conclude from an answer, which pings of a device are stored, whom a     *)
(* round of offers goes to and what line a summary shows: for any number   *)
(* of workers, sessions, cards, clients, rows, requests, pings, drivers    *)
(* and points, and any size of page, batch and pool.                       *)
(*                                                                         *)
(* The machines share no state; each has a specification of its own.       *)
(***************************************************************************)
EXTENDS Track, Sessions, Process, Listing, Discovery, Wallet, Api, FiniteSetTheorems, TLAPS

-----------------------------------------------------------------------------
(* Numbers and sequences.                                                  *)

\* A set of numbers that is not empty has a least one.
LEMMA LeastNat == ASSUME NEW S, S \subseteq Nat, S # {} PROVE \E x \in S : \A y \in S : x <= y
<1>1. PICK R : R = OpToRel(<, Nat)
  OBVIOUS
<1>2. IsWellFoundedOn(R, Nat)
  BY <1>1, NatLessThanWellFounded
<1>3. PICK x \in S : \A y \in S : ~(<<y, x>> \in R)
  BY <1>2, WFMin
<1>4. ASSUME NEW y \in S PROVE x <= y
  <2>1. y < x => <<y, x>> \in R
    BY <1>1 DEF OpToRel
  <2> QED
    BY <1>3, <2>1
<1> QED
  BY <1>4

LEMMA MinIsIn == ASSUME NEW S, S \subseteq Nat, S # {} PROVE Min(S) \in S
  BY LeastNat DEF Min

LEMMA Slice ==
  ASSUME NEW S, NEW p \in Seq(S), NEW a \in Nat, NEW b \in Nat, a <= b, b <= Len(p)
  PROVE  /\ SubSeq(p, a + 1, b) \in Seq(S) /\ Len(SubSeq(p, a + 1, b)) = b - a
         /\ \A i \in 1..b - a : SubSeq(p, a + 1, b)[i] = p[a + i]
<1>1. SubSeq(p, a + 1, b) \in Seq(S)
  OBVIOUS
<1>2. Len(SubSeq(p, a + 1, b)) = b - a
  OBVIOUS
<1>3. \A i \in 1..b - a : SubSeq(p, a + 1, b)[i] = p[a + i]
  OBVIOUS
<1> QED
  BY <1>1, <1>2, <1>3

LEMMA Joined ==
  ASSUME NEW S, NEW s \in Seq(S), NEW t \in Seq(S)
  PROVE  /\ s \o t \in Seq(S) /\ Len(s \o t) = Len(s) + Len(t)
         /\ \A i \in 1..Len(s) : (s \o t)[i] = s[i]
         /\ \A i \in 1..Len(t) : (s \o t)[Len(s) + i] = t[i]
  OBVIOUS

LEMMA SeqWider == ASSUME NEW S, NEW T, S \subseteq T, NEW s \in Seq(S) PROVE s \in Seq(T)
  OBVIOUS

-----------------------------------------------------------------------------
(* The process.                                                            *)

ProcessSpec == ProcessInit /\ [][ProcessNext]_processVars

Running == {w \in Workers : worker[w] = "running"}

\* Done is called once per worker, so the WaitGroup counts the workers that run.
ProcessInv ==
  /\ \E service \in Services : worker \in [WorkersOf(service) -> {"running", "returned", "gone"}]
  /\ IsFiniteSet(Workers)
  /\ waitGroup = Cardinality(Running)
  /\ HealthHonest

\* The workers main starts are few.
LEMMA FewAreFinite == ASSUME NEW a, NEW b, NEW c PROVE IsFiniteSet({a, b, c})
<1>1. IsFiniteSet({a}) /\ IsFiniteSet({b}) /\ IsFiniteSet({c})
  BY FS_Singleton
<1>2. IsFiniteSet({a} \cup {b})
  BY <1>1, FS_Union
<1>3. IsFiniteSet(({a} \cup {b}) \cup {c})
  BY <1>1, <1>2, FS_Union
<1>4. ({a} \cup {b}) \cup {c} = {a, b, c}
  OBVIOUS
<1> QED
  BY <1>3, <1>4

LEMMA MoreAreFinite ==
  ASSUME NEW a, NEW b, NEW c, NEW d, NEW e, NEW f PROVE IsFiniteSet({a, b, c, d, e, f})
<1>1. IsFiniteSet({a, b, c} \cup {d, e, f})
  BY FewAreFinite, FS_Union
<1>2. {a, b, c} \cup {d, e, f} = {a, b, c, d, e, f}
  OBVIOUS
<1> QED
  BY <1>1, <1>2

LEMMA WorkersFinite == ASSUME NEW service \in Services PROVE IsFiniteSet(WorkersOf(service))
<1> DEFINE A == {"outbox-worker", "ride-accepted-consumer", "payment-completed-consumer",
                 "ride-matching-failed-consumer", "ride-cancelled-consumer", "ride-completed-consumer"}
           B == {"ride-requested-consumer", "shift-updated-consumer", "match-retry-worker",
                 "charge-worker", "ride-summary-ready-consumer", "pubsub-dispatcher"}
           C == {"staleness-worker", "archive-worker", "outbox-worker"}
<1>1. IsFiniteSet(A) /\ IsFiniteSet(B) /\ IsFiniteSet(C)
  BY FewAreFinite, MoreAreFinite
<1>2. IsFiniteSet(A \cup B \cup C)
  <2> HIDE DEF A, B, C
  <2>1. IsFiniteSet(A \cup B)
    BY <1>1, FS_Union
  <2> QED
    BY <1>1, <2>1, FS_Union
<1>3. /\ AuthWorkers \subseteq A \cup B \cup C /\ RideWorkers \subseteq A \cup B \cup C
      /\ DriverWorkers \subseteq A \cup B \cup C /\ MatchingWorkers \subseteq A \cup B \cup C
      /\ BillingWorkers \subseteq A \cup B \cup C /\ LocationWorkers \subseteq A \cup B \cup C
  BY DEF AuthWorkers, RideWorkers, DriverWorkers, MatchingWorkers, BillingWorkers, LocationWorkers
<1> HIDE DEF A, B, C
<1>4. WorkersOf(service) \subseteq A \cup B \cup C
  BY <1>3, ProcessAssumption DEF WorkersOf
<1> QED
  BY <1>2, <1>4, FS_Subset

LEMMA ProcessInitially == ProcessInit => ProcessInv
<1> SUFFICES ASSUME ProcessInit PROVE ProcessInv
  OBVIOUS
<1>1. PICK service \in Services : /\ worker = [w \in WorkersOf(service) |-> "running"]
                                  /\ waitGroup = Cardinality(WorkersOf(service))
  BY DEF ProcessInit
<1>2. Workers = WorkersOf(service) /\ Running = WorkersOf(service)
  BY <1>1 DEF Workers, Running
<1>3. worker \in [WorkersOf(service) -> {"running", "returned", "gone"}]
  BY <1>1
<1>4. HealthHonest
  BY DEF ProcessInit, HealthHonest
<1> QED
  BY <1>1, <1>2, <1>3, <1>4, WorkersFinite DEF ProcessInv

\* A worker that leaves takes one from the WaitGroup, and none comes back.
LEMMA WorkerLeaves ==
  ASSUME ProcessInv, NEW w \in Workers, NEW v \in {"returned", "gone"},
         worker' = [worker EXCEPT ![w] = v],
         waitGroup' = IF worker[w] = "running" THEN waitGroup - 1 ELSE waitGroup
  PROVE  /\ \E service \in Services : worker' \in [WorkersOf(service) -> {"running", "returned", "gone"}]
         /\ Workers' = Workers /\ IsFiniteSet(Workers')
         /\ waitGroup' = Cardinality(Running') /\ Running' \subseteq Running
<1>1. PICK service \in Services : worker \in [WorkersOf(service) -> {"running", "returned", "gone"}]
  BY DEF ProcessInv
<1>2. Workers = WorkersOf(service)
  BY <1>1 DEF Workers
<1>3. worker' \in [WorkersOf(service) -> {"running", "returned", "gone"}] /\ Workers' = Workers
  BY <1>1, <1>2 DEF Workers
<1>4. \A u \in Workers : worker'[u] = IF u = w THEN v ELSE worker[u]
  BY <1>1, <1>2
<1>5. Running' = Running \ {w}
  BY <1>3, <1>4 DEF Running
<1>6. IsFiniteSet(Running) /\ Running \subseteq Workers
  BY FS_Subset DEF Running, ProcessInv
<1>7. Cardinality(Running \ {w}) = IF w \in Running THEN Cardinality(Running) - 1 ELSE Cardinality(Running)
  BY <1>6, FS_RemoveElement
<1>8. w \in Running <=> worker[w] = "running"
  BY DEF Running
<1> QED
  BY <1>3, <1>5, <1>7, <1>8 DEF ProcessInv

\* The WaitGroup is zero only when nobody runs.
LEMMA NobodyRuns == ASSUME ProcessInv, waitGroup = 0 PROVE \A w \in Workers : worker[w] # "running"
<1>1. IsFiniteSet(Running)
  BY FS_Subset DEF Running, ProcessInv
<1>2. Running = {}
  BY <1>1, FS_EmptySet DEF ProcessInv
<1> QED
  BY <1>2 DEF Running

LEMMA ProcessStep == ProcessInv /\ [ProcessNext]_processVars => ProcessInv'
<1> SUFFICES ASSUME ProcessInv, [ProcessNext]_processVars PROVE ProcessInv'
  OBVIOUS
<1>1. ASSUME NEW w \in Workers, WorkerStops(w) \/ WorkerExits(w) PROVE ProcessInv'
  <2>1. PICK v \in {"returned", "gone"} : worker' = [worker EXCEPT ![w] = v]
    BY <1>1 DEF WorkerStops, WorkerExits
  <2>2. waitGroup' = IF worker[w] = "running" THEN waitGroup - 1 ELSE waitGroup
    BY <1>1 DEF WorkerStops, WorkerExits
  <2>3. /\ \E service \in Services : worker' \in [WorkersOf(service) -> {"running", "returned", "gone"}]
        /\ Workers' = Workers /\ IsFiniteSet(Workers')
        /\ waitGroup' = Cardinality(Running') /\ Running' \subseteq Running
    BY <2>1, <2>2, WorkerLeaves
  <2>4. \A u \in Workers : worker'[u] = "running" => worker[u] = "running"
    BY <2>3 DEF Running
  <2>5. HealthHonest'
    BY <1>1, <2>3, <2>4 DEF ProcessInv, HealthHonest, WorkerStops, WorkerExits
  <2> QED
    BY <2>3, <2>5 DEF ProcessInv
<1>2. ASSUME NEW w \in Workers, GoSafeRecovers(w) PROVE ProcessInv'
  <2>1. worker' = [worker EXCEPT ![w] = "gone"] /\ waitGroup' = IF worker[w] = "running" THEN waitGroup - 1 ELSE waitGroup
    BY <1>2 DEF GoSafeRecovers
  <2>2. /\ \E service \in Services : worker' \in [WorkersOf(service) -> {"running", "returned", "gone"}]
        /\ Workers' = Workers /\ IsFiniteSet(Workers')
        /\ waitGroup' = Cardinality(Running') /\ Running' \subseteq Running
    BY <2>1, WorkerLeaves
  <2>3. \A u \in Workers : worker'[u] = "running" => worker[u] = "running"
    BY <2>2 DEF Running
  <2>4. HealthHonest'
    BY <1>2, <2>2, <2>3 DEF ProcessInv, HealthHonest, GoSafeRecovers, MarkNotLive
  <2> QED
    BY <2>2, <2>4 DEF ProcessInv
<1>3. ASSUME UNCHANGED <<worker, waitGroup>>, HealthHonest' PROVE ProcessInv'
  BY <1>3 DEF ProcessInv, Workers, Running
<1>4. CASE BeginPing \/ \E ok \in BOOLEAN : EndPing(ok)
  BY <1>3, <1>4 DEF ProcessInv, HealthHonest, Workers, BeginPing, EndPing
<1>5. CASE RequestArrives \/ RequestEnds \/ ShutdownSignal \/ DeadlinePasses \/ ServerShutdown
  BY <1>3, <1>5 DEF ProcessInv, HealthHonest, Workers, RequestArrives, RequestEnds,
     ShutdownSignal, DeadlinePasses, ServerShutdown
<1>6. CASE MarkNotReady \/ CancelWorkers
  BY <1>3, <1>6 DEF ProcessInv, HealthHonest, Workers, MarkNotReady, CancelWorkers
<1>7. CASE Drain
  BY <1>3, <1>7, NobodyRuns DEF ProcessInv, HealthHonest, Workers, Drain
<1>8. CASE UNCHANGED processVars
  BY <1>3, <1>8 DEF ProcessInv, HealthHonest, Workers, processVars
<1> QED
  BY <1>1, <1>2, <1>4, <1>5, <1>6, <1>7, <1>8 DEF ProcessNext

\* HealthHonest, for every service and however often its workers panic: a late ping never undoes
\* MarkNotReady, MarkNotLive is called exactly for a worker that left untold, and Drain flushes
\* telemetry under a running worker only once the timeout has passed.
THEOREM HealthHonestAlways == ProcessSpec => []HealthHonest
<1>1. ProcessInv => HealthHonest
  BY DEF ProcessInv
<1> QED
  BY <1>1, ProcessInitially, ProcessStep, PTL DEF ProcessSpec

-----------------------------------------------------------------------------
(* Sessions.                                                               *)

SessionsSpec == SessionsInit /\ [][SessionsNext]_sessionVars

SessionRecord == [user : Users \cup {NoAccount}, iat : Nat \cup {-1}, kept : BOOLEAN, gone : BOOLEAN]

Used(s) == session[s] # NoSession

SessionsType ==
  /\ account \in [Users -> Roles \cup {NoAccount}]
  /\ session \in [Sessions -> SessionRecord]
  /\ tokenRow \subseteq Sessions
  /\ checked \in [Sessions -> {NoCheck, "ok"}]
  /\ DOMAIN access = Sessions
  /\ seconds \in Nat
  /\ \A s \in Sessions : Used(s) => session[s].user \in Users /\ account[session[s].user] # NoAccount

\* A row in auth.refresh_token is that of a login that was stored and not logged out; a login
\* whose row is gone was logged out, or one with the same token was.
TokenRows ==
  /\ \A s \in tokenRow : Used(s) /\ session[s].kept /\ ~session[s].gone
  /\ \A s \in Sessions : Used(s) /\ session[s].kept /\ ~session[s].gone /\ s \notin tokenRow
       => \E t \in Sessions : Twin(s, t) /\ session[t].gone

\* Who has an access token or a refresh in progress has logged in.
TokensHeld ==
  /\ \A u \in Users : account[u] = "Client" <=> u \in clientRow
  /\ \A s \in Sessions : checked[s] # NoCheck \/ access[s] # NoAccess => Used(s)
  /\ AccessIsEarned

SessionsInv == SessionsType /\ TokenRows /\ TokensHeld

\* What a login issues is a session.
LEMMA IssuedRefresh ==
  ASSUME SessionsType, NEW u \in Users, NEW kept \in BOOLEAN
  PROVE  /\ IssueRefresh(u, kept) \in SessionRecord /\ IssueRefresh(u, kept) # NoSession
         /\ IssueRefresh(u, kept).user = u /\ IssueRefresh(u, kept).kept = kept
         /\ IssueRefresh(u, kept).gone = FALSE
<1>1. seconds \in Nat
  BY DEF SessionsType
<1> QED
  BY <1>1 DEF IssueRefresh, SessionRecord, NoSession

\* What is minted for a user names the user and the client row.
LEMMA IssuedAccess ==
  ASSUME SessionsInv, NEW u \in Users
  PROVE  /\ IssueAccess(u, FALSE).user = u /\ ~IssueAccess(u, FALSE).late
         /\ IssueAccess(u, FALSE).client <=> account[u] = "Client"
<1>1. IssueAccess(u, FALSE).user = u /\ IssueAccess(u, FALSE).late = FALSE
  BY DEF IssueAccess
<1>2. IssueAccess(u, FALSE).client = LookupClientID(u)
  BY DEF IssueAccess
<1>3. LookupClientID(u) <=> account[u] = "Client"
  BY DEF LookupClientID, SessionsInv, TokensHeld
<1>4. IssueAccess(u, FALSE).client <=> LookupClientID(u)
  BY <1>2, Zenon
<1> QED
  BY <1>1, <1>3, <1>4

LEMMA SessionsInitially == SessionsInit => SessionsInv
<1> SUFFICES ASSUME SessionsInit PROVE SessionsInv
  OBVIOUS
<1>1. NoSession \in SessionRecord
  BY DEF NoSession, SessionRecord
<1>2. \A s \in Sessions : session[s] = NoSession /\ checked[s] = NoCheck /\ access[s] = NoAccess
  BY DEF SessionsInit
<1>3. SessionsType
  BY <1>1, <1>2 DEF SessionsInit, SessionsType, Used
<1>4. TokenRows
  BY <1>2 DEF SessionsInit, TokenRows, Used
<1>5. TokensHeld
  BY <1>2 DEF SessionsInit, TokensHeld, AccessIsEarned, NoAccount
<1> QED
  BY <1>3, <1>4, <1>5 DEF SessionsInv

\* Signup: both rows commit together, and nobody has a session before.
LEMMA SignupKeeps ==
  ASSUME SessionsInv, NEW u \in Users, NEW role \in Roles, Signup(u, role) PROVE SessionsInv'
<1>1. /\ account[u] = NoAccount /\ account' = [account EXCEPT ![u] = role]
      /\ clientRow' = IF role = "Client" THEN clientRow \cup {u} ELSE clientRow
      /\ UNCHANGED <<session, tokenRow, checked, access, seconds>>
  BY DEF Signup, CreateUser
<1>2. account' \in [Users -> Roles \cup {NoAccount}] /\ account'[u] = role /\ \A v \in Users : v # u => account'[v] = account[v]
  BY <1>1 DEF SessionsInv, SessionsType
<1>3. role # NoAccount /\ NoAccount # "Client"
  BY DEF Roles, NoAccount
<1>4. \A s \in Sessions : Used(s) => session[s].user # u /\ session[s].user \in Users
  BY <1>1 DEF SessionsInv, SessionsType
<1>5. SessionsType'
  BY <1>1, <1>2, <1>3 DEF SessionsInv, SessionsType, Used
<1>6. TokenRows'
  BY <1>1 DEF SessionsInv, TokenRows, Used, Twin, Token
<1>7. \A v \in Users : account'[v] = "Client" <=> v \in clientRow'
  BY <1>1, <1>2, <1>3 DEF SessionsInv, TokensHeld
<1>8. ASSUME NEW s \in Sessions, access[s] # NoAccess
      PROVE  access[s].user = session[s].user /\ ~access[s].late /\ (access[s].client <=> account'[access[s].user] = "Client")
  <2>1. access[s].user = session[s].user /\ ~access[s].late /\ (access[s].client <=> account[access[s].user] = "Client") /\ Used(s)
    BY <1>8 DEF SessionsInv, TokensHeld, AccessIsEarned
  <2>2. account'[access[s].user] = account[access[s].user]
    BY <1>2, <1>4, <2>1
  <2> QED
    BY <2>1, <2>2
<1>9. TokensHeld'
  BY <1>1, <1>7, <1>8 DEF SessionsInv, TokensHeld, AccessIsEarned, Used
<1> QED
  BY <1>5, <1>6, <1>9 DEF SessionsInv

\* Login: the row is stored or not, the tokens are issued all the same.
LEMMA LoginKeeps ==
  ASSUME SessionsInv, NEW s \in Sessions, NEW u \in Users, NEW kept \in BOOLEAN, Login(s, u, kept)
  PROVE  SessionsInv'
<1>1. /\ session[s] = NoSession /\ account[u] # NoAccount
      /\ session' = [session EXCEPT ![s] = IssueRefresh(u, kept)]
      /\ tokenRow' = IF kept THEN tokenRow \cup {s} ELSE tokenRow
      /\ access' = [access EXCEPT ![s] = IssueAccess(u, FALSE)]
      /\ UNCHANGED <<account, clientRow, checked, seconds>>
  BY DEF Login, GetByEmail, Store
<1>2. /\ IssueRefresh(u, kept) \in SessionRecord /\ IssueRefresh(u, kept) # NoSession
      /\ IssueRefresh(u, kept).user = u /\ IssueRefresh(u, kept).kept = kept
      /\ IssueRefresh(u, kept).gone = FALSE
  BY IssuedRefresh DEF SessionsInv
<1>3. /\ session' \in [Sessions -> SessionRecord] /\ session'[s] = IssueRefresh(u, kept)
      /\ \A t \in Sessions : t # s => session'[t] = session[t]
  BY <1>1, <1>2 DEF SessionsInv, SessionsType
<1>4. /\ DOMAIN access' = Sessions /\ access'[s] = IssueAccess(u, FALSE)
      /\ \A t \in Sessions : t # s => access'[t] = access[t]
  BY <1>1 DEF SessionsInv, SessionsType
<1>5. SessionsType'
  BY <1>1, <1>2, <1>3, <1>4 DEF SessionsInv, SessionsType, Used
<1>6. TokenRows'
  <2>1. \A t \in tokenRow : t # s
    BY <1>1 DEF SessionsInv, TokenRows, Used
  <2>2. \A t \in tokenRow' : Used(t)' /\ session'[t].kept /\ ~session'[t].gone
    BY <1>1, <1>2, <1>3, <2>1 DEF SessionsInv, SessionsType, TokenRows, Used
  <2>3. ASSUME NEW x \in Sessions, Used(x)', session'[x].kept, ~session'[x].gone, x \notin tokenRow'
        PROVE  \E t \in Sessions : Twin(x, t)' /\ session'[t].gone
    <3>1. x # s /\ session'[x] = session[x] /\ x \notin tokenRow
      BY <1>1, <1>2, <1>3, <2>3
    <3>2. PICK t \in Sessions : Twin(x, t) /\ session[t].gone
      BY <2>3, <3>1 DEF SessionsInv, TokenRows, Used
    <3>3. t # s /\ session'[t] = session[t]
      BY <1>1, <1>3, <3>2 DEF Twin
    <3> QED
      BY <3>1, <3>2, <3>3 DEF Twin, Token
  <2> QED
    BY <2>2, <2>3 DEF TokenRows
<1>7. TokensHeld'
  <2>1. \A t \in Sessions : checked'[t] # NoCheck \/ access'[t] # NoAccess => Used(t)'
    BY <1>1, <1>2, <1>3, <1>4 DEF SessionsInv, TokensHeld, Used
  <2>2. access'[s].user = session'[s].user /\ ~access'[s].late /\ (access'[s].client <=> account[u] = "Client") /\ access'[s].user = u
    BY <1>2, <1>3, <1>4, IssuedAccess
  <2>3. AccessIsEarned'
    <3> SUFFICES ASSUME NEW t \in Sessions, access'[t] # NoAccess
                 PROVE  /\ access'[t].user = session'[t].user /\ ~access'[t].late
                        /\ access'[t].client <=> account[access'[t].user] = "Client"
      BY <1>1, Zenon DEF AccessIsEarned
    <3>1. CASE t = s
      BY <2>2, <3>1, Zenon
    <3>2. CASE t # s
      <4>1. access'[t] = access[t] /\ session'[t] = session[t] /\ AccessIsEarned
        BY <1>3, <1>4, <3>2 DEF SessionsInv, TokensHeld
      <4> QED
        BY <4>1, Zenon DEF AccessIsEarned
    <3> QED
      BY <3>1, <3>2
  <2> QED
    BY <1>1, <2>1, <2>3 DEF SessionsInv, TokensHeld
<1> QED
  BY <1>5, <1>6, <1>7 DEF SessionsInv

\* The checks of Refresh let nobody through whose session has ended.
LEMMA CheckIsTimely ==
  ASSUME SessionsInv, NEW s \in Sessions, ParseRefresh(s), Exists(s) PROVE ~Ended(s)
<1>1. PICK t \in tokenRow : Token(t) = Token(s)
  BY DEF Exists
<1>2. t \in Sessions /\ session[t].kept /\ ~session[t].gone
  BY DEF SessionsInv, SessionsType, TokenRows
<1>3. session[s].iat \in Int /\ seconds \in Int
  BY DEF SessionsInv, SessionsType, SessionRecord
<1>4. ~(seconds >= session[s].iat + RefreshTTL)
  BY <1>3, SessionsAssumption DEF ParseRefresh
<1> QED
  BY <1>1, <1>2, <1>4 DEF Ended

LEMMA BeginKeeps ==
  ASSUME SessionsInv, NEW s \in Sessions, BeginRefresh(s) PROVE SessionsInv'
<1>1. ~Ended(s) /\ Used(s)
  BY CheckIsTimely DEF BeginRefresh, ParseRefresh, Used
<1>2. checked' = [checked EXCEPT ![s] = "ok"] /\ UNCHANGED <<account, clientRow, session, tokenRow, access, seconds>>
  BY <1>1 DEF BeginRefresh
<1>3. SessionsType'
  BY <1>2 DEF SessionsInv, SessionsType, Used
<1>4. TokenRows'
  BY <1>2 DEF SessionsInv, TokenRows, Used, Twin, Token
<1>5. TokensHeld'
  BY <1>1, <1>2 DEF SessionsInv, SessionsType, TokensHeld, AccessIsEarned, Used
<1> QED
  BY <1>3, <1>4, <1>5 DEF SessionsInv

LEMMA EndKeeps ==
  ASSUME SessionsInv, NEW s \in Sessions, EndRefresh(s) PROVE SessionsInv'
<1>1. checked[s] = "ok" /\ Used(s) /\ session[s].user \in Users
  BY DEF EndRefresh, SessionsInv, SessionsType, TokensHeld
<1>2. PICK late \in BOOLEAN : late = (checked[s] = "late")
  OBVIOUS
<1>3. late = FALSE
  BY <1>1, <1>2
<1>4. /\ access' = [access EXCEPT ![s] = IssueAccess(session[s].user, FALSE)]
      /\ checked' = [checked EXCEPT ![s] = NoCheck]
      /\ UNCHANGED <<account, clientRow, session, tokenRow, seconds>>
  BY <1>2, <1>3, Zenon DEF EndRefresh
<1>5. /\ DOMAIN access' = Sessions /\ access'[s] = IssueAccess(session[s].user, FALSE)
      /\ \A t \in Sessions : t # s => access'[t] = access[t]
  BY <1>4 DEF SessionsInv, SessionsType
<1>6. checked' \in [Sessions -> {NoCheck, "ok"}] /\ \A t \in Sessions : checked'[t] # NoCheck => checked[t] # NoCheck
  BY <1>4 DEF SessionsInv, SessionsType
<1>7. SessionsType'
  BY <1>4, <1>5, <1>6 DEF SessionsInv, SessionsType, Used
<1>8. TokenRows'
  BY <1>4 DEF SessionsInv, TokenRows, Used, Twin, Token
<1>9. TokensHeld'
  <2>1. access'[s].user = session[s].user /\ ~access'[s].late /\ (access'[s].client <=> account[session[s].user] = "Client")
    BY <1>1, <1>5, IssuedAccess
  <2>2. AccessIsEarned'
    <3> SUFFICES ASSUME NEW t \in Sessions, access'[t] # NoAccess
                 PROVE  /\ access'[t].user = session[t].user /\ ~access'[t].late
                        /\ access'[t].client <=> account[access'[t].user] = "Client"
      BY <1>4, Zenon DEF AccessIsEarned
    <3>1. CASE t = s
      BY <2>1, <3>1, Zenon
    <3>2. CASE t # s
      <4>1. access'[t] = access[t] /\ AccessIsEarned
        BY <1>5, <3>2 DEF SessionsInv, TokensHeld
      <4> QED
        BY <4>1, Zenon DEF AccessIsEarned
    <3> QED
      BY <3>1, <3>2
  <2>3. \A t \in Sessions : checked'[t] # NoCheck \/ access'[t] # NoAccess => Used(t)'
    BY <1>1, <1>4, <1>5, <1>6 DEF SessionsInv, TokensHeld, Used
  <2> QED
    BY <1>4, <2>2, <2>3 DEF SessionsInv, TokensHeld
<1> QED
  BY <1>7, <1>8, <1>9 DEF SessionsInv

\* Logout: the rows that go carry the token of a session of the caller, which is marked.
LEMMA LogoutKeeps ==
  ASSUME SessionsInv, NEW s \in Sessions, NEW t \in Sessions, Logout(s, t) PROVE SessionsInv'
<1>1. /\ session[t] # NoSession /\ tokenRow' = tokenRow \ Deleted(access[s].user, Token(t))
      /\ session' = [x \in Sessions |->
                       IF session[x].user = access[s].user /\ x = t
                         THEN [session[x] EXCEPT !.gone = TRUE] ELSE session[x]]
      /\ UNCHANGED <<account, clientRow, checked, access, seconds>>
  BY DEF Logout
<1>2. ASSUME NEW x \in Sessions
      PROVE  /\ session'[x] \in SessionRecord
             /\ session'[x].user = session[x].user /\ session'[x].iat = session[x].iat /\ session'[x].kept = session[x].kept
             /\ session'[x].gone <=> session[x].gone \/ (x = t /\ session[x].user = access[s].user)
  <2>1. session[x] \in SessionRecord
    BY DEF SessionsInv, SessionsType
  <2>2. [session[x] EXCEPT !.gone = TRUE] \in SessionRecord
    BY <2>1 DEF SessionRecord
  <2>3. CASE x = t /\ session[x].user = access[s].user
    <3>1. session'[x] = [session[x] EXCEPT !.gone = TRUE]
      BY <1>1, <2>3
    <3> QED
      BY <2>1, <2>2, <2>3, <3>1 DEF SessionRecord
  <2>4. CASE ~(x = t /\ session[x].user = access[s].user)
    <3>1. session'[x] = session[x]
      BY <1>1, <2>4
    <3> QED
      BY <2>1, <2>4, <3>1
  <2> QED
    BY <2>3, <2>4
<1>3. ASSUME NEW x \in Sessions PROVE Used(x)' <=> Used(x)
  <2>1. CASE x = t /\ session[x].user = access[s].user
    <3>1. session'[x] = [session[x] EXCEPT !.gone = TRUE] /\ session[x] \in SessionRecord
      BY <1>1, <2>1 DEF SessionsInv, SessionsType
    <3>2. session'[x].gone = TRUE
      BY <3>1 DEF SessionRecord
    <3> QED
      BY <1>1, <2>1, <3>2 DEF Used, NoSession
  <2>2. CASE ~(x = t /\ session[x].user = access[s].user)
    BY <1>1, <2>2 DEF Used
  <2> QED
    BY <2>1, <2>2
<1>4. session' \in [Sessions -> SessionRecord]
  BY <1>1, <1>2
<1>5. SessionsType'
  BY <1>1, <1>2, <1>3, <1>4 DEF SessionsInv, SessionsType
<1>6. \A x, y \in Sessions : Twin(x, y) => Twin(x, y)'
  BY <1>2, <1>3 DEF Twin, Token, Used
<1>7. \A x \in tokenRow' : Used(x)' /\ session'[x].kept /\ ~session'[x].gone
  <2> SUFFICES ASSUME NEW x \in tokenRow' PROVE Used(x)' /\ session'[x].kept /\ ~session'[x].gone
    OBVIOUS
  <2>1. x \in tokenRow /\ x \in Sessions /\ x \notin Deleted(access[s].user, Token(t))
    BY <1>1 DEF SessionsInv, SessionsType
  <2>2. ~(x = t /\ session[x].user = access[s].user)
    BY <2>1 DEF Deleted
  <2> QED
    BY <1>2, <1>3, <2>1, <2>2 DEF SessionsInv, TokenRows
<1>8. ASSUME NEW x \in Sessions, Used(x)', session'[x].kept, ~session'[x].gone, x \notin tokenRow'
      PROVE  \E y \in Sessions : Twin(x, y)' /\ session'[y].gone
  <2>1. Used(x) /\ session[x].kept /\ ~session[x].gone /\ ~(x = t /\ session[x].user = access[s].user)
    BY <1>2, <1>3, <1>8
  <2>2. CASE x \notin tokenRow
    BY <1>2, <1>6, <2>1, <2>2 DEF SessionsInv, TokenRows
  <2>3. CASE x \in tokenRow
    <3>1. session[x].user = access[s].user /\ Token(x) = Token(t)
      BY <1>1, <1>8, <2>3 DEF Deleted
    <3>2. session[t].user = access[s].user /\ t # x
      BY <2>1, <3>1 DEF Token
    <3>3. Twin(x, t)
      BY <1>1, <3>1, <3>2 DEF Twin
    <3> QED
      BY <1>2, <1>6, <3>2, <3>3
  <2> QED
    BY <2>2, <2>3
<1>9. TokenRows'
  BY <1>7, <1>8 DEF TokenRows
<1>10. TokensHeld'
  BY <1>1, <1>2, <1>3 DEF SessionsInv, TokensHeld, AccessIsEarned
<1> QED
  BY <1>5, <1>9, <1>10 DEF SessionsInv

LEMMA SessionsStep == SessionsInv /\ [SessionsNext]_sessionVars => SessionsInv'
<1> SUFFICES ASSUME SessionsInv, [SessionsNext]_sessionVars PROVE SessionsInv'
  OBVIOUS
<1>1. CASE SecondPasses \/ UNCHANGED sessionVars
  <2>1. UNCHANGED <<account, clientRow, session, tokenRow, checked, access>> /\ seconds' \in Nat
    BY <1>1 DEF SecondPasses, sessionVars, SessionsInv, SessionsType
  <2> QED
    BY <2>1 DEF SessionsInv, SessionsType, TokenRows, TokensHeld, AccessIsEarned, Used, Twin, Token
<1> QED
  BY <1>1, SignupKeeps, LoginKeeps, BeginKeeps, EndKeeps, LogoutKeeps DEF SessionsNext

\* SessionsSound, however Login, Refresh and Logout of any users overlap: Logout ends the session
\* it names and the others only through an equal token, and an access token was minted by a
\* request that Exists let through while its session lived, for that session's own user.
THEOREM SessionsSoundAlways == SessionsSpec => []SessionsSound
<1>1. ASSUME SessionsInv PROVE SessionsSound
  <2>1. ASSUME NEW s \in Sessions, session[s] # NoSession, ParseRefresh(s), session[s].kept, ~session[s].gone
        PROVE  Exists(s) \/ \E t \in Sessions : Twin(s, t) /\ session[t].gone
    <3>1. CASE s \in tokenRow
      BY <2>1, <3>1 DEF Exists, ParseRefresh
    <3>2. CASE s \notin tokenRow
      BY <1>1, <2>1, <3>2 DEF SessionsInv, TokenRows, Used
    <3> QED
      BY <3>1, <3>2
  <2>2. ASSUME NEW s \in Sessions, session[s].gone, Exists(s)
        PROVE  \E t \in Sessions : Twin(s, t) /\ session[t].kept /\ ~session[t].gone
    <3>1. PICK t \in tokenRow : Token(t) = Token(s)
      BY <2>2 DEF Exists
    <3>2. t \in Sessions /\ Used(t) /\ session[t].kept /\ ~session[t].gone
      BY <1>1 DEF SessionsInv, SessionsType, TokenRows
    <3> QED
      BY <2>2, <3>1, <3>2 DEF Twin, Used
  <2>3. LogoutScoped
    BY <2>1, <2>2 DEF LogoutScoped
  <2> QED
    BY <1>1, <2>3 DEF SessionsSound, SessionsInv, TokensHeld
<1> QED
  BY <1>1, SessionsInitially, SessionsStep, PTL DEF SessionsSpec

-----------------------------------------------------------------------------
(* The wallet.                                                             *)

WalletSpec == WalletInit /\ [][WalletNext]_walletVars

AnyClient == WalletClients \cup Strangers \cup {"none"}
AnyCard == Cards \cup {"none"}

Row == [client : AnyClient, card : AnyCard, isDefault : BOOLEAN, status : {"active", "removed"},
        wasDefault : BOOLEAN, lost : BOOLEAN]

CallRecord ==
  [step : {"done", "customer", "attach", "clear", "lock", "insert", "reread", "count", "remove"},
   kind : {"none", "add", "remove"}, client : AnyClient, card : AnyCard, setDefault : BOOLEAN,
   id : Nat, seen : Nat, holds : Nat,
   answer : {"none", "ok", "NotFound", "provider error", "Conflict", "Forbidden"},
   open : BOOLEAN, rows : Nat, removals : Nat, took : BOOLEAN]

WalletType == methods \in Seq(Row) /\ call \in [Requests -> CallRecord]

\* The table has changed since the call began.
Changed(c) == Len(methods) > c.rows \/ Removals > c.removals

HasCard(c) == \E r \in DOMAIN methods : Active(r) /\ methods[r].client = c.client /\ methods[r].card = c.card

OwnRow(c) == c.id \in DOMAIN methods /\ methods[c.id].client = c.client

\* What ClearDefault saw and holds is the default unless the table has changed, so an INSERT
\* is refused for a card that is there or because of a change.
AddOK(c) ==
  /\ c.step = "done" /\ c.answer = "ok" => OwnRow(c) /\ methods[c.id].card = c.card
  /\ c.step = "done" /\ c.answer = "NotFound" => Changed(c)
  /\ c.step \in {"clear", "lock"} => c.setDefault
  /\ c.step = "lock" => c.seen = DefaultOf(c.client) \/ Changed(c)
  /\ c.step = "insert" /\ c.setDefault => c.holds = DefaultOf(c.client) \/ Changed(c)
  /\ c.step = "reread" => HasCard(c) \/ Changed(c)

\* What is removed without counting the invoices is no default and does not become one.
RemoveOK(c) ==
  /\ c.answer # "Forbidden" => OwnRow(c)
  /\ c.step = "remove" => ~methods[c.id].isDefault \/ c.client \notin owing \/ c.open

CallOK(c) ==
  /\ c.step # "done" => c.answer = "none"
  /\ c.kind = "none" => c.step = "done" /\ c.answer = "none"
  /\ c.kind = "add" => c.step \notin {"count", "remove"} /\ AddOK(c)
  /\ c.kind = "remove" => c.step \in {"count", "remove", "done"} /\ RemoveOK(c)
  /\ c.rows <= Len(methods) /\ c.removals <= Removals
  /\ c.holds # 0 => /\ c.step = "insert" /\ c.setDefault
                    /\ c.holds \in DOMAIN methods /\ methods[c.holds].client = c.client
  /\ c.took => c.open

WalletInv ==
  /\ WalletType
  /\ OneDefault
  /\ DefaultKept
  /\ \A q \in Requests : CallOK(call[q])

\* The ids are the places of the table.
LEMMA TableFacts ==
  WalletType => /\ Len(methods) \in Nat /\ DOMAIN methods = 1..Len(methods)
                /\ \A r \in DOMAIN methods : methods[r] \in Row
                /\ Removals \in Nat /\ IsFiniteSet({r \in DOMAIN methods : ~Active(r)})
<1> SUFFICES ASSUME WalletType
             PROVE  /\ Len(methods) \in Nat /\ DOMAIN methods = 1..Len(methods)
                    /\ \A r \in DOMAIN methods : methods[r] \in Row
                    /\ Removals \in Nat /\ IsFiniteSet({r \in DOMAIN methods : ~Active(r)})
  OBVIOUS
<1>1. Len(methods) \in Nat /\ DOMAIN methods = 1..Len(methods) /\ \A r \in DOMAIN methods : methods[r] \in Row
  BY DEF WalletType
<1>2. IsFiniteSet(DOMAIN methods)
  BY <1>1, FS_Interval
<1>3. IsFiniteSet({r \in DOMAIN methods : ~Active(r)})
  BY <1>2, FS_Subset
<1>4. Removals \in Nat
  BY <1>3, FS_CardinalityType DEF Removals
<1> QED
  BY <1>1, <1>3, <1>4

DefaultRows(k) == {r \in DOMAIN methods : methods[r].client = k /\ methods[r].isDefault /\ Active(r)}

\* The default is the active default row, 0 without one.
LEMMA DefaultFacts ==
  WalletType /\ OneDefault =>
    \A k : /\ DefaultRows(k) = {} => DefaultOf(k) = 0
           /\ \A r \in DefaultRows(k) : DefaultOf(k) = r
           /\ DefaultOf(k) # 0 => DefaultOf(k) \in DefaultRows(k)
           /\ DefaultOf(k) \in Nat /\ 0 \notin DefaultRows(k)
<1> SUFFICES ASSUME WalletType, OneDefault, NEW k
             PROVE  /\ DefaultRows(k) = {} => DefaultOf(k) = 0
                    /\ \A r \in DefaultRows(k) : DefaultOf(k) = r
                    /\ DefaultOf(k) # 0 => DefaultOf(k) \in DefaultRows(k)
                    /\ DefaultOf(k) \in Nat /\ 0 \notin DefaultRows(k)
  OBVIOUS
<1>1. DefaultOf(k) = IF DefaultRows(k) = {} THEN 0 ELSE CHOOSE r \in DefaultRows(k) : TRUE
  BY DEF DefaultOf, DefaultRows
<1>2. \A r, s \in DefaultRows(k) : r = s
  BY DEF DefaultRows, OneDefault
<1>3. DefaultRows(k) \subseteq Nat \ {0}
  BY TableFacts DEF DefaultRows
<1>4. DefaultRows(k) # {} => DefaultOf(k) \in DefaultRows(k)
  BY <1>1
<1> QED
  BY <1>1, <1>2, <1>3, <1>4

\* The same of the next state.
LEMMA FactsNext ==
  /\ WalletType' => /\ Len(methods') \in Nat /\ DOMAIN methods' = 1..Len(methods')
                    /\ Removals' \in Nat
  /\ WalletType' /\ OneDefault' =>
       \A k : /\ DefaultRows(k)' = {} => DefaultOf(k)' = 0
              /\ \A r \in DefaultRows(k)' : DefaultOf(k)' = r
              /\ DefaultOf(k)' # 0 => DefaultOf(k)' \in DefaultRows(k)'
              /\ DefaultOf(k)' \in Nat /\ 0 \notin DefaultRows(k)'
<1>1. (WalletType => /\ Len(methods) \in Nat /\ DOMAIN methods = 1..Len(methods)
                     /\ \A r \in DOMAIN methods : methods[r] \in Row
                     /\ Removals \in Nat /\ IsFiniteSet({r \in DOMAIN methods : ~Active(r)}))'
  BY TableFacts, PTL
<1>2. (WalletType /\ OneDefault =>
         \A k : /\ DefaultRows(k) = {} => DefaultOf(k) = 0
                /\ \A r \in DefaultRows(k) : DefaultOf(k) = r
                /\ DefaultOf(k) # 0 => DefaultOf(k) \in DefaultRows(k)
                /\ DefaultOf(k) \in Nat /\ 0 \notin DefaultRows(k))'
  BY DefaultFacts, PTL
<1> QED
  BY <1>1, <1>2

LEMMA WalletInitially == WalletInit => WalletInv
<1> SUFFICES ASSUME WalletInit PROVE WalletInv
  OBVIOUS
<1>1. NoCall \in CallRecord /\ NoCall.kind = "none" /\ NoCall.step = "done" /\ NoCall.answer = "none" /\ NoCall.rows = 0 /\ NoCall.removals = 0 /\ NoCall.holds = 0 /\ ~NoCall.took
  BY DEF NoCall, CallRecord, AnyClient, AnyCard
<1>2. methods = << >> /\ methods \in Seq(Row) /\ Len(methods) = 0 /\ DOMAIN methods = {}
  BY DEF WalletInit
<1>3. WalletType /\ \A q \in Requests : call[q] = NoCall
  BY <1>1, <1>2 DEF WalletInit, WalletType
<1>4. Removals \in Nat
  BY <1>3, TableFacts
<1>5. CallOK(NoCall)
  BY <1>1, <1>2, <1>4 DEF CallOK
<1> QED
  BY <1>2, <1>3, <1>5 DEF WalletInv, OneDefault, DefaultKept

\* A step of one call that leaves the table alone.
LEMMA CallMoves ==
  ASSUME WalletInv, NEW q \in Requests, NEW c \in CallRecord, CallOK(c),
         call' = [call EXCEPT ![q] = c], UNCHANGED <<methods, owing>>
  PROVE  WalletInv'
<1>1. call' \in [Requests -> CallRecord] /\ \A p \in Requests : call'[p] = IF p = q THEN c ELSE call[p]
  BY DEF WalletInv, WalletType
<1>2. WalletType' /\ OneDefault' /\ DefaultKept'
  BY <1>1 DEF WalletInv, WalletType, OneDefault, DefaultKept, DefaultOf, Active
<1>3. \A d : CallOK(d) <=> CallOK(d)'
  BY DEF CallOK, AddOK, RemoveOK, Changed, HasCard, OwnRow, DefaultOf, Active, Removals
<1>4. \A p \in Requests : CallOK(call[p])'
  BY <1>1, <1>3 DEF WalletInv
<1> QED
  BY <1>2, <1>4 DEF WalletInv

\* A request that has made no call.
LEMMA NoCallFacts ==
  /\ NoCall \in CallRecord /\ NoCall.kind = "none" /\ NoCall.step = "done" /\ NoCall.answer = "none"
  /\ NoCall.rows = 0 /\ NoCall.removals = 0 /\ NoCall.seen = 0 /\ NoCall.holds = 0
  /\ ~NoCall.open /\ ~NoCall.took
BY DEF NoCall, CallRecord, AnyClient, AnyCard

\* A call begins.
LEMMA BeginsKeeps ==
  ASSUME WalletInv, NEW q \in Requests, NEW kind \in {"add", "remove"}, NEW k \in AnyClient, NEW card \in AnyCard,
         NEW setDefault \in BOOLEAN, NEW id \in Nat, NEW stage \in {"attach", "customer", "count", "remove"},
         Begins(q, kind, k, card, setDefault, id, stage), UNCHANGED <<methods, owing>>,
         kind = "add" <=> stage \in {"attach", "customer"},
         kind = "remove" => id \in DOMAIN methods /\ methods[id].client = k,
         stage = "remove" => ~methods[id].isDefault
  PROVE  WalletInv'
<1>1. Len(methods) \in Nat /\ Removals \in Nat
  BY TableFacts DEF WalletInv
<1>2. PICK c : c = [NoCall EXCEPT !.step = stage, !.kind = kind, !.client = k, !.card = card, !.setDefault = setDefault,
                                  !.id = id, !.rows = Len(methods), !.removals = Removals]
  OBVIOUS
<1>3. /\ c \in CallRecord /\ c.step = stage /\ c.kind = kind /\ c.client = k /\ c.id = id
      /\ c.rows = Len(methods) /\ c.removals = Removals /\ c.holds = 0 /\ c.answer = "none" /\ ~c.took
  BY <1>1, <1>2, NoCallFacts DEF CallRecord
<1>4. CallOK(c)
  BY <1>1, <1>3 DEF CallOK, AddOK, RemoveOK, OwnRow
<1>5. call' = [call EXCEPT ![q] = c]
  BY <1>2 DEF Begins
<1> QED
  BY <1>3, <1>4, <1>5, CallMoves

LEMMA GetCustomerKeeps ==
  ASSUME WalletInv, NEW q \in Requests, NEW k \in WalletClients, NEW card \in Cards, NEW setDefault \in BOOLEAN,
         GetCustomer(q, k, card, setDefault)
  PROVE  WalletInv'
<1>1. PICK stage \in {"attach", "customer"} : Begins(q, "add", k, card, setDefault, 0, stage)
  BY DEF GetCustomer
<1> QED
  BY <1>1, BeginsKeeps DEF GetCustomer, AnyClient, AnyCard

LEMMA GetMethodKeeps ==
  ASSUME WalletInv, NEW q \in Requests, NEW k \in WalletClients, NEW r \in DOMAIN methods, GetMethod(q, k, r)
  PROVE  WalletInv'
<1>1. PICK stage \in {"count", "remove"} : /\ Begins(q, "remove", k, methods[r].card, FALSE, r, stage)
                                           /\ stage = "remove" => ~methods[r].isDefault
  BY DEF GetMethod
<1>2. methods[r].card \in AnyCard /\ r \in Nat /\ k \in AnyClient
  BY TableFacts DEF WalletInv, Row, AnyClient
<1>3. methods[r].client = k /\ UNCHANGED <<methods, owing>>
  BY DEF GetMethod
<1>4. PICK b \in BOOLEAN : b = FALSE
  OBVIOUS
<1>5. Begins(q, "remove", k, methods[r].card, b, r, stage)
  BY <1>1, <1>4
<1> QED
  BY <1>1, <1>2, <1>3, <1>5, BeginsKeeps

LEMMA NotTheOwnerKeeps ==
  ASSUME WalletInv, NEW q \in Requests, NEW k \in Strangers, NEW r \in DOMAIN methods, NotTheOwner(q, k, r)
  PROVE  WalletInv'
<1>1. r \in Nat /\ k \in AnyClient /\ Len(methods) \in Nat /\ Removals \in Nat
  BY TableFacts DEF WalletInv, AnyClient
<1>2. PICK c : c = [NoCall EXCEPT !.kind = "remove", !.client = k, !.id = r, !.answer = "Forbidden"]
  OBVIOUS
<1>3. /\ c \in CallRecord /\ c.step = "done" /\ c.kind = "remove" /\ c.answer = "Forbidden"
      /\ c.rows = 0 /\ c.removals = 0 /\ c.holds = 0 /\ ~c.took
  BY <1>1, <1>2, NoCallFacts DEF CallRecord
<1>4. CallOK(c)
  BY <1>1, <1>3 DEF CallOK, RemoveOK
<1>5. call' = [call EXCEPT ![q] = c] /\ UNCHANGED <<methods, owing>>
  BY <1>2 DEF NotTheOwner
<1> QED
  BY <1>3, <1>4, <1>5, CallMoves

\* What is known of a call in progress.
LEMMA CallFacts ==
  ASSUME WalletInv, NEW q \in Requests
  PROVE  /\ call[q] \in CallRecord /\ CallOK(call[q])
         /\ Len(methods) \in Nat /\ Removals \in Nat
         /\ DefaultOf(call[q].client) \in Nat
         /\ DefaultOf(call[q].client) # 0 => /\ DefaultOf(call[q].client) \in DOMAIN methods
                                             /\ methods[DefaultOf(call[q].client)].client = call[q].client
<1>1. call[q] \in CallRecord /\ CallOK(call[q]) /\ WalletType /\ OneDefault
  BY DEF WalletInv, WalletType
<1> QED
  BY <1>1, TableFacts, DefaultFacts DEF DefaultRows

\* The steps of an add before it writes.
LEMMA MovesKeeps ==
  ASSUME WalletInv, NEW q \in Requests, CreateCustomer(q) \/ AttachPaymentMethod(q)
  PROVE  WalletInv'
<1>1. PICK stage \in {"attach", "clear", "insert"} :
        /\ call' = [call EXCEPT ![q].step = stage]
        /\ stage = "clear" => call[q].setDefault
        /\ stage = "insert" => ~call[q].setDefault
  BY DEF CreateCustomer, AttachPaymentMethod, Moves
<1>2. call[q].step \in {"customer", "attach"} /\ UNCHANGED <<methods, owing>>
  BY DEF CreateCustomer, AttachPaymentMethod, At
<1>3. PICK c : c = [call[q] EXCEPT !.step = stage]
  OBVIOUS
<1>4. call[q] \in CallRecord
  BY CallFacts
<1>5. /\ c \in CallRecord /\ c.step = stage /\ c.kind = call[q].kind /\ c.answer = call[q].answer
      /\ c.rows = call[q].rows /\ c.removals = call[q].removals /\ c.holds = call[q].holds
      /\ c.took = call[q].took /\ c.open = call[q].open /\ c.setDefault = call[q].setDefault
  BY <1>3, <1>4 DEF CallRecord
<1>6. CallOK(c)
  BY <1>1, <1>2, <1>5, CallFacts DEF CallOK, AddOK
<1>7. call' = [call EXCEPT ![q] = c]
  BY <1>1, <1>3
<1> QED
  BY <1>2, <1>5, <1>6, <1>7, CallMoves

\* An answer without a row.
LEMMA VaultFailsKeeps ==
  ASSUME WalletInv, NEW q \in Requests, VaultFails(q) PROVE WalletInv'
<1>1. call[q].step \in {"customer", "attach"} /\ UNCHANGED <<methods, owing>> /\ Answers(q, "provider error", 0)
  BY DEF VaultFails
<1>2. PICK c : c = [call[q] EXCEPT !.step = "done", !.answer = "provider error", !.id = 0, !.seen = 0, !.holds = 0]
  OBVIOUS
<1>3. call[q] \in CallRecord
  BY CallFacts
<1>4. /\ c \in CallRecord /\ c.step = "done" /\ c.kind = call[q].kind /\ c.answer = "provider error"
      /\ c.rows = call[q].rows /\ c.removals = call[q].removals /\ c.holds = 0
      /\ c.took = call[q].took /\ c.open = call[q].open
  BY <1>2, <1>3 DEF CallRecord
<1>5. CallOK(c)
  BY <1>1, <1>4, CallFacts DEF CallOK, AddOK
<1>6. call' = [call EXCEPT ![q] = c]
  BY <1>1, <1>2, <1>3 DEF Answers, WalletInv, WalletType, CallRecord
<1> QED
  BY <1>1, <1>4, <1>5, <1>6, CallMoves

LEMMA ClearReadsKeeps ==
  ASSUME WalletInv, NEW q \in Requests, ClearDefaultReads(q) PROVE WalletInv'
<1>1. /\ call[q].step = "clear" /\ UNCHANGED <<methods, owing>>
      /\ call' = [call EXCEPT ![q].step = "lock", ![q].seen = DefaultOf(call[q].client)]
  BY DEF ClearDefaultReads, At
<1>2. PICK c : c = [call[q] EXCEPT !.step = "lock", !.seen = DefaultOf(call[q].client)]
  OBVIOUS
<1>3. call[q] \in CallRecord /\ DefaultOf(call[q].client) \in Nat
  BY CallFacts
<1>4. /\ c \in CallRecord /\ c.step = "lock" /\ c.kind = call[q].kind /\ c.answer = call[q].answer
      /\ c.rows = call[q].rows /\ c.removals = call[q].removals /\ c.holds = call[q].holds
      /\ c.took = call[q].took /\ c.open = call[q].open /\ c.setDefault = call[q].setDefault
      /\ c.client = call[q].client /\ c.seen = DefaultOf(call[q].client)
  BY <1>2, <1>3 DEF CallRecord
<1>5. CallOK(c)
  BY <1>1, <1>4, CallFacts DEF CallOK, AddOK
<1>6. call' = [call EXCEPT ![q] = c]
  BY <1>1, <1>2, <1>3 DEF WalletInv, WalletType, CallRecord
<1> QED
  BY <1>1, <1>4, <1>5, <1>6, CallMoves

\* The UPDATE finds its row still the default, or the table has changed.
LEMMA ClearKeeps ==
  ASSUME WalletInv, NEW q \in Requests, ClearDefault(q) PROVE WalletInv'
<1>1. call[q] \in CallRecord /\ CallOK(call[q])
  BY CallFacts
<1>2. PICK h : h = IF call[q].seen # 0 /\ call[q].seen = DefaultOf(call[q].client) THEN call[q].seen ELSE 0
  OBVIOUS
<1>3. call[q].step = "lock" /\ call[q].holds = 0 /\ UNCHANGED <<methods, owing>>
  BY <1>1 DEF ClearDefault, At, CallOK
<1>4. PICK c : c = [call[q] EXCEPT !.step = "insert", !.holds = h]
  OBVIOUS
<1>5. call' = [call EXCEPT ![q] = c]
  BY <1>1, <1>2, <1>3, <1>4 DEF ClearDefault, WalletInv, WalletType, CallRecord
<1>6. h \in Nat /\ (h # 0 => h \in DOMAIN methods /\ methods[h].client = call[q].client)
  BY <1>1, <1>2, CallFacts
<1>7. /\ c \in CallRecord /\ c.step = "insert" /\ c.kind = call[q].kind /\ c.answer = call[q].answer
      /\ c.rows = call[q].rows /\ c.removals = call[q].removals /\ c.holds = h
      /\ c.took = call[q].took /\ c.open = call[q].open /\ c.setDefault = call[q].setDefault
      /\ c.client = call[q].client
  BY <1>1, <1>4, <1>6 DEF CallRecord
<1>8. call[q].kind = "add" /\ call[q].setDefault /\ (call[q].seen = DefaultOf(call[q].client) \/ Changed(call[q]))
  BY <1>1, <1>3 DEF CallOK, AddOK, CallRecord
<1>9. h = DefaultOf(call[q].client) \/ Changed(c)
  BY <1>2, <1>7, <1>8 DEF Changed
<1>10. CallOK(c)
  BY <1>1, <1>3, <1>6, <1>7, <1>8, <1>9 DEF CallOK, AddOK
<1> QED
  BY <1>3, <1>5, <1>7, <1>10, CallMoves

\* An index refuses the row: for a card that is there, or because the table has changed.
LEMMA RefusedKeeps ==
  ASSUME WalletInv, NEW q \in Requests, InsertRefused(q) PROVE WalletInv'
<1>1. call[q] \in CallRecord /\ CallOK(call[q])
  BY CallFacts
<1>2. /\ call[q].step = "insert" /\ UNCHANGED <<methods, owing>>
      /\ call' = [call EXCEPT ![q].step = "reread", ![q].holds = 0, ![q].seen = 0]
      /\ DedupeViolated(q) \/ OneDefaultViolated(q)
  BY DEF InsertRefused, At
<1>3. PICK c : c = [call[q] EXCEPT !.step = "reread", !.holds = 0, !.seen = 0]
  OBVIOUS
<1>4. call' = [call EXCEPT ![q] = c]
  BY <1>1, <1>2, <1>3 DEF WalletInv, WalletType, CallRecord
<1>5. /\ c \in CallRecord /\ c.step = "reread" /\ c.kind = call[q].kind /\ c.answer = call[q].answer
      /\ c.rows = call[q].rows /\ c.removals = call[q].removals /\ c.holds = 0
      /\ c.took = call[q].took /\ c.open = call[q].open
      /\ c.client = call[q].client /\ c.card = call[q].card
  BY <1>1, <1>3 DEF CallRecord
<1>6. call[q].kind = "add"
  BY <1>1, <1>2 DEF CallOK, CallRecord
<1>7. HasCard(c) \/ Changed(c)
  BY <1>1, <1>2, <1>5, <1>6 DEF DedupeViolated, OneDefaultViolated, CallOK, AddOK, HasCard, Changed
<1>8. CallOK(c)
  BY <1>1, <1>2, <1>5, <1>6, <1>7 DEF CallOK, AddOK
<1> QED
  BY <1>2, <1>4, <1>5, <1>8, CallMoves

LEMMA RereadKeeps ==
  ASSUME WalletInv, NEW q \in Requests, GetActiveByProviderID(q) PROVE WalletInv'
<1>1. call[q] \in CallRecord /\ CallOK(call[q]) /\ Len(methods) \in Nat /\ DOMAIN methods = 1..Len(methods)
  BY CallFacts, TableFacts DEF WalletInv
<1>2. call[q].step = "reread" /\ UNCHANGED <<methods, owing>>
  BY DEF GetActiveByProviderID, At
<1>3. call[q].kind = "add" /\ (HasCard(call[q]) \/ Changed(call[q]))
  BY <1>1, <1>2 DEF CallOK, AddOK, CallRecord
<1>4. PICK answer \in {"ok", "NotFound"}, id \in Nat :
        /\ Answers(q, answer, id)
        /\ answer = "ok" => id \in DOMAIN methods /\ methods[id].client = call[q].client /\ methods[id].card = call[q].card
        /\ answer = "NotFound" => ~HasCard(call[q])
  <2> DEFINE rows == {r \in DOMAIN methods : Active(r) /\ methods[r].client = call[q].client /\ methods[r].card = call[q].card}
  <2>1. CASE rows = {}
    BY <2>1 DEF GetActiveByProviderID, HasCard
  <2>2. CASE rows # {}
    <3>1. (CHOOSE r \in rows : TRUE) \in rows
      BY <2>2
    <3>2. Answers(q, "ok", CHOOSE r \in rows : TRUE)
      BY <2>2 DEF GetActiveByProviderID
    <3> QED
      BY <1>1, <3>1, <3>2
  <2> QED
    BY <2>1, <2>2
<1>5. PICK c : c = [call[q] EXCEPT !.step = "done", !.answer = answer, !.id = id, !.seen = 0, !.holds = 0]
  OBVIOUS
<1>6. call' = [call EXCEPT ![q] = c]
  BY <1>1, <1>4, <1>5 DEF Answers, WalletInv, WalletType, CallRecord
<1>7. /\ c \in CallRecord /\ c.step = "done" /\ c.kind = call[q].kind /\ c.answer = answer /\ c.id = id
      /\ c.rows = call[q].rows /\ c.removals = call[q].removals /\ c.holds = 0
      /\ c.took = call[q].took /\ c.open = call[q].open
      /\ c.client = call[q].client /\ c.card = call[q].card
  BY <1>1, <1>5 DEF CallRecord
<1>8. CallOK(c)
  BY <1>1, <1>2, <1>3, <1>4, <1>7 DEF CallOK, AddOK, OwnRow, Changed
<1> QED
  BY <1>2, <1>6, <1>7, <1>8, CallMoves

LEMMA CountKeeps ==
  ASSUME WalletInv, NEW q \in Requests, CountOpen(q) PROVE WalletInv'
<1>1. call[q] \in CallRecord /\ CallOK(call[q])
  BY CallFacts
<1>2. call[q].step = "count" /\ UNCHANGED <<methods, owing>>
  BY DEF CountOpen, At
<1>3. call[q].kind = "remove" /\ OwnRow(call[q])
  BY <1>1, <1>2 DEF CallOK, RemoveOK, CallRecord
<1>4. CASE call[q].client \in owing
  <2>1. PICK c : c = [call[q] EXCEPT !.step = "done", !.answer = "Conflict", !.id = call[q].id, !.seen = 0, !.holds = 0]
    OBVIOUS
  <2>2. call' = [call EXCEPT ![q] = c]
    BY <1>1, <1>4, <2>1 DEF CountOpen, Answers, WalletInv, WalletType, CallRecord
  <2>3. /\ c \in CallRecord /\ c.step = "done" /\ c.kind = call[q].kind /\ c.answer = "Conflict" /\ c.id = call[q].id
        /\ c.rows = call[q].rows /\ c.removals = call[q].removals /\ c.holds = 0
        /\ c.took = call[q].took /\ c.open = call[q].open /\ c.client = call[q].client
    BY <1>1, <2>1 DEF CallRecord
  <2>4. CallOK(c)
    BY <1>1, <1>3, <2>3 DEF CallOK, RemoveOK, OwnRow
  <2> QED
    BY <1>2, <2>2, <2>3, <2>4, CallMoves
<1>5. CASE call[q].client \notin owing
  <2>1. PICK c : c = [call[q] EXCEPT !.step = "remove"]
    OBVIOUS
  <2>2. call' = [call EXCEPT ![q] = c]
    BY <1>5, <2>1 DEF CountOpen, Moves
  <2>3. /\ c \in CallRecord /\ c.step = "remove" /\ c.kind = call[q].kind /\ c.answer = call[q].answer /\ c.id = call[q].id
        /\ c.rows = call[q].rows /\ c.removals = call[q].removals /\ c.holds = call[q].holds
        /\ c.took = call[q].took /\ c.open = call[q].open /\ c.client = call[q].client
    BY <1>1, <2>1 DEF CallRecord
  <2>4. CallOK(c)
    BY <1>1, <1>2, <1>3, <1>5, <2>3 DEF CallOK, RemoveOK, OwnRow
  <2> QED
    BY <1>2, <2>2, <2>3, <2>4, CallMoves
<1> QED
  BY <1>4, <1>5

\* Every step that writes the table keeps the rows' clients and cards, makes no row a default
\* again, and is seen as a change by the calls that run beside it, unless nothing they rely on
\* has moved.
LEMMA OtherCallsKept ==
  ASSUME WalletType, WalletType', owing' = owing, NEW c \in CallRecord, CallOK(c),
         Len(methods) <= Len(methods'), Removals <= Removals',
         \A r \in DOMAIN methods : /\ methods'[r].client = methods[r].client
                                   /\ methods'[r].card = methods[r].card
                                   /\ methods'[r].isDefault => methods[r].isDefault,
         \/ Len(methods) < Len(methods')
         \/ Removals < Removals'
         \/ /\ \A k : DefaultOf(k)' = DefaultOf(k)
            /\ \A r \in DOMAIN methods : Active(r) <=> Active(r)'
  PROVE  CallOK(c)'
<1>1. /\ Len(methods) \in Nat /\ DOMAIN methods = 1..Len(methods) /\ Removals \in Nat
      /\ Len(methods') \in Nat /\ DOMAIN methods' = 1..Len(methods') /\ Removals' \in Nat
  BY TableFacts, FactsNext
<1>2. DOMAIN methods \subseteq DOMAIN methods'
  BY <1>1
<1>3. c.rows <= Len(methods) /\ c.removals <= Removals /\ c.rows \in Nat /\ c.removals \in Nat
  BY DEF CallOK, CallRecord
<1>4. Changed(c) => Changed(c)'
  BY <1>1, <1>3 DEF Changed
<1>5. Len(methods) < Len(methods') \/ Removals < Removals' => Changed(c)'
  BY <1>1, <1>3 DEF Changed
<1>6. OwnRow(c) => OwnRow(c)' /\ methods'[c.id].card = methods[c.id].card
                   /\ (methods'[c.id].isDefault => methods[c.id].isDefault)
  BY <1>2 DEF OwnRow
<1>7. c.seen = DefaultOf(c.client) \/ Changed(c) => c.seen = DefaultOf(c.client)' \/ Changed(c)'
  BY <1>4, <1>5
<1>8. c.holds = DefaultOf(c.client) \/ Changed(c) => c.holds = DefaultOf(c.client)' \/ Changed(c)'
  BY <1>4, <1>5
<1>9. HasCard(c) \/ Changed(c) => HasCard(c)' \/ Changed(c)'
  <2>1. SUFFICES ASSUME HasCard(c), ~Changed(c)' PROVE HasCard(c)'
    BY <1>4
  <2>2. PICK r \in DOMAIN methods : Active(r) /\ methods[r].client = c.client /\ methods[r].card = c.card
    BY <2>1 DEF HasCard
  <2>3. Active(r)' /\ r \in DOMAIN methods'
    BY <1>2, <1>5, <2>1, <2>2
  <2> QED
    BY <2>2, <2>3 DEF HasCard
<1>10. AddOK(c) => AddOK(c)'
  BY <1>4, <1>6, <1>7, <1>8, <1>9 DEF AddOK
<1>11. c.kind = "remove" /\ c.step \in {"count", "remove", "done"} /\ RemoveOK(c)
         /\ (c.step # "done" => c.answer = "none") => RemoveOK(c)'
  BY <1>6 DEF RemoveOK
<1>12. c.rows <= Len(methods') /\ c.removals <= Removals'
  BY <1>1, <1>3
<1>13. c.holds # 0 => c.holds \in DOMAIN methods' /\ methods'[c.holds].client = c.client
  BY <1>2 DEF CallOK
<1> QED
  BY <1>10, <1>11, <1>12, <1>13 DEF CallOK

\* The row appears together with the loss of the default it replaces.
LEMMA InsertEffect ==
  ASSUME WalletInv, NEW q \in Requests, InsertMethod(q)
  PROVE  /\ methods' \in Seq(Row) /\ Len(methods') = Len(methods) + 1
         /\ DOMAIN methods' = DOMAIN methods \cup {Len(methods) + 1}
         /\ \A r \in DOMAIN methods :
              /\ methods'[r].client = methods[r].client /\ methods'[r].card = methods[r].card
              /\ methods'[r].status = methods[r].status
              /\ methods'[r].wasDefault <=> methods[r].wasDefault
              /\ methods'[r].lost <=> methods[r].lost
              /\ methods'[r].isDefault <=> methods[r].isDefault /\ r # call[q].holds
         /\ methods'[Len(methods) + 1].client = call[q].client
         /\ methods'[Len(methods) + 1].card = call[q].card
         /\ methods'[Len(methods) + 1].status = "active"
         /\ methods'[Len(methods) + 1].isDefault <=> call[q].setDefault
         /\ methods'[Len(methods) + 1].wasDefault <=> call[q].setDefault
         /\ Removals' = Removals
<1>1. Len(methods) \in Nat /\ DOMAIN methods = 1..Len(methods) /\ \A r \in DOMAIN methods : methods[r] \in Row
  BY TableFacts DEF WalletInv
<1>2. call[q] \in CallRecord
  BY CallFacts
<1>3. PICK old : old = [r \in DOMAIN methods |->
                          IF r = call[q].holds THEN [methods[r] EXCEPT !.isDefault = FALSE] ELSE methods[r]]
  OBVIOUS
<1>4. PICK new : new = [client |-> call[q].client, card |-> call[q].card,
                        isDefault |-> call[q].setDefault, status |-> "active",
                        wasDefault |-> call[q].setDefault, lost |-> FALSE]
  OBVIOUS
<1>5. methods' = Append(old, new)
  BY <1>3, <1>4 DEF InsertMethod
<1>6. /\ new \in Row /\ new.client = call[q].client /\ new.card = call[q].card /\ new.status = "active"
      /\ new.isDefault = call[q].setDefault /\ new.wasDefault = call[q].setDefault
  BY <1>2, <1>4 DEF CallRecord, Row
<1>7. ASSUME NEW r \in DOMAIN methods
      PROVE  /\ old[r] \in Row
             /\ old[r].client = methods[r].client /\ old[r].card = methods[r].card
             /\ old[r].status = methods[r].status
             /\ old[r].wasDefault = methods[r].wasDefault
             /\ old[r].lost = methods[r].lost
             /\ old[r].isDefault <=> methods[r].isDefault /\ r # call[q].holds
  <2>1. methods[r] \in Row
    BY <1>1
  <2>2. CASE r = call[q].holds
    <3>1. old[r] = [methods[r] EXCEPT !.isDefault = FALSE]
      BY <1>3, <2>2
    <3> QED
      BY <2>1, <2>2, <3>1 DEF Row
  <2>3. CASE r # call[q].holds
    BY <1>3, <2>1, <2>3
  <2> QED
    BY <2>2, <2>3
<1>8. old \in [1..Len(methods) -> Row]
  BY <1>1, <1>3, <1>7
<1>9. old \in Seq(Row) /\ Len(old) = Len(methods)
  BY <1>1, <1>8
<1>10. /\ methods' \in Seq(Row) /\ Len(methods') = Len(methods) + 1
       /\ \A r \in 1..Len(methods) : methods'[r] = old[r]
       /\ methods'[Len(methods) + 1] = new
  BY <1>1, <1>5, <1>6, <1>9
<1>11. DOMAIN methods' = DOMAIN methods \cup {Len(methods) + 1}
  BY <1>1, <1>10
<1>12. Removals' = Removals
  <2>1. {r \in DOMAIN methods' : ~Active(r)'} = {r \in DOMAIN methods : ~Active(r)}
    BY <1>1, <1>6, <1>7, <1>10, <1>11 DEF Active
  <2> QED
    BY <2>1 DEF Removals, Active
<1> QED
  BY <1>1, <1>6, <1>7, <1>10, <1>11, <1>12

\* DefaultKept, client by client.
KeptFor(k) ==
  (\E r \in DOMAIN methods : methods[r].client = k /\ methods[r].wasDefault) =>
    DefaultOf(k) # 0 \/ \E s \in DOMAIN methods : methods[s].client = k /\ methods[s].lost

LEMMA KeptByClient == (\A k : KeptFor(k)) <=> DefaultKept
<1>1. ASSUME \A k : KeptFor(k) PROVE DefaultKept
  BY <1>1 DEF KeptFor, DefaultKept
<1>2. ASSUME DefaultKept PROVE \A k : KeptFor(k)
  BY <1>2 DEF KeptFor, DefaultKept
<1> QED
  BY <1>1, <1>2

LEMMA KeptByClientNext == (\A k : KeptFor(k)') => DefaultKept'
<1>1. ((\A k : KeptFor(k)) => DefaultKept)'
  BY KeptByClient, PTL
<1> QED
  BY <1>1

LEMMA InsertKeeps ==
  ASSUME WalletInv, NEW q \in Requests, InsertMethod(q) PROVE WalletInv'
<1>0. PICK n \in Nat : n = Len(methods) + 1
  BY TableFacts DEF WalletInv
<1>1. /\ Len(methods) \in Nat /\ DOMAIN methods = 1..Len(methods) /\ Removals \in Nat
      /\ \A r \in DOMAIN methods : methods[r] \in Row
      /\ WalletType /\ OneDefault
  BY TableFacts DEF WalletInv
<1>2. call[q] \in CallRecord /\ CallOK(call[q])
  BY CallFacts
<1>3. call[q].step = "insert" /\ owing' = owing /\ Answers(q, "ok", n)
  BY <1>0 DEF InsertMethod, At
<1>4. call[q].kind = "add"
  BY <1>2, <1>3 DEF CallOK, CallRecord
<1>5. PICK c : c = [call[q] EXCEPT !.step = "done", !.answer = "ok", !.id = n, !.seen = 0, !.holds = 0]
  OBVIOUS
<1>6. call' = [call EXCEPT ![q] = c]
  BY <1>2, <1>3, <1>5 DEF Answers, WalletInv, WalletType, CallRecord
<1>7. /\ c \in CallRecord /\ c.step = "done" /\ c.kind = "add" /\ c.answer = "ok" /\ c.id = n
      /\ c.rows = call[q].rows /\ c.removals = call[q].removals /\ c.holds = 0
      /\ c.took = call[q].took /\ c.open = call[q].open
      /\ c.client = call[q].client /\ c.card = call[q].card
  BY <1>0, <1>2, <1>4, <1>5 DEF CallRecord
<1>8. /\ call' \in [Requests -> CallRecord] /\ methods' \in Seq(Row)
      /\ \A p \in Requests : call'[p] = IF p = q THEN c ELSE call[p]
  BY <1>6, <1>7, InsertEffect DEF WalletInv, WalletType
<1>9. WalletType'
  BY <1>8 DEF WalletType
<1>10. \A d \in DefaultRows(call[q].client) : call[q].setDefault => d = call[q].holds
  <2>1. \A d \in DefaultRows(call[q].client) : DefaultOf(call[q].client) = d /\ d # 0
    BY <1>1, DefaultFacts
  <2>2. call[q].setDefault => DefaultOf(call[q].client) \in {0, call[q].holds}
    BY DEF InsertMethod, OneDefaultViolated
  <2> QED
    BY <2>1, <2>2
<1>11. OneDefault'
  <2>1. ASSUME NEW r \in DOMAIN methods, Active(r), methods[r].client = call[q].client
        PROVE  /\ methods[r].card # call[q].card
               /\ call[q].setDefault /\ methods[r].isDefault => r = call[q].holds
    <3>1. methods[r].card # call[q].card
      BY <2>1 DEF InsertMethod, DedupeViolated
    <3>2. methods[r].isDefault => r \in DefaultRows(call[q].client)
      BY <2>1 DEF DefaultRows
    <3> QED
      BY <1>10, <3>1, <3>2
  <2>2. \A r \in DOMAIN methods : Active(r)' <=> Active(r)
    BY InsertEffect DEF Active
  <2>3. ASSUME NEW r \in DOMAIN methods', NEW s \in DOMAIN methods', r # s, Active(r)', Active(s)',
               methods'[r].client = methods'[s].client
        PROVE  methods'[r].card # methods'[s].card /\ ~(methods'[r].isDefault /\ methods'[s].isDefault)
    <3>1. CASE r \in DOMAIN methods /\ s \in DOMAIN methods
      <4>1. Active(r) /\ Active(s) /\ methods[r].client = methods[s].client
        BY <2>2, <2>3, <3>1, InsertEffect
      <4>2. methods[r].card # methods[s].card /\ ~(methods[r].isDefault /\ methods[s].isDefault)
        BY <1>1, <2>3, <3>1, <4>1 DEF OneDefault
      <4> QED
        BY <3>1, <4>2, InsertEffect
    <3>2. CASE r \in DOMAIN methods /\ s \notin DOMAIN methods
      <4>1. s = Len(methods) + 1
        BY <3>2, InsertEffect
      <4>2. Active(r) /\ methods[r].client = call[q].client
        BY <2>2, <2>3, <3>2, <4>1, InsertEffect
      <4> QED
        BY <2>1, <3>2, <4>1, <4>2, InsertEffect
    <3>3. CASE s \in DOMAIN methods /\ r \notin DOMAIN methods
      <4>1. r = Len(methods) + 1
        BY <3>3, InsertEffect
      <4>2. Active(s) /\ methods[s].client = call[q].client
        BY <2>2, <2>3, <3>3, <4>1, InsertEffect
      <4> QED
        BY <2>1, <3>3, <4>1, <4>2, InsertEffect
    <3> QED
      BY <2>3, <3>1, <3>2, <3>3, InsertEffect
  <2> QED
    BY <2>3 DEF OneDefault
<1>12. \A k : DefaultOf(k) # 0 => DefaultOf(k)' # 0
  <2>1. SUFFICES ASSUME NEW k, DefaultOf(k) # 0 PROVE DefaultRows(k)' # {}
    BY <1>9, <1>11, FactsNext
  <2>2. PICK d : d = DefaultOf(k)
    OBVIOUS
  <2>3. d \in DefaultRows(k)
    BY <1>1, <2>1, <2>2, DefaultFacts
  <2>4. d \in DOMAIN methods /\ methods[d].client = k /\ methods[d].isDefault /\ Active(d)
    BY <2>3 DEF DefaultRows
  <2>5. CASE d = call[q].holds
    <3>1. d # 0
      BY <2>1, <2>2
    <3>2. call[q].setDefault /\ methods[d].client = call[q].client
      BY <1>2, <2>5, <3>1 DEF CallOK
    <3>3. n \in DefaultRows(k)'
      BY <1>0, <2>4, <3>2, InsertEffect DEF DefaultRows, Active
    <3> QED
      BY <3>3
  <2>6. CASE d # call[q].holds
    <3>1. d \in DefaultRows(k)'
      BY <2>4, <2>6, InsertEffect DEF DefaultRows, Active
    <3> QED
      BY <3>1
  <2> QED
    BY <2>5, <2>6
<1>13. DefaultKept'
  <2>1. SUFFICES ASSUME NEW k, NEW r \in DOMAIN methods', methods'[r].client = k, methods'[r].wasDefault
                 PROVE  DefaultOf(k)' # 0 \/ \E s \in DOMAIN methods' : methods'[s].client = k /\ methods'[s].lost
    BY KeptByClientNext DEF KeptFor
  <2>2. CASE r \in DOMAIN methods
    <3>1. methods[r].wasDefault /\ methods[r].client = k
      BY <2>1, <2>2, InsertEffect
    <3>2. DefaultOf(k) # 0 \/ \E s \in DOMAIN methods : methods[s].client = k /\ methods[s].lost
      BY <2>2, <3>1, KeptByClient DEF WalletInv, KeptFor
    <3> QED
      BY <1>12, <3>2, InsertEffect
  <2>3. CASE r \notin DOMAIN methods
    <3>1. r = n
      BY <1>0, <2>3, InsertEffect
    <3>2. r \in DefaultRows(k)'
      BY <1>0, <2>1, <3>1, InsertEffect DEF DefaultRows, Active
    <3> QED
      BY <1>9, <1>11, <3>2, FactsNext
  <2> QED
    BY <2>2, <2>3
<1>14. ASSUME NEW p \in Requests, p # q PROVE CallOK(call[p])'
  <2>1. PICK d \in CallRecord : d = call[p] /\ CallOK(d) /\ d = call'[p]
    BY <1>8, <1>14, CallFacts
  <2>2. CallOK(d)'
    BY <1>1, <1>3, <1>9, <2>1, InsertEffect, OtherCallsKept
  <2> QED
    BY <2>1, <2>2 DEF CallOK, AddOK, RemoveOK, Changed, HasCard, OwnRow
<1>15. CallOK(call[q])'
  <2>1. c = call'[q]
    BY <1>8
  <2>2. c.rows <= Len(methods') /\ c.removals <= Removals'
    <3>1. c.rows \in Nat /\ c.rows <= Len(methods) /\ c.removals <= Removals
      BY <1>2, <1>7 DEF CallOK, CallRecord
    <3>2. Len(methods') = Len(methods) + 1 /\ Removals' = Removals
      BY InsertEffect
    <3> QED
      BY <1>1, <3>1, <3>2
  <2>3. c.id \in DOMAIN methods' /\ methods'[c.id].client = c.client /\ methods'[c.id].card = c.card
    BY <1>0, <1>7, InsertEffect
  <2>4. c.took => c.open
    BY <1>2, <1>7 DEF CallOK
  <2> QED
    BY <1>7, <2>1, <2>2, <2>3, <2>4 DEF CallOK, AddOK, OwnRow
<1> QED
  BY <1>9, <1>11, <1>13, <1>14, <1>15 DEF WalletInv

\* A removal takes the row out of both indexes.
LEMMA RemovedEffect ==
  ASSUME WalletInv, NEW q \in Requests, MarkRemoved(q)
  PROVE  /\ methods' \in Seq(Row) /\ Len(methods') = Len(methods) /\ DOMAIN methods' = DOMAIN methods
         /\ call[q].id \in DOMAIN methods
         /\ \A r \in DOMAIN methods :
              /\ methods'[r].client = methods[r].client /\ methods'[r].card = methods[r].card
              /\ methods'[r].wasDefault <=> methods[r].wasDefault
              /\ methods[r].lost => methods'[r].lost
              /\ r # call[q].id => /\ methods'[r].status = methods[r].status
                                   /\ methods'[r].isDefault <=> methods[r].isDefault
         /\ methods'[call[q].id].status = "removed" /\ ~methods'[call[q].id].isDefault
         /\ Active(call[q].id) /\ methods[call[q].id].isDefault => methods'[call[q].id].lost
         /\ Removals' = IF Active(call[q].id) THEN Removals + 1 ELSE Removals
<1>1. /\ Len(methods) \in Nat /\ DOMAIN methods = 1..Len(methods) /\ \A r \in DOMAIN methods : methods[r] \in Row
      /\ IsFiniteSet({r \in DOMAIN methods : ~Active(r)})
  BY TableFacts DEF WalletInv
<1>2. call[q] \in CallRecord /\ CallOK(call[q]) /\ call[q].step = "remove"
  BY CallFacts DEF MarkRemoved, At
<1>3. PICK id : id = call[q].id
  OBVIOUS
<1>4. id \in DOMAIN methods
  BY <1>2, <1>3 DEF CallOK, RemoveOK, OwnRow, CallRecord
<1>5. PICK lost \in BOOLEAN : lost <=> methods[id].lost \/ (Active(id) /\ methods[id].isDefault)
  OBVIOUS
<1>6. PICK row : row = [methods[id] EXCEPT !.status = "removed", !.isDefault = FALSE,
                                           !.lost = methods[id].lost \/ (Active(id) /\ methods[id].isDefault)]
  OBVIOUS
<1>7. methods[id] \in Row
  BY <1>1, <1>4
<1>8. methods' = [methods EXCEPT ![id] = row]
  <2>1. methods' = [methods EXCEPT ![id].status = "removed", ![id].isDefault = FALSE,
                                   ![id].lost = methods[id].lost \/ (Active(id) /\ methods[id].isDefault)]
    BY <1>1, <1>3, <1>4, <1>7 DEF MarkRemoved, Row
  <2> QED
    BY <1>1, <1>4, <1>6, <1>7, <2>1 DEF Row
<1>9. /\ row \in Row /\ row.status = "removed" /\ ~row.isDefault /\ row.client = methods[id].client
      /\ row.card = methods[id].card /\ row.wasDefault = methods[id].wasDefault
      /\ row.lost <=> methods[id].lost \/ (Active(id) /\ methods[id].isDefault)
  BY <1>6, <1>7 DEF Row
<1>10. methods' \in Seq(Row) /\ Len(methods') = Len(methods) /\ DOMAIN methods' = DOMAIN methods
  BY <1>1, <1>4, <1>8, <1>9 DEF WalletInv, WalletType
<1>11. \A r \in DOMAIN methods : methods'[r] = IF r = id THEN row ELSE methods[r]
  BY <1>4, <1>8
<1>12. Removals' = IF Active(id) THEN Removals + 1 ELSE Removals
  <2> DEFINE gone == {r \in DOMAIN methods : ~Active(r)}
  <2>1. {r \in DOMAIN methods' : ~Active(r)'} = gone \cup {id}
    BY <1>4, <1>9, <1>10, <1>11 DEF Active
  <2>2. id \in gone <=> ~Active(id)
    BY <1>4
  <2>3. Removals' = Cardinality(gone \cup {id}) /\ Removals = Cardinality(gone)
    BY <2>1 DEF Removals, Active
  <2>4. IsFiniteSet(gone)
    BY <1>1
  <2> HIDE DEF gone
  <2>5. Cardinality(gone \cup {id}) = IF id \in gone THEN Cardinality(gone) ELSE Cardinality(gone) + 1
    BY <2>4, FS_AddElement
  <2> QED
    BY <2>2, <2>3, <2>5
<1> QED
  BY <1>3, <1>4, <1>9, <1>10, <1>11, <1>12

LEMMA RemovedKeeps ==
  ASSUME WalletInv, NEW q \in Requests, MarkRemoved(q) PROVE WalletInv'
<1>1. /\ Len(methods) \in Nat /\ Removals \in Nat /\ WalletType /\ OneDefault
      /\ \A r \in DOMAIN methods : methods[r] \in Row
  BY TableFacts DEF WalletInv
<1>2. call[q] \in CallRecord /\ CallOK(call[q]) /\ call[q].step = "remove" /\ owing' = owing
  BY CallFacts DEF MarkRemoved, At
<1>3. call[q].kind = "remove" /\ OwnRow(call[q])
  BY <1>2 DEF CallOK, RemoveOK, CallRecord
<1>4. PICK id : id = call[q].id
  OBVIOUS
<1>5. PICK took \in BOOLEAN : took <=> Active(id) /\ methods[id].isDefault /\ call[q].client \in owing
  OBVIOUS
<1>6. PICK c : c = [call[q] EXCEPT !.step = "done", !.answer = "ok",
                                   !.took = Active(id) /\ methods[id].isDefault /\ call[q].client \in owing]
  OBVIOUS
<1>7. call' = [call EXCEPT ![q] = c]
  BY <1>2, <1>4, <1>6 DEF MarkRemoved, WalletInv, WalletType, CallRecord
<1>8. /\ c \in CallRecord /\ c.step = "done" /\ c.kind = "remove" /\ c.answer = "ok" /\ c.id = id
      /\ c.rows = call[q].rows /\ c.removals = call[q].removals /\ c.holds = call[q].holds
      /\ c.open = call[q].open /\ c.client = call[q].client
      /\ c.took <=> Active(id) /\ methods[id].isDefault /\ call[q].client \in owing
  BY <1>2, <1>3, <1>4, <1>6 DEF CallRecord
<1>9. /\ call' \in [Requests -> CallRecord] /\ methods' \in Seq(Row)
      /\ \A p \in Requests : call'[p] = IF p = q THEN c ELSE call[p]
  BY <1>7, <1>8, RemovedEffect DEF WalletInv, WalletType
<1>10. WalletType'
  BY <1>9 DEF WalletType
<1>11. \A r \in DOMAIN methods : Active(r)' <=> Active(r) /\ r # id
  BY <1>4, RemovedEffect DEF Active
<1>12. OneDefault'
  <2>1. SUFFICES ASSUME NEW r \in DOMAIN methods, NEW s \in DOMAIN methods, r # s, Active(r)', Active(s)',
                        methods'[r].client = methods'[s].client
                 PROVE  /\ methods'[r].card # methods'[s].card
                        /\ ~(methods'[r].isDefault /\ methods'[s].isDefault)
    BY RemovedEffect DEF OneDefault
  <2>2. Active(r) /\ Active(s) /\ r # id /\ s # id /\ methods[r].client = methods[s].client
    BY <1>11, <2>1, RemovedEffect
  <2>3. methods[r].card # methods[s].card /\ ~(methods[r].isDefault /\ methods[s].isDefault)
    BY <1>1, <2>1, <2>2 DEF OneDefault
  <2> QED
    BY <1>4, <2>2, <2>3, RemovedEffect
<1>13. ASSUME NEW k PROVE DefaultRows(k)' = DefaultRows(k) \ {id}
  BY <1>4, <1>11, RemovedEffect DEF DefaultRows
<1>14. DefaultKept'
  <2>1. SUFFICES ASSUME NEW k, NEW r \in DOMAIN methods', methods'[r].client = k, methods'[r].wasDefault
                 PROVE  DefaultOf(k)' # 0 \/ \E s \in DOMAIN methods' : methods'[s].client = k /\ methods'[s].lost
    BY KeptByClientNext DEF KeptFor
  <2>2. r \in DOMAIN methods /\ methods[r].wasDefault /\ methods[r].client = k
    BY <2>1, RemovedEffect
  <2>3. DefaultOf(k) # 0 \/ \E s \in DOMAIN methods : methods[s].client = k /\ methods[s].lost
    BY <2>2, KeptByClient DEF WalletInv, KeptFor
  <2>4. CASE DefaultOf(k) # 0
    <3>1. PICK d : d = DefaultOf(k)
      OBVIOUS
    <3>2. d \in DefaultRows(k)
      BY <1>1, <2>4, <3>1, DefaultFacts
    <3>3. CASE d = id
      <4>1. id \in DOMAIN methods' /\ methods'[id].client = k /\ methods'[id].lost
        BY <1>4, <3>2, <3>3, RemovedEffect DEF DefaultRows
      <4> QED
        BY <4>1
    <3>4. CASE d # id
      <4>1. d \in DefaultRows(k)'
        BY <1>13, <3>2, <3>4
      <4> QED
        BY <1>10, <1>12, <4>1, FactsNext
    <3> QED
      BY <3>3, <3>4
  <2>5. CASE \E s \in DOMAIN methods : methods[s].client = k /\ methods[s].lost
    BY <2>5, RemovedEffect
  <2> QED
    BY <2>3, <2>4, <2>5
<1>15. \/ Removals < Removals'
       \/ /\ \A k : DefaultOf(k)' = DefaultOf(k)
          /\ \A r \in DOMAIN methods : Active(r) <=> Active(r)'
  <2>1. CASE Active(id)
    BY <1>1, <1>4, <2>1, RemovedEffect
  <2>2. CASE ~Active(id)
    <3>1. \A k : DefaultRows(k)' = DefaultRows(k)
      BY <1>13, <2>2 DEF DefaultRows
    <3>2. \A k : DefaultOf(k)' = DefaultOf(k)
      BY <1>1, <1>10, <1>12, <3>1, DefaultFacts, FactsNext
    <3> QED
      BY <1>11, <2>2, <3>2
  <2> QED
    BY <2>1, <2>2
<1>16. Removals <= Removals' /\ Len(methods) <= Len(methods')
  BY <1>1, RemovedEffect
<1>17. \A r \in DOMAIN methods : /\ methods'[r].client = methods[r].client
                                 /\ methods'[r].card = methods[r].card
                                 /\ methods'[r].isDefault => methods[r].isDefault
  BY RemovedEffect
<1>18. ASSUME NEW p \in Requests, p # q PROVE CallOK(call[p])'
  <2>1. PICK d \in CallRecord : d = call[p] /\ CallOK(d) /\ d = call'[p]
    BY <1>9, <1>18, CallFacts
  <2>2. CallOK(d)'
    BY <1>1, <1>2, <1>10, <1>15, <1>16, <1>17, <2>1, OtherCallsKept
  <2> QED
    BY <2>1, <2>2 DEF CallOK, AddOK, RemoveOK, Changed, HasCard, OwnRow
<1>19. CallOK(call[q])'
  <2>1. c = call'[q]
    BY <1>9
  <2>2. c.rows <= Len(methods') /\ c.removals <= Removals'
    <3>1. c.removals \in Nat /\ c.rows <= Len(methods) /\ c.removals <= Removals
      BY <1>2, <1>8 DEF CallOK, CallRecord
    <3>2. Len(methods') = Len(methods) /\ (Removals' = Removals \/ Removals' = Removals + 1)
      BY RemovedEffect
    <3> QED
      BY <1>1, <3>1, <3>2
  <2>3. c.id \in DOMAIN methods' /\ methods'[c.id].client = c.client
    BY <1>3, <1>4, <1>8, RemovedEffect DEF OwnRow
  <2>4. c.took => c.open
    BY <1>2, <1>3, <1>4, <1>8 DEF CallOK, RemoveOK
  <2>5. c.holds = 0
    BY <1>2, <1>8 DEF CallOK
  <2> QED
    BY <1>8, <2>1, <2>2, <2>3, <2>4, <2>5 DEF CallOK, RemoveOK, OwnRow
<1> QED
  BY <1>10, <1>12, <1>14, <1>18, <1>19 DEF WalletInv

\* An invoice of a client becomes open under the calls of that client that are running.
LEMMA OpensKeeps ==
  ASSUME WalletInv, NEW k \in WalletClients, InvoiceOpens(k) PROVE WalletInv'
<1>1. methods' = methods /\ owing' = owing \cup {k}
  BY DEF InvoiceOpens
<1>2. ASSUME NEW q \in Requests
      PROVE  call'[q] \in CallRecord /\ CallOK(call[q])'
  <2>1. call[q] \in CallRecord /\ CallOK(call[q])
    BY CallFacts
  <2>2. PICK c : c = [call[q] EXCEPT !.open = call[q].open \/ (call[q].client = k /\ call[q].step # "done")]
    OBVIOUS
  <2>3. call'[q] = c
    BY <2>1, <2>2 DEF InvoiceOpens, At, CallRecord
  <2>4. /\ c \in CallRecord /\ c.step = call[q].step /\ c.kind = call[q].kind /\ c.answer = call[q].answer
        /\ c.id = call[q].id /\ c.rows = call[q].rows /\ c.removals = call[q].removals
        /\ c.holds = call[q].holds /\ c.seen = call[q].seen /\ c.client = call[q].client
        /\ c.card = call[q].card /\ c.setDefault = call[q].setDefault /\ c.took = call[q].took
        /\ c.open <=> call[q].open \/ (call[q].client = k /\ call[q].step # "done")
    BY <2>1, <2>2 DEF CallRecord
  <2>5. AddOK(call[q]) => AddOK(c)
    BY <2>4 DEF AddOK, OwnRow, Changed, HasCard
  <2>6. AddOK(c) => AddOK(c)'
    BY <1>1 DEF AddOK, OwnRow, Changed, HasCard, Removals, DefaultOf, Active
  <2>7. RemoveOK(call[q]) => RemoveOK(c)'
    BY <1>1, <2>4 DEF RemoveOK, OwnRow
  <2>8. Removals' = Removals
    BY <1>1 DEF Removals, Active
  <2>9. CallOK(c)'
    BY <1>1, <2>1, <2>4, <2>5, <2>6, <2>7, <2>8 DEF CallOK
  <2> QED
    BY <2>3, <2>4, <2>9 DEF CallOK, AddOK, RemoveOK, Changed, HasCard, OwnRow
<1>3. call' \in [Requests -> CallRecord]
  BY <1>2 DEF InvoiceOpens
<1>4. WalletType' /\ OneDefault' /\ DefaultKept'
  BY <1>1, <1>3 DEF WalletInv, WalletType, OneDefault, DefaultKept, DefaultOf, Active
<1> QED
  BY <1>2, <1>4 DEF WalletInv

LEMMA ClosesKeeps ==
  ASSUME WalletInv, NEW k \in WalletClients, InvoiceCloses(k) PROVE WalletInv'
<1>1. methods' = methods /\ call' = call /\ owing' = owing \ {k}
  BY DEF InvoiceCloses
<1>2. WalletType' /\ OneDefault' /\ DefaultKept'
  BY <1>1 DEF WalletInv, WalletType, OneDefault, DefaultKept, DefaultOf, Active
<1>3. \A c : CallOK(c) => CallOK(c)'
  BY <1>1 DEF CallOK, AddOK, RemoveOK, Changed, HasCard, OwnRow, DefaultOf, Active, Removals
<1>4. \A q \in Requests : CallOK(call[q])'
  BY <1>1, <1>3 DEF WalletInv
<1> QED
  BY <1>2, <1>4 DEF WalletInv

LEMMA WalletStep == WalletInv /\ [WalletNext]_walletVars => WalletInv'
<1> SUFFICES ASSUME WalletInv, [WalletNext]_walletVars PROVE WalletInv'
  OBVIOUS
<1>1. ASSUME NEW q \in Requests, NEW k \in WalletClients, NEW card \in Cards, NEW setDefault \in BOOLEAN,
             GetCustomer(q, k, card, setDefault)
      PROVE  WalletInv'
  BY <1>1, GetCustomerKeeps
<1>2. ASSUME NEW q \in Requests, NEW k \in WalletClients, NEW r \in DOMAIN methods, GetMethod(q, k, r)
      PROVE  WalletInv'
  BY <1>2, GetMethodKeeps
<1>3. ASSUME NEW q \in Requests, NEW k \in Strangers, NEW r \in DOMAIN methods, NotTheOwner(q, k, r)
      PROVE  WalletInv'
  BY <1>3, NotTheOwnerKeeps
<1>4. ASSUME NEW q \in Requests, CreateCustomer(q) \/ AttachPaymentMethod(q) PROVE WalletInv'
  BY <1>4, MovesKeeps
<1>5. ASSUME NEW q \in Requests, VaultFails(q) PROVE WalletInv'
  BY <1>5, VaultFailsKeeps
<1>6. ASSUME NEW q \in Requests, ClearDefaultReads(q) PROVE WalletInv'
  BY <1>6, ClearReadsKeeps
<1>7. ASSUME NEW q \in Requests, ClearDefault(q) PROVE WalletInv'
  BY <1>7, ClearKeeps
<1>8. ASSUME NEW q \in Requests, InsertMethod(q) PROVE WalletInv'
  BY <1>8, InsertKeeps
<1>9. ASSUME NEW q \in Requests, InsertRefused(q) PROVE WalletInv'
  BY <1>9, RefusedKeeps
<1>10. ASSUME NEW q \in Requests, GetActiveByProviderID(q) PROVE WalletInv'
  BY <1>10, RereadKeeps
<1>11. ASSUME NEW q \in Requests, CountOpen(q) PROVE WalletInv'
  BY <1>11, CountKeeps
<1>12. ASSUME NEW q \in Requests, MarkRemoved(q) PROVE WalletInv'
  BY <1>12, RemovedKeeps
<1>13. ASSUME NEW k \in WalletClients, InvoiceOpens(k) PROVE WalletInv'
  BY <1>13, OpensKeeps
<1>14. ASSUME NEW k \in WalletClients, InvoiceCloses(k) PROVE WalletInv'
  BY <1>14, ClosesKeeps
<1>15. CASE UNCHANGED walletVars
  <2>1. methods' = methods /\ call' = call /\ owing' = owing
    BY <1>15 DEF walletVars
  <2>2. \A c : CallOK(c) => CallOK(c)'
    BY <2>1 DEF CallOK, AddOK, RemoveOK, Changed, HasCard, OwnRow, DefaultOf, Active, Removals
  <2>3. WalletType' /\ OneDefault' /\ DefaultKept'
    BY <2>1 DEF WalletInv, WalletType, OneDefault, DefaultKept, DefaultOf, Active
  <2> QED
    BY <2>1, <2>2, <2>3 DEF WalletInv
<1> QED
  BY <1>1, <1>2, <1>3, <1>4, <1>5, <1>6, <1>7, <1>8, <1>9, <1>10, <1>11, <1>12, <1>13, <1>14, <1>15
  DEF WalletNext

\* Whatever payment-method calls run at the same time, for any clients, cards and requests: the
\* two indexes hold, a default is lost only to its removal, an add fails only for a change of
\* the wallet, and RemovePaymentMethod takes a default from a client who owes only when the
\* invoice opened after it had looked, and never another client's card.
THEOREM WalletSoundAlways == WalletSpec => []WalletSound
<1>1. WalletInv => WalletSound
  <2> SUFFICES ASSUME WalletInv PROVE WalletSound
    OBVIOUS
  <2>1. ASSUME NEW q \in Requests
        PROVE  /\ call[q].kind = "add" /\ At(q, "done") =>
                    /\ call[q].answer = "ok" => /\ methods[call[q].id].card = call[q].card
                                                /\ methods[call[q].id].client = call[q].client
                    /\ call[q].answer = "NotFound" => Len(methods) > call[q].rows \/ Removals > call[q].removals
               /\ call[q].took => call[q].open
               /\ call[q].kind = "remove" /\ call[q].answer = "ok" => methods[call[q].id].client = call[q].client
    BY DEF WalletInv, CallOK, AddOK, RemoveOK, OwnRow, Changed, At
  <2> QED
    BY <2>1 DEF WalletInv, WalletSound, FailureHasACause
<1> QED
  BY <1>1, WalletInitially, WalletStep, PTL DEF WalletSpec

-----------------------------------------------------------------------------
(* The lists.                                                              *)

ListingSpec == ListingInit /\ [][ListingNext]_listingVars

Size == Params.pageSize
Column == SortColumns(resource)[Params.sortBy]

\* Ascending in the order of the list, whichever its direction.
Keys == [id \in DOMAIN table |-> IF Params.sortDir = "asc" THEN ValueOf(id, Column) ELSE -ValueOf(id, Column)]

UpTo(keys, r) == {q \in DOMAIN keys : keys[q] <= keys[r]}

\* The place of a row in the list, counted from 1, when no two rows have equal keys.
Place(r) == Cardinality(UpTo(Keys, r))

Rows == DOMAIN table
Still == writes.updates = 0 \/ Column \in Created
Appending == writes.inserts = 0 \/ (Column \in Created /\ Params.sortDir = "asc")
Walking == step \in {"count", "select"}

ListingType ==
  /\ resource \in Resources
  /\ request.pageSize \in PageSizes
  /\ table \in Seq([at : Nat, val : Values])
  /\ \A i \in DOMAIN table : table[i].at = i
  /\ StartRows <= Len(table)
  /\ step \in {"count", "select", "done", "refused"}
  /\ page \in Nat \ {0} /\ total \in Nat
  /\ shown \in Seq(DOMAIN table)
  /\ writes \in [inserts : Nat, updates : Nat, torn : BOOLEAN]
  /\ tied \in BOOLEAN
  /\ writes.inserts = 0 => ~writes.torn
  /\ step \in {"select", "done"} => ValidPageSize(request.pageSize)

\* The pages begun so far fit the table, and a COUNT that no insert overtook is exact.
CountKept ==
  /\ Walking /\ page > 1 => (page - 1) * Size < Len(table)
  /\ step = "select" => total <= Len(table) /\ (~writes.torn => total = Len(table))

\* A row not shown yet is beyond the pages shown: inserts only push rows back.
NothingSkipped ==
  ~tied /\ Still =>
    /\ Walking => \A r \in 1..StartRows \ Range(shown) : Place(r) > (page - 1) * Size
    /\ step = "done" /\ ~writes.torn => 1..StartRows \subseteq Range(shown)

\* When no row moves, the n-th row shown is the n-th of the list.
NothingMoved ==
  ~tied /\ Still /\ Appending =>
    /\ \A i \in DOMAIN shown : Place(shown[i]) = i
    /\ Walking => Len(shown) = (page - 1) * Size
    /\ step = "done" /\ writes.inserts = 0 => Len(shown) = total

ListingInv == ListingType /\ CountKept /\ NothingSkipped /\ NothingMoved

\* No two have the same key; the arrangement p goes by the keys.
Distinct(K) == \A x, y \in DOMAIN K : x # y => K[x] # K[y]
Sorted(K, p) == \A i, j \in DOMAIN p : i < j => p[i] # p[j] /\ K[p[i]] <= K[p[j]]

Arranged(T, K, p) ==
  /\ IsFiniteSet(T) /\ K \in [T -> Int] /\ p \in [1..Cardinality(T) -> T]
  /\ Distinct(K) /\ Sorted(K, p)

InPlace(T, K, p) ==
  /\ \A n \in 1..Cardinality(T) : Cardinality(UpTo(K, p[n])) = n
  /\ \A x \in T : \E n \in 1..Cardinality(T) : p[n] = x

\* A sorted arrangement of rows with different keys has each row at its place.
LEMMA ArrangedByPlace == ASSUME NEW T, NEW K, NEW p, Arranged(T, K, p) PROVE InPlace(T, K, p)
<1> USE DEF Arranged
<1>1. PICK N \in Nat : N = Cardinality(T)
  BY FS_CardinalityType
<1>2. IsFiniteSet(1..N) /\ Cardinality(1..N) = N
  BY <1>1, FS_Interval
<1>3. \A i, j \in 1..N : i # j => p[i] # p[j]
  BY <1>1 DEF Sorted
<1>4. p \in Injection(1..N, T)
  BY <1>1, <1>3 DEF Injection, IsInjective
<1>5. p \in Surjection(1..N, T)
  BY <1>1, <1>2, <1>4, FS_Injection
<1>6. \A x \in T : \E n \in 1..N : p[n] = x
  BY <1>5 DEF Surjection
<1>7. ASSUME NEW n \in 1..N PROVE Cardinality(UpTo(K, p[n])) = n
  <2>1. \A i \in 1..N : K[p[i]] <= K[p[n]] => i <= n
    BY <1>1, <1>3 DEF Sorted, Distinct
  <2>2. \A i \in 1..n : K[p[i]] <= K[p[n]]
    BY <1>1 DEF Sorted
  <2>3. UpTo(K, p[n]) \subseteq T /\ \A i \in 1..n : p[i] \in UpTo(K, p[n])
    BY <1>1, <2>2 DEF UpTo
  <2>4. \A x \in UpTo(K, p[n]) : \E i \in 1..n : p[i] = x
    <3> SUFFICES ASSUME NEW x \in UpTo(K, p[n]) PROVE \E i \in 1..n : p[i] = x
      OBVIOUS
    <3>1. x \in T /\ K[x] <= K[p[n]]
      BY DEF UpTo
    <3>2. PICK i \in 1..N : p[i] = x
      BY <3>1, <1>6
    <3>3. i <= n
      BY <3>1, <3>2, <2>1
    <3> QED
      BY <3>2, <3>3
  <2>5. PICK f : f = [i \in 1..n |-> p[i]]
    OBVIOUS
  <2>6. f \in Bijection(1..n, UpTo(K, p[n]))
    <3>1. f \in [1..n -> UpTo(K, p[n])] /\ \A i \in 1..n : f[i] = p[i]
      BY <2>3, <2>5
    <3>2. \A i, j \in 1..n : f[i] = f[j] => i = j
      BY <3>1, <1>3
    <3>3. \A x \in UpTo(K, p[n]) : \E i \in 1..n : f[i] = x
      BY <3>1, <2>4
    <3> QED
      BY <3>1, <3>2, <3>3 DEF Bijection, Injection, Surjection, IsInjective
  <2>7. n \in Nat /\ ExistsBijection(1..n, UpTo(K, p[n]))
    BY <2>6 DEF ExistsBijection
  <2> QED
    BY <2>7, FS_CountingElements
<1> QED
  BY <1>1, <1>6, <1>7 DEF InPlace

\* The page size the handler uses.
LEMMA SizeType ==
  ASSUME ListingType
  PROVE  Size \in Int /\ (ValidPageSize(request.pageSize) => Size \in Nat \ {0})
<1>1. request.pageSize \in Seq(Int)
  BY ListingAssumption DEF ListingType
<1>2. Size = IF request.pageSize = << >> THEN 20 ELSE request.pageSize[1]
  BY DEF Size, Params, ListParams, DefaultPageSize
<1>3. ASSUME request.pageSize # << >> PROVE 1 \in DOMAIN request.pageSize /\ request.pageSize[1] \in Int
  BY <1>1, <1>3
<1>4. ASSUME ValidPageSize(request.pageSize), request.pageSize # << >> PROVE request.pageSize[1] \in 1..100
  BY <1>3, <1>4 DEF ValidPageSize, MaxPageSize
<1>5. CASE request.pageSize = << >>
  BY <1>2, <1>5
<1>6. CASE request.pageSize # << >>
  <2>1. Size = request.pageSize[1]
    BY <1>2, <1>6
  <2>2. request.pageSize[1] \in Int
    BY <1>3, <1>6
  <2>3. ValidPageSize(request.pageSize) => request.pageSize[1] \in 1..100
    BY <1>4, <1>6
  <2> QED
    BY <2>1, <2>2, <2>3
<1> QED
  BY <1>5, <1>6

LEMMA ValueType == ASSUME ListingType PROVE \A i \in Rows : ValueOf(i, Column) \in Int
<1>1. Rows = 1..Len(table) /\ Len(table) \in Nat
  BY DEF ListingType, Rows
<1>2. \A i \in Rows : table[i].at \in Int /\ table[i].val \in Int
  <2>0. PICK R : R = [at : Nat, val : {1, 2}]
    OBVIOUS
  <2>1. table \in Seq(R)
    BY <2>0 DEF ListingType, Values
  <2>2. \A i \in Rows : table[i] \in R
    BY <1>1, <2>1
  <2> QED
    BY <2>0, <2>2
<1> QED
  BY <1>2 DEF ValueOf

\* What the order of the list depends on.
LEMMA SameList ==
  ASSUME resource' = resource, request' = request, table' = table
  PROVE  /\ Params' = Params /\ Size' = Size /\ Column' = Column /\ Keys' = Keys /\ Rows' = Rows
         /\ \A r : Place(r)' = Place(r)
<1>1. Params' = Params /\ Rows' = Rows
  BY DEF Params, Rows
<1>2. Column' = Column /\ Size' = Size
  BY <1>1 DEF Column, Size
<1>3. Keys' = Keys
  BY <1>1, <1>2 DEF Keys, ValueOf
<1> QED
  BY <1>1, <1>2, <1>3 DEF Place

LEMMA KeysType ==
  ASSUME ListingType
  PROVE  /\ Rows = 1..Len(table) /\ Len(table) \in Nat
         /\ Keys \in [Rows -> Int]
         /\ IsFiniteSet(Rows) /\ Cardinality(Rows) = Len(table)
<1>1. Rows = 1..Len(table) /\ Len(table) \in Nat
  BY DEF ListingType, Rows
<1>2. Keys \in [Rows -> Int]
  BY ValueType DEF Keys, Rows
<1>3. IsFiniteSet(Rows) /\ Cardinality(Rows) = Len(table)
  <2>1. PICK n \in Nat : n = Len(table)
    BY <1>1
  <2>2. IsFiniteSet(1..n) /\ Cardinality(1..n) = n
    BY FS_Interval
  <2> QED
    BY <1>1, <2>1, <2>2
<1> QED
  BY <1>1, <1>2, <1>3

\* Each list is sorted by the column of its own resource.
LEMMA ListByColumn == ASSUME ListingType PROVE GetList(Params) = Select(Column, Params)
<1>1. resource \in {"user", "ride", "driver", "shift", "invoice"}
  BY ListingAssumption DEF ListingType
<1>2. CASE resource = "user"
  BY <1>2 DEF GetList, Column, SortColumns, GetUserList
<1>3. CASE resource = "ride"
  BY <1>3 DEF GetList, Column, SortColumns, GetRideList
<1>4. CASE resource = "driver"
  BY <1>4 DEF GetList, Column, SortColumns, GetDriverList
<1>5. CASE resource = "shift"
  BY <1>5 DEF GetList, Column, SortColumns, GetShiftList
<1>6. CASE resource = "invoice"
  BY <1>6 DEF GetList, Column, SortColumns, GetInvoiceList
<1> QED
  BY <1>1, <1>2, <1>3, <1>4, <1>5, <1>6

\* A SELECT appends the rows from Offset0 on, a page full or to the end.
LEMMA SelectPage ==
  ASSUME ListingInv, SelectStep
  PROVE  \E p \in Seq(Rows), from \in Nat, upto \in Nat :
           /\ from = (page - 1) * Size /\ page * Size = from + Size
           /\ from <= upto /\ upto <= Len(table) /\ upto <= from + Size
           /\ upto = from + Size \/ upto = Len(table)
           /\ shown' = shown \o SubSeq(p, from + 1, upto)
           /\ Len(p) = Len(table)
           /\ ~tied' => /\ \A n \in 1..Len(table) : Place(p[n]) = n
                        /\ \A r \in Rows : \E n \in 1..Len(table) : p[n] = r
<1>1. ListingType /\ Size \in Nat \ {0} /\ page \in Nat \ {0} /\ step = "select"
  BY SizeType DEF ListingInv, ListingType, SelectStep
<1>2. /\ Rows = 1..Len(table) /\ Len(table) \in Nat /\ Keys \in [Rows -> Int]
      /\ IsFiniteSet(Rows) /\ Cardinality(Rows) = Len(table)
  BY <1>1, KeysType
<1>3. PICK from \in Nat : from = (page - 1) * Size /\ page * Size = from + Size
  BY <1>1
<1>4. from <= Len(table)
  <2>1. CASE page = 1
    BY <2>1, <1>1, <1>2, <1>3
  <2>2. CASE page > 1
    BY <2>2, <1>1, <1>2, <1>3 DEF ListingInv, CountKept, Walking
  <2> QED
    BY <2>1, <2>2, <1>1
<1>5. PICK upto \in Nat : upto = IF from + Size < Len(table) THEN from + Size ELSE Len(table)
  BY <1>1, <1>2, <1>3
<1>6. from <= upto /\ upto <= Len(table) /\ upto <= from + Size /\ (upto = from + Size \/ upto = Len(table))
  BY <1>1, <1>2, <1>4, <1>5
<1>7. PICK items \in Select(Column, Params) : shown' = shown \o items
  BY <1>1, ListByColumn DEF SelectStep
<1>8. PICK p \in Arrangements(Column, Params.sortDir) :
        items = SubSeq(p, from + 1, IF from + Size < Len(p) THEN from + Size ELSE Len(p))
  BY <1>3, <1>7 DEF Select, Offset0, Size
<1>9. /\ p \in [1..Cardinality(Rows) -> Rows]
      /\ \A i, j \in DOMAIN p : i < j =>
           /\ p[i] # p[j]
           /\ IF Params.sortDir = "asc" THEN ValueOf(p[i], Column) <= ValueOf(p[j], Column)
                                        ELSE ValueOf(p[i], Column) >= ValueOf(p[j], Column)
  BY <1>8 DEF Arrangements, Rows
<1>10. p \in Seq(Rows) /\ Len(p) = Len(table) /\ DOMAIN p = 1..Cardinality(Rows)
  BY <1>2, <1>9
<1>11. ASSUME ~tied' PROVE Distinct(Keys)
  <2>1. \A i, j \in Rows : i # j => ValueOf(i, Column) # ValueOf(j, Column)
    BY <1>11 DEF SelectStep, Column, Rows
  <2>2. \A i \in Rows : ValueOf(i, Column) \in Int
    BY <1>1, ValueType
  <2> QED
    BY <2>1, <2>2 DEF Keys, Rows, Distinct
<1>12. Sorted(Keys, p)
  <2> SUFFICES ASSUME NEW i \in 1..Cardinality(Rows), NEW j \in 1..Cardinality(Rows), i < j
               PROVE  p[i] # p[j] /\ Keys[p[i]] <= Keys[p[j]]
    BY <1>10 DEF Sorted
  <2>1. p[i] \in Rows /\ p[j] \in Rows /\ ValueOf(p[i], Column) \in Int /\ ValueOf(p[j], Column) \in Int
    BY <1>1, <1>9, ValueType
  <2>2. p[i] # p[j] /\ IF Params.sortDir = "asc" THEN ValueOf(p[i], Column) <= ValueOf(p[j], Column)
                                               ELSE ValueOf(p[i], Column) >= ValueOf(p[j], Column)
    BY <1>9, <1>10
  <2> QED
    BY <2>1, <2>2 DEF Keys, Rows
<1>13. ASSUME ~tied' PROVE /\ \A n \in 1..Len(table) : Place(p[n]) = n
                          /\ \A r \in Rows : \E n \in 1..Len(table) : p[n] = r
  <2>1. Arranged(Rows, Keys, p)
    BY <1>2, <1>9, <1>11, <1>12, <1>13 DEF Arranged
  <2>2. InPlace(Rows, Keys, p)
    BY <2>1, ArrangedByPlace
  <2>3. /\ \A n \in 1..Cardinality(Rows) : Cardinality(UpTo(Keys, p[n])) = n
        /\ \A x \in Rows : \E n \in 1..Cardinality(Rows) : p[n] = x
    BY <2>2 DEF InPlace
  <2> QED
    BY <1>2, <2>3 DEF Place
<1>14. shown' = shown \o SubSeq(p, from + 1, upto)
  BY <1>5, <1>7, <1>8, <1>10
<1> QED
  BY <1>3, <1>5, <1>6, <1>10, <1>13, <1>14

\* A SELECT keeps the invariant.
LEMMA SelectKeeps == ASSUME ListingInv, SelectStep PROVE ListingInv'
<1>1. /\ ListingType /\ Size \in Nat \ {0} /\ page \in Nat \ {0} /\ step = "select"
      /\ total \in Nat /\ total <= Len(table) /\ (~writes.torn => total = Len(table))
      /\ shown \in Seq(Rows)
  BY SizeType DEF ListingInv, ListingType, CountKept, SelectStep, Rows
<1>2. /\ Rows = 1..Len(table) /\ Len(table) \in Nat /\ IsFiniteSet(Rows)
  BY <1>1, KeysType
<1>3. /\ resource' = resource /\ request' = request /\ table' = table /\ total' = total /\ writes' = writes
      /\ step' = IF page * Size < total THEN "count" ELSE "done"
      /\ page' = IF page * Size < total THEN page + 1 ELSE page
      /\ tied' \in BOOLEAN /\ (tied => tied')
  BY <1>1 DEF SelectStep, Size
<1>4. Params' = Params /\ Size' = Size /\ Column' = Column /\ Keys' = Keys /\ Rows' = Rows /\ Still' = Still
      /\ Appending' = Appending /\ \A r : Place(r)' = Place(r)
  BY <1>3, SameList DEF Still, Appending
<1>5. PICK p \in Seq(Rows), from \in Nat, upto \in Nat :
           /\ from = (page - 1) * Size /\ page * Size = from + Size
           /\ from <= upto /\ upto <= Len(table) /\ upto <= from + Size
           /\ upto = from + Size \/ upto = Len(table)
           /\ shown' = shown \o SubSeq(p, from + 1, upto)
           /\ Len(p) = Len(table)
           /\ ~tied' => /\ \A n \in 1..Len(table) : Place(p[n]) = n
                        /\ \A r \in Rows : \E n \in 1..Len(table) : p[n] = r
  BY SelectPage
<1>50. /\ (page - 1) * Size = from /\ page * Size = from + Size
       /\ from <= upto /\ upto <= Len(table) /\ upto <= from + Size
       /\ upto = from + Size \/ upto = Len(table)
  BY <1>5
<1>6. PICK items : items = SubSeq(p, from + 1, upto)
  OBVIOUS
<1>7. upto \in 0..Len(table) /\ items \in Seq(Rows) /\ Len(items) = upto - from
      /\ \A i \in 1..upto - from : items[i] = p[from + i]
  <2>1. upto \in 0..Len(table)
    BY <1>2, <1>5
  <2>2. from \in Nat /\ upto \in Nat /\ from <= upto /\ upto <= Len(p)
    BY <1>5
  <2> QED
    BY <2>1, <2>2, <1>6, Slice
<1>8. /\ shown' \in Seq(Rows) /\ Len(shown') = Len(shown) + (upto - from)
      /\ \A i \in 1..Len(shown) : shown'[i] = shown[i]
      /\ \A i \in 1..upto - from : shown'[Len(shown) + i] = p[from + i]
      /\ Len(shown) \in Nat /\ DOMAIN shown' = 1..Len(shown') /\ DOMAIN shown = 1..Len(shown)
  <2>1. shown' = shown \o items
    BY <1>5, <1>6
  <2>2. /\ shown' \in Seq(Rows) /\ Len(shown') = Len(shown) + Len(items)
        /\ \A i \in 1..Len(shown) : shown'[i] = shown[i]
        /\ \A i \in 1..Len(items) : shown'[Len(shown) + i] = items[i]
    <3>1. shown \in Seq(Rows) /\ items \in Seq(Rows)
      BY <1>1, <1>7
    <3> QED
      BY <2>1, <3>1, Joined
  <2>3. Len(shown) \in Nat /\ DOMAIN shown' = 1..Len(shown') /\ DOMAIN shown = 1..Len(shown)
    BY <1>1, <2>2
  <2> QED
    BY <1>7, <2>2, <2>3
<1>9. ListingType'
  BY <1>1, <1>3, <1>4, <1>8 DEF ListingType, Rows, ValidPageSize
<1>10. (page' - 1) * Size = (IF page * Size < total THEN from + Size ELSE from) /\ page' \in Nat \ {0}
  BY <1>1, <1>3, <1>5
<1>11. CountKept'
  BY <1>1, <1>3, <1>4, <1>5, <1>10 DEF CountKept, Walking
<1>12. NothingSkipped'
  <2> SUFFICES ASSUME ~tied', Still
               PROVE  /\ Walking' => \A r \in 1..StartRows \ Range(shown)' : Place(r) > (page' - 1) * Size
                      /\ step' = "done" /\ ~writes.torn => 1..StartRows \subseteq Range(shown)'
    BY <1>3, <1>4 DEF NothingSkipped
  <2>1. \A r \in 1..StartRows \ Range(shown) : Place(r) > from
    BY <1>1, <1>3, <1>5 DEF ListingInv, NothingSkipped, Walking
  <2>2. ASSUME NEW r \in 1..StartRows, r \notin Range(shown)'
        PROVE  Place(r) \in Nat /\ Place(r) > from + Size /\ Place(r) <= Len(table)
    <3>1. r \in Rows /\ r \notin Range(shown)
      <4>1. r \in Rows
        BY <1>1, <1>2, ListingAssumption DEF ListingType
      <4>2. DOMAIN shown = 1..Len(shown)
        BY <1>1 DEF ListingType
      <4>3. \A i \in 1..Len(shown) : i \in DOMAIN shown' /\ shown'[i] = shown[i]
        BY <1>7, <1>8, <1>5
      <4> QED
        BY <2>2, <4>1, <4>2, <4>3, Zenon DEF Range
    <3>2. PICK n \in 1..Len(table) : p[n] = r
      BY <1>5, <3>1
    <3>3. Place(r) = n
      BY <1>5, <3>2
    <3>4. n > from
      BY <2>1, <3>1, <3>3
    <3>5. n > upto
      <4> SUFFICES ASSUME n <= upto PROVE FALSE
        BY <1>2
      <4>1. n - from \in 1..upto - from
        BY <3>4
      <4>2. shown'[Len(shown) + (n - from)] = p[from + (n - from)]
        BY <1>8, <4>1
      <4>3. shown'[Len(shown) + (n - from)] = r /\ Len(shown) + (n - from) \in DOMAIN shown'
        BY <1>8, <3>2, <4>1, <4>2
      <4> QED
        BY <2>2, <4>3 DEF Range
    <3> QED
      BY <1>1, <1>2, <1>50, <3>3, <3>5
  <2>3. CASE page * Size < total
    BY <2>2, <2>3, <1>3, <1>10
  <2>4. CASE ~(page * Size < total)
    <3>1. step' = "done" /\ ~Walking'
      BY <1>3, <2>4 DEF Walking
    <3>2. ASSUME ~writes.torn, NEW r \in 1..StartRows, r \notin Range(shown)' PROVE FALSE
      <4>1. Place(r) \in Nat /\ Place(r) > page * Size /\ Place(r) <= total
        BY <1>1, <1>50, <2>2, <3>2
      <4> QED
        BY <1>1, <2>4, <4>1
    <3> QED
      BY <3>1, <3>2
  <2> QED
    BY <2>3, <2>4
<1>13. NothingMoved'
  <2> SUFFICES ASSUME ~tied', Still, Appending
               PROVE  /\ \A i \in DOMAIN shown' : Place(shown'[i]) = i
                      /\ Walking' => Len(shown') = (page' - 1) * Size
                      /\ step' = "done" /\ writes.inserts = 0 => Len(shown') = total
    BY <1>3, <1>4 DEF NothingMoved
  <2>1. /\ \A i \in 1..Len(shown) : Place(shown[i]) = i
        /\ Len(shown) = from
    <3>1. Walking /\ ~tied /\ DOMAIN shown = 1..Len(shown)
      BY <1>1, <1>3, <1>8 DEF Walking
    <3> QED
      BY <3>1, <1>50 DEF ListingInv, NothingMoved
  <2>2. ASSUME NEW i \in DOMAIN shown' PROVE Place(shown'[i]) = i
    <3>1. i \in 1..upto
      BY <1>5, <1>8, <2>1
    <3>2. CASE i <= from
      BY <3>1, <3>2, <1>8, <2>1
    <3>3. CASE i > from
      <4>1. i - from \in 1..upto - from
        BY <3>1, <3>3
      <4>2. shown'[from + (i - from)] = p[from + (i - from)]
        BY <1>8, <2>1, <4>1
      <4>3. shown'[i] = p[i] /\ i \in 1..Len(table)
        BY <1>2, <1>50, <3>1, <4>2
      <4> QED
        BY <1>5, <4>3
    <3> QED
      BY <3>1, <3>2, <3>3
  <2>3. Len(shown') = upto
    BY <1>5, <1>8, <2>1
  <2>4. Walking' => Len(shown') = (page' - 1) * Size
    <3>1. CASE page * Size < total
      <4>1. upto = from + Size
        BY <1>1, <1>2, <1>50, <3>1
      <4> QED
        BY <1>10, <2>3, <3>1, <4>1
    <3>2. CASE ~(page * Size < total)
      BY <1>3, <3>2 DEF Walking
    <3> QED
      BY <3>1, <3>2
  <2>5. ASSUME step' = "done", writes.inserts = 0 PROVE Len(shown') = total
    <3>1. total = Len(table) /\ ~(page * Size < total)
      BY <1>1, <1>3, <2>5 DEF ListingType
    <3> QED
      BY <1>1, <1>2, <1>50, <2>3, <3>1
  <2> QED
    BY <2>2, <2>4, <2>5
<1> QED
  BY <1>9, <1>11, <1>12, <1>13 DEF ListingInv

LEMMA CountStepKeeps == ASSUME ListingInv, CountStep PROVE ListingInv'
<1>1. /\ resource' = resource /\ request' = request /\ table' = table /\ total' = Cardinality(Rows)
      /\ page' = page /\ shown' = shown /\ writes' = writes /\ tied' = tied
      /\ step = "count" /\ step' = "select" /\ ValidPageSize(request.pageSize)
  BY DEF CountStep, CountRows, Rows, ParseListParams
<1>2. Size' = Size /\ Column' = Column /\ Still' = Still /\ Appending' = Appending /\ \A r : Place(r)' = Place(r)
  BY <1>1, SameList DEF Still, Appending
<1>3. Cardinality(Rows) = Len(table) /\ Len(table) \in Nat
  BY KeysType DEF ListingInv
<1>4. ListingType'
  BY <1>1, <1>3 DEF ListingInv, ListingType, ValidPageSize
<1>5. CountKept'
  BY <1>1, <1>2, <1>3 DEF ListingInv, CountKept, Walking
<1>6. NothingSkipped' /\ NothingMoved'
  BY <1>1, <1>2 DEF ListingInv, NothingSkipped, NothingMoved, Walking, Range
<1> QED
  BY <1>4, <1>5, <1>6 DEF ListingInv

LEMMA RefuseKeeps == ASSUME ListingInv, RefuseList PROVE ListingInv'
<1>1. /\ resource' = resource /\ request' = request /\ table' = table /\ total' = total
      /\ page' = page /\ shown' = shown /\ writes' = writes /\ tied' = tied
      /\ step = "count" /\ step' = "refused"
  BY DEF RefuseList
<1>2. Size' = Size /\ Column' = Column /\ Still' = Still /\ Appending' = Appending /\ \A r : Place(r)' = Place(r)
  BY <1>1, SameList DEF Still, Appending
<1>4. ListingType'
  BY <1>1 DEF ListingInv, ListingType, ValidPageSize
<1>5. CountKept'
  BY <1>1 DEF CountKept, Walking
<1>6. NothingSkipped' /\ NothingMoved'
  BY <1>1, <1>2 DEF ListingInv, NothingSkipped, NothingMoved, Walking
<1> QED
  BY <1>4, <1>5, <1>6 DEF ListingInv

\* A new row pushes others back, and none when it comes last.
LEMMA InsertedPlaces ==
  ASSUME ListingType, NEW val \in Values, RowInserted(val)
  PROVE  /\ Params' = Params /\ Size' = Size /\ Column' = Column
         /\ table' \in Seq([at : Nat, val : Values]) /\ Len(table') = Len(table) + 1
         /\ \A i \in DOMAIN table' : table'[i].at = i
         /\ Rows \subseteq Rows'
         /\ \A r \in Rows : Place(r) \in Nat /\ Place(r)' \in Nat /\ Place(r) <= Place(r)'
         /\ Column \in Created /\ Params.sortDir = "asc" => \A r \in Rows : Place(r)' = Place(r)
<1>1. resource' = resource /\ request' = request /\ table' = Append(table, [at |-> Len(table) + 1, val |-> val])
  BY DEF RowInserted
<1>2. Params' = Params
  BY <1>1 DEF Params
<1>3. Column' = Column /\ Size' = Size
  BY <1>1, <1>2 DEF Column, Size
<1>4. PICK R : R = [at : Nat, val : Values]
  OBVIOUS
<1>5. table \in Seq(R) /\ Rows = 1..Len(table) /\ Len(table) \in Nat /\ \A i \in Rows : table[i].at = i
  BY <1>4 DEF ListingType, Rows
<1>6. PICK row \in R : row = [at |-> Len(table) + 1, val |-> val]
  <2>1. Len(table) + 1 \in Nat
    BY <1>5
  <2>2. [at |-> Len(table) + 1, val |-> val] \in R
    BY <1>4, <2>1
  <2> QED
    BY <2>2
<1>7. /\ table' \in Seq(R) /\ Len(table') = Len(table) + 1 /\ Rows' = 1..Len(table) + 1
      /\ \A i \in Rows : table'[i] = table[i]
      /\ table'[Len(table) + 1] = row
  <2>1. table' = Append(table, row)
    BY <1>1, <1>6
  <2> QED
    BY <2>1, <1>5 DEF Rows
<1>8. \A i \in DOMAIN table' : table'[i].at = i
  BY <1>5, <1>6, <1>7 DEF Rows
<1>9. \A i \in Rows : ValueOf(i, Column)' = ValueOf(i, Column)
  BY <1>3, <1>7 DEF ValueOf
<1>10. /\ Keys \in [Rows -> Int] /\ Rows \subseteq Rows'
       /\ \A i \in Rows : Keys'[i] = Keys[i]
  <2>1. Keys \in [Rows -> Int]
    BY KeysType
  <2>2. Rows \subseteq Rows'
    BY <1>5, <1>7
  <2> QED
    BY <2>1, <2>2, <1>2, <1>9 DEF Keys, Rows
<1>11. \A i \in Rows' : ValueOf(i, Column)' \in Int
  <2>1. \A i \in Rows' : table'[i] \in R
    BY <1>7
  <2>2. \A i \in Rows' : table'[i].at \in Int /\ table'[i].val \in Int
    BY <1>4, <2>1 DEF Values
  <2> QED
    BY <2>2 DEF ValueOf
<1>12. Keys' \in [Rows' -> Int]
  BY <1>11 DEF Keys, Rows
<1>13. IsFiniteSet(Rows)  /\ IsFiniteSet(Rows')
  BY <1>5, <1>7, FS_Interval
<1>14. ASSUME NEW r \in Rows PROVE Place(r) \in Nat /\ Place(r)' \in Nat /\ Place(r) <= Place(r)'
  <2>1. UpTo(Keys, r) \subseteq UpTo(Keys', r) /\ UpTo(Keys, r) \subseteq Rows /\ UpTo(Keys', r) \subseteq Rows'
    BY <1>10, <1>12 DEF UpTo
  <2>2. IsFiniteSet(UpTo(Keys, r)) /\ IsFiniteSet(UpTo(Keys', r))
    BY <2>1, <1>13, FS_Subset
  <2>3. Cardinality(UpTo(Keys, r)) \in Nat /\ Cardinality(UpTo(Keys', r)) \in Nat
    BY <2>2, FS_CardinalityType
  <2>4. Cardinality(UpTo(Keys, r)) <= Cardinality(UpTo(Keys', r))
    BY <2>1, <2>2, FS_Subset
  <2> QED
    BY <2>3, <2>4 DEF Place
<1>15. ASSUME Column \in Created, Params.sortDir = "asc", NEW r \in Rows PROVE Place(r)' = Place(r)
  <2>1. \A i \in Rows' : Keys'[i] = i
    BY <1>2, <1>3, <1>8, <1>15 DEF Keys, ValueOf, Rows
  <2>2. UpTo(Keys', r) = UpTo(Keys, r)
    <3>1. \A q \in Rows' : Keys'[q] <= Keys'[r] => q \in Rows
      BY <1>5, <1>7, <2>1, <1>10
    <3> QED
      BY <1>10, <1>12, <3>1 DEF UpTo
  <2> QED
    BY <2>2 DEF Place
<1> QED
  BY <1>2, <1>3, <1>4, <1>7, <1>8, <1>10, <1>14, <1>15

LEMMA InsertKeepsList == ASSUME ListingInv, NEW val \in Values, RowInserted(val) PROVE ListingInv'
<1>1. /\ Params' = Params /\ Size' = Size /\ Column' = Column
      /\ table' \in Seq([at : Nat, val : Values]) /\ Len(table') = Len(table) + 1
      /\ \A i \in DOMAIN table' : table'[i].at = i
      /\ Rows \subseteq Rows'
      /\ \A r \in Rows : Place(r) \in Nat /\ Place(r)' \in Nat /\ Place(r) <= Place(r)'
      /\ Column \in Created /\ Params.sortDir = "asc" => \A r \in Rows : Place(r)' = Place(r)
  BY InsertedPlaces DEF ListingInv
<1>2. /\ resource' = resource /\ request' = request /\ step' = step /\ page' = page /\ total' = total
      /\ shown' = shown /\ tied' = tied /\ step \in {"count", "select"}
      /\ writes' = [writes EXCEPT !.inserts = @ + 1, !.torn = @ \/ step = "select"]
  BY DEF RowInserted
<1>3. /\ ListingType /\ Size \in Int /\ page \in Nat \ {0} /\ (page - 1) * Size \in Int /\ Len(table) \in Nat
      /\ writes \in [inserts : Nat, updates : Nat, torn : BOOLEAN] /\ StartRows <= Len(table)
  BY SizeType, KeysType DEF ListingInv, ListingType
<1>4. /\ writes' \in [inserts : Nat, updates : Nat, torn : BOOLEAN]
      /\ writes'.inserts = writes.inserts + 1 /\ writes'.inserts # 0 /\ writes'.updates = writes.updates
      /\ writes'.torn <=> (writes.torn \/ step = "select")
  <2>1. PICK torn \in BOOLEAN : torn = (writes.torn \/ step = "select")
    OBVIOUS
  <2>2. writes' = [writes EXCEPT !.inserts = writes.inserts + 1, !.torn = torn]
    BY <1>2, <2>1
  <2>3. /\ writes' \in [inserts : Nat, updates : Nat, torn : BOOLEAN]
        /\ writes'.inserts = writes.inserts + 1 /\ writes'.updates = writes.updates
        /\ writes'.torn = torn
    <3>1. writes'.inserts = writes.inserts + 1 /\ writes'.updates = writes.updates
      BY <1>3, <2>2
    <3>2. writes'.torn = torn
      BY <1>3, <2>2
    <3>3. PICK n \in Nat : n = writes.inserts + 1
      BY <1>3
    <3>4. writes' = [writes EXCEPT !.inserts = n, !.torn = torn]
      BY <2>2, <3>3
    <3>5. writes' \in [inserts : Nat, updates : Nat, torn : BOOLEAN]
      BY <1>3, <3>4
    <3> QED
      BY <3>1, <3>2, <3>5
  <2>4. writes'.inserts # 0
    BY <1>3, <2>3
  <2> QED
    BY <2>1, <2>3, <2>4
<1>5. ListingType'
  <2>1. shown' \in Seq(DOMAIN table')
    BY <1>1, <1>2, <1>3, SeqWider DEF ListingType, Rows
  <2>2. StartRows <= Len(table')
    BY <1>1, <1>3, ListingAssumption
  <2> QED
    BY <1>1, <1>2, <1>3, <1>4, <2>1, <2>2 DEF ListingType, ValidPageSize
<1>6. CountKept'
  <2>1. ASSUME page > 1 PROVE (page' - 1) * Size' < Len(table')
    <3>1. (page - 1) * Size < Len(table)
      BY <1>2, <2>1 DEF ListingInv, CountKept, Walking
    <3>2. (page' - 1) * Size' = (page - 1) * Size
      BY <1>1, <1>2
    <3> QED
      BY <1>1, <1>3, <3>1, <3>2
  <2>2. ASSUME step = "select" PROVE total' <= Len(table') /\ writes'.torn
    <3>1. total <= Len(table) /\ total \in Nat
      BY <2>2 DEF ListingInv, ListingType, CountKept
    <3> QED
      BY <1>1, <1>2, <1>3, <1>4, <2>2, <3>1
  <2> QED
    BY <1>2, <2>1, <2>2 DEF CountKept
<1>7. NothingSkipped'
  <2> SUFFICES ASSUME ~tied, Still, NEW r \in 1..StartRows \ Range(shown)
               PROVE  Place(r)' > (page - 1) * Size
    BY <1>1, <1>2, <1>4 DEF NothingSkipped, Still, Walking, Range
  <2>1. Place(r) > (page - 1) * Size
    BY <1>2 DEF ListingInv, NothingSkipped, Walking
  <2>2. r \in Rows
    BY <1>3, KeysType, ListingAssumption
  <2> QED
    BY <1>1, <1>3, <2>1, <2>2
<1>8. NothingMoved'
  <2> SUFFICES ASSUME ~tied, Still, Column \in Created, Params.sortDir = "asc"
               PROVE  /\ \A i \in DOMAIN shown : Place(shown[i])' = i
                      /\ Len(shown) = (page - 1) * Size
    BY <1>1, <1>2, <1>4 DEF NothingMoved, Still, Appending, Walking
  <2>1. /\ \A i \in DOMAIN shown : Place(shown[i]) = i
        /\ Len(shown) = (page - 1) * Size
    BY <1>2 DEF ListingInv, NothingMoved, Appending, Walking
  <2>2. \A i \in DOMAIN shown : shown[i] \in Rows
    BY <1>3 DEF ListingType, Rows
  <2>3. \A r \in Rows : Place(r)' = Place(r)
    BY <1>1
  <2>4. \A i \in DOMAIN shown : Place(shown[i])' = Place(shown[i])
    BY <1>2, <2>2, <2>3
  <2> QED
    BY <2>1, <2>4
<1> QED
  BY <1>5, <1>6, <1>7, <1>8 DEF ListingInv

LEMMA UpdateKeepsList ==
  ASSUME ListingInv, NEW id \in 1..StartRows, NEW val \in Values, RowUpdated(id, val)
  PROVE  ListingInv'
<1>1. /\ resource' = resource /\ request' = request /\ step' = step /\ page' = page /\ total' = total
      /\ shown' = shown /\ tied' = tied /\ id \in Rows
      /\ table' = [table EXCEPT ![id].val = val]
      /\ writes' = [writes EXCEPT !.updates = @ + 1]
  BY DEF RowUpdated, Rows
<1>2. ListingType /\ writes \in [inserts : Nat, updates : Nat, torn : BOOLEAN]
  BY DEF ListingInv, ListingType
<1>3. Params' = Params
  BY <1>1 DEF Params
<1>4. Column' = Column /\ Size' = Size
  BY <1>1, <1>3 DEF Column, Size
<1>5. /\ writes' \in [inserts : Nat, updates : Nat, torn : BOOLEAN]
      /\ writes'.inserts = writes.inserts /\ writes'.torn = writes.torn /\ writes'.updates # 0
  BY <1>1, <1>2
<1>6. PICK R : R = [at : Nat, val : Values]
  OBVIOUS
<1>7. table \in Seq(R) /\ Rows = 1..Len(table) /\ Len(table) \in Nat /\ \A i \in Rows : table[i].at = i
  BY <1>2, <1>6 DEF ListingType, Rows
<1>8. PICK row \in R : row = [table[id] EXCEPT !.val = val] /\ row.at = table[id].at
  <2>1. table[id] \in R
    BY <1>1, <1>7
  <2>2. [table[id] EXCEPT !.val = val] \in R /\ [table[id] EXCEPT !.val = val].at = table[id].at
    BY <1>6, <2>1
  <2> QED
    BY <2>2
<1>9. /\ table' \in Seq(R) /\ Len(table') = Len(table) /\ DOMAIN table' = DOMAIN table
      /\ \A i \in Rows : table'[i].at = table[i].at
  <2>1. table' = [table EXCEPT ![id] = row]
    BY <1>1, <1>8
  <2> QED
    BY <2>1, <1>1, <1>7, <1>8 DEF Rows
<1>10. ListingType'
  <2>1. table' \in Seq([at : Nat, val : Values]) /\ \A i \in DOMAIN table' : table'[i].at = i
    BY <1>6, <1>7, <1>9 DEF Rows
  <2> QED
    BY <1>1, <1>2, <1>5, <1>9, <2>1 DEF ListingType, ValidPageSize
<1>11. CountKept'
  BY <1>1, <1>4, <1>5, <1>9 DEF ListingInv, CountKept, Walking
<1>12. ASSUME Still' PROVE Still /\ (Appending' = Appending) /\ \A r : Place(r)' = Place(r)
  <2>1. Column \in Created
    BY <1>4, <1>5, <1>12 DEF Still
  <2>2. Keys' = Keys
    BY <1>3, <1>4, <1>9, <2>1 DEF Keys, ValueOf, Rows
  <2> QED
    BY <1>3, <1>4, <1>5, <2>1, <2>2 DEF Still, Appending, Place
<1>13. NothingSkipped' /\ NothingMoved'
  BY <1>1, <1>4, <1>5, <1>12 DEF ListingInv, NothingSkipped, NothingMoved, Walking, Range
<1> QED
  BY <1>10, <1>11, <1>13 DEF ListingInv

LEMMA ListingInitially == ListingInit => ListingInv
<1> SUFFICES ASSUME ListingInit PROVE ListingInv
  OBVIOUS
<1>1. /\ resource \in Resources /\ request.pageSize \in PageSizes
      /\ step = "count" /\ page = 1 /\ total = 0 /\ shown = << >>
      /\ writes = [inserts |-> 0, updates |-> 0, torn |-> FALSE] /\ tied = FALSE
  BY DEF ListingInit
<1>2. /\ table \in [1..StartRows -> [at : 1..StartRows, val : Values]]
      /\ \A i \in DOMAIN table : table[i].at = i
  BY DEF ListingInit
<1>3. table \in Seq([at : Nat, val : Values]) /\ Len(table) = StartRows
  <2>1. PICK R : R = [at : Nat, val : Values]
    OBVIOUS
  <2>2. table \in [1..StartRows -> R]
    BY <1>2, <2>1
  <2>3. StartRows \in Nat
    BY ListingAssumption
  <2>4. table \in Seq(R) /\ Len(table) = StartRows
    BY <2>2, <2>3
  <2> QED
    BY <2>1, <2>4
<1>4. ListingType
  <2>1. writes \in [inserts : Nat, updates : Nat, torn : BOOLEAN] /\ ~writes.torn
    BY <1>1
  <2>2. StartRows <= Len(table) /\ shown \in Seq(DOMAIN table)
    BY <1>1, <1>3, ListingAssumption
  <2>3. /\ resource \in Resources /\ request.pageSize \in PageSizes
        /\ step = "count" /\ page = 1 /\ total = 0
    BY <1>1
  <2>4. tied \in BOOLEAN
    BY <1>1
  <2> QED
    BY <1>2, <1>3, <2>1, <2>2, <2>3, <2>4 DEF ListingType
<1>5. Size \in Int /\ (page - 1) * Size = 0
  BY <1>1, <1>4, SizeType
<1>6. CountKept
  BY <1>1 DEF CountKept
<1>7. NothingMoved
  BY <1>1, <1>5 DEF NothingMoved, Walking
<1>8. ASSUME NEW r \in 1..StartRows PROVE Place(r) > 0
  <2>1. IsFiniteSet(Rows) /\ r \in Rows /\ Keys \in [Rows -> Int]
    BY <1>3, <1>4, KeysType
  <2>2. r \in UpTo(Keys, r) /\ UpTo(Keys, r) \subseteq Rows
    BY <2>1 DEF UpTo
  <2>3. IsFiniteSet(UpTo(Keys, r))
    BY <2>1, <2>2, FS_Subset
  <2>4. Cardinality(UpTo(Keys, r)) # 0 /\ Cardinality(UpTo(Keys, r)) \in Nat
    BY <2>2, <2>3, FS_EmptySet, FS_CardinalityType
  <2> QED
    BY <2>4 DEF Place
<1>9. NothingSkipped
  BY <1>1, <1>5, <1>8 DEF NothingSkipped
<1> QED
  BY <1>4, <1>6, <1>7, <1>9 DEF ListingInv

LEMMA ListingStep == ListingInv /\ [ListingNext]_listingVars => ListingInv'
<1> SUFFICES ASSUME ListingInv, [ListingNext]_listingVars PROVE ListingInv'
  OBVIOUS
<1>1. CASE UNCHANGED listingVars
  <2>1. /\ resource' = resource /\ request' = request /\ table' = table /\ total' = total /\ step' = step
        /\ page' = page /\ shown' = shown /\ writes' = writes /\ tied' = tied
    BY <1>1 DEF listingVars
  <2>2. Size' = Size /\ Column' = Column /\ Still' = Still /\ Appending' = Appending /\ \A r : Place(r)' = Place(r)
    BY <2>1, SameList DEF Still, Appending
  <2>3. ListingType' /\ CountKept'
    BY <2>1, <2>2 DEF ListingInv, ListingType, ValidPageSize, CountKept, Walking
  <2>4. NothingSkipped' /\ NothingMoved'
    BY <2>1, <2>2 DEF ListingInv, NothingSkipped, NothingMoved, Walking, Range
  <2> QED
    BY <2>3, <2>4 DEF ListingInv
<1> QED
  BY <1>1, RefuseKeeps, CountStepKeeps, SelectKeeps, InsertKeepsList, UpdateKeepsList DEF ListingNext

\* A caller who follows HasMore page by page (get_user_list.go:39 and its siblings) has seen
\* every row the list had at the start, for any number of rows and any page sizes, unless
\* the sort column has ties or changes, or a row slips in between a COUNT and its SELECT;
\* without inserts, or in the order of creation, each row is shown once.
THEOREM PagesCompleteAlways == ListingSpec => []PagesComplete
<1>1. ListingInv => PagesComplete
  <2> SUFFICES ASSUME ListingInv, step = "done", ~tied, Still
               PROVE  /\ ~writes.torn => 1..StartRows \subseteq Range(shown)
                      /\ Appending => /\ IsInjective(shown)
                                      /\ writes.inserts = 0 => Len(shown) = total
    BY DEF PagesComplete, Still, Appending, Column
  <2>1. ~writes.torn => 1..StartRows \subseteq Range(shown)
    BY DEF ListingInv, NothingSkipped
  <2>2. ASSUME Appending PROVE IsInjective(shown) /\ (writes.inserts = 0 => Len(shown) = total)
    BY <2>2 DEF ListingInv, NothingMoved, IsInjective
  <2> QED
    BY <2>1, <2>2
<1> QED
  BY <1>1, ListingInitially, ListingStep, PTL DEF ListingSpec

-----------------------------------------------------------------------------
(* The HTTP interface.                                                     *)

ApiSpec == ApiInit /\ [][ApiNext]_apiVars

CheckOK(h, c) ==
  /\ c[2] # "ok"
  /\ c[2] \in DOMAIN h.errors \/ h.fault = 400 \/ c[1] = {"invalid"}
  /\ "done" \in c[1] => "done" \notin h.quiet

\* What the tables of the handlers have in common, on which honest answers rest.
WellFormed(h) ==
  /\ h.success \in {200, 201, 204} /\ h.fault \in {400, 500}
  /\ "error" \notin DOMAIN h.errors /\ \A e \in DOMAIN h.errors : h.errors[e] \in 400..409
  /\ h.quiet \subseteq {"absent", "taken", "done"}
  /\ DOMAIN h.checks \subseteq Nat /\ \A i \in DOMAIN h.checks : CheckOK(h, h.checks[i])
  /\ h.writes => \/ h.name \in Repeatable
                 \/ "done" \in h.quiet
                 \/ \E i \in DOMAIN h.checks : "done" \in h.checks[i][1]

\* Every handler of the six services is.
LEMMA HandlersWellFormed == \A h \in Handlers : WellFormed(h)
<1>1. WellFormed(RideHandlerCreate)
  BY DEF RideHandlerCreate, Handler, BadID, NoErrors, WellFormed, CheckOK, Repeatable
<1>2. WellFormed(RideHandlerCancel)
  BY DEF RideHandlerCancel, Handler, BadID, NotFound, Forbidden, Over, RideErrors, WellFormed, CheckOK, Repeatable
<1>3. WellFormed(RideHandlerStart)
  BY DEF RideHandlerStart, Handler, BadID, NotFound, Forbidden, Over, RideErrors, WellFormed, CheckOK, Repeatable
<1>4. WellFormed(RideHandlerComplete)
  BY DEF RideHandlerComplete, Handler, BadID, NotFound, Forbidden, Over, RideErrors, WellFormed, CheckOK, Repeatable
<1>5. WellFormed(RideHandlerGetList)
  BY DEF RideHandlerGetList, Query, Handler, NoErrors, WellFormed, CheckOK
<1>6. WellFormed(RideHandlerGetByID)
  BY DEF RideHandlerGetByID, Query, Handler, BadID, NotFound, None404, WellFormed, CheckOK
<1>7. WellFormed(DriverHandlerCreate)
  BY DEF DriverHandlerCreate, Handler, BadID, NoErrors, WellFormed, CheckOK, Repeatable
<1>8. WellFormed(DriverHandlerUpdate)
  BY DEF DriverHandlerUpdate, Handler, BadID, NotFound, None404, WellFormed, CheckOK, Repeatable
<1>9. WellFormed(DriverHandlerGetList)
  BY DEF DriverHandlerGetList, Query, Handler, NoErrors, WellFormed, CheckOK
<1>10. WellFormed(DriverHandlerGetByID)
  BY DEF DriverHandlerGetByID, Query, Handler, BadID, NotFound, None404, WellFormed, CheckOK
<1>11. WellFormed(ShiftHandlerCreate)
  BY DEF ShiftHandlerCreate, Handler, BadID, NoErrors, WellFormed, CheckOK, Repeatable
<1>12. WellFormed(ShiftHandlerUpdate("Online"))
  BY DEF ShiftHandlerUpdate, Handler, BadID, NotFound, None404, WellFormed, CheckOK, Repeatable
<1>13. WellFormed(ShiftHandlerUpdate("Ended"))
  BY DEF ShiftHandlerUpdate, Handler, BadID, NotFound, None404, WellFormed, CheckOK, Repeatable
<1>14. WellFormed(ShiftHandlerGetList)
  BY DEF ShiftHandlerGetList, Query, Handler, NoErrors, WellFormed, CheckOK
<1>15. WellFormed(ShiftHandlerGetByID)
  BY DEF ShiftHandlerGetByID, Query, Handler, BadID, NotFound, None404, WellFormed, CheckOK
<1>16. WellFormed(InvoiceHandlerGetByID)
  BY DEF InvoiceHandlerGetByID, Query, Handler, BadID, NotFound, Forbidden, WellFormed, CheckOK
<1>17. WellFormed(InvoiceHandlerGetByRideID)
  BY DEF InvoiceHandlerGetByRideID, Query, Handler, BadID, Forbidden, WellFormed, CheckOK
<1>18. WellFormed(InvoiceHandlerGetList)
  BY DEF InvoiceHandlerGetList, Query, Handler, NoErrors, WellFormed, CheckOK
<1>19. WellFormed(PaymentMethodHandlerCreate)
  BY DEF PaymentMethodHandlerCreate, Handler, BadID, NoErrors, WellFormed, CheckOK, Repeatable
<1>20. WellFormed(PaymentMethodHandlerList)
  BY DEF PaymentMethodHandlerList, Query, Handler, BadID, NoErrors, WellFormed, CheckOK
<1>21. WellFormed(PaymentMethodHandlerDelete)
  BY DEF PaymentMethodHandlerDelete, Handler, BadID, NotFound, Forbidden, RideErrors, WellFormed, CheckOK, Repeatable
<1>22. WellFormed(LedgerHandlerGetBalance)
  BY DEF LedgerHandlerGetBalance, Query, Handler, BadID, NoErrors, WellFormed, CheckOK
<1>23. WellFormed(LocationHandlerIngestBatch(TRUE)) /\ WellFormed(LocationHandlerIngestBatch(FALSE))
  BY DEF LocationHandlerIngestBatch, Handler, Forbidden, WellFormed, CheckOK, Repeatable
<1>24. WellFormed(LocationHandlerNearbyDrivers)
  BY DEF LocationHandlerNearbyDrivers, Query, Handler, WellFormed, CheckOK
<1>25. WellFormed(LocationHandlerGetCounterparty)
  BY DEF LocationHandlerGetCounterparty, Query, Handler, WellFormed, CheckOK
<1>26. WellFormed(LocationHandlerGetRideTrack)
  BY DEF LocationHandlerGetRideTrack, Query, Handler, BadID, NotFound, Forbidden, WellFormed, CheckOK
<1>27. WellFormed(LocationHandlerListLivePositions)
  BY DEF LocationHandlerListLivePositions, Query, Handler, NoErrors, WellFormed, CheckOK
<1>28. WellFormed(MatchingHandlerAcceptRide)
  BY DEF MatchingHandlerAcceptRide, Handler, NotFound, Forbidden, WellFormed, CheckOK, Repeatable
<1>29. WellFormed(MatchingHandlerGetDriverOffer)
  BY DEF MatchingHandlerGetDriverOffer, Query, Handler, Forbidden, WellFormed, CheckOK
<1>30. WellFormed(AuthHandlerSignup)
  BY DEF AuthHandlerSignup, Handler, BadID, WellFormed, CheckOK, Repeatable
<1>31. WellFormed(AuthHandlerLogin)
  BY DEF AuthHandlerLogin, Handler, WellFormed, CheckOK, Repeatable
<1>32. WellFormed(AuthHandlerRefresh)
  BY DEF AuthHandlerRefresh, Handler, WellFormed, CheckOK, Repeatable
<1>33. WellFormed(AuthHandlerLogout)
  BY DEF AuthHandlerLogout, Handler, BadID, NoErrors, WellFormed, CheckOK, Repeatable
<1>34. WellFormed(UserHandlerGetList)
  BY DEF UserHandlerGetList, Query, Handler, NoErrors, WellFormed, CheckOK
<1>35. WellFormed(UserHandlerMe)
  BY DEF UserHandlerMe, Query, Handler, BadID, NotFound, None404, WellFormed, CheckOK
<1> QED
  BY <1>1, <1>2, <1>3, <1>4, <1>5, <1>6, <1>7, <1>8, <1>9, <1>10, <1>11, <1>12, <1>13, <1>14, <1>15, <1>16, <1>17, <1>18,
     <1>19, <1>20, <1>21, <1>22, <1>23, <1>24, <1>25, <1>26, <1>27, <1>28, <1>29, <1>30, <1>31, <1>32, <1>33, <1>34, <1>35
  DEF Handlers

\* What a request says that no try changes.
Standing ==
  (IF input.invalid THEN {"invalid"} ELSE {})
    \union (IF ~input.mine \/ (handler.header = "asked" /\ ~input.header) THEN {"stranger"} ELSE {})

ApiType ==
  /\ WellFormed(handler)
  /\ target \in {"absent", "ready", "unready", "taken", "done"}
  /\ got \in Nat /\ tries \in Nat /\ effects \in Nat
  /\ changed \in BOOLEAN /\ fault \in BOOLEAN

\* An effect leaves its mark on the target, and no check stood in its way.
EffectMarked ==
  effects > 0 =>
    /\ target = "done" /\ tries > 0 /\ ~Rejected
    /\ \A i \in DOMAIN handler.checks : handler.checks[i][1] \intersect Standing = {}

ApiInv == ApiType /\ EffectMarked /\ AnswersHonest

LEMMA FactsAre == Facts = {target} \union Standing
  BY DEF Facts, Standing

\* The command passes every check, or the first that fails gives its error.
LEMMA OutcomeIs ==
  ASSUME WellFormed(handler)
  PROVE  \/ /\ Outcome = "ok"
            /\ \A i \in DOMAIN handler.checks : handler.checks[i][1] \intersect Facts = {}
         \/ \E i \in DOMAIN handler.checks :
              /\ Outcome = handler.checks[i][2] /\ Outcome # "ok"
              /\ handler.checks[i][1] \intersect Facts # {}
<1>1. PICK failing : failing = {i \in DOMAIN handler.checks : handler.checks[i][1] \intersect Facts # {}}
  OBVIOUS
<1>2. Outcome = IF failing = {} THEN "ok" ELSE handler.checks[Min(failing)][2]
  BY <1>1 DEF Outcome
<1>3. CASE failing = {}
  BY <1>1, <1>2, <1>3
<1>4. CASE failing # {}
  <2>1. failing \subseteq Nat
    BY <1>1 DEF WellFormed
  <2>2. PICK i \in failing : i = Min(failing)
    BY <1>4, <2>1, MinIsIn
  <2>3. i \in DOMAIN handler.checks /\ handler.checks[i][1] \intersect Facts # {} /\ Outcome = handler.checks[i][2]
    BY <1>1, <1>2, <1>4, <2>2
  <2>4. Outcome # "ok"
    BY <2>3 DEF WellFormed, CheckOK
  <2> QED
    BY <2>3, <2>4
<1> QED
  BY <1>3, <1>4

\* The statuses a handler makes of an outcome.
LEMMA StatusIs ==
  ASSUME ApiType
  PROVE  /\ Outcome = "ok" => Status(Outcome) = handler.success
         /\ Outcome # "ok" => Status(Outcome) \in 400..500 /\ (Status(Outcome) >= 500 => input.invalid)
         /\ Status("error") = handler.fault
         /\ handler.success \in 200..299 /\ handler.fault \in {400, 500}
<1>1. WellFormed(handler) /\ target # "invalid"
  BY DEF ApiType
<1>2. handler.success \in 200..299 /\ handler.fault \in {400, 500}
  BY <1>1 DEF WellFormed
<1>3. Status("error") = handler.fault
  BY <1>1 DEF WellFormed, Status
<1>4. Outcome = "ok" => Status(Outcome) = handler.success
  BY DEF Status
<1>5. ASSUME Outcome # "ok"
      PROVE  Status(Outcome) \in 400..500 /\ (Status(Outcome) >= 500 => input.invalid)
  <2>1. PICK i \in DOMAIN handler.checks :
          Outcome = handler.checks[i][2] /\ handler.checks[i][1] \intersect Facts # {}
    BY <1>1, <1>5, OutcomeIs
  <2>2. CASE Outcome \in DOMAIN handler.errors
    BY <1>1, <1>5, <2>2 DEF Status, WellFormed
  <2>3. CASE Outcome \notin DOMAIN handler.errors
    <3>1. Status(Outcome) = handler.fault
      BY <1>5, <2>3 DEF Status
    <3>2. handler.fault = 400 \/ handler.checks[i][1] = {"invalid"}
      BY <1>1, <2>1, <2>3 DEF WellFormed, CheckOK
    <3>3. ASSUME handler.checks[i][1] = {"invalid"} PROVE input.invalid
      BY <1>1, <2>1, <3>3 DEF Facts
    <3> QED
      BY <1>2, <3>1, <3>2, <3>3
  <2> QED
    BY <2>2, <2>3
<1> QED
  BY <1>2, <1>3, <1>4, <1>5

\* What a status claims, of the state after the try.
Honest(status) ==
  /\ effects > 1 => handler.name \in Repeatable
  /\ status \in 200..299 =>
       /\ ~Rejected
       /\ "stranger" \in Mentioned(handler) => "stranger" \notin Facts
       /\ handler.writes /\ handler.name # "Login" => target # "ready"
  /\ status \in 400..499 =>
       /\ changed => handler.fault = 400
       /\ effects > 0 => \/ handler.fault = 400
                         \/ tries > 1 /\ target = "done" /\ "done" \notin handler.quiet
       /\ fault => handler.fault = 400
  /\ status >= 500 => fault \/ input.invalid

LEMMA Unanswered ==
  ASSUME NEW status \in Nat, Answer(status), Honest(status)' PROVE AnswersHonest'
  BY DEF Answer, Honest, AnswersHonest

LEMMA Constantly ==
  ASSUME handler' = handler, input' = input
  PROVE  Rejected' = Rejected /\ Standing' = Standing /\ Facts' = {target'} \union Standing
  BY FactsAre DEF Rejected, Standing, Facts

LEMMA RejectKeeps == ASSUME ApiInv, Reject PROVE ApiInv'
<1>1. /\ handler' = handler /\ input' = input /\ target' = target /\ effects' = effects /\ tries' = tries + 1
      /\ got' \in {0, 400} /\ changed' = FALSE /\ fault' = FALSE /\ Rejected /\ Answer(400)
  BY DEF Reject, Answer
<1>2. Rejected' = Rejected /\ Standing' = Standing
  BY <1>1, Constantly
<1>3. effects = 0
  BY <1>1 DEF ApiInv, ApiType, EffectMarked
<1>4. ApiType'
  <2>1. changed' \in BOOLEAN /\ fault' \in BOOLEAN
    BY <1>1
  <2>2. got' \in Nat /\ tries' \in Nat /\ effects' \in Nat
    BY <1>1 DEF ApiInv, ApiType
  <2> QED
    BY <1>1, <2>1, <2>2 DEF ApiInv, ApiType
<1>5. EffectMarked'
  BY <1>1, <1>3 DEF EffectMarked
<1>6. Honest(400)'
  BY <1>1, <1>3 DEF Honest
<1> QED
  BY <1>1, <1>4, <1>5, <1>6, Unanswered DEF ApiInv

\* An effect happens once, or the command is one that may be repeated.
LEMMA EffectOnce ==
  ASSUME ApiInv, Effect
  PROVE  /\ \A i \in DOMAIN handler.checks : handler.checks[i][1] \intersect Facts = {}
         /\ effects > 0 => handler.name \in Repeatable
<1>1. WellFormed(handler) /\ Outcome = "ok" /\ handler.writes /\ target \notin handler.quiet
  BY DEF ApiInv, ApiType, Effect
<1>2. \A i \in DOMAIN handler.checks : handler.checks[i][1] \intersect Facts = {}
  BY <1>1, OutcomeIs
<1>3. ASSUME effects > 0 PROVE handler.name \in Repeatable
  <2>1. target = "done" /\ "done" \in Facts
    BY <1>3 DEF ApiInv, EffectMarked, Facts
  <2>2. \A i \in DOMAIN handler.checks : "done" \notin handler.checks[i][1]
    BY <1>2, <2>1
  <2> QED
    BY <1>1, <2>1, <2>2 DEF WellFormed
<1> QED
  BY <1>2, <1>3

\* A try that passes the handler's own checks keeps the two first parts, whether it has its effect.
LEMMA TryKeeps ==
  ASSUME ApiInv, ~Rejected, NEW status \in Nat, Answer(status), NEW happens \in BOOLEAN, HasEffect(happens),
         happens => Effect, fault' \in BOOLEAN
  PROVE  /\ ApiType' /\ EffectMarked' /\ (effects' > 1 => handler.name \in Repeatable)
         /\ handler' = handler /\ input' = input
         /\ changed' = happens /\ (happens => target' = "done")
         /\ ~happens => target' = target /\ effects' = effects
         /\ Rejected' = Rejected /\ Facts' = {target'} \union Standing /\ tries' = tries + 1
<1>1. /\ handler' = handler /\ input' = input /\ tries' = tries + 1 /\ got' \in {0, status}
      /\ changed' = happens /\ effects' = (IF happens THEN effects + 1 ELSE effects)
      /\ target' = IF happens THEN "done" ELSE target
  BY DEF Answer, HasEffect
<1>2. Rejected' = Rejected /\ Standing' = Standing /\ Facts' = {target'} \union Standing
  BY <1>1, Constantly
<1>3. effects \in Nat /\ tries \in Nat
  BY DEF ApiInv, ApiType
<1>4. ApiType'
  <2>1. WellFormed(handler') /\ got' \in Nat /\ tries' \in Nat /\ changed' \in BOOLEAN
    BY <1>1, <1>3 DEF ApiInv, ApiType
  <2>2. target' \in {"absent", "ready", "unready", "taken", "done"}
    BY <1>1 DEF ApiInv, ApiType
  <2>3. effects' \in Nat
    BY <1>1, <1>3
  <2> QED
    BY <2>1, <2>2, <2>3 DEF ApiType
<1>5. CASE happens
  <2>1. Effect
    BY <1>5
  <2>2. /\ \A i \in DOMAIN handler.checks : handler.checks[i][1] \intersect Facts = {}
        /\ effects > 0 => handler.name \in Repeatable
    BY <2>1, EffectOnce
  <2>3. \A i \in DOMAIN handler.checks : handler.checks[i][1] \intersect Standing = {}
    BY <2>2, FactsAre
  <2>4. EffectMarked'
    BY <1>1, <1>2, <1>3, <1>5, <2>3 DEF EffectMarked
  <2>5. effects' > 1 => handler.name \in Repeatable
    BY <1>1, <1>3, <1>5, <2>2
  <2> QED
    BY <1>1, <1>2, <1>4, <1>5, <2>4, <2>5
<1>6. CASE ~happens
  <2>1. EffectMarked'
    BY <1>1, <1>2, <1>3, <1>6 DEF EffectMarked, ApiInv
  <2>2. effects' > 1 => handler.name \in Repeatable
    BY <1>1, <1>6 DEF ApiInv, AnswersHonest
  <2> QED
    BY <1>1, <1>2, <1>4, <1>6, <2>1, <2>2
<1> QED
  BY <1>5, <1>6

LEMMA FailsKeeps == ASSUME ApiInv, Fails \/ FailsLate PROVE ApiInv'
<1>1. PICK happens \in BOOLEAN : HasEffect(happens) /\ (happens => Effect)
  BY DEF Fails, FailsLate
<1>2. PICK status \in Nat : status = handler.fault
  BY StatusIs DEF ApiInv
<1>3. ~Rejected /\ Answer(status) /\ fault' = TRUE /\ handler.fault \in {400, 500}
  <2>1. handler.fault \in {400, 500} /\ Status("error") = status
    BY <1>2, StatusIs DEF ApiInv
  <2>2. ~Rejected /\ Answer(Status("error")) /\ fault' = TRUE
    BY DEF Fails, FailsLate
  <2> QED
    BY <2>1, <2>2
<1>4. /\ ApiType' /\ EffectMarked' /\ (effects' > 1 => handler.name \in Repeatable)
      /\ handler' = handler
  BY <1>1, <1>3, TryKeeps
<1>5. Honest(status)'
  BY <1>2, <1>3, <1>4 DEF Honest
<1> QED
  BY <1>3, <1>4, <1>5, Unanswered DEF ApiInv

\* A command that was answered with a success has found the target the caller's own.
LEMMA SuccessIsMine ==
  ASSUME ApiType, Outcome = "ok", "stranger" \in Mentioned(handler) PROVE "stranger" \notin Standing
<1>1. WellFormed(handler)
  BY DEF ApiType
<1>2. \A i \in DOMAIN handler.checks : handler.checks[i][1] \intersect Facts = {}
  BY <1>1, OutcomeIs
<1>3. PICK i \in DOMAIN handler.checks : "stranger" \in handler.checks[i][1]
  <2>1. "stranger" \notin handler.quiet
    BY <1>1 DEF WellFormed
  <2>2. PICK all : all = {handler.checks[i][1] : i \in DOMAIN handler.checks}
    OBVIOUS
  <2>3. Mentioned(handler) = (UNION all) \union handler.quiet
    BY <2>2 DEF Mentioned
  <2>4. "stranger" \in UNION all
    BY <2>1, <2>3
  <2>5. PICK c \in all : "stranger" \in c
    BY <2>4
  <2> QED
    BY <2>2, <2>5
<1> QED
  BY <1>2, <1>3, FactsAre

LEMMA ServeKeeps == ASSUME ApiInv, Serve PROVE ApiInv'
<1>1. /\ ApiType /\ WellFormed(handler) /\ handler.success \in 200..299
      /\ target \in {"absent", "ready", "unready", "taken", "done"}
  BY StatusIs DEF ApiInv, ApiType
<1>2. PICK status \in Nat : status = Status(Outcome)
  BY <1>1, StatusIs
<1>3. PICK happens \in BOOLEAN : happens = Effect
  BY DEF Effect
<1>4. ~Rejected /\ Answer(status) /\ HasEffect(happens) /\ fault' = FALSE
  BY <1>2, <1>3 DEF Serve
<1>5. /\ ApiType' /\ EffectMarked' /\ (effects' > 1 => handler.name \in Repeatable)
      /\ handler' = handler /\ input' = input
      /\ changed' = happens /\ (happens => target' = "done")
      /\ ~happens => target' = target /\ effects' = effects
      /\ Rejected' = Rejected /\ Facts' = {target'} \union Standing /\ tries' = tries + 1
  BY <1>3, <1>4, TryKeeps
<1>6. CASE Outcome = "ok"
  <2>1. status \in 200..299
    BY <1>1, <1>2, <1>6, StatusIs
  <2>2. "stranger" \in Mentioned(handler) => "stranger" \notin Facts'
    BY <1>1, <1>5, <1>6, SuccessIsMine
  <2>3. handler.writes => target' # "ready"
    BY <1>1, <1>3, <1>5, <1>6 DEF Effect, WellFormed
  <2> QED
    BY <1>4, <1>5, <2>1, <2>2, <2>3, Unanswered DEF Honest, ApiInv, Mentioned
<1>7. CASE Outcome # "ok"
  <2>1. status \in 400..500 /\ (status >= 500 => input.invalid)
    BY <1>1, <1>2, <1>7, StatusIs
  <2>2. ~happens
    BY <1>3, <1>7 DEF Effect
  <2>3. effects > 0 => tries' > 1 /\ target' = "done" /\ "done" \notin handler.quiet
    <3> SUFFICES ASSUME effects > 0 PROVE tries' > 1 /\ target' = "done" /\ "done" \notin handler.quiet
      OBVIOUS
    <3>1. /\ target = "done" /\ tries > 0 /\ tries \in Nat
          /\ \A i \in DOMAIN handler.checks : handler.checks[i][1] \intersect Standing = {}
      BY DEF ApiInv, ApiType, EffectMarked
    <3>2. PICK i \in DOMAIN handler.checks : handler.checks[i][1] \intersect Facts # {}
      BY <1>1, <1>7, OutcomeIs
    <3>3. "done" \in handler.checks[i][1]
      BY <3>1, <3>2, FactsAre
    <3>4. "done" \notin handler.quiet
      BY <1>1, <3>3 DEF WellFormed, CheckOK
    <3> QED
      BY <1>5, <2>2, <3>1, <3>4
  <2>4. Honest(status)'
    BY <1>4, <1>5, <2>1, <2>2, <2>3 DEF Honest
  <2> QED
    BY <1>4, <1>5, <2>4, Unanswered DEF ApiInv
<1> QED
  BY <1>6, <1>7

LEMMA LoginUnstoredKeeps == ASSUME ApiInv, LoginUnstored PROVE ApiInv'
<1>1. ApiType /\ Outcome = "ok" /\ handler.name = "Login" /\ handler.success \in 200..299
  BY StatusIs DEF ApiInv, LoginUnstored
<1>2. PICK status \in Nat : status = handler.success
  BY <1>1
<1>3. ~Rejected /\ Answer(status) /\ HasEffect(FALSE) /\ fault' = TRUE
  BY <1>2 DEF LoginUnstored
<1>4. /\ ApiType' /\ EffectMarked' /\ (effects' > 1 => handler.name \in Repeatable)
      /\ handler' = handler
      /\ Rejected' = Rejected /\ Facts' = {target'} \union Standing
  BY <1>3, TryKeeps
<1>5. "stranger" \in Mentioned(handler) => "stranger" \notin Facts'
  BY <1>1, <1>4, SuccessIsMine DEF ApiType
<1>6. status \in 200..299
  BY <1>1, <1>2
<1>7. Honest(status)'
  BY <1>1, <1>3, <1>4, <1>5, <1>6 DEF Honest, Mentioned
<1> QED
  BY <1>3, <1>4, <1>7, Unanswered DEF ApiInv

LEMMA MeanwhileKeeps == ASSUME ApiInv, Meanwhile PROVE ApiInv'
<1>1. /\ handler' = handler /\ input' = input /\ got' = got /\ tries' = tries /\ effects' = effects
      /\ changed' = changed /\ fault' = fault /\ target = "ready" /\ target' \in {"unready", "taken"}
      /\ got = 0 \/ got >= 500
  BY DEF Meanwhile, Awaited
<1>2. effects = 0
  BY <1>1 DEF ApiInv, ApiType, EffectMarked
<1>3. ApiType' /\ EffectMarked'
  BY <1>1, <1>2 DEF ApiInv, ApiType, EffectMarked
<1>4. AnswersHonest'
  BY <1>1, <1>2 DEF ApiInv, ApiType, AnswersHonest
<1> QED
  BY <1>3, <1>4 DEF ApiInv

LEMMA ApiInitially == ApiInit => ApiInv
<1> SUFFICES ASSUME ApiInit PROVE ApiInv
  OBVIOUS
<1>1. WellFormed(handler)
  BY HandlersWellFormed DEF ApiInit
<1>2. /\ target \in {"absent", "ready", "unready", "taken", "done"} /\ got = 0 /\ tries = 0 /\ effects = 0
  BY DEF ApiInit
<1>3. changed \in BOOLEAN /\ fault \in BOOLEAN
  BY DEF ApiInit
<1> QED
  BY <1>1, <1>2, <1>3 DEF ApiInv, ApiType, EffectMarked, AnswersHonest

LEMMA ApiStep == ApiInv /\ [ApiNext]_apiVars => ApiInv'
<1> SUFFICES ASSUME ApiInv, [ApiNext]_apiVars PROVE ApiInv'
  OBVIOUS
<1>1. CASE UNCHANGED apiVars
  <2>1. /\ handler' = handler /\ input' = input /\ got' = got /\ tries' = tries /\ effects' = effects
        /\ changed' = changed /\ fault' = fault /\ target' = target
    BY <1>1 DEF apiVars
  <2>2. Rejected' = Rejected /\ Standing' = Standing /\ Facts' = Facts
    BY <2>1, Constantly, FactsAre
  <2>3. ApiType' /\ EffectMarked'
    BY <2>1, <2>2 DEF ApiInv, ApiType, EffectMarked
  <2>4. AnswersHonest'
    BY <2>1, <2>2 DEF ApiInv, AnswersHonest, Mentioned
  <2> QED
    BY <2>3, <2>4 DEF ApiInv
<1> QED
  BY <1>1, RejectKeeps, ServeKeeps, FailsKeeps, LoginUnstoredKeeps, MeanwhileKeeps DEF ApiNext

\* What the status of an answer says about the effect of a request is true for every
\* handler of the six services (writeMappedError, mapXError and the handlers' own early
\* returns), however often the caller sends the request again.
THEOREM AnswersHonestAlways == ApiSpec => []AnswersHonest
<1>1. ApiInv => AnswersHonest
  BY DEF ApiInv
<1> QED
  BY <1>1, ApiInitially, ApiStep, PTL DEF ApiSpec

-----------------------------------------------------------------------------
(* The pings of a device.                                                  *)

TrackSpec == TrackInit /\ [][TrackNext \/ SummaryNext]_trackVars

Coordinates == [lat : Int, lon : Int]
Positions == [at : Coordinates, ts : Nat]
RawPings == [at : Coordinates, ts : Nat, accuracy : Int]

\* g holds the state of IngestPings' loop after each of the first m pings.
Loops(g, m, sorted, position, time) ==
  g = [n \in 0..m |->
         IF n = 0 THEN [stored |-> position, previous |-> position, accepted |-> << >>, rejected |-> 0]
         ELSE IngestPing(g[n - 1], sorted[n], PingConfig, time)]

\* There is one for every batch.
LEMMA LoopExists ==
  ASSUME NEW sorted, NEW position, NEW time, NEW m \in Nat
  PROVE  \E g : Loops(g, m, sorted, position, time)
<1> SUFFICES ASSUME \A g : ~Loops(g, m, sorted, position, time) PROVE FALSE
  OBVIOUS
<1>1. PICK k \in Nat : /\ \A g : ~Loops(g, k, sorted, position, time)
                       /\ \A j \in Nat : j < k => \E g : Loops(g, j, sorted, position, time)
  <2>1. PICK S : S = {j \in Nat : \A g : ~Loops(g, j, sorted, position, time)}
    OBVIOUS
  <2>2. S \subseteq Nat /\ S # {}
    BY <2>1
  <2>3. PICK k \in S : \A j \in S : k <= j
    BY <2>2, LeastNat
  <2> QED
    BY <2>1, <2>3
<1>2. CASE k = 0
  <2>1. PICK g : g = [n \in 0..0 |->
                       [stored |-> position, previous |-> position, accepted |-> << >>, rejected |-> 0]]
    OBVIOUS
  <2>2. Loops(g, 0, sorted, position, time)
    BY <2>1 DEF Loops
  <2> QED
    BY <1>1, <1>2, <2>2
<1>3. CASE k # 0
  <2>1. k - 1 \in Nat /\ k - 1 < k
    BY <1>3
  <2>2. PICK g : Loops(g, k - 1, sorted, position, time)
    BY <1>1, <2>1
  <2>3. PICK h : h = [n \in 0..k |-> IF n = k THEN IngestPing(g[k - 1], sorted[k], PingConfig, time) ELSE g[n]]
    OBVIOUS
  <2>4. \A n \in 0..k - 1 : h[n] = g[n]
    BY <2>1, <2>3
  <2>5. h[k] = IngestPing(g[k - 1], sorted[k], PingConfig, time)
    BY <2>3
  <2>6. ASSUME NEW n \in 0..k
        PROVE  h[n] = IF n = 0 THEN [stored |-> position, previous |-> position, accepted |-> << >>, rejected |-> 0]
                      ELSE IngestPing(h[n - 1], sorted[n], PingConfig, time)
    <3>1. CASE n = k
      <4>1. h[n - 1] = g[k - 1]
        BY <2>1, <2>4, <3>1
      <4> QED
        BY <1>3, <2>5, <3>1, <4>1
    <3>2. CASE n # k
      <4>1. n \in 0..k - 1 /\ (n # 0 => n - 1 \in 0..k - 1)
        BY <3>2
      <4>2. g[n] = IF n = 0 THEN [stored |-> position, previous |-> position, accepted |-> << >>, rejected |-> 0]
                   ELSE IngestPing(g[n - 1], sorted[n], PingConfig, time)
        BY <2>2, <4>1 DEF Loops
      <4> QED
        BY <2>4, <4>1, <4>2
    <3> QED
      BY <3>1, <3>2
  <2>7. Loops(h, k, sorted, position, time)
    BY <2>3, <2>6 DEF Loops
  <2> QED
    BY <1>1, <2>7
<1> QED
  BY <1>2, <1>3

LEMMA LoopUnfold ==
  ASSUME NEW sorted, NEW position, NEW time, Len(sorted) \in Nat
  PROVE  \E g : /\ Loops(g, Len(sorted), sorted, position, time)
                /\ IngestPings(sorted, position, PingConfig, time) = g[Len(sorted)]
<1>1. PICK g : g = CHOOSE f : Loops(f, Len(sorted), sorted, position, time)
  OBVIOUS
<1>2. Loops(g, Len(sorted), sorted, position, time)
  BY <1>1, LoopExists
<1>3. IngestPings(sorted, position, PingConfig, time) = g[Len(sorted)]
  BY <1>1 DEF IngestPings, Loops
<1> QED
  BY <1>2, <1>3

\* From one position to the next, forward in time and within the limit.
FollowsOn(a, b) ==
  /\ a.ts < b.ts
  /\ Distance(a.at, b.at) <= PingConfig.maxSpeed * (b.ts - a.ts)

\* The state of the loop after n pings, when it began at a position.
RoundOK(r, n, position) ==
  /\ r.accepted \in Seq(Positions) /\ r.rejected \in Nat /\ Len(r.accepted) + r.rejected = n
  /\ DOMAIN r = {"stored", "previous", "accepted", "rejected"}
  /\ r.accepted = << >> => r.previous = position
  /\ r.accepted # << >> => r.previous = r.accepted[Len(r.accepted)]
  /\ Steady(r.accepted)
  /\ position # NoPosition => \A i \in 1..Len(r.accepted) : r.accepted[i].ts > position.ts
  /\ position # NoPosition /\ r.accepted # << >> => FollowsOn(position, r.accepted[1])

LEMMA DistanceType == ASSUME NEW a \in Coordinates, NEW b \in Coordinates PROVE Distance(a, b) \in Int
  BY DEF Distance, Abs, Coordinates

\* A ping that is not rejected is newer than the one before and not too far from it.
LEMMA AcceptedIsSteady ==
  ASSUME NEW raw \in RawPings, NEW previous \in Positions, NEW time,
         RejectReason(raw, previous, PingConfig, time) = "none"
  PROVE  /\ previous.ts < raw.ts
         /\ Distance(previous.at, raw.at) <= PingConfig.maxSpeed * (raw.ts - previous.ts)
<1>1. previous # NoPosition
  BY DEF Positions, NoPosition
<1>2. /\ ~(raw.ts <= previous.ts)
      /\ ~(Distance(previous.at, raw.at) > PingConfig.maxSpeed * (raw.ts - previous.ts))
  BY <1>1 DEF RejectReason
<1>3. raw.ts \in Nat /\ previous.ts \in Nat /\ raw.at \in Coordinates /\ previous.at \in Coordinates
  BY DEF RawPings, Positions
<1>4. Distance(previous.at, raw.at) \in Int
  BY <1>3, DistanceType
<1>5. PICK far \in Int : far = PingConfig.maxSpeed * (raw.ts - previous.ts)
  BY <1>3, TrackAssumption
<1> QED
  BY <1>2, <1>3, <1>4, <1>5

\* One round of the loop.
LEMMA RoundKeeps ==
  ASSUME NEW raw \in RawPings, NEW n \in Nat, NEW r, NEW position, NEW time,
         position \in Positions \/ position = NoPosition, RoundOK(r, n, position)
  PROVE  RoundOK(IngestPing(r, raw, PingConfig, time), n + 1, position)
<1>1. PICK acc \in Seq(Positions) : acc = r.accepted
  BY DEF RoundOK
<1>2. PICK rej \in Nat : rej = r.rejected /\ Len(acc) + rej = n
  BY <1>1 DEF RoundOK
<1>3. PICK q : q = IngestPing(r, raw, PingConfig, time)
  OBVIOUS
<1>4. CASE RejectReason(raw, r.previous, PingConfig, time) # "none"
  <2>1. q = [r EXCEPT !.rejected = r.rejected + 1]
    BY <1>3, <1>4 DEF IngestPing
  <2>2. /\ q.accepted = r.accepted /\ q.previous = r.previous /\ q.rejected = rej + 1
        /\ DOMAIN q = {"stored", "previous", "accepted", "rejected"}
    BY <1>2, <2>1 DEF RoundOK
  <2>3. q.accepted = acc /\ q.rejected = rej + 1
    BY <1>1, <2>2
  <2>4. q.rejected \in Nat /\ Len(q.accepted) + q.rejected = n + 1
    BY <1>2, <2>3
  <2>5. /\ acc = << >> => q.previous = position
        /\ acc # << >> => q.previous = acc[Len(acc)]
        /\ Steady(acc)
        /\ position # NoPosition /\ acc # << >> => FollowsOn(position, acc[1])
    BY <1>1, <2>2 DEF RoundOK
  <2>6. position # NoPosition => \A i \in 1..Len(acc) : acc[i].ts > position.ts
    BY <1>1 DEF RoundOK
  <2>7. RoundOK(q, n + 1, position)
    BY <2>2, <2>3, <2>4, <2>5, <2>6, Zenon DEF RoundOK
  <2> QED
    BY <1>3, <2>7
<1>5. CASE RejectReason(raw, r.previous, PingConfig, time) = "none"
  <2>1. PICK pos \in Positions : pos = [at |-> raw.at, ts |-> raw.ts]
    BY DEF RawPings, Positions
  <2>2. q = [r EXCEPT !.accepted = r.accepted \o <<pos>>, !.previous = pos]
    BY <1>3, <1>5, <2>1 DEF IngestPing
  <2>3. /\ q.accepted = acc \o <<pos>> /\ q.previous = pos /\ q.rejected = rej
        /\ DOMAIN q = {"stored", "previous", "accepted", "rejected"}
    BY <1>1, <1>2, <2>2 DEF RoundOK
  <2>4. PICK new \in Seq(Positions) : new = acc \o <<pos>>
    <3>1. <<pos>> \in Seq(Positions)
      OBVIOUS
    <3>2. acc \o <<pos>> \in Seq(Positions)
      BY <3>1, Joined
    <3> QED
      BY <3>2
  <2>5. /\ Len(new) = Len(acc) + 1 /\ new[Len(acc) + 1] = pos /\ new # << >>
        /\ \A i \in 1..Len(acc) : new[i] = acc[i]
    BY <2>1, <2>4
  <2>6. ASSUME acc # << >>
        PROVE  /\ acc[Len(acc)].ts < pos.ts
               /\ Distance(acc[Len(acc)].at, pos.at) <= PingConfig.maxSpeed * (pos.ts - acc[Len(acc)].ts)
    <3>1. PICK last \in Positions : last = acc[Len(acc)] /\ last = r.previous
      BY <1>1, <2>6 DEF RoundOK
    <3>2. /\ last.ts < raw.ts
          /\ Distance(last.at, raw.at) <= PingConfig.maxSpeed * (raw.ts - last.ts)
      BY <1>5, <3>1, AcceptedIsSteady
    <3> QED
      BY <2>1, <3>1, <3>2
  <2>7. Steady(new)
    <3> SUFFICES ASSUME NEW i \in 1..Len(new) - 1
                 PROVE  /\ new[i].ts < new[i + 1].ts
                        /\ Distance(new[i].at, new[i + 1].at) <= PingConfig.maxSpeed * (new[i + 1].ts - new[i].ts)
      BY DEF Steady
    <3>1. CASE i = Len(acc)
      <4>1. acc # << >> /\ new[i] = acc[Len(acc)] /\ new[i + 1] = pos
        BY <2>5, <3>1
      <4> QED
        BY <2>6, <4>1
    <3>2. CASE i # Len(acc)
      <4>1. i \in 1..Len(acc) - 1 /\ new[i] = acc[i] /\ new[i + 1] = acc[i + 1]
        BY <2>5, <3>2
      <4>2. Steady(acc)
        BY <1>1 DEF RoundOK
      <4> QED
        BY <4>1, <4>2 DEF Steady
    <3> QED
      BY <3>1, <3>2
  <2>8. ASSUME position # NoPosition PROVE \A i \in 1..Len(new) : new[i].ts > position.ts
    <3>1. position \in Positions /\ position.ts \in Nat /\ pos.ts \in Nat /\ pos.ts = raw.ts
      BY <2>1, <2>8 DEF Positions
    <3>2. \A i \in 1..Len(acc) : acc[i].ts > position.ts
      BY <1>1, <2>8 DEF RoundOK
    <3>3. pos.ts > position.ts
      <4>1. CASE acc = << >>
        <5>1. r.previous = position
          BY <1>1, <4>1 DEF RoundOK
        <5>2. position.ts < raw.ts
          BY <1>5, <3>1, <5>1, AcceptedIsSteady
        <5> QED
          BY <3>1, <5>2
      <4>2. CASE acc # << >>
        <5>1. Len(acc) \in 1..Len(acc) /\ acc[Len(acc)] \in Positions
          BY <4>2
        <5>2. acc[Len(acc)].ts > position.ts /\ acc[Len(acc)].ts \in Nat
          BY <3>2, <5>1 DEF Positions
        <5>3. acc[Len(acc)].ts < pos.ts
          BY <2>6, <4>2
        <5> QED
          BY <3>1, <5>2, <5>3
      <4> QED
        BY <4>1, <4>2
    <3> QED
      BY <2>5, <3>2, <3>3
  <2>9. Len(new) + rej = n + 1
    BY <1>2, <2>5
  <2>10. ASSUME position # NoPosition PROVE FollowsOn(position, new[1])
    <3>1. CASE acc = << >>
      <4>1. r.previous = position /\ position \in Positions
        BY <1>1, <2>10, <3>1 DEF RoundOK
      <4>2. new[1] = pos /\ pos.ts = raw.ts /\ pos.at = raw.at
        BY <2>1, <2>5, <3>1
      <4> QED
        BY <1>5, <4>1, <4>2, AcceptedIsSteady DEF FollowsOn
    <3>2. CASE acc # << >>
      <4>1. FollowsOn(position, acc[1])
        BY <1>1, <2>10, <3>2 DEF RoundOK
      <4>2. new[1] = acc[1]
        BY <2>5, <3>2
      <4> QED
        BY <4>1, <4>2
    <3> QED
      BY <3>1, <3>2
  <2> QED
    BY <1>2, <1>3, <2>3, <2>4, <2>5, <2>7, <2>8, <2>9, <2>10 DEF RoundOK
<1> QED
  BY <1>4, <1>5

LEMMA BatchOK ==
  ASSUME NEW sorted \in Seq(RawPings), NEW position, NEW time,
         position \in Positions \/ position = NoPosition
  PROVE  RoundOK(IngestPings(sorted, position, PingConfig, time), Len(sorted), position)
<1>1. PICK N \in Nat : N = Len(sorted)
  OBVIOUS
<1>2. PICK g : Loops(g, N, sorted, position, time) /\ IngestPings(sorted, position, PingConfig, time) = g[N]
  BY <1>1, LoopUnfold
<1>3. RoundOK(g[0], 0, position)
  <2>1. g[0] = [stored |-> position, previous |-> position, accepted |-> << >>, rejected |-> 0]
    BY <1>1, <1>2 DEF Loops
  <2> QED
    BY <2>1 DEF RoundOK, Steady
<1>4. ASSUME NEW n \in 0..N, n # N, RoundOK(g[n], n, position) PROVE RoundOK(g[n + 1], n + 1, position)
  <2>1. n + 1 \in 0..N /\ n + 1 # 0 /\ (n + 1) - 1 = n /\ n \in Nat
    BY <1>1, <1>4
  <2>2. g[n + 1] = IngestPing(g[n], sorted[n + 1], PingConfig, time)
    BY <1>2, <2>1 DEF Loops
  <2>3. sorted[n + 1] \in RawPings
    BY <1>1, <2>1
  <2> QED
    BY <1>4, <2>1, <2>2, <2>3, RoundKeeps
<1>5. ASSUME ~RoundOK(g[N], N, position) PROVE FALSE
  <2>1. PICK S : S = {n \in 0..N : ~RoundOK(g[n], n, position)}
    OBVIOUS
  <2>2. S \subseteq Nat /\ S # {}
    BY <1>1, <1>5, <2>1
  <2>3. PICK k \in S : \A j \in S : k <= j
    BY <2>2, LeastNat
  <2>4. k # 0 /\ k \in 0..N /\ ~RoundOK(g[k], k, position)
    BY <1>3, <2>1, <2>3
  <2>5. k - 1 \in 0..N /\ k - 1 # N /\ (k - 1) + 1 = k /\ k - 1 \notin S
    BY <1>1, <2>3, <2>4
  <2>6. RoundOK(g[k - 1], k - 1, position)
    BY <2>1, <2>5
  <2> QED
    BY <1>4, <2>4, <2>5, <2>6
<1> QED
  BY <1>1, <1>2, <1>5

\* A trail that starts steadily and goes on so is steady.
LEMMA TrailSteady ==
  ASSUME NEW position \in Positions, NEW acc \in Seq(Positions), Steady(acc),
         acc # << >> => FollowsOn(position, acc[1])
  PROVE  Steady(<<position>> \o acc)
<1>1. PICK trail : trail = <<position>> \o acc
  OBVIOUS
<1>2. Len(trail) = Len(acc) + 1 /\ trail[1] = position /\ \A i \in 1..Len(acc) : trail[i + 1] = acc[i]
  BY <1>1
<1>3. ASSUME NEW i \in 1..Len(trail) - 1 PROVE FollowsOn(trail[i], trail[i + 1])
  <2>1. CASE i = 1
    <3>1. acc # << >> /\ trail[i] = position /\ trail[i + 1] = acc[1]
      BY <1>2, <2>1
    <3> QED
      BY <3>1
  <2>2. CASE i # 1
    <3>1. i - 1 \in 1..Len(acc) - 1 /\ trail[i] = acc[i - 1] /\ trail[i + 1] = acc[(i - 1) + 1]
      BY <1>2, <2>2
    <3> QED
      BY <3>1 DEF Steady, FollowsOn
  <2> QED
    BY <2>1, <2>2
<1> QED
  BY <1>1, <1>3 DEF Steady, FollowsOn

\* The second a time lies in.
Whole(t) == (t \div TicksPerSecond) * TicksPerSecond

\* A position not before the second of floor, when there is such a time.
NotBefore(position, floor) == floor = -1 \/ (position \in Positions /\ position.ts >= Whole(floor))

\* A request in flight has read a position not before floor, and what it accepted is after that.
UploadOK(up, floor) ==
  /\ up.phase \in {"idle", "read", "checked"}
  /\ up.phase # "idle" => /\ up.read = NoPosition \/ up.read \in Positions
                         /\ NotBefore(up.read, floor)
  /\ up.phase = "checked" =>
       /\ up.accepted \in Seq(Positions)
       /\ up.read # NoPosition => \A i \in 1..Len(up.accepted) : up.accepted[i].ts > up.read.ts
       /\ Len(up.accepted) + up.rejected = up.size
       /\ Steady(Trail(up.read, up.accepted))

\* The hash is the second of the latest ping written.
HashOK(position, time) ==
  \/ position = NoPosition /\ time = -1
  \/ position \in Positions /\ time \in Nat /\ position.ts = Whole(time)

TrackInv ==
  /\ DOMAIN uploading = Uploads
  /\ HashOK(stored, latest)
  /\ settled \in Nat \cup {-1}
  /\ NotBefore(stored, settled)
  /\ \A u \in Uploads : UploadOK(uploading[u], settled)

\* Whole seconds do not fall behind an earlier whole second.
LEMMA WholeSeconds ==
  ASSUME NEW t \in Nat
  PROVE  /\ Whole(t) \in Nat /\ Whole(t) <= t /\ Whole(t) > t - TicksPerSecond
         /\ \A s \in Nat : Whole(s) <= t => Whole(s) <= Whole(t)
  BY DEF Whole, TicksPerSecond

LEMMA SortedPings == ASSUME NEW batch \in Batches, NEW sorted \in ByDeviceTs(batch)
                     PROVE  batch \in Seq(RawPings) /\ sorted \in Seq(RawPings) /\ Len(sorted) = Len(batch)
<1>1. PICK n \in 1..MaxBatch : batch \in [1..n -> Pings]
  BY DEF Batches
<1>2. Pings \subseteq RawPings
  BY TrackAssumption DEF RawPings, Coordinates
<1>3. n \in Nat /\ DOMAIN batch = 1..n /\ batch \in [1..n -> RawPings]
  BY <1>1, <1>2
<1>4. PICK p \in [DOMAIN batch -> DOMAIN batch] : sorted = [i \in DOMAIN batch |-> batch[p[i]]]
  BY DEF ByDeviceTs
<1>5. sorted \in [1..n -> RawPings]
  BY <1>3, <1>4
<1> QED
  BY <1>3, <1>5

\* The checked batch.
LEMMA ValidateKeeps ==
  ASSUME TrackInv, NEW u \in Uploads, NEW batch \in Batches, ValidatePings(u, batch)
  PROVE  TrackInv'
<1>1. PICK sorted, result, read :
        /\ sorted \in ByDeviceTs(batch) /\ read = uploading[u].read
        /\ result = IngestPings(sorted, read, PingConfig, now)
        /\ uploading' = [uploading EXCEPT ![u] =
             [phase |-> "checked", read |-> read, size |-> Len(batch),
              accepted |-> result.accepted, rejected |-> result.rejected]]
  BY DEF ValidatePings
<1>2. sorted \in Seq(RawPings) /\ Len(sorted) = Len(batch)
  BY <1>1, SortedPings
<1>3. (read = NoPosition \/ read \in Positions) /\ NotBefore(read, settled)
  BY <1>1 DEF TrackInv, UploadOK, ValidatePings
<1>4. RoundOK(result, Len(batch), read)
  BY <1>1, <1>2, <1>3, BatchOK
<1>5. PICK acc \in Seq(Positions) : acc = result.accepted
  BY <1>4 DEF RoundOK
<1>6. /\ Len(acc) + result.rejected = Len(batch) /\ Steady(acc)
      /\ read # NoPosition => \A i \in 1..Len(acc) : acc[i].ts > read.ts
      /\ read # NoPosition /\ acc # << >> => FollowsOn(read, acc[1])
  BY <1>4, <1>5 DEF RoundOK
<1>7. Steady(Trail(read, acc))
  BY <1>3, <1>6, TrailSteady DEF Trail
<1>8. PICK up : up = [phase |-> "checked", read |-> read, size |-> Len(batch),
                      accepted |-> acc, rejected |-> result.rejected]
  OBVIOUS
<1>9. UploadOK(up, settled)
  BY <1>3, <1>6, <1>7, <1>8 DEF UploadOK
<1>10. DOMAIN uploading' = Uploads /\ uploading'[u] = up /\ \A v \in Uploads \ {u} : uploading'[v] = uploading[v]
  BY <1>1, <1>5, <1>8 DEF TrackInv
<1>11. UNCHANGED <<stored, latest, settled>>
  BY DEF ValidatePings
<1> QED
  BY <1>9, <1>10, <1>11 DEF TrackInv

\* The end of a request: when it was the last in flight, what it leaves is the new floor.
LEMMA AnsweredKeeps ==
  ASSUME TrackInv, NEW u \in Uploads, Answered(u), HashOK(stored', latest'), NotBefore(stored', settled)
  PROVE  TrackInv'
<1>1. /\ DOMAIN uploading' = Uploads /\ uploading'[u] = Idle
      /\ \A v \in Uploads \ {u} : uploading'[v] = uploading[v]
  BY DEF TrackInv, Answered
<1>2. \A floor : UploadOK(Idle, floor)
  BY DEF UploadOK, Idle
<1>3. CASE settled' = settled
  BY <1>1, <1>2, <1>3 DEF TrackInv
<1>4. CASE settled' # settled
  <2>1. settled' = latest' /\ \A v \in Uploads \ {u} : uploading[v].phase = "idle"
    BY <1>4 DEF Answered
  <2>2. settled' \in Nat \cup {-1}
    BY <2>1 DEF HashOK
  <2>3. NotBefore(stored', settled')
    <3>1. CASE settled' = -1
      BY <3>1 DEF NotBefore
    <3>2. CASE settled' \in Nat
      <4>1. stored' \in Positions /\ stored'.ts = Whole(settled')
        BY <2>1, <3>2 DEF HashOK
      <4>2. Whole(settled') \in Nat
        BY <3>2, WholeSeconds
      <4> QED
        BY <4>1, <4>2 DEF NotBefore
    <3> QED
      BY <2>2, <3>1, <3>2
  <2>4. \A v \in Uploads \ {u} : UploadOK(uploading[v], settled')
    BY <2>1 DEF UploadOK
  <2> QED
    BY <1>1, <1>2, <2>2, <2>3, <2>4 DEF TrackInv
<1> QED
  BY <1>3, <1>4

\* The write: what was accepted is after a position not before the floor.
LEMMA UpsertKeeps ==
  ASSUME TrackInv, NEW u \in Uploads, UpsertPosition(u) PROVE TrackInv'
<1>1. PICK up : up = uploading[u] /\ up.phase = "checked" /\ UploadOK(up, settled)
  BY DEF TrackInv, UpsertPosition
<1>2. PICK acc \in Seq(Positions) : acc = up.accepted
  BY <1>1 DEF UploadOK
<1>3. CASE acc = << >>
  <2>1. stored' = stored /\ latest' = latest
    BY <1>1, <1>2, <1>3 DEF UpsertPosition
  <2> QED
    BY <2>1, AnsweredKeeps DEF TrackInv, UpsertPosition
<1>4. CASE acc # << >>
  <2>1. PICK last \in Positions : last = acc[Len(acc)] /\ Len(acc) \in 1..Len(acc)
    BY <1>4
  <2>2. PICK t \in Nat : t = last.ts
    BY DEF Positions
  <2>3. stored' = [last EXCEPT !.ts = Whole(t)] /\ latest' = t
    BY <1>1, <1>2, <1>4, <2>1, <2>2 DEF UpsertPosition, Last, Rehashed, Whole
  <2>4. PICK w \in Nat : w = Whole(t)
    BY WholeSeconds
  <2>5. stored' \in Positions /\ stored'.ts = w
    BY <2>3, <2>4 DEF Positions
  <2>6. HashOK(stored', latest')
    BY <2>3, <2>4, <2>5 DEF HashOK
  <2>7. NotBefore(stored', settled)
    <3>1. CASE settled = -1
      BY <3>1 DEF NotBefore
    <3>2. CASE settled # -1
      <4>1. PICK s \in Nat : s = settled
        BY <3>2 DEF TrackInv
      <4>2. PICK f \in Nat : f = Whole(s)
        BY WholeSeconds
      <4>3. up.read \in Positions /\ up.read.ts >= f
        BY <1>1, <3>2, <4>1, <4>2 DEF UploadOK, NotBefore
      <4>4. up.read # NoPosition /\ up.read.ts \in Nat
        BY <4>3 DEF Positions, NoPosition
      <4>5. t > up.read.ts
        BY <1>1, <1>2, <2>1, <2>2, <4>4 DEF UploadOK
      <4>6. f <= t
        BY <4>3, <4>4, <4>5
      <4>7. f <= w
        BY <2>4, <4>1, <4>2, <4>6, WholeSeconds
      <4> QED
        BY <2>5, <4>1, <4>2, <4>7 DEF NotBefore
    <3> QED
      BY <3>1, <3>2
  <2> QED
    BY <2>6, <2>7, AnsweredKeeps DEF UpsertPosition
<1> QED
  BY <1>3, <1>4

LEMMA TrackStep == TrackInv /\ [TrackNext \/ SummaryNext]_trackVars => TrackInv'
<1> SUFFICES ASSUME TrackInv, [TrackNext \/ SummaryNext]_trackVars PROVE TrackInv'
  OBVIOUS
<1>1. CASE ClockTicks \/ SummaryNext \/ UNCHANGED trackVars
  <2>1. UNCHANGED <<stored, uploading, latest, settled>>
    BY <1>1 DEF ClockTicks, SummaryNext, DrawSummary, trackVars
  <2> QED
    BY <2>1 DEF TrackInv
<1>2. ASSUME NEW u \in Uploads, ReadLastPosition(u) PROVE TrackInv'
  <2>1. PICK up : up = [Idle EXCEPT !.phase = "read", !.read = stored]
    OBVIOUS
  <2>2. up.phase = "read" /\ up.read = stored
    BY <2>1 DEF Idle
  <2>3. UploadOK(up, settled)
    BY <2>2 DEF TrackInv, HashOK, UploadOK
  <2>4. DOMAIN uploading' = Uploads /\ uploading'[u] = up /\ \A v \in Uploads \ {u} : uploading'[v] = uploading[v]
    BY <1>2, <2>1 DEF TrackInv, ReadLastPosition, LastPosition
  <2>5. UNCHANGED <<stored, latest, settled>>
    BY <1>2 DEF ReadLastPosition
  <2> QED
    BY <2>3, <2>4, <2>5 DEF TrackInv
<1>3. ASSUME NEW u \in Uploads, NEW batch \in Batches, ValidatePings(u, batch) PROVE TrackInv'
  BY <1>3, ValidateKeeps
<1>4. ASSUME NEW u \in Uploads, UpsertPosition(u) PROVE TrackInv'
  BY <1>4, UpsertKeeps
<1>5. ASSUME NEW u \in Uploads, UploadLost(u) PROVE TrackInv'
  BY <1>5, AnsweredKeeps DEF UploadLost, TrackInv
<1>6. CASE PositionExpires
  <2>1. stored' = NoPosition /\ latest' = -1 /\ settled' = -1 /\ uploading' = uploading
    BY <1>6 DEF PositionExpires
  <2> QED
    BY <2>1 DEF TrackInv, HashOK, NotBefore, UploadOK
<1> QED
  BY <1>1, <1>2, <1>3, <1>4, <1>5, <1>6 DEF TrackNext

\* The invariant gives the property: the latest ping lies in the second the hash has, or later.
LEMMA KeepsOrder == TrackInv => IngestKeepsOrder
<1> SUFFICES ASSUME TrackInv PROVE IngestKeepsOrder
  OBVIOUS
<1>1. \A u \in Uploads : uploading[u].phase = "checked" =>
        /\ Len(uploading[u].accepted) + uploading[u].rejected = uploading[u].size
        /\ Steady(Trail(uploading[u].read, uploading[u].accepted))
  BY DEF TrackInv, UploadOK
<1>2. latest > settled - TicksPerSecond
  <2>1. CASE settled = -1
    BY <2>1 DEF TrackInv, HashOK, TicksPerSecond
  <2>2. CASE settled # -1
    <3>1. PICK s \in Nat : s = settled
      BY <2>2 DEF TrackInv
    <3>2. stored \in Positions /\ stored.ts >= Whole(s)
      BY <2>2, <3>1 DEF TrackInv, NotBefore
    <3>3. stored # NoPosition
      BY <3>2 DEF Positions, NoPosition
    <3>4. PICK t \in Nat : t = latest /\ stored.ts = Whole(t)
      BY <3>3 DEF TrackInv, HashOK
    <3>5. Whole(s) \in Nat /\ Whole(s) > s - TicksPerSecond /\ Whole(t) \in Nat /\ Whole(t) <= t
      BY WholeSeconds
    <3> QED
      BY <3>1, <3>2, <3>4, <3>5 DEF TicksPerSecond
  <2> QED
    BY <2>1, <2>2
<1> QED
  BY <1>1, <1>2 DEF IngestKeepsOrder

\* For any pings, batches, configuration and number of overlapping requests (ingest_pings.go,
\* ping.go:42): every ping of a request is accepted or counted as rejected, the accepted ones
\* keep their order and the speed limit from the position the request read, however
\* sort.Slice arranges equal times; and whichever request writes last, the position does not
\* fall a second or more behind what it was when none of them had begun.
THEOREM IngestKeepsOrderAlways == TrackSpec => []IngestKeepsOrder
<1>1. TrackInit => TrackInv
  BY DEF TrackInit, TrackInv, HashOK, NotBefore, UploadOK, Idle
<1> QED
  BY <1>1, TrackStep, KeepsOrder, PTL DEF TrackSpec

-----------------------------------------------------------------------------
(* The targets of a round.                                                 *)

\* The sequence names each member of S once.
Lists(s, S) == s \in Seq(MatchDrivers) /\ IsInjective(s) /\ Range(s) = S

Precedes(s, d, e) == \E i, j \in DOMAIN s : i < j /\ s[i] = d /\ s[j] = e

\* As many members as places.
LEMMA ListsFacts ==
  ASSUME NEW s, NEW S, Lists(s, S)
  PROVE  /\ s \in Seq(MatchDrivers) /\ Len(s) \in Nat /\ DOMAIN s = 1..Len(s) /\ S \subseteq MatchDrivers
         /\ \A i \in 1..Len(s) : s[i] \in S
         /\ \A d \in S : \E i \in 1..Len(s) : s[i] = d
         /\ \A i, j \in 1..Len(s) : s[i] = s[j] => i = j
         /\ IsFiniteSet(S) /\ Cardinality(S) = Len(s)
<1>1. /\ s \in Seq(MatchDrivers) /\ Len(s) \in Nat /\ DOMAIN s = 1..Len(s)
      /\ \A i \in 1..Len(s) : s[i] \in S
      /\ \A d \in S : \E i \in 1..Len(s) : s[i] = d
      /\ \A i, j \in 1..Len(s) : s[i] = s[j] => i = j
  BY DEF Lists, IsInjective, Range
<1>2. S \subseteq MatchDrivers
  BY <1>1
<1>3. s \in [1..Len(s) -> S]
  BY <1>1
<1>4. s \in Bijection(1..Len(s), S)
  BY <1>1, <1>3 DEF Bijection, Injection, Surjection, IsInjective
<1>5. IsFiniteSet(S) /\ Cardinality(S) = Len(s)
  <2>1. ExistsBijection(1..Len(s), S)
    BY <1>4 DEF ExistsBijection
  <2>2. IsFiniteSet(S)
    BY <1>2, DiscoveryAssumption, FS_Subset
  <2> QED
    BY <1>1, <2>1, <2>2, FS_CountingElements
<1> QED
  BY <1>1, <1>2, <1>5

\* An injection of a finite set into one of its size reaches every member.
LEMMA Onto ==
  ASSUME NEW S, IsFiniteSet(S), NEW n \in Nat, n = Cardinality(S), NEW q \in [1..n -> S],
         \A i, j \in 1..n : i < j => q[i] # q[j]
  PROVE  \A d \in S : \E i \in 1..n : q[i] = d
<1>1. \A i, j \in 1..n : q[i] = q[j] => i = j
  OBVIOUS
<1>2. q \in Injection(1..n, S)
  BY <1>1 DEF Injection, IsInjective
<1>3. Cardinality(1..n) = n
  BY FS_Interval
<1>4. q \in Surjection(1..n, S)
  BY <1>2, <1>3, FS_Injection
<1> QED
  BY <1>4 DEF Surjection

LEMMA Permuted ==
  ASSUME NEW n \in Nat, NEW q \in [1..n -> 1..n], \A i, j \in 1..n : i < j => q[i] # q[j]
  PROVE  \A m \in 1..n : \E i \in 1..n : q[i] = m
<1>1. IsFiniteSet(1..n) /\ Cardinality(1..n) = n
  BY FS_Interval
<1>2. \A i, j \in 1..n : q[i] = q[j] => i = j
  OBVIOUS
<1>3. q \in Injection(1..n, 1..n)
  BY <1>2 DEF Injection, IsInjective
<1>4. q \in Surjection(1..n, 1..n)
  BY <1>1, <1>3, FS_Injection
<1> QED
  BY <1>4 DEF Surjection

\* A search returns everybody it may return, before it is cut.
LEMMA OrderingLists ==
  ASSUME NEW S, S \subseteq MatchDrivers, NEW q \in [1..Cardinality(S) -> S],
         \A i, j \in 1..Cardinality(S) : i < j => q[i] # q[j]
  PROVE  Lists(q, S)
<1>1. IsFiniteSet(S)
  BY DiscoveryAssumption, FS_Subset
<1>2. PICK n \in Nat : n = Cardinality(S) /\ \A d \in S : \E i \in 1..n : q[i] = d
  <2>1. PICK n \in Nat : n = Cardinality(S)
    BY <1>1, FS_CardinalityType
  <2>2. q \in [1..n -> S] /\ \A i, j \in 1..n : i < j => q[i] # q[j]
    BY <2>1
  <2>3. \A d \in S : \E i \in 1..n : q[i] = d
    BY <1>1, <2>1, <2>2, Onto
  <2> QED
    BY <2>1, <2>3
<1>3. q \in Seq(MatchDrivers) /\ DOMAIN q = 1..n
  BY <1>2
<1>4. \A i, j \in 1..n : q[i] = q[j] => i = j
  BY <1>2
<1>5. Range(q) = S
  BY <1>2, <1>3 DEF Range
<1> QED
  BY <1>3, <1>4, <1>5 DEF Lists, IsInjective

\* What a cut leaves.
LEMMA PrefixFacts ==
  ASSUME NEW s, NEW S, Lists(s, S), NEW n \in Nat, NEW p, p = Prefix(s, n)
  PROVE  /\ Lists(p, Range(p)) /\ Range(p) \subseteq S
         /\ Len(p) <= n /\ Len(p) <= Len(s) /\ (Len(p) < n => Len(p) = Len(s))
         /\ \A i \in 1..Len(p) : p[i] = s[i]
<1>1. PICK k \in Nat : k = (IF n < Len(s) THEN n ELSE Len(s))
  BY ListsFacts
<1>2. k <= n /\ k <= Len(s) /\ (k < n => k = Len(s))
  BY <1>1, ListsFacts
<1>3. p = SubSeq(s, 0 + 1, k)
  BY <1>1 DEF Prefix
<1>4. /\ p \in Seq(MatchDrivers) /\ Len(p) = k - 0 /\ \A i \in 1..k - 0 : p[i] = s[0 + i]
  BY <1>2, <1>3, ListsFacts, Slice
<1>5. Len(p) = k /\ DOMAIN p = 1..k /\ \A i \in 1..k : p[i] = s[i]
  BY <1>4
<1>6. IsInjective(p)
  BY <1>2, <1>5, ListsFacts DEF IsInjective
<1>7. Range(p) \subseteq S
  BY <1>2, <1>5, ListsFacts DEF Range
<1> QED
  BY <1>2, <1>4, <1>5, <1>6, <1>7 DEF Lists

\* The function Among computes.
Keeps(g, m, seq, T) ==
  g = [n \in 0..m |-> IF n = 0 THEN << >>
                      ELSE IF seq[n] \in T THEN Append(g[n - 1], seq[n]) ELSE g[n - 1]]

\* There is such a function, by the smallest length for which there is none.
LEMMA KeepsExists ==
  ASSUME NEW seq, NEW T, NEW m \in Nat
  PROVE  \E g : Keeps(g, m, seq, T)
<1> SUFFICES ASSUME \A g : ~Keeps(g, m, seq, T) PROVE FALSE
  OBVIOUS
<1>1. PICK k \in Nat : /\ \A g : ~Keeps(g, k, seq, T)
                       /\ \A j \in Nat : j < k => \E g : Keeps(g, j, seq, T)
  <2>1. PICK S : S = {j \in Nat : \A g : ~Keeps(g, j, seq, T)}
    OBVIOUS
  <2>2. S \subseteq Nat /\ S # {}
    BY <2>1
  <2>3. PICK k \in S : \A j \in S : k <= j
    BY <2>2, LeastNat
  <2> QED
    BY <2>1, <2>3
<1>2. CASE k = 0
  <2>1. PICK g : g = [n \in 0..0 |-> << >>]
    OBVIOUS
  <2>2. Keeps(g, 0, seq, T)
    BY <2>1 DEF Keeps
  <2> QED
    BY <1>1, <1>2, <2>2
<1>3. CASE k # 0
  <2>1. k - 1 \in Nat /\ k - 1 < k
    BY <1>3
  <2>2. PICK g : Keeps(g, k - 1, seq, T)
    BY <1>1, <2>1
  <2>3. PICK last : last = IF seq[k] \in T THEN Append(g[k - 1], seq[k]) ELSE g[k - 1]
    OBVIOUS
  <2>4. PICK h : h = [n \in 0..k |-> IF n = k THEN last ELSE g[n]]
    OBVIOUS
  <2>5. h[k] = last /\ \A n \in 0..k - 1 : h[n] = g[n]
    BY <2>1, <2>4
  <2>6. ASSUME NEW n \in 0..k
        PROVE  h[n] = IF n = 0 THEN << >>
                      ELSE IF seq[n] \in T THEN Append(h[n - 1], seq[n]) ELSE h[n - 1]
    <3>1. CASE n = k
      <4>1. h[n - 1] = g[k - 1]
        BY <2>1, <2>5, <3>1
      <4> QED
        BY <1>3, <2>3, <2>5, <3>1, <4>1
    <3>2. CASE n # k
      <4>1. n \in 0..k - 1 /\ (n # 0 => n - 1 \in 0..k - 1)
        BY <3>2
      <4>2. g[n] = IF n = 0 THEN << >>
                   ELSE IF seq[n] \in T THEN Append(g[n - 1], seq[n]) ELSE g[n - 1]
        BY <2>2, <4>1 DEF Keeps
      <4> QED
        BY <2>5, <4>1, <4>2
    <3> QED
      BY <3>1, <3>2
  <2>7. Keeps(h, k, seq, T)
    BY <2>4, <2>6 DEF Keeps
  <2> QED
    BY <1>1, <2>7
<1> QED
  BY <1>2, <1>3

LEMMA AmongUnfold ==
  ASSUME NEW seq, NEW T, Len(seq) \in Nat
  PROVE  \E g : Keeps(g, Len(seq), seq, T) /\ Among(seq, T) = g[Len(seq)]
<1>1. PICK g : g = CHOOSE f : Keeps(f, Len(seq), seq, T)
  OBVIOUS
<1>2. Keeps(g, Len(seq), seq, T)
  BY <1>1, KeepsExists
<1>3. Among(seq, T) = g[Len(seq)]
  BY <1>1 DEF Among, Keeps
<1> QED
  BY <1>2, <1>3

\* What the loop has kept of the first n: members of T, each once, in the order of seq.
KeptOK(a, n, seq, T) ==
  /\ a \in Seq(MatchDrivers)
  /\ \A i \in 1..Len(a) : \E m \in 1..n : seq[m] = a[i] /\ seq[m] \in T
  /\ \A m \in 1..n : seq[m] \in T => \E i \in 1..Len(a) : a[i] = seq[m]
  /\ \A i, j \in 1..Len(a) : i < j => \E m, l \in 1..n : m < l /\ seq[m] = a[i] /\ seq[l] = a[j]

\* One round of the loop.
LEMMA KeptStep ==
  ASSUME NEW seq \in Seq(MatchDrivers), NEW T, NEW n \in Nat, n < Len(seq), NEW a, KeptOK(a, n, seq, T),
         NEW b, b = IF seq[n + 1] \in T THEN Append(a, seq[n + 1]) ELSE a
  PROVE  KeptOK(b, n + 1, seq, T)
<1>1. PICK d \in MatchDrivers : d = seq[n + 1]
  OBVIOUS
<1>2. a \in Seq(MatchDrivers) /\ Len(a) \in Nat
  BY DEF KeptOK
<1>3. CASE d \notin T
  <2>1. b = a
    BY <1>1, <1>3
  <2>2. \A i \in 1..Len(a) : \E m \in 1..n + 1 : seq[m] = a[i] /\ seq[m] \in T
    <3> SUFFICES ASSUME NEW i \in 1..Len(a) PROVE \E m \in 1..n + 1 : seq[m] = a[i] /\ seq[m] \in T
      OBVIOUS
    <3>1. PICK m \in 1..n : seq[m] = a[i] /\ seq[m] \in T
      BY DEF KeptOK
    <3>2. m \in 1..n + 1
      OBVIOUS
    <3> QED
      BY <3>1, <3>2
  <2>3. \A m \in 1..n + 1 : seq[m] \in T => \E i \in 1..Len(a) : a[i] = seq[m]
    <3> SUFFICES ASSUME NEW m \in 1..n + 1, seq[m] \in T PROVE \E i \in 1..Len(a) : a[i] = seq[m]
      OBVIOUS
    <3>1. m \in 1..n
      BY <1>1, <1>3
    <3> QED
      BY <3>1 DEF KeptOK
  <2>4. \A i, j \in 1..Len(a) : i < j => \E m, l \in 1..n + 1 : m < l /\ seq[m] = a[i] /\ seq[l] = a[j]
    <3> SUFFICES ASSUME NEW i \in 1..Len(a), NEW j \in 1..Len(a), i < j
                 PROVE  \E m, l \in 1..n + 1 : m < l /\ seq[m] = a[i] /\ seq[l] = a[j]
      OBVIOUS
    <3>1. PICK m, l \in 1..n : m < l /\ seq[m] = a[i] /\ seq[l] = a[j]
      BY DEF KeptOK
    <3>2. m \in 1..n + 1 /\ l \in 1..n + 1
      OBVIOUS
    <3> QED
      BY <3>1, <3>2
  <2>5. KeptOK(a, n + 1, seq, T)
    BY <1>2, <2>2, <2>3, <2>4, Zenon DEF KeptOK
  <2> QED
    BY <2>1, <2>5
<1>4. CASE d \in T
  <2>1. b = Append(a, d)
    BY <1>1, <1>4
  <2>2. /\ b \in Seq(MatchDrivers) /\ Len(b) = Len(a) + 1 /\ b[Len(a) + 1] = d
        /\ \A i \in 1..Len(a) : b[i] = a[i]
    BY <1>2, <2>1
  <2>3. \A i \in 1..Len(b) : \E m \in 1..n + 1 : seq[m] = b[i] /\ seq[m] \in T
    <3> SUFFICES ASSUME NEW i \in 1..Len(b) PROVE \E m \in 1..n + 1 : seq[m] = b[i] /\ seq[m] \in T
      OBVIOUS
    <3>1. CASE i = Len(a) + 1
      BY <1>1, <1>4, <2>2, <3>1
    <3>2. CASE i \in 1..Len(a)
      <4>1. PICK m \in 1..n : seq[m] = a[i] /\ seq[m] \in T
        BY <3>2 DEF KeptOK
      <4>2. m \in 1..n + 1 /\ b[i] = a[i]
        BY <2>2, <3>2
      <4> QED
        BY <4>1, <4>2
    <3> QED
      BY <1>2, <2>2, <3>1, <3>2
  <2>4. \A m \in 1..n + 1 : seq[m] \in T => \E i \in 1..Len(b) : b[i] = seq[m]
    <3> SUFFICES ASSUME NEW m \in 1..n + 1, seq[m] \in T PROVE \E i \in 1..Len(b) : b[i] = seq[m]
      OBVIOUS
    <3>1. CASE m = n + 1
      <4>1. Len(a) + 1 \in 1..Len(b) /\ b[Len(a) + 1] = seq[m]
        BY <1>1, <1>2, <2>2, <3>1
      <4> QED
        BY <4>1
    <3>2. CASE m \in 1..n
      <4>1. PICK i \in 1..Len(a) : a[i] = seq[m]
        BY <3>2 DEF KeptOK
      <4>2. i \in 1..Len(b) /\ b[i] = a[i]
        BY <1>2, <2>2
      <4> QED
        BY <4>1, <4>2
    <3> QED
      BY <3>1, <3>2
  <2>5. \A i, j \in 1..Len(b) : i < j => \E m, l \in 1..n + 1 : m < l /\ seq[m] = b[i] /\ seq[l] = b[j]
    <3> SUFFICES ASSUME NEW i \in 1..Len(b), NEW j \in 1..Len(b), i < j
                 PROVE  \E m, l \in 1..n + 1 : m < l /\ seq[m] = b[i] /\ seq[l] = b[j]
      OBVIOUS
    <3>1. i \in 1..Len(a) /\ b[i] = a[i]
      BY <1>2, <2>2
    <3>2. CASE j = Len(a) + 1
      <4>1. PICK m \in 1..n : seq[m] = a[i]
        BY <3>1 DEF KeptOK
      <4>2. m \in 1..n + 1 /\ n + 1 \in 1..n + 1 /\ m < n + 1 /\ seq[n + 1] = b[j]
        BY <1>1, <2>2, <3>2
      <4> QED
        BY <3>1, <4>1, <4>2
    <3>3. CASE j \in 1..Len(a)
      <4>1. PICK m, l \in 1..n : m < l /\ seq[m] = a[i] /\ seq[l] = a[j]
        BY <3>1, <3>3 DEF KeptOK
      <4>2. m \in 1..n + 1 /\ l \in 1..n + 1 /\ b[j] = a[j]
        BY <2>2, <3>3
      <4> QED
        BY <3>1, <4>1, <4>2
    <3> QED
      BY <1>2, <2>2, <3>2, <3>3
  <2> QED
    BY <2>2, <2>3, <2>4, <2>5 DEF KeptOK
<1> QED
  BY <1>3, <1>4

LEMMA AmongKept ==
  ASSUME NEW seq \in Seq(MatchDrivers), NEW T
  PROVE  KeptOK(Among(seq, T), Len(seq), seq, T)
<1>1. PICK N \in Nat : N = Len(seq)
  OBVIOUS
<1>2. PICK g : Keeps(g, N, seq, T) /\ Among(seq, T) = g[N]
  BY <1>1, AmongUnfold
<1>3. g[0] = << >> /\ \A n \in 1..N : g[n] = IF seq[n] \in T THEN Append(g[n - 1], seq[n]) ELSE g[n - 1]
  <2>1. \A n \in 0..N : g[n] = IF n = 0 THEN << >>
                               ELSE IF seq[n] \in T THEN Append(g[n - 1], seq[n]) ELSE g[n - 1]
    BY <1>1, <1>2 DEF Keeps
  <2> QED
    BY <1>1, <2>1
<1>4. SUFFICES ASSUME ~KeptOK(g[N], N, seq, T) PROVE FALSE
  BY <1>1, <1>2
<1>5. PICK k \in Nat : /\ k <= N /\ ~KeptOK(g[k], k, seq, T)
                       /\ \A j \in Nat : j < k => KeptOK(g[j], j, seq, T)
  <2>1. PICK S : S = {j \in Nat : j <= N /\ ~KeptOK(g[j], j, seq, T)}
    OBVIOUS
  <2>2. S \subseteq Nat /\ N \in S
    BY <1>4, <2>1
  <2>3. PICK k \in S : \A j \in S : k <= j
    BY <2>2, LeastNat
  <2> QED
    BY <1>1, <2>1, <2>3
<1>6. CASE k = 0
  <2>1. PICK e : e = g[0] /\ e = << >>
    BY <1>3
  <2>2. e \in Seq(MatchDrivers) /\ Len(e) = 0
    BY <2>1
  <2>3. KeptOK(e, 0, seq, T)
    BY <2>2 DEF KeptOK
  <2> QED
    BY <1>5, <1>6, <2>1, <2>3
<1>7. CASE k # 0
  <2>1. PICK j \in Nat : k = j + 1
    <3>1. k - 1 \in Nat /\ k = (k - 1) + 1
      BY <1>7
    <3> QED
      BY <3>1
  <2>2. j < Len(seq) /\ j < k /\ k \in 1..N /\ k - 1 = j
    BY <1>1, <1>5, <2>1
  <2>3. KeptOK(g[j], j, seq, T)
    BY <1>5, <2>2
  <2>4. g[k] = IF seq[j + 1] \in T THEN Append(g[j], seq[j + 1]) ELSE g[j]
    BY <1>3, <2>1, <2>2
  <2>5. KeptOK(g[k], j + 1, seq, T)
    BY <2>2, <2>3, <2>4, KeptStep
  <2> QED
    BY <1>5, <2>1, <2>5
<1> QED
  BY <1>6, <1>7

\* A filter keeps what it lets through, in order.
LEMMA AmongLists ==
  ASSUME NEW s, NEW S, Lists(s, S), NEW T, NEW a, a = Among(s, T)
  PROVE  Lists(a, S \cap T) /\ \A i, j \in 1..Len(a) : i < j => Precedes(s, a[i], a[j])
<1>1. KeptOK(a, Len(s), s, T)
  BY AmongKept, ListsFacts
<1>2. a \in Seq(MatchDrivers) /\ Len(a) \in Nat /\ DOMAIN a = 1..Len(a)
  BY <1>1 DEF KeptOK
<1>3. \A i, j \in 1..Len(a) : i < j => Precedes(s, a[i], a[j]) /\ a[i] # a[j]
  <2> SUFFICES ASSUME NEW i \in 1..Len(a), NEW j \in 1..Len(a), i < j
               PROVE  Precedes(s, a[i], a[j]) /\ a[i] # a[j]
    OBVIOUS
  <2>1. PICK m, l \in 1..Len(s) : m < l /\ s[m] = a[i] /\ s[l] = a[j]
    BY <1>1 DEF KeptOK
  <2>2. Precedes(s, a[i], a[j])
    BY <2>1, ListsFacts DEF Precedes
  <2>3. m # l
    BY <2>1, ListsFacts
  <2> QED
    BY <2>1, <2>2, <2>3, ListsFacts
<1>4. \A i, j \in 1..Len(a) : a[i] = a[j] => i = j
  BY <1>2, <1>3
<1>5. Range(a) \subseteq S \cap T
  <2> SUFFICES ASSUME NEW i \in 1..Len(a) PROVE a[i] \in S \cap T
    BY <1>2 DEF Range
  <2>1. PICK m \in 1..Len(s) : s[m] = a[i] /\ s[m] \in T
    BY <1>1 DEF KeptOK
  <2> QED
    BY <2>1, ListsFacts
<1>6. S \cap T \subseteq Range(a)
  <2> SUFFICES ASSUME NEW d \in S \cap T PROVE d \in Range(a)
    OBVIOUS
  <2>1. PICK m \in 1..Len(s) : s[m] = d
    BY ListsFacts
  <2>2. PICK i \in 1..Len(a) : a[i] = s[m]
    BY <1>1, <2>1 DEF KeptOK
  <2> QED
    BY <1>2, <2>1, <2>2 DEF Range
<1> QED
  BY <1>2, <1>3, <1>4, <1>5, <1>6 DEF Lists, IsInjective

\* A stable sort keeps the members and puts the higher keys first.
LEMMA RankedLists ==
  ASSUME NEW ids, NEW S, Lists(ids, S), NEW key \in [S -> Int], NEW r \in StableByKey(ids, key)
  PROVE  Lists(r, S) /\ \A i, j \in 1..Len(r) : i < j => key[r[i]] >= key[r[j]]
<1>1. PICK N \in Nat : N = Len(ids) /\ DOMAIN ids = 1..N /\ Cardinality(DOMAIN ids) = N /\ IsFiniteSet(1..N)
  BY ListsFacts, FS_Interval
<1>2. PICK q \in [1..N -> 1..N] :
        /\ r = [n \in 1..N |-> ids[q[n]]]
        /\ \A i, j \in 1..N : i < j => \/ key[ids[q[i]]] > key[ids[q[j]]]
                                       \/ key[ids[q[i]]] = key[ids[q[j]]] /\ q[i] < q[j]
  BY <1>1 DEF StableByKey, Orderings
<1>3. \A i \in 1..N : q[i] \in 1..N /\ ids[q[i]] \in S /\ key[ids[q[i]]] \in Int /\ r[i] = ids[q[i]]
  BY <1>1, <1>2, ListsFacts
<1>4. \A i, j \in 1..N : i < j => q[i] # q[j] /\ key[r[i]] >= key[r[j]]
  <2> SUFFICES ASSUME NEW i \in 1..N, NEW j \in 1..N, i < j PROVE q[i] # q[j] /\ key[r[i]] >= key[r[j]]
    OBVIOUS
  <2>1. PICK x \in Int, y \in Int : x = key[ids[q[i]]] /\ y = key[ids[q[j]]]
    BY <1>3
  <2>2. x > y \/ (x = y /\ q[i] < q[j])
    BY <1>2, <2>1
  <2>3. q[i] = q[j] => x = y
    BY <2>1
  <2>4. x >= y /\ q[i] # q[j]
    BY <1>3, <2>2, <2>3
  <2> QED
    BY <1>3, <2>1, <2>4
<1>5. \A m \in 1..N : \E i \in 1..N : q[i] = m
  <2>1. \A i, j \in 1..N : i < j => q[i] # q[j]
    BY <1>4
  <2> QED
    BY <2>1, Permuted
<1>6. r \in Seq(MatchDrivers) /\ Len(r) = N /\ DOMAIN r = 1..N
  <2>1. \A i \in 1..N : ids[q[i]] \in MatchDrivers
    BY <1>3, ListsFacts
  <2> QED
    BY <1>2, <2>1
<1>7. \A i, j \in 1..N : r[i] = r[j] => i = j
  <2> SUFFICES ASSUME NEW i \in 1..N, NEW j \in 1..N, r[i] = r[j] PROVE i = j
    OBVIOUS
  <2>1. ids[q[i]] = ids[q[j]] /\ q[i] \in 1..N /\ q[j] \in 1..N
    BY <1>3
  <2>2. q[i] = q[j]
    BY <1>1, <2>1, ListsFacts
  <2> QED
    BY <1>4, <2>2
<1>8. Range(r) = S
  <2>1. Range(r) \subseteq S
    BY <1>3, <1>6 DEF Range
  <2>2. ASSUME NEW d \in S PROVE d \in Range(r)
    <3>1. PICK m \in 1..N : ids[m] = d
      BY <1>1, ListsFacts
    <3>2. PICK i \in 1..N : q[i] = m
      BY <1>5
    <3> QED
      BY <1>3, <1>6, <3>1, <3>2 DEF Range
  <2> QED
    BY <2>1, <2>2
<1> QED
  BY <1>4, <1>6, <1>7, <1>8 DEF Lists, IsInjective

-----------------------------------------------------------------------------
(* Ranking.                                                                *)

Bounds(b, f, n) == \A i \in 1..n : f[i] <= b

\* Finitely many numbers have a bound.
LEMMA Bounded ==
  ASSUME NEW N \in Nat, NEW f, \A i \in 1..N : f[i] \in Nat
  PROVE  \E b \in Nat : Bounds(b, f, N)
<1> SUFFICES ASSUME \A b \in Nat : ~Bounds(b, f, N) PROVE FALSE
  OBVIOUS
<1>1. PICK k \in Nat : /\ k <= N /\ \A b \in Nat : ~Bounds(b, f, k)
                       /\ \A j \in Nat : j < k => \E b \in Nat : Bounds(b, f, j)
  <2>1. PICK S : S = {j \in Nat : j <= N /\ \A b \in Nat : ~Bounds(b, f, j)}
    OBVIOUS
  <2>2. S \subseteq Nat /\ N \in S
    BY <2>1
  <2>3. PICK k \in S : \A j \in S : k <= j
    BY <2>2, LeastNat
  <2>4. k \in Nat /\ k <= N /\ \A b \in Nat : ~Bounds(b, f, k)
    BY <2>1, <2>3
  <2>5. ASSUME NEW j \in Nat, j < k PROVE \E b \in Nat : Bounds(b, f, j)
    <3>1. j \notin S
      BY <2>3, <2>4, <2>5
    <3> QED
      BY <2>1, <2>4, <2>5, <3>1
  <2> QED
    BY <2>4, <2>5
<1>2. k # 0
  <2>1. Bounds(0, f, 0)
    BY DEF Bounds
  <2> QED
    BY <1>1, <2>1
<1>3. k - 1 \in Nat /\ k - 1 < k /\ f[k] \in Nat
  BY <1>1, <1>2
<1>4. PICK b \in Nat : Bounds(b, f, k - 1)
  BY <1>1, <1>3
<1>5. b + f[k] \in Nat
  BY <1>3
<1>6. Bounds(b + f[k], f, k)
  <2> SUFFICES ASSUME NEW i \in 1..k PROVE f[i] <= b + f[k]
    BY DEF Bounds
  <2>1. f[i] \in Nat
    BY <1>1
  <2>2. i = k \/ f[i] <= b
    BY <1>3, <1>4 DEF Bounds
  <2> QED
    BY <1>3, <2>1, <2>2
<1> QED
  BY <1>1, <1>5, <1>6

LEMMA MaxIsIn ==
  ASSUME NEW S, S # {}, S \subseteq Nat, NEW bound \in Nat, \A x \in S : x <= bound
  PROVE  Max(S) \in S /\ \A x \in S : Max(S) >= x
<1>1. PICK D : D = {bound - x : x \in S}
  OBVIOUS
<1>2. D \subseteq Nat /\ D # {}
  <2>1. \A x \in S : bound - x \in Nat
    OBVIOUS
  <2>2. PICK x : x \in S
    OBVIOUS
  <2>3. bound - x \in D
    BY <1>1, <2>2
  <2> QED
    BY <1>1, <2>1, <2>3
<1>3. PICK e \in D : \A y \in D : e <= y
  BY <1>2, LeastNat
<1>4. PICK m \in S : e = bound - m
  BY <1>1, <1>3
<1>5. ASSUME NEW x \in S PROVE m >= x
  <2>1. bound - x \in D
    BY <1>1
  <2>2. x \in Nat /\ m \in Nat /\ bound - m <= bound - x
    BY <1>3, <1>4, <2>1
  <2> QED
    BY <2>2
<1> QED
  BY <1>4, <1>5 DEF Max

LEMMA MinIsLeast ==
  ASSUME NEW S, S # {}, S \subseteq Nat
  PROVE  Min(S) \in S /\ \A x \in S : Min(S) <= x
  BY LeastNat DEF Min

\* The least and the greatest value of the candidates.
LEMMA Extremes ==
  ASSUME NEW N \in Nat, N # 0, NEW f, \A i \in 1..N : f[i] \in Nat, NEW V, V = {f[i] : i \in 1..N}
  PROVE  /\ Min(V) \in Nat /\ Max(V) \in Nat
         /\ \A i \in 1..N : Min(V) <= f[i] /\ f[i] <= Max(V)
<1>1. V \subseteq Nat /\ V # {} /\ \A i \in 1..N : f[i] \in V
  OBVIOUS
<1>2. PICK bound \in Nat : Bounds(bound, f, N)
  BY Bounded
<1>3. \A x \in V : x <= bound
  BY <1>2 DEF Bounds
<1>4. Max(V) \in V /\ \A x \in V : Max(V) >= x
  BY <1>1, <1>3, MaxIsIn
<1>5. Min(V) \in V /\ \A x \in V : Min(V) <= x
  BY <1>1, MinIsLeast
<1>6. Min(V) \in Nat /\ Max(V) \in Nat
  BY <1>1, <1>4, <1>5
<1>7. ASSUME NEW i \in 1..N PROVE Min(V) <= f[i] /\ f[i] <= Max(V)
  <2>1. f[i] \in V
    BY <1>1
  <2>2. Max(V) >= f[i] /\ Min(V) <= f[i]
    BY <1>4, <1>5, <2>1
  <2> QED
    BY <1>6, <2>2
<1> QED
  BY <1>6, <1>7

\* Score over given extremes: of distance dl..dh and of rating rl..rh.
Points(x, y, dl, dh, rl, rh) == Norm(dl + dh - x, dl, dh) * Span(rl, rh) + Norm(y, rl, rh) * Span(dl, dh)

\* Nearer, and rated no worse, scores higher.
LEMMA NearerScores ==
  ASSUME NEW dl \in Nat, NEW dh \in Nat, NEW rl \in Nat, NEW rh \in Nat,
         NEW dd \in Nat, NEW dt \in Nat, NEW rd \in Nat, NEW rt \in Nat,
         dl <= dd, dd < dt, dt <= dh, rl <= rt, rt <= rd, rd <= rh
  PROVE  Points(dd, rd, dl, dh, rl, rh) > Points(dt, rt, dl, dh, rl, rh)
<1>1. PICK w \in Nat : w = Span(dl, dh) /\ w > 0
  <2>1. Span(dl, dh) \in Nat /\ Span(dl, dh) > 0
    BY DEF Span
  <2> QED
    BY <2>1
<1>2. PICK v \in Nat : v = Span(rl, rh) /\ v > 0
  <2>1. Span(rl, rh) \in Nat /\ Span(rl, rh) > 0
    BY DEF Span
  <2> QED
    BY <2>1
<1>3. /\ Norm(dl + dh - dd, dl, dh) = 2 * (dh - dd) /\ Norm(dl + dh - dt, dl, dh) = 2 * (dh - dt)
  BY DEF Norm
<1>4. PICK x \in Int, y \in Int : x = Norm(rd, rl, rh) /\ y = Norm(rt, rl, rh) /\ x >= y
  <2>1. Norm(rd, rl, rh) \in Int /\ Norm(rt, rl, rh) \in Int /\ Norm(rd, rl, rh) >= Norm(rt, rl, rh)
    BY DEF Norm
  <2> QED
    BY <2>1
<1>5. PICK a \in Int, b \in Int : a = 2 * (dh - dd) /\ b = 2 * (dh - dt) /\ a > b
  OBVIOUS
<1>6. a * v > b * v
  <2>1. (a - b) * v > 0
    BY <1>2, <1>5
  <2>2. (a - b) * v = a * v - b * v
    BY <1>2, <1>5
  <2> QED
    BY <1>2, <1>5, <2>1, <2>2
<1>7. x * w >= y * w
  <2>1. (x - y) * w >= 0
    BY <1>1, <1>4
  <2>2. (x - y) * w = x * w - y * w
    BY <1>1, <1>4
  <2> QED
    BY <1>1, <1>4, <2>1, <2>2
<1>8. PICK av \in Int, bv \in Int, xw \in Int, yw \in Int : av = a * v /\ bv = b * v /\ xw = x * w /\ yw = y * w
  BY <1>1, <1>2, <1>4, <1>5
<1>9. av + xw > bv + yw
  BY <1>6, <1>7, <1>8
<1>10. Points(dd, rd, dl, dh, rl, rh) = av + xw /\ Points(dt, rt, dl, dh, rl, rh) = bv + yw
  BY <1>1, <1>2, <1>3, <1>4, <1>5, <1>8 DEF Points
<1> QED
  BY <1>9, <1>10

-----------------------------------------------------------------------------

SceneOK == scene \in [MatchDrivers -> [dist : Nat, rating : Nat, fresh : BOOLEAN, held : BOOLEAN]]

LEMMA SceneFacts ==
  ASSUME SceneOK, NEW d \in MatchDrivers
  PROVE  scene[d].dist \in Nat /\ scene[d].rating \in Nat
  BY DEF SceneOK

\* Whoever is ranked by the rule of the round: nearer and rated no worse (or just rated
\* better) comes first.
Prefers(geo, d, e) ==
  IF geo THEN scene[d].dist < scene[e].dist /\ scene[d].rating >= scene[e].rating
         ELSE scene[d].rating > scene[e].rating

Ranked(r, C, geo) ==
  /\ Lists(r, C)
  /\ \A i, j \in 1..Len(r) : i < j => ~Prefers(geo, r[j], r[i])

LEMMA RatingRanked ==
  ASSUME SceneOK, NEW ids, NEW C, Lists(ids, C),
         NEW r \in StableByKey(ids, [d \in Range(ids) |-> scene[d].rating])
  PROVE  Ranked(r, C, FALSE)
<1>1. PICK key : key = [d \in C |-> scene[d].rating]
  OBVIOUS
<1>2. Range(ids) = C
  BY DEF Lists
<1>3. key \in [C -> Int] /\ r \in StableByKey(ids, key)
  BY <1>1, <1>2, SceneFacts, ListsFacts
<1>4. Lists(r, C) /\ \A i, j \in 1..Len(r) : i < j => key[r[i]] >= key[r[j]]
  BY <1>3, RankedLists
<1>5. ASSUME NEW i \in 1..Len(r), NEW j \in 1..Len(r), i < j PROVE ~Prefers(FALSE, r[j], r[i])
  <2>1. r[i] \in C /\ r[j] \in C /\ C \subseteq MatchDrivers
    BY <1>4, ListsFacts
  <2>2. key[r[i]] >= key[r[j]] /\ key[r[i]] = scene[r[i]].rating /\ key[r[j]] = scene[r[j]].rating
    BY <1>1, <1>4, <1>5, <2>1
  <2>3. scene[r[i]].rating \in Nat /\ scene[r[j]].rating \in Nat
    BY <2>1, SceneFacts
  <2> QED
    BY <2>2, <2>3 DEF Prefers
<1> QED
  BY <1>4, <1>5 DEF Ranked

LEMMA ScoreType ==
  ASSUME NEW dl \in Nat, NEW dh \in Nat, NEW rl \in Nat, NEW rh \in Nat, NEW x \in Nat, NEW y \in Nat
  PROVE  Points(x, y, dl, dh, rl, rh) \in Int
<1>1. Norm(dl + dh - x, dl, dh) \in Int /\ Span(rl, rh) \in Int /\ Norm(y, rl, rh) \in Int /\ Span(dl, dh) \in Int
  BY DEF Norm, Span
<1> QED
  BY <1>1 DEF Points

ScoreOf(ids) ==
  [d \in Range(ids) |-> Score(d, {scene[ids[i]].dist : i \in DOMAIN ids}, {scene[ids[i]].rating : i \in DOMAIN ids})]

LEMMA ScoreRanked ==
  ASSUME SceneOK, NEW ids, NEW C, Lists(ids, C), Len(ids) > 1, NEW r \in StableByKey(ids, ScoreOf(ids))
  PROVE  Ranked(r, C, TRUE)
<1>a. PICK dists : dists = {scene[ids[i]].dist : i \in DOMAIN ids}
  OBVIOUS
<1>b. PICK ratings : ratings = {scene[ids[i]].rating : i \in DOMAIN ids}
  OBVIOUS
<1>1. PICK N \in Nat : N = Len(ids) /\ N # 0 /\ DOMAIN ids = 1..N
  BY ListsFacts
<1>2. \A i \in 1..N : ids[i] \in MatchDrivers
  BY <1>1, ListsFacts
<1>3. PICK f : f = [i \in 1..N |-> scene[ids[i]].dist]
  OBVIOUS
<1>4. PICK g : g = [i \in 1..N |-> scene[ids[i]].rating]
  OBVIOUS
<1>5. (\A i \in 1..N : f[i] \in Nat /\ f[i] = scene[ids[i]].dist) /\ dists = {f[i] : i \in 1..N}
  BY <1>a, <1>1, <1>2, <1>3, SceneFacts
<1>6. (\A i \in 1..N : g[i] \in Nat /\ g[i] = scene[ids[i]].rating) /\ ratings = {g[i] : i \in 1..N}
  BY <1>b, <1>1, <1>2, <1>4, SceneFacts
<1>7. PICK dl \in Nat, dh \in Nat : /\ dl = Min(dists) /\ dh = Max(dists)
                                    /\ \A i \in 1..N : dl <= f[i] /\ f[i] <= dh
  <2>1. (\A i \in 1..N : f[i] \in Nat) /\ dists = {f[i] : i \in 1..N}
    BY <1>5
  <2>2. /\ Min(dists) \in Nat /\ Max(dists) \in Nat
        /\ \A i \in 1..N : Min(dists) <= f[i] /\ f[i] <= Max(dists)
    BY <1>1, <2>1, Extremes
  <2> QED
    BY <2>2
<1>8. PICK rl \in Nat, rh \in Nat : /\ rl = Min(ratings) /\ rh = Max(ratings)
                                    /\ \A i \in 1..N : rl <= g[i] /\ g[i] <= rh
  <2>1. (\A i \in 1..N : g[i] \in Nat) /\ ratings = {g[i] : i \in 1..N}
    BY <1>6
  <2>2. /\ Min(ratings) \in Nat /\ Max(ratings) \in Nat
        /\ \A i \in 1..N : Min(ratings) <= g[i] /\ g[i] <= Max(ratings)
    BY <1>1, <2>1, Extremes
  <2> QED
    BY <2>2
<1>9. PICK key : key = [d \in C |-> Score(d, dists, ratings)]
  OBVIOUS
<1>10. Range(ids) = C
  BY DEF Lists
<1>11. ASSUME NEW d \in C
       PROVE  /\ dl <= scene[d].dist /\ scene[d].dist <= dh /\ rl <= scene[d].rating /\ scene[d].rating <= rh
              /\ scene[d].dist \in Nat /\ scene[d].rating \in Nat
              /\ key[d] = Points(scene[d].dist, scene[d].rating, dl, dh, rl, rh)
  <2>1. PICK i \in 1..N : ids[i] = d
    BY <1>1, ListsFacts
  <2>2. key[d] = Score(d, dists, ratings)
    BY <1>9
  <2>3. key[d] = Points(scene[d].dist, scene[d].rating, dl, dh, rl, rh)
    BY <1>7, <1>8, <2>2 DEF Score, Points
  <2>4. f[i] = scene[d].dist /\ g[i] = scene[d].rating /\ f[i] \in Nat /\ g[i] \in Nat
    BY <1>5, <1>6, <2>1
  <2> QED
    BY <1>7, <1>8, <2>3, <2>4
<1>12. key \in [C -> Int]
  <2>1. ASSUME NEW d \in C PROVE key[d] \in Int
    <3>1. PICK x \in Nat, y \in Nat : x = scene[d].dist /\ y = scene[d].rating
      BY <1>11
    <3>2. key[d] = Points(x, y, dl, dh, rl, rh)
      BY <1>11, <3>1
    <3>3. Points(x, y, dl, dh, rl, rh) \in Int
      BY ScoreType, Zenon
    <3> QED
      BY <3>2, <3>3
  <2> QED
    BY <1>9, <2>1
<1>13. r \in StableByKey(ids, key)
  BY <1>a, <1>b, <1>9, <1>10 DEF ScoreOf
<1>14. Lists(r, C) /\ \A i, j \in 1..Len(r) : i < j => key[r[i]] >= key[r[j]]
  BY <1>12, <1>13, RankedLists
<1>15. ASSUME NEW i \in 1..Len(r), NEW j \in 1..Len(r), i < j, Prefers(TRUE, r[j], r[i]) PROVE FALSE
  <2>1. PICK d \in C, t \in C : d = r[j] /\ t = r[i]
    BY <1>14, ListsFacts
  <2>2. scene[d].dist < scene[t].dist /\ scene[t].rating <= scene[d].rating
    <3>1. scene[d].dist < scene[t].dist /\ scene[d].rating >= scene[t].rating
      BY <1>15, <2>1 DEF Prefers
    <3> QED
      BY <1>11, <3>1
  <2>3. key[d] > key[t]
    <3>1. PICK dd \in Nat, rd \in Nat, dt \in Nat, rt \in Nat :
            dd = scene[d].dist /\ rd = scene[d].rating /\ dt = scene[t].dist /\ rt = scene[t].rating
      BY <1>11
    <3>2. dl <= dd /\ dd < dt /\ dt <= dh /\ rl <= rt /\ rt <= rd /\ rd <= rh
      BY <1>11, <2>2, <3>1
    <3>3. key[d] = Points(dd, rd, dl, dh, rl, rh) /\ key[t] = Points(dt, rt, dl, dh, rl, rh)
      BY <1>11, <3>1
    <3>4. Points(dd, rd, dl, dh, rl, rh) > Points(dt, rt, dl, dh, rl, rh)
      BY <3>2, NearerScores
    <3> QED
      BY <3>3, <3>4
  <2>4. key[t] >= key[d] /\ key[t] \in Int /\ key[d] \in Int
    BY <1>12, <1>14, <1>15, <2>1
  <2> QED
    BY <2>3, <2>4
<1> QED
  BY <1>14, <1>15 DEF Ranked

\* RankCandidates, with and without distances.
LEMMA RankKeeps ==
  ASSUME SceneOK, NEW ids, NEW C, Lists(ids, C), NEW geo \in BOOLEAN, NEW r \in RankCandidates(ids, geo)
  PROVE  Ranked(r, C, geo)
<1>1. CASE ~geo
  <2>1. r \in StableByKey(ids, [d \in Range(ids) |-> scene[d].rating])
    BY <1>1 DEF RankCandidates
  <2> QED
    BY <1>1, <2>1, RatingRanked
<1>2. CASE geo /\ Len(ids) > 1
  <2>1. ~(~geo \/ Len(ids) <= 1) /\ Len(ids) > 1
    BY <1>2, ListsFacts
  <2>2. r \in StableByKey(ids, ScoreOf(ids))
    BY <2>1 DEF RankCandidates, ScoreOf
  <2>3. Ranked(r, C, TRUE)
    BY <2>1, <2>2, ScoreRanked
  <2> QED
    BY <1>2, <2>3
<1>3. CASE geo /\ Len(ids) <= 1
  <2>1. r \in StableByKey(ids, [d \in Range(ids) |-> scene[d].rating])
    BY <1>3 DEF RankCandidates
  <2>2. Lists(r, C)
    BY <2>1, RatingRanked DEF Ranked
  <2>3. Len(r) = Len(ids)
    BY <2>2, ListsFacts
  <2>4. \A i, j \in 1..Len(r) : ~(i < j)
    BY <1>3, <2>3, ListsFacts
  <2> QED
    BY <2>2, <2>4 DEF Ranked
<1> QED
  BY <1>1, <1>2, <1>3, ListsFacts

-----------------------------------------------------------------------------
(* The pool and the round.                                                 *)

\* Whom the search of a round may return, and in which order it does.
Searched(geo, radius, d) == IF geo THEN scene[d].dist <= radius ELSE scene[d].rating # 0
NoLater(geo, e, d) == IF geo THEN scene[e].dist <= scene[d].dist ELSE scene[e].rating >= scene[d].rating

\* P is what a search has returned: who is left out has a full pool ahead.
PoolOK(P, geo, radius, limit) ==
  /\ P \subseteq MatchDrivers
  /\ \A e \in P : Searched(geo, radius, e)
  /\ \A d \in MatchDrivers \ P : Searched(geo, radius, d) =>
       IsFiniteSet(P) /\ limit <= Cardinality(P) /\ \A e \in P : NoLater(geo, e, d)

LEMMA ListsItself ==
  ASSUME NEW s, Lists(s, Range(s))
  PROVE  /\ Len(s) \in Nat /\ DOMAIN s = 1..Len(s) /\ Cardinality(Range(s)) = Len(s)
         /\ \A e \in Range(s) : \E i \in 1..Len(s) : s[i] = e
  BY ListsFacts

LEMMA BeyondCut ==
  ASSUME NEW k \in Nat, NEW m \in Nat, NEW n \in Nat, k <= m, k < n => k = m, NEW j \in 1..m, j \notin 1..k
  PROVE  n <= k /\ \A i \in 1..k : i \in 1..m /\ i < j
  OBVIOUS

\* Who is cut off comes after a full pool.
LEMMA CutPool ==
  ASSUME NEW q, NEW S, Lists(q, S), NEW n \in Nat, NEW p, p = Prefix(q, n), NEW d \in S, d \notin Range(p)
  PROVE  n <= Cardinality(Range(p)) /\ \A e \in Range(p) : Precedes(q, e, d)
<1>1. /\ Lists(p, Range(p)) /\ Len(p) <= Len(q) /\ (Len(p) < n => Len(p) = Len(q))
      /\ \A i \in 1..Len(p) : p[i] = q[i]
  BY PrefixFacts
<1>2. /\ Len(p) \in Nat /\ DOMAIN p = 1..Len(p) /\ Cardinality(Range(p)) = Len(p)
      /\ \A e \in Range(p) : \E i \in 1..Len(p) : p[i] = e
  <2>1. Lists(p, Range(p))
    BY <1>1
  <2> QED
    BY <2>1, ListsItself
<1>3. Len(q) \in Nat /\ DOMAIN q = 1..Len(q)
  BY ListsFacts, Zenon
<1>4. PICK j \in 1..Len(q) : q[j] = d
  BY ListsFacts, Zenon
<1>5. j \notin 1..Len(p)
  BY <1>1, <1>2, <1>4, Zenon DEF Range
<1>6. n <= Len(p) /\ \A i \in 1..Len(p) : i \in 1..Len(q) /\ i < j
  BY <1>1, <1>2, <1>3, <1>5, BeyondCut, Zenon
<1>7. ASSUME NEW e \in Range(p) PROVE Precedes(q, e, d)
  <2>1. PICK i \in 1..Len(p) : p[i] = e
    BY <1>2, Zenon
  <2>2. i \in 1..Len(q) /\ i < j /\ q[i] = e
    BY <1>1, <1>6, <2>1, Zenon
  <2> QED
    BY <1>3, <1>4, <2>2, Zenon DEF Precedes
<1> QED
  BY <1>2, <1>6, <1>7, Zenon

\* The search by distance.
LEMMA GeoPool ==
  ASSUME SceneOK, NEW radius, NEW limit \in Nat, NEW p \in GeoSearch(radius, limit)
  PROVE  Lists(p, Range(p)) /\ PoolOK(Range(p), TRUE, radius, limit)
<1>1. PICK near : near = {d \in MatchDrivers : scene[d].dist <= radius}
  OBVIOUS
<1>2. PICK q \in [1..Cardinality(near) -> near] :
        /\ p = Prefix(q, limit)
        /\ \A i, j \in 1..Cardinality(near) : i < j => q[i] # q[j] /\ scene[q[i]].dist <= scene[q[j]].dist
  BY <1>1 DEF GeoSearch, Orderings
<1>3. Lists(q, near)
  <2>1. \A i, j \in 1..Cardinality(near) : i < j => q[i] # q[j]
    BY <1>2
  <2>2. near \subseteq MatchDrivers
    BY <1>1
  <2> QED
    BY <2>1, <2>2, OrderingLists
<1>4. Cardinality(near) = Len(q) /\ near \subseteq MatchDrivers /\ DOMAIN q = 1..Len(q)
  BY <1>3, ListsFacts
<1>5. Lists(p, Range(p)) /\ Range(p) \subseteq near
  BY <1>2, <1>3, PrefixFacts
<1>6. ASSUME NEW d \in MatchDrivers \ Range(p), Searched(TRUE, radius, d)
      PROVE  IsFiniteSet(Range(p)) /\ limit <= Cardinality(Range(p)) /\ \A e \in Range(p) : NoLater(TRUE, e, d)
  <2>1. d \in near
    BY <1>1, <1>6 DEF Searched
  <2>2. limit <= Cardinality(Range(p)) /\ \A e \in Range(p) : Precedes(q, e, d)
    BY <1>2, <1>3, <2>1, CutPool
  <2>3. ASSUME NEW e \in Range(p) PROVE NoLater(TRUE, e, d)
    <3>1. PICK i \in DOMAIN q, j \in DOMAIN q : i < j /\ q[i] = e /\ q[j] = d
      BY <2>2 DEF Precedes
    <3> QED
      BY <1>2, <1>4, <3>1 DEF NoLater
  <2> QED
    BY <1>5, <2>2, <2>3, ListsFacts
<1>7. \A e \in Range(p) : Searched(TRUE, radius, e)
  BY <1>1, <1>5 DEF Searched
<1> QED
  BY <1>4, <1>5, <1>6, <1>7 DEF PoolOK

\* The fallback by rating.
LEMMA TopPool ==
  ASSUME SceneOK, NEW radius, NEW limit \in Nat, NEW p \in TopOnlineDrivers(limit)
  PROVE  Lists(p, Range(p)) /\ PoolOK(Range(p), FALSE, radius, limit)
<1>1. PICK q \in [1..Cardinality(OnlineDrivers) -> OnlineDrivers] :
        /\ p = Prefix(q, limit)
        /\ \A i, j \in 1..Cardinality(OnlineDrivers) : i < j =>
             \/ scene[q[i]].rating > scene[q[j]].rating
             \/ scene[q[i]].rating = scene[q[j]].rating /\ q[i] > q[j]
  BY DEF TopOnlineDrivers, Orderings
<1>2. OnlineDrivers \subseteq MatchDrivers /\ MatchDrivers \subseteq Int
  BY DiscoveryAssumption DEF OnlineDrivers
<1>3. \A i, j \in 1..Cardinality(OnlineDrivers) : i < j => q[i] # q[j] /\ scene[q[i]].rating >= scene[q[j]].rating
  <2> SUFFICES ASSUME NEW i \in 1..Cardinality(OnlineDrivers), NEW j \in 1..Cardinality(OnlineDrivers), i < j
               PROVE  q[i] # q[j] /\ scene[q[i]].rating >= scene[q[j]].rating
    OBVIOUS
  <2>1. PICK d \in MatchDrivers, e \in MatchDrivers : d = q[i] /\ e = q[j]
    BY <1>2
  <2>2. PICK x \in Nat, y \in Nat : x = scene[d].rating /\ y = scene[e].rating
    BY SceneFacts
  <2>3. x > y \/ (x = y /\ d > e)
    BY <1>1, <2>1, <2>2
  <2>4. d = e => x = y
    BY <2>2
  <2>5. d \in Int /\ e \in Int
    BY <1>2
  <2>6. d # e /\ x >= y
    BY <2>3, <2>4, <2>5
  <2> QED
    BY <2>1, <2>2, <2>6
<1>4. Lists(q, OnlineDrivers)
  <2>1. \A i, j \in 1..Cardinality(OnlineDrivers) : i < j => q[i] # q[j]
    BY <1>3
  <2> QED
    BY <1>2, <2>1, OrderingLists
<1>5. Cardinality(OnlineDrivers) = Len(q) /\ DOMAIN q = 1..Len(q)
  BY <1>4, ListsFacts
<1>6. Lists(p, Range(p)) /\ Range(p) \subseteq OnlineDrivers
  BY <1>1, <1>4, PrefixFacts
<1>7. ASSUME NEW d \in MatchDrivers \ Range(p), Searched(FALSE, radius, d)
      PROVE  IsFiniteSet(Range(p)) /\ limit <= Cardinality(Range(p)) /\ \A e \in Range(p) : NoLater(FALSE, e, d)
  <2>1. d \in OnlineDrivers
    BY <1>7 DEF Searched, OnlineDrivers
  <2>2. limit <= Cardinality(Range(p)) /\ \A e \in Range(p) : Precedes(q, e, d)
    BY <1>1, <1>4, <2>1, CutPool
  <2>3. ASSUME NEW e \in Range(p) PROVE NoLater(FALSE, e, d)
    <3>1. PICK i \in DOMAIN q, j \in DOMAIN q : i < j /\ q[i] = e /\ q[j] = d
      BY <2>2 DEF Precedes
    <3> QED
      BY <1>3, <1>5, <3>1 DEF NoLater
  <2> QED
    BY <1>6, <2>2, <2>3, ListsFacts
<1>8. \A e \in Range(p) : Searched(FALSE, radius, e)
  BY <1>6 DEF Searched, OnlineDrivers
<1> QED
  BY <1>2, <1>6, <1>7, <1>8 DEF PoolOK

\* Who of the pool can be chosen at all.
Alive(geo, d) == scene[d].rating # 0 /\ (geo => scene[d].fresh)

\* The pool of a round, and its candidates in the order they are considered.
LEMMA Candidates ==
  ASSUME SceneOK, NEW n \in Nat, NEW geo \in BOOLEAN, NEW c \in SelectCandidates(n, geo),
         NEW limit \in Nat, limit = IF geo THEN n * PoolWidthPerAttempt * LocationOversampleFactor
                                           ELSE n * PoolWidthPerAttempt
  PROVE  \E P : PoolOK(P, geo, RadiusForAttempt(n), limit) /\ Ranked(c, {d \in P : Alive(geo, d)}, geo)
<1>1. CASE geo
  <2>1. c \in TryLocationDiscovery(n, limit)
    BY <1>1 DEF SelectCandidates
  <2>2. PICK ids \in Nearby(RadiusForAttempt(n), limit) : c \in RankCandidates(Online(ids), TRUE)
    <3>1. PICK ids \in FindNearbyDrivers(RadiusForAttempt(n), limit) : c \in RankCandidates(Online(ids), TRUE)
      BY <2>1 DEF TryLocationDiscovery
    <3>2. ids \in Nearby(RadiusForAttempt(n), limit)
      BY DEF FindNearbyDrivers
    <3> QED
      BY <3>1, <3>2
  <2>3. PICK p \in GeoSearch(RadiusForAttempt(n), limit) : ids = Among(p, {d \in MatchDrivers : scene[d].fresh})
    BY DEF Nearby
  <2>4. Lists(p, Range(p)) /\ PoolOK(Range(p), TRUE, RadiusForAttempt(n), limit)
    BY GeoPool
  <2>5. PICK fresh : fresh = {d \in MatchDrivers : scene[d].fresh}
    OBVIOUS
  <2>6. Lists(ids, Range(p) \cap fresh)
    BY <2>3, <2>4, <2>5, AmongLists
  <2>7. Lists(Online(ids), (Range(p) \cap fresh) \cap OnlineDrivers)
    BY <2>6, AmongLists DEF Online
  <2>8. (Range(p) \cap fresh) \cap OnlineDrivers = {d \in Range(p) : Alive(TRUE, d)}
    BY <2>4, <2>5 DEF Alive, OnlineDrivers, PoolOK
  <2>9. Ranked(c, {d \in Range(p) : Alive(TRUE, d)}, TRUE)
    BY <2>2, <2>7, <2>8, RankKeeps
  <2> QED
    BY <1>1, <2>4, <2>9
<1>2. CASE ~geo
  <2>1. PICK p \in TopOnlineDrivers(limit) : c \in RankCandidates(p, FALSE)
    BY <1>2 DEF SelectCandidates
  <2>2. Lists(p, Range(p)) /\ PoolOK(Range(p), FALSE, RadiusForAttempt(n), limit)
    BY TopPool
  <2>3. Range(p) = {d \in Range(p) : Alive(FALSE, d)}
    BY <2>2 DEF Alive, PoolOK, Searched
  <2>4. Ranked(c, Range(p), FALSE)
    BY <2>1, <2>2, RankKeeps
  <2> QED
    BY <1>2, <2>2, <2>3, <2>4
<1> QED
  BY <1>1, <1>2

\* SelectOfferTargets takes the first free ones.
LEMMA TargetsChosen ==
  ASSUME SceneOK, NEW geo \in BOOLEAN, NEW c, NEW C, Ranked(c, C, geo),
         NEW targets, targets = SelectOfferTargets(c, offered, Excluded(c), BroadcastSize)
  PROVE  /\ Lists(targets, Range(targets)) /\ Len(targets) <= BroadcastSize
         /\ \A t \in Range(targets) : t \in C /\ t \notin offered /\ ~scene[t].held
         /\ \A d \in C \ Range(targets) : d \notin offered /\ ~scene[d].held =>
              /\ BroadcastSize <= Len(targets)
              /\ \A t \in Range(targets) : ~Prefers(geo, d, t)
<1>1. PICK free : free = MatchDrivers \ (offered \cup Excluded(c))
  OBVIOUS
<1>2. PICK a : a = Among(c, free) /\ targets = Prefix(a, BroadcastSize)
  BY <1>1 DEF SelectOfferTargets
<1>3. Lists(c, C) /\ C \subseteq MatchDrivers /\ Range(c) = C /\ DOMAIN c = 1..Len(c)
  <2>1. Lists(c, C)
    BY DEF Ranked
  <2> QED
    BY <2>1, ListsFacts DEF Lists
<1>4. Lists(a, C \cap free) /\ \A i, j \in 1..Len(a) : i < j => Precedes(c, a[i], a[j])
  BY <1>2, <1>3, AmongLists
<1>5. \A d \in C : d \in free <=> d \notin offered /\ ~scene[d].held
  <2>1. {c[i] : i \in DOMAIN c} = C
    BY <1>3 DEF Range
  <2> QED
    BY <1>1, <1>3, <2>1 DEF Excluded
<1>6. BroadcastSize \in Nat
  BY DiscoveryAssumption
<1>7. Lists(targets, Range(targets)) /\ Range(targets) \subseteq C \cap free /\ Len(targets) <= BroadcastSize
  BY <1>2, <1>4, <1>6, PrefixFacts
<1>8. \A t \in Range(targets) : t \in C /\ t \notin offered /\ ~scene[t].held
  BY <1>5, <1>7
<1>9. ASSUME NEW d \in C \ Range(targets), d \notin offered, ~scene[d].held
      PROVE  /\ BroadcastSize <= Len(targets)
             /\ \A t \in Range(targets) : ~Prefers(geo, d, t)
  <2>1. d \in C \cap free
    BY <1>5, <1>9
  <2>2. BroadcastSize <= Cardinality(Range(targets)) /\ \A t \in Range(targets) : Precedes(a, t, d)
    BY <1>2, <1>4, <1>6, <2>1, CutPool
  <2>3. Cardinality(Range(targets)) = Len(targets)
    BY <1>7, ListsFacts
  <2>4. ASSUME NEW t \in Range(targets) PROVE ~Prefers(geo, d, t)
    <3>1. PICK i \in DOMAIN a, j \in DOMAIN a : i < j /\ a[i] = t /\ a[j] = d
      BY <2>2 DEF Precedes
    <3>2. DOMAIN a = 1..Len(a)
      BY <1>4, ListsFacts
    <3>3. Precedes(c, t, d)
      BY <1>4, <3>1, <3>2
    <3>4. PICK m \in DOMAIN c, l \in DOMAIN c : m < l /\ c[m] = t /\ c[l] = d
      BY <3>3 DEF Precedes
    <3> QED
      BY <1>3, <3>4 DEF Ranked
  <2> QED
    BY <2>2, <2>3, <2>4
<1> QED
  BY <1>7, <1>8, <1>9

DiscoverySpec == DiscoveryInit /\ [][DiscoveryNext]_discoveryVars

DiscoveryInv == scene \in Scenes /\ attempt \in Nat /\ TargetsFair

\* One round of offers.
LEMMA RoundFair ==
  ASSUME DiscoveryInv, NEW geo \in BOOLEAN, BroadcastRound(geo)
  PROVE  DiscoveryInv'
<1>1. SceneOK /\ scene' = scene /\ attempt' = attempt + 1 /\ attempt \in Nat
  BY DiscoveryAssumption DEF DiscoveryInv, SceneOK, BroadcastRound
<1>2. PICK n \in Nat : n = attempt + 1 /\ n = attempt'
  BY <1>1
<1>3. PICK c, targets :
        /\ c \in SelectCandidates(n, geo)
        /\ targets = SelectOfferTargets(c, offered, Excluded(c), BroadcastSize)
        /\ round' = [geo |-> geo, before |-> offered, targets |-> targets]
  BY <1>2 DEF BroadcastRound
<1>4. PICK limit \in Nat : limit = IF geo THEN n * PoolWidthPerAttempt * LocationOversampleFactor
                                          ELSE n * PoolWidthPerAttempt
  BY DiscoveryAssumption
<1>5. PICK P : PoolOK(P, geo, RadiusForAttempt(n), limit) /\ Ranked(c, {d \in P : Alive(geo, d)}, geo)
  BY <1>1, <1>3, <1>4, Candidates
<1>6. PICK C : C = {d \in P : Alive(geo, d)}
  OBVIOUS
<1>7. PICK T : T = Range(targets)
  OBVIOUS
<1>8. /\ Lists(targets, T) /\ Len(targets) <= BroadcastSize
      /\ \A t \in T : t \in C /\ t \notin offered /\ ~scene[t].held
      /\ \A d \in C \ T : d \notin offered /\ ~scene[d].held =>
           BroadcastSize <= Len(targets) /\ \A t \in T : ~Prefers(geo, d, t)
  BY <1>1, <1>3, <1>5, <1>6, <1>7, TargetsChosen
<1>9. /\ round'.targets = targets /\ round'.before = offered /\ Targets' = T
      /\ T \subseteq MatchDrivers /\ Cardinality(T) = Len(targets) /\ Len(targets) \in Nat
  <2>1. round'.targets = targets /\ round'.before = offered
    BY <1>3
  <2>2. Targets' = T
    BY <1>7, <2>1 DEF Targets, Range
  <2> QED
    BY <1>8, <2>1, <2>2, ListsFacts
<1>10. round'.geo <=> geo
  BY <1>3
<1>11. \A d \in MatchDrivers : Eligible(d)' <=>
         Alive(geo, d) /\ ~scene[d].held /\ d \notin offered /\ (geo => Searched(geo, RadiusForAttempt(n), d))
  BY <1>1, <1>2, <1>9, <1>10 DEF Eligible, Reachable, Alive, Searched, RadiusForAttempt
<1>12. \A t \in T : Eligible(t)'
  BY <1>5, <1>6, <1>8, <1>9, <1>11 DEF PoolOK
<1>13. \A d, t \in MatchDrivers : Better(d, t)' <=> Prefers(geo, d, t)
  BY <1>1, <1>10 DEF Better, Prefers
<1>14. ASSUME NEW d \in MatchDrivers \ T, Eligible(d)'
       PROVE  /\ \A t \in T : ~Better(d, t)'
              /\ Len(targets) < BroadcastSize => Cardinality(Crowd(d)') >= PoolLimit'
  <2>1. Alive(geo, d) /\ ~scene[d].held /\ d \notin offered /\ Searched(geo, RadiusForAttempt(n), d)
    BY <1>11, <1>14 DEF Alive, Searched
  <2>2. CASE d \in P
    <3>1. d \in C \ T
      BY <1>6, <1>14, <2>1, <2>2
    <3>2. BroadcastSize <= Len(targets) /\ \A t \in T : ~Prefers(geo, d, t)
      BY <1>8, <2>1, <3>1
    <3>3. ~(Len(targets) < BroadcastSize)
      BY <1>9, <3>2, DiscoveryAssumption
    <3> QED
      BY <1>9, <1>13, <3>2, <3>3
  <2>3. CASE d \notin P
    <3>1. IsFiniteSet(P) /\ limit <= Cardinality(P) /\ P \subseteq MatchDrivers /\ \A e \in P : NoLater(geo, e, d)
      BY <1>5, <2>1, <2>3 DEF PoolOK
    <3>2. ASSUME NEW t \in T PROVE ~Better(d, t)'
      <4>1. t \in P /\ t \in MatchDrivers
        BY <1>6, <1>8, <1>9
      <4>2. NoLater(geo, t, d)
        BY <3>1, <4>1
      <4>3. ~Prefers(geo, d, t)
        BY <1>1, <4>1, <4>2, SceneFacts DEF Prefers, NoLater
      <4> QED
        BY <1>13, <4>1, <4>3
    <3>3. P \subseteq Crowd(d)' /\ Crowd(d)' \subseteq MatchDrivers
      BY <1>1, <1>10, <2>3, <3>1 DEF Crowd, NoLater
    <3>4. Cardinality(P) <= Cardinality(Crowd(d)') /\ Cardinality(P) \in Nat /\ Cardinality(Crowd(d)') \in Nat
      <4>1. IsFiniteSet(Crowd(d)')
        BY <3>3, DiscoveryAssumption, FS_Subset
      <4> QED
        BY <3>1, <3>3, <4>1, FS_Subset, FS_CardinalityType
    <3>5. PoolLimit' = limit
      BY <1>2, <1>4, <1>10, DiscoveryAssumption DEF PoolLimit
    <3> QED
      BY <3>1, <3>2, <3>4, <3>5
  <2> QED
    BY <2>2, <2>3
<1>15. TargetsFair'
  BY <1>8, <1>9, <1>12, <1>14 DEF TargetsFair
<1> QED
  BY <1>1, <1>15 DEF DiscoveryInv

\* For any drivers, scene, sizes and radii (broadcast_offers.go:85): a round makes at most
\* BroadcastSize offers, only to eligible drivers, passes nobody over for a driver that is
\* worse in every respect, and leaves an offer unused while somebody could take it only
\* if a full pool of nearer or better rated drivers was ahead.
THEOREM TargetsFairAlways == DiscoverySpec => []TargetsFair
<1>1. DiscoveryInit => DiscoveryInv
  BY DEF DiscoveryInit, DiscoveryInv, TargetsFair
<1>2. DiscoveryInv /\ [DiscoveryNext]_discoveryVars => DiscoveryInv'
  <2>1. DiscoveryInv /\ DiscoveryNext => DiscoveryInv'
    BY RoundFair DEF DiscoveryNext
  <2>2. DiscoveryInv /\ UNCHANGED discoveryVars => DiscoveryInv'
    BY DEF DiscoveryInv, discoveryVars, TargetsFair, Targets, Eligible, Reachable, Better, Crowd, PoolLimit
  <2> QED
    BY <2>1, <2>2
<1>3. DiscoveryInv => TargetsFair
  BY DEF DiscoveryInv
<1> QED
  BY <1>1, <1>2, <1>3, PTL DEF DiscoverySpec

-----------------------------------------------------------------------------
(* Which points of a track are kept.                                       *)

LEMMA SquareIsNat == ASSUME NEW x \in Int PROVE x * x \in Nat
  OBVIOUS

LEMMA OffsetType ==
  ASSUME NEW p \in Coordinates, NEW a \in Coordinates, NEW b \in Coordinates
  PROVE  Offset(p, a, b) \in Nat
<1>1. PICK x1 \in Int, y1 \in Int, x2 \in Int, y2 \in Int, x \in Int, y \in Int :
        a.lon = x1 /\ a.lat = y1 /\ b.lon = x2 /\ b.lat = y2 /\ p.lon = x /\ p.lat = y
  BY DEF Coordinates
<1>2. PICK num \in Int : num = (y2 - y1) * x - (x2 - x1) * y + x2 * y1 - y2 * x1
  OBVIOUS
<1>3. PICK u \in Int, v \in Int : u = x - x1 /\ v = y - y1
  OBVIOUS
<1>4. Offset(p, a, b) = IF x2 - x1 = 0 /\ y2 - y1 = 0 THEN u * u + v * v ELSE num * num
  BY <1>1, <1>2, <1>3, Zenon DEF Offset
<1>5. PICK s \in Nat, t \in Nat, w \in Nat : s = u * u /\ t = v * v /\ w = num * num
  BY SquareIsNat
<1>6. Offset(p, a, b) = s + t \/ Offset(p, a, b) = w
  BY <1>4, <1>5, Zenon
<1> QED
  BY <1>6

LEMMA LengthType == ASSUME NEW a \in Coordinates, NEW b \in Coordinates PROVE LineLength(a, b) \in Int
<1>1. PICK x1 \in Int, y1 \in Int, x2 \in Int, y2 \in Int : a.lon = x1 /\ a.lat = y1 /\ b.lon = x2 /\ b.lat = y2
  BY DEF Coordinates
<1>2. PICK u \in Int, v \in Int : u = x2 - x1 /\ v = y2 - y1
  OBVIOUS
<1>3. LineLength(a, b) = IF a = b THEN 1 ELSE u * u + v * v
  BY <1>1, <1>2, Zenon DEF LineLength
<1>4. PICK x \in Nat, y \in Nat : x = u * u /\ y = v * v
  BY SquareIsNat
<1>5. LineLength(a, b) = 1 \/ LineLength(a, b) = x + y
  BY <1>3, <1>4, Zenon
<1> QED
  BY <1>5

\* The points strictly between two have a farthest one.
LEMMA FarthestBetween ==
  ASSUME NEW track \in Seq(Coordinates), NEW a \in 1..Len(track), NEW b \in 1..Len(track), a + 1 < b
  PROVE  /\ Farthest(track, a, b) \in a + 1..b - 1
         /\ \A j \in a + 1..b - 1 :
              Offset(track[j], track[a], track[b]) <= Offset(track[Farthest(track, a, b)], track[a], track[b])
<1>1. PICK off : off = [i \in 1..Len(track) |-> Offset(track[i], track[a], track[b])]
  OBVIOUS
<1>2. ASSUME NEW i \in 1..Len(track) PROVE off[i] \in Nat
  <2>1. track[i] \in Coordinates /\ track[a] \in Coordinates /\ track[b] \in Coordinates
    OBVIOUS
  <2>2. Offset(track[i], track[a], track[b]) \in Nat
    BY <2>1, OffsetType
  <2> QED
    BY <1>1, <2>2
<1>3. PICK B : B = a + 1..b - 1
  OBVIOUS
<1>4. Len(track) \in Nat /\ a + 1 \in B /\ B \subseteq 1..Len(track) /\ B \subseteq Nat
  BY <1>3
<1>5. PICK bound \in Nat : Bounds(bound, off, Len(track))
  BY <1>2, <1>4, Bounded
<1>6. PICK V : V = {off[i] : i \in B}
  OBVIOUS
<1>7. V # {} /\ V \subseteq Nat /\ \A x \in V : x <= bound
  BY <1>2, <1>4, <1>5, <1>6 DEF Bounds
<1>8. Max(V) \in V /\ \A x \in V : Max(V) >= x
  BY <1>7, MaxIsIn
<1>9. PICK I : I = {i \in B : off[i] = Max(V)}
  OBVIOUS
<1>10. I \subseteq Nat /\ I # {}
  BY <1>4, <1>6, <1>8, <1>9
<1>11. PICK i \in I : \A j \in I : i <= j
  BY <1>10, LeastNat
<1>12. i \in B /\ \A j \in B : off[j] <= off[i] /\ (j < i => off[j] < off[i])
  <2>1. i \in B /\ off[i] = Max(V) /\ off[i] \in Nat
    BY <1>2, <1>4, <1>9, <1>11
  <2> SUFFICES ASSUME NEW j \in B PROVE off[j] <= off[i] /\ (j < i => off[j] < off[i])
    BY <2>1
  <2>2. off[j] \in V /\ off[j] \in Nat /\ i \in Nat /\ j \in Nat
    BY <1>2, <1>4, <1>6, <2>1
  <2>3. off[j] <= off[i]
    BY <1>8, <2>1, <2>2
  <2>4. off[j] = off[i] => i <= j
    BY <1>9, <1>11, <2>1
  <2> QED
    BY <2>1, <2>2, <2>3, <2>4
<1>13. \A j \in B : off[j] = Offset(track[j], track[a], track[b])
  BY <1>1, <1>4
<1>14. PICK f : f = Farthest(track, a, b)
  OBVIOUS
<1>15. f = CHOOSE k \in B : /\ \A j \in B : Offset(track[j], track[a], track[b]) <= Offset(track[k], track[a], track[b])
                            /\ \A j \in B : j < k => Offset(track[j], track[a], track[b]) < Offset(track[k], track[a], track[b])
  BY <1>3, <1>14 DEF Farthest
<1>16. \E k \in B : /\ \A j \in B : Offset(track[j], track[a], track[b]) <= Offset(track[k], track[a], track[b])
                    /\ \A j \in B : j < k => Offset(track[j], track[a], track[b]) < Offset(track[k], track[a], track[b])
  BY <1>12, <1>13, Zenon
<1>17. f \in B /\ \A j \in B : Offset(track[j], track[a], track[b]) <= Offset(track[f], track[a], track[b])
  BY <1>15, <1>16, Zenon
<1> QED
  BY <1>3, <1>14, <1>17, Zenon

-----------------------------------------------------------------------------

\* What rdpRange marks between a and b, when it marks g on narrower stretches.
Mark(g, track, epsilon, a, b) ==
  IF b <= a + 1 THEN {}
  ELSE LET i == Farthest(track, a, b) IN
       IF Farther(track[i], track[a], track[b], epsilon) THEN {i} \cup g[<<a, i>>] \cup g[<<i, b>>] ELSE {}

Stretches(track) == (1..Len(track)) \X (1..Len(track))

\* g is right for stretches no wider than w.
MarksTo(g, track, epsilon, w) ==
  /\ g = [s \in Stretches(track) |-> g[s]]
  /\ \A a, b \in 1..Len(track) : b - a <= w => g[<<a, b>>] = Mark(g, track, epsilon, a, b)

\* Narrower stretches settle what is marked in a wider one.
LEMMA MarkDepends ==
  ASSUME NEW track \in Seq(Coordinates), NEW epsilon, NEW a \in 1..Len(track), NEW b \in 1..Len(track),
         NEW g, NEW h, \A c, d \in 1..Len(track) : d - c < b - a => g[<<c, d>>] = h[<<c, d>>]
  PROVE  Mark(g, track, epsilon, a, b) = Mark(h, track, epsilon, a, b)
<1>1. CASE b <= a + 1
  BY <1>1 DEF Mark
<1>2. CASE ~(b <= a + 1)
  <2>1. PICK i : i = Farthest(track, a, b)
    OBVIOUS
  <2>2. a + 1 < b
    BY <1>2
  <2>3. i \in a + 1..b - 1
    BY <2>1, <2>2, FarthestBetween
  <2>4. i \in 1..Len(track) /\ i - a < b - a /\ b - i < b - a
    BY <2>3
  <2>5. g[<<a, i>>] = h[<<a, i>>] /\ g[<<i, b>>] = h[<<i, b>>]
    BY <2>4
  <2> QED
    BY <2>1, <2>5 DEF Mark
<1> QED
  BY <1>1, <1>2

LEMMA MarksExist ==
  ASSUME NEW track \in Seq(Coordinates), NEW epsilon, NEW w \in Nat
  PROVE  \E g : MarksTo(g, track, epsilon, w)
<1> SUFFICES ASSUME \A g : ~MarksTo(g, track, epsilon, w) PROVE FALSE
  OBVIOUS
<1>1. PICK k \in Nat : /\ \A g : ~MarksTo(g, track, epsilon, k)
                       /\ \A j \in Nat : j < k => \E g : MarksTo(g, track, epsilon, j)
  <2>1. PICK S : S = {j \in Nat : \A g : ~MarksTo(g, track, epsilon, j)}
    OBVIOUS
  <2>2. S \subseteq Nat /\ S # {}
    BY <2>1
  <2>3. PICK k \in S : \A j \in S : k <= j
    BY <2>2, LeastNat
  <2>4. k \in Nat /\ \A g : ~MarksTo(g, track, epsilon, k)
    BY <2>1, <2>3
  <2>5. ASSUME NEW j \in Nat, j < k PROVE \E g : MarksTo(g, track, epsilon, j)
    <3>1. j \notin S
      BY <2>3, <2>4, <2>5
    <3> QED
      BY <2>1, <3>1
  <2> QED
    BY <2>4, <2>5
<1>2. CASE k = 0
  <2>1. PICK g : g = [s \in Stretches(track) |-> {}]
    OBVIOUS
  <2>2. ASSUME NEW a \in 1..Len(track), NEW b \in 1..Len(track), b - a <= 0
        PROVE  g[<<a, b>>] = Mark(g, track, epsilon, a, b)
    <3>1. b <= a + 1
      BY <2>2
    <3>2. <<a, b>> \in Stretches(track)
      BY DEF Stretches
    <3> QED
      BY <2>1, <3>1, <3>2 DEF Mark
  <2>3. MarksTo(g, track, epsilon, 0)
    BY <2>1, <2>2 DEF MarksTo
  <2> QED
    BY <1>1, <1>2, <2>3
<1>3. CASE k # 0
  <2>1. k - 1 \in Nat /\ k - 1 < k
    BY <1>3
  <2>2. PICK g : MarksTo(g, track, epsilon, k - 1)
    BY <1>1, <2>1
  <2>3. PICK h : h = [s \in Stretches(track) |->
                        IF s[2] - s[1] = k THEN Mark(g, track, epsilon, s[1], s[2]) ELSE g[s]]
    OBVIOUS
  <2>4. \A a, b \in 1..Len(track) :
          h[<<a, b>>] = IF b - a = k THEN Mark(g, track, epsilon, a, b) ELSE g[<<a, b>>]
    BY <2>3 DEF Stretches
  <2>5. ASSUME NEW a \in 1..Len(track), NEW b \in 1..Len(track), b - a <= k
        PROVE  h[<<a, b>>] = Mark(h, track, epsilon, a, b)
    <3>1. ASSUME NEW c \in 1..Len(track), NEW d \in 1..Len(track), d - c < b - a
          PROVE  g[<<c, d>>] = h[<<c, d>>]
      <4>1. d - c # k
        BY <2>5, <3>1
      <4> QED
        BY <2>4, <4>1
    <3>2. Mark(g, track, epsilon, a, b) = Mark(h, track, epsilon, a, b)
      BY <3>1, MarkDepends
    <3>3. CASE b - a = k
      BY <2>4, <3>2, <3>3
    <3>4. CASE b - a # k
      <4>1. b - a <= k - 1
        BY <2>5, <3>4
      <4>2. g[<<a, b>>] = Mark(g, track, epsilon, a, b)
        BY <2>2, <4>1 DEF MarksTo
      <4> QED
        BY <2>4, <3>2, <3>4, <4>2
    <3> QED
      BY <3>3, <3>4
  <2>6. h = [s \in Stretches(track) |-> h[s]]
    BY <2>3
  <2>7. MarksTo(h, track, epsilon, k)
    BY <2>5, <2>6 DEF MarksTo
  <2> QED
    BY <1>1, <2>7
<1> QED
  BY <1>2, <1>3

Marks(g, track, epsilon) ==
  g = [s \in (1..Len(track)) \X (1..Len(track)) |->
         IF s[2] <= s[1] + 1 THEN {}
         ELSE LET i == Farthest(track, s[1], s[2]) IN
              IF Farther(track[i], track[s[1]], track[s[2]], epsilon)
                THEN {i} \cup g[<<s[1], i>>] \cup g[<<i, s[2]>>] ELSE {}]

LEMMA MarksExistWhole ==
  ASSUME NEW track \in Seq(Coordinates), NEW epsilon
  PROVE  \E g : Marks(g, track, epsilon)
<1>1. Len(track) \in Nat
  OBVIOUS
<1>2. PICK g : MarksTo(g, track, epsilon, Len(track))
  BY <1>1, MarksExist
<1>3. ASSUME NEW s \in Stretches(track) PROVE g[s] = Mark(g, track, epsilon, s[1], s[2])
  <2>1. s[1] \in 1..Len(track) /\ s[2] \in 1..Len(track) /\ s = <<s[1], s[2]>>
    BY DEF Stretches
  <2>2. s[2] - s[1] <= Len(track)
    BY <1>1, <2>1
  <2>3. g[<<s[1], s[2]>>] = Mark(g, track, epsilon, s[1], s[2])
    BY <1>2, <2>1, <2>2 DEF MarksTo
  <2> QED
    BY <2>1, <2>3
<1>4. g = [s \in Stretches(track) |-> Mark(g, track, epsilon, s[1], s[2])]
  <2>1. g = [s \in Stretches(track) |-> g[s]]
    BY <1>2 DEF MarksTo
  <2> QED
    BY <1>3, <2>1
<1>5. Marks(g, track, epsilon)
  BY <1>4 DEF Marks, Mark, Stretches
<1> QED
  BY <1>5

LEMMA RdpUnfolds ==
  ASSUME NEW track \in Seq(Coordinates), NEW epsilon
  PROVE  \E g : /\ RdpRange(track, epsilon) = g[<<1, Len(track)>>]
                /\ \A a, b \in 1..Len(track) : g[<<a, b>>] = Mark(g, track, epsilon, a, b)
<1>1. PICK g : g = CHOOSE f : Marks(f, track, epsilon)
  OBVIOUS
<1>2. Marks(g, track, epsilon)
  BY <1>1, MarksExistWhole
<1>3. RdpRange(track, epsilon) = g[<<1, Len(track)>>]
  BY <1>1 DEF RdpRange, Marks
<1>4. ASSUME NEW a \in 1..Len(track), NEW b \in 1..Len(track) PROVE g[<<a, b>>] = Mark(g, track, epsilon, a, b)
  BY <1>2 DEF Marks, Mark
<1> QED
  BY <1>3, <1>4

\* x and y are the kept points around i, of those marked in K between a and b and the two ends,
\* and i is not too far from the line between them.
Spans(K, a, b, i, track, epsilon, x, y) ==
  /\ x \in K \cup {a, b} /\ y \in K \cup {a, b} /\ x < i /\ i < y
  /\ \A k \in K \cup {a, b} : k <= x \/ k >= y
  /\ ~Farther(track[i], track[x], track[y], epsilon)

Covered(K, a, b, track, epsilon) ==
  /\ K \subseteq a + 1..b - 1
  /\ \A i \in a + 1..b - 1 : i \notin K => \E x, y : Spans(K, a, b, i, track, epsilon, x, y)

\* When the farthest point is near enough, every one is.
LEMMA NearEnough ==
  ASSUME NEW track \in Seq(Coordinates), NEW epsilon \in Nat, NEW a \in 1..Len(track), NEW b \in 1..Len(track),
         NEW i \in 1..Len(track), NEW f \in 1..Len(track),
         Offset(track[i], track[a], track[b]) <= Offset(track[f], track[a], track[b]),
         ~Farther(track[f], track[a], track[b], epsilon)
  PROVE  ~Farther(track[i], track[a], track[b], epsilon)
<1>1. track[i] \in Coordinates /\ track[f] \in Coordinates /\ track[a] \in Coordinates /\ track[b] \in Coordinates
  OBVIOUS
<1>2. PICK o \in Nat, p \in Nat : o = Offset(track[i], track[a], track[b]) /\ p = Offset(track[f], track[a], track[b])
  BY <1>1, OffsetType
<1>3. LineLength(track[a], track[b]) \in Int
  BY <1>1, LengthType
<1>4. PICK e \in Int : e = epsilon * epsilon * LineLength(track[a], track[b])
  BY <1>3
<1>5. ~(p > e) /\ o <= p
  BY <1>2, <1>4 DEF Farther
<1>6. ~(o > e)
  BY <1>5
<1> QED
  BY <1>2, <1>4, <1>6 DEF Farther

\* The marks of the two halves and the point between them cover the whole.
LEMMA HalvesCover ==
  ASSUME NEW a \in Int, NEW m \in Int, NEW b \in Int, a < m, m < b, NEW track, NEW epsilon,
         NEW L, Covered(L, a, m, track, epsilon), NEW R, Covered(R, m, b, track, epsilon),
         NEW K, K = {m} \cup L \cup R
  PROVE  Covered(K, a, b, track, epsilon)
<1>1. L \subseteq a + 1..m - 1 /\ R \subseteq m + 1..b - 1
  BY DEF Covered
<1>2. K \subseteq a + 1..b - 1
  BY <1>1
<1>3. \A k \in K \cup {a, b} : k \in L \cup {a, m} \/ k \in R \cup {m, b}
  OBVIOUS
<1>4. (\A k \in L \cup {a, m} : k \in Int /\ k <= m) /\ (\A k \in R \cup {m, b} : k \in Int /\ k >= m)
  BY <1>1
<1>5. L \cup {a, m} \subseteq K \cup {a, b} /\ R \cup {m, b} \subseteq K \cup {a, b}
  OBVIOUS
<1>6. ASSUME NEW i \in a + 1..b - 1, i \notin K PROVE \E x, y : Spans(K, a, b, i, track, epsilon, x, y)
  <2>1. i \notin L /\ i \notin R /\ i # m
    BY <1>6
  <2>2. CASE i < m
    <3>1. i \in a + 1..m - 1
      BY <2>2
    <3>2. PICK x, y : Spans(L, a, m, i, track, epsilon, x, y)
      BY <2>1, <3>1 DEF Covered
    <3>3. y \in Int /\ y <= m /\ x \in Int
      BY <1>4, <3>2 DEF Spans
    <3>4. ASSUME NEW k \in K \cup {a, b} PROVE k <= x \/ k >= y
      <4>1. CASE k \in L \cup {a, m}
        BY <3>2, <4>1 DEF Spans
      <4>2. CASE k \in R \cup {m, b}
        <5>1. k \in Int /\ k >= m
          BY <1>4, <4>2
        <5> QED
          BY <3>3, <5>1
      <4> QED
        BY <1>3, <4>1, <4>2
    <3>5. x \in K \cup {a, b} /\ y \in K \cup {a, b} /\ x < i /\ i < y /\ ~Farther(track[i], track[x], track[y], epsilon)
      BY <1>5, <3>2 DEF Spans
    <3>6. Spans(K, a, b, i, track, epsilon, x, y)
      BY <3>4, <3>5 DEF Spans
    <3> QED
      BY <3>6
  <2>3. CASE m < i
    <3>1. i \in m + 1..b - 1
      BY <2>3
    <3>2. PICK x, y : Spans(R, m, b, i, track, epsilon, x, y)
      BY <2>1, <3>1 DEF Covered
    <3>3. x \in Int /\ x >= m /\ y \in Int
      BY <1>4, <3>2 DEF Spans
    <3>4. ASSUME NEW k \in K \cup {a, b} PROVE k <= x \/ k >= y
      <4>1. CASE k \in R \cup {m, b}
        BY <3>2, <4>1 DEF Spans
      <4>2. CASE k \in L \cup {a, m}
        <5>1. k \in Int /\ k <= m
          BY <1>4, <4>2
        <5> QED
          BY <3>3, <5>1
      <4> QED
        BY <1>3, <4>1, <4>2
    <3>5. x \in K \cup {a, b} /\ y \in K \cup {a, b} /\ x < i /\ i < y /\ ~Farther(track[i], track[x], track[y], epsilon)
      BY <1>5, <3>2 DEF Spans
    <3>6. Spans(K, a, b, i, track, epsilon, x, y)
      BY <3>4, <3>5 DEF Spans
    <3> QED
      BY <3>6
  <2> QED
    BY <2>1, <2>2, <2>3
<1> QED
  BY <1>2, <1>6 DEF Covered

\* Whatever rdpRange marks covers the stretch.
LEMMA MarkCovers ==
  ASSUME NEW track \in Seq(Coordinates), NEW epsilon \in Nat, NEW g,
         NEW a \in 1..Len(track), NEW b \in 1..Len(track), a < b,
         \A c, d \in 1..Len(track) : c < d /\ d - c < b - a => Covered(g[<<c, d>>], c, d, track, epsilon)
  PROVE  Covered(Mark(g, track, epsilon, a, b), a, b, track, epsilon)
<1>1. CASE b <= a + 1
  <2>1. Mark(g, track, epsilon, a, b) = {}
    BY <1>1 DEF Mark
  <2>2. \A i \in a + 1..b - 1 : FALSE
    BY <1>1
  <2> QED
    BY <2>1, <2>2 DEF Covered
<1>2. CASE a + 1 < b
  <2>1. PICK f : f = Farthest(track, a, b)
    OBVIOUS
  <2>2. /\ f \in a + 1..b - 1
        /\ \A j \in a + 1..b - 1 : Offset(track[j], track[a], track[b]) <= Offset(track[f], track[a], track[b])
    BY <1>2, <2>1, FarthestBetween
  <2>3. f \in 1..Len(track) /\ a < f /\ f < b /\ f - a < b - a /\ b - f < b - a
    BY <2>2
  <2>4. ~(b <= a + 1)
    BY <1>2
  <2>5. CASE Farther(track[f], track[a], track[b], epsilon)
    <3>1. Mark(g, track, epsilon, a, b) = {f} \cup g[<<a, f>>] \cup g[<<f, b>>]
      BY <2>1, <2>4, <2>5 DEF Mark
    <3>2. Covered(g[<<a, f>>], a, f, track, epsilon) /\ Covered(g[<<f, b>>], f, b, track, epsilon)
      BY <2>3
    <3>3. a \in Int /\ b \in Int /\ f \in Int
      BY <2>3
    <3> QED
      BY <2>3, <3>1, <3>2, <3>3, HalvesCover
  <2>6. CASE ~Farther(track[f], track[a], track[b], epsilon)
    <3>1. Mark(g, track, epsilon, a, b) = {}
      BY <2>1, <2>6 DEF Mark
    <3>2. ASSUME NEW i \in a + 1..b - 1 PROVE Spans({}, a, b, i, track, epsilon, a, b)
      <4>1. i \in 1..Len(track) /\ a < i /\ i < b /\ a <= a /\ b >= b
        OBVIOUS
      <4>2. ~Farther(track[i], track[a], track[b], epsilon)
        BY <2>2, <2>3, <2>6, <4>1, NearEnough
      <4> QED
        BY <4>1, <4>2 DEF Spans
    <3> QED
      BY <3>1, <3>2 DEF Covered
  <2> QED
    BY <2>5, <2>6
<1> QED
  BY <1>1, <1>2

LEMMA RdpCovers ==
  ASSUME NEW track \in Seq(Coordinates), NEW epsilon \in Nat, Len(track) >= 2
  PROVE  Covered(RdpRange(track, epsilon), 1, Len(track), track, epsilon)
<1>1. PICK g : /\ RdpRange(track, epsilon) = g[<<1, Len(track)>>]
               /\ \A a, b \in 1..Len(track) : g[<<a, b>>] = Mark(g, track, epsilon, a, b)
  BY RdpUnfolds, Zenon
<1>2. PICK n \in Nat : n = Len(track) /\ n >= 2
  OBVIOUS
<1> SUFFICES ASSUME ~Covered(g[<<1, n>>], 1, n, track, epsilon) PROVE FALSE
  BY <1>1, <1>2
<1>3. PICK S : S = {w \in Nat : \E a, b \in 1..n : b - a = w /\ a < b /\ ~Covered(g[<<a, b>>], a, b, track, epsilon)}
  OBVIOUS
<1>4. n - 1 \in S
  <2>1. 1 \in 1..n /\ n \in 1..n /\ 1 < n /\ n - 1 \in Nat
    BY <1>2
  <2> QED
    BY <1>3, <2>1
<1>5. PICK w \in S : \A v \in S : w <= v
  BY <1>3, <1>4, LeastNat
<1>6. PICK a \in 1..n, b \in 1..n : b - a = w /\ a < b /\ ~Covered(g[<<a, b>>], a, b, track, epsilon)
  BY <1>3, <1>5
<1>7. ASSUME NEW c \in 1..n, NEW d \in 1..n, c < d, d - c < b - a PROVE Covered(g[<<c, d>>], c, d, track, epsilon)
  <2>1. d - c \in Nat /\ ~(w <= d - c)
    BY <1>6, <1>7
  <2>2. d - c \notin S
    BY <1>5, <2>1
  <2> QED
    BY <1>3, <1>7, <2>1, <2>2
<1>8. Covered(Mark(g, track, epsilon, a, b), a, b, track, epsilon)
  BY <1>2, <1>6, <1>7, MarkCovers
<1> QED
  BY <1>1, <1>2, <1>6, <1>8

\* The kept points around a dropped one.
LEMMA Around ==
  ASSUME NEW kept, kept \subseteq Int, NEW i \in Int, NEW x \in kept, NEW y \in kept, x < i, i < y,
         \A k \in kept : k <= x \/ k >= y
  PROVE  Before(kept, i) = x /\ After(kept, i) = y
<1>1. \A k \in kept : (k < i => k <= x) /\ (k > i => k >= y)
  OBVIOUS
<1>2. Before(kept, i) \in kept /\ Before(kept, i) < i /\ x <= Before(kept, i)
  BY <1>1 DEF Before
<1>3. After(kept, i) \in kept /\ After(kept, i) > i /\ y >= After(kept, i)
  BY <1>1 DEF After
<1>4. Before(kept, i) <= x /\ After(kept, i) >= y
  BY <1>1, <1>2, <1>3
<1>5. Before(kept, i) \in Int /\ After(kept, i) \in Int /\ x \in Int /\ y \in Int
  BY <1>2, <1>3
<1> QED
  BY <1>2, <1>3, <1>4, <1>5

LEMMA KeptNearby ==
  ASSUME NEW track \in Seq(Coordinates), NEW epsilon \in Nat, track # << >>, NEW kept, kept = Kept(track, epsilon)
  PROVE  /\ kept \subseteq 1..Len(track) /\ {1, Len(track)} \subseteq kept
         /\ \A i \in DOMAIN track \ kept :
              ~Farther(track[i], track[Before(kept, i)], track[After(kept, i)], epsilon)
<1>1. PICK n \in Nat : n = Len(track) /\ DOMAIN track = 1..n /\ n > 0
  OBVIOUS
<1>2. CASE n < 3
  BY <1>1, <1>2 DEF Kept
<1>3. CASE n >= 3
  <2>1. PICK K : K = RdpRange(track, epsilon)
    OBVIOUS
  <2>2. kept = K \cup {1, n}
    BY <1>1, <1>3, <2>1 DEF Kept
  <2>3. Covered(K, 1, n, track, epsilon)
    BY <1>1, <1>3, <2>1, RdpCovers
  <2>4. K \subseteq 1 + 1..n - 1
    BY <2>3 DEF Covered
  <2>5. kept \subseteq 1..n /\ kept \subseteq Int
    BY <1>3, <2>2, <2>4
  <2>6. ASSUME NEW i \in (1..n) \ kept PROVE ~Farther(track[i], track[Before(kept, i)], track[After(kept, i)], epsilon)
    <3>1. i \in 1 + 1..n - 1 /\ i \notin K /\ i \in Int
      BY <2>2, <2>6
    <3>2. PICK x, y : Spans(K, 1, n, i, track, epsilon, x, y)
      BY <2>3, <3>1 DEF Covered
    <3>3. x \in kept /\ y \in kept /\ x < i /\ i < y /\ \A k \in kept : k <= x \/ k >= y
      BY <2>2, <3>2 DEF Spans
    <3>4. Before(kept, i) = x /\ After(kept, i) = y
      BY <2>5, <3>1, <3>3, Around
    <3> QED
      BY <3>2, <3>4 DEF Spans
  <2> QED
    BY <1>1, <2>2, <2>5, <2>6
<1> QED
  BY <1>2, <1>3

-----------------------------------------------------------------------------
(* The members of a set in order.                                          *)

\* How many members of S are at most j.
Rank(S, j) == Cardinality({k \in S : k <= j})

\* A list of n distinct values has n values.
LEMMA Counted ==
  ASSUME NEW n \in Nat, NEW e, \A i, j \in 1..n : i < j => e[i] # e[j], NEW T, T = {e[i] : i \in 1..n}
  PROVE  IsFiniteSet(T) /\ Cardinality(T) = n
<1>1. PICK f : f = [i \in 1..n |-> e[i]]
  OBVIOUS
<1>2. \A i, j \in 1..n : i # j => i < j \/ j < i
  OBVIOUS
<1>3. f \in [1..n -> T] /\ (\A i, j \in 1..n : f[i] = f[j] => i = j) /\ \A t \in T : \E i \in 1..n : f[i] = t
  BY <1>1, <1>2
<1>4. f \in Bijection(1..n, T)
  BY <1>3 DEF Bijection, Injection, Surjection, IsInjective
<1>5. ExistsBijection(1..n, T)
  BY <1>4 DEF ExistsBijection
<1>6. IsFiniteSet(1..n)
  BY FS_Interval
<1> QED
  BY <1>5, <1>6, FS_CountingElements, FS_Bijection

\* A strictly increasing list is the members of its range in order.
LEMMA AscendingIs ==
  ASSUME NEW m \in Nat, NEW e \in [1..m -> Int], \A i, j \in 1..m : i < j => e[i] < e[j],
         NEW S, S = {e[i] : i \in 1..m}
  PROVE  Cardinality(S) = m /\ Ascending(S) = e
<1>1. \A i, j \in 1..m : i < j => e[i] # e[j]
  OBVIOUS
<1>2. Cardinality(S) = m
  BY <1>1, Counted
<1>3. ASSUME NEW n \in 1..m PROVE Rank(S, e[n]) = n
  <2>1. PICK T : T = {k \in S : k <= e[n]}
    OBVIOUS
  <2>2. \A i \in 1..m : e[i] <= e[n] <=> i <= n
    <3> SUFFICES ASSUME NEW i \in 1..m PROVE e[i] <= e[n] <=> i <= n
      OBVIOUS
    <3>1. e[i] \in Int /\ e[n] \in Int /\ (i < n => e[i] < e[n]) /\ (n < i => e[n] < e[i])
      OBVIOUS
    <3> QED
      BY <3>1
  <2>3. T = {e[i] : i \in 1..n}
    <3>1. \A i \in 1..n : i \in 1..m /\ i <= n
      OBVIOUS
    <3>2. \A i \in 1..m : i <= n => i \in 1..n
      OBVIOUS
    <3> QED
      BY <2>1, <2>2, <3>1, <3>2
  <2>4. \A i, j \in 1..n : i < j => e[i] # e[j]
    BY <1>1
  <2>5. Cardinality(T) = n
    BY <2>3, <2>4, Counted
  <2> QED
    BY <2>1, <2>5 DEF Rank
<1>4. ASSUME NEW n \in 1..m PROVE (CHOOSE j \in S : Rank(S, j) = n) = e[n]
  <2>1. e[n] \in S /\ Rank(S, e[n]) = n
    BY <1>3
  <2>2. PICK c : c = CHOOSE j \in S : Rank(S, j) = n
    OBVIOUS
  <2>3. c \in S /\ Rank(S, c) = n
    BY <2>1, <2>2
  <2>4. PICK i \in 1..m : c = e[i]
    BY <2>3
  <2> QED
    BY <1>3, <2>2, <2>3, <2>4
<1>5. Ascending(S) = [n \in 1..m |-> CHOOSE j \in S : Rank(S, j) = n]
  BY <1>2 DEF Ascending, Rank
<1> QED
  BY <1>2, <1>4, <1>5

\* The members of a finite set of numbers in order are members.
LEMMA AscendingIn ==
  ASSUME NEW S, S \subseteq Int, IsFiniteSet(S)
  PROVE  Cardinality(S) \in Nat /\ Ascending(S) \in [1..Cardinality(S) -> S]
<1>1. PICK m \in Nat : m = Cardinality(S)
  BY FS_CardinalityType
<1>2. ASSUME NEW j \in S PROVE Rank(S, j) \in 1..m
  <2>1. PICK T : T = {k \in S : k <= j}
    OBVIOUS
  <2>2. T \in SUBSET S /\ j \in T
    BY <2>1
  <2>3. IsFiniteSet(T) /\ Cardinality(T) <= m
    BY <1>1, <2>2, FS_Subset
  <2>4. Cardinality(T) \in Nat /\ Cardinality(T) # 0
    BY <2>2, <2>3, FS_CardinalityType, FS_EmptySet
  <2> QED
    BY <2>1, <2>3, <2>4 DEF Rank
<1>3. ASSUME NEW i \in S, NEW j \in S, i < j PROVE Rank(S, i) # Rank(S, j)
  <2>1. PICK T, U : T = {k \in S : k <= i} /\ U = {k \in S : k <= j}
    OBVIOUS
  <2>2. T \in SUBSET U /\ j \in U /\ j \notin T /\ U \in SUBSET S
    <3>1. i \in Int /\ j \in Int /\ i < j /\ \A k \in S : k \in Int
      BY <1>3
    <3>2. j <= j /\ ~(j <= i) /\ \A k \in S : k <= i => k <= j
      BY <3>1
    <3> QED
      BY <2>1, <3>2
  <2>3. IsFiniteSet(U)
    BY <2>2, FS_Subset
  <2>4. Cardinality(U) # Cardinality(T)
    BY <2>2, <2>3, FS_Subset
  <2> QED
    BY <2>1, <2>4 DEF Rank
<1>4. PICK r : r = [j \in S |-> Rank(S, j)]
  OBVIOUS
<1>5. r \in [S -> 1..m] /\ \A i, j \in S : r[i] = r[j] => i = j
  <2>1. \A i, j \in S : i # j => i < j \/ j < i
    OBVIOUS
  <2> QED
    BY <1>2, <1>3, <1>4, <2>1
<1>6. r \in Injection(S, 1..m)
  BY <1>5 DEF Injection, IsInjective
<1>7. IsFiniteSet(1..m) /\ Cardinality(1..m) = m
  BY FS_Interval
<1>8. r \in Surjection(S, 1..m)
  BY <1>1, <1>6, <1>7, FS_Injection
<1>9. ASSUME NEW n \in 1..m PROVE (CHOOSE j \in S : Rank(S, j) = n) \in S
  <2>1. \E j \in S : r[j] = n
    BY <1>8 DEF Surjection
  <2> QED
    BY <1>4, <2>1
<1>10. Ascending(S) = [n \in 1..m |-> CHOOSE j \in S : Rank(S, j) = n]
  BY <1>1 DEF Ascending, Rank
<1> QED
  BY <1>1, <1>9, <1>10

-----------------------------------------------------------------------------
(* One number of a polyline.                                               *)

\* The function EncodeUnsigned computes, up to n.
Chunks(g, n) ==
  g = [m \in 0..n |-> IF m >= 32 THEN <<32 + (m % 32) + 63>> \o g[m \div 32] ELSE <<m + 63>>]

LEMMA ChunksExist == ASSUME NEW n \in Nat PROVE \E g : Chunks(g, n)
<1> SUFFICES ASSUME \A g : ~Chunks(g, n) PROVE FALSE
  OBVIOUS
<1>1. PICK k \in Nat : (\A g : ~Chunks(g, k)) /\ \A j \in Nat : j < k => \E g : Chunks(g, j)
  <2>1. PICK S : S = {j \in Nat : \A g : ~Chunks(g, j)}
    OBVIOUS
  <2>2. S \subseteq Nat /\ S # {}
    BY <2>1
  <2>3. PICK k \in S : \A j \in S : k <= j
    BY <2>2, LeastNat
  <2> QED
    BY <2>1, <2>3
<1>2. CASE k = 0
  <2>1. PICK g : g = [m \in 0..0 |-> <<m + 63>>]
    OBVIOUS
  <2>2. Chunks(g, 0)
    BY <2>1 DEF Chunks
  <2> QED
    BY <1>1, <1>2, <2>2
<1>3. CASE k # 0
  <2>1. k - 1 \in Nat /\ k - 1 < k
    BY <1>3
  <2>2. PICK g : Chunks(g, k - 1)
    BY <1>1, <2>1
  <2>3. PICK last : last = IF k >= 32 THEN <<32 + (k % 32) + 63>> \o g[k \div 32] ELSE <<k + 63>>
    OBVIOUS
  <2>4. PICK h : h = [m \in 0..k |-> IF m = k THEN last ELSE g[m]]
    OBVIOUS
  <2>5. h[k] = last /\ \A m \in 0..k - 1 : h[m] = g[m]
    BY <2>1, <2>4
  <2>6. ASSUME NEW m \in 0..k
        PROVE  h[m] = IF m >= 32 THEN <<32 + (m % 32) + 63>> \o h[m \div 32] ELSE <<m + 63>>
    <3>1. m >= 32 => m \div 32 \in 0..k - 1
      OBVIOUS
    <3>2. m >= 32 => h[m \div 32] = g[m \div 32]
      BY <2>5, <3>1
    <3>3. CASE m = k
      BY <2>3, <2>5, <3>2, <3>3
    <3>4. CASE m # k
      <4>1. m \in 0..k - 1
        BY <3>4
      <4>2. g[m] = IF m >= 32 THEN <<32 + (m % 32) + 63>> \o g[m \div 32] ELSE <<m + 63>>
        BY <2>2, <4>1 DEF Chunks
      <4> QED
        BY <2>5, <3>2, <4>1, <4>2
    <3> QED
      BY <3>3, <3>4
  <2>7. Chunks(h, k)
    BY <2>4, <2>6 DEF Chunks
  <2> QED
    BY <1>1, <2>7
<1> QED
  BY <1>2, <1>3

\* The function DecodeSigned computes from the last chunk to the first.
Above(h, code, first, last) ==
  h = [k \in first..last + 1 |-> IF k > last THEN 0 ELSE ((code[k] - 63) % 32) + 32 * h[k + 1]]

LEMMA AboveExists ==
  ASSUME NEW code, NEW first \in Int, NEW n \in Nat
  PROVE  \E h : Above(h, code, first - n, first)
<1> SUFFICES ASSUME \A h : ~Above(h, code, first - n, first) PROVE FALSE
  OBVIOUS
<1>1. PICK k \in Nat : /\ \A h : ~Above(h, code, first - k, first)
                       /\ \A j \in Nat : j < k => \E h : Above(h, code, first - j, first)
  <2>1. PICK S : S = {j \in Nat : \A h : ~Above(h, code, first - j, first)}
    OBVIOUS
  <2>2. S \subseteq Nat /\ S # {}
    BY <2>1
  <2>3. PICK k \in S : \A j \in S : k <= j
    BY <2>2, LeastNat
  <2> QED
    BY <2>1, <2>3
<1>2. CASE k = 0
  <2>1. PICK z : z = ((code[first] - 63) % 32) + 32 * 0
    OBVIOUS
  <2>2. PICK h : h = [i \in first..first + 1 |-> IF i > first THEN 0 ELSE z]
    OBVIOUS
  <2>3. h[first + 1] = 0 /\ h[first] = z
    BY <2>2
  <2>4. \A i \in first..first + 1 : i = first \/ i = first + 1
    OBVIOUS
  <2>5. ASSUME NEW i \in first..first + 1
        PROVE  h[i] = IF i > first THEN 0 ELSE ((code[i] - 63) % 32) + 32 * h[i + 1]
    BY <2>1, <2>3, <2>4
  <2>6. Above(h, code, first - 0, first)
    BY <2>2, <2>5 DEF Above
  <2> QED
    BY <1>1, <1>2, <2>6
<1>3. CASE k # 0
  <2>1. k - 1 \in Nat /\ k - 1 < k
    BY <1>3
  <2>2. PICK g : Above(g, code, first - (k - 1), first)
    BY <1>1, <2>1
  <2>3. PICK a \in Int : a = first - k /\ first - (k - 1) = a + 1 /\ a < first
    BY <1>3
  <2>4. PICK z : z = ((code[a] - 63) % 32) + 32 * g[a + 1]
    OBVIOUS
  <2>5. PICK h : h = [i \in a..first + 1 |-> IF i = a THEN z ELSE g[i]]
    OBVIOUS
  <2>6. h[a] = z /\ \A i \in a + 1..first + 1 : h[i] = g[i]
    BY <2>3, <2>5
  <2>7. ASSUME NEW i \in a..first + 1
        PROVE  h[i] = IF i > first THEN 0 ELSE ((code[i] - 63) % 32) + 32 * h[i + 1]
    <3>1. i <= first => i + 1 \in a + 1..first + 1
      BY <2>3
    <3>2. i <= first => h[i + 1] = g[i + 1]
      BY <2>6, <3>1
    <3>3. CASE i = a
      BY <2>3, <2>4, <2>6, <3>2, <3>3
    <3>4. CASE i # a
      <4>1. i \in a + 1..first + 1
        BY <2>3, <3>4
      <4>2. g[i] = IF i > first THEN 0 ELSE ((code[i] - 63) % 32) + 32 * g[i + 1]
        BY <2>2, <2>3, <4>1 DEF Above
      <4> QED
        BY <2>6, <3>2, <4>1, <4>2
    <3> QED
      BY <3>3, <3>4
  <2>8. Above(h, code, a, first)
    BY <2>5, <2>7 DEF Above
  <2> QED
    BY <1>1, <2>3, <2>8
<1> QED
  BY <1>2, <1>3

Reads(h, code, first, last) ==
  /\ h[last + 1] = 0
  /\ \A k \in first..last : h[k] = ((code[k] - 63) % 32) + 32 * h[k + 1]

\* The chunks of c stand in the code behind the position at.
Placed(code, at, c) == \A k \in 1..Len(c) : code[at + k] = c[k]

\* The chunks read back as m wherever they stand.
Worth(c, m) ==
  \A code, h, at : at \in Nat /\ Placed(code, at, c) /\ Reads(h, code, at + 1, at + Len(c)) => h[at + 1] = m

\* Only the last chunk ends the number.
Closed(c) ==
  /\ c \in Seq(Nat) /\ Len(c) > 0 /\ c[Len(c)] - 63 < 32
  /\ \A k \in 1..Len(c) : k < Len(c) => c[k] - 63 >= 32

LEMMA LastChunk == ASSUME NEW m \in Nat, m < 32 PROVE Closed(<<m + 63>>) /\ Worth(<<m + 63>>, m)
<1>1. PICK c : c = <<m + 63>>
  OBVIOUS
<1>2. c \in Seq(Nat) /\ Len(c) = 1 /\ c[1] = m + 63
  BY <1>1
<1>3. Closed(c)
  BY <1>2 DEF Closed
<1>4. ASSUME NEW code, NEW h, NEW at \in Nat, Placed(code, at, c), Reads(h, code, at + 1, at + Len(c)) PROVE h[at + 1] = m
  <2>1. code[at + 1] = m + 63
    BY <1>2, <1>4 DEF Placed
  <2>2. h[at + 1 + 1] = 0 /\ h[at + 1] = ((code[at + 1] - 63) % 32) + 32 * h[at + 1 + 1]
    BY <1>2, <1>4 DEF Reads
  <2>3. (m + 63 - 63) % 32 = m
    OBVIOUS
  <2> QED
    BY <2>1, <2>2, <2>3
<1> QED
  BY <1>1, <1>3, <1>4 DEF Worth

LEMMA MoreChunks ==
  ASSUME NEW m \in Nat, m >= 32, NEW d, Closed(d), Worth(d, m \div 32), NEW c, c = <<32 + (m % 32) + 63>> \o d
  PROVE  Closed(c) /\ Worth(c, m)
<1>1. PICK x \in Nat : x = m % 32 /\ x < 32
  OBVIOUS
<1>2. PICK y \in Nat : y = m \div 32 /\ m = x + 32 * y
  BY <1>1
<1>3. d \in Seq(Nat) /\ Len(d) \in Nat /\ Len(d) > 0
  BY DEF Closed
<1>4. <<32 + x + 63>> \in Seq(Nat) /\ c = <<32 + x + 63>> \o d
  BY <1>1
<1>5. /\ c \in Seq(Nat) /\ Len(c) = Len(d) + 1 /\ c[1] = 32 + x + 63
      /\ \A k \in 1..Len(d) : c[k + 1] = d[k]
  BY <1>3, <1>4
<1>6. Closed(c)
  <2>1. c[Len(c)] - 63 < 32
    BY <1>3, <1>5 DEF Closed
  <2>2. ASSUME NEW k \in 1..Len(c), k < Len(c) PROVE c[k] - 63 >= 32
    <3>1. CASE k = 1
      BY <1>5, <3>1
    <3>2. CASE k # 1
      <4>1. k - 1 \in 1..Len(d) /\ k - 1 < Len(d) /\ (k - 1) + 1 = k
        BY <1>3, <1>5, <2>2, <3>2
      <4>2. c[k] = d[k - 1]
        BY <1>5, <4>1
      <4> QED
        BY <4>1, <4>2 DEF Closed
    <3> QED
      BY <3>1, <3>2
  <2> QED
    BY <1>3, <1>5, <2>1, <2>2 DEF Closed
<1>7. ASSUME NEW code, NEW h, NEW at \in Nat, Placed(code, at, c), Reads(h, code, at + 1, at + Len(c)) PROVE h[at + 1] = m
  <2>1. PICK b \in Nat : b = at + 1
    OBVIOUS
  <2>2. code[b] = 32 + x + 63
    BY <1>3, <1>5, <1>7, <2>1 DEF Placed
  <2>3. Placed(code, b, d)
    <3> SUFFICES ASSUME NEW k \in 1..Len(d) PROVE code[b + k] = d[k]
      BY DEF Placed
    <3>1. k + 1 \in 1..Len(c) /\ at + (k + 1) = b + k /\ c[k + 1] = d[k]
      BY <1>3, <1>5, <2>1
    <3> QED
      BY <1>7, <3>1 DEF Placed
  <2>4. Reads(h, code, b + 1, b + Len(d)) /\ h[b] = ((code[b] - 63) % 32) + 32 * h[b + 1]
    <3>1. at + Len(c) = b + Len(d) /\ b \in b..b + Len(d) /\ \A k \in b + 1..b + Len(d) : k \in b..b + Len(d)
      BY <1>3, <1>5, <2>1
    <3> QED
      BY <1>7, <2>1, <3>1 DEF Reads
  <2>5. h[b + 1] = y
    BY <1>2, <2>3, <2>4 DEF Worth
  <2>6. (32 + x + 63 - 63) % 32 = x
    BY <1>1
  <2> QED
    BY <1>2, <2>1, <2>2, <2>4, <2>5, <2>6
<1> QED
  BY <1>6, <1>7 DEF Worth

LEMMA UnsignedReadsBack ==
  ASSUME NEW n \in Nat
  PROVE  Closed(EncodeUnsigned(n)) /\ Worth(EncodeUnsigned(n), n)
<1>1. PICK g : g = CHOOSE f : Chunks(f, n)
  OBVIOUS
<1>2. Chunks(g, n)
  BY <1>1, ChunksExist
<1>3. EncodeUnsigned(n) = g[n]
  BY <1>1 DEF EncodeUnsigned, Chunks
<1>4. \A m \in 0..n : g[m] = IF m >= 32 THEN <<32 + (m % 32) + 63>> \o g[m \div 32] ELSE <<m + 63>>
  BY <1>2 DEF Chunks
<1> SUFFICES ASSUME ~(Closed(g[n]) /\ Worth(g[n], n)) PROVE FALSE
  BY <1>3
<1>5. PICK k \in Nat : /\ k <= n /\ ~(Closed(g[k]) /\ Worth(g[k], k))
                       /\ \A j \in Nat : j < k => Closed(g[j]) /\ Worth(g[j], j)
  <2>1. PICK S : S = {j \in Nat : j <= n /\ ~(Closed(g[j]) /\ Worth(g[j], j))}
    OBVIOUS
  <2>2. S \subseteq Nat /\ n \in S
    BY <2>1
  <2>3. PICK k \in S : \A j \in S : k <= j
    BY <2>2, LeastNat
  <2> QED
    BY <2>1, <2>3
<1>6. CASE k < 32
  <2>1. k \in 0..n /\ ~(k >= 32)
    BY <1>5, <1>6
  <2>2. g[k] = <<k + 63>>
    BY <1>4, <2>1
  <2>3. Closed(<<k + 63>>) /\ Worth(<<k + 63>>, k)
    BY <1>6, LastChunk
  <2> QED
    BY <1>5, <2>2, <2>3
<1>7. CASE k >= 32
  <2>1. k \div 32 \in Nat /\ k \div 32 < k /\ k \in 0..n
    BY <1>5, <1>7
  <2>2. PICK d : d = g[k \div 32] /\ Closed(d) /\ Worth(d, k \div 32)
    BY <1>5, <2>1
  <2>3. PICK c : c = g[k] /\ c = <<32 + (k % 32) + 63>> \o d
    BY <1>4, <1>7, <2>1, <2>2
  <2>4. Closed(c) /\ Worth(c, k)
    BY <1>7, <2>2, <2>3, MoreChunks
  <2> QED
    BY <1>5, <2>3, <2>4
<1> QED
  BY <1>6, <1>7

LEMMA SignedUnfolds ==
  ASSUME NEW code, NEW first, NEW last, NEW h, h = CHOOSE f : Above(f, code, first, last)
  PROVE  DecodeSigned(code, first, last) = Unfolded(h[first])
BY DEF DecodeSigned, Above

LEMMA SignedReadsBack ==
  ASSUME NEW v \in Int, NEW code, NEW at \in Nat, NEW c, c = EncodeSigned(v), Placed(code, at, c)
  PROVE  Closed(c) /\ DecodeSigned(code, at + 1, at + Len(c)) = v
<1>1. PICK n \in Nat : n = Folded(v) /\ c = EncodeUnsigned(n)
  <2>1. Folded(v) \in Nat
    BY DEF Folded
  <2> QED
    BY <2>1 DEF Folded, EncodeSigned
<1>2. Closed(c) /\ Worth(c, n)
  BY <1>1, UnsignedReadsBack
<1>3. PICK l \in Nat : l = Len(c) /\ l > 0
  BY <1>2 DEF Closed
<1>4. PICK h : h = CHOOSE f : Above(f, code, at + 1, at + l)
  OBVIOUS
<1>5. Above(h, code, at + 1, at + l)
  <2>1. l - 1 \in Nat /\ at + l \in Int /\ (at + l) - (l - 1) = at + 1
    BY <1>3
  <2>2. \E f : Above(f, code, (at + l) - (l - 1), at + l)
    BY <2>1, AboveExists
  <2> QED
    BY <1>4, <2>1, <2>2
<1>6. Reads(h, code, at + 1, at + l)
  <2>1. \A k \in at + 1..at + l + 1 : h[k] = IF k > at + l THEN 0 ELSE ((code[k] - 63) % 32) + 32 * h[k + 1]
    BY <1>5 DEF Above
  <2>2. h[at + l + 1] = 0
    BY <1>3, <2>1
  <2>3. ASSUME NEW k \in at + 1..at + l PROVE h[k] = ((code[k] - 63) % 32) + 32 * h[k + 1]
    <3>1. k \in at + 1..at + l + 1 /\ ~(k > at + l)
      OBVIOUS
    <3> QED
      BY <2>1, <3>1
  <2> QED
    BY <2>2, <2>3 DEF Reads
<1>7. h[at + 1] = n
  BY <1>2, <1>3, <1>6 DEF Worth
<1>8. DecodeSigned(code, at + 1, at + l) = Unfolded(h[at + 1])
  BY <1>4, SignedUnfolds
<1>9. Unfolded(n) = v
  BY <1>1 DEF Folded, Unfolded
<1> QED
  BY <1>2, <1>3, <1>7, <1>8, <1>9

-----------------------------------------------------------------------------
(* The numbers of a polyline, one after the other.                         *)

\* The code holds the numbers num[1], ..., num[m], the k-th up to position E[k].
Spells(code, E, num, m) ==
  /\ code \in Seq(Nat) /\ E \in [0..m -> Nat] /\ E[0] = 0 /\ E[m] = Len(code)
  /\ \A i, j \in 0..m : i < j => E[i] < E[j]
  /\ \A k \in 1..m : E[k] = E[k - 1] + Len(EncodeSigned(num[k])) /\ Placed(code, E[k - 1], EncodeSigned(num[k]))

LEMMA NothingSpelt == ASSUME NEW num PROVE \E E : Spells(<< >>, E, num, 0)
<1>1. PICK E : E = [i \in 0..0 |-> 0]
  OBVIOUS
<1>2. E \in [0..0 -> Nat] /\ E[0] = 0 /\ (\A i, j \in 0..0 : ~(i < j)) /\ \A k \in 1..0 : FALSE
  BY <1>1
<1>3. << >> \in Seq(Nat) /\ Len(<< >>) = 0
  OBVIOUS
<1>4. Spells(<< >>, E, num, 0)
  BY <1>2, <1>3 DEF Spells
<1> QED
  BY <1>4

\* Only the last chunk of a number ends it.
LEMMA SignedIsClosed == ASSUME NEW v \in Int PROVE Closed(EncodeSigned(v))
<1>1. Folded(v) \in Nat
  BY DEF Folded
<1> QED
  BY <1>1, UnsignedReadsBack DEF EncodeSigned

LEMMA NumberAppended ==
  ASSUME NEW num, NEW m \in Nat, \A k \in 1..m + 1 : num[k] \in Int, NEW code, NEW E, Spells(code, E, num, m)
  PROVE  \E F : Spells(code \o EncodeSigned(num[m + 1]), F, num, m + 1)
<1>1. PICK c : c = EncodeSigned(num[m + 1]) /\ num[m + 1] \in Int
  OBVIOUS
<1>2. c \in Seq(Nat) /\ Len(c) \in Nat /\ Len(c) > 0
  <2>1. Closed(c)
    BY <1>1, SignedIsClosed
  <2> QED
    BY <2>1 DEF Closed
<1>3. /\ code \in Seq(Nat) /\ Len(code) \in Nat /\ E \in [0..m -> Nat] /\ E[0] = 0 /\ E[m] = Len(code)
      /\ \A i, j \in 0..m : i < j => E[i] < E[j]
  BY DEF Spells
<1>4. PICK d : d = code \o c
  OBVIOUS
<1>5. /\ d \in Seq(Nat) /\ Len(d) = Len(code) + Len(c)
      /\ \A k \in 1..Len(code) : d[k] = code[k]
      /\ \A k \in 1..Len(c) : d[Len(code) + k] = c[k]
  BY <1>2, <1>3, <1>4
<1>6. PICK F : F = [k \in 0..m + 1 |-> IF k = m + 1 THEN Len(d) ELSE E[k]]
  OBVIOUS
<1>7. F[m + 1] = Len(d) /\ \A k \in 0..m : F[k] = E[k]
  BY <1>6
<1>8. F \in [0..m + 1 -> Nat]
  <2> SUFFICES ASSUME NEW k \in 0..m + 1 PROVE (IF k = m + 1 THEN Len(d) ELSE E[k]) \in Nat
    BY <1>6
  <2>1. k # m + 1 => k \in 0..m
    OBVIOUS
  <2>2. Len(d) \in Nat
    BY <1>2, <1>3, <1>5
  <2> QED
    BY <1>3, <2>1, <2>2
<1>9. ASSUME NEW k \in 0..m PROVE E[k] \in Nat /\ E[k] <= Len(code)
  <2>1. k < m => E[k] < E[m]
    BY <1>3
  <2> QED
    BY <1>3, <2>1
<1>10. ASSUME NEW i \in 0..m + 1, NEW j \in 0..m + 1, i < j PROVE F[i] < F[j]
  <2>1. i \in 0..m
    BY <1>10
  <2>2. CASE j = m + 1
    <3>1. F[i] \in Nat /\ F[i] <= Len(code)
      BY <1>7, <1>9, <2>1
    <3>2. F[j] = Len(code) + Len(c)
      BY <1>5, <1>7, <2>2
    <3> QED
      BY <1>2, <1>3, <3>1, <3>2
  <2>3. CASE j # m + 1
    <3>1. j \in 0..m
      BY <2>3
    <3> QED
      BY <1>3, <1>7, <1>10, <2>1, <3>1
  <2> QED
    BY <2>2, <2>3
<1>11. ASSUME NEW k \in 1..m + 1
       PROVE  F[k] = F[k - 1] + Len(EncodeSigned(num[k])) /\ Placed(d, F[k - 1], EncodeSigned(num[k]))
  <2>1. CASE k = m + 1
    <3>1. F[k] = Len(d) /\ F[k - 1] = Len(code) /\ EncodeSigned(num[k]) = c
      BY <1>1, <1>3, <1>7, <2>1
    <3>2. Placed(d, Len(code), c)
      BY <1>5 DEF Placed
    <3> QED
      BY <1>5, <3>1, <3>2
  <2>2. CASE k # m + 1
    <3>1. k \in 1..m /\ k \in 0..m /\ k - 1 \in 0..m
      BY <2>2
    <3>2. PICK s : s = EncodeSigned(num[k])
      OBVIOUS
    <3>3. E[k] = E[k - 1] + Len(s) /\ Placed(code, E[k - 1], s)
      BY <3>1, <3>2 DEF Spells
    <3>4. E[k - 1] \in Nat /\ E[k] \in Nat /\ E[k] <= Len(code)
      BY <1>9, <3>1
    <3>5. ASSUME NEW p \in 1..Len(s) PROVE d[E[k - 1] + p] = s[p]
      <4>1. PICK q \in Nat, l \in Nat, o \in Nat : q = E[k - 1] /\ l = Len(s) /\ o = Len(code)
        <5>1. num[k] \in Int
          BY <3>1
        <5>2. Closed(s)
          BY <3>2, <5>1, SignedIsClosed
        <5>3. Len(s) \in Nat
          BY <5>2 DEF Closed
        <5> QED
          BY <1>3, <3>4, <5>3
      <4>2. q + l <= o
        BY <3>3, <3>4, <4>1
      <4>3. q + p \in 1..o
        BY <4>1, <4>2
      <4>4. code[q + p] = s[p]
        BY <3>3, <4>1 DEF Placed
      <4>5. d[q + p] = code[q + p]
        BY <1>5, <4>1, <4>3
      <4> QED
        BY <4>1, <4>4, <4>5
    <3>6. Placed(d, E[k - 1], s)
      BY <3>5 DEF Placed
    <3> QED
      BY <1>7, <3>1, <3>2, <3>3, <3>6
  <2> QED
    BY <2>1, <2>2
<1>12. m + 1 \in 0..m + 1 /\ 0 \in 0..m /\ F[0] = 0
  BY <1>3, <1>7
<1>13. Spells(d, F, num, m + 1)
  BY <1>5, <1>7, <1>8, <1>10, <1>11, <1>12 DEF Spells
<1> QED
  BY <1>1, <1>4, <1>13

-----------------------------------------------------------------------------

\* The function Concat computes.
Concats(g, seqs, m) == g = [n \in 0..m |-> IF n = 0 THEN << >> ELSE g[n - 1] \o seqs[n]]

LEMMA ConcatsExist == ASSUME NEW seqs, NEW m \in Nat PROVE \E g : Concats(g, seqs, m)
<1> SUFFICES ASSUME \A g : ~Concats(g, seqs, m) PROVE FALSE
  OBVIOUS
<1>1. PICK k \in Nat : (\A g : ~Concats(g, seqs, k)) /\ \A j \in Nat : j < k => \E g : Concats(g, seqs, j)
  <2>1. PICK S : S = {j \in Nat : \A g : ~Concats(g, seqs, j)}
    OBVIOUS
  <2>2. S \subseteq Nat /\ S # {}
    BY <2>1
  <2>3. PICK k \in S : \A j \in S : k <= j
    BY <2>2, LeastNat
  <2> QED
    BY <2>1, <2>3
<1>2. CASE k = 0
  <2>1. PICK g : g = [n \in 0..0 |-> << >>]
    OBVIOUS
  <2>2. Concats(g, seqs, 0)
    BY <2>1 DEF Concats
  <2> QED
    BY <1>1, <1>2, <2>2
<1>3. CASE k # 0
  <2>1. k - 1 \in Nat /\ k - 1 < k
    BY <1>3
  <2>2. PICK g : Concats(g, seqs, k - 1)
    BY <1>1, <2>1
  <2>3. PICK last : last = g[k - 1] \o seqs[k]
    OBVIOUS
  <2>4. PICK h : h = [n \in 0..k |-> IF n = k THEN last ELSE g[n]]
    OBVIOUS
  <2>5. h[k] = last /\ \A n \in 0..k - 1 : h[n] = g[n]
    BY <2>1, <2>4
  <2>6. ASSUME NEW n \in 0..k PROVE h[n] = IF n = 0 THEN << >> ELSE h[n - 1] \o seqs[n]
    <3>1. CASE n = k
      <4>1. h[n - 1] = g[k - 1]
        BY <2>1, <2>5, <3>1
      <4> QED
        BY <1>3, <2>3, <2>5, <3>1, <4>1
    <3>2. CASE n # k
      <4>1. n \in 0..k - 1 /\ (n # 0 => n - 1 \in 0..k - 1)
        BY <3>2
      <4>2. g[n] = IF n = 0 THEN << >> ELSE g[n - 1] \o seqs[n]
        BY <2>2, <4>1 DEF Concats
      <4> QED
        BY <2>5, <4>1, <4>2
    <3> QED
      BY <3>1, <3>2
  <2>7. Concats(h, seqs, k)
    BY <2>4, <2>6 DEF Concats
  <2> QED
    BY <1>1, <2>7
<1> QED
  BY <1>2, <1>3

LEMMA JoinedAs ==
  ASSUME NEW s \in Seq(Nat), NEW t \in Seq(Nat), NEW l \in Nat, l = Len(s), NEW m \in Nat, m = Len(t),
         NEW a, a = s \o t
  PROVE  /\ a \in Seq(Nat) /\ Len(a) = l + m
         /\ \A i \in 1..l : a[i] = s[i]
         /\ \A i \in 1..m : a[l + i] = t[i]
  BY Joined

\* The code does not depend on where it was cut when it was written.
LEMMA Reassociated ==
  ASSUME NEW s \in Seq(Nat), NEW t \in Seq(Nat), NEW u \in Seq(Nat)
  PROVE  (s \o t) \o u = s \o (t \o u)
<1>1. PICK a, b, x, y : a = s \o t /\ b = t \o u /\ x = a \o u /\ y = s \o b
  OBVIOUS
<1>2. PICK l \in Nat, m \in Nat, n \in Nat : l = Len(s) /\ m = Len(t) /\ n = Len(u)
  OBVIOUS
<1>3. a \in Seq(Nat) /\ b \in Seq(Nat)
  BY <1>1
<1>4. /\ Len(a) = l + m /\ (\A i \in 1..l : a[i] = s[i]) /\ \A i \in 1..m : a[l + i] = t[i]
      /\ Len(b) = m + n /\ (\A i \in 1..m : b[i] = t[i]) /\ \A i \in 1..n : b[m + i] = u[i]
  <2>1. Len(a) = l + m /\ (\A i \in 1..l : a[i] = s[i]) /\ \A i \in 1..m : a[l + i] = t[i]
    BY <1>1, <1>2, JoinedAs
  <2>2. Len(b) = m + n /\ (\A i \in 1..m : b[i] = t[i]) /\ \A i \in 1..n : b[m + i] = u[i]
    BY <1>1, <1>2, JoinedAs
  <2> QED
    BY <2>1, <2>2
<1>5. /\ x \in Seq(Nat) /\ Len(x) = l + m + n
      /\ (\A i \in 1..l + m : x[i] = a[i]) /\ \A i \in 1..n : x[l + m + i] = u[i]
  <2>1. l + m \in Nat /\ l + m = Len(a)
    BY <1>4
  <2>2. /\ x \in Seq(Nat) /\ Len(x) = (l + m) + n
        /\ (\A i \in 1..l + m : x[i] = a[i])
        /\ \A i \in 1..n : x[(l + m) + i] = u[i]
    BY <1>1, <1>2, <1>3, <2>1, JoinedAs
  <2> QED
    BY <2>2
<1>6. /\ y \in Seq(Nat) /\ Len(y) = l + m + n
       /\ (\A i \in 1..l : y[i] = s[i]) /\ \A i \in 1..m + n : y[l + i] = b[i]
  <2>1. m + n \in Nat /\ m + n = Len(b) /\ l + (m + n) = l + m + n
    BY <1>4
  <2>2. /\ y \in Seq(Nat) /\ Len(y) = l + (m + n)
        /\ (\A i \in 1..l : y[i] = s[i])
        /\ \A i \in 1..m + n : y[l + i] = b[i]
    BY <1>1, <1>2, <1>3, <2>1, JoinedAs
  <2> QED
    BY <2>1, <2>2
<1>7. ASSUME NEW i \in 1..l + m + n PROVE x[i] = y[i]
  <2>1. CASE i \in 1..l
    BY <1>4, <1>5, <1>6, <2>1
  <2>2. CASE i \in l + 1..l + m
    <3>1. PICK j \in 1..m : i = l + j
      <4>1. i - l \in 1..m /\ i = l + (i - l)
        BY <2>2
      <4> QED
        BY <4>1
    <3>2. j \in 1..m + n /\ l + j \in 1..l + m
      BY <3>1
    <3>3. a[l + j] = t[j] /\ b[j] = t[j]
      BY <1>4, <3>1
    <3>4. x[l + j] = a[l + j] /\ y[l + j] = b[j]
      BY <1>5, <1>6, <3>2
    <3> QED
      BY <3>1, <3>3, <3>4
  <2>3. CASE i \in l + m + 1..l + m + n
    <3>1. PICK j \in 1..n : i = l + m + j
      <4>1. i - (l + m) \in 1..n /\ i = l + m + (i - (l + m))
        BY <2>3
      <4> QED
        BY <4>1
    <3>2. m + j \in 1..m + n /\ l + (m + j) = i
      BY <3>1
    <3>3. x[i] = u[j] /\ b[m + j] = u[j]
      BY <1>4, <1>5, <1>6, <3>1
    <3>4. y[l + (m + j)] = b[m + j]
      BY <1>6, <3>2
    <3> QED
      BY <3>2, <3>3, <3>4
  <2> QED
    BY <2>1, <2>2, <2>3
<1>8. x = y
  BY <1>5, <1>6, <1>7
<1> QED
  BY <1>1, <1>8

\* Pairs of numbers, one after the other.
LEMMA ConcatSpells ==
  ASSUME NEW n \in Nat, NEW num \in [1..2 * n -> Int], NEW seqs, Len(seqs) = n,
         \A i \in 1..n : seqs[i] = EncodeSigned(num[2 * i - 1]) \o EncodeSigned(num[2 * i])
  PROVE  \E E : Spells(Concat(seqs), E, num, 2 * n)
<1>1. PICK g : g = CHOOSE f : Concats(f, seqs, n)
  OBVIOUS
<1>2. Concats(g, seqs, n)
  BY <1>1, ConcatsExist
<1>3. Concat(seqs) = g[n]
  BY <1>1 DEF Concat, Concats
<1>4. g[0] = << >> /\ \A i \in 1..n : g[i] = g[i - 1] \o seqs[i]
  <2>1. \A i \in 0..n : g[i] = IF i = 0 THEN << >> ELSE g[i - 1] \o seqs[i]
    BY <1>2 DEF Concats
  <2>2. 0 \in 0..n /\ \A i \in 1..n : i \in 0..n /\ i # 0
    OBVIOUS
  <2> QED
    BY <2>1, <2>2
<1> SUFFICES ASSUME \A E : ~Spells(g[n], E, num, 2 * n) PROVE FALSE
  BY <1>3
<1>5. PICK k \in Nat : /\ k <= n /\ \A E : ~Spells(g[k], E, num, 2 * k)
                       /\ \A j \in Nat : j < k => \E E : Spells(g[j], E, num, 2 * j)
  <2>1. PICK S : S = {j \in Nat : j <= n /\ \A E : ~Spells(g[j], E, num, 2 * j)}
    OBVIOUS
  <2>2. S \subseteq Nat /\ n \in S
    BY <2>1
  <2>3. PICK k \in S : \A j \in S : k <= j
    BY <2>2, LeastNat
  <2>4. k \in Nat /\ k <= n /\ \A E : ~Spells(g[k], E, num, 2 * k)
    BY <2>1, <2>3
  <2>5. ASSUME NEW j \in Nat, j < k PROVE \E E : Spells(g[j], E, num, 2 * j)
    <3>1. j \notin S /\ j <= n
      BY <2>3, <2>4, <2>5
    <3> QED
      BY <2>1, <3>1
  <2> QED
    BY <2>4, <2>5
<1>6. k # 0
  <2>1. \E E : Spells(<< >>, E, num, 0)
    BY NothingSpelt
  <2>2. 2 * 0 = 0
    OBVIOUS
  <2> QED
    BY <1>4, <1>5, <2>1, <2>2
<1>7. PICK j \in Nat : j = k - 1 /\ j < k /\ j + 1 = k
  BY <1>6
<1>8. PICK E : Spells(g[j], E, num, 2 * j)
  BY <1>5, <1>7
<1>9. PICK m \in Nat : m = 2 * j /\ 2 * k - 1 = m + 1 /\ 2 * k = m + 1 + 1 /\ m + 1 \in 1..2 * n /\ m + 1 + 1 \in 1..2 * n
  BY <1>5, <1>7
<1>10. PICK c, d : c = EncodeSigned(num[m + 1]) /\ d = EncodeSigned(num[m + 1 + 1])
  OBVIOUS
<1>11. (\A i \in 1..m + 1 : num[i] \in Int) /\ \A i \in 1..m + 1 + 1 : num[i] \in Int
  <2>1. \A i \in 1..m + 1 + 1 : i \in 1..2 * n
    BY <1>9
  <2>2. \A i \in 1..m + 1 : i \in 1..m + 1 + 1
    OBVIOUS
  <2>3. \A i \in 1..m + 1 + 1 : num[i] \in Int
    BY <2>1
  <2> QED
    BY <2>2, <2>3
<1>12. PICK F : Spells(g[j] \o c, F, num, m + 1)
  BY <1>8, <1>9, <1>10, <1>11, NumberAppended
<1>13. PICK G : Spells((g[j] \o c) \o d, G, num, m + 1 + 1)
  <2>1. m + 1 \in Nat
    OBVIOUS
  <2> QED
    BY <1>10, <1>11, <1>12, <2>1, NumberAppended
<1>14. g[k] = g[j] \o (c \o d)
  <2>1. k \in 1..n
    BY <1>5, <1>6
  <2>2. g[k] = g[k - 1] \o seqs[k] /\ seqs[k] = EncodeSigned(num[2 * k - 1]) \o EncodeSigned(num[2 * k])
    BY <1>4, <2>1
  <2> QED
    BY <1>7, <1>9, <1>10, <2>2
<1>15. (g[j] \o c) \o d = g[j] \o (c \o d)
  <2>1. g[j] \in Seq(Nat)
    BY <1>8 DEF Spells
  <2>2. c \in Seq(Nat) /\ d \in Seq(Nat)
    <3>1. num[m + 1] \in Int /\ num[m + 1 + 1] \in Int
      BY <1>9
    <3>2. Closed(c) /\ Closed(d)
      BY <1>10, <3>1, SignedIsClosed
    <3> QED
      BY <3>2 DEF Closed
  <2> QED
    BY <2>1, <2>2, Reassociated
<1> QED
  BY <1>5, <1>9, <1>13, <1>14, <1>15

\* The numbers end where their last chunks stand.
LEMMA EndsAre ==
  ASSUME NEW m \in Nat, NEW num \in [1..m -> Int], NEW code, NEW E, Spells(code, E, num, m)
  PROVE  Ends(code) = {E[k] : k \in 1..m}
<1>1. /\ code \in Seq(Nat) /\ Len(code) \in Nat /\ E \in [0..m -> Nat] /\ E[0] = 0 /\ E[m] = Len(code)
      /\ \A i, j \in 0..m : i < j => E[i] < E[j]
  BY DEF Spells
<1>2. ASSUME NEW k \in 1..m
      PROVE  /\ E[k - 1] \in Nat /\ E[k] \in 1..Len(code)
             /\ code[E[k]] - 63 < 32
             /\ \A j \in Nat : E[k - 1] < j /\ j < E[k] => ~(code[j] - 63 < 32)
  <2>1. PICK c : c = EncodeSigned(num[k])
    OBVIOUS
  <2>2. E[k] = E[k - 1] + Len(c) /\ Placed(code, E[k - 1], c)
    BY <2>1 DEF Spells
  <2>3. num[k] \in Int
    OBVIOUS
  <2>4. Closed(c)
    BY <2>1, <2>3, SignedIsClosed
  <2>5. /\ Len(c) \in Nat /\ Len(c) > 0 /\ c \in Seq(Nat) /\ c[Len(c)] - 63 < 32
        /\ \A p \in 1..Len(c) : p < Len(c) => c[p] - 63 >= 32
    BY <2>4 DEF Closed
  <2>6. k \in 0..m /\ k - 1 \in 0..m /\ m \in 0..m
    OBVIOUS
  <2>7. PICK a \in Nat, b \in Nat, l \in Nat : a = E[k - 1] /\ b = E[k] /\ l = Len(c)
    BY <1>1, <2>5, <2>6
  <2>8. b = a + l /\ l > 0
    BY <2>2, <2>5, <2>7
  <2>9. b <= Len(code)
    <3>1. CASE k = m
      BY <1>1, <2>7, <3>1
    <3>2. CASE k < m
      <4>1. PICK o \in Nat : o = Len(code) /\ o = E[m]
        BY <1>1
      <4>2. b < o
        BY <1>1, <2>6, <2>7, <3>2, <4>1
      <4> QED
        BY <4>1, <4>2
    <3> QED
      BY <3>1, <3>2
  <2>10. \A p \in 1..l : code[a + p] = c[p]
    BY <2>2, <2>7 DEF Placed
  <2>11. code[b] - 63 < 32
    <3>1. l \in 1..l
      BY <2>8
    <3>2. code[a + l] = c[l]
      BY <2>10, <3>1
    <3>3. c[l] - 63 < 32
      BY <2>5, <2>7
    <3> QED
      BY <2>8, <3>2, <3>3
  <2>12. ASSUME NEW j \in Nat, a < j, j < b PROVE ~(code[j] - 63 < 32)
    <3>1. PICK p \in 1..l : j = a + p /\ p < l
      <4>1. j - a \in 1..l /\ j = a + (j - a) /\ j - a < l
        BY <2>8, <2>12
      <4> QED
        BY <4>1
    <3>2. code[j] = c[p]
      BY <2>10, <3>1
    <3>3. p \in 1..Len(c) /\ p < Len(c) /\ c \in Seq(Nat)
      BY <2>5, <2>7, <3>1
    <3>4. PICK z \in Nat : z = c[p] /\ z - 63 >= 32
      BY <2>5, <3>3
    <3>5. ~(z - 63 < 32)
      BY <3>4
    <3> QED
      BY <3>2, <3>4, <3>5
  <2>13. b \in 1..Len(code)
    BY <1>1, <2>8, <2>9
  <2> QED
    BY <2>7, <2>11, <2>12, <2>13
<1>3. \A k \in 1..m : E[k] \in Ends(code)
  BY <1>1, <1>2 DEF Ends
<1>4. ASSUME NEW j \in Ends(code) PROVE \E k \in 1..m : j = E[k]
  <2>1. j \in 1..Len(code) /\ j \in Nat /\ code[j] - 63 < 32
    BY <1>1, <1>4 DEF Ends
  <2>2. PICK S : S = {k \in 0..m : j <= E[k]}
    OBVIOUS
  <2>3. S \subseteq Nat /\ m \in S
    BY <1>1, <2>1, <2>2
  <2>4. PICK k \in S : \A i \in S : k <= i
    BY <2>3, LeastNat
  <2>5. k \in 0..m /\ j <= E[k]
    BY <2>2, <2>4
  <2>6. k # 0
    BY <1>1, <2>1, <2>5
  <2>7. k \in 1..m /\ k - 1 \in 0..m /\ k - 1 < k /\ k - 1 \in Nat /\ k \in Nat
    BY <2>5, <2>6
  <2>8. k - 1 \notin S
    BY <2>4, <2>7
  <2>9. E[k - 1] \in Nat /\ E[k] \in Nat /\ ~(j <= E[k - 1])
    BY <1>1, <2>2, <2>5, <2>7, <2>8
  <2>10. ~(j < E[k])
    <3>1. E[k - 1] < j
      BY <2>1, <2>9
    <3>2. E[k - 1] < j /\ j < E[k] => ~(code[j] - 63 < 32)
      BY <1>2, <2>1, <2>7
    <3> QED
      BY <2>1, <3>1, <3>2
  <2>11. j = E[k]
    BY <2>1, <2>5, <2>9, <2>10
  <2> QED
    BY <2>7, <2>11
<1> QED
  BY <1>3, <1>4

\* The decoder finds the numbers.
LEMMA NumbersFound ==
  ASSUME NEW m \in Nat, NEW num \in [1..m -> Int], NEW code, NEW E, Spells(code, E, num, m),
         NEW ends, ends = Ascending(Ends(code))
  PROVE  Len(ends) = m /\ \A k \in 1..m : Number(code, ends, k) = num[k]
<1>1. E \in [0..m -> Nat] /\ E[0] = 0 /\ \A i, j \in 0..m : i < j => E[i] < E[j]
  BY DEF Spells
<1>2. PICK e : e = [k \in 1..m |-> E[k]]
  OBVIOUS
<1>3. \A k \in 1..m : k \in 0..m /\ e[k] = E[k]
  BY <1>2
<1>4. e \in [1..m -> Int] /\ \A i, j \in 1..m : i < j => e[i] < e[j]
  <2>1. \A k \in 1..m : E[k] \in Int
    BY <1>1, <1>3
  <2> QED
    BY <1>1, <1>2, <1>3, <2>1
<1>5. Ends(code) = {e[k] : k \in 1..m}
  BY <1>3, EndsAre
<1>6. ends = e
  BY <1>4, <1>5, AscendingIs
<1>7. Len(ends) = m
  BY <1>4, <1>6
<1>8. ASSUME NEW k \in 1..m PROVE Number(code, ends, k) = num[k]
  <2>1. PICK c : c = EncodeSigned(num[k])
    OBVIOUS
  <2>2. E[k] = E[k - 1] + Len(c) /\ Placed(code, E[k - 1], c)
    BY <2>1 DEF Spells
  <2>3. PICK a \in Nat : a = E[k - 1]
    <3>1. k - 1 \in 0..m
      OBVIOUS
    <3> QED
      BY <1>1, <3>1
  <2>4. (IF k = 1 THEN 1 ELSE ends[k - 1] + 1) = a + 1
    <3>1. CASE k = 1
      BY <1>1, <2>3, <3>1
    <3>2. CASE k # 1
      <4>1. k - 1 \in 1..m
        BY <3>2
      <4> QED
        BY <1>3, <1>6, <2>3, <3>2, <4>1
    <3> QED
      BY <3>1, <3>2
  <2>5. ends[k] = a + Len(c)
    BY <1>3, <1>6, <2>2, <2>3
  <2>6. num[k] \in Int /\ Placed(code, a, c)
    BY <2>2, <2>3
  <2>7. DecodeSigned(code, a + 1, a + Len(c)) = num[k]
    BY <2>1, <2>6, SignedReadsBack
  <2> QED
    BY <2>4, <2>5, <2>7 DEF Number
<1> QED
  BY <1>7, <1>8

-----------------------------------------------------------------------------

\* The function DecodePolyline adds the numbers up with.
Walks(f, code, ends) ==
  f = [n \in 0..Len(ends) \div 2 |->
         IF n = 0 THEN Coordinate(0, 0)
         ELSE Coordinate(f[n - 1].lat + Number(code, ends, 2 * n - 1), f[n - 1].lon + Number(code, ends, 2 * n))]

LEMMA WalkUnfolds ==
  ASSUME NEW code, NEW ends
  PROVE  Walk(code, ends) = CHOOSE f : Walks(f, code, ends)
BY DEF Walk, Walks

\* The rounded coordinates of point i, zero before the first.
RoundedAt(line, i) == IF i = 0 THEN <<0, 0>> ELSE <<Round1e5(line[i].lat), Round1e5(line[i].lon)>>

LEMMA RoundType == ASSUME NEW v \in Int PROVE Round1e5(v) \in Int
  BY DEF Round1e5

LEMMA RoundedType ==
  ASSUME NEW line \in Seq(Coordinates), NEW i \in 0..Len(line)
  PROVE  \E x, y \in Int : RoundedAt(line, i) = <<x, y>>
<1>1. CASE i = 0
  BY <1>1 DEF RoundedAt
<1>2. CASE i # 0
  <2>1. i \in 1..Len(line)
    BY <1>2
  <2>2. line[i].lat \in Int /\ line[i].lon \in Int
    <3>1. line[i] \in Coordinates
      BY <2>1
    <3> QED
      BY <3>1 DEF Coordinates
  <2>3. Round1e5(line[i].lat) \in Int /\ Round1e5(line[i].lon) \in Int
    BY <2>2, RoundType
  <2> QED
    BY <1>2, <2>3 DEF RoundedAt
<1> QED
  BY <1>1, <1>2

\* Twice the points, as numbers: each rounded coordinate less the one before.
LEMMA NumbersOf ==
  ASSUME NEW line \in Seq(Coordinates), NEW n \in Nat, n = Len(line)
  PROVE  \E num \in [1..2 * n -> Int] :
           \A i \in 1..n :
             /\ Deltas(line)[i] = <<num[2 * i - 1], num[2 * i]>>
             /\ num[2 * i - 1] = RoundedAt(line, i)[1] - RoundedAt(line, i - 1)[1]
             /\ num[2 * i] = RoundedAt(line, i)[2] - RoundedAt(line, i - 1)[2]
<1>1. PICK D : D = [i \in 1..n |-> <<RoundedAt(line, i)[1] - RoundedAt(line, i - 1)[1],
                                     RoundedAt(line, i)[2] - RoundedAt(line, i - 1)[2]>>]
  OBVIOUS
<1>2. Deltas(line) = D
  <2>1. DOMAIN line = 1..n
    OBVIOUS
  <2> QED
    BY <1>1, <2>1 DEF Deltas, RoundedAt
<1>3. ASSUME NEW i \in 1..n PROVE D[i][1] \in Int /\ D[i][2] \in Int
  <2>1. i \in 0..Len(line) /\ i - 1 \in 0..Len(line)
    OBVIOUS
  <2>2. PICK x, y \in Int : RoundedAt(line, i) = <<x, y>>
    BY <2>1, RoundedType
  <2>3. PICK u, v \in Int : RoundedAt(line, i - 1) = <<u, v>>
    BY <2>1, RoundedType
  <2>4. D[i] = <<x - u, y - v>>
    BY <1>1, <2>2, <2>3
  <2> QED
    BY <2>4
<1>4. PICK num : num = [k \in 1..2 * n |-> IF k % 2 = 1 THEN D[(k + 1) \div 2][1] ELSE D[k \div 2][2]]
  OBVIOUS
<1>5. num \in [1..2 * n -> Int]
  <2> SUFFICES ASSUME NEW k \in 1..2 * n
               PROVE  (IF k % 2 = 1 THEN D[(k + 1) \div 2][1] ELSE D[k \div 2][2]) \in Int
    BY <1>4
  <2>1. (k % 2 = 1 => (k + 1) \div 2 \in 1..n) /\ (k % 2 # 1 => k \div 2 \in 1..n)
    OBVIOUS
  <2> QED
    BY <1>3, <2>1
<1>6. ASSUME NEW i \in 1..n
      PROVE  num[2 * i - 1] = D[i][1] /\ num[2 * i] = D[i][2]
  <2>1. /\ 2 * i - 1 \in 1..2 * n /\ (2 * i - 1) % 2 = 1 /\ (2 * i - 1 + 1) \div 2 = i
        /\ 2 * i \in 1..2 * n /\ (2 * i) % 2 # 1 /\ (2 * i) \div 2 = i
    OBVIOUS
  <2> QED
    BY <1>4, <2>1
<1>7. ASSUME NEW i \in 1..n
      PROVE  /\ D[i] = <<D[i][1], D[i][2]>>
             /\ D[i][1] = RoundedAt(line, i)[1] - RoundedAt(line, i - 1)[1]
             /\ D[i][2] = RoundedAt(line, i)[2] - RoundedAt(line, i - 1)[2]
  BY <1>1
<1>8. ASSUME NEW i \in 1..n
      PROVE  /\ Deltas(line)[i] = <<num[2 * i - 1], num[2 * i]>>
             /\ num[2 * i - 1] = RoundedAt(line, i)[1] - RoundedAt(line, i - 1)[1]
             /\ num[2 * i] = RoundedAt(line, i)[2] - RoundedAt(line, i - 1)[2]
  BY <1>2, <1>6, <1>7
<1> QED
  BY <1>5, <1>8

\* The numbers are what the pairs R[0], ..., R[n] differ by, from zero.
Passes(R, n, code, ends) ==
  /\ R[0] = <<0, 0>> /\ \A i \in 0..n : \E x, y \in Int : R[i] = <<x, y>>
  /\ \A i \in 1..n : /\ Number(code, ends, 2 * i - 1) = R[i][1] - R[i - 1][1]
                     /\ Number(code, ends, 2 * i) = R[i][2] - R[i - 1][2]

\* Only one function does what the decoder does, and it goes through the points.
LEMMA WalkPasses ==
  ASSUME NEW n \in Nat, NEW code, NEW ends, Len(ends) = 2 * n, NEW R, Passes(R, n, code, ends)
  PROVE  \A i \in 0..n : Walk(code, ends)[i] = Coordinate(R[i][1], R[i][2])
<1>1. (2 * n) \div 2 = n
  OBVIOUS
<1>2. PICK h : h = [i \in 0..n |-> Coordinate(R[i][1], R[i][2])]
  OBVIOUS
<1>3. ASSUME NEW i \in 1..n, NEW at, at = Coordinate(R[i - 1][1], R[i - 1][2])
      PROVE  Coordinate(R[i][1], R[i][2])
               = Coordinate(at.lat + Number(code, ends, 2 * i - 1), at.lon + Number(code, ends, 2 * i))
  <2>1. i \in 0..n /\ i - 1 \in 0..n
    OBVIOUS
  <2>2. PICK x, y \in Int : R[i] = <<x, y>>
    BY <2>1 DEF Passes
  <2>3. PICK u, v \in Int : R[i - 1] = <<u, v>>
    BY <2>1 DEF Passes
  <2>4. Number(code, ends, 2 * i - 1) = x - u /\ Number(code, ends, 2 * i) = y - v
    <3>1. R[i][1] = x /\ R[i][2] = y /\ R[i - 1][1] = u /\ R[i - 1][2] = v
      BY <2>2, <2>3
    <3>2. /\ Number(code, ends, 2 * i - 1) = R[i][1] - R[i - 1][1]
          /\ Number(code, ends, 2 * i) = R[i][2] - R[i - 1][2]
      BY DEF Passes
    <3> QED
      BY <3>1, <3>2
  <2>5. at.lat = u /\ at.lon = v
    BY <1>3, <2>3 DEF Coordinate
  <2>6. u + (x - u) = x /\ v + (y - v) = y
    OBVIOUS
  <2> QED
    BY <2>2, <2>4, <2>5, <2>6
<1>4. ASSUME NEW i \in 0..n
      PROVE  h[i] = IF i = 0 THEN Coordinate(0, 0)
                    ELSE Coordinate(h[i - 1].lat + Number(code, ends, 2 * i - 1),
                                    h[i - 1].lon + Number(code, ends, 2 * i))
  <2>1. CASE i = 0
    BY <1>2, <2>1 DEF Passes
  <2>2. CASE i # 0
    <3>1. i \in 1..n /\ i - 1 \in 0..n
      BY <2>2
    <3>2. h[i - 1] = Coordinate(R[i - 1][1], R[i - 1][2]) /\ h[i] = Coordinate(R[i][1], R[i][2])
      BY <1>2, <3>1
    <3> QED
      BY <1>3, <2>2, <3>1, <3>2
  <2> QED
    BY <2>1, <2>2
<1>5. Walks(h, code, ends)
  BY <1>1, <1>2, <1>4 DEF Walks
<1>6. PICK f : f = Walk(code, ends) /\ Walks(f, code, ends)
  BY <1>5, WalkUnfolds
<1>7. \A i \in 0..n : f[i] = IF i = 0 THEN Coordinate(0, 0)
                             ELSE Coordinate(f[i - 1].lat + Number(code, ends, 2 * i - 1),
                                             f[i - 1].lon + Number(code, ends, 2 * i))
  BY <1>1, <1>6 DEF Walks
<1> SUFFICES ASSUME NEW m \in 0..n, f[m] # Coordinate(R[m][1], R[m][2]) PROVE FALSE
  BY <1>6
<1>8. PICK k \in 0..n : /\ f[k] # Coordinate(R[k][1], R[k][2])
                        /\ \A j \in 0..n : j < k => f[j] = Coordinate(R[j][1], R[j][2])
  <2>1. PICK S : S = {j \in 0..n : f[j] # Coordinate(R[j][1], R[j][2])}
    OBVIOUS
  <2>2. S \subseteq Nat /\ m \in S
    BY <2>1
  <2>3. PICK k \in S : \A j \in S : k <= j
    BY <2>2, LeastNat
  <2>4. k \in 0..n /\ f[k] # Coordinate(R[k][1], R[k][2])
    BY <2>1, <2>3
  <2>5. ASSUME NEW j \in 0..n, j < k PROVE f[j] = Coordinate(R[j][1], R[j][2])
    <3>1. j \notin S
      BY <2>3, <2>4, <2>5
    <3> QED
      BY <2>1, <3>1
  <2> QED
    BY <2>4, <2>5
<1>9. CASE k = 0
  <2>1. f[0] = Coordinate(0, 0) /\ R[0][1] = 0 /\ R[0][2] = 0
    BY <1>7 DEF Passes
  <2> QED
    BY <1>8, <1>9, <2>1
<1>10. CASE k # 0
  <2>1. k \in 1..n /\ k - 1 \in 0..n /\ k - 1 < k
    BY <1>10
  <2>2. f[k - 1] = Coordinate(R[k - 1][1], R[k - 1][2])
    BY <1>8, <2>1
  <2>3. f[k] = Coordinate(f[k - 1].lat + Number(code, ends, 2 * k - 1), f[k - 1].lon + Number(code, ends, 2 * k))
    BY <1>7, <1>10
  <2>4. Coordinate(R[k][1], R[k][2])
          = Coordinate(f[k - 1].lat + Number(code, ends, 2 * k - 1), f[k - 1].lon + Number(code, ends, 2 * k))
    BY <1>3, <2>1, <2>2
  <2> QED
    BY <1>8, <2>3, <2>4
<1> QED
  BY <1>9, <1>10

\* What is decoded is the line with its coordinates rounded.
LEMMA PolylineReadsBack ==
  ASSUME NEW line \in Seq(Coordinates)
  PROVE  DecodePolyline(EncodePolyline(line))
           = [i \in 1..Len(line) |-> Coordinate(Round1e5(line[i].lat), Round1e5(line[i].lon))]
<1>1. PICK n \in Nat : n = Len(line) /\ DOMAIN line = 1..n
  OBVIOUS
<1>2. PICK num \in [1..2 * n -> Int] :
        \A i \in 1..n :
          /\ Deltas(line)[i] = <<num[2 * i - 1], num[2 * i]>>
          /\ num[2 * i - 1] = RoundedAt(line, i)[1] - RoundedAt(line, i - 1)[1]
          /\ num[2 * i] = RoundedAt(line, i)[2] - RoundedAt(line, i - 1)[2]
  BY <1>1, NumbersOf
<1>3. PICK seqs : seqs = [i \in 1..n |-> EncodeSigned(Deltas(line)[i][1]) \o EncodeSigned(Deltas(line)[i][2])]
  OBVIOUS
<1>4. PICK code : code = EncodePolyline(line) /\ code = Concat(seqs)
  BY <1>1, <1>3 DEF EncodePolyline
<1>5. ASSUME NEW i \in 1..n PROVE seqs[i] = EncodeSigned(num[2 * i - 1]) \o EncodeSigned(num[2 * i])
  <2>1. PICK u, v, d : u = num[2 * i - 1] /\ v = num[2 * i] /\ d = Deltas(line)[i] /\ d = <<u, v>>
    <3>1. Deltas(line)[i] = <<num[2 * i - 1], num[2 * i]>>
      BY <1>2
    <3> QED
      BY <3>1, Zenon
  <2>2. d[1] = u /\ d[2] = v
    BY <2>1
  <2> QED
    BY <1>3, <2>1, <2>2
<1>6. Len(seqs) = n
  <2>1. PICK T : T = {seqs[i] : i \in 1..n}
    OBVIOUS
  <2>2. seqs \in [1..n -> T]
    BY <1>3, <2>1
  <2> QED
    BY <2>2
<1>7. PICK E : Spells(code, E, num, 2 * n)
  BY <1>4, <1>5, <1>6, ConcatSpells
<1>8. PICK ends : ends = Ascending(Ends(code))
  OBVIOUS
<1>9. Len(ends) = 2 * n /\ \A k \in 1..2 * n : Number(code, ends, k) = num[k]
  <2>1. 2 * n \in Nat
    OBVIOUS
  <2> QED
    BY <1>7, <1>8, <2>1, NumbersFound
<1>10. PICK R : R = [i \in 0..n |-> RoundedAt(line, i)]
  OBVIOUS
<1>11. \A i \in 0..n : R[i] = RoundedAt(line, i)
  BY <1>10
<1>12. ASSUME NEW i \in 0..n PROVE \E x, y \in Int : R[i] = <<x, y>>
  <2>1. i \in 0..Len(line)
    BY <1>1
  <2> QED
    BY <1>11, <2>1, RoundedType
<1>13. R[0] = <<0, 0>>
  <2>1. 0 \in 0..n
    OBVIOUS
  <2> QED
    BY <1>11, <2>1 DEF RoundedAt
<1>14. ASSUME NEW i \in 1..n
       PROVE  Number(code, ends, 2 * i - 1) = R[i][1] - R[i - 1][1] /\ Number(code, ends, 2 * i) = R[i][2] - R[i - 1][2]
  <2>1. i \in 0..n /\ i - 1 \in 0..n /\ 2 * i - 1 \in 1..2 * n /\ 2 * i \in 1..2 * n
    OBVIOUS
  <2>2. Number(code, ends, 2 * i - 1) = num[2 * i - 1] /\ Number(code, ends, 2 * i) = num[2 * i]
    BY <1>9, <2>1
  <2> QED
    BY <1>2, <1>11, <2>1, <2>2
<1>15. PICK at : at = Walk(code, ends) /\ \A i \in 0..n : at[i] = Coordinate(R[i][1], R[i][2])
  <2>1. \A i \in 0..n : Walk(code, ends)[i] = Coordinate(R[i][1], R[i][2])
    <3>1. Passes(R, n, code, ends)
      BY <1>12, <1>13, <1>14 DEF Passes
    <3> QED
      BY <1>9, <3>1, WalkPasses
  <2> QED
    BY <2>1
<1>16. DecodePolyline(code) = [i \in 1..n |-> at[i]]
  <2>1. Len(ends) \div 2 = n
    BY <1>9
  <2> QED
    BY <1>8, <1>15, <2>1 DEF DecodePolyline
<1>17. ASSUME NEW i \in 1..n PROVE at[i] = Coordinate(Round1e5(line[i].lat), Round1e5(line[i].lon))
  <2>1. i \in 0..n /\ i # 0
    OBVIOUS
  <2>2. R[i] = <<Round1e5(line[i].lat), Round1e5(line[i].lon)>>
    BY <1>11, <2>1 DEF RoundedAt
  <2> QED
    BY <1>15, <2>1, <2>2
<1> QED
  BY <1>1, <1>4, <1>16, <1>17

-----------------------------------------------------------------------------
(* The summary of a ride.                                                  *)

\* The kept points make a line, one coordinate for each.
LEMMA LineOf ==
  ASSUME NEW track \in Seq(Coordinates), NEW epsilon \in Nat, track # << >>,
         NEW order, order = Ascending(Kept(track, epsilon)), NEW line, line = SimplifyRDP(track, epsilon)
  PROVE  /\ line \in Seq(Coordinates) /\ DOMAIN order = 1..Len(line)
         /\ \A i \in 1..Len(line) : line[i] = track[order[i]]
<1>1. PICK kept : kept = Kept(track, epsilon)
  OBVIOUS
<1>2. kept \subseteq 1..Len(track)
  BY <1>1, KeptNearby
<1>3. kept \subseteq Int /\ IsFiniteSet(kept)
  <2>1. IsFiniteSet(1..Len(track)) /\ kept \in SUBSET (1..Len(track))
    BY <1>2, FS_Interval
  <2>2. IsFiniteSet(kept)
    BY <2>1, FS_Subset
  <2>3. kept \subseteq Int
    BY <1>2
  <2> QED
    BY <2>2, <2>3
<1>4. PICK m \in Nat : m = Cardinality(kept) /\ order \in [1..m -> kept]
  BY <1>1, <1>3, AscendingIn
<1>5. line = [i \in 1..m |-> track[order[i]]]
  BY <1>4 DEF SimplifyRDP
<1>6. ASSUME NEW i \in 1..m PROVE track[order[i]] \in Coordinates
  <2>1. order[i] \in 1..Len(track)
    BY <1>2, <1>4
  <2> QED
    BY <2>1
<1>7. line \in Seq(Coordinates) /\ Len(line) = m
  BY <1>5, <1>6
<1> QED
  BY <1>4, <1>5, <1>7

\* What was drawn is what BuildSummaryFallback makes of a track that is not empty.
SummaryInv ==
  drawn # NoDrawing =>
    /\ drawn.track \in Seq(Coordinates) /\ drawn.track # << >> /\ drawn.epsilon \in Nat
    /\ drawn.summary.polyline = EncodePolyline(SimplifyRDP(drawn.track, drawn.epsilon))

LEMMA SummaryKeeps == SummaryInv /\ [TrackNext \/ SummaryNext]_trackVars => SummaryInv'
<1> SUFFICES ASSUME SummaryInv, [TrackNext \/ SummaryNext]_trackVars PROVE SummaryInv'
  OBVIOUS
<1>1. CASE TrackNext \/ UNCHANGED trackVars
  <2>1. drawn' = drawn
    BY <1>1 DEF TrackNext, ReadLastPosition, ValidatePings, UpsertPosition, UploadLost, Answered,
               PositionExpires, ClockTicks, trackVars
  <2> QED
    BY <2>1 DEF SummaryInv
<1>2. CASE SummaryNext
  <2>1. PICK track \in Tracks, epsilon \in Epsilons : DrawSummary(track, epsilon)
    BY <1>2 DEF SummaryNext
  <2>2. track \in Seq(Coordinates) /\ epsilon \in Nat
    BY TrackAssumption DEF Coordinates
  <2>3. PICK summary : /\ summary = BuildSummaryFallback(track, epsilon) /\ track # << >>
                       /\ drawn' = [track |-> track, epsilon |-> epsilon, summary |-> summary]
    BY <2>1 DEF DrawSummary
  <2>4. summary.polyline = EncodePolyline(SimplifyRDP(track, epsilon))
    BY <2>3 DEF BuildSummaryFallback
  <2>5. drawn'.track = track /\ drawn'.epsilon = epsilon /\ drawn'.summary = summary
    BY <2>3
  <2> QED
    BY <2>2, <2>3, <2>4, <2>5 DEF SummaryInv
<1> QED
  BY <1>1, <1>2

LEMMA DrawnFaithfully == SummaryInv => SummaryFaithful
<1> SUFFICES ASSUME SummaryInv, drawn # NoDrawing PROVE SummaryFaithful
  BY DEF SummaryFaithful
<1>1. PICK track, epsilon, poly :
        /\ track = drawn.track /\ epsilon = drawn.epsilon /\ poly = drawn.summary.polyline
        /\ track \in Seq(Coordinates) /\ track # << >> /\ epsilon \in Nat
        /\ poly = EncodePolyline(SimplifyRDP(track, epsilon))
  BY DEF SummaryInv
<1>2. PICK kept, order, line :
        kept = Kept(track, epsilon) /\ order = Ascending(kept) /\ line = SimplifyRDP(track, epsilon)
  OBVIOUS
<1>3. /\ line \in Seq(Coordinates) /\ DOMAIN order = 1..Len(line)
      /\ \A i \in 1..Len(line) : line[i] = track[order[i]]
  BY <1>1, <1>2, LineOf
<1>4. DecodePolyline(poly) = [i \in DOMAIN order |-> Coordinate(Round1e5(track[order[i]].lat), Round1e5(track[order[i]].lon))]
  <2>1. DecodePolyline(poly) = [i \in 1..Len(line) |-> Coordinate(Round1e5(line[i].lat), Round1e5(line[i].lon))]
    BY <1>1, <1>2, <1>3, PolylineReadsBack
  <2> QED
    BY <1>3, <2>1
<1>5. /\ {1, Len(track)} \subseteq kept
      /\ \A i \in DOMAIN track \ kept :
           ~Farther(track[i], track[Before(kept, i)], track[After(kept, i)], epsilon)
  BY <1>1, <1>2, KeptNearby
<1> QED
  BY <1>1, <1>2, <1>4, <1>5 DEF SummaryFaithful

\* For any tracks and tolerances (summary.go BuildSummaryFallback, rdp.go, polyline.go): the
\* encoded line decodes to a subsequence of the recorded track from its first point to its
\* last, each point off by its own rounding only, and every dropped point lies within the
\* tolerance of the line between the kept points around it.
THEOREM SummaryFaithfulAlways == TrackSpec => []SummaryFaithful
<1>1. TrackInit => SummaryInv
  BY DEF TrackInit, SummaryInv
<1> QED
  BY <1>1, SummaryKeeps, DrawnFaithfully, PTL DEF TrackSpec

=============================================================================
