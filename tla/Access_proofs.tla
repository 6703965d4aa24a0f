---------------------------- MODULE Access_proofs ----------------------------
(***************************************************************************)
(* Who a request acts for and what the audit log tells, for every number   *)
(* of users, requests, tokens and keys, and every lifetime of sessions.    *)
(***************************************************************************)
EXTENDS Access, TLAPS

-----------------------------------------------------------------------------
(* The strengthening, in three parts: the tables, a request, the log. *)

Acts    == {"none", "write", "auth.login", "apikey.create", "apikey.delete", "user.create"}
RowType == [act : Acts, on : Users \cup Tokens \cup Keys \cup {None}, by : Users \cup {None}]
ReqType == [at : Places, bearer : Keys \cup {None}, cookie : Tokens \cup {None},
            user : Users \cup {None}, ctx : Users \cup {None}, row : RowType]

HasAccount(u) == u \in Users /\ account[u] # "none"

CredOK(x) == creds[x] = None \/
    /\ x \in drawn /\ HasAccount(creds[x].user)
    /\ creds[x].exp \in 0..(IF x \in Tokens THEN clock + Ttl ELSE Never)

TablesInv ==
    /\ up \in {"boot", "seeding", "serving"} /\ clock \in 0..MaxTime
    /\ account \in [Users -> Roles \cup {"none"}] /\ disabled \subseteq Users \ {Admin}
    /\ creds \in [Tokens \cup Keys -> {None} \cup [user : Users, exp : Nat]]
    /\ drawn \subseteq Tokens \cup Keys /\ known \subseteq drawn
    /\ \A x \in Tokens \cup Keys : CredOK(x)

(* Between the two reads of a credential its user was good or is disabled. *)
ReqOK(c) ==
    /\ req[c] \in ReqType
    /\ At(c, "bearerUser") \/ At(c, "cookieUser")
          => HasAccount(req[c].user) /\ req[c].user \in vouched[c] \cup disabled
    /\ At(c, "insert") => HasAccount(req[c].user)
    /\ Authenticated(c) => req[c].ctx \in vouched[c]
    /\ \A u \in vouched[c] : HasAccount(u)

RequestsInv ==
    /\ req \in [Clients -> ReqType] /\ vouched \in [Clients -> SUBSET Users]
    /\ \A c \in Clients : ReqOK(c)

AccessInv == TablesInv /\ RequestsInv

-----------------------------------------------------------------------------
LEMMA PlacesType ==
    Idle \in ReqType /\ NoRow \in RowType /\ Idle.ctx = None /\ Idle.at = "idle" /\ "idle" \in Places
  <1>1. NoRow \in RowType
    BY DEF NoRow, RowType, Acts
  <1>2. "idle" \in Places
    BY DEF Places
  <1> QED
    BY <1>1, <1>2 DEF Idle, ReqType

(* A request that a step leaves alone stays consistent: accounts are for ever, *)
(* users are only disabled, and what vouched for it still does.                *)
LEMMA ReqKept ==
    ASSUME NEW c \in Clients, ReqOK(c), UNCHANGED req[c],
           \A u \in Users : account[u] # "none" => account'[u] # "none",
           disabled \subseteq disabled', vouched[c] \subseteq vouched'[c],
           \A u \in vouched'[c] : HasAccount(u)'
    PROVE  ReqOK(c)'
  BY DEF ReqOK, HasAccount, At, Authenticated

LEMMA RefusedOK ==
    ASSUME NEW c \in Clients, req'[c] = Idle, vouched'[c] = {}
    PROVE  ReqOK(c)'
  BY PlacesType DEF ReqOK, At, Authenticated

(* The step of one request, on all requests.                                   *)
LEMMA RequestsKept ==
    ASSUME RequestsInv, NEW c \in Clients, NEW new \in ReqType,
           req' = [req EXCEPT ![c] = new], ReqOK(c)',
           vouched' \in [Clients -> SUBSET Users],
           \A u \in Users : account[u] # "none" => account'[u] # "none",
           disabled \subseteq disabled',
           \A d \in Clients : req'[d] # Idle => vouched[d] \subseteq vouched'[d],
           \A d \in Clients : req'[d] = Idle => vouched'[d] = {},
           \A d \in Clients : \A u \in vouched'[d] : HasAccount(u)'
    PROVE  RequestsInv'
  <1>1. req' \in [Clients -> ReqType]
    BY DEF RequestsInv
  <1>2. ASSUME NEW d \in Clients PROVE ReqOK(d)'
    <2>1. CASE d = c
      BY <2>1
    <2>2. CASE d # c /\ req'[d] # Idle
      BY <2>2, ReqKept DEF RequestsInv
    <2>3. CASE req'[d] = Idle
      BY <2>3, RefusedOK
    <2> QED
      BY <2>1, <2>2, <2>3
  <1> QED
    BY <1>1, <1>2 DEF RequestsInv

-----------------------------------------------------------------------------
(* What a step does to `vouched`. *)
Vouching == vouched' = [c \in Clients |-> IF req'[c] = Idle THEN {} ELSE vouched[c] \cup Good(c)']

LEMMA VouchingSafe ==
    ASSUME RequestsInv, Vouching, TablesInv', req' \in [Clients -> ReqType],
           \A u \in Users : account[u] # "none" => account'[u] # "none"
    PROVE  /\ vouched' \in [Clients -> SUBSET Users]
           /\ \A d \in Clients : req'[d] # Idle => vouched[d] \cup Good(d)' \subseteq vouched'[d]
           /\ \A d \in Clients : req'[d] = Idle => vouched'[d] = {}
           /\ \A d \in Clients : \A u \in vouched'[d] : HasAccount(u)'
  <1>1. \A d \in Clients : \A u \in Good(d)' : HasAccount(u)'
    <2> SUFFICES ASSUME NEW d \in Clients, NEW u \in Good(d)' PROVE HasAccount(u)'
      OBVIOUS
    <2>1. PICK x \in {req'[d].bearer, req'[d].cookie} \ {None} :
             creds'[x] # None /\ creds'[x].user = u
      BY DEF Good
    <2>2. x \in Tokens \cup Keys
      BY <2>1 DEF ReqType
    <2> QED
      BY <2>1, <2>2 DEF TablesInv, CredOK
  <1> QED
    BY <1>1 DEF RequestsInv, Vouching, HasAccount, ReqOK, Good
-----------------------------------------------------------------------------
LEMMA AccountsForEver ==
    ASSUME TablesInv, Step
    PROVE  /\ \A u \in Users : account[u] # "none" => account'[u] # "none"
           /\ disabled \subseteq disabled'
  <1>1. CASE SeedInsert
    BY <1>1, AccessAssumption DEF SeedInsert, TablesInv
  <1>2. CASE \E u \in Users : SetDisabled(u)
    BY <1>2 DEF SetDisabled
  <1>3. ASSUME NEW c \in Clients, CreateUser(c)
        PROVE  /\ \A u \in Users : account[u] # "none" => account'[u] # "none"
               /\ disabled \subseteq disabled'
    BY <1>3 DEF CreateUser, TablesInv, Roles
  <1>4. CASE UNCHANGED <<account, disabled>>
    BY <1>4
  <1> QED
    BY <1>1, <1>2, <1>3, <1>4
       DEF Step, store, SeedCount, Restart, Pass, Arrive, ResolveApiKey, ApiKeyUser, ResolveSession,
           SessionUser, LoginCheck, LoginInsert, Logout, CreateApiKey, DeleteApiKeyCheck,
           DeleteApiKey, Write, Refuse, Record, Abandon

(* A new credential is of a user with an account. *)
LEMMA InsertOK ==
    ASSUME TablesInv, NEW c \in Clients, NEW x \in Tokens \cup Keys, NEW u, HasAccount(u),
           NEW exp \in 0..(IF x \in Tokens THEN clock + Ttl ELSE Never), NEW act,
           Insert(c, x, u, exp, act), UNCHANGED <<up, clock, account, disabled, known>>
    PROVE  TablesInv'
  <1>1. exp \in Nat
    OBVIOUS
  <1>2. creds' \in [Tokens \cup Keys -> {None} \cup [user : Users, exp : Nat]]
    BY <1>1 DEF TablesInv, Insert, HasAccount
  <1>3. \A y \in Tokens \cup Keys : CredOK(y)'
    BY DEF TablesInv, Insert, HasAccount, CredOK
  <1> QED
    BY <1>2, <1>3 DEF TablesInv, Insert

LEMMA TablesStep == AccessInv /\ Step => TablesInv'
  <1> SUFFICES ASSUME AccessInv, Step PROVE TablesInv'
    OBVIOUS
  <1> USE AccessAssumption DEF AccessInv
  <1>1. CASE UNCHANGED <<up, clock, account, disabled, creds, drawn, known>>
    BY <1>1 DEF TablesInv, CredOK, HasAccount
  <1>2. CASE SeedCount
    BY <1>2 DEF SeedCount, store, TablesInv, CredOK, HasAccount
  <1>3. CASE SeedInsert
    BY <1>3 DEF SeedInsert, TablesInv, CredOK, HasAccount, Roles
  <1>4. CASE Restart
    BY <1>4 DEF Restart, store, TablesInv, CredOK, HasAccount
  <1>5. CASE Pass
    BY <1>5 DEF Pass, store, TablesInv, CredOK, HasAccount
  <1>6. ASSUME NEW u \in Users, SetDisabled(u) PROVE TablesInv'
    BY <1>6 DEF SetDisabled, TablesInv, CredOK, HasAccount
  <1>7. ASSUME NEW c \in Clients, LoginInsert(c) PROVE TablesInv'
    <2>1. PICK t \in Tokens : Insert(c, t, req[c].user, clock + Ttl, "auth.login")
      BY <1>7 DEF LoginInsert
    <2>2. HasAccount(req[c].user)
      BY <1>7 DEF LoginInsert, RequestsInv, ReqOK
    <2>3. clock + Ttl \in 0 .. (IF t \in Tokens THEN clock + Ttl ELSE Never)
      BY DEF TablesInv
    <2> QED
      BY <1>7, <2>1, <2>2, <2>3, InsertOK DEF LoginInsert
  <1>8. ASSUME NEW c \in Clients, CreateApiKey(c) PROVE TablesInv'
    <2>1. PICK k \in Keys, exp \in {clock, clock + 1, Never} :
             Insert(c, k, req[c].ctx, exp, "apikey.create")
      BY <1>8 DEF CreateApiKey
    <2>2. HasAccount(req[c].ctx)
      BY <1>8 DEF CreateApiKey, RequestsInv, ReqOK
    <2>3. exp \in 0 .. (IF k \in Tokens THEN clock + Ttl ELSE Never)
      BY DEF TablesInv, Never
    <2> QED
      BY <1>8, <2>1, <2>2, <2>3, InsertOK DEF CreateApiKey
  <1>9. ASSUME NEW c \in Clients, Logout(c) PROVE TablesInv'
    BY <1>9 DEF Logout, TablesInv, CredOK, HasAccount
  <1>10. ASSUME NEW c \in Clients, DeleteApiKey(c) PROVE TablesInv'
    BY <1>10 DEF DeleteApiKey, TablesInv, CredOK, HasAccount
  <1>11. ASSUME NEW c \in Clients, CreateUser(c) PROVE TablesInv'
    BY <1>11 DEF CreateUser, TablesInv, CredOK, HasAccount
  <1>12. ASSUME NEW c \in Clients, Record(c) PROVE TablesInv'
    BY <1>12 DEF Record, store, TablesInv, CredOK, HasAccount
  <1> QED
    BY <1>1, <1>2, <1>3, <1>4, <1>5, <1>6, <1>7, <1>8, <1>9, <1>10, <1>11, <1>12
       DEF Step, store, Arrive, ResolveApiKey, ApiKeyUser, ResolveSession, SessionUser, LoginCheck,
           DeleteApiKeyCheck, Write, Refuse, Abandon
-----------------------------------------------------------------------------
(* The steps of the middleware: the first read of a credential looks at the    *)
(* credential, the second at its user.                                         *)

(* The request with the answer of a step: typed, and changed nowhere else. *)
Changed(c, new) == new \in ReqType /\ req' = [req EXCEPT ![c] = new]

LEMMA ResolveOK ==
    ASSUME AccessInv, Vouching, TablesInv', NEW c \in Clients,
           UNCHANGED <<clock, creds, disabled, account>>,
           NEW x \in Tokens \cup Keys \cup {None}, x \in {req[c].bearer, req[c].cookie},
           NEW found \in {"bearerUser", "cookieUser"}, NEW missing \in {"cookie", "handler"},
           Resolve(c, x, found, missing)
    PROVE  RequestsInv'
  <1> USE AccessAssumption DEF AccessInv
  <1> DEFINE new == req'[c]
  <1>1. Changed(c, new)
    <2>1. CASE Alive(x)
      <3>1. creds[x].user \in Users
        BY <2>1 DEF Alive, TablesInv
      <3>2. found \in Places /\ req[c] \in ReqType
        BY DEF Places, RequestsInv
      <3>3. [req[c] EXCEPT !.at = found, !.user = creds[x].user] \in ReqType
        BY <3>1, <3>2 DEF ReqType
      <3>4. req' = [req EXCEPT ![c] = [req[c] EXCEPT !.at = found, !.user = creds[x].user]]
        BY <2>1, <3>2 DEF Resolve, RequestsInv
      <3> QED
        BY <3>3, <3>4 DEF Changed, RequestsInv
    <2>2. CASE ~ Alive(x)
      BY <2>2 DEF Resolve, Changed, RequestsInv, ReqType, Places
    <2> QED
      BY <2>1, <2>2
  <1>2. req' \in [Clients -> ReqType]
    BY <1>1 DEF Changed, RequestsInv
  <1>3. new # Idle
    BY <1>1 DEF Resolve, Idle, Changed, RequestsInv, ReqType
  <1>4. vouched[c] \cup Good(c)' \subseteq vouched'[c] /\ \A u \in vouched'[c] : HasAccount(u)'
    BY <1>2, <1>3, VouchingSafe
  <1>5. ReqOK(c)'
    <2>1. CASE Alive(x)
      <3>1. creds[x].user \in Good(c)' \cup disabled' /\ HasAccount(creds[x].user)
        BY <2>1 DEF Alive, Good, Resolve, RequestsInv, ReqType, TablesInv, CredOK
      <3>2. new.user = creds[x].user /\ new.ctx = req[c].ctx /\ new.at = found
        BY <2>1 DEF Resolve, RequestsInv, ReqType
      <3> QED
        BY <1>1, <1>4, <3>1, <3>2 DEF ReqOK, RequestsInv, HasAccount, At, Authenticated, Changed
    <2>2. CASE ~ Alive(x)
      <3>1. new.ctx = req[c].ctx /\ new.at = missing
        BY <2>2 DEF Resolve, RequestsInv, ReqType
      <3> QED
        BY <1>1, <1>4, <3>1 DEF ReqOK, RequestsInv, HasAccount, At, Authenticated, Changed
    <2> QED
      BY <2>1, <2>2
  <1> QED
    BY <1>1, <1>2, <1>5, VouchingSafe, RequestsKept DEF Changed

LEMMA ReadUserOK ==
    ASSUME AccessInv, Vouching, TablesInv', NEW c \in Clients,
           UNCHANGED <<clock, creds, disabled, account>>,
           At(c, "bearerUser") \/ At(c, "cookieUser"),
           NEW missing \in {"cookie", "handler"}, ReadUser(c, missing)
    PROVE  RequestsInv'
  <1> USE AccessAssumption DEF AccessInv
  <1> DEFINE new == req'[c]
  <1>1. Changed(c, new)
    <2>1. missing \in Places /\ "handler" \in Places
      BY DEF Places
    <2>2. CASE req[c].user \in disabled
      BY <2>1, <2>2 DEF ReadUser, Changed, RequestsInv, ReqType
    <2>3. CASE req[c].user \notin disabled
      BY <2>1, <2>3 DEF ReadUser, Changed, RequestsInv, ReqType
    <2> QED
      BY <2>2, <2>3
  <1>2. req' \in [Clients -> ReqType]
    BY <1>1 DEF Changed, RequestsInv
  <1>3. new # Idle
    BY <1>1 DEF ReadUser, Idle, Changed, RequestsInv, ReqType
  <1>4. vouched[c] \subseteq vouched'[c] /\ \A u \in vouched'[c] : HasAccount(u)'
    BY <1>2, <1>3, VouchingSafe
  <1>5. ReqOK(c)'
    <2>1. CASE req[c].user \in disabled
      <3>1. new.ctx = req[c].ctx /\ new.at = missing
        BY <2>1 DEF ReadUser, RequestsInv, ReqType
      <3> QED
        BY <1>1, <1>4, <3>1 DEF ReqOK, RequestsInv, HasAccount, At, Authenticated, Changed
    <2>2. CASE req[c].user \notin disabled
      <3>1. new.ctx = req[c].user /\ new.at = "handler" /\ req[c].user \in vouched[c]
        BY <2>2 DEF ReadUser, RequestsInv, ReqType, ReqOK
      <3> QED
        BY <1>1, <1>4, <3>1 DEF ReqOK, RequestsInv, HasAccount, At, Authenticated, Changed
    <2> QED
      BY <2>1, <2>2
  <1> QED
    BY <1>1, <1>2, <1>5, VouchingSafe, RequestsKept DEF Changed

(* Every other step of a request that it survives: its context stays.          *)
LEMMA HandlerOK ==
    ASSUME AccessInv, Vouching, TablesInv', Step, NEW c \in Clients, NEW new,
           Changed(c, new), new.ctx = req[c].ctx \/ new = Idle \/ new.ctx = None,
           new.at \notin {"bearerUser", "cookieUser"},
           new.at = "insert" => HasAccount(new.user)
    PROVE  RequestsInv'
  <1> USE DEF AccessInv
  <1>1. req' \in [Clients -> ReqType] /\ req'[c] = new
    BY DEF Changed, RequestsInv
  <1>2. /\ \A u \in Users : account[u] # "none" => account'[u] # "none"
        /\ disabled \subseteq disabled'
    BY AccountsForEver
  <1>3. ReqOK(c)'
    <2>1. CASE new = Idle
      BY <1>1, <1>2, <2>1, VouchingSafe, RefusedOK
    <2>2. CASE new # Idle
      <3>1. vouched[c] \subseteq vouched'[c] /\ \A u \in vouched'[c] : HasAccount(u)'
        BY <1>1, <1>2, <2>2, VouchingSafe
      <3> QED
        BY <1>1, <1>2, <2>2, <3>1, PlacesType
           DEF ReqOK, RequestsInv, HasAccount, At, Authenticated, Changed
    <2> QED
      BY <2>1, <2>2
  <1> QED
    BY <1>1, <1>2, <1>3, VouchingSafe, RequestsKept DEF Changed
LEMMA ClientStep ==
    ASSUME AccessInv, Vouching, TablesInv', Step, NEW c \in Clients,
           \/ LoginCheck(c) \/ LoginInsert(c) \/ Logout(c) \/ CreateApiKey(c) \/ DeleteApiKeyCheck(c)
           \/ DeleteApiKey(c) \/ CreateUser(c) \/ Write(c) \/ Refuse(c) \/ Record(c) \/ Abandon(c)
           \/ Arrive(c)
    PROVE  RequestsInv'
  <1> USE AccessAssumption DEF AccessInv
  <1>0. req[c] \in ReqType
    BY DEF RequestsInv
  <1>1. CASE Arrive(c)
    <2>1. PICK b \in (known \cap Keys) \cup {None}, k \in (known \cap Tokens) \cup {None} :
             req' = [req EXCEPT ![c] = [Idle EXCEPT !.at = "bearer", !.bearer = b, !.cookie = k]]
      BY <1>1 DEF Arrive
    <2> DEFINE new == [Idle EXCEPT !.at = "bearer", !.bearer = b, !.cookie = k]
    <2>2. new \in ReqType /\ new.ctx = None /\ new.at = "bearer"
      BY PlacesType DEF Idle, ReqType, Places
    <2> QED
      BY <2>1, <2>2, HandlerOK DEF Changed
  <1>2. CASE LoginCheck(c)
    <2>1. PICK u \in Users :
             account[u] # "none" /\ req' = [req EXCEPT ![c].at = "insert", ![c].user = u]
      BY <1>2 DEF LoginCheck
    <2> DEFINE new == [req[c] EXCEPT !.at = "insert", !.user = u]
    <2>2. /\ new \in ReqType /\ new.ctx = req[c].ctx /\ new.at = "insert" /\ new.user = u
          /\ req' = [req EXCEPT ![c] = new]
      BY <1>0, <2>1 DEF ReqType, Places, RequestsInv
    <2> QED
      BY <2>1, <2>2, HandlerOK DEF Changed, HasAccount
  <1>3. ASSUME NEW row \in RowType, NEW place \in {"audit", "delete"},
               req' = [req EXCEPT ![c].at = place, ![c].row = row]
        PROVE  RequestsInv'
    <2> DEFINE new == [req[c] EXCEPT !.at = place, !.row = row]
    <2>1. /\ new \in ReqType /\ new.ctx = req[c].ctx /\ new.at = place
          /\ req' = [req EXCEPT ![c] = new]
      BY <1>0, <1>3 DEF ReqType, Places, RequestsInv
    <2> QED
      BY <2>1, HandlerOK DEF Changed
  <1>4. ASSUME NEW act \in Acts, NEW on \in Users \cup Tokens \cup Keys \cup {None},
               NEW by \in Users \cup {None}
        PROVE  Row(act, on, by) \in RowType
    BY <1>4 DEF Row, RowType
  <1>5. CASE LoginInsert(c)
    BY <1>0, <1>3, <1>4, <1>5 DEF LoginInsert, Insert, ToAudit, ReqType, Acts
  <1>6. CASE CreateApiKey(c)
    BY <1>0, <1>3, <1>4, <1>6 DEF CreateApiKey, Insert, ToAudit, ReqType, Acts
  <1>7. CASE DeleteApiKeyCheck(c)
    BY <1>0, <1>3, <1>4, <1>7 DEF DeleteApiKeyCheck, ReqType, Acts
  <1>8. CASE CreateUser(c)
    BY <1>0, <1>3, <1>4, <1>8 DEF CreateUser, ToAudit, ReqType, Acts
  <1>9. CASE Write(c)
    BY <1>0, <1>3, <1>4, <1>9 DEF Write, ToAudit, ReqType, Acts
  <1>10. CASE DeleteApiKey(c)
    <2> DEFINE new == [req[c] EXCEPT !.at = "audit"]
    <2>1. /\ new \in ReqType /\ new.ctx = req[c].ctx /\ new.at = "audit"
          /\ req' = [req EXCEPT ![c] = new]
      BY <1>0, <1>10 DEF DeleteApiKey, Goto, ReqType, Places, RequestsInv
    <2> QED
      BY <2>1, HandlerOK DEF Changed
  <1>11. CASE req' = [req EXCEPT ![c] = Idle]
    BY <1>11, PlacesType, HandlerOK DEF Changed
  <1> QED
    BY <1>1, <1>2, <1>5, <1>6, <1>7, <1>8, <1>9, <1>10, <1>11
       DEF Logout, Refuse, Record, Abandon, Answer

LEMMA RequestsStep == AccessInv /\ Step /\ Vouching => RequestsInv'
  <1> SUFFICES ASSUME AccessInv, Step, Vouching PROVE RequestsInv'
    OBVIOUS
  <1> USE DEF AccessInv
  <1>1. TablesInv'
    BY TablesStep
  <1>2. /\ \A u \in Users : account[u] # "none" => account'[u] # "none"
        /\ disabled \subseteq disabled'
    BY AccountsForEver
  <1>3. CASE UNCHANGED req
    <2>1. \A c \in Clients : req'[c] # Idle => ReqOK(c)'
      BY <1>1, <1>2, <1>3, VouchingSafe, ReqKept DEF RequestsInv
    <2>2. \A c \in Clients : req'[c] = Idle => ReqOK(c)'
      BY <1>1, <1>2, <1>3, VouchingSafe, RefusedOK DEF RequestsInv
    <2> QED
      BY <1>1, <1>2, <1>3, <2>1, <2>2, VouchingSafe DEF RequestsInv
  <1>4. CASE Restart
    <2>1. req' = [c \in Clients |-> Idle]
      BY <1>4 DEF Restart
    <2>2. req' \in [Clients -> ReqType]
      BY <2>1, PlacesType
    <2>3. vouched' = [c \in Clients |-> {}]
      BY <2>1 DEF Vouching
    <2> QED
      BY <2>1, <2>2, <2>3, RefusedOK DEF RequestsInv
  <1>5. ASSUME NEW c \in Clients, ResolveApiKey(c) PROVE RequestsInv'
    BY <1>1, <1>5, ResolveOK DEF ResolveApiKey, RequestsInv, ReqType, store
  <1>6. ASSUME NEW c \in Clients, ResolveSession(c) PROVE RequestsInv'
    BY <1>1, <1>6, ResolveOK DEF ResolveSession, RequestsInv, ReqType, store
  <1>7. ASSUME NEW c \in Clients, ApiKeyUser(c) PROVE RequestsInv'
    BY <1>1, <1>7, ReadUserOK DEF ApiKeyUser, store
  <1>8. ASSUME NEW c \in Clients, SessionUser(c) PROVE RequestsInv'
    BY <1>1, <1>8, ReadUserOK DEF SessionUser, store
  <1> QED
    BY <1>1, <1>3, <1>4, <1>5, <1>6, <1>7, <1>8, ClientStep
       DEF Step, SeedCount, SeedInsert, SetDisabled, Pass, store

LEMMA AccessStep == AccessInv /\ [Next]_vars => AccessInv'
  <1> SUFFICES ASSUME AccessInv, [Next]_vars PROVE AccessInv'
    OBVIOUS
  <1>1. CASE Next
    BY <1>1, TablesStep, RequestsStep DEF AccessInv, Next, Vouching
  <1>2. CASE UNCHANGED vars
    BY <1>2 DEF vars, store, history, bounds, AccessInv, TablesInv, CredOK, HasAccount, RequestsInv,
                ReqOK, At, Authenticated
  <1> QED
    BY <1>1, <1>2

LEMMA AccessStart == AccessInit => AccessInv
  <1> SUFFICES ASSUME AccessInit PROVE AccessInv
    OBVIOUS
  <1>1. TablesInv
    BY AccessAssumption DEF AccessInit, TablesInv, CredOK, Roles
  <1>2. RequestsInv
    BY PlacesType DEF AccessInit, RequestsInv, ReqOK, At, Authenticated
  <1> QED
    BY <1>1, <1>2 DEF AccessInv

(* The tables and the requests keep their types, a session lasts for the Ttl   *)
(* at most and the user of every credential has a row.                         *)
THEOREM AccessTypeCorrect == Spec => []AccessTypeOK
  <1>1. AccessInv => AccessTypeOK
    BY DEF AccessInv, AccessTypeOK, TablesInv, CredOK, HasAccount, RequestsInv, ReqType
  <1> QED
    BY <1>1, AccessStart, AccessStep, PTL DEF Spec

(* A request acts only for a user whose credential it presented was good at    *)
(* some instant since it arrived (resolve, middleware).                        *)
THEOREM RequestsSafe == Spec => []RequestVouched
  <1>1. AccessInv => RequestVouched
    BY DEF AccessInv, RequestVouched, RequestsInv, ReqOK
  <1> QED
    BY <1>1, AccessStart, AccessStep, PTL DEF Spec
-----------------------------------------------------------------------------
(* The audit log. The strengthening speaks of rows still to be written, too:   *)
(* what they tell has happened, and what a row will tell of a deletion can.    *)

RowOK(row) ==
    HasAccount(row.by) /\ (row.act = "write" \/ About(row) \in Effects) /\ ActorsMay(row)

SeedInv ==
    /\ (\E u \in Users : account[u] # "none") => account[Admin] # "none"
    /\ up = "serving" => account[Admin] # "none"
    /\ up = "seeding" => \A u \in Users : account[u] = "none"

DeletesOK == \A c \in Clients : At(c, "delete") =>
    req[c].row.act = "apikey.delete" /\ req[c].row.on \in Keys \cap drawn /\ HasAccount(req[c].row.by)

Told(e) == \E row \in audit \cup cut \cup Pending(Clients) : About(row) = e

LogInv ==
    /\ SeedInv /\ DeletesOK
    /\ up # "serving" => \A c \in Clients : req[c] = Idle
    /\ \A row \in audit \cup Pending(Clients) : RowOK(row)
    /\ \A e \in Effects : Told(e)

(* The tables that effects are read from only grow. *)
Grown ==
    /\ \A u \in Users : account[u] # "none" => account'[u] = account[u]
    /\ drawn \subseteq drawn'
    /\ \A k \in Keys \cap drawn : creds[k] = None => creds'[k] = None

LEMMA RolesForEver ==
    ASSUME AccessInv, SeedInv, Step
    PROVE  Grown
  <1> USE AccessAssumption DEF AccessInv
  <1>1. CASE UNCHANGED <<account, creds, drawn>>
    BY <1>1 DEF Grown
  <1>2. CASE SeedInsert
    BY <1>2 DEF SeedInsert, SeedInv, Grown
  <1>3. ASSUME NEW c \in Clients, NEW x \in Tokens \cup Keys, NEW u, NEW exp, NEW act,
               Insert(c, x, u, exp, act), UNCHANGED account
        PROVE  Grown
    BY <1>3 DEF Insert, TablesInv, Grown
  <1>4. ASSUME NEW c \in Clients, Logout(c) PROVE Grown
    BY <1>4 DEF Logout, TablesInv, Grown
  <1>5. ASSUME NEW c \in Clients, DeleteApiKey(c) PROVE Grown
    BY <1>5 DEF DeleteApiKey, TablesInv, Grown
  <1>6. ASSUME NEW c \in Clients, CreateUser(c) PROVE Grown
    BY <1>6 DEF CreateUser, TablesInv, Grown
  <1> QED
    BY <1>1, <1>2, <1>3, <1>4, <1>5, <1>6
       DEF Step, store, SeedCount, Restart, Pass, SetDisabled, Arrive, ResolveApiKey, ApiKeyUser,
           ResolveSession, SessionUser, LoginCheck, LoginInsert, CreateApiKey, DeleteApiKeyCheck,
           Write, Refuse, Record, Abandon

LEMMA EffectsGrow == AccessInv /\ Grown => Effects \subseteq Effects'
  BY DEF AccessInv, TablesInv, Grown, Effects

LEMMA RowKept ==
    ASSUME AccessInv, Grown, NEW row, RowOK(row)
    PROVE  RowOK(row)'
  <1>1. HasAccount(row.by)' /\ account'[row.by] = account[row.by]
    BY DEF RowOK, HasAccount, Grown
  <1>2. ActorsMay(row)'
    BY <1>1 DEF RowOK, ActorsMay
  <1>3. row.act = "write" \/ (About(row) \in Effects)'
    BY EffectsGrow DEF RowOK, About
  <1> QED
    BY <1>1, <1>2, <1>3 DEF RowOK
(* A step with the rows `New` as the only ones that are new, each of them      *)
(* telling the truth, and with no effect that they do not tell of.             *)
LEMMA LogKept ==
    ASSUME AccessInv, LogInv, Grown, SeedInv', DeletesOK',
           up' # "serving" => \A c \in Clients : req'[c] = Idle,
           NEW New, \A row \in New : RowOK(row)',
           New \subseteq audit' \cup cut' \cup Pending(Clients)',
           audit' \cup Pending(Clients)' \subseteq audit \cup Pending(Clients) \cup New,
           audit \cup cut \cup Pending(Clients) \subseteq audit' \cup cut' \cup Pending(Clients)',
           \A e \in Effects' : e \in Effects \/ \E row \in New : About(row) = e
    PROVE  LogInv'
  <1>1. \A row \in audit' \cup Pending(Clients)' : RowOK(row)'
    BY RowKept DEF LogInv
  <1>2. \A e \in Effects' : Told(e)'
    BY DEF LogInv, Told, About
  <1> QED
    BY <1>1, <1>2 DEF LogInv

(* A step of a request c that is served, with what it shares with all others. *)
ServedStep(c) ==
    /\ up = "serving" /\ up' = up /\ \A d \in Clients \ {c} : req'[d] = req[d]
    /\ Grown /\ SeedInv'

LEMMA DeletesKept ==
    ASSUME AccessInv, LogInv, NEW c \in Clients, ServedStep(c), ~ At(c, "delete")'
    PROVE  DeletesOK'
  BY DEF LogInv, DeletesOK, At, ServedStep, Grown, HasAccount

(* A request that writes no row and has none to write. *)
LEMMA QuietStep ==
    ASSUME AccessInv, LogInv, NEW c \in Clients, ServedStep(c), DeletesOK',
           ~ At(c, "audit"), ~ At(c, "audit")', UNCHANGED <<audit, cut>>, Effects' \subseteq Effects
    PROVE  LogInv'
  <1>1. Pending(Clients)' = Pending(Clients)
    BY DEF Pending, At, ServedStep
  <1> DEFINE New == {}
  <1>2. /\ New \subseteq audit' \cup cut' \cup Pending(Clients)'
        /\ audit' \cup Pending(Clients)' \subseteq audit \cup Pending(Clients) \cup New
        /\ \A row \in New : RowOK(row)'
        /\ \A e \in Effects' : e \in Effects \/ \E row \in New : About(row) = e
    BY <1>1
  <1>3. up' = "serving" /\ Grown /\ SeedInv'
    BY DEF ServedStep
  <1> HIDE DEF New
  <1> QED
    BY <1>1, <1>2, <1>3, LogKept

(* A request with an effect, and a row to write that tells of it. *)
LEMMA TellingStep ==
    ASSUME AccessInv, LogInv, NEW c \in Clients, ServedStep(c), UNCHANGED <<audit, cut>>,
           ~ At(c, "audit"), At(c, "audit")', NEW row, row = req'[c].row, RowOK(row)',
           \A e \in Effects' : e \in Effects \/ e = About(row)
    PROVE  LogInv'
  <1>1. Pending(Clients)' = Pending(Clients) \cup {row}
    BY DEF Pending, At, ServedStep
  <1>2. DeletesOK'
    BY DeletesKept DEF At
  <1> QED
    BY <1>1, <1>2, LogKept DEF ServedStep

(* A request that ends: its row is written, or is cut off. *)
LEMMA EndingStep ==
    ASSUME AccessInv, LogInv, NEW c \in Clients, ServedStep(c), req'[c] = Idle,
           audit \subseteq audit', cut \subseteq cut', audit' \subseteq audit \cup Pending({c}),
           Pending({c}) \subseteq audit' \cup cut', Effects' \subseteq Effects
    PROVE  LogInv'
  <1>1. Pending(Clients)' \subseteq Pending(Clients)
    BY PlacesType DEF Pending, At, ServedStep
  <1>2. Pending(Clients) \subseteq Pending(Clients)' \cup Pending({c})
    BY DEF Pending, At, ServedStep
  <1>3. Pending({c}) \subseteq Pending(Clients)
    BY DEF Pending, At
  <1>4. DeletesOK'
    BY PlacesType, DeletesKept DEF At
  <1> DEFINE New == {}
  <1>5. /\ New \subseteq audit' \cup cut' \cup Pending(Clients)'
        /\ audit' \cup Pending(Clients)' \subseteq audit \cup Pending(Clients) \cup New
        /\ \A row \in New : RowOK(row)'
        /\ \A e \in Effects' : e \in Effects \/ \E row \in New : About(row) = e
    BY <1>1, <1>3
  <1>6. audit \cup cut \cup Pending(Clients) \subseteq audit' \cup cut' \cup Pending(Clients)'
    BY <1>2
  <1>7. up' = "serving" /\ Grown /\ SeedInv'
    BY DEF ServedStep
  <1> HIDE DEF New
  <1> QED
    BY <1>4, <1>5, <1>6, <1>7, LogKept
LEMMA SeedStep ==
    ASSUME AccessInv, LogInv, Step
    PROVE  SeedInv'
  <1> USE AccessAssumption DEF AccessInv
  <1>1. CASE SeedCount
    BY <1>1 DEF SeedCount, store, LogInv, SeedInv
  <1>2. CASE SeedInsert
    BY <1>2 DEF SeedInsert, TablesInv, SeedInv
  <1>3. CASE Restart
    BY <1>3 DEF Restart, store, LogInv, SeedInv
  <1>4. ASSUME NEW c \in Clients, CreateUser(c) PROVE SeedInv'
    <2>1. up = "serving"
      BY <1>4 DEF CreateUser, LogInv, At, Idle
    <2> QED
      BY <1>4, <2>1 DEF CreateUser, LogInv, SeedInv, TablesInv
  <1>5. CASE UNCHANGED <<up, account>>
    BY <1>5 DEF LogInv, SeedInv
  <1> QED
    BY <1>1, <1>2, <1>3, <1>4, <1>5
       DEF Step, store, Pass, SetDisabled, Arrive, ResolveApiKey, ApiKeyUser, ResolveSession,
           SessionUser, LoginCheck, LoginInsert, Logout, CreateApiKey, DeleteApiKeyCheck,
           DeleteApiKey, Write, Refuse, Record, Abandon

ClientAction(c) ==
    \/ Arrive(c) \/ ResolveApiKey(c) \/ ApiKeyUser(c) \/ ResolveSession(c) \/ SessionUser(c)
    \/ LoginCheck(c) \/ LoginInsert(c) \/ Logout(c) \/ CreateApiKey(c) \/ DeleteApiKeyCheck(c)
    \/ DeleteApiKey(c) \/ CreateUser(c) \/ Write(c) \/ Refuse(c) \/ Record(c) \/ Abandon(c)

LEMMA Served ==
    ASSUME AccessInv, LogInv, Step, NEW c \in Clients, ClientAction(c)
    PROVE  ServedStep(c)
  <1>1. up = "serving" /\ up' = up
    <2>1. CASE Arrive(c)
      BY <2>1 DEF Arrive
    <2>2. CASE ~ Arrive(c)
      <3>1. ~ At(c, "idle") /\ up' = up
        BY <2>2 DEF At, ClientAction, ResolveApiKey, ApiKeyUser, ResolveSession,
           SessionUser, LoginCheck, LoginInsert, Logout, CreateApiKey, DeleteApiKeyCheck,
           DeleteApiKey, CreateUser, Write, Refuse, Record, Abandon
      <3> QED
        BY <3>1, PlacesType DEF LogInv, At
    <2> QED
      BY <2>1, <2>2
  <1>2. \A d \in Clients \ {c} : req'[d] = req[d]
    BY DEF AccessInv, RequestsInv, ClientAction, Arrive, Resolve, ReadUser, ResolveApiKey,
           ApiKeyUser, ResolveSession, SessionUser, LoginCheck, LoginInsert, Logout, CreateApiKey,
           DeleteApiKeyCheck, DeleteApiKey, CreateUser, Write, Refuse, Record, Abandon, Insert,
           ToAudit, Answer, Goto
  <1> QED
    BY <1>1, <1>2, SeedStep, RolesForEver DEF LogInv, ServedStep

LEMMA LogClient ==
    ASSUME AccessInv, LogInv, Step, NEW c \in Clients, ClientAction(c)
    PROVE  LogInv'
  <1> USE AccessAssumption
  <1>0. ServedStep(c) /\ req[c] \in ReqType /\ req \in [Clients -> ReqType]
    BY Served DEF AccessInv, RequestsInv
  <1>1. ASSUME UNCHANGED <<account, creds, drawn>> PROVE Effects' = Effects
    BY <1>1 DEF Effects
  <1>2. ASSUME ~ At(c, "audit"), ~ At(c, "audit")', ~ At(c, "delete")', UNCHANGED <<audit, cut>>,
               Effects' \subseteq Effects
        PROVE  LogInv'
    BY <1>0, <1>2, DeletesKept, QuietStep
  <1>3. CASE Arrive(c)
    <2>1. req'[c].at = "bearer" /\ req[c].at = "idle"
      BY <1>0, <1>3 DEF Arrive, At, Idle
    <2> QED
      BY <1>1, <1>2, <1>3, <2>1 DEF Arrive, At, store
  <1>18. CASE LoginCheck(c)
    <2>1. req'[c].at = "insert" /\ req[c].at = "handler"
      BY <1>0, <1>18 DEF LoginCheck, At, ReqType
    <2> QED
      BY <1>1, <1>2, <1>18, <2>1 DEF LoginCheck, At, store
  <1>4. CASE ResolveApiKey(c) \/ ResolveSession(c)
    BY <1>0, <1>1, <1>2, <1>4 DEF ResolveApiKey, ResolveSession, Resolve, At, store, ReqType
  <1>5. CASE ApiKeyUser(c) \/ SessionUser(c)
    BY <1>0, <1>1, <1>2, <1>5 DEF ApiKeyUser, SessionUser, ReadUser, At, store, ReqType
  <1>6. CASE Refuse(c)
    BY <1>0, <1>1, <1>2, <1>6 DEF Refuse, Answer, At, Idle, store
  <1>7. CASE Logout(c)
    <2>1. Effects' \subseteq Effects
      BY <1>0, <1>7 DEF Logout, Effects, AccessInv, TablesInv, ReqType
    <2> QED
      BY <1>0, <1>2, <1>7, <2>1 DEF Logout, Answer, At, Idle
  <1>8. CASE DeleteApiKeyCheck(c)
    <2>1. PICK k \in Keys : /\ creds[k] # None /\ creds[k].user = req[c].ctx
              /\ req' = [req EXCEPT ![c].at = "delete", ![c].row = Row("apikey.delete", k, req[c].ctx)]
      BY <1>8 DEF DeleteApiKeyCheck
    <2>2. k \in Keys \cap drawn' /\ req[c].ctx \in Users /\ account'[req[c].ctx] # "none"
      BY <1>8, <2>1 DEF DeleteApiKeyCheck, AccessInv, TablesInv, CredOK, HasAccount, store
    <2>3. req'[c].at = "delete" /\ req'[c].row = Row("apikey.delete", k, req[c].ctx)
      BY <1>0, <2>1 DEF ReqType
    <2>4. ASSUME NEW d \in Clients, At(d, "delete")'
          PROVE  /\ req'[d].row.act = "apikey.delete" /\ req'[d].row.on \in Keys \cap drawn'
                 /\ HasAccount(req[d].row.by)'
      <3>1. CASE d = c
        BY <2>2, <2>3, <3>1 DEF Row, HasAccount
      <3>2. CASE d # c
        BY <1>0, <2>4, <3>2 DEF LogInv, DeletesOK, ServedStep, At, HasAccount, Grown
      <3> QED
        BY <3>1, <3>2
    <2>5. DeletesOK'
      BY <2>4 DEF DeletesOK
    <2> QED
      BY <1>0, <1>1, <1>8, <2>3, <2>5, QuietStep DEF DeleteApiKeyCheck, At, store
  <1>9. ASSUME NEW act, NEW on, NEW by, At(c, "handler") \/ At(c, "insert"),
               ToAudit(c, Row(act, on, by)), UNCHANGED <<audit, cut>>, RowOK(Row(act, on, by))',
               \A e \in Effects' : e \in Effects \/ e = <<act, on>>
        PROVE  LogInv'
    <2>1. At(c, "audit")' /\ req'[c].row = Row(act, on, by)
      BY <1>0, <1>9 DEF ToAudit, At, ReqType
    <2>2. About(Row(act, on, by)) = <<act, on>>
      BY DEF About, Row
    <2> QED
      BY <1>0, <1>9, <2>1, <2>2, TellingStep DEF At
  <1>10. ASSUME NEW act \in {"auth.login", "apikey.create", "user.create"}, NEW on, NEW by,
                <<act, on>> \in Effects', HasAccount(by)',
                act = "user.create" => CanAdmin(account'[by])
         PROVE  RowOK(Row(act, on, by))'
    BY <1>10 DEF RowOK, Row, About, ActorsMay, HasAccount
  <1>11. CASE LoginInsert(c)
    <2>1. PICK t \in Tokens : Insert(c, t, req[c].user, clock + Ttl, "auth.login")
      BY <1>11 DEF LoginInsert
    <2>2. <<"auth.login", t>> \in Effects' /\ \A e \in Effects' : e \in Effects \/ e = <<"auth.login", t>>
      BY <1>11, <2>1 DEF LoginInsert, Insert, Effects, AccessInv, TablesInv
    <2>3. PICK by \in Users : by = req[c].user /\ account'[by] # "none"
      BY <1>11 DEF LoginInsert, AccessInv, RequestsInv, ReqOK, HasAccount
    <2>4. RowOK(Row("auth.login", t, by))'
      BY <1>10, <2>2, <2>3 DEF HasAccount
    <2> QED
      BY <1>9, <1>11, <2>1, <2>2, <2>3, <2>4 DEF LoginInsert, Insert
  <1>12. CASE CreateApiKey(c)
    <2>1. PICK k \in Keys, exp \in {clock, clock + 1, Never} :
             Insert(c, k, req[c].ctx, exp, "apikey.create")
      BY <1>12 DEF CreateApiKey
    <2>2. <<"apikey.create", k>> \in Effects'
      BY <2>1 DEF Insert, Effects
    <2>3. ASSUME NEW x \in Keys, x \in drawn', creds'[x] = None
          PROVE  x = k \/ (x \in drawn /\ creds[x] = None)
      BY <2>1, <2>3 DEF Insert, AccessInv, TablesInv
    <2>6. \A e \in Effects' : e \in Effects \/ e = <<"apikey.create", k>>
      <3>1. creds'[k] # None
        <4>1. req[c].ctx \in Users /\ exp \in Nat
          BY <1>12 DEF CreateApiKey, AccessInv, TablesInv, RequestsInv, ReqOK, HasAccount, Never
        <4> QED
          BY <2>1, <4>1 DEF Insert, AccessInv, TablesInv
      <3>2. drawn' = drawn \cup {k} /\ account' = account
        BY <1>12, <2>1 DEF CreateApiKey, Insert
      <3> QED
        BY <2>3, <3>1, <3>2 DEF Effects
    <2>4. PICK by \in Users : by = req[c].ctx /\ account'[by] # "none"
      BY <1>12 DEF CreateApiKey, AccessInv, RequestsInv, ReqOK, HasAccount
    <2>5. RowOK(Row("apikey.create", k, by))'
      BY <1>10, <2>2, <2>4 DEF HasAccount
    <2> QED
      BY <1>9, <1>12, <2>1, <2>4, <2>5, <2>6 DEF CreateApiKey, Insert
  <1>13. CASE CreateUser(c)
    <2>1. PICK u \in Users, role \in Roles :
             /\ account[u] = "none" /\ account' = [account EXCEPT ![u] = role]
             /\ ToAudit(c, Row("user.create", u, req[c].ctx))
      BY <1>13 DEF CreateUser
    <2>2. u # Admin
      BY <1>0, <2>1 DEF ServedStep, LogInv, SeedInv
    <2>3. /\ <<"user.create", u>> \in Effects'
          /\ \A e \in Effects' : e \in Effects \/ e = <<"user.create", u>>
      BY <1>13, <2>1, <2>2 DEF CreateUser, Effects, AccessInv, TablesInv, Roles
    <2>4. PICK by \in Users : by = req[c].ctx /\ account[by] # "none" /\ CanAdmin(account[by])
      BY <1>13 DEF CreateUser, AdminAllowed, AccessInv, RequestsInv, ReqOK, HasAccount
    <2>5. account'[by] = account[by]
      BY <2>1, <2>4 DEF AccessInv, TablesInv
    <2>6. RowOK(Row("user.create", u, by))'
      BY <1>10, <2>3, <2>4, <2>5 DEF HasAccount
    <2> QED
      BY <1>9, <1>13, <2>1, <2>3, <2>4, <2>6 DEF CreateUser
  <1>14. CASE Write(c)
    <2>1. PICK by \in Users : by = req[c].ctx /\ account[by] # "none" /\ CanWrite(account[by])
      BY <1>14 DEF Write, WriteAllowed, AccessInv, RequestsInv, ReqOK, HasAccount
    <2>2. RowOK(Row("write", None, by))'
      BY <1>14, <2>1 DEF Write, RowOK, Row, ActorsMay, HasAccount, store
    <2> QED
      BY <1>1, <1>9, <1>14, <2>1, <2>2 DEF Write, store
  <1>15. CASE DeleteApiKey(c)
    <2>0. PICK row \in RowType : row = req[c].row
      BY <1>0 DEF ReqType
    <2>1. /\ row.act = "apikey.delete" /\ row.on \in Keys \cap drawn /\ HasAccount(row.by)
      BY <1>15, <2>0 DEF DeleteApiKey, LogInv, DeletesOK
    <2>2. About(row) \in Effects' /\ \A e \in Effects' : e \in Effects \/ e = About(row)
      BY <1>15, <2>0, <2>1 DEF DeleteApiKey, Effects, About, AccessInv, TablesInv
    <2>3. HasAccount(row.by)'
      BY <1>15, <2>1 DEF DeleteApiKey, HasAccount
    <2>4. RowOK(row)'
      BY <2>1, <2>2, <2>3 DEF RowOK, ActorsMay, HasAccount, About
    <2>5. At(c, "audit")' /\ req'[c].row = row
      BY <1>0, <1>15, <2>0 DEF DeleteApiKey, Goto, At, ReqType
    <2> QED
      BY <1>0, <1>15, <2>2, <2>4, <2>5, TellingStep DEF DeleteApiKey, At
  <1>16. CASE Record(c)
    <2>1. req'[c] = Idle /\ audit' = audit \cup Pending({c}) /\ UNCHANGED cut /\ Effects' = Effects
      BY <1>0, <1>1, <1>16 DEF Record, Answer, Pending, At, store
    <2> QED
      BY <1>0, <2>1, EndingStep
  <1>17. CASE Abandon(c)
    <2>1. req'[c] = Idle /\ cut' = cut \cup Pending({c}) /\ UNCHANGED audit /\ Effects' = Effects
      BY <1>0, <1>1, <1>17 DEF Abandon, Answer, store
    <2> QED
      BY <1>0, <2>1, EndingStep
  <1> QED
    BY <1>3, <1>4, <1>5, <1>6, <1>7, <1>8, <1>11, <1>12, <1>13, <1>14, <1>15, <1>16, <1>17, <1>18
       DEF ClientAction

LEMMA LogStep == AccessInv /\ LogInv /\ [Next]_vars => LogInv'
  <1> SUFFICES ASSUME AccessInv, LogInv, [Next]_vars PROVE LogInv'
    OBVIOUS
  <1>1. ASSUME Step, NEW c \in Clients, ClientAction(c) PROVE LogInv'
    BY <1>1, LogClient
  <1>2. ASSUME SeedInv', UNCHANGED <<account, creds, drawn, req, audit, cut>>,
               up' # "serving" => \A c \in Clients : req'[c] = Idle
        PROVE  LogInv'
    BY <1>2 DEF LogInv, DeletesOK, At, HasAccount, Pending, RowOK, Effects, ActorsMay, Told, About
  <1>3. CASE SeedCount
    BY <1>2, <1>3, SeedStep DEF SeedCount, store, LogInv, Step
  <1>4. CASE SeedInsert
    <2>1. Effects' = Effects /\ Pending(Clients) = {} /\ Pending(Clients)' = {}
      BY <1>4 DEF SeedInsert, Effects, AccessInv, TablesInv, LogInv, Pending, At, Idle
    <2>2. audit = {}
      BY <1>4 DEF SeedInsert, LogInv, SeedInv, RowOK, HasAccount
    <2> QED
      BY <1>4, <2>1, <2>2, SeedStep DEF SeedInsert, LogInv, DeletesOK, At, Idle, Told, Step
  <1>5. CASE Restart
    <2>1. \A c \in Clients : req'[c] = Idle
      BY <1>5 DEF Restart
    <2>2. Pending(Clients)' = {} /\ DeletesOK' /\ SeedInv' /\ Effects' = Effects /\ Grown
      BY <1>5, <2>1, SeedStep, RolesForEver
         DEF Restart, Pending, DeletesOK, At, Idle, Step, Effects, store, LogInv
    <2>3. audit' = audit /\ cut' = cut \cup Pending(Clients)
      BY <1>5 DEF Restart
    <2> QED
      BY <2>1, <2>2, <2>3, RowKept DEF LogInv, Told
  <1>6. CASE Pass
    BY <1>2, <1>6, SeedStep DEF Pass, store, LogInv, Step
  <1>7. ASSUME NEW u \in Users, SetDisabled(u) PROVE LogInv'
    BY <1>2, <1>7, SeedStep DEF SetDisabled, LogInv, Step
  <1>8. CASE UNCHANGED vars
    BY <1>2, <1>8 DEF vars, store, history, bounds, LogInv, SeedInv
  <1> QED
    BY <1>1, <1>3, <1>4, <1>5, <1>6, <1>7, <1>8 DEF Next, Step, ClientAction

(* The audit log tells of nothing that did not happen, of every effect but     *)
(* those that were cut off before their row, and names actors who might do it. *)
THEOREM AuditSafe == Spec => []AuditTrail
  <1>1. AccessInit => LogInv
    BY AccessAssumption, PlacesType
       DEF AccessInit, LogInv, SeedInv, DeletesOK, Pending, At, Effects
  <1>2. LogInv => AuditTrail
    BY DEF LogInv, AuditTrail, RowsTell, EffectsTold, RowOK, Told
  <1> QED
    BY <1>1, <1>2, AccessStart, AccessStep, LogStep, PTL DEF Spec
=============================================================================
