-------------------------------- MODULE Access --------------------------------
(***************************************************************************)
(* Accounts, sessions and API keys, and what a request may do with them.   *)
(* The middleware resolves the bearer key, then the cookie, with a read of *)
(* the credential and a read of its user; extractors compare the role; the *)
(* handler writes a row and then one in the audit log. Every read and      *)
(* write is an await: other requests, expiry, a client that hangs up and a *)
(* restart come in between.                                                *)
(***************************************************************************)
EXTENDS Naturals, FiniteSets

CONSTANTS
    Users,        \* user names (unique in the table, and never deleted)
    Admin,        \* the name the first boot seeds
    Clients,      \* requests in flight
    Tokens, Keys, \* session tokens and API keys that may be drawn
    None,         \* no credential, no user, no context
    Ttl,          \* lifetime of a session, in units of the clock
    MaxTime,      \* bound: the clock
    MaxRequests,  \* bound: requests
    MaxCrashes    \* bound: restarts

ASSUME AccessAssumption ==
    /\ Admin \in Users /\ Tokens \cap Keys = {} /\ None \notin Users \cup Tokens \cup Keys
    /\ None \notin [user : Users, exp : Nat]
    /\ Ttl \in Nat \ {0} /\ MaxTime \in Nat /\ MaxRequests \in Nat /\ MaxCrashes \in Nat

VARIABLES
    up,         \* where the server is: counting users, seeding, serving
    clock,      \* Utc::now()
    account,    \* users.role, "none" without a row
    disabled,   \* users with disabled = 1
    creds,      \* rows of sessions and api_keys: [user, exp], None without one
    drawn,      \* tokens and keys that were ever inserted
    known,      \* those that a response handed to a client
    req,        \* the requests: [at, bearer, cookie, user, ctx, row]
    audit,      \* rows of audit_log: [act, on, by]
    vouched,    \* history: users whose credential the request presented while it was good
    cut,        \* history: rows the audit log misses as a request was cut off
    requests, crashes   \* counters for the bounds

store   == <<account, disabled, creds, drawn>>
history == <<vouched, cut>>
bounds  == <<requests, crashes>>
vars    == <<up, clock, store, known, req, audit, history, bounds>>

-----------------------------------------------------------------------------
Roles  == {"admin", "operator", "viewer"}
Never  == MaxTime + Ttl + 1                  \* expires_at IS NULL
Places == {"idle", "bearer", "bearerUser", "cookie", "cookieUser", "handler", "insert", "delete", "audit"}

CanWrite(role) == role \in {"admin", "operator"}
CanAdmin(role) == role = "admin"

NoRow == [act |-> "none", on |-> None, by |-> None]
Idle  == [at |-> "idle", bearer |-> None, cookie |-> None,
          user |-> None, ctx |-> None, row |-> NoRow]

(* get_valid and all_active: a row that does not expire at or before now. *)
Alive(x) == x # None /\ creds[x] # None /\ creds[x].exp > clock

(* AuthUser, RequireWrite and RequireAdmin. *)
Authenticated(c) == req[c].ctx # None
WriteAllowed(c)  == Authenticated(c) /\ CanWrite(account[req[c].ctx])
AdminByWrite(c)  == WriteAllowed(c)          \* fault: the wrong extractor
AdminAllowed(c)  == Authenticated(c) /\ CanAdmin(account[req[c].ctx])

At(c, place)      == req[c].at = place
Goto(c, place)    == req' = [req EXCEPT ![c].at = place]
Answer(c)         == req' = [req EXCEPT ![c] = Idle]
ToAudit(c, row)   == req' = [req EXCEPT ![c].at = "audit", ![c].row = row]
Row(act, on, by)  == [act |-> act, on |-> on, by |-> by]

AccessInit ==
    /\ up = "boot" /\ clock = 0
    /\ account = [u \in Users |-> "none"] /\ disabled = {}
    /\ creds = [x \in Tokens \cup Keys |-> None] /\ drawn = {} /\ known = {}
    /\ req = [c \in Clients |-> Idle] /\ audit = {}
    /\ vouched = [c \in Clients |-> {}] /\ cut = {}
    /\ requests = 0 /\ crashes = 0

-----------------------------------------------------------------------------
(* seed_admin_if_empty, before the server listens. *)

SeedCount ==
    /\ up = "boot"
    /\ up' = IF \E u \in Users : account[u] # "none" THEN "serving" ELSE "seeding"
    /\ UNCHANGED <<clock, store, known, req, audit, cut, bounds>>

SeedInsert ==
    /\ up = "seeding"
    /\ account' = [account EXCEPT ![Admin] = "admin"]
    /\ up' = "serving"
    /\ UNCHANGED <<clock, disabled, creds, drawn, known, req, audit, cut, bounds>>

-----------------------------------------------------------------------------
(* The middleware. A bearer that matches no key is as good as none. Which     *)
(* route the request asks for matters only at its handler and is chosen there. *)

Arrive(c) == \E b \in (known \cap Keys) \cup {None}, k \in (known \cap Tokens) \cup {None} :
    /\ up = "serving" /\ At(c, "idle") /\ requests < MaxRequests
    /\ req' = [req EXCEPT ![c] = [Idle EXCEPT !.at = "bearer", !.bearer = b, !.cookie = k]]
    /\ requests' = requests + 1
    /\ UNCHANGED <<up, clock, store, known, audit, cut, crashes>>

Resolve(c, x, found, missing) ==
    req' = IF Alive(x) THEN [req EXCEPT ![c].at = found, ![c].user = creds[x].user]
                       ELSE [req EXCEPT ![c].at = missing]

ReadUserUnchecked(c, missing) ==     \* fault: `disabled` is not looked at
    req' = [req EXCEPT ![c].at = "handler", ![c].ctx = req[c].user]

ReadUser(c, missing) ==
    req' = IF req[c].user \in disabled
           THEN [req EXCEPT ![c].at = missing, ![c].user = None]
           ELSE [req EXCEPT ![c].at = "handler", ![c].ctx = req[c].user]

ResolveApiKey(c) == At(c, "bearer") /\ Resolve(c, req[c].bearer, "bearerUser", "cookie")
                    /\ UNCHANGED <<up, clock, store, known, audit, cut, bounds>>
ApiKeyUser(c)    == At(c, "bearerUser") /\ ReadUser(c, "cookie")
                    /\ UNCHANGED <<up, clock, store, known, audit, cut, bounds>>
ResolveSession(c) == At(c, "cookie") /\ Resolve(c, req[c].cookie, "cookieUser", "handler")
                     /\ UNCHANGED <<up, clock, store, known, audit, cut, bounds>>
SessionUser(c)    == At(c, "cookieUser") /\ ReadUser(c, "handler")
                     /\ UNCHANGED <<up, clock, store, known, audit, cut, bounds>>

-----------------------------------------------------------------------------
(* The handlers. *)

(* The password is right, the user is there and enabled. *)
LoginCheck(c) == \E u \in Users :
    /\ At(c, "handler")
    /\ account[u] # "none" /\ u \notin disabled
    /\ req' = [req EXCEPT ![c].at = "insert", ![c].user = u]
    /\ UNCHANGED <<up, clock, store, known, audit, cut, bounds>>

Insert(c, x, user, exp, act) ==
    /\ x \notin drawn
    /\ creds' = [creds EXCEPT ![x] = [user |-> user, exp |-> exp]]
    /\ drawn' = drawn \cup {x}
    /\ ToAudit(c, Row(act, x, user))

LoginForever(c) == \E t \in Tokens :  \* fault: a session without an end
    /\ At(c, "insert")
    /\ Insert(c, t, req[c].user, Never, "auth.login")
    /\ UNCHANGED <<up, clock, account, disabled, known, audit, cut, bounds>>

LoginInsert(c) == \E t \in Tokens :
    /\ At(c, "insert")
    /\ Insert(c, t, req[c].user, clock + Ttl, "auth.login")
    /\ UNCHANGED <<up, clock, account, disabled, known, audit, cut, bounds>>

(* Needs no context: whoever presents the cookie ends the session. *)
Logout(c) ==
    /\ At(c, "handler")
    /\ creds' = IF req[c].cookie = None THEN creds ELSE [creds EXCEPT ![req[c].cookie] = None]
    /\ Answer(c)
    /\ UNCHANGED <<up, clock, account, disabled, drawn, known, audit, cut, bounds>>

CreateApiKey(c) == \E k \in Keys, exp \in {clock, clock + 1, Never} :
    /\ At(c, "handler") /\ Authenticated(c)
    /\ Insert(c, k, req[c].ctx, exp, "apikey.create")
    /\ UNCHANGED <<up, clock, account, disabled, known, audit, cut, bounds>>

(* Only a key that list_for_user returns may be deleted. *)
DeleteApiKeyCheck(c) == \E k \in Keys :
    /\ At(c, "handler") /\ Authenticated(c)
    /\ creds[k] # None /\ creds[k].user = req[c].ctx
    /\ req' = [req EXCEPT ![c].at = "delete", ![c].row = Row("apikey.delete", k, req[c].ctx)]
    /\ UNCHANGED <<up, clock, store, known, audit, cut, bounds>>

DeleteApiKey(c) ==
    /\ At(c, "delete")
    /\ creds' = [creds EXCEPT ![req[c].row.on] = None]
    /\ Goto(c, "audit")
    /\ UNCHANGED <<up, clock, account, disabled, drawn, known, audit, cut, bounds>>

(* A taken name is refused by the UNIQUE column: Refuse. *)
CreateUser(c) == \E u \in Users, role \in Roles :
    /\ At(c, "handler") /\ AdminAllowed(c)
    /\ account[u] = "none"
    /\ account' = [account EXCEPT ![u] = role]
    /\ ToAudit(c, Row("user.create", u, req[c].ctx))
    /\ UNCHANGED <<up, clock, disabled, creds, drawn, known, audit, cut, bounds>>

(* The routes that ask for RequireWrite; their effects are in other modules. *)
Write(c) ==
    /\ At(c, "handler") /\ WriteAllowed(c)
    /\ ToAudit(c, Row("write", None, req[c].ctx))
    /\ UNCHANGED <<up, clock, store, known, audit, cut, bounds>>

(* 400, 401, 403, a taken name, or a handler that only reads. *)
Refuse(c) ==
    /\ At(c, "handler")
    /\ Answer(c)
    /\ UNCHANGED <<up, clock, store, known, audit, cut, bounds>>

Record(c) ==
    /\ At(c, "audit")
    /\ audit' = audit \cup {req[c].row}
    /\ known' = known \cup ({req[c].row.on} \cap drawn)
    /\ Answer(c)
    /\ UNCHANGED <<up, clock, store, cut, bounds>>

-----------------------------------------------------------------------------
(* Everything else. *)

Pending(C) == {req[c].row : c \in {d \in C : At(d, "audit")}}

(* A statement fails, or the client hangs up and its future is dropped. *)
Abandon(c) ==
    /\ ~ At(c, "idle")
    /\ cut' = cut \cup Pending({c})
    /\ Answer(c)
    /\ UNCHANGED <<up, clock, store, known, audit, bounds>>

Restart ==
    /\ crashes < MaxCrashes
    /\ up' = "boot"
    /\ req' = [c \in Clients |-> Idle]
    /\ cut' = cut \cup Pending(Clients)
    /\ crashes' = crashes + 1
    /\ UNCHANGED <<clock, store, known, audit, requests>>

(* UserRepo::set_disabled; nothing enables a user again. *)
SetDisabled(u) ==
    /\ account[u] # "none" /\ u # Admin
    /\ disabled' = disabled \cup {u}
    /\ UNCHANGED <<up, clock, account, creds, drawn, known, req, audit, cut, bounds>>

Pass ==
    /\ clock < MaxTime
    /\ clock' = clock + 1
    /\ UNCHANGED <<up, store, known, req, audit, cut, bounds>>

(* Users for whom the request presents a credential that is good now. *)
Good(c) == {u \in Users \ disabled : \E x \in {req[c].bearer, req[c].cookie} \ {None} :
                creds[x] # None /\ creds[x].user = u /\ clock < creds[x].exp}

Step ==
    \/ SeedCount \/ SeedInsert \/ Restart \/ Pass
    \/ \E u \in Users : SetDisabled(u)
    \/ \E c \in Clients :
        \/ Arrive(c) \/ ResolveApiKey(c) \/ ApiKeyUser(c) \/ ResolveSession(c) \/ SessionUser(c)
        \/ LoginCheck(c) \/ LoginInsert(c) \/ Logout(c) \/ CreateApiKey(c) \/ DeleteApiKeyCheck(c)
        \/ DeleteApiKey(c) \/ CreateUser(c) \/ Write(c) \/ Refuse(c) \/ Record(c) \/ Abandon(c)

Next == Step /\ vouched' = [c \in Clients |-> IF req'[c] = Idle THEN {} ELSE vouched[c] \cup Good(c)']

Spec == AccessInit /\ [][Next]_vars

-----------------------------------------------------------------------------
(* The types of the variables; a session lasts for the Ttl at most, and the    *)
(* user of a credential has a row.                                            *)
AccessTypeOK ==
    /\ up \in {"boot", "seeding", "serving"}
    /\ clock \in 0..MaxTime
    /\ account \in [Users -> Roles \cup {"none"}] /\ disabled \subseteq Users \ {Admin}
    /\ \A x \in Tokens \cup Keys : creds[x] = None \/
        /\ x \in drawn /\ account[creds[x].user] # "none"
        /\ creds[x].exp \in 0..(IF x \in Tokens THEN clock + Ttl ELSE Never)
    /\ known \subseteq drawn
    /\ \A c \in Clients : req[c].at \in Places
        /\ req[c].ctx \in Users \cup {None} /\ req[c].user \in Users \cup {None}

(* A request acts for a user only if a credential of that user which it       *)
(* presents was good - there, not expired, its user enabled - at some instant *)
(* since it arrived. So a session that was ended by a logout, or a key that   *)
(* was deleted, lets in no request that comes later (resolve, middleware).    *)
RequestVouched == \A c \in Clients : Authenticated(c) => req[c].ctx \in vouched[c]

(* The effects whose audit row is due. *)
Effects ==
    {<<"auth.login", t>> : t \in Tokens \cap drawn} \cup {<<"apikey.create", k>> : k \in Keys \cap drawn}
    \cup {<<"apikey.delete", k>> : k \in {x \in Keys \cap drawn : creds[x] = None}}
    \cup {<<"user.create", u>> : u \in {v \in Users \ {Admin} : account[v] # "none"}}

About(row) == <<row.act, row.on>>

RowsTell     == \A row \in audit : row.act = "write" \/ About(row) \in Effects
EffectsTold  == \A e \in Effects : \E row \in audit \cup cut \cup Pending(Clients) : About(row) = e
ActorsMay(row) ==
    CASE row.act = "write"       -> CanWrite(account[row.by])
      [] row.act = "user.create" -> CanAdmin(account[row.by])
      [] OTHER                   -> account[row.by] # "none"

(* The audit log tells of nothing that did not happen; an effect that it does *)
(* not tell of belongs to a request that is just writing the row or was cut   *)
(* off before it could; and the actor of a row held the role for it (`?` on   *)
(* audit().record, after the effect).                                         *)
AuditTrail == RowsTell /\ EffectsTold /\ \A row \in audit : ActorsMay(row)
=============================================================================
