----------------------------- MODULE ControlLease -----------------------------
(***************************************************************************)
(* The control lease of one vehicle, as the backend's HTTP handlers keep   *)
(* it in PostgreSQL: claim, release and takeover of the lease, grant and   *)
(* revocation of vehicle permissions, and the LiveKit token that lets its  *)
(* bearer publish control messages.                                        *)
(*                                                                         *)
(* Every handler is a process that awaits the database several times, so   *)
(* each database access is one action and other handlers run in between.   *)
(* A claim is a SERIALIZABLE transaction: it reads the snapshot taken by   *)
(* its first statement (the one that asks for the advisory lock) and       *)
(* commits only if PostgreSQL finds no conflict.  Release, takeover, the   *)
(* permissions and the token use plain autocommitted statements.           *)
(***************************************************************************)
EXTENDS Integers, FiniteSets

CONSTANTS
    Users,          \* rows of the users table
    Nobody,         \* an id that names no row; no holder
    JwtRole,        \* [Users -> Roles]: the role in the user's access token
    Sessions,       \* rows of the sessions table for this vehicle
    SessionUser,    \* [Sessions -> Users]: owner of the session
    ActiveSessions, \* the sessions whose status is ACTIVE
    GrantedRole,    \* [Users -> Roles \cup {"none"}]: permissions at the start
    Requests,       \* HTTP requests; a lease row is named by its creator
    NoRequest,      \* no request: no lease found, nobody has the lock
    Calls,          \* what clients may ask for, a subset of Call
    LeaseTTL,       \* LEASE_TTL_MS
    TokenTTL,       \* TOKEN_TTL_SECONDS
    MaxTime         \* bound of the clock

Roles == {"VIEWER", "OPERATOR", "ADMIN"}

Ops == {"claim", "release", "takeover", "grant", "revoke", "token"}

(***************************************************************************)
(* A request: who sends it, and the ids its path and body name.  "role" is *)
(* the role granted, or the role of the LiveKit token asked for.           *)
(***************************************************************************)
Call == [op: Ops, user: Users, target: Users \cup {Nobody},
         session: Sessions \cup {Nobody}, role: Roles]

ASSUME ConstantsAssumption ==
    /\ Nobody \notin Users \cup Sessions
    /\ NoRequest \notin Requests
    /\ JwtRole \in [Users -> Roles]
    /\ SessionUser \in [Sessions -> Users]
    /\ ActiveSessions \subseteq Sessions
    /\ GrantedRole \in [Users -> Roles \cup {"none"}]
    /\ Calls \subseteq Call
    /\ LeaseTTL \in Nat \ {0}
    /\ TokenTTL \in Nat \ {0}
    /\ MaxTime \in Nat

Rank == [none |-> -1, VIEWER |-> 0, OPERATOR |-> 1, ADMIN |-> 2]

HasRole(have, need) == Rank[have] >= Rank[need]

-----------------------------------------------------------------------------
VARIABLES
    clock,   \* wall clock of the backend and the database
    lease,   \* [Requests -> row]: the control_leases table
    perm,    \* [Users -> row]: the vehicle_permissions table
    lock,    \* holder of the vehicle's advisory lock
    token,   \* [Users -> expiry of the newest token that may publish, or 0]
    pc,      \* where each handler is
    call,    \* the request it serves
    now,     \* its local "now"
    snap,    \* the rows it has read: the snapshot of a claim, or of the token's query
    found,   \* the row it found: a lease, or a permission
    answer   \* what it answered

table  == <<lease, perm, lock, token>>
locals == <<now, snap, found>>
vars   == <<clock, lease, perm, lock, token, pc, call, now, snap, found, answer>>

LeaseStatus == {"none", "ACTIVE", "RELEASED", "REVOKED"}

LeaseRow == [status: LeaseStatus, operator: Users \cup {Nobody},
             session: Sessions \cup {Nobody}, createdAt: Nat, expiresAt: Nat]

NoLease == [status |-> "none", operator |-> Nobody, session |-> Nobody,
            createdAt |-> 0, expiresAt |-> 0]

\* A permission row is named by the request that inserted it; NoRequest names
\* the rows the seed inserted.
PermRow == [role: Roles \cup {"none"}, row: Requests \cup {NoRequest}]

NoCall == [op |-> "none", user |-> Nobody, target |-> Nobody,
           session |-> Nobody, role |-> "VIEWER"]

Labels == Ops \cup
    {"idle", "done", "claim_session", "claim_begin", "claim_wait",
     "claim_locked", "release_write", "takeover_revoke", "takeover_verify",
     "takeover_create", "revoke_delete", "token_lease", "token_issue"}

Answers == {"none", "ok", "forbidden", "not_found", "taken",
            "serialization_failure", "error"}

Idle == {"idle", "done"}

Init ==
    /\ clock = 0
    /\ lease = [r \in Requests |-> NoLease]
    /\ perm = [u \in Users |-> [role |-> GrantedRole[u], row |-> NoRequest]]
    /\ lock = NoRequest
    /\ token = [u \in Users |-> 0]
    /\ pc = [r \in Requests |-> "idle"]
    /\ call = [r \in Requests |-> NoCall]
    /\ now = [r \in Requests |-> 0]
    /\ snap = [r \in Requests |-> [q \in Requests |-> NoLease]]
    /\ found = [r \in Requests |-> NoRequest]
    /\ answer = [r \in Requests |-> "none"]

-----------------------------------------------------------------------------
(* Queries.                                                                *)

Active_Unexpired(rows) ==
    {q \in Requests : rows[q].status = "ACTIVE" /\ rows[q].expiresAt > clock}

Active(rows) == {q \in Requests : rows[q].status = "ACTIVE"}

Newest(rows, S) ==
    {q \in S : \A p \in S : rows[p].createdAt <= rows[q].createdAt}

\* findFirst({status: ACTIVE}, orderBy createdAt desc); rows created at the
\* same millisecond may come in any order.
FindNewest(rows, S) ==
    IF S = {} THEN {NoRequest} ELSE Newest(rows, S)

Unexpired(rows, t) == {q \in Active(rows) : rows[q].expiresAt > t}

NewLease(user, session, t) ==
    [status |-> "ACTIVE", operator |-> user, session |-> session,
     createdAt |-> clock, expiresAt |-> t + LeaseTTL]

Goto(r, label) ==
    /\ pc' = [pc EXCEPT ![r] = label]
    /\ UNCHANGED answer

Return(r, a) ==
    /\ pc' = [pc EXCEPT ![r] = "done"]
    /\ answer' = [answer EXCEPT ![r] = a]

Unlock(r) == lock' = IF lock = r THEN NoRequest ELSE lock

-----------------------------------------------------------------------------
(***************************************************************************)
(* A request arrives; the handler rejects it on the role in its token.     *)
(* Release and token have no check of their own at this point.             *)
(***************************************************************************)
RoleSuffices(c) ==
    /\ c.op = "claim" => HasRole(JwtRole[c.user], "OPERATOR")
    /\ c.op \in {"takeover", "grant", "revoke"} => JwtRole[c.user] = "ADMIN"

Receive(r, c) ==
    /\ pc[r] = "idle"
    /\ call' = [call EXCEPT ![r] = c]
    /\ \/ RoleSuffices(c) /\ Goto(r, c.op)
       \/ ~RoleSuffices(c) /\ Return(r, "forbidden")
    /\ UNCHANGED <<clock, table, locals>>

-----------------------------------------------------------------------------
(* POST control-lease/claim                                                *)

Permitted(r) == HasRole(perm[call[r].user].role, "OPERATOR")

ClaimPermission(r) ==
    /\ pc[r] = "claim"
    /\ \/ Permitted(r) /\ Goto(r, "claim_session")
       \/ ~Permitted(r) /\ Return(r, "forbidden")
    /\ UNCHANGED <<clock, table, call, locals>>

\* Any session id that exists will do: neither its owner nor its status is
\* looked at.  "now" is read here, before the transaction.
ClaimSession(r) ==
    /\ pc[r] = "claim_session"
    /\ \/ /\ call[r].session \in Sessions
          /\ now' = [now EXCEPT ![r] = clock]
          /\ Goto(r, "claim_begin")
       \/ /\ call[r].session \notin Sessions
          /\ Return(r, "not_found")
          /\ UNCHANGED now
    /\ UNCHANGED <<clock, table, call, snap, found>>

\* The first statement, SELECT pg_advisory_xact_lock(...), fixes the snapshot
\* of the transaction and then waits.
ClaimBegin(r) ==
    /\ pc[r] = "claim_begin"
    /\ snap' = [snap EXCEPT ![r] = lease]
    /\ Goto(r, "claim_wait")
    /\ UNCHANGED <<clock, table, call, now, found>>

ClaimLock(r) ==
    /\ pc[r] = "claim_wait"
    /\ lock = NoRequest
    /\ lock' = r
    /\ Goto(r, "claim_locked")
    /\ UNCHANGED <<clock, lease, perm, token, call, locals>>

HeldByOther_ExpiryFlipped(r, q) ==
    /\ q # NoRequest
    /\ snap[r][q].expiresAt < now[r]
    /\ snap[r][q].operator # call[r].user

\* The lease found is valid and another operator's.
HeldByOther(r, q) ==
    /\ q # NoRequest
    /\ snap[r][q].expiresAt > now[r]
    /\ snap[r][q].operator # call[r].user

ClaimDeny_LockKept(r) ==
    /\ pc[r] = "claim_locked"
    /\ \E q \in FindNewest(snap[r], Active(snap[r])) : HeldByOther(r, q)
    /\ Return(r, "taken")
    /\ UNCHANGED <<clock, lease, perm, lock, token, call, locals>>

ClaimDeny(r) ==
    /\ pc[r] = "claim_locked"
    /\ \E q \in FindNewest(snap[r], Active(snap[r])) : HeldByOther(r, q)
    /\ Return(r, "taken")
    /\ Unlock(r)
    /\ UNCHANGED <<clock, lease, perm, token, call, locals>>

\* What "RepeatableRead" would check.
Conflict_RowsOnly(r, q) == q # NoRequest /\ lease[q] # snap[r][q]

(***************************************************************************)
(* PostgreSQL's verdict on the writes of claim r, which releases row q: it *)
(* fails when someone changed q after the snapshot (first updater wins),   *)
(* and when another claim, which read the same predicate, inserted a row   *)
(* after the snapshot (both read what the other wrote).  Rows inserted by  *)
(* a takeover do not count: it does not run as a serializable transaction. *)
(***************************************************************************)
Conflict(r, q) ==
    \/ q # NoRequest /\ lease[q] # snap[r][q]
    \/ \E p \in Requests : /\ call[p].op = "claim"
                           /\ lease[p].status # "none"
                           /\ snap[r][p].status = "none"

\* The operator's own lease and an expired one are released, and the new
\* lease is created, in one transaction.
ClaimCommit(r) ==
    /\ pc[r] = "claim_locked"
    /\ \E q \in FindNewest(snap[r], Active(snap[r])) :
         /\ ~HeldByOther(r, q)
         /\ ~Conflict(r, q)
         /\ lease' = [p \in Requests |->
              IF p = r THEN NewLease(call[r].user, call[r].session, now[r])
              ELSE IF p = q THEN [lease[p] EXCEPT !.status = "RELEASED"]
              ELSE lease[p]]
    /\ Return(r, "ok")
    /\ Unlock(r)
    /\ UNCHANGED <<clock, perm, token, call, locals>>

ClaimRollback(r) ==
    /\ pc[r] = "claim_locked"
    /\ \E q \in FindNewest(snap[r], Active(snap[r])) :
         ~HeldByOther(r, q) /\ Conflict(r, q)
    /\ Return(r, "serialization_failure")
    /\ Unlock(r)
    /\ UNCHANGED <<clock, lease, perm, token, call, locals>>

-----------------------------------------------------------------------------
(* POST control-lease/release                                              *)

OwnLease_Any(r, q) == TRUE

OwnLease(r, q) == lease[q].operator = call[r].user

ReleaseFind(r) ==
    /\ pc[r] = "release"
    /\ now' = [now EXCEPT ![r] = clock]
    /\ \E q \in FindNewest(lease, Unexpired(lease, clock)) :
         \/ /\ q = NoRequest
            /\ Return(r, "not_found")
            /\ UNCHANGED found
         \/ /\ q # NoRequest
            /\ ~OwnLease(r, q)
            /\ Return(r, "forbidden")
            /\ UNCHANGED found
         \/ /\ q # NoRequest
            /\ OwnLease(r, q)
            /\ found' = [found EXCEPT ![r] = q]
            /\ Goto(r, "release_write")
    /\ UNCHANGED <<clock, table, call, snap>>

\* An update by id: whatever the status has become meanwhile is overwritten.
ReleaseWrite(r) ==
    /\ pc[r] = "release_write"
    /\ lease' = [lease EXCEPT ![found[r]].status = "RELEASED"]
    /\ Return(r, "ok")
    /\ UNCHANGED <<clock, perm, lock, token, call, locals>>

-----------------------------------------------------------------------------
(* POST control-lease/takeover: no transaction, no advisory lock.          *)

\* The newest ACTIVE lease is revoked even if it has expired.
TakeoverFind(r) ==
    /\ pc[r] = "takeover"
    /\ now' = [now EXCEPT ![r] = clock]
    /\ \E q \in FindNewest(lease, Active(lease)) :
         /\ found' = [found EXCEPT ![r] = q]
         /\ Goto(r, IF q = NoRequest THEN "takeover_verify" ELSE "takeover_revoke")
    /\ UNCHANGED <<clock, table, call, snap>>

TakeoverRevoke(r) ==
    /\ pc[r] = "takeover_revoke"
    /\ lease' = [lease EXCEPT ![found[r]].status = "REVOKED"]
    /\ Goto(r, "takeover_verify")
    /\ UNCHANGED <<clock, perm, lock, token, call, locals>>

SessionsOf(user) == {s \in ActiveSessions : SessionUser[s] = user}

\* The new operator must exist and have an ACTIVE session; the vehicle
\* permission is not looked at.  By now the old lease is revoked.
TakeoverVerify(r) ==
    /\ pc[r] = "takeover_verify"
    /\ \/ SessionsOf(call[r].target) # {} /\ Goto(r, "takeover_create")
       \/ SessionsOf(call[r].target) = {} /\ Return(r, "not_found")
    /\ UNCHANGED <<clock, table, call, locals>>

TakeoverCreate(r) ==
    /\ pc[r] = "takeover_create"
    /\ \E s \in SessionsOf(call[r].target) :
         lease' = [lease EXCEPT ![r] = NewLease(call[r].target, s, now[r])]
    /\ Return(r, "ok")
    /\ UNCHANGED <<clock, perm, lock, token, call, locals>>

-----------------------------------------------------------------------------
(* POST and DELETE permissions                                             *)

\* An upsert: an update keeps the row, an insert makes a new one.
Grant(r) ==
    /\ pc[r] = "grant"
    /\ \/ /\ call[r].target \in Users
          /\ perm' = [perm EXCEPT ![call[r].target] =
                        [role |-> call[r].role,
                         row |-> IF @.role = "none" THEN r ELSE @.row]]
          /\ Return(r, "ok")
       \/ /\ call[r].target \notin Users
          /\ Return(r, "not_found")
          /\ UNCHANGED perm
    /\ UNCHANGED <<clock, lease, lock, token, call, locals>>

HasPermission(user) == user \in Users /\ perm[user].role # "none"

RevokeFind_ByUserId(r) ==
    /\ pc[r] = "revoke"
    /\ \/ /\ HasPermission(call[r].target)
          /\ found' = [found EXCEPT ![r] = call[r].target]
          /\ Goto(r, "revoke_delete")
       \/ /\ ~HasPermission(call[r].target)
          /\ Return(r, "not_found")
          /\ UNCHANGED found
    /\ UNCHANGED <<clock, table, call, now, snap>>

RevokeFind(r) ==
    /\ pc[r] = "revoke"
    /\ \/ /\ HasPermission(call[r].target)
          /\ found' = [found EXCEPT ![r] = perm[call[r].target].row]
          /\ Goto(r, "revoke_delete")
       \/ /\ ~HasPermission(call[r].target)
          /\ Return(r, "not_found")
          /\ UNCHANGED found
    /\ UNCHANGED <<clock, table, call, now, snap>>

\* A delete by row id fails when that row is gone.
RevokeDelete(r) ==
    LET u == call[r].target
        there == HasPermission(u) /\ perm[u].row = found[r]
    IN  /\ pc[r] = "revoke_delete"
        /\ \/ /\ there
              /\ perm' = [perm EXCEPT ![u] = [role |-> "none", row |-> NoRequest]]
              /\ Return(r, "ok")
           \/ /\ ~there
              /\ Return(r, "error")
              /\ UNCHANGED perm
        /\ UNCHANGED <<clock, lease, lock, token, call, locals>>

-----------------------------------------------------------------------------
(* POST livekit/token                                                      *)

\* An admin token needs the ADMIN role and nothing else; an operator token
\* needs the permission and passes on to the lease; a viewer token needs
\* any permission.
TokenPermission(r) ==
    /\ pc[r] = "token"
    /\ \/ /\ call[r].role = "ADMIN"
          /\ \/ JwtRole[call[r].user] = "ADMIN" /\ Goto(r, "token_issue")
             \/ JwtRole[call[r].user] # "ADMIN" /\ Return(r, "forbidden")
       \/ /\ call[r].role = "OPERATOR"
          /\ \/ Permitted(r) /\ Goto(r, "token_lease")
             \/ ~Permitted(r) /\ Return(r, "forbidden")
       \/ /\ call[r].role = "VIEWER"
          /\ \/ HasPermission(call[r].user) /\ Goto(r, "token_issue")
             \/ ~HasPermission(call[r].user) /\ Return(r, "forbidden")
    /\ UNCHANGED <<clock, table, call, locals>>

\* findFirst without an order: any ACTIVE, unexpired lease.
FindAny(S) == IF S = {} THEN {NoRequest} ELSE S

\* Only a lease of someone else stands in the way; no lease does not.
OthersLease(r, q) == q # NoRequest /\ lease[q].operator # call[r].user

TokenLease(r) ==
    /\ pc[r] = "token_lease"
    /\ now' = [now EXCEPT ![r] = clock]
    /\ snap' = [snap EXCEPT ![r] = lease]
    /\ \E q \in FindAny(Unexpired(lease, clock)) :
         \/ OthersLease(r, q) /\ Return(r, "taken")
         \/ ~OthersLease(r, q) /\ Goto(r, "token_issue")
    /\ UNCHANGED <<clock, table, call, found>>

CanPublish(role) == role \in {"OPERATOR", "ADMIN"}

TokenIssue(r) ==
    /\ pc[r] = "token_issue"
    /\ token' = IF CanPublish(call[r].role)
                THEN [token EXCEPT ![call[r].user] = clock + TokenTTL]
                ELSE token
    /\ Return(r, "ok")
    /\ UNCHANGED <<clock, lease, perm, lock, call, locals>>

-----------------------------------------------------------------------------
(* The handler throws, its transaction times out, or the process dies: an  *)
(* open transaction rolls back, autocommitted statements stay.             *)
Fail(r) ==
    /\ pc[r] \notin Idle
    /\ Return(r, "error")
    /\ Unlock(r)
    /\ UNCHANGED <<clock, lease, perm, token, call, locals>>

Tick ==
    /\ clock < MaxTime
    /\ clock' = clock + 1
    /\ UNCHANGED <<table, pc, call, locals, answer>>

ClaimStep(r) ==
    \/ ClaimPermission(r) \/ ClaimSession(r) \/ ClaimBegin(r) \/ ClaimLock(r)
    \/ ClaimDeny(r) \/ ClaimCommit(r) \/ ClaimRollback(r)

OtherStep(r) ==
    \/ ReleaseFind(r) \/ ReleaseWrite(r)
    \/ TakeoverFind(r) \/ TakeoverRevoke(r) \/ TakeoverVerify(r) \/ TakeoverCreate(r)
    \/ Grant(r) \/ RevokeFind(r) \/ RevokeDelete(r)
    \/ TokenPermission(r) \/ TokenLease(r) \/ TokenIssue(r)

\* Every request is answered and the clock has reached its bound.
Finished ==
    /\ clock = MaxTime
    /\ \A r \in Requests : pc[r] = "done"
    /\ UNCHANGED vars

Next ==
    \/ \E r \in Requests, c \in Calls : Receive(r, c)
    \/ \E r \in Requests : ClaimStep(r)
    \/ \E r \in Requests : OtherStep(r)
    \/ \E r \in Requests : Fail(r)
    \/ Tick
    \/ Finished

Spec == Init /\ [][Next]_vars

\* Node's event loop and PostgreSQL run every pending statement; a waiter of
\* the advisory lock is woken when the lock is free.
FairSpec == Spec /\ \A r \in Requests : WF_vars(ClaimStep(r) \/ OtherStep(r))

-----------------------------------------------------------------------------
(* Properties.                                                             *)

\* Every variable has its type.
TypeOK ==
    /\ clock \in Nat
    /\ lease \in [Requests -> LeaseRow]
    /\ perm \in [Users -> PermRow]
    /\ lock \in Requests \cup {NoRequest}
    /\ token \in [Users -> Nat]
    /\ pc \in [Requests -> Labels]
    /\ call \in [Requests -> Calls \cup {NoCall}]
    /\ now \in [Requests -> Nat]
    /\ snap \in [Requests -> [Requests -> LeaseRow]]
    /\ found \in [Requests -> Requests \cup {NoRequest}]
    /\ answer \in [Requests -> Answers]

(***************************************************************************)
(* Mutual exclusion: whatever claims, releases and token requests race,    *)
(* and wherever their handlers fail, no two leases of the vehicle are      *)
(* ACTIVE.  (claim/route.ts:59-60, "Serializable isolation prevents two    *)
(* concurrent claims creating two ACTIVE leases".)  Takeovers that overlap *)
(* a claim or each other break it.                                         *)
(***************************************************************************)
SingleActive ==
    \A p, q \in Requests :
        lease[p].status = "ACTIVE" /\ lease[q].status = "ACTIVE" => p = q

\* The step is a step of the handler of request r.
StepOf(r) == pc'[r] # pc[r]

\* Who may end lease q: its operator, or an admin who takes over.
MayEnd(r, q) ==
    \/ call[r].user = lease[q].operator
    \/ call[r].op = "takeover" /\ JwtRole[call[r].user] = "ADMIN"

EndsAreOwned ==
    \A q \in Unexpired(lease, clock) :
        lease'[q].status # "ACTIVE" => \E r \in Requests : StepOf(r) /\ MayEnd(r, q)

(***************************************************************************)
(* Takeovers included: a lease that is ACTIVE and has not expired stops    *)
(* being ACTIVE only by a handler that serves its own operator, or by an   *)
(* admin's takeover; a late release or claim never ends someone else's.    *)
(***************************************************************************)
NoStolenLease == [][EndsAreOwned]_vars

\* An operator's token that has passed the check and is about to be made.
Passed(r) == pc[r] = "token_issue" /\ call[r].role = "OPERATOR"

(***************************************************************************)
(* From the check of livekit/token/route.ts:74-100 until the token is made *)
(* an await later, the one who gets it has no rival with a valid lease but *)
(* one who has claimed it since.  The handler reads one lease without an   *)
(* order and never looks again, so this rests on there being only one, and *)
(* on no lease coming back to life.                                        *)
(***************************************************************************)
NoTokenBesideLease ==
    \A r \in Requests : Passed(r) =>
        \A q \in Unexpired(lease, clock) :
            lease[q].operator = call[r].user \/ snap[r][q].status = "none"

ClaimLabels ==
    {"claim", "claim_session", "claim_begin", "claim_wait", "claim_locked"}

TakeoverLabels ==
    {"takeover", "takeover_revoke", "takeover_verify", "takeover_create"}

\* A claim with its snapshot, and a takeover with the lease it found.
Claiming == {"claim_wait", "claim_locked"}

Taking == TakeoverLabels \ {"takeover"}

HandlerConsistent(r) ==
    /\ pc[r] # "done" => lease[r].status = "none"
    /\ lease[r].status # "none" => call[r].op \in {"claim", "takeover"}
    /\ pc[r] \in ClaimLabels => call[r].op = "claim"
    /\ pc[r] \in TakeoverLabels =>
         call[r].op = "takeover" /\ JwtRole[call[r].user] = "ADMIN"
    /\ pc[r] \in {"claim_begin"} \cup Claiming \cup Taking => now[r] <= clock
    /\ pc[r] \in {"release_write", "takeover_revoke"} =>
         found[r] \in Requests /\ lease[found[r]].status # "none"
    /\ pc[r] = "release_write" => lease[found[r]].operator = call[r].user

(***************************************************************************)
(* What a handler relies on between two awaits, whatever the others do: a  *)
(* row exists only once its creator is done, its "now" is in the past, and *)
(* the lease it is about to update is the one it checked.                  *)
(***************************************************************************)
HandlersConsistent == \A r \in Requests : HandlerConsistent(r)

Ended(row) == row.status \in {"RELEASED", "REVOKED"}

\* The snapshot of a running claim shows at most one ACTIVE lease, a lease it shows
\* as ended is over, and what is new since then comes from claims.
SnapshotSound(r) ==
    pc[r] \in Claiming =>
        /\ \A p, q \in Active(snap[r]) : p = q
        /\ \A q \in Requests : Ended(snap[r][q]) => Ended(lease[q])
        /\ \A q \in Requests : lease[q].status # "none" /\ snap[r][q].status = "none" =>
              call[q].op = "claim"

SnapshotsSound == \A r \in Requests : SnapshotSound(r)

\* No lease is ACTIVE but the one that a takeover found and is about to revoke.
TakenOver(r) ==
    pc[r] \in Taking =>
        \A q \in Active(lease) : pc[r] = "takeover_revoke" /\ found[r] = q

\* The inductive strengthening of SingleActive while takeovers are alone.
ExclusionInv ==
    /\ HandlersConsistent
    /\ SnapshotsSound
    /\ \A r \in Requests : TakenOver(r)
    /\ SingleActive

\* The inductive strengthening of NoTokenBesideLease: the rows that were read are there.
TokenInv ==
    /\ NoTokenBesideLease
    /\ \A r, q \in Requests :
          Passed(r) /\ snap[r][q].status # "none" => lease[q].status # "none"

\* A takeover, from the lease it found to its end, is beside no other takeover and no
\* claim that has its snapshot.  Nothing in the code sees to it.
TakeoverAlone ==
    \A r, s \in Requests : r # s /\ pc[r] \in Taking => pc[s] \notin Taking \cup Claiming

\* Every request that arrived is answered: no path through a claim, the
\* denial and the rollback included, leaves the advisory lock taken.
EveryRequestAnswered ==
    \A r \in Requests : pc[r] # "idle" ~> pc[r] = "done"

Holder ==
    IF Active(lease) = {} THEN Nobody
    ELSE lease[CHOOSE q \in Active(lease) : TRUE].operator

Until ==
    IF Active(lease) = {} THEN 0
    ELSE lease[CHOOSE q \in Active(lease) : TRUE].expiresAt

Lock == INSTANCE LeaseLock WITH holder <- Holder, until <- Until

\* Unless takeovers overlap, the table of leases implements the abstract lease: what is
\* taken over is given back first.
ImplementsLeaseLock == Lock!Spec
=============================================================================
