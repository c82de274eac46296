------------------------------ MODULE AuthTokens ------------------------------
(***************************************************************************)
(* The backend's authentication endpoints over the row of one user: login  *)
(* with its lock-out counter, the rotation of refresh tokens, logout, and  *)
(* the middleware in front of every other endpoint.                        *)
(*                                                                         *)
(* A call runs step by step, one step per access to the row; the steps of  *)
(* different calls interleave.  A refresh token is the version and expiry  *)
(* it was signed with, an access token its expiry; 0 is "none".            *)
(***************************************************************************)
EXTENDS Naturals

CONSTANTS
    Calls,       \* slots for calls in progress
    MaxFailed,   \* MAX_FAILED_ATTEMPTS
    LockTime,    \* LOCK_DURATION_MS
    AccessTTL,   \* ACCESS_TTL_SECONDS
    RefreshTTL,  \* REFRESH_TTL_SECONDS
    MaxClock,    \* bound on the clock
    MaxVersion   \* bound on refreshTokenVersion

ASSUME AuthAssumption ==
    /\ MaxFailed \in Nat \ {0, 1}
    /\ LockTime \in Nat \ {0}
    /\ AccessTTL \in Nat \ {0}
    /\ RefreshTTL \in Nat \ {0}

VARIABLES
    clock,
    version,   \* User.refreshTokenVersion
    failed,    \* User.failedLoginCount
    locked,    \* User.lockedUntil, 0 for null
    issued,    \* the refresh tokens signed so far
    call       \* [Calls -> a call, see CallRecord]

row      == <<version, failed, locked>>
authVars == <<clock, row, issued, call>>

Kinds == {"login", "refresh", "logout", "list", "poll"}

Token == [ver : Nat, exp : Nat]

NoToken == [ver |-> 0, exp |-> 0]

\* "token" and "access" are what the request carries and, once the call is
\* answered, what the response carries.  From "bumped" on, mine is the version
\* the call got; seenFailed and seenLocked are the row as a login read it.
CallRecord ==
    [phase : {"idle", "sent", "read", "bumped", "answered"}, kind : Kinds,
     good : BOOLEAN, token : Token, access : Nat,
     seenFailed : Nat, seenLocked : Nat, mine : Nat, status : Nat]

IdleCall ==
    [phase |-> "idle", kind |-> "poll", good |-> FALSE, token |-> NoToken,
     access |-> 0, seenFailed |-> 0, seenLocked |-> 0, mine |-> 0, status |-> 0]

Init ==
    /\ clock = 1
    /\ version = 0
    /\ failed = 0
    /\ locked = 0
    /\ issued = {}
    /\ call = [c \in Calls |-> IdleCall]

At(c, phase, kind) == call[c].phase = phase /\ call[c].kind = kind

\* Every response but a successful one is the same without its status.
Answer(c, status) ==
    call' = [call EXCEPT ![c] =
                [IdleCall EXCEPT !.phase = "answered", !.kind = call[c].kind, !.status = status]]

Bump(c) ==
    /\ version < MaxVersion
    /\ version' = version + 1
    /\ call' = [call EXCEPT ![c].phase = "bumped", ![c].mine = version + 1]

-----------------------------------------------------------------------------
(* POST /auth/login                                                        *)

LoginLocked(c) ==
    /\ At(c, "sent", "login")
    /\ locked > clock
    /\ Answer(c, 423)
    /\ UNCHANGED <<clock, row, issued>>

LoginFind(c) ==
    /\ At(c, "sent", "login")
    /\ locked <= clock
    /\ call' = [call EXCEPT ![c].phase = "read", ![c].seenFailed = failed,
                            ![c].seenLocked = locked]
    /\ UNCHANGED <<clock, row, issued>>

LoginFailure_CountsOn(c) ==
    LET newFailCount == call[c].seenFailed + 1
    IN  /\ At(c, "read", "login")
        /\ ~call[c].good
        /\ failed' = newFailCount
        /\ locked' = IF newFailCount >= MaxFailed THEN clock + LockTime ELSE locked
        /\ Answer(c, 401)
        /\ UNCHANGED <<clock, version, issued>>

LoginFailure_ClearsLock(c) ==
    LET wasLocked == call[c].seenLocked # 0 /\ call[c].seenLocked <= clock
        newFailCount == IF wasLocked THEN 1 ELSE call[c].seenFailed + 1
    IN  /\ At(c, "read", "login")
        /\ ~call[c].good
        /\ failed' = newFailCount
        /\ locked' = IF newFailCount >= MaxFailed THEN clock + LockTime ELSE 0
        /\ Answer(c, 401)
        /\ UNCHANGED <<clock, version, issued>>

\* recordLoginFailure works on the row that was read before bcrypt ran.
LoginFailure(c) ==
    LET wasLocked == call[c].seenLocked # 0 /\ call[c].seenLocked <= clock
        newFailCount == IF wasLocked THEN 1 ELSE call[c].seenFailed + 1
        shouldLock == newFailCount >= MaxFailed
        lockedUntil == IF shouldLock THEN clock + LockTime ELSE 0
    IN  /\ At(c, "read", "login")
        /\ ~call[c].good
        /\ failed' = newFailCount
        /\ locked' = IF wasLocked \/ shouldLock THEN lockedUntil ELSE locked
        /\ Answer(c, 401)
        /\ UNCHANGED <<clock, version, issued>>

LoginSuccess(c) ==
    /\ At(c, "read", "login")
    /\ call[c].good
    /\ failed' = 0
    /\ locked' = 0
    /\ Bump(c)
    /\ UNCHANGED <<clock, issued>>

-----------------------------------------------------------------------------
(* POST /auth/refresh                                                      *)

Current(token) == token.exp > clock /\ token.ver = version

RefreshRead_NoVersion(c) ==
    /\ At(c, "sent", "refresh")
    /\ IF call[c].token.exp > clock THEN call' = [call EXCEPT ![c].phase = "read"]
                                    ELSE Answer(c, 401)
    /\ UNCHANGED <<clock, row, issued>>

RefreshRead(c) ==
    /\ At(c, "sent", "refresh")
    /\ IF Current(call[c].token) THEN call' = [call EXCEPT ![c].phase = "read"]
                                 ELSE Answer(c, 401)
    /\ UNCHANGED <<clock, row, issued>>

RefreshBump_NotRotated(c) ==
    /\ At(c, "read", "refresh")
    /\ call' = [call EXCEPT ![c].phase = "bumped", ![c].mine = version]
    /\ UNCHANGED <<clock, row, issued>>

\* The update names the user only: it succeeds whatever the version now is.
RefreshBump(c) ==
    /\ At(c, "read", "refresh")
    /\ Bump(c)
    /\ UNCHANGED <<clock, failed, locked, issued>>

\* Login and refresh sign both tokens and answer.
Sign(c) ==
    LET token == [ver |-> call[c].mine, exp |-> clock + RefreshTTL]
    IN  /\ call[c].phase = "bumped"
        /\ issued' = issued \cup {token}
        /\ call' = [call EXCEPT ![c] =
                      [IdleCall EXCEPT !.phase = "answered", !.kind = call[c].kind,
                       !.status = 200, !.token = token, !.access = clock + AccessTTL]]
        /\ UNCHANGED <<clock, row>>

-----------------------------------------------------------------------------
(* Behind the middleware: POST /auth/logout and every other endpoint.      *)

Authenticated(c) == call[c].access > clock

Logout_Resets(c) ==
    /\ At(c, "sent", "logout")
    /\ Authenticated(c)
    /\ version' = 0
    /\ Answer(c, 200)
    /\ UNCHANGED <<clock, failed, locked, issued>>

Logout(c) ==
    /\ At(c, "sent", "logout")
    /\ Authenticated(c)
    /\ version < MaxVersion
    /\ version' = version + 1
    /\ Answer(c, 200)
    /\ UNCHANGED <<clock, failed, locked, issued>>

Serve(c) ==
    /\ call[c].phase = "sent"
    /\ call[c].kind \in {"list", "poll"}
    /\ Authenticated(c)
    /\ Answer(c, 200)
    /\ UNCHANGED <<clock, row, issued>>

Unauthenticated(c) ==
    /\ call[c].phase = "sent"
    /\ call[c].kind \in {"logout", "list", "poll"}
    /\ ~Authenticated(c)
    /\ Answer(c, 401)
    /\ UNCHANGED <<clock, row, issued>>

-----------------------------------------------------------------------------
\* A handler throws, at its database access or afterwards.
HandlerFails(c) ==
    /\ call[c].phase \in {"sent", "read", "bumped"}
    /\ Answer(c, 500)
    /\ UNCHANGED <<clock, row, issued>>

\* A logout whose update was committed and whose answer was not built.
LogoutFails(c) ==
    /\ At(c, "sent", "logout")
    /\ Authenticated(c)
    /\ version < MaxVersion
    /\ version' = version + 1
    /\ Answer(c, 500)
    /\ UNCHANGED <<clock, failed, locked, issued>>

Tick ==
    /\ clock < MaxClock
    /\ clock' = clock + 1
    /\ UNCHANGED <<row, issued, call>>

\* A client: any call, with any token it may have been given, at any time.
Request(kind, good, token, access) ==
    [IdleCall EXCEPT !.phase = "sent", !.kind = kind, !.good = good,
                     !.token = token, !.access = access]

Free(c) == call[c].phase \in {"idle", "answered"}

Send(c) ==
    /\ Free(c)
    /\ \E kind \in Kinds, good \in BOOLEAN, token \in issued \cup {NoToken},
          access \in 0 .. clock + AccessTTL :
            call' = [call EXCEPT ![c] = Request(kind, good, token, access)]
    /\ UNCHANGED <<clock, row, issued>>

\* The client takes its answer, or the request or the answer is lost.
Drop(c) ==
    /\ call[c].phase \in {"sent", "answered"}
    /\ call' = [call EXCEPT ![c] = IdleCall]
    /\ UNCHANGED <<clock, row, issued>>

Handle(c) ==
    \/ LoginLocked(c) \/ LoginFind(c) \/ LoginFailure(c) \/ LoginSuccess(c)
    \/ RefreshRead(c) \/ RefreshBump(c) \/ Sign(c)
    \/ Logout(c) \/ Serve(c) \/ Unauthenticated(c)

Next == Tick \/ \E c \in Calls : Handle(c) \/ HandlerFails(c) \/ LogoutFails(c) \/ Send(c) \/ Drop(c)

Spec == Init /\ [][Next]_authVars

-----------------------------------------------------------------------------
(* Properties.                                                             *)

AuthTypeOK ==
    /\ clock \in Nat /\ version \in Nat /\ failed \in Nat /\ locked \in Nat
    /\ issued \in SUBSET Token
    /\ call \in [Calls -> CallRecord]

Live(token) == token.ver = version

\* Of all the refresh tokens signed for a user at most one passes the version
\* check (refresh/route.ts:53), however logins, refreshes and logouts overlap.
OneLiveToken == \A s, t \in issued : Live(s) /\ Live(t) => s = t

\* login/route.ts:24-40 writes the counter and the lock from a row that may be
\* stale by then: still the counter never passes the limit, and the row never
\* shows the limit without a lock, so that the next failure starts from 1.
LockInv == failed <= MaxFailed /\ (failed = MaxFailed => locked # 0)

\* A lock that stands is lifted early by a successful login, or by a failed one
\* that had read the row while an earlier lock was on record, and by nothing else
\* (login/route.ts:38).
LockStands ==
    [][locked > clock /\ locked' < locked =>
         \E c \in Calls : /\ At(c, "read", "login") /\ call'[c].phase # "read"
                          /\ \/ call[c].good
                             \/ call[c].seenLocked \in 1 .. locked - 1]_authVars

Chain == INSTANCE TokenChain
           WITH live <- {t.ver : t \in {s \in issued : Live(s)}},
                dead <- {t.ver : t \in {s \in issued : ~Live(s)}}

\* Refresh tokens rotate (refresh/route.ts:38-61): each is live at most once, and
\* one that was rotated or revoked never passes the version check again.
TokensRotate == Chain!Spec
===============================================================================
