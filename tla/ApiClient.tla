------------------------------ MODULE ApiClient ------------------------------
(***************************************************************************)
(* The web application's API client (lib/api-client.ts) in the tabs of one *)
(* browser, composed with the backend of AuthTokens.  Each tab keeps an    *)
(* access token in memory; the refresh token is a cookie all tabs share.   *)
(*                                                                         *)
(* A job is one asynchronous function of a tab: a request(), which on a    *)
(* 401 refreshes and tries once more, or the refresh of the timer.  Job c  *)
(* makes its fetches in call slot c; a call whose job is gone runs on in   *)
(* the backend.                                                            *)
(***************************************************************************)
EXTENDS AuthTokens

CONSTANTS
    Tabs,
    NoTab,
    Margin,   \* REFRESH_MARGIN_MS
    MaxJobs   \* bound on the jobs begun

ASSUME ClientAssumption == NoTab \notin Tabs /\ Margin \in 1 .. AccessTTL - 1

VARIABLES
    access,     \* [Tabs -> accessToken and accessExpiresAt]
    timer,      \* [Tabs -> when refreshTimer fires]
    view,       \* [Tabs -> the page it shows: "login", or one behind it]
    jar,        \* the browser's refresh_token cookie
    job,        \* [Calls -> a job, see JobRecord]
    begun,      \* how many jobs were begun
    crowded,    \* history: two authentication calls were in progress at once
    missed,     \* history: an answer that changed the row never took effect here
    refused,    \* history: a refresh did not succeed
    exchanged,  \* history: versions of the tokens that were rotated
    reused      \* history: a token was rotated a second time

tabs       == <<access, timer, view>>
history    == <<crowded, missed, refused, exchanged, reused>>
clientVars == <<authVars, tabs, jar, job, begun, history>>

JobRecord ==
    [stage : {"none", "first", "refresh", "retry"}, tab : Tabs \cup {NoTab},
     kind : Kinds \cup {"timer"}, good : BOOLEAN]

NoJob == [stage |-> "none", tab |-> NoTab, kind |-> "poll", good |-> FALSE]

Idle(c) == job[c].stage = "none"

ClientInit ==
    /\ Init
    /\ access = [t \in Tabs |-> 0]
    /\ timer = [t \in Tabs |-> 0]
    /\ view = [t \in Tabs |-> "login"]
    /\ jar = NoToken
    /\ job = [c \in Calls |-> NoJob]
    /\ begun = 0
    /\ crowded = FALSE
    /\ missed = FALSE
    /\ refused = FALSE
    /\ exchanged = {}
    /\ reused = FALSE

-----------------------------------------------------------------------------
(* History.                                                                *)

AuthKinds == {"login", "refresh", "logout"}

Busy(c) == call[c].phase # "idle" /\ call[c].kind \in AuthKinds

Crowd(c, kind) ==
    crowded' = (crowded \/ (kind \in AuthKinds /\ \E d \in Calls \ {c} : Busy(d)))

\* The call wrote the row and the browser will not learn of it.
Wrote(c) ==
    \/ call[c].phase = "bumped"
    \/ call[c].phase = "answered" /\ call[c].status = 200 /\ call[c].kind \in AuthKinds

-----------------------------------------------------------------------------
(* One fetch.                                                              *)

\* A fetch of job c, made with the access token exp.
Fetch(c, kind, good, exp) ==
    /\ call' = [call EXCEPT ![c] = Request(kind, good,
                                           IF kind = "refresh" THEN jar ELSE NoToken, exp)]
    /\ Crowd(c, kind)
    /\ UNCHANGED <<clock, row, issued>>

SetCookie_KeptOnLogout(c) ==
    jar' = IF call[c].status = 200 /\ call[c].kind \in {"login", "refresh"}
           THEN call[c].token ELSE jar

\* The answer's Set-Cookie, applied before the script hears of the answer.
SetCookie(c) ==
    jar' = IF call[c].status = 200 /\ call[c].kind \in AuthKinds
           THEN call[c].token   \* NoToken for logout
           ELSE jar

SetAccess_Relative(t, exp) ==
    /\ access' = [access EXCEPT ![t] = clock + exp]
    /\ timer' = [timer EXCEPT ![t] = clock + exp]

SetAccess_NotRescheduled(t, exp) ==
    /\ access' = [access EXCEPT ![t] = exp]
    /\ timer' = IF access[t] = 0 THEN [timer EXCEPT ![t] = exp - Margin] ELSE timer

SetAccess(t, exp) ==
    /\ access' = [access EXCEPT ![t] = exp]
    /\ timer' = [timer EXCEPT ![t] = IF exp - Margin > clock THEN exp - Margin ELSE clock]

ClearAccess(t) ==
    /\ access' = [access EXCEPT ![t] = 0]
    /\ timer' = [timer EXCEPT ![t] = 0]

EndJob(c) == job' = [job EXCEPT ![c] = NoJob]

-----------------------------------------------------------------------------
(* Jobs begin.                                                             *)

CanBegin(c) == Idle(c) /\ call[c].phase = "idle" /\ begun < MaxJobs

NewJob(c, t, kind, stage, good) ==
    /\ CanBegin(c)
    /\ begun' = begun + 1
    /\ job' = [job EXCEPT ![c] = [stage |-> stage, tab |-> t, kind |-> kind, good |-> good]]

\* The login form is disabled while a login is under way.
BeginLogin(c, t) ==
    /\ view[t] = "login"
    /\ \A d \in Calls : ~(job[d].tab = t /\ job[d].kind = "login")
    /\ \E good \in BOOLEAN :
         NewJob(c, t, "login", "first", good) /\ Fetch(c, "login", good, access[t])
    /\ UNCHANGED <<tabs, jar, missed, refused, exchanged, reused>>

\* A page lists and polls its vehicles, and its operator may log out.
BeginRequest(c, t) ==
    /\ view[t] # "login"
    /\ \E kind \in {"list", "poll", "logout"} :
         NewJob(c, t, kind, "first", FALSE) /\ Fetch(c, kind, FALSE, access[t])
    /\ UNCHANGED <<tabs, jar, missed, refused, exchanged, reused>>

TimerFires(c, t) ==
    /\ timer[t] \in 1 .. clock
    /\ timer' = [timer EXCEPT ![t] = 0]
    /\ NewJob(c, t, "timer", "refresh", FALSE)
    /\ Fetch(c, "refresh", FALSE, 0)
    /\ UNCHANGED <<access, view, jar, missed, refused, exchanged, reused>>

-----------------------------------------------------------------------------
(* Jobs end.                                                               *)

\* What the caller of request() does with its outcome.
Finish(c, status, exp) ==
    LET t == job[c].tab
        kind == job[c].kind
    IN  /\ EndJob(c)
        /\ \/ kind = "login" /\ status = 200 /\ SetAccess(t, exp)
           \/ kind = "logout" /\ ClearAccess(t)
           \/ ~(kind = "login" /\ status = 200) /\ kind # "logout" /\ UNCHANGED <<access, timer>>
        /\ view' = [view EXCEPT ![t] =
                      IF kind = "login" /\ status = 200 THEN "vehicles"
                      ELSE IF (kind = "list" /\ status = 401) \/ (kind = "logout" /\ status = 200)
                      THEN "login" ELSE @]

TakeAnswer(c) ==
    /\ call' = [call EXCEPT ![c] = IdleCall]
    /\ SetCookie(c)
    /\ UNCHANGED <<clock, row, issued, begun, crowded, missed, exchanged, reused>>

Waiting(c, stages) == job[c].stage \in stages /\ call[c].phase = "answered"

\* The first or the second try of a request is answered for good.
Answered(c) ==
    /\ Waiting(c, {"first", "retry"})
    /\ job[c].stage = "first" => call[c].status # 401
    /\ Finish(c, call[c].status, call[c].access)
    /\ TakeAnswer(c)
    /\ UNCHANGED refused

\* Any 401, a mistyped password's included, is answered by a refresh.
Unauthorized(c) ==
    /\ Waiting(c, {"first"})
    /\ call[c].status = 401
    /\ job' = [job EXCEPT ![c].stage = "refresh"]
    /\ Fetch(c, "refresh", FALSE, 0)
    /\ UNCHANGED <<tabs, jar, begun, missed, refused, exchanged, reused>>

\* The refresh of a request succeeded: the request is sent again.
Refreshed(c) ==
    /\ Waiting(c, {"refresh"})
    /\ call[c].status = 200
    /\ job[c].kind # "timer"
    /\ SetCookie(c)
    /\ SetAccess(job[c].tab, call[c].access)
    /\ job' = [job EXCEPT ![c].stage = "retry"]
    /\ Fetch(c, job[c].kind, job[c].good, call[c].access)
    /\ UNCHANGED <<view, begun, missed, refused, exchanged, reused>>

TimerRefreshed(c) ==
    /\ Waiting(c, {"refresh"})
    /\ call[c].status = 200
    /\ job[c].kind = "timer"
    /\ SetAccess(job[c].tab, call[c].access)
    /\ EndJob(c)
    /\ TakeAnswer(c)
    /\ UNCHANGED <<view, refused>>

RefreshRefused_Again(c) ==
    /\ Waiting(c, {"refresh"})
    /\ call[c].status # 200
    /\ Fetch(c, "refresh", FALSE, 0)
    /\ refused' = TRUE
    /\ UNCHANGED <<tabs, jar, job, begun, missed, exchanged, reused>>

\* The refresh failed: a request fails with its first 401.
RefreshRefused(c) ==
    /\ Waiting(c, {"refresh"})
    /\ call[c].status # 200
    /\ Finish(c, 401, 0)
    /\ TakeAnswer(c)
    /\ refused' = TRUE

-----------------------------------------------------------------------------
(* Failures.                                                               *)

\* A fetch fails in the network; the call may have reached the backend.
FetchFails(c) ==
    /\ ~Idle(c)
    /\ Finish(c, IF job[c].stage = "refresh" THEN 401 ELSE 0, 0)
    /\ refused' = (refused \/ job[c].stage = "refresh")
    /\ missed' = (missed \/ Wrote(c))
    /\ \/ Drop(c)
       \/ call[c].phase # "answered" /\ UNCHANGED authVars
    /\ UNCHANGED <<jar, begun, crowded, exchanged, reused>>

\* The answer of a call nobody waits for.
AnswerLost(c) ==
    /\ Idle(c)
    /\ call[c].phase = "answered"
    /\ Drop(c)
    /\ missed' = (missed \/ Wrote(c))
    /\ UNCHANGED <<tabs, jar, job, begun, crowded, refused, exchanged, reused>>

\* The tab is reloaded: its script starts again and its fetches are given up.
Reload(t) ==
    LET mine == {c \in Calls : job[c].tab = t}
    IN  /\ ClearAccess(t)
        /\ job' = [c \in Calls |-> IF c \in mine THEN NoJob ELSE job[c]]
        /\ refused' = (refused \/ \E c \in mine : job[c].stage = "refresh")
        /\ UNCHANGED <<authVars, view, jar, begun, crowded, missed, exchanged, reused>>

-----------------------------------------------------------------------------
(* The backend's steps, with the history they make.                        *)

Backend(c) ==
    /\ Handle(c)
    /\ exchanged' = IF RefreshBump(c) THEN exchanged \cup {call[c].token.ver} ELSE exchanged
    /\ reused' = (reused \/ (RefreshBump(c) /\ call[c].token.ver \in exchanged))
    /\ UNCHANGED <<tabs, jar, job, begun, crowded, missed, refused>>

BackendFails(c) ==
    /\ \/ HandlerFails(c) /\ missed' = (missed \/ Wrote(c))
       \/ LogoutFails(c) /\ missed' = TRUE
    /\ UNCHANGED <<tabs, jar, job, begun, crowded, refused, exchanged, reused>>

ClientTick == Tick /\ UNCHANGED <<tabs, jar, job, begun, history>>

Continue(c) ==
    \/ Answered(c) \/ Unauthorized(c) \/ Refreshed(c) \/ TimerRefreshed(c)
    \/ RefreshRefused(c) \/ AnswerLost(c)

ClientNext ==
    \/ ClientTick
    \/ \E t \in Tabs : Reload(t) \/ \E c \in Calls : BeginLogin(c, t) \/ BeginRequest(c, t)
                                                      \/ TimerFires(c, t)
    \/ \E c \in Calls : Backend(c) \/ BackendFails(c) \/ Continue(c) \/ FetchFails(c)

\* Handlers run to their end and scripts go on when they are answered.
ClientSpec ==
    /\ ClientInit
    /\ [][ClientNext]_clientVars
    /\ \A c \in Calls : WF_clientVars(Backend(c)) /\ WF_clientVars(Continue(c))

-----------------------------------------------------------------------------
(* Properties.                                                             *)

ClientTypeOK ==
    /\ AuthTypeOK
    /\ access \in [Tabs -> 0 .. clock + AccessTTL]
    /\ timer \in [Tabs -> Nat]
    /\ view \in [Tabs -> {"login", "vehicles"}]
    /\ jar \in issued \cup {NoToken}
    /\ job \in [Calls -> JobRecord]

Quiet == \A c \in Calls : ~Busy(c)

\* While authentication calls never overlap and no answer is missed, the cookie
\* is the one live token whenever none is in progress, and without a cookie there
\* is none: nobody is signed out unasked (api-client.ts:35-39) and nothing is left
\* after a logout (logout/route.ts:20).  The proviso is exact: refreshes are not
\* shared between jobs or tabs (api-client.ts:79), so both can happen.
JarIsCurrent ==
    ~crowded /\ ~missed /\ Quiet => {t \in issued : Live(t)} = {jar} \ {NoToken}

\* A refresh token is exchanged twice only if two calls overlapped: the version
\* check and the increment of refresh/route.ts:46-61 are separate statements.
ReuseNeedsOverlap == reused => crowded

\* As long as no refresh failed, a tab that has an access token has a refresh
\* planned before it expires or due at once, or one under way (api-client.ts:43-50).
RefreshPlanned ==
    ~refused => \A t \in Tabs :
        access[t] # 0 =>
            \/ timer[t] # 0 /\ (timer[t] < access[t] \/ timer[t] <= clock)
            \/ \E c \in Calls : job[c].tab = t /\ job[c].stage = "refresh"

\* Every request comes back to its caller: it is retried once and no more, whatever
\* it is answered (api-client.ts:113).
EveryRequestReturns == \A c \in Calls : ~Idle(c) ~> Idle(c)
===============================================================================
