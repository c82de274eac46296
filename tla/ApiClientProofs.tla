---------------------------- MODULE ApiClientProofs ----------------------------
(***************************************************************************)
(* Theorems about ApiClient, for any tabs, calls, jobs, limits and         *)
(* lifetimes: the browser is one of the clients that AuthTokens allows, so *)
(* what is proved of the backend holds here; and what its cookie and its   *)
(* timers are worth.                                                       *)
(***************************************************************************)
EXTENDS ApiClient, AuthTokensProofs

\* A job that runs is some tab's.
ClientInv ==
    /\ ClientTypeOK
    /\ CallInv
    /\ \A c \in Calls : ~Idle(c) => job[c].tab \in Tabs

\* A fetch is a request that AuthTokens expects of a client.
LEMMA FetchIsSend ==
    ASSUME ClientInv, NEW c \in Calls, NEW kind \in Kinds, NEW good \in BOOLEAN,
           NEW exp \in 0 .. clock + AccessTTL, Free(c), Fetch(c, kind, good, exp)
    PROVE  Send(c)
<1>1. (IF kind = "refresh" THEN jar ELSE NoToken) \in issued \cup {NoToken}
  BY DEF ClientInv, ClientTypeOK
<1>2. QED
  BY <1>1 DEF Fetch, Send

\* The times a client has heard of are the backend's.
LEMMA TimesHeard ==
    ASSUME ClientInv
    PROVE  /\ 0 \in 0 .. clock + AccessTTL
           /\ \A t \in Tabs : access[t] \in 0 .. clock + AccessTTL
           /\ \A c \in Calls : call[c].access \in 0 .. clock + AccessTTL
BY AuthAssumption DEF ClientInv, ClientTypeOK, AuthTypeOK, CallRecord, CallInv, AuthAssumption

\* What the tabs do is, for the backend, the sending of a request, the taking
\* or losing of an answer, or nothing.
LEMMA TabIsClient ==
    ASSUME ClientInv, NEW c \in Calls, NEW t \in Tabs,
           \/ BeginLogin(c, t) \/ BeginRequest(c, t) \/ TimerFires(c, t)
           \/ Continue(c) \/ FetchFails(c) \/ Reload(t)
    PROVE  Send(c) \/ Drop(c) \/ UNCHANGED authVars
<1> USE DEF Kinds
<1>t. job[c] \in JobRecord
  BY DEF ClientInv, ClientTypeOK
<1>1. CASE BeginLogin(c, t)
  BY <1>1, FetchIsSend, TimesHeard DEF BeginLogin, NewJob, CanBegin, Free
<1>2. CASE BeginRequest(c, t)
  BY <1>2, FetchIsSend, TimesHeard DEF BeginRequest, NewJob, CanBegin, Free
<1>3. CASE TimerFires(c, t)
  BY <1>3, FetchIsSend, TimesHeard DEF TimerFires, NewJob, CanBegin, Free
<1>4. CASE Unauthorized(c)
  <2>1. Fetch(c, "refresh", FALSE, 0) /\ Free(c)
    BY <1>4 DEF Unauthorized, Waiting, Free
  <2>2. QED
    BY <2>1, FetchIsSend, TimesHeard
<1>5. CASE Refreshed(c)
  <2>1. job[c].kind \in Kinds /\ job[c].good \in BOOLEAN
    BY <1>5, <1>t DEF JobRecord, Refreshed
  <2>2. QED
    BY <1>5, <2>1, FetchIsSend, TimesHeard DEF Refreshed, Waiting, Free
<1>6. CASE Answered(c) \/ TimerRefreshed(c) \/ RefreshRefused(c)
  BY <1>6 DEF Answered, TimerRefreshed, RefreshRefused, Waiting, TakeAnswer, Drop
<1>7. CASE AnswerLost(c) \/ FetchFails(c) \/ Reload(t)
  BY <1>7 DEF AnswerLost, FetchFails, Reload
<1>8. QED
  BY <1>1, <1>2, <1>3, <1>4, <1>5, <1>6, <1>7 DEF Continue

\* Every step of the browser and its backend is one of AuthTokens, or none.
LEMMA ClientStep == ClientInv /\ [ClientNext]_clientVars => [Next]_authVars
<1> SUFFICES ASSUME ClientInv, [ClientNext]_clientVars
             PROVE  Next \/ UNCHANGED authVars
  OBVIOUS
<1>1. ASSUME NEW c \in Calls, Backend(c) \/ BackendFails(c)
      PROVE  Next
  BY <1>1 DEF Backend, BackendFails, Next
<1>2. ASSUME NEW t \in Tabs, NEW c \in Calls, BeginLogin(c, t) \/ BeginRequest(c, t) \/ TimerFires(c, t)
      PROVE  Next \/ UNCHANGED authVars
  BY <1>2, TabIsClient DEF Next
<1>3. ASSUME NEW c \in Calls, Continue(c) \/ FetchFails(c)
      PROVE  Next \/ UNCHANGED authVars
  <2>1. CASE AnswerLost(c) \/ FetchFails(c)
    BY <2>1 DEF AnswerLost, FetchFails, Next
  <2>2. CASE ~AnswerLost(c) /\ ~FetchFails(c)
    <3>1. job[c].tab \in Tabs
      BY <1>3, <2>2 DEF Continue, ClientInv, Idle, Answered, Unauthorized, Refreshed, TimerRefreshed,
                       RefreshRefused, Waiting
    <3>2. QED
      BY <1>3, <3>1, TabIsClient DEF Next
  <2>3. QED
    BY <2>1, <2>2
<1>4. CASE ClientTick
  BY <1>4 DEF ClientTick, Next
<1>5. ASSUME NEW t \in Tabs, Reload(t)
      PROVE  UNCHANGED authVars
  BY <1>5 DEF Reload
<1>6. CASE UNCHANGED clientVars
  BY <1>6 DEF clientVars
<1>7. QED
  BY <1>1, <1>2, <1>3, <1>4, <1>5, <1>6 DEF ClientNext

-----------------------------------------------------------------------------
(* Types.                                                                  *)

\* Planning a refresh.
LEMMA SetAccessType ==
    ASSUME ClientInv, NEW t \in Tabs, NEW exp \in 0 .. clock + AccessTTL, SetAccess(t, exp)
    PROVE  /\ access' \in [Tabs -> 0 .. clock + AccessTTL]
           /\ timer' \in [Tabs -> Nat]
<1>1. exp \in Nat /\ Margin \in Nat /\ clock \in Nat
  BY AuthAssumption, ClientAssumption
     DEF ClientInv, ClientTypeOK, AuthTypeOK, AuthAssumption, ClientAssumption
<1>2. (IF exp - Margin > clock THEN exp - Margin ELSE clock) \in Nat
  BY <1>1
<1>3. QED
  BY <1>2 DEF SetAccess, ClientInv, ClientTypeOK

\* What jobs, tabs and cookie are after a step of the browser.
TabTypes ==
    /\ access' \in [Tabs -> 0 .. clock + AccessTTL]
    /\ timer' \in [Tabs -> Nat]
    /\ view' \in [Tabs -> {"login", "vehicles"}]
    /\ jar' \in issued \cup {NoToken}
    /\ job' \in [Calls -> JobRecord]
    /\ \A c \in Calls : job'[c].stage # "none" => job'[c].tab \in Tabs

LEMMA NewJobType ==
    ASSUME ClientInv, NEW c \in Calls, NEW t \in Tabs, NEW kind \in Kinds \cup {"timer"},
           NEW stage \in {"first", "refresh"}, NEW good \in BOOLEAN, NewJob(c, t, kind, stage, good)
    PROVE  /\ job' \in [Calls -> JobRecord]
           /\ \A d \in Calls : job'[d].stage # "none" => job'[d].tab \in Tabs
<1> DEFINE new == [stage |-> stage, tab |-> t, kind |-> kind, good |-> good]
<1>1. new \in JobRecord /\ new.tab = t
  BY DEF JobRecord
<1>2. job' = [job EXCEPT ![c] = new]
  BY DEF NewJob
<1> HIDE DEF new
<1>3. QED
  BY <1>1, <1>2 DEF ClientInv, ClientTypeOK, Idle

LEMMA EndJobType ==
    ASSUME ClientInv, NEW c \in Calls, EndJob(c)
    PROVE  /\ job' \in [Calls -> JobRecord]
           /\ \A d \in Calls : job'[d].stage # "none" => job'[d].tab \in Tabs
<1>1. NoJob \in JobRecord /\ NoJob.stage = "none"
  BY DEF NoJob, JobRecord, Kinds
<1>2. QED
  BY <1>1 DEF EndJob, ClientInv, ClientTypeOK, Idle

LEMMA FinishType ==
    ASSUME ClientInv, NEW c \in Calls, ~Idle(c), NEW status, NEW exp \in 0 .. clock + AccessTTL,
           Finish(c, status, exp)
    PROVE  /\ access' \in [Tabs -> 0 .. clock + AccessTTL]
           /\ timer' \in [Tabs -> Nat]
           /\ view' \in [Tabs -> {"login", "vehicles"}]
           /\ job' \in [Calls -> JobRecord]
           /\ \A d \in Calls : job'[d].stage # "none" => job'[d].tab \in Tabs
<1>1. job[c].tab \in Tabs
  BY DEF ClientInv
<1>2. EndJob(c)
  BY DEF Finish
<1>3. view' \in [Tabs -> {"login", "vehicles"}]
  BY DEF Finish, ClientInv, ClientTypeOK
<1>4. SetAccess(job[c].tab, exp) \/ ClearAccess(job[c].tab) \/ UNCHANGED <<access, timer>>
  BY DEF Finish
<1>5. access' \in [Tabs -> 0 .. clock + AccessTTL] /\ timer' \in [Tabs -> Nat]
  <2>1. CASE SetAccess(job[c].tab, exp)
    BY <1>1, <2>1, SetAccessType
  <2>2. CASE ClearAccess(job[c].tab)
    BY <1>1, <2>2, TimesHeard DEF ClearAccess, ClientInv, ClientTypeOK
  <2>3. CASE UNCHANGED <<access, timer>>
    BY <2>3 DEF ClientInv, ClientTypeOK
  <2>4. QED
    BY <1>4, <2>1, <2>2, <2>3
<1>6. QED
  BY <1>2, <1>3, <1>5, EndJobType

LEMMA CookieType ==
    ASSUME ClientInv, NEW c \in Calls, SetCookie(c)
    PROVE  jar' \in issued \cup {NoToken}
BY DEF SetCookie, ClientInv, ClientTypeOK, CallInv

LEMMA BeginType ==
    ASSUME ClientInv, NEW c \in Calls, NEW t \in Tabs,
           BeginLogin(c, t) \/ BeginRequest(c, t) \/ TimerFires(c, t)
    PROVE  TabTypes
<1> USE DEF ClientInv, ClientTypeOK
<1>1. CASE BeginLogin(c, t) \/ BeginRequest(c, t)
  <2>1. /\ UNCHANGED <<tabs, jar>>
        /\ \E kind \in Kinds, good \in BOOLEAN : NewJob(c, t, kind, "first", good)
    BY <1>1 DEF BeginLogin, BeginRequest, Kinds
  <2>2. QED
    BY <2>1, NewJobType DEF TabTypes, tabs
<1>2. CASE TimerFires(c, t)
  <2>1. UNCHANGED <<access, view, jar>> /\ NewJob(c, t, "timer", "refresh", FALSE)
    BY <1>2 DEF TimerFires
  <2>2. timer' \in [Tabs -> Nat]
    BY <1>2 DEF TimerFires
  <2>3. QED
    BY <2>1, <2>2, NewJobType DEF TabTypes
<1>3. QED
  BY <1>1, <1>2

LEMMA ContinueType ==
    ASSUME ClientInv, NEW c \in Calls, Continue(c) \/ FetchFails(c)
    PROVE  TabTypes
<1> USE DEF ClientInv, ClientTypeOK
<1>t. 0 \in 0 .. clock + AccessTTL /\ call[c].access \in 0 .. clock + AccessTTL
  BY TimesHeard
<1>1. CASE Answered(c) \/ RefreshRefused(c)
  <2>1. /\ \E status, exp : exp \in 0 .. clock + AccessTTL /\ Finish(c, status, exp)
        /\ ~Idle(c) /\ SetCookie(c)
    BY <1>1, <1>t DEF Answered, RefreshRefused, Waiting, Idle, TakeAnswer
  <2>2. QED
    BY <2>1, FinishType, CookieType DEF TabTypes
<1>2. CASE Unauthorized(c) \/ Refreshed(c)
  <2>1. /\ \E s \in {"refresh", "retry"} : job' = [job EXCEPT ![c].stage = s]
        /\ ~Idle(c) /\ UNCHANGED view
    BY <1>2 DEF Unauthorized, Refreshed, Waiting, Idle, tabs
  <2>2. /\ job' \in [Calls -> JobRecord]
        /\ \A d \in Calls : job'[d].stage # "none" => job'[d].tab \in Tabs
    BY <2>1 DEF JobRecord, Idle
  <2>3. access' \in [Tabs -> 0 .. clock + AccessTTL] /\ timer' \in [Tabs -> Nat]
    <3>1. CASE Unauthorized(c)
      BY <3>1 DEF Unauthorized, tabs
    <3>2. CASE Refreshed(c)
      <4>1. SetAccess(job[c].tab, call[c].access) /\ job[c].tab \in Tabs
        BY <2>1, <3>2 DEF Refreshed
      <4>2. QED
        BY <4>1, <1>t, SetAccessType
    <3>3. QED
      BY <1>2, <3>1, <3>2
  <2>4. jar' \in issued \cup {NoToken}
    BY <1>2, CookieType DEF Unauthorized, Refreshed
  <2>5. QED
    BY <2>1, <2>2, <2>3, <2>4 DEF TabTypes
<1>3. CASE TimerRefreshed(c)
  <2>1. SetAccess(job[c].tab, call[c].access) /\ job[c].tab \in Tabs
    BY <1>3 DEF TimerRefreshed, Waiting, Idle
  <2>2. EndJob(c) /\ SetCookie(c) /\ UNCHANGED view
    BY <1>3 DEF TimerRefreshed, TakeAnswer
  <2>3. QED
    BY <1>t, <2>1, <2>2, SetAccessType, CookieType, EndJobType DEF TabTypes
<1>4. CASE AnswerLost(c)
  BY <1>4 DEF AnswerLost, tabs, TabTypes, Idle
<1>5. CASE FetchFails(c)
  BY <1>5, <1>t, FinishType DEF FetchFails, TabTypes
<1>6. QED
  BY <1>1, <1>2, <1>3, <1>4, <1>5 DEF Continue

LEMMA ReloadType == ASSUME ClientInv, NEW t \in Tabs, Reload(t) PROVE TabTypes
<1>1. NoJob \in JobRecord /\ NoJob.stage = "none"
  BY DEF NoJob, JobRecord, Kinds
<1>2. QED
  BY <1>1, TimesHeard DEF Reload, ClearAccess, ClientInv, ClientTypeOK, TabTypes, Idle

\* Tokens are never unsigned, nor does the clock go back.
LEMMA OnlyMore ==
    ASSUME AuthTypeOK, [Next]_authVars
    PROVE  issued \subseteq issued' /\ clock <= clock'
<1>1. ASSUME NEW c \in Calls, CallStep(c)
      PROVE  issued \subseteq issued' /\ clock <= clock'
  <2>1. clock' = clock /\ (Plain(c) \/ Revokes(c) \/ Bumps(c) \/ Sign(c))
    BY <1>1, StepEffect, AuthAssumption
  <2>2. issued \subseteq issued'
    BY <2>1 DEF Plain, Revokes, Bumps, Sign
  <2>3. QED
    BY <2>1, <2>2 DEF AuthTypeOK
<1>2. CASE Tick
  BY <1>2, TickEffect
<1>3. CASE UNCHANGED authVars
  BY <1>3 DEF authVars, AuthTypeOK
<1>4. QED
  BY <1>1, <1>2, <1>3 DEF Next, CallStep

\* What was below an expiry given out earlier is below one given out now.
LEMMA LaterBound ==
    ASSUME NEW now \in Nat, NEW later \in Nat, NEW ttl \in Nat, now <= later
    PROVE  \A n \in 0 .. now + ttl : n \in 0 .. later + ttl
OBVIOUS

LEMMA ClientInvStep == ClientInv /\ [ClientNext]_clientVars => ClientInv'
<1> SUFFICES ASSUME ClientInv, [ClientNext]_clientVars
             PROVE  ClientInv'
  OBVIOUS
<1>1. [Next]_authVars
  BY ClientStep
<1>2. AuthTypeOK' /\ CallInv'
  BY <1>1, AuthTypeStep, CallInvStep DEF ClientInv, ClientTypeOK
<1>3. issued \subseteq issued' /\ clock <= clock' /\ clock \in Nat /\ clock' \in Nat /\ AccessTTL \in Nat
  BY <1>1, <1>2, OnlyMore, AuthAssumption DEF ClientInv, ClientTypeOK, AuthTypeOK, AuthAssumption
<1>4. TabTypes
  <2>1. CASE UNCHANGED <<tabs, jar, job>>
    BY <2>1 DEF TabTypes, tabs, ClientInv, ClientTypeOK, Idle
  <2>2. (\E c \in Calls : Backend(c) \/ BackendFails(c)) \/ ClientTick \/ UNCHANGED clientVars
           => UNCHANGED <<tabs, jar, job>>
    BY DEF Backend, BackendFails, ClientTick, clientVars
  <2>3. QED
    BY <2>1, <2>2, BeginType, ContinueType, ReloadType DEF ClientNext
<1>5. \A n \in 0 .. clock + AccessTTL : n \in 0 .. clock' + AccessTTL
  BY <1>3, LaterBound
<1>6. ClientTypeOK'
  BY <1>2, <1>3, <1>4, <1>5 DEF TabTypes, ClientTypeOK
<1>7. QED
  BY <1>2, <1>4, <1>6 DEF ClientInv, TabTypes, Idle

LEMMA ClientInitInv == ClientInit => ClientInv
<1>1. NoJob \in JobRecord /\ NoJob.stage = "none"
  BY DEF NoJob, JobRecord, Kinds
<1> SUFFICES ASSUME ClientInit
             PROVE  ClientInv
  OBVIOUS
<1>2. 0 \in 0 .. clock + AccessTTL
  BY AuthAssumption DEF ClientInit, Init, AuthAssumption
<1>3. AuthTypeOK /\ CallInv
  BY AuthInit, CallInvInit DEF ClientInit
<1>4. access \in [Tabs -> 0 .. clock + AccessTTL]
  BY <1>2 DEF ClientInit
<1>5. ClientTypeOK
  BY <1>1, <1>3, <1>4 DEF ClientInit, ClientTypeOK
<1>6. QED
  BY <1>1, <1>3, <1>5 DEF ClientInit, ClientInv, Idle

LEMMA ClientInvariant == ClientSpec => []ClientInv
BY ClientInitInv, ClientInvStep, PTL DEF ClientSpec

\* Every variable of tabs, cookie, jobs and backend keeps its type: in
\* particular every token and expiry a tab holds was given out by the backend.
THEOREM ClientTypes == ClientSpec => []ClientTypeOK
BY ClientInvariant, PTL DEF ClientInv

\* The browser is one of the clients AuthTokens allows: whatever is proved of
\* the backend for all its clients holds in the composition.
THEOREM ClientIsAuth == ClientSpec => Spec
<1>1. ClientInit => Init
  BY DEF ClientInit
<1>2. QED
  BY <1>1, ClientInvariant, ClientStep, PTL DEF ClientSpec, Spec

-----------------------------------------------------------------------------
(* A refresh is planned.                                                   *)

Refreshing(t) == \E c \in Calls : job[c].tab = t /\ job[c].stage = "refresh"

Planned(t) ==
    access[t] # 0 =>
        \/ timer[t] # 0 /\ (timer[t] < access[t] \/ timer[t] <= clock)
        \/ Refreshing(t)

LEMMA SetAccessPlans ==
    ASSUME ClientInv, NEW t \in Tabs, NEW exp \in 0 .. clock + AccessTTL, SetAccess(t, exp),
           UNCHANGED clock
    PROVE  /\ Planned(t)'
           /\ \A u \in Tabs \ {t} : access'[u] = access[u] /\ timer'[u] = timer[u]
<1>1. exp \in Nat /\ Margin \in Nat \ {0} /\ clock \in Nat \ {0}
  BY AuthAssumption, ClientAssumption
     DEF ClientInv, ClientTypeOK, CallInv, AuthTypeOK, AuthAssumption, ClientAssumption
<1>2. access'[t] = exp /\ timer'[t] = (IF exp - Margin > clock THEN exp - Margin ELSE clock)
  BY DEF SetAccess, ClientInv, ClientTypeOK
<1>3. timer'[t] # 0 /\ (timer'[t] < exp \/ timer'[t] <= clock)
  BY <1>1, <1>2
<1>4. QED
  BY <1>2, <1>3 DEF Planned, SetAccess

\* A plan stands as long as its tab's times do, and its refresh goes on.
LEMMA PlanStands ==
    ASSUME ClientInv, NEW u \in Tabs, Planned(u), clock' \in Nat, clock <= clock',
           access'[u] = access[u], timer'[u] = timer[u], Refreshing(u) => Refreshing(u)'
    PROVE  Planned(u)'
<1>1. timer[u] \in Nat /\ clock \in Nat
  BY DEF ClientInv, ClientTypeOK, AuthTypeOK
<1>2. QED
  BY <1>1 DEF Planned

\* A job that ends without having been a refresh, and what becomes of its tab.
LEMMA FinishPlans ==
    ASSUME ClientInv, NEW c \in Calls, ~Idle(c), NEW status, NEW exp \in 0 .. clock + AccessTTL,
           Finish(c, status, exp), job[c].stage # "refresh", UNCHANGED clock,
           \A t \in Tabs : Planned(t)
    PROVE  \A t \in Tabs : Planned(t)'
<1>0. PICK t \in Tabs : t = job[c].tab
  BY DEF ClientInv
<1>1. clock' \in Nat /\ clock <= clock'
  BY DEF ClientInv, ClientTypeOK, AuthTypeOK
<1>2. \A u \in Tabs : Refreshing(u) => Refreshing(u)'
  BY DEF Finish, EndJob, Refreshing, ClientInv, ClientTypeOK
<1>3. SetAccess(t, exp) \/ ClearAccess(t) \/ UNCHANGED <<access, timer>>
  BY <1>0 DEF Finish
<1>4. CASE SetAccess(t, exp)
  BY <1>1, <1>2, <1>4, SetAccessPlans, PlanStands
<1>5. CASE ClearAccess(t)
  <2>1. access'[t] = 0 /\ \A u \in Tabs \ {t} : access'[u] = access[u] /\ timer'[u] = timer[u]
    BY <1>1, <1>5 DEF ClearAccess, ClientInv, ClientTypeOK
  <2>2. Planned(t)'
    BY <2>1 DEF Planned
  <2>3. QED
    BY <1>1, <1>2, <2>1, <2>2, PlanStands
<1>6. CASE UNCHANGED <<access, timer>>
  BY <1>1, <1>2, <1>6, PlanStands
<1>7. QED
  BY <1>3, <1>4, <1>5, <1>6

\* Every step keeps every tab's plan.
LEMMA PlannedStep == ClientInv /\ RefreshPlanned /\ [ClientNext]_clientVars => RefreshPlanned'
<1> SUFFICES ASSUME ClientInv, RefreshPlanned, [ClientNext]_clientVars, ~refused'
             PROVE  \A t \in Tabs : Planned(t)'
  BY DEF RefreshPlanned, Planned, Refreshing
<1>t. clock \in Nat /\ \A c \in Calls : call[c].access \in 0 .. clock + AccessTTL
  BY TimesHeard DEF ClientInv, ClientTypeOK, AuthTypeOK
<1>p. \A u \in Tabs : ~refused => Planned(u)
  BY DEF RefreshPlanned, Planned, Refreshing
<1>1. ASSUME NEW c \in Calls, NEW t \in Tabs, BeginLogin(c, t) \/ BeginRequest(c, t)
      PROVE  \A u \in Tabs : Planned(u)'
  <2>1. UNCHANGED <<clock, access, timer, refused>>
    BY <1>1 DEF BeginLogin, BeginRequest, tabs, Fetch
  <2>2. job[c].stage = "none" /\ \A d \in Calls \ {c} : job'[d] = job[d]
    BY <1>1 DEF BeginLogin, BeginRequest, NewJob, CanBegin, Idle, ClientInv, ClientTypeOK
  <2>3. \A u \in Tabs : Refreshing(u) => Refreshing(u)'
    BY <2>2 DEF Refreshing
  <2>4. QED
    BY <1>t, <1>p, <2>1, <2>3, PlanStands
<1>2. ASSUME NEW c \in Calls, NEW t \in Tabs, TimerFires(c, t)
      PROVE  \A u \in Tabs : Planned(u)'
  <2>1. UNCHANGED <<clock, access, refused>> /\ \A u \in Tabs \ {t} : timer'[u] = timer[u]
    BY <1>2 DEF TimerFires, Fetch, ClientInv, ClientTypeOK
  <2>2. job[c].stage = "none" /\ \A d \in Calls \ {c} : job'[d] = job[d]
    BY <1>2 DEF TimerFires, NewJob, CanBegin, Idle, ClientInv, ClientTypeOK
  <2>3. job'[c].tab = t /\ job'[c].stage = "refresh"
    BY <1>2 DEF TimerFires, NewJob, ClientInv, ClientTypeOK
  <2>4. Planned(t)'
    BY <2>3 DEF Planned, Refreshing
  <2>5. \A u \in Tabs : Refreshing(u) => Refreshing(u)'
    BY <2>2 DEF Refreshing
  <2>6. QED
    BY <1>t, <1>p, <2>1, <2>4, <2>5, PlanStands
<1>3. ASSUME NEW c \in Calls, Continue(c)
      PROVE  \A u \in Tabs : Planned(u)'
  <2>1. CASE Answered(c)
    <3>1. /\ Finish(c, call[c].status, call[c].access) /\ job[c].stage # "refresh" /\ ~Idle(c)
          /\ UNCHANGED <<clock, refused>>
      BY <2>1 DEF Answered, Waiting, Idle, TakeAnswer
    <3>2. QED
      BY <1>t, <1>p, <3>1, FinishPlans
  <2>2. CASE Unauthorized(c)
    <3>1. UNCHANGED <<clock, access, timer, refused>>
      BY <2>2 DEF Unauthorized, Fetch, tabs
    <3>2. job'[c].tab = job[c].tab /\ job'[c].stage = "refresh" /\ \A d \in Calls \ {c} : job'[d] = job[d]
      BY <2>2 DEF Unauthorized, ClientInv, ClientTypeOK, JobRecord
    <3>3. \A u \in Tabs : Refreshing(u) => Refreshing(u)'
      BY <3>2 DEF Refreshing
    <3>4. QED
      BY <1>t, <1>p, <3>1, <3>3, PlanStands
  <2>3. CASE Refreshed(c) \/ TimerRefreshed(c)
    <3>1. /\ SetAccess(job[c].tab, call[c].access) /\ job[c].tab \in Tabs
          /\ UNCHANGED <<clock, refused>>
      BY <2>3 DEF Refreshed, TimerRefreshed, Waiting, Idle, ClientInv, Fetch, TakeAnswer
    <3>2. \A d \in Calls \ {c} : job'[d] = job[d]
      BY <2>3 DEF Refreshed, TimerRefreshed, EndJob, ClientInv, ClientTypeOK
    <3>3. \A u \in Tabs \ {job[c].tab} : Refreshing(u) => Refreshing(u)'
      BY <3>2 DEF Refreshing
    <3>4. QED
      BY <1>t, <1>p, <3>1, <3>3, SetAccessPlans, PlanStands
  <2>4. CASE AnswerLost(c)
    BY <1>t, <1>p, <2>4, PlanStands DEF AnswerLost, Drop, tabs, Refreshing
  <2>5. QED
    BY <1>3, <2>1, <2>2, <2>3, <2>4 DEF Continue, RefreshRefused
<1>4. ASSUME NEW c \in Calls, FetchFails(c)
      PROVE  \A u \in Tabs : Planned(u)'
  <2>1. ~refused /\ job[c].stage # "refresh" /\ ~Idle(c) /\ Finish(c, 0, 0) /\ UNCHANGED clock
    BY <1>4 DEF FetchFails, Drop, authVars
  <2>2. QED
    BY <1>p, <2>1, FinishPlans, TimesHeard
<1>5. ASSUME NEW t \in Tabs, Reload(t)
      PROVE  \A u \in Tabs : Planned(u)'
  <2>1. ~refused /\ access'[t] = 0 /\ UNCHANGED clock
        /\ \A u \in Tabs \ {t} : access'[u] = access[u] /\ timer'[u] = timer[u]
    BY <1>5 DEF Reload, ClearAccess, authVars, ClientInv, ClientTypeOK
  <2>2. \A d \in Calls : job[d].tab # t => job'[d] = job[d]
    BY <1>5 DEF Reload
  <2>3. \A u \in Tabs \ {t} : Refreshing(u) => Refreshing(u)'
    BY <2>2 DEF Refreshing
  <2>4. Planned(t)'
    BY <2>1 DEF Planned
  <2>5. QED
    BY <1>t, <1>p, <2>1, <2>3, <2>4, PlanStands
<1>6. CASE (\E c \in Calls : Backend(c) \/ BackendFails(c)) \/ ClientTick \/ UNCHANGED clientVars
  <2>1. UNCHANGED <<tabs, job, refused>>
    BY <1>6 DEF Backend, BackendFails, ClientTick, clientVars, history
  <2>2. clock <= clock' /\ clock' \in Nat
    BY ClientStep, OnlyMore, AuthTypeStep DEF ClientInv, ClientTypeOK, AuthTypeOK
  <2>3. QED
    BY <1>p, <2>1, <2>2, PlanStands DEF tabs, Refreshing
<1>7. QED
  BY <1>1, <1>2, <1>3, <1>4, <1>5, <1>6 DEF ClientNext

\* As long as no refresh has failed, every tab that has an access token has a
\* refresh planned in time or under way (scheduleRefresh and setAccessToken,
\* api-client.ts:35-58), for any lifetimes and any margin below them.
THEOREM RefreshIsPlanned == ClientSpec => []RefreshPlanned
<1>1. ClientInit => RefreshPlanned
  BY DEF ClientInit, RefreshPlanned
<1>2. QED
  BY <1>1, PlannedStep, ClientInvariant, PTL DEF ClientSpec

-----------------------------------------------------------------------------
(* Authentication calls that do not overlap.                               *)

\* As long as they do not, there is at most one; the versions that were
\* exchanged are of the past; and a token that has passed the check is
\* current until it is exchanged.
AloneInv ==
    ~crowded =>
        /\ \A c, d \in Calls : Busy(c) /\ Busy(d) => c = d
        /\ \A v \in exchanged : v \in Nat /\ v < version
        /\ \A c \in Calls : At(c, "read", "refresh") => call[c].token.ver = version

\* What a step of the browser does to call c, and what it leaves alone.
Requests(c) ==
    /\ call[c].phase \in {"idle", "answered"}
    /\ call'[c].phase = "sent"
    /\ crowded' = (crowded \/ (call'[c].kind \in AuthKinds /\ \E d \in Calls \ {c} : Busy(d)))
GivesUp(c) ==
    /\ call[c].phase \in {"sent", "answered"}
    /\ call'[c].phase = "idle"
    /\ crowded' = crowded

LEMMA FetchEffect ==
    ASSUME ClientInv, NEW c \in Calls, NEW kind \in Kinds, NEW good, NEW exp, Free(c),
           Fetch(c, kind, good, exp)
    PROVE  /\ Requests(c) /\ \A d \in Calls \ {c} : call'[d] = call[d]
           /\ UNCHANGED <<version, issued>>
<1> DEFINE new == Request(kind, good, IF kind = "refresh" THEN jar ELSE NoToken, exp)
<1>1. new.kind = kind /\ new.phase = "sent"
  BY DEF Request, IdleCall
<1>2. call' = [call EXCEPT ![c] = new]
  BY DEF Fetch
<1> HIDE DEF new
<1>3. call'[c] = new /\ \A d \in Calls \ {c} : call'[d] = call[d]
  BY <1>2 DEF ClientInv, ClientTypeOK, AuthTypeOK
<1>4. QED
  BY <1>1, <1>3 DEF Requests, Fetch, Crowd, Free, row

TabStep(c) ==
    \/ \E t \in Tabs : BeginLogin(c, t) \/ BeginRequest(c, t) \/ TimerFires(c, t)
    \/ Continue(c) \/ FetchFails(c)

LEMMA TabEffect ==
    ASSUME ClientInv, NEW c \in Calls, TabStep(c)
    PROVE  /\ UNCHANGED <<version, issued, exchanged, reused>>
           /\ \A d \in Calls \ {c} : call'[d] = call[d]
           /\ Requests(c) \/ GivesUp(c) \/ UNCHANGED <<call, crowded>>
<1> USE DEF Kinds
<1>h. UNCHANGED <<exchanged, reused>>
  BY DEF TabStep, BeginLogin, BeginRequest, TimerFires, Continue, Answered, Unauthorized, Refreshed,
         TimerRefreshed, RefreshRefused, AnswerLost, FetchFails, TakeAnswer
<1>f. ASSUME Free(c), \E kind \in Kinds, good \in BOOLEAN, exp \in Nat : Fetch(c, kind, good, exp)
      PROVE  /\ Requests(c) /\ \A d \in Calls \ {c} : call'[d] = call[d]
             /\ UNCHANGED <<version, issued>>
  BY <1>f, FetchEffect
<1>d. ASSUME Drop(c), UNCHANGED crowded
      PROVE  /\ GivesUp(c) /\ \A d \in Calls \ {c} : call'[d] = call[d]
             /\ UNCHANGED <<version, issued>>
  BY <1>d DEF Drop, GivesUp, IdleCall, row, ClientInv, ClientTypeOK, AuthTypeOK
<1>n. 0 \in Nat /\ (\A t \in Tabs : access[t] \in Nat) /\ call[c].access \in Nat
  BY TimesHeard, AuthAssumption DEF ClientInv, ClientTypeOK, AuthTypeOK, CallRecord
<1>1. ASSUME NEW t \in Tabs, BeginLogin(c, t) \/ BeginRequest(c, t) \/ TimerFires(c, t)
      PROVE  /\ UNCHANGED <<version, issued, exchanged, reused>>
             /\ \A d \in Calls \ {c} : call'[d] = call[d]
             /\ Requests(c)
  <2>1. Free(c)
    BY <1>1 DEF BeginLogin, BeginRequest, TimerFires, NewJob, CanBegin, Free
  <2>2. \E kind \in Kinds, good \in BOOLEAN, exp \in Nat : Fetch(c, kind, good, exp)
    <3>1. CASE BeginLogin(c, t)
      BY <1>n, <3>1 DEF BeginLogin
    <3>2. CASE BeginRequest(c, t)
      BY <1>n, <3>2 DEF BeginRequest
    <3>3. CASE TimerFires(c, t)
      BY <1>n, <3>3 DEF TimerFires
    <3>4. QED
      BY <1>1, <3>1, <3>2, <3>3
  <2>3. QED
    BY <1>h, <1>f, <2>1, <2>2
<1>2. CASE Unauthorized(c)
  BY <1>2, <1>h, <1>f, <1>n DEF Unauthorized, Waiting, Free
<1>3. CASE Refreshed(c)
  <2>1. job[c].kind \in Kinds /\ job[c].good \in BOOLEAN
    BY <1>3 DEF JobRecord, Refreshed, ClientInv, ClientTypeOK
  <2>2. QED
    BY <1>3, <1>h, <1>f, <1>n, <2>1 DEF Refreshed, Waiting, Free
<1>4. CASE Answered(c) \/ TimerRefreshed(c) \/ RefreshRefused(c)
  <2>1. Drop(c) /\ UNCHANGED crowded
    BY <1>4 DEF Answered, TimerRefreshed, RefreshRefused, Waiting, TakeAnswer, Drop
  <2>2. QED
    BY <1>h, <1>d, <2>1
<1>5. CASE AnswerLost(c) \/ FetchFails(c)
  <2>1. UNCHANGED crowded /\ (Drop(c) \/ UNCHANGED authVars)
    BY <1>5 DEF AnswerLost, FetchFails
  <2>2. QED
    BY <1>h, <1>d, <2>1 DEF authVars, row
<1>6. QED
  BY <1>1, <1>2, <1>3, <1>4, <1>5 DEF TabStep, Continue

\* A handler's step keeps its call in progress, of its kind.
LEMMA HandlerEffect ==
    ASSUME AuthTypeOK, CallInv, NEW c \in Calls, Handle(c) \/ HandlerFails(c) \/ LogoutFails(c)
    PROVE  /\ call[c].phase \notin {"idle", "answered"} /\ call'[c].phase # "idle"
           /\ call'[c].kind = call[c].kind
           /\ At(c, "read", "refresh")' => RefreshRead(c) /\ call'[c].token = call[c].token
           /\ version' # version => version' = version + 1 /\ call[c].kind \in AuthKinds
<1>s. 200 \in Nat /\ 401 \in Nat /\ 423 \in Nat /\ 500 \in Nat
  OBVIOUS
<1>1. CASE LoginLocked(c) \/ LoginFailure(c) \/ Logout(c) \/ Serve(c) \/ Unauthenticated(c)
           \/ HandlerFails(c) \/ LogoutFails(c)
  <2>1. \E status \in Nat : Answer(c, status)
    BY <1>1, <1>s DEF LoginLocked, LoginFailure, Logout, Serve, Unauthenticated, HandlerFails, LogoutFails
  <2>2. call'[c].phase = "answered" /\ call'[c].kind = call[c].kind
    BY <2>1, AnswerEffect, AnswerFields
  <2>3. call[c].phase \notin {"idle", "answered"}
    BY <1>1 DEF LoginLocked, LoginFailure, Logout, Serve, Unauthenticated, HandlerFails, LogoutFails, At
  <2>4. version' # version => version' = version + 1 /\ call[c].kind = "logout"
    BY <1>1 DEF LoginLocked, LoginFailure, Logout, Serve, Unauthenticated, HandlerFails, LogoutFails,
                row, At
  <2>5. QED
    BY <2>2, <2>3, <2>4 DEF At, AuthKinds
<1>2. CASE LoginFind(c)
  <2>1. call'[c].kind = "login" /\ call'[c].phase \in {"read", "answered"}
    BY <1>2, ReadEffect, GoesOnFields, AnswerFields, <1>s DEF LoginFind, At
  <2>2. QED
    BY <1>2, <2>1 DEF LoginFind, At, row
<1>3. CASE RefreshRead(c)
  <2>1. call'[c].kind = call[c].kind /\ call'[c].phase \in {"read", "answered"}
    BY <1>3, ReadEffect, GoesOnFields, AnswerFields, <1>s
  <2>2. At(c, "read", "refresh")' => call'[c].token = call[c].token
    BY <1>3, <1>s, GoesOnFields, AnswerEffect DEF At
  <2>3. QED
    BY <1>3, <2>1, <2>2 DEF RefreshRead, At, row
<1>4. CASE LoginSuccess(c) \/ RefreshBump(c)
  <2>1. Bump(c) /\ call[c].phase = "read" /\ call[c].kind \in AuthKinds
    BY <1>4 DEF LoginSuccess, RefreshBump, At, AuthKinds
  <2>2. call'[c].phase = "bumped" /\ version' = version + 1
    BY <2>1, BumpEffect
  <2>3. call'[c].kind = call[c].kind
    BY <2>1, <2>2, <1>s, GoesOnFields, AnswerFields
  <2>4. QED
    BY <2>1, <2>2, <2>3 DEF At
<1>5. CASE Sign(c)
  <2>1. call[c].phase = "bumped" /\ call'[c].phase = "answered" /\ version' = version
    BY <1>5, SignEffect, AuthAssumption DEF row
  <2>2. call'[c].kind = call[c].kind
    BY <1>5, SignFields
  <2>3. QED
    BY <2>1, <2>2 DEF At
<1>6. QED
  BY <1>1, <1>2, <1>3, <1>4, <1>5 DEF Handle

LEMMA VersionAbove ==
    ASSUME NEW now \in Nat, NEW S, \A v \in S : v \in Nat /\ v < now
    PROVE  /\ \A v \in S : v \in Nat /\ v < now + 1
           /\ \A v \in S \cup {now} : v \in Nat /\ v < now + 1
OBVIOUS

\* A handler's step: other calls are the backend's or the browser's as before.
LEMMA AloneBackend ==
    ASSUME ClientInv, AloneInv, NEW c \in Calls, Backend(c) \/ BackendFails(c)
    PROVE  AloneInv'
<1>1. /\ AuthTypeOK /\ CallInv /\ version \in Nat /\ CallStep(c) /\ UNCHANGED crowded
      /\ Handle(c) \/ HandlerFails(c) \/ LogoutFails(c)
  BY DEF ClientInv, ClientTypeOK, AuthTypeOK, Backend, BackendFails, CallStep
<1>2. /\ call[c].phase \notin {"idle", "answered"} /\ call'[c].phase # "idle"
      /\ call'[c].kind = call[c].kind
      /\ At(c, "read", "refresh")' => RefreshRead(c) /\ call'[c].token = call[c].token
      /\ version' # version => version' = version + 1 /\ call[c].kind \in AuthKinds
  BY <1>1, HandlerEffect
<1>3. \A d \in Calls \ {c} : call'[d] = call[d]
  BY <1>1, StepEffect, AuthAssumption
<1>4. \A d \in Calls : Busy(d)' => Busy(d)
  BY <1>2, <1>3 DEF Busy
<1> SUFFICES ASSUME ~crowded
             PROVE  /\ \A d, e \in Calls : Busy(d)' /\ Busy(e)' => d = e
                    /\ \A v \in exchanged' : v \in Nat /\ v < version'
                    /\ \A d \in Calls : At(d, "read", "refresh")' => call'[d].token.ver = version'
  BY <1>1 DEF AloneInv
<1>5. \A d, e \in Calls : Busy(d)' /\ Busy(e)' => d = e
  BY <1>4 DEF AloneInv
<1>6. \A v \in exchanged : v \in Nat /\ v < version
  BY DEF AloneInv
<1>7. \A v \in exchanged' : v \in Nat /\ v < version'
  <2>1. CASE exchanged' = exchanged
    <3>1. version' = version \/ version' = version + 1
      BY <1>2
    <3>2. QED
      BY <1>1, <1>6, <2>1, <3>1, VersionAbove
  <2>2. CASE RefreshBump(c) /\ exchanged' = exchanged \cup {call[c].token.ver}
    <3>1. call[c].token.ver = version /\ version' = version + 1
      BY <1>1, <2>2, BumpEffect DEF RefreshBump, AloneInv
    <3>2. QED
      BY <1>1, <1>6, <2>2, <3>1, VersionAbove
  <2>3. QED
    BY <2>1, <2>2 DEF Backend, BackendFails
<1>8. ASSUME NEW d \in Calls, At(d, "read", "refresh")'
      PROVE  call'[d].token.ver = version'
  <2>1. CASE d = c
    <3>1. RefreshRead(c) /\ call'[c].token = call[c].token /\ call'[c].phase = "read"
      BY <1>2, <1>8, <2>1 DEF At
    <3>2. ~Answer(c, 401)
      BY <1>1, <3>1, AnswerEffect
    <3>3. QED
      BY <2>1, <3>1, <3>2 DEF RefreshRead, Current, row
  <2>2. CASE d # c
    <3>1. At(d, "read", "refresh") /\ Busy(d) /\ call'[d] = call[d]
      BY <1>3, <1>8, <2>2 DEF At, Busy, AuthKinds
    <3>2. ~Busy(c)
      BY <2>2, <3>1 DEF AloneInv
    <3>3. version' = version
      BY <1>2, <3>2 DEF Busy
    <3>4. QED
      BY <3>1, <3>3 DEF AloneInv
  <2>3. QED
    BY <2>1, <2>2
<1>9. QED
  BY <1>5, <1>7, <1>8

\* A step of the browser: a new authentication call is the only one, or the
\* history has it that it is not.
LEMMA AloneTab ==
    ASSUME ClientInv, AloneInv, NEW c \in Calls,
           UNCHANGED <<version, exchanged>>,
           \A d \in Calls \ {c} : call'[d] = call[d],
           Requests(c) \/ GivesUp(c) \/ UNCHANGED <<call, crowded>>
    PROVE  AloneInv'
<1>1. CASE UNCHANGED <<call, crowded>>
  BY <1>1 DEF AloneInv, Busy, At
<1>2. CASE Requests(c) \/ GivesUp(c)
  <2>1. ~crowded' => ~crowded /\ (Busy(c)' => \A d \in Calls \ {c} : ~Busy(d))
    BY <1>2 DEF Requests, GivesUp, Busy
  <2>2. ~At(c, "read", "refresh")'
    BY <1>2 DEF Requests, GivesUp, At
  <2>3. \A d \in Calls \ {c} : Busy(d)' = Busy(d) /\ At(d, "read", "refresh")' = At(d, "read", "refresh")
    BY DEF Busy, At
  <2>4. QED
    BY <2>1, <2>2, <2>3 DEF AloneInv
<1>3. QED
  BY <1>1, <1>2

LEMMA AloneStep == ClientInv /\ AloneInv /\ [ClientNext]_clientVars => AloneInv'
<1> SUFFICES ASSUME ClientInv, AloneInv, [ClientNext]_clientVars
             PROVE  AloneInv'
  OBVIOUS
<1>1. ASSUME NEW c \in Calls, TabStep(c)
      PROVE  AloneInv'
  BY <1>1, TabEffect, AloneTab
<1>3. CASE UNCHANGED <<version, exchanged, call, crowded>>
  BY <1>3 DEF AloneInv, Busy, At
<1>4. (\E t \in Tabs : Reload(t)) \/ ClientTick \/ UNCHANGED clientVars
        => UNCHANGED <<version, exchanged, call, crowded>>
  BY DEF Reload, ClientTick, Tick, clientVars, authVars, row, history
<1>5. QED
  BY <1>1, <1>3, <1>4, AloneBackend DEF ClientNext, TabStep

LEMMA AloneInvariant == ClientSpec => []AloneInv
<1>1. ClientInit => AloneInv
  BY DEF ClientInit, Init, AloneInv, Busy, At, IdleCall
<1>2. QED
  BY <1>1, AloneStep, ClientInvariant, PTL DEF ClientSpec

LEMMA ReuseStep ==
    ClientInv /\ AloneInv /\ ReuseNeedsOverlap /\ [ClientNext]_clientVars => ReuseNeedsOverlap'
<1> SUFFICES ASSUME ClientInv, AloneInv, ReuseNeedsOverlap, [ClientNext]_clientVars
             PROVE  ReuseNeedsOverlap'
  OBVIOUS
<1>1. ASSUME NEW c \in Calls, TabStep(c)
      PROVE  ReuseNeedsOverlap'
  BY <1>1, TabEffect DEF ReuseNeedsOverlap, Requests, GivesUp
<1>2. ASSUME NEW c \in Calls, Backend(c) \/ BackendFails(c)
      PROVE  ReuseNeedsOverlap'
  <2>1. UNCHANGED crowded
    BY <1>2 DEF Backend, BackendFails
  <2>2. CASE RefreshBump(c) /\ call[c].token.ver \in exchanged
    <3>1. At(c, "read", "refresh")
      BY <2>2 DEF RefreshBump
    <3>2. version \in Nat
      BY DEF ClientInv, ClientTypeOK, AuthTypeOK
    <3>3. crowded
      BY <2>2, <3>1, <3>2 DEF AloneInv
    <3>4. QED
      BY <2>1, <3>3 DEF ReuseNeedsOverlap
  <2>3. CASE ~(RefreshBump(c) /\ call[c].token.ver \in exchanged)
    BY <1>2, <2>1, <2>3 DEF Backend, BackendFails, ReuseNeedsOverlap
  <2>4. QED
    BY <2>2, <2>3
<1>3. CASE (\E t \in Tabs : Reload(t)) \/ ClientTick \/ UNCHANGED clientVars
  BY <1>3 DEF Reload, ClientTick, clientVars, history, ReuseNeedsOverlap
<1>4. QED
  BY <1>1, <1>2, <1>3 DEF ClientNext, TabStep

\* A refresh token is exchanged a second time only if two authentication calls
\* were in progress at once (refresh/route.ts:46-61 reads and increments in
\* separate statements), for any number of tabs and calls.
THEOREM ReuseIsOverlap == ClientSpec => []ReuseNeedsOverlap
<1>1. ClientInit => ReuseNeedsOverlap
  BY DEF ClientInit, ReuseNeedsOverlap
<1>2. QED
  BY <1>1, ReuseStep, ClientInvariant, AloneInvariant, PTL DEF ClientSpec

-----------------------------------------------------------------------------
(* What the cookie is worth.                                               *)

LiveTokens == {t \in issued : Live(t)}

InJar == {jar} \ {NoToken}

\* What is live while call c is in progress: until it writes, what the cookie
\* says; then nothing; and once it is answered what the answer carries.
LiveDuring(c) ==
    IF call[c].phase = "bumped" THEN call[c].mine = version /\ LiveTokens = {}
    ELSE IF call[c].phase = "answered" /\ call[c].status = 200
    THEN LiveTokens = {call[c].token} \ {NoToken}
    ELSE LiveTokens = InJar

JarInv ==
    ~crowded /\ ~missed =>
        /\ Quiet => LiveTokens = InJar
        /\ \A c \in Calls : Busy(c) => LiveDuring(c)

\* The browser's part of call c: the cookie is set from its answer, or left
\* alone when the call wrote nothing or is on record as missed.
Settles(c) ==
    \/ SetCookie(c) /\ call[c].phase = "answered"
    \/ UNCHANGED jar /\ (~Wrote(c) \/ missed')

\* The browser sends a request or takes an answer: the cookie is what the call
\* before left live, if it wrote, and is left alone otherwise.
LEMMA JarTab ==
    ASSUME ClientInv, AloneInv, JarInv, NEW c \in Calls,
           UNCHANGED <<version, issued>>,
           \A d \in Calls \ {c} : call'[d] = call[d],
           Requests(c) \/ GivesUp(c),
           ~missed' => ~missed, Settles(c)
    PROVE  JarInv'
<1> USE DEF Settles
<1> SUFFICES ASSUME ~crowded', ~missed'
             PROVE  /\ Quiet' => LiveTokens' = InJar'
                    /\ \A d \in Calls : Busy(d)' => LiveDuring(d)'
  BY DEF JarInv
<1>1. ~crowded /\ ~missed /\ (Busy(c)' => \A d \in Calls \ {c} : ~Busy(d))
  <2>1. ~missed
    OBVIOUS
  <2>2. CASE Requests(c)
    BY <2>1, <2>2 DEF Requests, Busy
  <2>3. CASE GivesUp(c)
    BY <2>1, <2>3 DEF GivesUp, Busy
  <2>4. QED
    BY <2>2, <2>3
<1>2. /\ \A d \in Calls \ {c} : Busy(d)' = Busy(d)
      /\ call'[c].phase \in {"idle", "sent"} /\ call[c].phase \in {"idle", "sent", "answered"}
      /\ LiveTokens' = LiveTokens
  BY DEF Requests, GivesUp, Busy, LiveTokens, Live
<1>3. CASE \E d \in Calls \ {c} : Busy(d)
  <2>1. PICK d \in Calls \ {c} : Busy(d)
    BY <1>3
  <2>2. ~Busy(c) /\ LiveDuring(d) /\ ~Quiet'
    BY <1>1, <1>2, <2>1 DEF AloneInv, JarInv, Quiet
  <2>3. jar' = jar
    BY <2>2 DEF SetCookie, Busy
  <2>4. LiveDuring(d)'
    BY <1>2, <2>1, <2>2, <2>3 DEF LiveDuring, InJar
  <2>5. \A e \in Calls : Busy(e)' => e = d
    BY <1>1, <1>2, <2>1 DEF AloneInv
  <2>6. QED
    BY <2>2, <2>4, <2>5
<1>4. CASE \A d \in Calls \ {c} : ~Busy(d)
  <2>1. LiveTokens = InJar'
    <3>1. CASE Busy(c) /\ call[c].phase = "answered" /\ call[c].status = 200
      <4>1. LiveTokens = {call[c].token} \ {NoToken}
        BY <1>1, <3>1 DEF JarInv, LiveDuring
      <4>2. Wrote(c) /\ jar' = call[c].token
        BY <3>1 DEF Wrote, Busy, SetCookie
      <4>3. QED
        BY <4>1, <4>2 DEF InJar
    <3>2. CASE ~(Busy(c) /\ call[c].phase = "answered" /\ call[c].status = 200)
      <4>1. LiveTokens = InJar
        <5>1. CASE Busy(c)
          BY <1>1, <1>2, <3>2, <5>1 DEF JarInv, LiveDuring
        <5>2. CASE ~Busy(c)
          BY <1>1, <1>4, <5>2 DEF JarInv, Quiet
        <5>3. QED
          BY <5>1, <5>2
      <4>2. jar' = jar
        BY <3>2 DEF SetCookie, Busy
      <4>3. QED
        BY <4>1, <4>2 DEF InJar
    <3>3. QED
      BY <3>1, <3>2
  <2>2. \A d \in Calls : Busy(d)' => d = c
    BY <1>2, <1>4
  <2>3. LiveDuring(c)'
    BY <1>2, <2>1 DEF LiveDuring
  <2>4. QED
    BY <1>2, <2>1, <2>2, <2>3
<1>5. QED
  BY <1>3, <1>4

LEMMA ReadPhase ==
    ASSUME AuthTypeOK, NEW c \in Calls, LoginFind(c) \/ RefreshRead(c)
    PROVE  call'[c].phase = "read" \/ Answer(c, 401)
<1>1. CASE LoginFind(c)
  <2>1. call' = [call EXCEPT ![c] = [call[c] EXCEPT !.phase = "read", !.seenFailed = failed,
                                                    !.seenLocked = locked]]
    BY <1>1 DEF LoginFind, AuthTypeOK
  <2>2. QED
    BY <2>1 DEF AuthTypeOK, CallRecord
<1>2. CASE RefreshRead(c)
  <2>1. call' = [call EXCEPT ![c] = [call[c] EXCEPT !.phase = "read"]] \/ Answer(c, 401)
    BY <1>2 DEF RefreshRead, AuthTypeOK
  <2>2. QED
    BY <2>1 DEF AuthTypeOK, CallRecord
<1>3. QED
  BY <1>1, <1>2

\* What a handler's step leaves live.
LEMMA JarBackend ==
    ASSUME ClientInv, AloneInv, VersionInv, JarInv, NEW c \in Calls, Backend(c) \/ BackendFails(c)
    PROVE  JarInv'
<1> SUFFICES ASSUME ~crowded', ~missed'
             PROVE  /\ Quiet' => LiveTokens' = InJar'
                    /\ \A d \in Calls : Busy(d)' => LiveDuring(d)'
  BY DEF JarInv
<1>1. /\ AuthTypeOK /\ CallInv /\ CallStep(c) /\ UNCHANGED <<crowded, jar>>
      /\ Handle(c) \/ HandlerFails(c) \/ LogoutFails(c)
  BY DEF ClientInv, ClientTypeOK, Backend, BackendFails, CallStep
<1>2. /\ call[c].phase \notin {"idle", "answered"} /\ call'[c].phase # "idle"
      /\ call'[c].kind = call[c].kind
      /\ version' # version => version' = version + 1 /\ call[c].kind \in AuthKinds
  BY <1>1, HandlerEffect
<1>3. \A d \in Calls \ {c} : call'[d] = call[d]
  BY <1>1, StepEffect, AuthAssumption
<1>m. (Handle(c) /\ ~missed) \/ (HandlerFails(c) /\ ~missed /\ ~Wrote(c))
  <2>1. CASE Backend(c)
    <3>1. Handle(c) /\ missed' = missed
      BY <2>1 DEF Backend
    <3>2. QED
      BY <3>1
  <2>2. CASE HandlerFails(c) /\ missed' = (missed \/ Wrote(c))
    BY <2>2
  <2>3. CASE missed' = TRUE
    BY <2>3
  <2>4. QED
    BY <2>1, <2>2, <2>3 DEF BackendFails
<1>4. ~crowded /\ ~missed
  BY <1>1, <1>m
<1>5. /\ \A d \in Calls : Busy(d)' = Busy(d)
      /\ InJar' = InJar
  BY <1>1, <1>2, <1>3 DEF Busy, InJar
<1>6. CASE ~Busy(c)
  <2>1. call[c].kind \notin AuthKinds
    BY <1>2, <1>6 DEF Busy
  <2>2. ~Sign(c) /\ version' = version
    BY <1>2, <2>1 DEF Sign, ClientInv, CallInv, AuthKinds
  <2>3. issued' = issued
    BY <1>1, <2>2, StepEffect, AuthAssumption DEF Plain, Revokes, Bumps
  <2>4. LiveTokens' = LiveTokens
    BY <2>2, <2>3 DEF LiveTokens, Live
  <2>5. QED
    BY <1>3, <1>4, <1>5, <1>6, <2>2, <2>4 DEF JarInv, Quiet, LiveDuring
<1>7. CASE Busy(c)
  <2>1. LiveDuring(c) /\ ~Quiet'
    BY <1>4, <1>5, <1>7 DEF JarInv, Quiet
  <2>2. \A d \in Calls : Busy(d)' => d = c
    BY <1>4, <1>5, <1>7 DEF AloneInv
  <2>3. SUFFICES LiveDuring(c)'
    BY <2>1, <2>2
  <2>b. ASSUME version' = version + 1, issued' = issued
        PROVE  LiveTokens' = {}
    <3>1. \A s \in issued : s.ver # version + 1
      BY DEF VersionInv, ClientInv, ClientTypeOK, AuthTypeOK, Token
    <3>2. QED
      BY <2>b, <3>1 DEF LiveTokens, Live
  <2>s. 200 \in Nat /\ 401 \in Nat /\ 423 \in Nat /\ 500 \in Nat
    OBVIOUS
  <2>4. CASE \/ LoginLocked(c) \/ LoginFailure(c) \/ Unauthenticated(c)
             \/ HandlerFails(c) /\ ~Wrote(c)
    <3>1. \E status \in Nat \ {200} : Answer(c, status)
      BY <2>4 DEF LoginLocked, LoginFailure, Unauthenticated, HandlerFails
    <3>2. call'[c].phase = "answered" /\ call'[c].status # 200
      BY <1>1, <3>1, AnswerEffect, AnswerFields
    <3>3. call[c].phase # "bumped"
      <4>1. CASE LoginLocked(c) \/ LoginFailure(c) \/ Unauthenticated(c)
        BY <4>1 DEF LoginLocked, LoginFailure, Unauthenticated, At
      <4>2. CASE ~Wrote(c)
        BY <4>2 DEF Wrote
      <4>3. QED
        BY <2>4, <4>1, <4>2
    <3>4. UNCHANGED <<version, issued>>
      BY <2>4 DEF LoginLocked, LoginFailure, Unauthenticated, HandlerFails, row
    <3>5. QED
      BY <1>2, <1>5, <2>1, <3>2, <3>3, <3>4 DEF LiveDuring, LiveTokens, Live
  <2>5. CASE LoginFind(c) \/ RefreshRead(c)
    <3>1. UNCHANGED <<version, issued>> /\ call[c].phase = "sent"
      BY <2>5 DEF LoginFind, RefreshRead, At, row
    <3>2. call'[c].phase = "read" \/ (call'[c].phase = "answered" /\ call'[c].status # 200)
      <4>1. CASE Answer(c, 401)
        BY <1>1, <2>s, <4>1, AnswerEffect, AnswerFields
      <4>2. QED
        BY <1>1, <2>5, <4>1, ReadPhase
    <3>3. QED
      BY <1>5, <2>1, <3>1, <3>2 DEF LiveDuring, LiveTokens, Live
  <2>6. CASE LoginSuccess(c) \/ RefreshBump(c)
    <3>1. Bump(c) /\ issued' = issued
      BY <2>6 DEF LoginSuccess, RefreshBump
    <3>2. version' = version + 1 /\ call'[c].phase = "bumped" /\ call'[c].mine = version + 1
      BY <1>1, <3>1, BumpEffect
    <3>3. QED
      BY <2>b, <3>1, <3>2 DEF LiveDuring
  <2>7. CASE Sign(c)
    <3> DEFINE token == [ver |-> call[c].mine, exp |-> clock + RefreshTTL]
    <3>1. issued' = issued \cup {token} /\ UNCHANGED version /\ call'[c].phase = "answered"
      BY <1>1, <2>7, SignEffect, AuthAssumption DEF row
    <3>2. call'[c].status = 200 /\ call'[c].token = token
      BY <1>1, <2>7, SignFields
    <3>3. token.ver = version /\ LiveTokens = {}
      BY <2>1, <2>7 DEF LiveDuring, Sign
    <3>4. token # NoToken
      <4>1. token.exp # 0
        BY <1>1, AuthAssumption DEF AuthTypeOK, AuthAssumption
      <4>2. QED
        BY <4>1 DEF NoToken
    <3> HIDE DEF token
    <3>5. LiveTokens' = {token}
      BY <3>1, <3>3 DEF LiveTokens, Live
    <3>6. QED
      BY <3>1, <3>2, <3>4, <3>5 DEF LiveDuring
  <2>8. CASE Logout(c)
    <3>1. Answer(c, 200) /\ version' = version + 1 /\ issued' = issued
      BY <2>8 DEF Logout
    <3>2. call'[c].phase = "answered" /\ call'[c].status = 200 /\ call'[c].token = NoToken
      BY <1>1, <2>s, <3>1, AnswerEffect, AnswerFields
    <3>3. QED
      BY <2>b, <3>1, <3>2 DEF LiveDuring
  <2>9. CASE Serve(c)
    BY <1>7, <2>9 DEF Serve, Busy, AuthKinds
  <2>10. QED
    BY <1>m, <2>4, <2>5, <2>6, <2>7, <2>8, <2>9 DEF Handle
<1>8. QED
  BY <1>6, <1>7

LEMMA FetchMoves ==
    ASSUME ClientInv, NEW c \in Calls, call[c].phase # "sent",
           \E kind \in Kinds, good \in BOOLEAN, exp \in Nat : Fetch(c, kind, good, exp)
    PROVE  call' # call
<1>1. PICK kind \in Kinds, good \in BOOLEAN, exp \in Nat : Fetch(c, kind, good, exp)
  OBVIOUS
<1> DEFINE new == Request(kind, good, IF kind = "refresh" THEN jar ELSE NoToken, exp)
<1>2. new.phase = "sent" /\ call' = [call EXCEPT ![c] = new]
  BY <1>1 DEF Request, IdleCall, Fetch
<1> HIDE DEF new
<1>3. QED
  BY <1>2 DEF ClientInv, ClientTypeOK, AuthTypeOK

LEMMA DropMoves == ASSUME ClientInv, NEW c \in Calls, Drop(c) PROVE call' # call
BY DEF Drop, IdleCall, ClientInv, ClientTypeOK, AuthTypeOK

LEMMA JarStep ==
    ClientInv /\ AloneInv /\ VersionInv /\ JarInv /\ [ClientNext]_clientVars => JarInv'
<1> SUFFICES ASSUME ClientInv, AloneInv, VersionInv, JarInv, [ClientNext]_clientVars
             PROVE  JarInv'
  OBVIOUS
<1>n. ASSUME UNCHANGED <<version, issued, call, jar, crowded>>, ~missed' => ~missed
      PROVE  JarInv'
  BY <1>n DEF JarInv, Quiet, Busy, LiveDuring, LiveTokens, Live, InJar
<1>a. 0 \in Nat /\ (\A t \in Tabs : access[t] \in Nat) /\ (\A c \in Calls : call[c].access \in Nat)
  BY TimesHeard, AuthAssumption DEF ClientInv, ClientTypeOK, AuthTypeOK, CallRecord
<1>1. ASSUME NEW c \in Calls, TabStep(c)
      PROVE  JarInv'
  <2>1. /\ UNCHANGED <<version, issued>>
        /\ \A d \in Calls \ {c} : call'[d] = call[d]
        /\ Requests(c) \/ GivesUp(c) \/ UNCHANGED <<call, crowded>>
    BY <1>1, TabEffect
  <2>2. ASSUME ~missed' => ~missed, Settles(c), call' # call
        PROVE  JarInv'
    BY <2>1, <2>2, JarTab
  <2>3. CASE \E t \in Tabs : BeginLogin(c, t) \/ BeginRequest(c, t) \/ TimerFires(c, t)
    <3>1. UNCHANGED <<jar, missed>> /\ call[c].phase = "idle"
      BY <2>3 DEF BeginLogin, BeginRequest, TimerFires, NewJob, CanBegin
    <3>2. call' # call
      <4> USE DEF Kinds
      <4>1. PICK t \in Tabs : BeginLogin(c, t) \/ BeginRequest(c, t) \/ TimerFires(c, t)
        BY <2>3
      <4>2. \E kind \in Kinds, good \in BOOLEAN, exp \in Nat : Fetch(c, kind, good, exp)
        <5>1. CASE BeginLogin(c, t)
          BY <1>a, <5>1 DEF BeginLogin
        <5>2. CASE BeginRequest(c, t)
          BY <1>a, <5>2 DEF BeginRequest
        <5>3. CASE TimerFires(c, t)
          BY <1>a, <5>3 DEF TimerFires
        <5>4. QED
          BY <4>1, <5>1, <5>2, <5>3
      <4>3. QED
        BY <3>1, <4>2, FetchMoves
    <3>3. (~missed' => ~missed) /\ Settles(c)
      BY <3>1 DEF Settles, Wrote
    <3>4. QED
      BY <2>2, <3>2, <3>3
  <2>4. CASE Unauthorized(c)
    <3>1. UNCHANGED <<jar, missed>> /\ call[c].phase = "answered" /\ call[c].status = 401
      BY <2>4 DEF Unauthorized, Waiting
    <3>2. call' # call
      <4>1. Fetch(c, "refresh", FALSE, 0)
        BY <2>4 DEF Unauthorized
      <4>2. \E kind \in Kinds, good \in BOOLEAN, exp \in Nat : Fetch(c, kind, good, exp)
        BY <1>a, <4>1 DEF Kinds
      <4>3. QED
        BY <3>1, <4>2, FetchMoves
    <3>3. (~missed' => ~missed) /\ Settles(c)
      BY <3>1 DEF Settles, Wrote
    <3>4. QED
      BY <2>2, <3>2, <3>3
  <2>5. CASE Refreshed(c)
    <3>1. SetCookie(c) /\ call[c].phase = "answered" /\ (~missed' => ~missed)
      BY <2>5 DEF Refreshed, Waiting
    <3>2. call' # call
      <4>1. job[c].kind \in Kinds /\ job[c].good \in BOOLEAN
        BY <2>5 DEF JobRecord, Refreshed, ClientInv, ClientTypeOK
      <4>2. Fetch(c, job[c].kind, job[c].good, call[c].access)
        BY <2>5 DEF Refreshed
      <4>3. QED
        BY <1>a, <3>1, <4>1, <4>2, FetchMoves
    <3>3. Settles(c)
      BY <3>1 DEF Settles
    <3>4. QED
      BY <2>2, <3>1, <3>2, <3>3
  <2>6. CASE Answered(c) \/ TimerRefreshed(c) \/ RefreshRefused(c)
    <3>1. SetCookie(c) /\ call[c].phase = "answered" /\ (~missed' => ~missed) /\ Drop(c)
      BY <2>6 DEF Answered, TimerRefreshed, RefreshRefused, Waiting, TakeAnswer, Drop
    <3>2. call' # call
      BY <3>1, DropMoves
    <3>3. Settles(c)
      BY <3>1 DEF Settles
    <3>4. QED
      BY <2>2, <3>1, <3>2, <3>3
  <2>7. CASE AnswerLost(c) \/ FetchFails(c)
    <3>1. UNCHANGED <<jar, crowded>> /\ missed' = (missed \/ Wrote(c)) /\ (Drop(c) \/ UNCHANGED authVars)
      BY <2>7 DEF AnswerLost, FetchFails
    <3>2. (~missed' => ~missed) /\ Settles(c)
      BY <3>1 DEF Settles
    <3>3. CASE call' # call
      BY <2>2, <3>1, <3>2, <3>3
    <3>4. CASE call' = call
      BY <1>n, <2>1, <3>1, <3>2, <3>4
    <3>5. QED
      BY <3>3, <3>4
  <2>8. QED
    BY <1>1, <2>3, <2>4, <2>5, <2>6, <2>7 DEF TabStep, Continue
<1>2. CASE (\E t \in Tabs : Reload(t)) \/ ClientTick \/ UNCHANGED clientVars
  BY <1>2, <1>n DEF Reload, ClientTick, Tick, clientVars, authVars, row, history
<1>3. QED
  BY <1>1, <1>2, JarBackend DEF ClientNext, TabStep

\* As long as authentication calls do not overlap and no answer is missed, the
\* browser's cookie is the one live token whenever none is in progress, and
\* without a cookie none is live (refresh/route.ts:38-61, logout/route.ts:20,
\* api-client.ts:79), for any number of tabs and calls and any lifetimes.
THEOREM JarIsLive == ClientSpec => []JarIsCurrent
<1>1. ClientInit => JarInv
  BY DEF ClientInit, Init, JarInv, Busy, IdleCall, LiveTokens, InJar
<1>2. JarInv => JarIsCurrent
  BY DEF JarInv, JarIsCurrent, LiveTokens, InJar
<1>3. ClientSpec => []VersionInv
  BY ClientIsAuth, VersionAlways, PTL
<1>4. QED
  BY <1>1, <1>2, <1>3, JarStep, ClientInvariant, AloneInvariant, PTL DEF ClientSpec

================================================================================
