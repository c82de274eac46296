--------------------------- MODULE AuthTokensProofs ---------------------------
(***************************************************************************)
(* What holds of the backend's authentication for every number of calls,   *)
(* every limit and every lifetime, whatever its clients send.              *)
(***************************************************************************)
EXTENDS AuthTokens, TLAPS

\* A version is handed out once: to one token, or to one call about to sign it.
VersionInv ==
    /\ \A t \in issued : t.ver <= version
    /\ \A s, t \in issued : s.ver = t.ver => s = t
    /\ \A c \in Calls : call[c].phase = "bumped" => call[c].mine <= version
    /\ \A c \in Calls : call[c].phase = "bumped" =>
         \A t \in issued : t.ver # call[c].mine
    /\ \A c, d \in Calls : call[c].phase = "bumped" /\ call[d].phase = "bumped"
                          /\ call[c].mine = call[d].mine => c = d

\* What a login read of the row was a row like that of LockInv.
SeenInv ==
    \A c \in Calls : At(c, "read", "login") =>
        /\ call[c].seenFailed <= MaxFailed
        /\ call[c].seenFailed = MaxFailed => call[c].seenLocked # 0
        /\ call[c].seenLocked <= clock

-----------------------------------------------------------------------------
(* The shapes a call's record takes.                                       *)

LEMMA IdleCallType == IdleCall \in CallRecord
BY DEF IdleCall, CallRecord, Kinds, Token, NoToken

\* What a call that is answered with tokens looks like.
SignedTokens(r, kind, token, access) ==
    [r EXCEPT !.phase = "answered", !.kind = kind, !.status = 200,
              !.token = token, !.access = access]

LEMMA SignedTokensType ==
    ASSUME NEW r \in CallRecord, NEW kind \in Kinds, NEW token \in Token, NEW access \in Nat
    PROVE  SignedTokens(r, kind, token, access) \in CallRecord
           /\ SignedTokens(r, kind, token, access).phase = "answered"
BY ZenonT(60) DEF SignedTokens, CallRecord

\* Answering touches one record: no other call changes.
LEMMA AnswerEffect ==
    ASSUME AuthTypeOK, NEW c \in Calls, NEW status \in Nat, Answer(c, status)
    PROVE  /\ call' \in [Calls -> CallRecord]
           /\ call'[c].phase = "answered"
           /\ \A d \in Calls \ {c} : call'[d] = call[d]
<1>1. [IdleCall EXCEPT !.phase = "answered", !.kind = call[c].kind, !.status = status] \in CallRecord
  BY DEF AuthTypeOK, IdleCall, CallRecord, Kinds, Token, NoToken
<1>2. [IdleCall EXCEPT !.phase = "answered", !.kind = call[c].kind, !.status = status].phase = "answered"
  BY DEF IdleCall
<1> QED BY <1>1, <1>2 DEF AuthTypeOK, Answer

\* Bumping marks the call with the version it wrote.
LEMMA BumpEffect ==
    ASSUME AuthTypeOK, NEW c \in Calls, Bump(c)
    PROVE  /\ version' = version + 1
           /\ call' \in [Calls -> CallRecord]
           /\ call'[c].phase = "bumped" /\ call'[c].mine = version + 1
           /\ \A d \in Calls \ {c} : call'[d] = call[d]
<1>1. version + 1 \in Nat
  BY DEF AuthTypeOK
<1>2. [call[c] EXCEPT !.phase = "bumped", !.mine = version + 1] \in CallRecord
  BY <1>1 DEF AuthTypeOK, CallRecord
<1>3. call' = [call EXCEPT ![c] = [call[c] EXCEPT !.phase = "bumped", !.mine = version + 1]]
  BY DEF Bump, AuthTypeOK
<1>4. [call[c] EXCEPT !.phase = "bumped", !.mine = version + 1].phase = "bumped"
      /\ [call[c] EXCEPT !.phase = "bumped", !.mine = version + 1].mine = version + 1
  BY DEF AuthTypeOK, CallRecord
<1> QED BY <1>1, <1>2, <1>3, <1>4 DEF AuthTypeOK, Bump

\* Reading keeps everything but the phase and what was seen.
LEMMA ReadEffect ==
    ASSUME AuthTypeOK, NEW c \in Calls, LoginFind(c) \/ RefreshRead(c)
    PROVE  /\ call' \in [Calls -> CallRecord]
           /\ call'[c].phase \in {"read", "answered"}
           /\ \A d \in Calls \ {c} : call'[d] = call[d]
           /\ UNCHANGED <<clock, row, issued>>
<1>1. CASE LoginFind(c)
  <2>1. call' = [call EXCEPT ![c] = [call[c] EXCEPT !.phase = "read", !.seenFailed = failed,
                                                    !.seenLocked = locked]]
    BY <1>1 DEF LoginFind, AuthTypeOK
  <2>2. [call[c] EXCEPT !.phase = "read", !.seenFailed = failed, !.seenLocked = locked] \in CallRecord
    BY DEF AuthTypeOK, CallRecord
  <2>3. [call[c] EXCEPT !.phase = "read", !.seenFailed = failed, !.seenLocked = locked].phase = "read"
    BY DEF AuthTypeOK, CallRecord
  <2> QED BY <1>1, <2>1, <2>2, <2>3 DEF LoginFind, AuthTypeOK
<1>2. CASE RefreshRead(c)
  <2>1. CASE Current(call[c].token)
    <3>1. call' = [call EXCEPT ![c] = [call[c] EXCEPT !.phase = "read"]]
      BY <1>2, <2>1 DEF RefreshRead, AuthTypeOK
    <3>2. [call[c] EXCEPT !.phase = "read"] \in CallRecord
          /\ [call[c] EXCEPT !.phase = "read"].phase = "read"
      BY DEF AuthTypeOK, CallRecord
    <3> QED BY <1>2, <3>1, <3>2 DEF RefreshRead, AuthTypeOK
  <2>2. CASE ~Current(call[c].token)
    BY <1>2, <2>2, AnswerEffect DEF RefreshRead
  <2> QED BY <2>1, <2>2
<1> QED BY <1>1, <1>2

\* Signing issues one token, with the call's version, and answers.
LEMMA SignEffect ==
    ASSUME AuthAssumption, AuthTypeOK, NEW c \in Calls, Sign(c)
    PROVE  /\ call[c].phase = "bumped"
           /\ call' \in [Calls -> CallRecord]
           /\ call'[c].phase = "answered"
           /\ \A d \in Calls \ {c} : call'[d] = call[d]
           /\ [ver |-> call[c].mine, exp |-> clock + RefreshTTL] \in Token
           /\ issued' = issued \cup {[ver |-> call[c].mine, exp |-> clock + RefreshTTL]}
           /\ UNCHANGED <<clock, row>>
<1> DEFINE token == [ver |-> call[c].mine, exp |-> clock + RefreshTTL]
           answer == SignedTokens(IdleCall, call[c].kind, token, clock + AccessTTL)
<1>1. token \in Token
  BY DEF AuthTypeOK, AuthAssumption, Token, CallRecord
<1>2. clock + AccessTTL \in Nat
  BY DEF AuthTypeOK, AuthAssumption
<1>3. answer \in CallRecord /\ answer.phase = "answered"
  <2> HIDE DEF token
  <2>1. call[c].kind \in Kinds
    BY DEF AuthTypeOK, CallRecord
  <2>2. QED
    BY IdleCallType, SignedTokensType, <1>1, <1>2, <2>1
<1>4. call' = [call EXCEPT ![c] = answer] /\ issued' = issued \cup {token}
  BY DEF Sign, SignedTokens
<1>5. call[c].phase = "bumped" /\ UNCHANGED <<clock, row>>
  BY DEF Sign
<1> HIDE DEF token, answer
<1>6. call' \in [Calls -> CallRecord] /\ call'[c].phase = "answered"
      /\ \A d \in Calls \ {c} : call'[d] = call[d]
  BY <1>3, <1>4 DEF AuthTypeOK
<1> QED BY <1>1, <1>4, <1>5, <1>6 DEF token

\* A client replaces one record by a fresh one.
LEMMA ClientEffect ==
    ASSUME AuthAssumption, AuthTypeOK, NEW c \in Calls, Send(c) \/ Drop(c)
    PROVE  /\ call' \in [Calls -> CallRecord]
           /\ call'[c].phase \in {"idle", "sent"}
           /\ \A d \in Calls \ {c} : call'[d] = call[d]
           /\ UNCHANGED <<clock, row, issued>>
<1>1. CASE Send(c)
  <2>1. PICK kind \in Kinds, good \in BOOLEAN, token \in issued \cup {NoToken},
             access \in 0 .. clock + AccessTTL :
               call' = [call EXCEPT ![c] = Request(kind, good, token, access)]
    BY <1>1 DEF Send
  <2>2. token \in Token /\ access \in Nat
    BY DEF AuthTypeOK, NoToken, Token, AuthAssumption
  <2>3. Request(kind, good, token, access) \in CallRecord
        /\ Request(kind, good, token, access).phase = "sent"
    BY <2>2 DEF Request, IdleCall, CallRecord, Kinds, Token, NoToken
  <2> QED BY <1>1, <2>1, <2>3 DEF Send, AuthTypeOK
<1>2. CASE Drop(c)
  BY <1>2, IdleCallType DEF Drop, AuthTypeOK, IdleCall
<1> QED BY <1>1, <1>2

-----------------------------------------------------------------------------
(* Type correctness.                                                       *)

LEMMA FailureTypes ==
    ASSUME AuthAssumption, AuthTypeOK, NEW c \in Calls, LoginFailure(c)
    PROVE  failed' \in Nat /\ locked' \in Nat
<1>1. call[c].seenFailed + 1 \in Nat /\ clock + LockTime \in Nat
  BY DEF AuthTypeOK, CallRecord, AuthAssumption
<1> QED BY <1>1 DEF LoginFailure, AuthTypeOK

\* Every step of a handler, with what it does to the version and the tokens.
Plain(c) ==
    /\ UNCHANGED <<version, issued>>
    /\ call'[c].phase # "bumped"
Revokes(c) ==
    /\ version' = version + 1
    /\ UNCHANGED issued
    /\ call'[c].phase # "bumped"
Bumps(c) ==
    /\ version' = version + 1
    /\ UNCHANGED issued
    /\ call'[c].phase = "bumped" /\ call'[c].mine = version + 1

CallStep(c) == Handle(c) \/ HandlerFails(c) \/ LogoutFails(c) \/ Send(c) \/ Drop(c)

LEMMA StepEffect ==
    ASSUME AuthAssumption, AuthTypeOK, NEW c \in Calls, CallStep(c)
    PROVE  /\ AuthTypeOK'
           /\ clock' = clock
           /\ \A d \in Calls \ {c} : call'[d] = call[d]
           /\ Plain(c) \/ Revokes(c) \/ Bumps(c) \/ Sign(c)
<1> USE DEF Plain, Revokes, Bumps
<1>s. 200 \in Nat /\ 401 \in Nat /\ 423 \in Nat /\ 500 \in Nat
  OBVIOUS
<1>1. CASE LoginLocked(c) \/ Serve(c) \/ Unauthenticated(c) \/ HandlerFails(c)
  <2>1. (\E status \in Nat : Answer(c, status)) /\ UNCHANGED <<clock, row, issued>>
    BY <1>1, <1>s DEF LoginLocked, Serve, Unauthenticated, HandlerFails
  <2>2. /\ call' \in [Calls -> CallRecord] /\ call'[c].phase = "answered"
        /\ \A d \in Calls \ {c} : call'[d] = call[d]
    BY <2>1, AnswerEffect
  <2> QED BY <2>1, <2>2 DEF AuthTypeOK, row
<1>2. CASE LoginFind(c) \/ RefreshRead(c)
  BY <1>2, ReadEffect DEF AuthTypeOK, row
<1>3. CASE LoginFailure(c)
  <2>1. /\ call' \in [Calls -> CallRecord] /\ call'[c].phase = "answered"
        /\ \A d \in Calls \ {c} : call'[d] = call[d]
    BY <1>3, <1>s, AnswerEffect DEF LoginFailure
  <2>2. UNCHANGED <<clock, version, issued>>
    BY <1>3 DEF LoginFailure
  <2> QED BY <1>3, <2>1, <2>2, FailureTypes DEF AuthTypeOK
<1>4. CASE LoginSuccess(c) \/ RefreshBump(c)
  <2>1. Bump(c) /\ UNCHANGED <<clock, issued>> /\ failed' \in Nat /\ locked' \in Nat
    BY <1>4 DEF LoginSuccess, RefreshBump, AuthTypeOK
  <2> QED BY <2>1, BumpEffect DEF AuthTypeOK
<1>5. CASE Sign(c)
  BY <1>5, SignEffect DEF AuthTypeOK, row
<1>6. CASE Logout(c) \/ LogoutFails(c)
  <2>1. /\ \E status \in Nat : Answer(c, status)
        /\ version' = version + 1 /\ UNCHANGED <<clock, failed, locked, issued>>
    BY <1>6, <1>s DEF Logout, LogoutFails
  <2>2. /\ call' \in [Calls -> CallRecord] /\ call'[c].phase = "answered"
        /\ \A d \in Calls \ {c} : call'[d] = call[d]
    BY <2>1, AnswerEffect
  <2> QED BY <2>1, <2>2 DEF AuthTypeOK
<1>7. CASE Send(c) \/ Drop(c)
  BY <1>7, ClientEffect DEF AuthTypeOK, row
<1> QED BY <1>1, <1>2, <1>3, <1>4, <1>5, <1>6, <1>7 DEF CallStep, Handle

LEMMA TickEffect ==
    ASSUME AuthTypeOK, Tick
    PROVE  AuthTypeOK' /\ UNCHANGED <<version, issued, call>> /\ clock <= clock'
BY DEF AuthTypeOK, Tick, row

LEMMA AuthInit == Init => AuthTypeOK
BY IdleCallType DEF Init, AuthTypeOK

LEMMA AuthTypeStep == AuthTypeOK /\ [Next]_authVars => AuthTypeOK'
<1> SUFFICES ASSUME AuthTypeOK, [Next]_authVars PROVE AuthTypeOK'
  OBVIOUS
<1>1. ASSUME NEW c \in Calls, CallStep(c) PROVE AuthTypeOK'
  BY <1>1, StepEffect, AuthAssumption
<1>2. CASE Tick
  BY <1>2, TickEffect
<1>3. CASE UNCHANGED authVars
  BY <1>3 DEF AuthTypeOK, authVars, row
<1> QED BY <1>1, <1>2, <1>3 DEF Next, CallStep

\* The row, the tokens and every call keep their types.
THEOREM AuthTypes == Spec => []AuthTypeOK
BY AuthTypeStep, AuthInit, PTL DEF Spec

-----------------------------------------------------------------------------
(* One live token.                                                         *)

LEMMA VersionStep ==
    ASSUME AuthAssumption, AuthTypeOK, VersionInv, NEW c \in Calls, CallStep(c)
    PROVE  VersionInv'
<1>e. /\ AuthTypeOK' /\ (\A d \in Calls \ {c} : call'[d] = call[d])
      /\ Plain(c) \/ Revokes(c) \/ Bumps(c) \/ Sign(c)
  BY StepEffect
<1>t. version \in Nat /\ (\A t \in issued : t.ver \in Nat) /\ (\A d \in Calls : call[d].mine \in Nat)
  BY DEF AuthTypeOK, CallRecord, Token
<1>1. CASE Plain(c)
  BY <1>1, <1>e DEF VersionInv, Plain
<1>2. CASE Revokes(c)
  BY <1>2, <1>e, <1>t DEF VersionInv, Revokes
<1>3. CASE Bumps(c)
  BY <1>3, <1>e, <1>t DEF VersionInv, Bumps
<1>4. CASE Sign(c)
  <2> DEFINE token == [ver |-> call[c].mine, exp |-> clock + RefreshTTL]
  <2>1. /\ call[c].phase = "bumped" /\ call'[c].phase = "answered"
        /\ issued' = issued \cup {token} /\ version' = version
    BY <1>4, SignEffect DEF row
  <2>2. token.ver = call[c].mine
    OBVIOUS
  <2> HIDE DEF token
  <2> QED BY <1>e, <1>t, <2>1, <2>2 DEF VersionInv
<1> QED BY <1>e, <1>1, <1>2, <1>3, <1>4

LEMMA VersionStepNext == AuthAssumption /\ AuthTypeOK /\ VersionInv /\ [Next]_authVars => VersionInv'
<1> SUFFICES ASSUME AuthAssumption, AuthTypeOK, VersionInv, [Next]_authVars PROVE VersionInv'
  OBVIOUS
<1>1. ASSUME NEW c \in Calls, CallStep(c) PROVE VersionInv'
  BY <1>1, VersionStep
<1>2. CASE Tick
  BY <1>2, TickEffect DEF VersionInv
<1>3. CASE UNCHANGED authVars
  BY <1>3 DEF VersionInv, authVars, row
<1> QED BY <1>1, <1>2, <1>3 DEF Next, CallStep

LEMMA VersionInit == Init => VersionInv
BY DEF Init, VersionInv, IdleCall

LEMMA VersionAlways == Spec => []VersionInv
BY AuthTypes, VersionInit, VersionStepNext, AuthAssumption, PTL DEF Spec

\* However logins, refreshes and logouts overlap, at most one of all the refresh
\* tokens signed for a user passes the version check.
THEOREM OneLiveTokenAlways == Spec => []OneLiveToken
<1>1. VersionInv => OneLiveToken
  BY DEF VersionInv, OneLiveToken, Live
<1> QED BY <1>1, VersionAlways, PTL

-----------------------------------------------------------------------------
(* Rotation: the backend implements TokenChain.                            *)

LiveVers == {t.ver : t \in {s \in issued : Live(s)}}
DeadVers == {t.ver : t \in {s \in issued : ~Live(s)}}

LEMMA ChainStep ==
    ASSUME AuthAssumption, AuthTypeOK, VersionInv, NEW c \in Calls, CallStep(c)
    PROVE  Chain!Next \/ (LiveVers' = LiveVers /\ DeadVers' = DeadVers)
<1>t. version \in Nat /\ (\A t \in issued : t.ver \in Nat /\ t.ver <= version)
  BY DEF AuthTypeOK, Token, VersionInv
<1>1. CASE Plain(c)
  BY <1>1 DEF Plain, LiveVers, DeadVers, Live
<1>2. CASE Revokes(c) \/ Bumps(c)
  <2>1. version' = version + 1 /\ issued' = issued
    BY <1>2 DEF Revokes, Bumps
  <2>2. \A t \in issued : t.ver # version'
    BY <1>t, <2>1
  <2>3. LiveVers' = {}
    BY <2>1, <2>2 DEF LiveVers, Live
  <2>4. DeadVers' = DeadVers \cup LiveVers
    BY <2>1, <2>2 DEF LiveVers, DeadVers, Live
  <2> QED BY <2>3, <2>4 DEF Chain!Next, Chain!Revoke, LiveVers, DeadVers
<1>3. CASE Sign(c)
  <2> DEFINE token == [ver |-> call[c].mine, exp |-> clock + RefreshTTL]
  <2>1. issued' = issued \cup {token} /\ version' = version /\ token.ver = call[c].mine
    BY <1>3, SignEffect DEF row
  <2>2. \A t \in issued : t.ver # token.ver
    BY <1>3, <2>1, SignEffect DEF VersionInv
  <2> HIDE DEF token
  <2>3. CASE token.ver = version
    <3>1. LiveVers = {} /\ DeadVers' = DeadVers /\ LiveVers' = {token.ver} /\ token.ver \notin DeadVers
      BY <2>1, <2>2, <2>3 DEF LiveVers, DeadVers, Live
    <3> QED BY <3>1 DEF Chain!Next, Chain!IssueLive, LiveVers, DeadVers
  <2>4. CASE token.ver # version
    <3>1. LiveVers' = LiveVers
      BY <2>1, <2>4 DEF LiveVers, Live
    <3>2. DeadVers' = DeadVers \cup {token.ver} /\ token.ver \notin LiveVers \cup DeadVers
      BY <2>1, <2>2, <2>4 DEF DeadVers, LiveVers, Live
    <3> QED BY <3>1, <3>2 DEF Chain!Next, Chain!IssueDead, LiveVers, DeadVers
  <2> QED BY <2>3, <2>4
<1> QED BY <1>1, <1>2, <1>3, StepEffect

\* A refresh token is live at most once, and one that was rotated or revoked never
\* passes the version check again: the endpoints implement TokenChain.
THEOREM TokensRotateAlways == Spec => TokensRotate
<1>1. Init => Chain!Init
  BY DEF Init, Chain!Init
<1>2. AuthAssumption /\ AuthTypeOK /\ VersionInv /\ [Next]_authVars
        => [Chain!Next]_<<LiveVers, DeadVers>>
  <2> SUFFICES ASSUME AuthAssumption, AuthTypeOK, VersionInv, [Next]_authVars
               PROVE  Chain!Next \/ (LiveVers' = LiveVers /\ DeadVers' = DeadVers)
    OBVIOUS
  <2>1. ASSUME NEW c \in Calls, CallStep(c)
        PROVE  Chain!Next \/ (LiveVers' = LiveVers /\ DeadVers' = DeadVers)
    BY <2>1, ChainStep
  <2>2. CASE Tick
    BY <2>2 DEF Tick, row, LiveVers, DeadVers, Live
  <2>3. CASE UNCHANGED authVars
    BY <2>3 DEF authVars, row, LiveVers, DeadVers, Live
  <2> QED BY <2>1, <2>2, <2>3 DEF Next, CallStep
<1>3. AuthAssumption /\ AuthTypeOK /\ VersionInv /\ [Next]_authVars
        => [Chain!Next]_<<{t.ver : t \in {s \in issued : Live(s)}},
                          {t.ver : t \in {s \in issued : ~Live(s)}}>>
  BY <1>2 DEF LiveVers, DeadVers
<1> QED BY <1>1, <1>3, AuthTypes, VersionAlways, AuthAssumption, PTL DEF Spec, TokensRotate, Chain!Spec

-----------------------------------------------------------------------------
(* The lock-out counter.                                                   *)

LEMMA SeenStep ==
    ASSUME AuthAssumption, AuthTypeOK, LockInv, SeenInv, NEW c \in Calls, CallStep(c)
    PROVE  LockInv' /\ SeenInv'
<1>e. AuthTypeOK' /\ clock' = clock /\ (\A d \in Calls \ {c} : call'[d] = call[d])
  BY StepEffect
<1>o. SUFFICES LockInv' /\ (At(c, "read", "login")' =>
                     /\ call'[c].seenFailed <= MaxFailed
                     /\ call'[c].seenFailed = MaxFailed => call'[c].seenLocked # 0
                     /\ call'[c].seenLocked <= clock)
  BY <1>e DEF SeenInv, At
<1>1. CASE LoginFind(c)
  <2>1. call' = [call EXCEPT ![c] = [call[c] EXCEPT !.phase = "read", !.seenFailed = failed,
                                                    !.seenLocked = locked]]
        /\ locked <= clock /\ UNCHANGED row
    BY <1>1 DEF LoginFind, AuthTypeOK
  <2>2. call'[c].seenFailed = failed /\ call'[c].seenLocked = locked
    BY <2>1 DEF AuthTypeOK, CallRecord
  <2> QED BY <2>1, <2>2 DEF LockInv, row
<1>2. CASE LoginFailure(c)
  <2>1. /\ call[c].seenFailed <= MaxFailed
        /\ call[c].seenFailed = MaxFailed => call[c].seenLocked # 0
        /\ call[c].seenLocked <= clock
    BY <1>2 DEF SeenInv, LoginFailure
  <2>2. call[c].seenFailed \in Nat /\ clock \in Nat /\ MaxFailed \in Nat \ {0, 1} /\ LockTime \in Nat \ {0}
    BY DEF AuthTypeOK, CallRecord, AuthAssumption
  <2>3. LockInv'
    BY <1>2, <2>1, <2>2 DEF LoginFailure, LockInv
  <2>4. call'[c].phase = "answered"
    BY <1>2, AnswerEffect DEF LoginFailure
  <2> QED BY <2>3, <2>4 DEF At
<1>3. CASE LoginSuccess(c)
  BY <1>3, BumpEffect DEF LoginSuccess, LockInv, At, AuthAssumption
<1>4. CASE ~LoginFind(c) /\ ~LoginFailure(c) /\ ~LoginSuccess(c)
  <2>1. UNCHANGED <<failed, locked>> /\ ~At(c, "read", "login")'
    <3>1. CASE LoginLocked(c) \/ Serve(c) \/ Unauthenticated(c) \/ HandlerFails(c) \/ Logout(c) \/ LogoutFails(c)
      <4>1. (\E status \in Nat : Answer(c, status)) /\ UNCHANGED <<failed, locked>>
        BY <3>1 DEF LoginLocked, Serve, Unauthenticated, HandlerFails, Logout, LogoutFails, row
      <4> QED BY <4>1, AnswerEffect DEF At
    <3>2. CASE RefreshBump(c)
      BY <3>2, BumpEffect DEF RefreshBump, At
    <3>3. CASE Sign(c)
      BY <3>3, SignEffect DEF row, At
    <3>4. CASE Send(c) \/ Drop(c)
      BY <3>4, ClientEffect DEF row, At
    <3>5. CASE RefreshRead(c)
      <4>1. CASE Answer(c, 401)
        BY <3>5, <4>1, AnswerEffect DEF RefreshRead, row, At
      <4>2. CASE call' = [call EXCEPT ![c].phase = "read"]
        <5>1. call'[c].kind = "refresh"
          BY <3>5, <4>2 DEF RefreshRead, At, AuthTypeOK, CallRecord
        <5> QED BY <3>5, <5>1 DEF RefreshRead, row, At
      <4> QED BY <3>5, <4>1, <4>2 DEF RefreshRead
    <3> QED BY <1>4, <3>1, <3>2, <3>3, <3>4, <3>5 DEF CallStep, Handle
  <2> QED BY <2>1 DEF LockInv
<1> QED BY <1>1, <1>2, <1>3, <1>4

\* However failed logins overlap, the counter never passes the limit and never shows
\* the limit without a lock.
THEOREM LockInvAlways == Spec => []LockInv
<1>1. AuthAssumption /\ Init => LockInv /\ SeenInv
  BY DEF Init, LockInv, SeenInv, IdleCall, At, AuthAssumption
<1>2. AuthAssumption /\ AuthTypeOK /\ LockInv /\ SeenInv /\ [Next]_authVars => LockInv' /\ SeenInv'
  <2> SUFFICES ASSUME AuthAssumption, AuthTypeOK, LockInv, SeenInv, [Next]_authVars
               PROVE  LockInv' /\ SeenInv'
    OBVIOUS
  <2>1. ASSUME NEW c \in Calls, CallStep(c) PROVE LockInv' /\ SeenInv'
    BY <2>1, SeenStep
  <2>2. CASE Tick
    <3>1. LockInv'
      BY <2>2 DEF Tick, LockInv, row
    <3>2. \A d \in Calls : call[d].seenLocked \in Nat
      BY DEF AuthTypeOK, CallRecord
    <3>3. clock \in Nat /\ clock' = clock + 1 /\ call' = call
      BY <2>2 DEF Tick, AuthTypeOK
    <3> QED BY <3>1, <3>2, <3>3 DEF SeenInv, At
  <2>3. CASE UNCHANGED authVars
    BY <2>3 DEF LockInv, SeenInv, At, authVars, row
  <2> QED BY <2>1, <2>2, <2>3 DEF Next, CallStep
<1> QED BY <1>1, <1>2, AuthTypes, AuthAssumption, PTL DEF Spec

-----------------------------------------------------------------------------
(* Locks stand.                                                            *)

\* No lock reaches further than one made now.
LockBound == locked <= clock + LockTime

\* Only a failed login makes a lock, and only a login ends one.
LEMMA RowStep ==
    ASSUME AuthTypeOK, NEW c \in Calls, CallStep(c)
    PROVE  UNCHANGED locked \/ LoginFailure(c) \/ LoginSuccess(c)
BY DEF CallStep, Handle, LoginLocked, LoginFind, RefreshRead, RefreshBump, Sign, Logout, Serve,
       Unauthenticated, HandlerFails, LogoutFails, Send, Drop, row

LEMMA LockBoundStep == AuthTypeOK /\ LockBound /\ [Next]_authVars => LockBound'
<1> SUFFICES ASSUME AuthTypeOK, LockBound, [Next]_authVars PROVE LockBound'
  OBVIOUS
<1> USE AuthAssumption DEF AuthTypeOK, AuthAssumption, LockBound
<1>1. ASSUME NEW c \in Calls, CallStep(c) PROVE LockBound'
  <2>1. CASE UNCHANGED locked
    BY <1>1, <2>1, StepEffect
  <2>2. CASE LoginFailure(c)
    BY <2>2 DEF LoginFailure
  <2>3. CASE LoginSuccess(c)
    BY <2>3 DEF LoginSuccess
  <2> QED BY <1>1, <2>1, <2>2, <2>3, RowStep
<1>2. CASE Tick
  BY <1>2 DEF Tick, row
<1>3. CASE UNCHANGED authVars
  BY <1>3 DEF authVars, row
<1> QED BY <1>1, <1>2, <1>3 DEF Next, CallStep

\* A failed login whose reading of the row showed no earlier lock leaves a
\* lock that stands as long as one made now.
LEMMA LockStandsStep ==
    AuthTypeOK /\ LockBound /\ [Next]_authVars =>
        (locked > clock /\ locked' < locked =>
           \E c \in Calls : /\ At(c, "read", "login") /\ call'[c].phase # "read"
                            /\ \/ call[c].good
                               \/ call[c].seenLocked \in 1 .. locked - 1)
<1> SUFFICES ASSUME AuthTypeOK, LockBound, [Next]_authVars, locked > clock, locked' < locked
             PROVE  \E c \in Calls : /\ At(c, "read", "login") /\ call'[c].phase # "read"
                                     /\ \/ call[c].good
                                        \/ call[c].seenLocked \in 1 .. locked - 1
  OBVIOUS
<1>t. /\ clock \in Nat /\ locked \in Nat /\ LockTime \in Nat
      /\ \A c \in Calls : call[c].seenLocked \in Nat /\ call[c].seenFailed \in Nat
  BY AuthAssumption DEF AuthTypeOK, AuthAssumption, CallRecord
<1>1. ASSUME NEW c \in Calls, CallStep(c)
      PROVE  /\ At(c, "read", "login") /\ call'[c].phase # "read"
             /\ call[c].good \/ call[c].seenLocked \in 1 .. locked - 1
  <2>1. CASE LoginFailure(c)
    <3>1. call[c].seenLocked # 0 /\ call[c].seenLocked <= clock
      BY <2>1, <1>t DEF LoginFailure, LockBound
    <3>2. call'[c].phase = "answered"
      BY <2>1 DEF LoginFailure, Answer, AuthTypeOK, CallRecord, IdleCall
    <3> QED BY <2>1, <3>1, <3>2, <1>t DEF LoginFailure
  <2>2. CASE LoginSuccess(c)
    <3>1. call'[c].phase = "bumped"
      BY <2>2 DEF LoginSuccess, Bump, AuthTypeOK, CallRecord
    <3> QED BY <2>2, <3>1 DEF LoginSuccess
  <2>3. ~UNCHANGED locked
    BY <1>t
  <2> QED BY <1>1, <2>1, <2>2, <2>3, RowStep
<1>2. ~Tick /\ ~UNCHANGED authVars
  BY <1>t DEF Tick, authVars, row
<1> QED BY <1>1, <1>2 DEF Next, CallStep

\* However logins overlap, a lock that stands is lifted early only by a login
\* that succeeds or by one that had read the row under an earlier lock.
THEOREM LockStandsAlways == Spec => LockStands
<1>1. Init => LockBound
  BY AuthAssumption DEF Init, LockBound, AuthAssumption
<1>2. AuthTypeOK /\ LockBound /\ [Next]_authVars =>
        [locked > clock /\ locked' < locked =>
           \E c \in Calls : /\ At(c, "read", "login") /\ call'[c].phase # "read"
                            /\ \/ call[c].good
                               \/ call[c].seenLocked \in 1 .. locked - 1]_authVars
  BY LockStandsStep
<1> QED BY <1>1, <1>2, LockBoundStep, AuthTypes, PTL DEF Spec, LockStands

-----------------------------------------------------------------------------
(* What a call carries.                                                    *)

\* The access token and the refresh token of a call were given out by these
\* endpoints, and only logins and refreshes take more than one step.
CallInv ==
    /\ clock # 0
    /\ \A c \in Calls :
         /\ call[c].access <= clock + AccessTTL
         /\ call[c].token \in issued \cup {NoToken}
         /\ call[c].phase \in {"read", "bumped"} => call[c].kind \in {"login", "refresh"}

\* An answer that is not signed carries nothing.
LEMMA AnswerFields ==
    ASSUME AuthTypeOK, NEW c \in Calls, NEW status \in Nat, Answer(c, status)
    PROVE  /\ call'[c].kind = call[c].kind /\ call'[c].status = status
           /\ call'[c].token = NoToken /\ call'[c].access = 0
BY DEF Answer, AuthTypeOK, IdleCall

\* A call that goes on carries what it carried.
LEMMA GoesOnFields ==
    ASSUME AuthTypeOK, NEW c \in Calls, LoginFind(c) \/ RefreshRead(c) \/ Bump(c)
    PROVE  \/ /\ call'[c].kind = call[c].kind
              /\ call'[c].token = call[c].token /\ call'[c].access = call[c].access
           \/ Answer(c, 401)
BY DEF LoginFind, RefreshRead, Bump, AuthTypeOK, CallRecord

\* A signed answer carries the token just issued.
LEMMA SignFields ==
    ASSUME AuthTypeOK, NEW c \in Calls, Sign(c)
    PROVE  /\ call'[c].kind = call[c].kind /\ call'[c].status = 200
           /\ call'[c].token = [ver |-> call[c].mine, exp |-> clock + RefreshTTL]
           /\ call'[c].access = clock + AccessTTL
BY DEF Sign, AuthTypeOK, IdleCall

LEMMA CallInvCall ==
    ASSUME AuthTypeOK, CallInv, NEW c \in Calls, CallStep(c)
    PROVE  CallInv'
<1>e. /\ AuthTypeOK' /\ clock' = clock /\ \A d \in Calls \ {c} : call'[d] = call[d]
  BY StepEffect, AuthAssumption
<1>g. issued \subseteq issued'
  BY StepEffect, AuthAssumption DEF Plain, Revokes, Bumps, Sign
<1>t. clock \in Nat /\ AccessTTL \in Nat /\ 0 <= clock + AccessTTL
  BY AuthAssumption DEF AuthTypeOK, AuthAssumption
<1>o. SUFFICES /\ call'[c].access <= clock + AccessTTL
               /\ call'[c].token \in issued' \cup {NoToken}
               /\ call'[c].phase \in {"read", "bumped"} => call'[c].kind \in {"login", "refresh"}
  BY <1>e, <1>g DEF CallInv
<1>s. 200 \in Nat /\ 401 \in Nat /\ 423 \in Nat /\ 500 \in Nat
  OBVIOUS
<1>0. ASSUME NEW status \in Nat, Answer(c, status)
      PROVE  /\ call'[c].access <= clock + AccessTTL
             /\ call'[c].token \in issued' \cup {NoToken}
             /\ call'[c].phase = "answered"
  BY <1>0, <1>t, AnswerEffect, AnswerFields
<1>1. CASE LoginLocked(c) \/ LoginFailure(c) \/ Logout(c) \/ Serve(c) \/ Unauthenticated(c)
           \/ HandlerFails(c) \/ LogoutFails(c)
  <2>1. \E status \in Nat : Answer(c, status)
    BY <1>1, <1>s DEF LoginLocked, LoginFailure, Logout, Serve, Unauthenticated, HandlerFails, LogoutFails
  <2> QED BY <2>1, <1>0
<1>2. CASE LoginFind(c) \/ RefreshRead(c) \/ LoginSuccess(c) \/ RefreshBump(c)
  <2>1. (LoginFind(c) \/ RefreshRead(c) \/ Bump(c)) /\ call[c].kind \in {"login", "refresh"}
    BY <1>2 DEF LoginFind, RefreshRead, LoginSuccess, RefreshBump, At
  <2> QED BY <2>1, <1>s, <1>0, <1>g, GoesOnFields DEF CallInv
<1>3. CASE Sign(c)
  <2>0. /\ call'[c].access = clock + AccessTTL
        /\ call'[c].token = [ver |-> call[c].mine, exp |-> clock + RefreshTTL]
    BY <1>3, SignFields
  <2>1. call'[c].access <= clock + AccessTTL
    BY <2>0, <1>t
  <2>2. call'[c].token \in issued'
    BY <2>0, <1>3 DEF Sign
  <2>3. call'[c].phase = "answered"
    BY <1>3, SignEffect, AuthAssumption
  <2> QED BY <2>1, <2>2, <2>3
<1>4. CASE Send(c)
  BY <1>4, <1>t, <1>g DEF Send, Request, IdleCall, AuthTypeOK
<1>5. CASE Drop(c)
  BY <1>5, <1>t DEF Drop, IdleCall, AuthTypeOK
<1> QED BY <1>1, <1>2, <1>3, <1>4, <1>5 DEF CallStep, Handle

LEMMA CallInvStep == AuthTypeOK /\ CallInv /\ [Next]_authVars => CallInv'
<1> SUFFICES ASSUME AuthTypeOK, CallInv, [Next]_authVars PROVE CallInv'
  OBVIOUS
<1>1. ASSUME NEW c \in Calls, CallStep(c) PROVE CallInv'
  BY <1>1, CallInvCall
<1>2. CASE Tick
  <2>1. \A c \in Calls : call[c].access \in Nat
    BY DEF AuthTypeOK, CallRecord
  <2> QED BY <1>2, <2>1, AuthAssumption DEF Tick, CallInv, row, AuthTypeOK, AuthAssumption
<1>3. CASE UNCHANGED authVars
  BY <1>3 DEF authVars, CallInv
<1> QED BY <1>1, <1>2, <1>3 DEF Next, CallStep

LEMMA CallInvInit == Init => CallInv
BY AuthAssumption DEF Init, CallInv, IdleCall, NoToken, AuthAssumption

===============================================================================
