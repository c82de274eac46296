-------------------------- MODULE ControlLeaseProofs --------------------------
(***************************************************************************)
(* Theorems about ControlLease, for any sets of users, sessions, requests  *)
(* and calls, any permissions and any lease time.                          *)
(***************************************************************************)
EXTENDS ControlLease, TLAPS

(***************************************************************************)
(* Type correctness.                                                       *)
(***************************************************************************)
\* A new lease is a row of the table.
LEMMA NewLeaseType ==
    ASSUME TypeOK, NEW u \in Users \cup {Nobody}, NEW s \in Sessions \cup {Nobody},
           NEW t \in Nat
    PROVE  NewLease(u, s, t) \in LeaseRow
BY ConstantsAssumption DEF TypeOK, NewLease, LeaseRow, LeaseStatus

\* A request that was received is one clients may make.
LEMMA CallType ==
    ASSUME TypeOK, NEW r \in Requests
    PROVE  /\ call[r].user \in Users \cup {Nobody}
           /\ call[r].target \in Users \cup {Nobody}
           /\ call[r].session \in Sessions \cup {Nobody}
BY ConstantsAssumption DEF TypeOK, Call, NoCall

\* A change of status keeps a row a row.
LEMMA StatusType ==
    ASSUME NEW row \in LeaseRow, NEW st \in LeaseStatus
    PROVE  [row EXCEPT !.status = st] \in LeaseRow
BY DEF LeaseRow

\* Moving a handler on keeps pc and answer in their types.
LEMMA GotoType ==
    ASSUME TypeOK, NEW r \in Requests, NEW l \in Labels, Goto(r, l)
    PROVE  pc' \in [Requests -> Labels] /\ answer' \in [Requests -> Answers]
BY DEF TypeOK, Goto

\* So does answering its request.
LEMMA ReturnType ==
    ASSUME TypeOK, NEW r \in Requests, NEW a \in Answers, Return(r, a)
    PROVE  pc' \in [Requests -> Labels] /\ answer' \in [Requests -> Answers]
BY DEF TypeOK, Return, Labels

\* Every action keeps all types.
LEMMA TypeStep == TypeOK /\ [Next]_vars => TypeOK'
<1> SUFFICES ASSUME TypeOK, [Next]_vars
             PROVE  TypeOK'
  OBVIOUS
<1> USE ConstantsAssumption DEF TypeOK, table, locals, Goto, Return, Labels, Answers, Ops
<1>1. ASSUME NEW r \in Requests, NEW c \in Calls, Receive(r, c)
      PROVE  TypeOK'
  BY <1>1 DEF Receive, Call
<1>2. ASSUME NEW r \in Requests, ClaimPermission(r)
      PROVE  TypeOK'
  BY <1>2 DEF ClaimPermission
<1>3. ASSUME NEW r \in Requests, ClaimSession(r)
      PROVE  TypeOK'
  <2>1. CASE call[r].session \in Sessions
    <3>1. now' \in [Requests -> Nat]
      BY <1>3, <2>1 DEF ClaimSession
    <3>2. pc' \in [Requests -> Labels] /\ answer' \in [Requests -> Answers]
      BY <1>3, <2>1, GotoType DEF ClaimSession
    <3>3. QED
      BY <1>3, <3>1, <3>2 DEF ClaimSession
  <2>2. CASE call[r].session \notin Sessions
    BY <1>3, <2>2 DEF ClaimSession
  <2>3. QED
    BY <2>1, <2>2
<1>4. ASSUME NEW r \in Requests, ClaimBegin(r)
      PROVE  TypeOK'
  BY <1>4 DEF ClaimBegin
<1>5. ASSUME NEW r \in Requests, ClaimLock(r)
      PROVE  TypeOK'
  BY <1>5 DEF ClaimLock
<1>6. ASSUME NEW r \in Requests, ClaimDeny(r)
      PROVE  TypeOK'
  BY <1>6 DEF ClaimDeny, Unlock
<1>7. ASSUME NEW r \in Requests, ClaimCommit(r)
      PROVE  TypeOK'
  <2>1. NewLease(call[r].user, call[r].session, now[r]) \in LeaseRow
    BY NewLeaseType, CallType
  <2>2. \A p \in Requests : [lease[p] EXCEPT !.status = "RELEASED"] \in LeaseRow
    BY StatusType DEF LeaseStatus
  <2>3. lease' \in [Requests -> LeaseRow]
    BY <1>7, <2>1, <2>2 DEF ClaimCommit
  <2>4. QED
    BY <1>7, <2>3 DEF ClaimCommit, Unlock
<1>8. ASSUME NEW r \in Requests, ClaimRollback(r)
      PROVE  TypeOK'
  BY <1>8 DEF ClaimRollback, Unlock
<1>9. ASSUME NEW r \in Requests, ReleaseFind(r)
      PROVE  TypeOK'
  <2>1. now' \in [Requests -> Nat]
    BY <1>9 DEF ReleaseFind
  <2>2. PICK q \in FindNewest(lease, Unexpired(lease, clock)) :
          \/ Return(r, "not_found") /\ UNCHANGED found
          \/ Return(r, "forbidden") /\ UNCHANGED found
          \/ found' = [found EXCEPT ![r] = q] /\ Goto(r, "release_write")
    BY <1>9 DEF ReleaseFind
  <2>3. q \in Requests \cup {NoRequest}
    BY DEF FindNewest, Newest, Unexpired, Active
  <2>4. /\ found' \in [Requests -> Requests \cup {NoRequest}]
        /\ pc' \in [Requests -> Labels]
        /\ answer' \in [Requests -> Answers]
    <3>1. CASE Return(r, "not_found") /\ UNCHANGED found
      BY <3>1
    <3>2. CASE Return(r, "forbidden") /\ UNCHANGED found
      BY <3>2
    <3>3. CASE found' = [found EXCEPT ![r] = q] /\ Goto(r, "release_write")
      BY <2>3, <3>3
    <3>4. QED
      BY <2>2, <3>1, <3>2, <3>3
  <2>5. QED
    BY <1>9, <2>1, <2>4 DEF ReleaseFind
<1>10. ASSUME NEW r \in Requests, ReleaseWrite(r)
       PROVE  TypeOK'
  <2>1. lease' \in [Requests -> LeaseRow]
    BY <1>10, StatusType DEF ReleaseWrite, LeaseStatus
  <2>2. QED
    BY <1>10, <2>1 DEF ReleaseWrite
<1>11. ASSUME NEW r \in Requests, TakeoverFind(r)
       PROVE  TypeOK'
  BY <1>11 DEF TakeoverFind, FindNewest, Newest, Active
<1>12. ASSUME NEW r \in Requests, TakeoverRevoke(r)
       PROVE  TypeOK'
  <2>1. lease' \in [Requests -> LeaseRow]
    BY <1>12, StatusType DEF TakeoverRevoke, LeaseStatus
  <2>2. QED
    BY <1>12, <2>1 DEF TakeoverRevoke
<1>13. ASSUME NEW r \in Requests, TakeoverVerify(r)
       PROVE  TypeOK'
  BY <1>13 DEF TakeoverVerify
<1>14. ASSUME NEW r \in Requests, TakeoverCreate(r)
       PROVE  TypeOK'
  <2>1. PICK s \in SessionsOf(call[r].target) :
          lease' = [lease EXCEPT ![r] = NewLease(call[r].target, s, now[r])]
    BY <1>14 DEF TakeoverCreate
  <2>2. NewLease(call[r].target, s, now[r]) \in LeaseRow
    BY NewLeaseType, CallType DEF SessionsOf
  <2>3. QED
    BY <1>14, <2>1, <2>2 DEF TakeoverCreate
<1>15. ASSUME NEW r \in Requests, Grant(r)
       PROVE  TypeOK'
  <2>1. call[r].role \in Roles
    BY DEF Call, NoCall, Roles
  <2>2. CASE call[r].target \in Users
    <3>1. perm[call[r].target] \in PermRow
      BY <2>2
    <3>2. [role |-> call[r].role,
           row |-> IF perm[call[r].target].role = "none" THEN r
                   ELSE perm[call[r].target].row] \in PermRow
      BY <2>1, <3>1 DEF PermRow
    <3>3. perm' \in [Users -> PermRow]
      <4>1. perm' = [perm EXCEPT ![call[r].target] =
                       [role |-> call[r].role,
                        row |-> IF perm[call[r].target].role = "none" THEN r
                                ELSE perm[call[r].target].row]]
        BY <1>15, <2>2 DEF Grant
      <4>2. QED
        BY <3>2, <4>1
    <3>4. QED
      BY <1>15, <2>2, <3>3 DEF Grant
  <2>3. CASE call[r].target \notin Users
    BY <1>15, <2>3 DEF Grant
  <2>4. QED
    BY <2>2, <2>3
<1>16. ASSUME NEW r \in Requests, RevokeFind(r)
       PROVE  TypeOK'
  BY <1>16 DEF RevokeFind, HasPermission, PermRow
<1>17. ASSUME NEW r \in Requests, RevokeDelete(r)
       PROVE  TypeOK'
  <2> DEFINE gone == [role |-> "none", row |-> NoRequest]
  <2>1. perm' \in [Users -> PermRow]
    <3>1. gone \in PermRow
      BY DEF PermRow
    <3>2. perm' = [perm EXCEPT ![call[r].target] = gone] \/ perm' = perm
      BY <1>17 DEF RevokeDelete
    <3>3. QED
      BY <3>1, <3>2
  <2>2. pc' \in [Requests -> Labels] /\ answer' \in [Requests -> Answers]
    BY <1>17 DEF RevokeDelete
  <2>3. QED
    BY <1>17, <2>1, <2>2 DEF RevokeDelete
<1>18. ASSUME NEW r \in Requests, TokenPermission(r)
       PROVE  TypeOK'
  BY <1>18 DEF TokenPermission
<1>19. ASSUME NEW r \in Requests, TokenLease(r)
       PROVE  TypeOK'
  BY <1>19 DEF TokenLease
<1>20. ASSUME NEW r \in Requests, TokenIssue(r)
       PROVE  TypeOK'
  <2>1. clock + TokenTTL \in Nat
    OBVIOUS
  <2>2. token' \in [Users -> Nat]
    BY <1>20, <2>1, Zenon DEF TokenIssue
  <2>3. QED
    BY <1>20, <2>2 DEF TokenIssue
<1>21. ASSUME NEW r \in Requests, Fail(r)
       PROVE  TypeOK'
  BY <1>21 DEF Fail, Unlock
<1>22. CASE Tick
  BY <1>22 DEF Tick
<1>23. CASE UNCHANGED vars
  BY <1>23 DEF vars
<1>24. QED
  BY <1>1, <1>2, <1>3, <1>4, <1>5, <1>6, <1>7, <1>8, <1>9, <1>10, <1>11, <1>12,
     <1>13, <1>14, <1>15, <1>16, <1>17, <1>18, <1>19, <1>20, <1>21, <1>22, <1>23
     DEF Next, ClaimStep, OtherStep, Finished

\* Every variable keeps its type: no handler leaves a row or a local value
\* the others cannot read.
THEOREM TypeCorrect == Spec => []TypeOK
<1>1. Init => TypeOK
  BY ConstantsAssumption
     DEF Init, TypeOK, NoLease, LeaseRow, LeaseStatus, PermRow, Labels, Ops, Answers
<1>2. QED
  BY <1>1, TypeStep, PTL DEF Spec
-----------------------------------------------------------------------------
(***************************************************************************)
(* What a handler relies on between two awaits.  Only four actions write   *)
(* the table of leases; all others leave every row alone, and a handler    *)
(* moves no other handler.                                                 *)
(***************************************************************************)
LEMMA HandlersStep == TypeOK /\ HandlersConsistent /\ [Next]_vars => HandlersConsistent'
<1> SUFFICES ASSUME TypeOK, HandlersConsistent, [Next]_vars, NEW p \in Requests
             PROVE  HandlerConsistent(p)'
  BY DEF HandlersConsistent
<1>0. HandlerConsistent(p)
  BY DEF HandlersConsistent
<1> USE DEF TypeOK, HandlerConsistent, table, locals, Goto, Return,
            ClaimLabels, TakeoverLabels, Claiming, Taking
<1>1. ASSUME NEW r \in Requests, NEW c \in Calls, Receive(r, c)
      PROVE  HandlerConsistent(p)'
  <2>1. c.op \in Ops /\ ConstantsAssumption
    BY ConstantsAssumption DEF ConstantsAssumption, Call
  <2>2. QED
    BY <1>0, <1>1, <2>1 DEF Receive, RoleSuffices, Ops
<1>2. ASSUME NEW r \in Requests, ClaimPermission(r)
      PROVE  HandlerConsistent(p)'
  BY <1>0, <1>2 DEF ClaimPermission
<1>3. ASSUME NEW r \in Requests, ClaimSession(r)
      PROVE  HandlerConsistent(p)'
  BY <1>0, <1>3 DEF ClaimSession
<1>4. ASSUME NEW r \in Requests, ClaimBegin(r)
      PROVE  HandlerConsistent(p)'
  BY <1>0, <1>4 DEF ClaimBegin
<1>5. ASSUME NEW r \in Requests, ClaimLock(r)
      PROVE  HandlerConsistent(p)'
  BY <1>0, <1>5 DEF ClaimLock
<1>6. ASSUME NEW r \in Requests, ClaimDeny(r)
      PROVE  HandlerConsistent(p)'
  BY <1>0, <1>6 DEF ClaimDeny
<1>7. ASSUME NEW r \in Requests, ClaimCommit(r)
      PROVE  HandlerConsistent(p)'
  <2>1. PICK q \in FindNewest(snap[r], Active(snap[r])) :
          /\ ~Conflict(r, q)
          /\ lease' = [x \in Requests |->
               IF x = r THEN NewLease(call[r].user, call[r].session, now[r])
               ELSE IF x = q THEN [lease[x] EXCEPT !.status = "RELEASED"]
               ELSE lease[x]]
    BY <1>7 DEF ClaimCommit
  <2>2. HandlerConsistent(r)
    BY DEF HandlersConsistent
  <2>3. q # NoRequest => lease[q].status = "ACTIVE"
    BY <2>1 DEF Conflict, FindNewest, Newest, Active
  <2>4. \A x \in Requests \ {r} :
          /\ lease'[x].operator = lease[x].operator
          /\ lease'[x].status = "none" <=> lease[x].status = "none"
    <3> TAKE x \in Requests \ {r}
    <3>1. CASE x = q
      <4>1. lease'[x] = [lease[x] EXCEPT !.status = "RELEASED"]
        BY <2>1, <3>1
      <4>2. lease[x].status = "ACTIVE" /\ lease[x] \in LeaseRow
        BY <2>3, <3>1, ConstantsAssumption DEF ConstantsAssumption
      <4>3. QED
        BY <4>1, <4>2 DEF LeaseRow
    <3>2. CASE x # q
      BY <2>1, <3>2
    <3>3. QED
      BY <3>1, <3>2
  <2>5. lease'[r].status = "ACTIVE"
    BY <2>1 DEF NewLease
  <2>6. pc[p] \in {"release_write", "takeover_revoke"} => found[p] # r
    BY <1>0, <1>7, <2>2 DEF ClaimCommit
  <2>7. QED
    BY <1>0, <1>7, <2>2, <2>4, <2>5, <2>6 DEF ClaimCommit
<1>8. ASSUME NEW r \in Requests, ClaimRollback(r)
      PROVE  HandlerConsistent(p)'
  BY <1>0, <1>8 DEF ClaimRollback
<1>9. ASSUME NEW r \in Requests, ReleaseFind(r)
      PROVE  HandlerConsistent(p)'
  BY <1>0, <1>9 DEF ReleaseFind, OwnLease, FindNewest, Newest, Unexpired, Active
<1>10. ASSUME NEW r \in Requests, ReleaseWrite(r)
       PROVE  HandlerConsistent(p)'
  BY <1>0, <1>10 DEF ReleaseWrite, LeaseRow, HandlersConsistent
<1>11. ASSUME NEW r \in Requests, TakeoverFind(r)
       PROVE  HandlerConsistent(p)'
  BY <1>0, <1>11 DEF TakeoverFind, FindNewest, Newest, Active
<1>12. ASSUME NEW r \in Requests, TakeoverRevoke(r)
       PROVE  HandlerConsistent(p)'
  BY <1>0, <1>12 DEF TakeoverRevoke, LeaseRow, HandlersConsistent
<1>13. ASSUME NEW r \in Requests, TakeoverVerify(r)
       PROVE  HandlerConsistent(p)'
  BY <1>0, <1>13 DEF TakeoverVerify
<1>14. ASSUME NEW r \in Requests, TakeoverCreate(r)
       PROVE  HandlerConsistent(p)'
  <2>1. HandlerConsistent(r)
    BY DEF HandlersConsistent
  <2>2. \A x \in Requests \ {r} : lease'[x] = lease[x]
    BY <1>14 DEF TakeoverCreate
  <2>3. pc[p] \in {"release_write", "takeover_revoke"} => found[p] # r
    BY <1>0, <1>14, <2>1 DEF TakeoverCreate
  <2>4. QED
    BY <1>0, <1>14, <2>1, <2>2, <2>3 DEF TakeoverCreate
<1>15. ASSUME NEW r \in Requests, Grant(r)
       PROVE  HandlerConsistent(p)'
  BY <1>0, <1>15 DEF Grant
<1>16. ASSUME NEW r \in Requests, RevokeFind(r)
       PROVE  HandlerConsistent(p)'
  BY <1>0, <1>16 DEF RevokeFind
<1>17. ASSUME NEW r \in Requests, RevokeDelete(r)
       PROVE  HandlerConsistent(p)'
  BY <1>0, <1>17 DEF RevokeDelete
<1>18. ASSUME NEW r \in Requests, TokenPermission(r)
       PROVE  HandlerConsistent(p)'
  BY <1>0, <1>18 DEF TokenPermission
<1>19. ASSUME NEW r \in Requests, TokenLease(r)
       PROVE  HandlerConsistent(p)'
  BY <1>0, <1>19 DEF TokenLease
<1>20. ASSUME NEW r \in Requests, TokenIssue(r)
       PROVE  HandlerConsistent(p)'
  BY <1>0, <1>20 DEF TokenIssue
<1>21. ASSUME NEW r \in Requests, Fail(r)
       PROVE  HandlerConsistent(p)'
  BY <1>0, <1>21 DEF Fail
<1>22. CASE Tick
  BY <1>0, <1>22 DEF Tick
<1>23. CASE UNCHANGED vars
  BY <1>0, <1>23 DEF vars
<1>24. QED
  BY <1>1, <1>2, <1>3, <1>4, <1>5, <1>6, <1>7, <1>8, <1>9, <1>10, <1>11, <1>12,
     <1>13, <1>14, <1>15, <1>16, <1>17, <1>18, <1>19, <1>20, <1>21, <1>22, <1>23
     DEF Next, ClaimStep, OtherStep, Finished
-----------------------------------------------------------------------------
\* Only the commit of a claim, a release and a takeover write the leases.
LEMMA LeaseWriters ==
    ASSUME [Next]_vars
    PROVE  \/ lease' = lease
           \/ \E r \in Requests : \/ ClaimCommit(r) \/ ReleaseWrite(r)
                                  \/ TakeoverRevoke(r) \/ TakeoverCreate(r)
<1> USE DEF table, locals
<1>1. ASSUME NEW r \in Requests, ClaimStep(r), ~ClaimCommit(r)
      PROVE  lease' = lease
  BY <1>1 DEF ClaimStep, ClaimPermission, ClaimSession, ClaimBegin, ClaimLock,
              ClaimDeny, ClaimRollback
<1>2. ASSUME NEW r \in Requests, OtherStep(r), ~ReleaseWrite(r),
             ~TakeoverRevoke(r), ~TakeoverCreate(r)
      PROVE  lease' = lease
  BY <1>2 DEF OtherStep, ReleaseFind, TakeoverFind, TakeoverVerify, Grant,
              RevokeFind, RevokeDelete, TokenPermission, TokenLease, TokenIssue
<1>3. QED
  BY <1>1, <1>2 DEF Next, Receive, Fail, Tick, Finished, vars

\* A claim that commits releases the lease it read, which is as it read it.
LEMMA ReleasedByClaim ==
    ASSUME TypeOK, NEW r \in Requests, ClaimCommit(r), NEW q \in Requests,
           lease[q].status = "ACTIVE", lease'[q].status # "ACTIVE"
    PROVE  q \in Active(snap[r]) /\ lease[q] = snap[r][q] /\ ~HeldByOther(r, q)
<1>1. PICK x \in FindNewest(snap[r], Active(snap[r])) :
        /\ ~HeldByOther(r, x)
        /\ ~Conflict(r, x)
        /\ lease' = [p \in Requests |->
             IF p = r THEN NewLease(call[r].user, call[r].session, now[r])
             ELSE IF p = x THEN [lease[p] EXCEPT !.status = "RELEASED"]
             ELSE lease[p]]
  BY DEF ClaimCommit
<1>2. q # r
  BY <1>1 DEF NewLease
<1>3. q = x
  BY <1>1, <1>2
<1>4. q # NoRequest
  BY ConstantsAssumption DEF ConstantsAssumption
<1>5. QED
  BY <1>1, <1>3, <1>4 DEF Conflict, FindNewest, Newest, Active

\* Every action that ends a valid lease is one that may end it.
LEMMA EndsStep == TypeOK /\ HandlersConsistent /\ [Next]_vars => [EndsAreOwned]_vars
<1> SUFFICES ASSUME TypeOK, HandlersConsistent, [Next]_vars,
                    NEW q \in Unexpired(lease, clock), lease'[q].status # "ACTIVE"
             PROVE  \E r \in Requests : StepOf(r) /\ MayEnd(r, q)
  BY DEF EndsAreOwned
<1>1. q \in Requests /\ lease[q].status = "ACTIVE" /\ lease[q].expiresAt > clock
  BY DEF Unexpired, Active
<1>2. ASSUME NEW r \in Requests, pc[r] # "done", Return(r, "ok")
      PROVE  StepOf(r)
  BY <1>2 DEF StepOf, Return, TypeOK
<1>3. ASSUME NEW r \in Requests, ClaimCommit(r)
      PROVE  StepOf(r) /\ MayEnd(r, q)
  <2>1. lease[q] = snap[r][q] /\ ~HeldByOther(r, q)
    BY <1>1, <1>3, ReleasedByClaim
  <2>2. now[r] <= clock
    BY <1>3 DEF ClaimCommit, HandlersConsistent, HandlerConsistent, Claiming
  <2>3. now[r] \in Nat /\ clock \in Nat /\ lease[q].expiresAt \in Nat
    BY <1>1 DEF TypeOK, LeaseRow
  <2>4. q # NoRequest
    BY <1>1, ConstantsAssumption DEF ConstantsAssumption
  <2>5. lease[q].operator = call[r].user
    BY <1>1, <2>1, <2>2, <2>3, <2>4 DEF HeldByOther
  <2>6. QED
    BY <1>2, <1>3, <2>5 DEF ClaimCommit, MayEnd
<1>4. ASSUME NEW r \in Requests, ReleaseWrite(r)
      PROVE  StepOf(r) /\ MayEnd(r, q)
  <2>1. HandlerConsistent(r)
    BY DEF HandlersConsistent
  <2>2. q = found[r]
    BY <1>1, <1>4 DEF ReleaseWrite, TypeOK
  <2>3. QED
    BY <1>2, <1>4, <2>1, <2>2 DEF ReleaseWrite, HandlerConsistent, MayEnd
<1>5. ASSUME NEW r \in Requests, TakeoverRevoke(r)
      PROVE  StepOf(r) /\ MayEnd(r, q)
  <2>1. HandlerConsistent(r)
    BY DEF HandlersConsistent
  <2>2. StepOf(r)
    BY <1>5 DEF TakeoverRevoke, Goto, StepOf, TypeOK
  <2>3. QED
    BY <1>5, <2>1, <2>2
       DEF TakeoverRevoke, HandlerConsistent, TakeoverLabels, MayEnd
<1>6. ASSUME NEW r \in Requests, TakeoverCreate(r)
      PROVE  FALSE
  <2>1. lease'[q] = lease[q] \/ lease'[q].status = "ACTIVE"
    BY <1>1, <1>6 DEF TakeoverCreate, NewLease, TypeOK
  <2>2. QED
    BY <1>1, <2>1
<1>7. QED
  BY <1>1, <1>3, <1>4, <1>5, <1>6, LeaseWriters

\* Nobody loses a valid lease except to a request of their own or an admin's
\* takeover, however the handlers interleave and wherever they fail.
THEOREM LeasesNotStolen == Spec => NoStolenLease
<1>1. Init => HandlersConsistent
  BY DEF Init, HandlersConsistent, HandlerConsistent, NoLease,
         ClaimLabels, TakeoverLabels
<1>2. QED
  BY <1>1, TypeCorrect, HandlersStep, EndsStep, PTL DEF Spec, NoStolenLease
-----------------------------------------------------------------------------
(***************************************************************************)
(* Mutual exclusion, as long as takeovers overlap neither claims nor each  *)
(* other.                                                                  *)
(***************************************************************************)
\* After a claim commits, its own lease is the only ACTIVE one: any other
\* would have been in the snapshot, and is the one the claim released.
LEMMA CommitExcludes ==
    ASSUME TypeOK, ExclusionInv, NEW r \in Requests, ClaimCommit(r),
           NEW b \in Requests, lease'[b].status = "ACTIVE"
    PROVE  b = r
<1> SUFFICES ASSUME b # r
             PROVE  FALSE
  OBVIOUS
<1>1. PICK q \in FindNewest(snap[r], Active(snap[r])) :
        /\ ~Conflict(r, q)
        /\ lease' = [p \in Requests |->
             IF p = r THEN NewLease(call[r].user, call[r].session, now[r])
             ELSE IF p = q THEN [lease[p] EXCEPT !.status = "RELEASED"]
             ELSE lease[p]]
  BY DEF ClaimCommit
<1>2. lease[b] \in LeaseRow
  BY DEF TypeOK
<1>3. b # q /\ lease[b].status = "ACTIVE"
  BY <1>1, <1>2 DEF LeaseRow
<1>4. SnapshotSound(r) /\ pc[r] = "claim_locked"
  BY DEF ExclusionInv, SnapshotsSound, ClaimCommit
<1>5. snap[r][b].status # "none"
  BY <1>1, <1>3, <1>4 DEF Conflict, SnapshotSound, Claiming
<1>6. ~Ended(snap[r][b])
  BY <1>3, <1>4 DEF SnapshotSound, Claiming, Ended
<1>7. b \in Active(snap[r])
  BY <1>5, <1>6 DEF TypeOK, LeaseRow, LeaseStatus, Ended, Active
<1>8. q = b
  BY <1>1, <1>4, <1>7 DEF SnapshotSound, Claiming, FindNewest, Newest
<1>9. QED
  BY <1>3, <1>8

\* A takeover creates its lease when none is ACTIVE.
LEMMA CreateExcludes ==
    ASSUME TypeOK, ExclusionInv, NEW r \in Requests, TakeoverCreate(r)
    PROVE  Active(lease) = {} /\ \A b \in Requests : lease'[b].status = "ACTIVE" => b = r
<1>1. Active(lease) = {}
  <2>1. TakenOver(r) /\ pc[r] = "takeover_create"
    BY DEF ExclusionInv, TakeoverCreate
  <2>2. QED
    BY <2>1 DEF TakenOver, Taking, TakeoverLabels
<1>2. \A b \in Requests : b # r => lease'[b] = lease[b]
  BY DEF TakeoverCreate, TypeOK
<1>3. QED
  BY <1>1, <1>2 DEF Active

\* What a release or a takeover ends, it makes nothing ACTIVE.
LEMMA EndingStep ==
    ASSUME TypeOK, NEW r \in Requests, ReleaseWrite(r) \/ TakeoverRevoke(r)
    PROVE  \A q \in Requests :
              /\ lease'[q].status = "ACTIVE" => lease[q].status = "ACTIVE" /\ lease'[q] = lease[q]
              /\ Ended(lease[q]) => Ended(lease'[q])
              /\ lease'[q].status # "none" /\ lease[q].status = "none" => q = found[r]
BY DEF ReleaseWrite, TakeoverRevoke, TypeOK, LeaseRow, Ended

\* No action leaves two ACTIVE leases: only a commit and a takeover create one.
LEMMA SingleActiveStep ==
    ASSUME TypeOK, ExclusionInv, [Next]_vars
    PROVE  SingleActive'
<1>1. CASE lease' = lease
  BY <1>1 DEF ExclusionInv, SingleActive
<1>2. ASSUME NEW r \in Requests, ClaimCommit(r)
      PROVE  SingleActive'
  BY <1>2, CommitExcludes DEF SingleActive
<1>3. ASSUME NEW r \in Requests, ReleaseWrite(r) \/ TakeoverRevoke(r)
      PROVE  SingleActive'
  BY <1>3, EndingStep DEF ExclusionInv, SingleActive
<1>4. ASSUME NEW r \in Requests, TakeoverCreate(r)
      PROVE  SingleActive'
  BY <1>4, CreateExcludes DEF SingleActive
<1>5. QED
  BY <1>1, <1>2, <1>3, <1>4, LeaseWriters

\* A lease that is over stays over.
LEMMA EndedStep ==
    ASSUME TypeOK, HandlersConsistent, [Next]_vars,
           NEW q \in Requests, Ended(lease[q])
    PROVE  Ended(lease'[q])
<1>1. ASSUME NEW r \in Requests, ClaimCommit(r)
      PROVE  Ended(lease'[q])
  <2>1. lease[r].status = "none"
    BY <1>1 DEF ClaimCommit, HandlersConsistent, HandlerConsistent
  <2>2. lease'[q] = lease[q] \/ lease'[q] = [lease[q] EXCEPT !.status = "RELEASED"]
    BY <1>1, <2>1 DEF ClaimCommit, Ended
  <2>3. QED
    BY <2>2 DEF TypeOK, LeaseRow, Ended
<1>2. ASSUME NEW r \in Requests, ReleaseWrite(r) \/ TakeoverRevoke(r)
      PROVE  Ended(lease'[q])
  BY <1>2, EndingStep
<1>3. ASSUME NEW r \in Requests, TakeoverCreate(r)
      PROVE  Ended(lease'[q])
  <2>1. lease[r].status = "none"
    BY <1>3 DEF TakeoverCreate, HandlersConsistent, HandlerConsistent
  <2>2. QED
    BY <1>3, <2>1 DEF TakeoverCreate, TypeOK, Ended
<1>4. QED
  BY <1>1, <1>2, <1>3, LeaseWriters

\* Only its own handler takes a snapshot, and only when it begins.
LEMMA SnapshotStep ==
    ASSUME TypeOK, [Next]_vars, NEW p \in Requests,
           pc'[p] \in {"claim_wait", "claim_locked"}
    PROVE  \/ ClaimBegin(p) /\ snap'[p] = lease /\ lease' = lease
           \/ pc[p] \in {"claim_wait", "claim_locked"} /\ snap'[p] = snap[p]
<1> USE DEF TypeOK, Goto, Return, table, locals
<1>1. ASSUME NEW r \in Requests, ClaimBegin(r)
      PROVE  \/ ClaimBegin(p) /\ snap'[p] = lease /\ lease' = lease
             \/ pc[p] \in {"claim_wait", "claim_locked"} /\ snap'[p] = snap[p]
  BY <1>1 DEF ClaimBegin
<1>2. ASSUME NEW r \in Requests, ClaimStep(r), ~ClaimBegin(r)
      PROVE  pc[p] \in {"claim_wait", "claim_locked"} /\ snap'[p] = snap[p]
  BY <1>2 DEF ClaimStep, ClaimPermission, ClaimSession, ClaimLock, ClaimDeny,
              ClaimCommit, ClaimRollback
<1>3. ASSUME NEW r \in Requests, OtherStep(r)
      PROVE  pc[p] \in {"claim_wait", "claim_locked"} /\ snap'[p] = snap[p]
  BY <1>3 DEF OtherStep, ReleaseFind, ReleaseWrite, TakeoverFind, TakeoverRevoke,
              TakeoverVerify, TakeoverCreate, Grant, RevokeFind, RevokeDelete,
              TokenPermission, TokenLease, TokenIssue
<1>4. ASSUME NEW r \in Requests, NEW c \in Calls, Receive(r, c)
      PROVE  pc[p] \in {"claim_wait", "claim_locked"} /\ snap'[p] = snap[p]
  BY <1>4, ConstantsAssumption DEF Receive, ConstantsAssumption, Call, Ops
<1>5. QED
  BY <1>1, <1>2, <1>3, <1>4 DEF Next, Fail, Tick, Finished, vars

\* A row that appears is its creator's, whose request is what it was.
LEMMA NewRow ==
    ASSUME TypeOK, HandlersConsistent, [Next]_vars, NEW q \in Requests,
           lease[q].status = "none", lease'[q].status # "none"
    PROVE  ClaimCommit(q) \/ TakeoverCreate(q)
<1>1. ASSUME NEW r \in Requests, ClaimCommit(r), r # q
      PROVE  FALSE
  <2>1. PICK x \in FindNewest(snap[r], Active(snap[r])) :
          /\ ~Conflict(r, x)
          /\ lease' = [p \in Requests |->
               IF p = r THEN NewLease(call[r].user, call[r].session, now[r])
               ELSE IF p = x THEN [lease[p] EXCEPT !.status = "RELEASED"]
               ELSE lease[p]]
    BY <1>1 DEF ClaimCommit
  <2>2. x = q
    BY <1>1, <2>1
  <2>3. q # NoRequest
    BY ConstantsAssumption DEF ConstantsAssumption
  <2>4. snap[r][q].status = "ACTIVE" /\ lease[q] = snap[r][q]
    BY <2>1, <2>2, <2>3 DEF Conflict, FindNewest, Newest, Active
  <2>5. QED
    BY <2>4
<1>2. ASSUME NEW r \in Requests, ReleaseWrite(r) \/ TakeoverRevoke(r)
      PROVE  FALSE
  <2>1. q = found[r] /\ pc[r] \in {"release_write", "takeover_revoke"}
    BY <1>2, EndingStep DEF ReleaseWrite, TakeoverRevoke
  <2>2. QED
    BY <2>1 DEF HandlersConsistent, HandlerConsistent
<1>3. ASSUME NEW r \in Requests, TakeoverCreate(r), r # q
      PROVE  FALSE
  BY <1>3 DEF TakeoverCreate, TypeOK
<1>4. QED
  BY <1>1, <1>2, <1>3, LeaseWriters

LEMMA CallStep ==
    ASSUME TypeOK, [Next]_vars, NEW q \in Requests, pc[q] # "idle"
    PROVE  call'[q] = call[q]
<1>1. ASSUME NEW r \in Requests, ClaimStep(r) \/ OtherStep(r) \/ Fail(r)
      PROVE  call' = call
  BY <1>1 DEF ClaimStep, ClaimPermission, ClaimSession, ClaimBegin, ClaimLock, ClaimDeny,
              ClaimCommit, ClaimRollback, OtherStep, ReleaseFind, ReleaseWrite,
              TakeoverFind, TakeoverRevoke, TakeoverVerify, TakeoverCreate, Grant,
              RevokeFind, RevokeDelete, TokenPermission, TokenLease, TokenIssue, Fail
<1>2. QED
  BY <1>1 DEF Next, Receive, Tick, Finished, vars, TypeOK

\* A claim's snapshot stays sound until the claim is over.
LEMMA SnapshotsStep ==
    ASSUME TypeOK, ExclusionInv, TakeoverAlone, [Next]_vars
    PROVE  SnapshotsSound'
<1> USE DEF Claiming
<1> SUFFICES ASSUME NEW p \in Requests, pc'[p] \in Claiming
             PROVE  /\ \A a, b \in Active(snap'[p]) : a = b
                    /\ \A q \in Requests : Ended(snap'[p][q]) => Ended(lease'[q])
                    /\ \A q \in Requests :
                          lease'[q].status # "none" /\ snap'[p][q].status = "none" =>
                              call'[q].op = "claim"
  BY DEF SnapshotsSound, SnapshotSound, Active, Ended
<1>1. CASE snap'[p] = lease /\ lease' = lease
  BY <1>1 DEF ExclusionInv, SingleActive, Active
<1>2. CASE pc[p] \in Claiming /\ snap'[p] = snap[p]
  <2>1. SnapshotSound(p) /\ HandlersConsistent
    BY DEF ExclusionInv, SnapshotsSound
  <2>2. ASSUME NEW q \in Requests, lease'[q].status # "none", snap[p][q].status = "none"
        PROVE  call'[q].op = "claim"
    <3>1. CASE lease[q].status # "none"
      <4>1. pc[q] # "idle"
        BY <2>1, <3>1 DEF HandlersConsistent, HandlerConsistent
      <4>2. QED
        BY <1>2, <2>1, <2>2, <3>1, <4>1, CallStep DEF SnapshotSound
    <3>2. CASE lease[q].status = "none"
      <4>1. ClaimCommit(q) \/ TakeoverCreate(q)
        BY <2>1, <2>2, <3>2, NewRow
      <4>2. ~TakeoverCreate(q)
        BY <1>2 DEF TakeoverCreate, TakeoverAlone, Taking, TakeoverLabels
      <4>3. pc[q] = "claim_locked" /\ call' = call
        BY <4>1, <4>2 DEF ClaimCommit
      <4>4. QED
        BY <2>1, <4>3 DEF HandlersConsistent, HandlerConsistent, ClaimLabels
    <3>3. QED
      BY <3>1, <3>2
  <2>3. QED
    BY <1>2, <2>1, <2>2, EndedStep DEF SnapshotSound
<1>3. QED
  BY <1>1, <1>2, SnapshotStep

\* A takeover goes from step to step on its own.
LEMMA TakingStep ==
    ASSUME TypeOK, [Next]_vars, NEW r \in Requests, pc'[r] \in Taking
    PROVE  \/ TakeoverFind(r)
           \/ TakeoverRevoke(r) /\ pc'[r] = "takeover_verify"
           \/ lease' = lease /\ pc[r] \in Taking \ {"takeover_revoke"} /\ pc'[r] # "takeover_revoke"
           \/ pc[r] \in Taking /\ pc'[r] = pc[r] /\ found'[r] = found[r]
<1> USE DEF TypeOK, Goto, Return, table, locals, Taking, TakeoverLabels
<1>1. ASSUME NEW s \in Requests, ClaimStep(s)
      PROVE  pc[r] \in Taking /\ pc'[r] = pc[r] /\ found'[r] = found[r]
  BY <1>1 DEF ClaimStep, ClaimPermission, ClaimSession, ClaimBegin, ClaimLock, ClaimDeny,
              ClaimCommit, ClaimRollback
<1>2. ASSUME TakeoverRevoke(r)
      PROVE  pc'[r] = "takeover_verify"
  BY <1>2 DEF TakeoverRevoke
<1>3. ASSUME TakeoverVerify(r)
      PROVE  /\ lease' = lease
             /\ pc[r] \in Taking \ {"takeover_revoke"} /\ pc'[r] # "takeover_revoke"
  BY <1>3 DEF TakeoverVerify
<1>4. ASSUME NEW s \in Requests, OtherStep(s),
             s # r \/ (~TakeoverFind(r) /\ ~TakeoverRevoke(r) /\ ~TakeoverVerify(r))
      PROVE  pc[r] \in Taking /\ pc'[r] = pc[r] /\ found'[r] = found[r]
  <2>1. CASE s # r
    BY <1>4, <2>1 DEF OtherStep, ReleaseFind, ReleaseWrite, TakeoverFind, TakeoverRevoke,
                      TakeoverVerify, TakeoverCreate, Grant, RevokeFind, RevokeDelete,
                      TokenPermission, TokenLease, TokenIssue
  <2>2. CASE s = r /\ ~TakeoverFind(r) /\ ~TakeoverRevoke(r) /\ ~TakeoverVerify(r)
    BY <1>4, <2>2 DEF OtherStep, ReleaseFind, ReleaseWrite, TakeoverCreate, Grant,
                      RevokeFind, RevokeDelete, TokenPermission, TokenLease, TokenIssue
  <2>3. QED
    BY <1>4, <2>1, <2>2
<1>5. ASSUME NEW s \in Requests, NEW c \in Calls, Receive(s, c)
      PROVE  pc[r] \in Taking /\ pc'[r] = pc[r] /\ found'[r] = found[r]
  BY <1>5, ConstantsAssumption DEF Receive, ConstantsAssumption, Call, Ops
<1>6. QED
  BY <1>1, <1>2, <1>3, <1>4, <1>5 DEF Next, Fail, Tick, Finished, vars

\* While a takeover is alone no lease becomes ACTIVE beside it.
LEMMA NothingBeside ==
    ASSUME TypeOK, ExclusionInv, TakeoverAlone, [Next]_vars, NEW r \in Requests,
           pc[r] \in Taking, pc'[r] = pc[r]
    PROVE  \A q \in Active(lease') : q \in Active(lease)
<1>1. ASSUME NEW s \in Requests, ClaimCommit(s) \/ TakeoverCreate(s)
      PROVE  FALSE
  <2>1. pc'[s] = "done" /\ pc[s] \in Taking \cup Claiming
    BY <1>1 DEF ClaimCommit, TakeoverCreate, Return, TypeOK, Taking, TakeoverLabels, Claiming
  <2>2. s # r
    BY <2>1 DEF Taking, TakeoverLabels
  <2>3. QED
    BY <2>1, <2>2 DEF TakeoverAlone
<1>2. QED
  BY <1>1, LeaseWriters, EndingStep DEF Active

LEMMA TakenStep ==
    ASSUME TypeOK, ExclusionInv, TakeoverAlone, [Next]_vars, NEW r \in Requests
    PROVE  TakenOver(r)'
<1> SUFFICES ASSUME pc'[r] \in Taking, NEW q \in Active(lease')
             PROVE  pc'[r] = "takeover_revoke" /\ found'[r] = q
  BY DEF TakenOver, Active
<1>1. TakenOver(r)
  BY DEF ExclusionInv
<1>2. CASE TakeoverFind(r)
  <2>1. PICK x \in FindNewest(lease, Active(lease)) :
          /\ found' = [found EXCEPT ![r] = x]
          /\ Goto(r, IF x = NoRequest THEN "takeover_verify" ELSE "takeover_revoke")
    BY <1>2 DEF TakeoverFind
  <2>2. lease' = lease
    BY <1>2 DEF TakeoverFind, table
  <2>3. x = q /\ x # NoRequest
    BY <2>1, <2>2, ConstantsAssumption DEF ExclusionInv, SingleActive, FindNewest, Newest,
       Active, ConstantsAssumption
  <2>4. QED
    BY <2>1, <2>3 DEF Goto, TypeOK
<1>3. CASE TakeoverRevoke(r)
  <2>1. q \in Active(lease) /\ lease'[q].status = "ACTIVE"
    BY <1>3, EndingStep DEF Active
  <2>2. found[r] = q
    BY <1>1, <1>3, <2>1 DEF TakenOver, TakeoverRevoke, Taking, TakeoverLabels
  <2>3. lease'[q].status = "REVOKED"
    BY <1>3, <2>1, <2>2 DEF TakeoverRevoke, TypeOK, LeaseRow, Active
  <2>4. QED
    BY <2>1, <2>3
<1>4. CASE lease' = lease /\ pc[r] \in Taking \ {"takeover_revoke"}
  BY <1>1, <1>4 DEF TakenOver
<1>5. CASE pc[r] \in Taking /\ pc'[r] = pc[r] /\ found'[r] = found[r]
  BY <1>1, <1>5, NothingBeside DEF TakenOver
<1>6. QED
  BY <1>2, <1>3, <1>4, <1>5, TakingStep

LEMMA ExclusionStarts == Init => ExclusionInv
BY DEF Init, ExclusionInv, HandlersConsistent, HandlerConsistent, NoLease, ClaimLabels,
       TakeoverLabels, Claiming, Taking, SnapshotsSound, SnapshotSound, TakenOver, SingleActive

LEMMA ExclusionStep ==
    TypeOK /\ ExclusionInv /\ TakeoverAlone /\ [Next]_vars => ExclusionInv'
BY HandlersStep, SnapshotsStep, TakenStep, SingleActiveStep DEF ExclusionInv

\* A vehicle never has two ACTIVE leases, however many claims, releases, takeovers and
\* token requests race, unless a takeover overlaps a claim's transaction or another
\* takeover (claim/route.ts:59-139, takeover/route.ts:41-98).
THEOREM MutualExclusion == Spec /\ []TakeoverAlone => []SingleActive
<1>1. ExclusionInv => SingleActive
  BY DEF ExclusionInv
<1>2. QED
  BY <1>1, ExclusionStarts, ExclusionStep, TypeCorrect, PTL DEF Spec
-----------------------------------------------------------------------------
(***************************************************************************)
(* The token's check.                                                      *)
(***************************************************************************)
\* A handler passes the check of the lease only by making it, and then waits for the
\* token with the rows it has read.
LEMMA PassedStep ==
    ASSUME TypeOK, [Next]_vars, NEW r \in Requests, Passed(r)'
    PROVE  /\ call'[r] = call[r]
           /\ \/ TokenLease(r) /\ snap'[r] = lease
              \/ Passed(r) /\ snap'[r] = snap[r]
<1> USE DEF TypeOK, Goto, Return, table, locals, Passed
<1>1. ASSUME NEW p \in Requests, ClaimStep(p)
      PROVE  pc[r] = "token_issue" /\ snap'[r] = snap[r]
  BY <1>1 DEF ClaimStep, ClaimPermission, ClaimSession, ClaimBegin, ClaimLock, ClaimDeny,
              ClaimCommit, ClaimRollback
<1>2. ASSUME TokenPermission(r)
      PROVE  FALSE
  BY <1>2 DEF TokenPermission
<1>3. ASSUME TokenLease(r)
      PROVE  snap'[r] = lease
  BY <1>3 DEF TokenLease
<1>4. ASSUME NEW p \in Requests, OtherStep(p), ~TokenPermission(r), ~TokenLease(r)
      PROVE  pc[r] = "token_issue" /\ snap'[r] = snap[r]
  BY <1>4 DEF OtherStep, ReleaseFind, ReleaseWrite, TakeoverFind, TakeoverRevoke,
              TakeoverVerify, TakeoverCreate, Grant, RevokeFind, RevokeDelete,
              TokenPermission, TokenLease, TokenIssue
<1>5. ASSUME NEW p \in Requests, NEW c \in Calls, Receive(p, c)
      PROVE  pc[r] = "token_issue" /\ snap'[r] = snap[r]
  BY <1>5, ConstantsAssumption DEF Receive, ConstantsAssumption, Call, Ops
<1>6. \/ TokenLease(r) /\ snap'[r] = lease
      \/ pc[r] = "token_issue" /\ snap'[r] = snap[r]
  BY <1>1, <1>2, <1>3, <1>4, <1>5 DEF Next, Fail, Tick, Finished, vars
<1>7. pc[r] # "idle"
  BY <1>6 DEF TokenLease
<1>8. QED
  BY <1>6, <1>7, CallStep

\* A row stays, and is ACTIVE only as it was before.
LEMMA RowStep ==
    ASSUME TypeOK, HandlersConsistent, [Next]_vars,
           NEW q \in Requests, lease[q].status # "none"
    PROVE  /\ lease'[q].status # "none"
           /\ lease'[q].status = "ACTIVE" => lease'[q] = lease[q]
<1>1. ASSUME NEW r \in Requests, ClaimCommit(r)
      PROVE  lease'[q] = lease[q] \/ lease'[q].status = "RELEASED"
  <2>1. r # q
    BY <1>1 DEF ClaimCommit, HandlersConsistent, HandlerConsistent
  <2>2. lease'[q] \in {lease[q], [lease[q] EXCEPT !.status = "RELEASED"]}
    BY <1>1, <2>1 DEF ClaimCommit
  <2>3. QED
    BY <2>2 DEF TypeOK, LeaseRow
<1>2. ASSUME NEW r \in Requests, ReleaseWrite(r) \/ TakeoverRevoke(r)
      PROVE  lease'[q] = lease[q] \/ lease'[q].status \in {"RELEASED", "REVOKED"}
  BY <1>2 DEF ReleaseWrite, TakeoverRevoke, TypeOK, LeaseRow
<1>3. ASSUME NEW r \in Requests, TakeoverCreate(r)
      PROVE  lease'[q] = lease[q]
  <2>1. r # q
    BY <1>3 DEF TakeoverCreate, HandlersConsistent, HandlerConsistent
  <2>2. QED
    BY <1>3, <2>1 DEF TakeoverCreate, TypeOK
<1>4. QED
  BY <1>1, <1>2, <1>3, LeaseWriters

\* Time does not go back.
LEMMA ClockStep ==
    ASSUME [Next]_vars
    PROVE  clock' = clock \/ clock' = clock + 1
<1>1. ASSUME NEW r \in Requests, ClaimStep(r) \/ OtherStep(r) \/ Fail(r)
      PROVE  clock' = clock
  BY <1>1 DEF ClaimStep, ClaimPermission, ClaimSession, ClaimBegin, ClaimLock, ClaimDeny,
              ClaimCommit, ClaimRollback, OtherStep, ReleaseFind, ReleaseWrite,
              TakeoverFind, TakeoverRevoke, TakeoverVerify, TakeoverCreate, Grant,
              RevokeFind, RevokeDelete, TokenPermission, TokenLease, TokenIssue, Fail
<1>2. QED
  BY <1>1 DEF Next, Receive, Tick, Finished, vars

\* The one lease that the check finds is the only one there is.
LEMMA CheckSees ==
    ASSUME TypeOK, SingleActive, NEW r \in Requests, TokenLease(r), Passed(r)',
           NEW q \in Unexpired(lease, clock)
    PROVE  lease[q].operator = call[r].user
<1>1. PICK x \in FindAny(Unexpired(lease, clock)) :
        (OthersLease(r, x) /\ Return(r, "taken")) \/ ~OthersLease(r, x)
  BY DEF TokenLease
<1>2. ~OthersLease(r, x)
  BY <1>1 DEF Return, TypeOK, Passed
<1>3. x \in Unexpired(lease, clock)
  BY <1>1 DEF FindAny
<1>4. x = q /\ x # NoRequest
  BY <1>3, ConstantsAssumption DEF SingleActive, Unexpired, Active, ConstantsAssumption
<1>5. QED
  BY <1>2, <1>4 DEF OthersLease

LEMMA TokenStep ==
    ASSUME TypeOK, ExclusionInv, TokenInv, [Next]_vars
    PROVE  TokenInv'
<1> SUFFICES ASSUME NEW r \in Requests, Passed(r)', NEW q \in Requests
             PROVE  /\ snap'[r][q].status # "none" => lease'[q].status # "none"
                    /\ q \in Unexpired(lease', clock') =>
                          lease'[q].operator = call'[r].user \/ snap'[r][q].status = "none"
  BY DEF TokenInv, NoTokenBesideLease, Unexpired, Active, Passed
<1> USE DEF ExclusionInv
<1>1. CASE TokenLease(r) /\ snap'[r] = lease
  <2>1. lease' = lease /\ clock' = clock
    BY <1>1 DEF TokenLease, table
  <2>2. QED
    BY <1>1, <2>1, CheckSees, PassedStep
<1>2. CASE Passed(r) /\ snap'[r] = snap[r]
  <2>1. CASE lease[q].status # "none"
    <3>1. lease'[q].status # "none" /\ (q \in Unexpired(lease', clock') => lease'[q] = lease[q])
      BY <2>1, RowStep DEF Unexpired, Active
    <3>2. q \in Unexpired(lease', clock') => q \in Unexpired(lease, clock)
      <4>1. clock \in Nat /\ lease[q].expiresAt \in Nat
        BY DEF TypeOK, LeaseRow
      <4>2. QED
        BY <3>1, <4>1, ClockStep DEF Unexpired, Active
    <3>3. QED
      BY <1>2, <3>1, <3>2, PassedStep DEF TokenInv, NoTokenBesideLease
  <2>2. CASE lease[q].status = "none"
    BY <1>2, <2>2 DEF TokenInv
  <2>3. QED
    BY <2>1, <2>2
<1>3. QED
  BY <1>1, <1>2, PassedStep

\* Unless takeovers overlap, an operator's token is made beside another's valid lease only
\* if that lease was claimed after the check, although the handler looks at any one lease
\* and an await passes before it makes the token (livekit/token/route.ts:74-119).
THEOREM TokensFollowLease == Spec /\ []TakeoverAlone => []NoTokenBesideLease
<1>1. Init => TokenInv
  BY DEF Init, TokenInv, NoTokenBesideLease, Passed
<1>2. TokenInv => NoTokenBesideLease
  BY DEF TokenInv
<1>3. QED
  BY <1>1, <1>2, ExclusionStarts, ExclusionStep, TokenStep, TypeCorrect, PTL DEF Spec
-----------------------------------------------------------------------------
(***************************************************************************)
(* The abstract lease.                                                     *)
(***************************************************************************)
\* The abstract lease is the ACTIVE row, before a step and after it.
LEMMA TheLease ==
    ASSUME NEW q \in Active(lease), \A p \in Active(lease) : p = q
    PROVE  Holder = lease[q].operator /\ Until = lease[q].expiresAt
BY DEF Holder, Until

LEMMA TheLeaseAfter ==
    ASSUME NEW q \in Active(lease'), \A p \in Active(lease') : p = q
    PROVE  Holder' = lease'[q].operator /\ Until' = lease'[q].expiresAt
<1>1. Active(lease)' = Active(lease')
  BY DEF Active
<1>2. QED
  BY <1>1 DEF Holder, Until

\* The commit of a claim acquires the lease: the row it releases had expired, or was
\* its operator's.
LEMMA CommitAcquires ==
    ASSUME TypeOK, ExclusionInv, NEW r \in Requests, ClaimCommit(r)
    PROVE  Lock!Acquire(call[r].user) /\ call[r].user \in Users
<1> DEFINE u == call[r].user
<1>1. /\ HandlerConsistent(r) /\ pc[r] = "claim_locked" /\ clock' = clock
      /\ lease'[r] = NewLease(u, call[r].session, now[r])
  BY DEF ClaimCommit, ExclusionInv, HandlersConsistent
<1>2. u \in Users
  <2>1. call[r].op = "claim"
    BY <1>1 DEF HandlerConsistent, ClaimLabels
  <2>2. call[r] \in Calls
    BY <2>1 DEF TypeOK, NoCall
  <2>3. QED
    BY <2>2, ConstantsAssumption DEF ConstantsAssumption, Call
<1>3. now[r] \in Nat /\ clock \in Nat /\ now[r] <= clock /\ LeaseTTL \in Nat
  BY <1>1, ConstantsAssumption DEF HandlerConsistent, TypeOK, ConstantsAssumption, Claiming
<1>4. Holder' = u /\ Until' = now[r] + LeaseTTL
  <2>1. r \in Active(lease') /\ \A p \in Active(lease') : p = r
    BY <1>1, CommitExcludes DEF Active, NewLease
  <2>2. QED
    BY <1>1, <2>1, TheLeaseAfter DEF NewLease
<1>5. Lock!Available(u)
  <2>1. CASE Active(lease) = {}
    BY <2>1 DEF Lock!Available, Holder
  <2>2. ASSUME NEW b \in Active(lease)
        PROVE  Lock!Available(u)
    <3>1. b \in Requests /\ lease[b].status = "ACTIVE" /\ b # NoRequest
      BY ConstantsAssumption DEF Active, ConstantsAssumption
    <3>2. \A p \in Active(lease) : p = b
      BY <2>2 DEF ExclusionInv, SingleActive, Active
    <3>3. b # r
      BY <1>1, <3>1 DEF HandlerConsistent
    <3>4. lease'[b].status # "ACTIVE"
      BY <3>1, <3>3, CommitExcludes
    <3>5. lease[b] = snap[r][b] /\ ~HeldByOther(r, b)
      BY <3>1, <3>4, ReleasedByClaim
    <3>6. lease[b].expiresAt \in Nat
      BY <3>1 DEF TypeOK, LeaseRow
    <3>7. lease[b].operator = u \/ lease[b].expiresAt <= clock
      BY <1>3, <3>1, <3>5, <3>6 DEF HeldByOther
    <3>8. QED
      BY <2>2, <3>2, <3>7, TheLease DEF Lock!Available
  <2>3. QED
    BY <2>1, <2>2
<1>6. QED
  BY <1>1, <1>2, <1>3, <1>4, <1>5 DEF Lock!Acquire

\* So does a takeover: no lease is ACTIVE by then.
LEMMA CreateAcquires ==
    ASSUME TypeOK, ExclusionInv, NEW r \in Requests, TakeoverCreate(r)
    PROVE  Lock!Acquire(call[r].target) /\ call[r].target \in Users
<1> DEFINE u == call[r].target
<1>1. PICK s \in SessionsOf(u) : lease' = [lease EXCEPT ![r] = NewLease(u, s, now[r])]
  BY DEF TakeoverCreate
<1>2. u \in Users
  BY <1>1, ConstantsAssumption DEF SessionsOf, ConstantsAssumption
<1>3. now[r] \in Nat /\ clock \in Nat /\ now[r] <= clock /\ LeaseTTL \in Nat
  <2>1. HandlerConsistent(r) /\ pc[r] = "takeover_create"
    BY DEF ExclusionInv, HandlersConsistent, TakeoverCreate
  <2>2. QED
    BY <2>1, ConstantsAssumption
       DEF HandlerConsistent, TypeOK, ConstantsAssumption, Taking, TakeoverLabels
<1>4. Holder' = u /\ Until' = now[r] + LeaseTTL
  <2>1. lease'[r] = NewLease(u, s, now[r])
    BY <1>1 DEF TypeOK
  <2>2. r \in Active(lease') /\ \A p \in Active(lease') : p = r
    BY <2>1, CreateExcludes DEF Active, NewLease
  <2>3. QED
    BY <2>1, <2>2, TheLeaseAfter DEF NewLease
<1>5. Lock!Available(u)
  BY CreateExcludes DEF Lock!Available, Holder
<1>6. clock' = clock
  BY DEF TakeoverCreate
<1>7. QED
  BY <1>2, <1>3, <1>4, <1>5, <1>6 DEF Lock!Acquire

\* A release gives the lease back, or ends a row that was over already; so does a takeover
\* before it acquires the lease.
LEMMA EndingGivesBack ==
    ASSUME TypeOK, SingleActive, NEW r \in Requests, ReleaseWrite(r) \/ TakeoverRevoke(r)
    PROVE  Lock!GiveBack \/ UNCHANGED Lock!lockVars
<1>1. clock' = clock
  BY DEF ReleaseWrite, TakeoverRevoke
<1>2. \A q \in Active(lease') : q \in Active(lease) /\ lease'[q] = lease[q]
  BY EndingStep DEF Active
<1>3. CASE Active(lease') = {}
  <2>1. Active(lease)' = {}
    BY <1>3 DEF Active
  <2>2. QED
    BY <1>1, <2>1 DEF Lock!GiveBack, Holder, Until
<1>4. ASSUME NEW q \in Active(lease')
      PROVE  UNCHANGED Lock!lockVars
  <2>1. q \in Active(lease) /\ \A p \in Active(lease) : p = q
    BY <1>2, <1>4 DEF SingleActive, Active
  <2>2. \A p \in Active(lease') : p = q
    BY <1>2, <2>1
  <2>3. QED
    BY <1>1, <1>2, <1>4, <2>1, <2>2, TheLease, TheLeaseAfter DEF Lock!lockVars
<1>5. QED
  BY <1>3, <1>4

LEMMA LockStep ==
    ASSUME TypeOK, ExclusionInv, [Next]_vars
    PROVE  [Lock!Next]_(Lock!lockVars)
<1>1. CASE lease' = lease
  <2>1. Holder' = Holder /\ Until' = Until
    BY <1>1 DEF Holder, Until, Active
  <2>2. clock' = clock \/ clock' = clock + 1
    BY ClockStep
  <2>3. QED
    BY <2>1, <2>2 DEF Lock!Next, Lock!Tick, Lock!lockVars
<1>2. ASSUME NEW r \in Requests, ClaimCommit(r)
      PROVE  Lock!Next
  BY <1>2, CommitAcquires DEF Lock!Next
<1>3. ASSUME NEW r \in Requests, TakeoverCreate(r)
      PROVE  Lock!Next
  BY <1>3, CreateAcquires DEF Lock!Next
<1>4. ASSUME NEW r \in Requests, ReleaseWrite(r) \/ TakeoverRevoke(r)
      PROVE  [Lock!Next]_(Lock!lockVars)
  BY <1>4, EndingGivesBack DEF Lock!Next, ExclusionInv
<1>5. QED
  BY <1>1, <1>2, <1>3, <1>4, LeaseWriters

\* Unless takeovers overlap, the handlers, their transactions and the table implement the
\* lease that one operator holds until it is given back, is taken over or has run out.
THEOREM LeaseIsLock == Spec /\ []TakeoverAlone => ImplementsLeaseLock
<1>1. Init => Lock!Init
  BY DEF Init, Lock!Init, Holder, Until, Active, NoLease
<1>2. QED
  BY <1>1, ExclusionStarts, ExclusionStep, LockStep, TypeCorrect, PTL
     DEF Spec, ImplementsLeaseLock, Lock!Spec
=============================================================================
