---------------------------- MODULE MCControlLease ----------------------------
(* Values for the constants of ControlLease: two operators, an admin, one   *)
(* session for each operator, and the requests each run lets clients make.  *)
EXTENDS ControlLease, TLC

CONSTANTS ann, bob, adm, sa, sb

MCUsers == {ann, bob, adm}

MCJwtRole == ann :> "OPERATOR" @@ bob :> "OPERATOR" @@ adm :> "ADMIN"

MCSessions == {sa, sb}

MCSessionUser == sa :> ann @@ sb :> bob

\* Both operators may drive.
BothPermitted == ann :> "OPERATOR" @@ bob :> "OPERATOR" @@ adm :> "none"

Ask(op, user, target, session, role) ==
    [op |-> op, user |-> user, target |-> target, session |-> session, role |-> role]

Claim(user, session) == Ask("claim", user, Nobody, session, "OPERATOR")
Release(user)        == Ask("release", user, Nobody, Nobody, "OPERATOR")
Takeover(user, new)  == Ask("takeover", user, new, Nobody, "OPERATOR")
Token(user, role)    == Ask("token", user, Nobody, Nobody, role)
GrantTo(user, role)  == Ask("grant", adm, user, Nobody, role)
RevokeOf(user)       == Ask("revoke", adm, user, Nobody, "OPERATOR")

\* Claims and releases of both operators, and bob asking for a token.
RaceCalls ==
    {Claim(ann, sa), Claim(bob, sb), Release(ann), Release(bob), Token(bob, "OPERATOR")}

\* The same with an admin who takes over.
TakeoverCalls ==
    {Claim(ann, sa), Claim(bob, sb), Release(ann), Takeover(adm, bob)}

\* Every kind of request, good and bad ids, every role of token.
AllCalls ==
    {Claim(ann, sa), Claim(bob, sa), Claim(ann, Nobody), Claim(adm, sa),
     Release(ann), Release(bob), Takeover(adm, bob), Takeover(adm, adm),
     Takeover(ann, ann), GrantTo(bob, "OPERATOR"), GrantTo(bob, "VIEWER"),
     GrantTo(Nobody, "VIEWER"), RevokeOf(ann), RevokeOf(bob),
     Token(bob, "OPERATOR"), Token(bob, "VIEWER"), Token(adm, "ADMIN"),
     Token(ann, "ADMIN"), Token(adm, "VIEWER")}

\* Requests are interchangeable.
RequestSymmetry == Permutations(Requests)
=============================================================================
