-------------------------- MODULE Sessions_proofs --------------------------
(***************************************************************************)
(* Proofs about Sessions, for any number of requests, sessions and tokens, *)
(* whatever each request may be for.                                       *)
(***************************************************************************)
EXTENDS Sessions, FiniteSetTheorems, TLAPS

(***************************************************************************)
(* The inductive invariant                                                 *)
(***************************************************************************)

Places == {"idle", "login", "google", "issue", "recordFamily", "recordIndex",
           "spend", "check", "dropFamily", "readReused", "delete", "deindex",
           "deleteFamily", "revoke", "collect", "wipe", "previous", "supersede",
           "make", "point", "announce", "redeem", "confirm"}

Operations == {"none", "refresh", "reuse", "logout", "logoutAll", "changePassword",
               "reset", "confirm"} \cup Purpose

Doing == [at : Places, op : Operations,
          about : Session \cup Token \cup {None}, family : Family \cup {None},
          version : Version, fresh : BOOLEAN, ids : SUBSET (Session \cup Family)]

Named == Session \cup Token

\* The types, with those of what a token says and of the requests.
Types ==
    /\ TypeOK
    /\ claim \in [Named -> Claim \cup {None}]
    /\ \A s \in Issued : claim[s].family \in Family
    /\ req \in [Request -> Doing]
    /\ outdated \subseteq Named \cup Request

\* Sessions and tokens are numbered as they are made, and no family has a number
\* of a session that is still to come.
Numbered ==
    /\ \A s \in Session : claim[s] # None <=> s[2] <= Cardinality(Issued)
    /\ \A t \in Token : claim[t] # None <=> t[2] <= Cardinality(Made(t[1]))
    /\ \A s \in Issued : claim[s].family[2] <= Cardinality(Issued)
    /\ \A p \in Request : req[p].family # None => req[p].family[2] <= Cardinality(Issued)

\* What a request is about, where it is.
About(p) ==
    LET r == req[p] IN
    /\ r.at \in {"recordFamily", "recordIndex"} => r.about \in Issued /\ r.family \in Family
    /\ r.at \in {"spend", "check"} =>
         /\ r.about \in Issued
         /\ r.family = claim[r.about].family
    /\ r.at = "spend" => r.ids \subseteq Session
    /\ r.at = "dropFamily" => r.family \in Family /\ r.ids # {} /\ r.ids \subseteq Session
    /\ r.at \in {"delete", "deindex", "deleteFamily"} => r.family \in Family
    /\ r.at \in {"login", "google", "redeem", "revoke", "collect", "wipe"} => r.family = None
    /\ r.at \in {"previous", "supersede", "make", "point", "announce"} => r.op \in Purpose
    /\ r.at \in {"point", "announce", "redeem"} =>
         r.about \in Token /\ claim[r.about] # None
    /\ r.at = "revoke" /\ r.op = "reset" =>
         /\ r.about \in Token /\ claim[r.about] # None
         /\ claim[r.about].version = r.version

\* Nothing is of a later tokenVersion than the user, and the copy of a request
\* that may still save the user is of the user's.
Versions ==
    /\ \A x \in Named : claim[x] # None => claim[x].version <= user.version
    /\ \A p \in Request : req[p].version <= user.version
    /\ \A p \in Request : At(p, "revoke") /\ req[p].fresh => req[p].version = user.version

\* What a revocation has outdated is of an earlier tokenVersion, and so is what a
\* request overtaken by one will issue.
Outdated ==
    /\ \A x \in outdated \cap Named : claim[x] # None /\ claim[x].version < user.version
    /\ \A p \in outdated \cap Request :
         /\ req[p].at \in Issues \cup {"recordFamily", "recordIndex", "point", "announce"}
         /\ req[p].version < user.version
    /\ spent \subseteq outdated

\* Taken from Redis, a session is with the request that renews it, and of each
\* family there is one in all.
Renewing(p) == req[p].at \in {"check", "issue"} /\ req[p].family # None

OneOfAFamily ==
    /\ OneSessionPerFamily
    /\ \A p \in Request : Renewing(p) => \A s \in stored : claim[s].family # req[p].family
    /\ \A p, q \in Request :
         Renewing(p) /\ Renewing(q) /\ req[p].family = req[q].family => p = q

IInv ==
    /\ Types
    /\ Numbered
    /\ \A p \in Request : About(p)
    /\ Versions
    /\ Outdated
    /\ OneOfAFamily

(***************************************************************************)
(* Requests                                                                *)
(***************************************************************************)

LEMMA IdleType == Idle \in Doing
    BY SessionsAssumption DEF Idle, Doing, Places, Operations, Version

LEMMA Fields ==
    ASSUME Types
    PROVE  /\ \A p \in Request :
                /\ req[p] \in Doing
                /\ req[p].at \in Places /\ req[p].op \in Operations
                /\ req[p].about \in Named \cup {None}
                /\ req[p].family \in Family \cup {None}
                /\ req[p].version \in Version
                /\ req[p].fresh \in BOOLEAN
                /\ req[p].ids \in SUBSET (Session \cup Family)
           /\ user.version \in Version /\ user.active \in BOOLEAN
           /\ \A f \in Family : family[f] # None => family[f] \in Current
    BY DEF Types, TypeOK, Doing, Named

\* The copies of the other requests that a save makes obsolete.
Staled(q) == [req[q] EXCEPT !.fresh = @ /\ req[q].at \notin Saves]

LEMMA GotoType ==
    ASSUME Types, NEW p \in Request, NEW r \in Doing, Goto(p, r)
    PROVE  req' \in [Request -> Doing] /\ req'[p] = r
    BY DEF Types, Goto

LEMMA StaledType ==
    ASSUME Types, NEW q \in Request
    PROVE  Staled(q) \in Doing
<1>1. req[q] \in Doing
    BY Fields
<1>2. (req[q].fresh /\ req[q].at \notin Saves) \in BOOLEAN
    OBVIOUS
<1> QED  BY <1>1, <1>2 DEF Staled, Doing

LEMMA SaveUserType ==
    ASSUME Types, NEW p \in Request, NEW r \in Doing, NEW u, SaveUser(p, u, r)
    PROVE  req' \in [Request -> Doing] /\ req'[p] = r
<1>1. req' = [q \in Request |-> IF q = p THEN r ELSE Staled(q)]
    BY DEF SaveUser, Staled
<1>2. \A q \in Request : Staled(q) \in Doing
    BY StaledType
<1> QED  BY <1>1, <1>2

\* Each request goes on to a place there is.
LEMMA RequestType ==
    ASSUME IInv, NEW p \in Request, Begin(p) \/ Continue(p)
    PROVE  req' \in [Request -> Doing]
<1> USE DEF Goto, Step
<1>a. Types /\ About(p) /\ req[p] \in Doing
    BY Fields DEF IInv
<1>b. \A l \in Places : [req[p] EXCEPT !.at = l] \in Doing
    BY <1>a, Fields DEF Doing, Named
<1>c. ASSUME NEW l \in Places, Step(p, l) PROVE req' \in [Request -> Doing]
    BY <1>a, <1>b, <1>c, GotoType
<1>d. ASSUME Finish(p) PROVE req' \in [Request -> Doing]
    BY <1>a, <1>d, IdleType, GotoType DEF Finish
<1>1. ASSUME RecordLogin(p) PROVE req' \in [Request -> Doing]
    BY <1>1, <1>c, <1>d DEF RecordLogin, Places
<1>2. ASSUME Refused(p) PROVE req' \in [Request -> Doing]
    BY <1>2, <1>c, <1>d DEF Refused, Places
<1>3. ASSUME Fail(p) PROVE req' \in [Request -> Doing]
    BY <1>3, <1>c, <1>d DEF Fail, Places
<1>4. ASSUME RecordFamily(p) PROVE req' \in [Request -> Doing]
    BY <1>4, <1>c, <1>d DEF RecordFamily, Places
<1>5. ASSUME RecordIndex(p) PROVE req' \in [Request -> Doing]
    BY <1>5, <1>c, <1>d DEF RecordIndex, Places
<1>6. ASSUME Spend(p) PROVE req' \in [Request -> Doing]
    BY <1>6, <1>c, <1>d DEF Spend, Places
<1>7. ASSUME DeleteSession(p) PROVE req' \in [Request -> Doing]
    BY <1>7, <1>c, <1>d DEF DeleteSession, Places
<1>8. ASSUME Deindex(p) PROVE req' \in [Request -> Doing]
    BY <1>8, <1>c, <1>d DEF Deindex, Places
<1>9. ASSUME DeleteFamily(p) PROVE req' \in [Request -> Doing]
    BY <1>9, <1>c, <1>d DEF DeleteFamily, Places
<1>10. ASSUME Point(p) PROVE req' \in [Request -> Doing]
    BY <1>10, <1>c, <1>d DEF Point, Places
<1>11. ASSUME Announce(p) PROVE req' \in [Request -> Doing]
    BY <1>11, <1>c, <1>d DEF Announce, Places
<1>12. ASSUME Withdraw(p) PROVE req' \in [Request -> Doing]
    BY <1>12, <1>c, <1>d DEF Withdraw, Places
<1>13. ASSUME Login(p) PROVE req' \in [Request -> Doing]
    <2>1. Read(p, "login", "none")
        BY <1>13 DEF Login
    <2>2. [Idle EXCEPT !.at = "login", !.op = "none",
                       !.version = user.version] \in Doing
        BY <1>a, IdleType, Fields DEF Doing, Named, Places, Operations, Purpose
    <2> QED  BY <1>a, <2>1, <2>2, GotoType DEF Read
<1>14. ASSUME Google(p) PROVE req' \in [Request -> Doing]
    <2>1. Read(p, "google", "none")
        BY <1>14 DEF Google
    <2>2. [Idle EXCEPT !.at = "google", !.op = "none",
                       !.version = user.version] \in Doing
        BY <1>a, IdleType, Fields DEF Doing, Named, Places, Operations, Purpose
    <2> QED  BY <1>a, <2>1, <2>2, GotoType DEF Read
<1>15. ASSUME LogoutAll(p) PROVE req' \in [Request -> Doing]
    <2>1. Read(p, "revoke", "logoutAll")
        BY <1>15 DEF LogoutAll
    <2>2. [Idle EXCEPT !.at = "revoke", !.op = "logoutAll",
                       !.version = user.version] \in Doing
        BY <1>a, IdleType, Fields DEF Doing, Named, Places, Operations, Purpose
    <2> QED  BY <1>a, <2>1, <2>2, GotoType DEF Read
<1>16. ASSUME ChangePassword(p) PROVE req' \in [Request -> Doing]
    <2>1. Read(p, "revoke", "changePassword")
        BY <1>16 DEF ChangePassword
    <2>2. [Idle EXCEPT !.at = "revoke", !.op = "changePassword",
                       !.version = user.version] \in Doing
        BY <1>a, IdleType, Fields DEF Doing, Named, Places, Operations, Purpose
    <2> QED  BY <1>a, <2>1, <2>2, GotoType DEF Read
<1>17. ASSUME AskReset(p) PROVE req' \in [Request -> Doing]
    <2>1. Read(p, "previous", "password-reset")
        BY <1>17 DEF AskReset
    <2>2. [Idle EXCEPT !.at = "previous", !.op = "password-reset",
                       !.version = user.version] \in Doing
        BY <1>a, IdleType, Fields DEF Doing, Named, Places, Operations, Purpose
    <2> QED  BY <1>a, <2>1, <2>2, GotoType DEF Read
<1>18. ASSUME AskCheck(p) PROVE req' \in [Request -> Doing]
    <2>1. Read(p, "previous", "email-verification")
        BY <1>18 DEF AskCheck
    <2>2. [Idle EXCEPT !.at = "previous", !.op = "email-verification",
                       !.version = user.version] \in Doing
        BY <1>a, IdleType, Fields DEF Doing, Named, Places, Operations, Purpose
    <2> QED  BY <1>a, <2>1, <2>2, GotoType DEF Read
<1>19. ASSUME SaveGoogle(p) PROVE req' \in [Request -> Doing]
    BY <1>19, <1>a, <1>b, SaveUserType DEF SaveGoogle, Places
<1>20. ASSUME Confirm(p) PROVE req' \in [Request -> Doing]
    BY <1>20, <1>a, IdleType, SaveUserType DEF Confirm
<1>21. ASSUME IssueSession(p) PROVE req' \in [Request -> Doing]
    <2> DEFINE m == Cardinality(Issued) + 1
               s == <<"session", m>>
               f == IF req[p].family = None THEN <<"family", m>> ELSE req[p].family
    <2>1. /\ s \in Session
          /\ Goto(p, [req[p] EXCEPT !.at = "recordFamily", !.about = s, !.family = f])
        BY <1>21 DEF IssueSession
    <2>2. f \in Family
        BY <2>1, <1>a, Fields DEF Session, Family
    <2>3. [req[p] EXCEPT !.at = "recordFamily", !.about = s, !.family = f] \in Doing
        BY <1>a, <2>1, <2>2, Fields DEF Doing, Named, Places, Named
    <2> QED  BY <1>a, <2>1, <2>3, GotoType
<1>22. ASSUME Check(p) PROVE req' \in [Request -> Doing]
    <2>1. [req[p] EXCEPT !.at = "issue", !.op = "none", !.about = None,
                         !.version = user.version] \in Doing
        BY <1>a, Fields DEF Doing, Named, Places, Operations
    <2> QED  BY <1>22, <1>a, <1>d, <2>1, GotoType DEF Check, Renew
<1>23. ASSUME DropFamily(p) PROVE req' \in [Request -> Doing]
    <2> DEFINE c == CHOOSE s \in req[p].ids : TRUE
               i == IF c \in stored THEN {c} ELSE {}
    <2>1. c \in Session
        BY <1>23, <1>a DEF DropFamily, At, About
    <2>2. [req[p] EXCEPT !.at = "delete", !.about = c, !.ids = i] \in Doing
        <3>1. c \in Named \cup {None} /\ i \in SUBSET (Session \cup Family)
            BY <2>1 DEF Named
        <3> HIDE DEF c, i
        <3> QED  BY <1>a, <3>1, Fields DEF Doing, Named, Places
    <2> QED  BY <1>23, <1>a, <2>2, GotoType DEF DropFamily
<1>24. ASSUME ReadReused(p) PROVE req' \in [Request -> Doing]
    <2>1. [Idle EXCEPT !.at = "revoke", !.op = "reuse", !.version = user.version] \in Doing
        BY <1>a, IdleType, Fields DEF Doing, Named, Places, Operations
    <2> QED  BY <1>24, <1>a, <2>1, GotoType DEF ReadReused
<1>25. ASSUME Advance(p) PROVE req' \in [Request -> Doing]
    <2> DEFINE v == req[p].version + 1
    <2>1. v \in Version /\ SaveUser(p, [user EXCEPT !.version = v], Collecting(p, v))
        BY <1>25 DEF Advance
    <2>2. [req[p] EXCEPT !.at = "collect", !.version = v] \in Doing
        BY <1>a, <2>1, Fields DEF Doing, Named, Places
    <2>3. [Idle EXCEPT !.at = "collect"] \in Doing
        BY IdleType, Fields DEF Doing, Named, Places
    <2> QED  BY <1>a, <2>1, <2>2, <2>3, SaveUserType DEF Collecting
<1>26. ASSUME Collect(p) PROVE req' \in [Request -> Doing]
    <2> DEFINE i == index \cup {claim[s].family : s \in index \cap stored}
    <2>1. i \in SUBSET (Session \cup Family)
        BY <1>a DEF Types, TypeOK, Issued
    <2>2. [req[p] EXCEPT !.at = "wipe", !.ids = i] \in Doing
        <3> HIDE DEF i
        <3> QED  BY <1>a, <2>1, Fields DEF Doing, Named, Places
    <2> QED  BY <1>26, <1>a, <2>2, GotoType DEF Collect
<1>27. ASSUME Wipe(p) PROVE req' \in [Request -> Doing]
    <2>1. [req[p] EXCEPT !.at = "issue", !.op = "none", !.ids = {}] \in Doing
        BY <1>a, Fields DEF Doing, Named, Places, Operations
    <2> QED  BY <1>27, <1>a, <1>d, <2>1, GotoType DEF Wipe
<1>28. ASSUME Previous(p) PROVE req' \in [Request -> Doing]
    <2> DEFINE t == pointer[req[p].op]
               l == IF t = None THEN "make" ELSE "supersede"
    <2>1. t \in Token \cup {None} /\ l \in Places
        BY <1>28, <1>a DEF Previous, At, About, Types, TypeOK, Places
    <2>2. [req[p] EXCEPT !.at = l, !.about = t] \in Doing
        <3> HIDE DEF t, l
        <3> QED  BY <1>a, <2>1, Fields DEF Doing, Named
    <2> QED  BY <1>28, <1>a, <2>2, GotoType DEF Previous
<1>29. ASSUME Supersede(p) PROVE req' \in [Request -> Doing]
    <2>1. [req[p] EXCEPT !.at = "make", !.about = None] \in Doing
        BY <1>a, Fields DEF Doing, Named, Places
    <2> QED  BY <1>29, <1>a, <2>1, GotoType DEF Supersede
<1>30. ASSUME MakeToken(p) PROVE req' \in [Request -> Doing]
    <2> DEFINE t == <<req[p].op, Cardinality(Made(req[p].op)) + 1>>
    <2>1. t \in Token /\ Goto(p, [req[p] EXCEPT !.at = "point", !.about = t])
        BY <1>30 DEF MakeToken
    <2>2. [req[p] EXCEPT !.at = "point", !.about = t] \in Doing
        <3>1. t \in Named \cup {None}
            BY <2>1 DEF Named
        <3> HIDE DEF t
        <3> QED  BY <1>a, <3>1, Fields DEF Doing, Named, Places
    <2> QED  BY <1>a, <2>1, <2>2, GotoType
<1>31. ASSUME Redeem(p) PROVE req' \in [Request -> Doing]
    <2>1. [req[p] EXCEPT !.at = "revoke", !.op = "reset", !.version = user.version] \in Doing
        BY <1>a, Fields DEF Doing, Named, Places, Operations
    <2>2. [req[p] EXCEPT !.at = "confirm", !.op = "confirm"] \in Doing
        BY <1>a, Fields DEF Doing, Named, Places, Operations
    <2> QED  BY <1>31, <1>a, <1>d, <2>1, <2>2, GotoType DEF Redeem
<1>32. ASSUME NEW x \in Session, Refresh(p, x) PROVE req' \in [Request -> Doing]
    <2> DEFINE f == family[claim[x].family]
               reused == f # None /\ f.version = claim[x].version /\ f.current # x
               i == IF reused THEN {f.current} ELSE {}
    <2>1. claim[x].family \in Family
        BY <1>32, <1>a DEF Refresh, Types, TypeOK, Issued
    <2>2. i \in SUBSET (Session \cup Family)
        BY <1>a, <2>1, Fields DEF Current
    <2>3. [Idle EXCEPT !.at = "spend", !.op = "refresh", !.about = x,
                       !.family = claim[x].family, !.ids = i] \in Doing
        <3>1. x \in Named \cup {None}
            BY DEF Named
        <3> HIDE DEF i
        <3> QED  BY <2>1, <2>2, <3>1, IdleType, Fields DEF Doing, Named, Places,
                    Operations
    <2>4. Goto(p, [Idle EXCEPT !.at = "spend", !.op = "refresh", !.about = x,
                               !.family = claim[x].family, !.ids = i])
        BY <1>32 DEF Refresh
    <2> QED  BY <1>a, <2>3, <2>4, GotoType
<1>33. ASSUME NEW x \in Session, Revoke(p, x) PROVE req' \in [Request -> Doing]
    <2>1. claim[x].family \in Family
        BY <1>33, <1>a DEF Revoke, Types, TypeOK
    <2>2. [Idle EXCEPT !.at = "delete", !.op = "logout", !.about = x,
                       !.family = claim[x].family, !.ids = {x}] \in Doing
        <3>1. x \in Named \cup {None} /\ {x} \in SUBSET (Session \cup Family)
            BY DEF Named
        <3> QED  BY <2>1, <3>1, IdleType, Fields DEF Doing, Named, Places,
                    Operations
    <2> QED  BY <1>33, <1>a, <2>2, GotoType DEF Revoke
<1>34. ASSUME NEW x \in Token, Consume(p, x) PROVE req' \in [Request -> Doing]
    <2>1. [Idle EXCEPT !.at = "redeem", !.about = x] \in Doing
        <3>1. x \in Named \cup {None}
            BY DEF Named
        <3> QED  BY <3>1, IdleType, Fields DEF Doing, Named, Places
    <2> QED  BY <1>34, <1>a, <2>1, GotoType DEF Consume
<1> QED  BY <1>1, <1>2, <1>3, <1>4, <1>5, <1>6, <1>7, <1>8, <1>9, <1>10, <1>11,
            <1>12, <1>13, <1>14, <1>15, <1>16, <1>17, <1>18, <1>19, <1>20, <1>21,
            <1>22, <1>23, <1>24, <1>25, <1>26, <1>27, <1>28, <1>29, <1>30, <1>31,
            <1>32, <1>33, <1>34 DEF Begin, Continue

\* What the step of a request leaves of another one: all, but for the copy of the
\* user it may make obsolete.
Left(q) ==
    /\ req'[q].at = req[q].at /\ req'[q].op = req[q].op
    /\ req'[q].about = req[q].about /\ req'[q].family = req[q].family
    /\ req'[q].version = req[q].version /\ req'[q].ids = req[q].ids
    /\ req'[q].fresh => req[q].fresh
    /\ At(q, "revoke") /\ req'[q].fresh => user'.version = user.version

LEMMA LeftByGoto ==
    ASSUME Types, NEW p \in Request, NEW r, Goto(p, r), user'.version = user.version,
           NEW q \in Request \ {p}
    PROVE  Left(q)
    BY DEF Goto, Left, Types

LEMMA LeftByStaling ==
    ASSUME Types, NEW q \in Request, req'[q] = Staled(q)
    PROVE  Left(q)
    BY Fields DEF Staled, Doing, Left, Saves, At

LEMMA LeftBySave ==
    ASSUME Types, NEW p \in Request, NEW u, NEW r, SaveUser(p, u, r),
           NEW q \in Request \ {p}
    PROVE  Left(q)
<1>1. req'[q] = Staled(q)
    BY DEF SaveUser, Staled
<1> QED  BY <1>1, LeftByStaling

LEMMA Others ==
    ASSUME IInv, NEW p \in Request, Begin(p) \/ Continue(p), NEW q \in Request \ {p}
    PROVE  Left(q)
<1>a. Types
    BY DEF IInv
<1>1. ASSUME SaveGoogle(p)
      PROVE  Left(q)
    BY <1>1, <1>a, LeftBySave DEF SaveGoogle
<1>2. ASSUME Advance(p)
      PROVE  Left(q)
    BY <1>2, <1>a, LeftBySave DEF Advance
<1>3. ASSUME Confirm(p)
      PROVE  Left(q)
    BY <1>3, <1>a, LeftBySave DEF Confirm
<1>4. ASSUME \/ Login(p) \/ Google(p) \/ LogoutAll(p)
                \/ ChangePassword(p) \/ AskReset(p) \/ AskCheck(p)
      PROVE  Left(q)
    BY <1>4, <1>a, LeftByGoto DEF Login, Google, LogoutAll, ChangePassword,
       AskReset, AskCheck, Read
<1>5. ASSUME \/ RecordLogin(p) \/ Refused(p) \/ Fail(p)
                \/ IssueSession(p) \/ RecordFamily(p) \/ RecordIndex(p)
      PROVE  Left(q)
    BY <1>5, <1>a, LeftByGoto DEF RecordLogin, Refused, Fail, IssueSession,
       RecordFamily, RecordIndex, Step, Finish
<1>6. ASSUME \/ Spend(p) \/ Check(p) \/ DropFamily(p)
                \/ ReadReused(p)
      PROVE  Left(q)
    BY <1>6, <1>a, LeftByGoto DEF Spend, Check, DropFamily, ReadReused, Step,
       Finish, Renew
<1>7. ASSUME \/ DeleteSession(p) \/ Deindex(p) \/ DeleteFamily(p)
                \/ Collect(p) \/ Wipe(p)
      PROVE  Left(q)
    BY <1>7, <1>a, LeftByGoto DEF DeleteSession, Deindex, DeleteFamily, Collect,
       Wipe, Step, Finish
<1>8. ASSUME \/ Previous(p) \/ Supersede(p) \/ MakeToken(p)
                \/ Point(p) \/ Announce(p) \/ Withdraw(p)
                \/ Redeem(p)
      PROVE  Left(q)
    BY <1>8, <1>a, LeftByGoto DEF Previous, Supersede, MakeToken, Point, Announce,
       Withdraw, Redeem, Step, Finish
<1>9. ASSUME \E s \in Session : Refresh(p, s)
      PROVE  Left(q)
    BY <1>9, <1>a, LeftByGoto DEF Refresh
<1>10. ASSUME \E s \in Session : Revoke(p, s)
      PROVE  Left(q)
    BY <1>10, <1>a, LeftByGoto DEF Revoke
<1>11. ASSUME \E t \in Token : Consume(p, t)
      PROVE  Left(q)
    BY <1>11, <1>a, LeftByGoto DEF Consume
<1> QED  BY <1>1, <1>2, <1>3, <1>4, <1>5, <1>6, <1>7, <1>8, <1>9, <1>10, <1>11 DEF
            Begin, Continue

(***************************************************************************)
(* What tokens say                                                         *)
(***************************************************************************)

LEMMA Counted ==
    /\ IsFiniteSet(Issued) /\ Cardinality(Issued) \in Nat
    /\ \A k : IsFiniteSet(Made(k)) /\ Cardinality(Made(k)) \in Nat
<1>1. IsFiniteSet(1 .. Sessions) /\ IsFiniteSet(1 .. Resets) /\ IsFiniteSet(1 .. Checks)
    BY FS_Interval, SessionsAssumption
<1>2. \A x : IsFiniteSet({x})
    BY FS_Singleton
<1>3. IsFiniteSet(Session)
    BY <1>1, <1>2, FS_Product DEF Session
<1>4. IsFiniteSet(Token)
    BY <1>1, <1>2, FS_Product, FS_Union DEF Token
<1>5. Issued \subseteq Session /\ \A k : Made(k) \subseteq Token
    BY DEF Issued, Made
<1>6. IsFiniteSet(Issued) /\ \A k : IsFiniteSet(Made(k))
    BY <1>3, <1>4, <1>5, FS_Subset
<1> QED  BY <1>6, FS_CardinalityType

\* A number that no session, or no token of its purpose, has yet.
LEMMA NewSession ==
    ASSUME Numbered, NEW s \in Session, s[2] = Cardinality(Issued) + 1
    PROVE  claim[s] = None
    BY Counted DEF Numbered, Session

LEMMA NewToken ==
    ASSUME Numbered, NEW t \in Token, t[2] = Cardinality(Made(t[1])) + 1
    PROVE  claim[t] = None
    BY Counted DEF Numbered, Token

LEMMA SessionsAndTokens == Session \cap Token = {}
    BY DEF Session, Token

\* Only the issue of a session and the making of a token write what one says, and
\* the token is a new one.
LEMMA ClaimsStay ==
    ASSUME IInv, NEW p \in Request, Begin(p) \/ Continue(p)
    PROVE  /\ \A x \in Named : claim[x] # None => claim'[x] = claim[x]
           /\ claim' = claim \/ IssueSession(p) \/ MakeToken(p)
<1> DEFINE Stay == \A x \in Named : claim[x] # None => claim'[x] = claim[x]
<1>a. Numbered /\ claim \in [Named -> Claim \cup {None}]
    BY DEF IInv, Types
<1>1. ASSUME IssueSession(p) PROVE Stay
    <2> DEFINE s == <<"session", Cardinality(Issued) + 1>>
    <2>1. /\ s \in Session
          /\ \E c : claim' = [claim EXCEPT ![s] = c]
        BY <1>1 DEF IssueSession
    <2>2. claim[s] = None
        BY <1>a, <2>1, NewSession
    <2> QED  BY <1>a, <2>1, <2>2 DEF Named
<1>2. ASSUME MakeToken(p) PROVE Stay
    <2> DEFINE t == <<req[p].op, Cardinality(Made(req[p].op)) + 1>>
    <2>1. /\ t \in Token
          /\ \E c : claim' = [claim EXCEPT ![t] = c]
        BY <1>2 DEF MakeToken
    <2>2. claim[t] = None
        BY <1>a, <2>1, NewToken
    <2> QED  BY <1>a, <2>1, <2>2 DEF Named
<1>3. CASE ~(IssueSession(p) \/ MakeToken(p))
    <2>1. claim' = claim
        BY <1>3 DEF Begin, Continue, Login, Google, Refresh, Revoke, LogoutAll,
            ChangePassword, AskReset, AskCheck, Consume, Read, RecordLogin,
            SaveGoogle, Refused, Fail, RecordFamily, RecordIndex, Spend, Check,
            DropFamily, ReadReused, DeleteSession, Deindex, DeleteFamily, Advance,
            Collect, Wipe, Previous, Supersede, Point, Announce, Withdraw, Redeem,
            Confirm
    <2> QED  BY <2>1
<1> QED  BY <1>1, <1>2, <1>3

\* The session an issue makes, and the token a request makes.
LEMMA TheSession ==
    ASSUME IInv, NEW p \in Request, IssueSession(p)
    PROVE  \E s \in Session, f \in Family :
             /\ s = <<"session", Cardinality(Issued) + 1>> /\ claim[s] = None
             /\ f = IF req[p].family = None THEN <<"family", Cardinality(Issued) + 1>>
                                            ELSE req[p].family
             /\ claim' = [claim EXCEPT ![s] = [version |-> req[p].version, family |-> f]]
             /\ [version |-> req[p].version, family |-> f] \in Claim
             /\ Issued' = Issued \cup {s} /\ \A k : Made(k)' = Made(k)
             /\ Goto(p, [req[p] EXCEPT !.at = "recordFamily", !.about = s, !.family = f])
             /\ stored' = stored \cup {s}
             /\ outdated' = IF p \in outdated THEN outdated \cup {s} ELSE outdated
<1> DEFINE m == Cardinality(Issued) + 1
           s == <<"session", m>>
           f == IF req[p].family = None THEN <<"family", m>> ELSE req[p].family
           c == [version |-> req[p].version, family |-> f]
<1>a. Types /\ Numbered
    BY DEF IInv
<1>1. /\ s \in Session
      /\ claim' = [claim EXCEPT ![s] = c]
      /\ stored' = stored \cup {s}
      /\ Goto(p, [req[p] EXCEPT !.at = "recordFamily", !.about = s, !.family = f])
      /\ outdated' = IF p \in outdated THEN outdated \cup {s} ELSE outdated
    BY DEF IssueSession
<1>2. claim[s] = None
    BY <1>a, <1>1, NewSession
<1>3. f \in Family
    BY <1>1, <1>a, Fields DEF Session, Family
<1>4. c \in Claim
    BY <1>a, <1>3, Fields DEF Claim
<1>5. c # None
    BY <1>4, NamesAssumption
<1>6. Issued' = Issued \cup {s} /\ \A k : Made(k)' = Made(k)
    <2>1. s \notin Token
        BY <1>1, SessionsAndTokens
    <2> HIDE DEF s, c
    <2> QED  BY <1>a, <1>1, <1>5, <2>1 DEF Issued, Made, Types, Named
<1> QED  BY <1>1, <1>2, <1>3, <1>4, <1>6

LEMMA TheToken ==
    ASSUME IInv, NEW p \in Request, MakeToken(p)
    PROVE  \E t \in Token :
             /\ t = <<req[p].op, Cardinality(Made(req[p].op)) + 1>> /\ claim[t] = None
             /\ claim' = [claim EXCEPT ![t] = [version |-> req[p].version, family |-> None]]
             /\ [version |-> req[p].version, family |-> None] \in Claim
             /\ Issued' = Issued
             /\ \A k : Made(k)' = IF k = req[p].op THEN Made(k) \cup {t} ELSE Made(k)
             /\ Goto(p, [req[p] EXCEPT !.at = "point", !.about = t])
             /\ record' = record \cup {t}
             /\ outdated' = IF p \in outdated THEN outdated \cup {t} ELSE outdated
<1> DEFINE o == req[p].op
           t == <<o, Cardinality(Made(o)) + 1>>
           c == [version |-> req[p].version, family |-> None]
<1>a. Types /\ Numbered
    BY DEF IInv
<1>1. /\ t \in Token
      /\ claim' = [claim EXCEPT ![t] = c]
      /\ record' = record \cup {t}
      /\ Goto(p, [req[p] EXCEPT !.at = "point", !.about = t])
      /\ outdated' = IF p \in outdated THEN outdated \cup {t} ELSE outdated
    BY DEF MakeToken
<1>2. claim[t] = None /\ t[1] = o
    BY <1>a, <1>1, NewToken
<1>4. c \in Claim
    BY <1>a, Fields DEF Claim
<1>5. c # None
    BY <1>4, NamesAssumption
<1>6. Issued' = Issued /\ \A k : Made(k)' = IF k = o THEN Made(k) \cup {t} ELSE Made(k)
    <2>1. t \notin Session
        BY <1>1, SessionsAndTokens
    <2> HIDE DEF t, c, o
    <2> QED  BY <1>a, <1>1, <1>2, <1>5, <2>1 DEF Issued, Made, Types, Named
<1> QED  BY <1>1, <1>2, <1>4, <1>6

(***************************************************************************)
(* Types                                                                   *)
(***************************************************************************)

LEMMA ClaimType ==
    ASSUME IInv, NEW p \in Request, Begin(p) \/ Continue(p)
    PROVE  /\ claim' \in [Named -> Claim \cup {None}]
           /\ \A s \in Issued' : claim'[s].family \in Family
           /\ Issued \subseteq Issued'
<1>a. Types
    BY DEF IInv
<1>1. CASE claim' = claim
    BY <1>a, <1>1 DEF Types, Issued
<1>2. CASE IssueSession(p)
    <2>1. PICK s \in Session, f \in Family :
             /\ claim' = [claim EXCEPT ![s] = [version |-> req[p].version, family |-> f]]
             /\ [version |-> req[p].version, family |-> f] \in Claim
             /\ Issued' = Issued \cup {s}
        BY <1>2, TheSession
    <2> QED  BY <1>a, <2>1 DEF Types, Named, Issued
<1>3. CASE MakeToken(p)
    <2>1. PICK t \in Token :
             /\ claim' = [claim EXCEPT ![t] = [version |-> req[p].version, family |-> None]]
             /\ [version |-> req[p].version, family |-> None] \in Claim
             /\ Issued' = Issued
        BY <1>3, TheToken
    <2>2. Issued \subseteq Session /\ t \notin Session
        BY SessionsAndTokens DEF Issued
    <2> QED  BY <1>a, <2>1, <2>2 DEF Types, Named
<1> QED  BY <1>1, <1>2, <1>3, ClaimsStay

\* The keys in Redis and the sessions and tokens in the hands of the user.
Keys ==
    /\ stored \subseteq Issued /\ index \subseteq Issued
    /\ family \in [Family -> Current \cup {None}]
    /\ record \subseteq Token
    /\ pointer \in [Purpose -> Token \cup {None}]
    /\ given \subseteq {t \in Named : claim[t] # None}

LEMMA KeysType ==
    ASSUME IInv, NEW p \in Request, Begin(p) \/ Continue(p)
    PROVE  Keys'
<1>a. Types /\ Keys /\ About(p) /\ req[p] \in Doing
    BY Fields DEF IInv, Types, TypeOK, Keys, Named
<1>b. Issued \subseteq Issued' /\ \A x \in Named : claim[x] # None => claim'[x] # None
    BY ClaimType, ClaimsStay
<1>c. claim' = claim => Issued' = Issued
    BY DEF Issued
<1>1. ASSUME \/ Login(p) \/ Google(p) \/ LogoutAll(p)
                \/ ChangePassword(p) \/ AskReset(p) \/ AskCheck(p)
      PROVE  Keys'
    BY <1>1, <1>a, <1>b DEF Login, Google, LogoutAll, ChangePassword, AskReset,
       AskCheck, Read, Keys, redis
<1>2. ASSUME \/ RecordLogin(p) \/ SaveGoogle(p) \/ Refused(p)
                \/ Fail(p)
      PROVE  Keys'
    BY <1>2, <1>a, <1>b DEF RecordLogin, SaveGoogle, Refused, Fail, Keys, redis
<1>3. ASSUME IssueSession(p)
      PROVE  Keys'
    BY <1>3, <1>a, <1>b, TheSession DEF IssueSession, Keys
<1>4. ASSUME RecordFamily(p)
      PROVE  Keys'
    BY <1>4, <1>a, <1>b, Fields DEF RecordFamily, Keys, At, About, Current, Issued
<1>5. ASSUME RecordIndex(p)
      PROVE  Keys'
    BY <1>5, <1>a, <1>b DEF RecordIndex, Keys, At, About, Named, Issued
<1>6. ASSUME Spend(p)
      PROVE  Keys'
    BY <1>6, <1>a, <1>b DEF Spend, Keys
<1>7. ASSUME Check(p)
      PROVE  Keys'
    BY <1>7, <1>a, <1>b DEF Check, Keys
<1>8. ASSUME \/ DropFamily(p) \/ DeleteFamily(p)
      PROVE  Keys'
    BY <1>8, <1>a, <1>b DEF DropFamily, DeleteFamily, Keys
<1>9. ASSUME \/ ReadReused(p) \/ DeleteSession(p) \/ Deindex(p)
                \/ Advance(p)
      PROVE  Keys'
    BY <1>9, <1>a, <1>b DEF ReadReused, DeleteSession, Deindex, Advance, Keys, redis
<1>10. ASSUME Collect(p)
      PROVE  Keys'
    BY <1>10, <1>a, <1>b DEF Collect, Keys, redis
<1>11. ASSUME Wipe(p)
      PROVE  Keys'
    BY <1>11, <1>a, <1>b DEF Wipe, Keys
<1>12. ASSUME \/ Previous(p) \/ Supersede(p)
      PROVE  Keys'
    BY <1>12, <1>a, <1>b DEF Previous, Supersede, Keys, redis
<1>13. ASSUME MakeToken(p)
      PROVE  Keys'
    BY <1>13, <1>a, <1>b DEF MakeToken, Keys
<1>14. ASSUME Point(p)
      PROVE  Keys'
    BY <1>14, <1>a, <1>b DEF Point, Keys, At, About
<1>15. ASSUME Announce(p)
      PROVE  Keys'
    BY <1>15, <1>a, <1>b DEF Announce, Keys, redis, At, About, Named
<1>16. ASSUME Withdraw(p)
      PROVE  Keys'
    BY <1>16, <1>a, <1>b DEF Withdraw, Keys, At, About
<1>17. ASSUME \/ Redeem(p) \/ Confirm(p)
      PROVE  Keys'
    BY <1>17, <1>a, <1>b DEF Redeem, Confirm, Keys, redis
<1>18. ASSUME \/ \E s \in Session : Refresh(p, s)
              \/ \E s \in Session : Revoke(p, s)
      PROVE  Keys'
    BY <1>18, <1>a, <1>b DEF Refresh, Revoke, Keys, redis
<1>19. ASSUME \E t \in Token : Consume(p, t)
      PROVE  Keys'
    BY <1>19, <1>a, <1>b DEF Consume, Keys
<1> QED  BY <1>1, <1>2, <1>3, <1>4, <1>5, <1>6, <1>7, <1>8, <1>9, <1>10, <1>11,
            <1>12, <1>13, <1>14, <1>15, <1>16, <1>17, <1>18, <1>19 DEF Begin,
            Continue

\* The tokenVersion of the user only grows.
LEMMA UserType ==
    ASSUME IInv, NEW p \in Request, Begin(p) \/ Continue(p)
    PROVE  /\ user' \in [version : Version, active : BOOLEAN, verified : BOOLEAN]
           /\ user'.version >= user.version
           /\ Advance(p) => user'.version > req[p].version
           /\ Advance(p) /\ req[p].fresh => user'.version > user.version
           /\ ~Advance(p) => user'.version = user.version
<1>a. /\ user \in [version : Version, active : BOOLEAN, verified : BOOLEAN]
      /\ user.version \in Int
      /\ req[p].version \in Int
      /\ At(p, "revoke") /\ req[p].fresh => req[p].version = user.version
    BY Fields, SessionsAssumption DEF IInv, Types, TypeOK, Versions, Version
<1>1. CASE Advance(p)
    BY <1>1, <1>a DEF Advance, SaveUser
<1>2. CASE SaveGoogle(p) \/ Confirm(p)
    <2>1. ~Advance(p)
        BY <1>2 DEF SaveGoogle, Confirm, Advance, At
    <2>2. user' = [user EXCEPT !.verified = TRUE]
        BY <1>2 DEF SaveGoogle, Confirm, SaveUser
    <2>3. /\ user' \in [version : Version, active : BOOLEAN, verified : BOOLEAN]
          /\ user'.version = user.version
        BY <2>2, <1>a
    <2> QED  BY <2>1, <2>3, <1>a
<1>3. CASE ~(Advance(p) \/ SaveGoogle(p) \/ Confirm(p))
    <2>1. user' = user
        BY <1>3 DEF Begin, Continue, Login, Google, Refresh, Revoke, LogoutAll,
            ChangePassword, AskReset, AskCheck, Consume, Read, RecordLogin, Refused,
            Fail, IssueSession, RecordFamily, RecordIndex, Spend, Check, DropFamily,
            ReadReused, DeleteSession, Deindex, DeleteFamily, Collect, Wipe, Previous,
            Supersede, MakeToken, Point, Announce, Withdraw, Redeem
    <2> QED  BY <1>3, <2>1, <1>a
<1> QED  BY <1>1, <1>2, <1>3

\* What is outdated, with what spent tokens have set a password.
LEMMA OutdatedType ==
    ASSUME IInv, NEW p \in Request, Begin(p) \/ Continue(p)
    PROVE  outdated' \subseteq Named \cup Request /\ spent' \subseteq Token
<1>a. /\ outdated \subseteq Named \cup Request /\ spent \subseteq Token
      /\ About(p)
    BY DEF IInv, Types, TypeOK
<1>1. ASSUME \/ Login(p) \/ Google(p) \/ LogoutAll(p)
                \/ ChangePassword(p) \/ AskReset(p) \/ AskCheck(p)
      PROVE  outdated' \subseteq Named \cup Request /\ spent' \subseteq Token
    BY <1>1, <1>a DEF Login, Google, LogoutAll, ChangePassword, AskReset, AskCheck,
       Read
<1>2. ASSUME \/ RecordLogin(p) \/ SaveGoogle(p) \/ Refused(p)
                \/ Fail(p)
      PROVE  outdated' \subseteq Named \cup Request /\ spent' \subseteq Token
    BY <1>2, <1>a DEF RecordLogin, SaveGoogle, Refused, Fail, Finish
<1>3. ASSUME IssueSession(p)
      PROVE  outdated' \subseteq Named \cup Request /\ spent' \subseteq Token
    BY <1>3, <1>a, TheSession DEF IssueSession, Named
<1>4. ASSUME \/ RecordFamily(p) \/ RecordIndex(p) \/ Spend(p)
                \/ DropFamily(p)
      PROVE  outdated' \subseteq Named \cup Request /\ spent' \subseteq Token
    BY <1>4, <1>a DEF RecordFamily, RecordIndex, Spend, DropFamily, Finish
<1>5. ASSUME \/ Check(p) \/ ReadReused(p)
      PROVE  outdated' \subseteq Named \cup Request /\ spent' \subseteq Token
    BY <1>5, <1>a DEF Check, ReadReused, Finish, Renew
<1>6. ASSUME \/ DeleteSession(p) \/ Deindex(p) \/ DeleteFamily(p)
                \/ Collect(p) \/ Wipe(p)
      PROVE  outdated' \subseteq Named \cup Request /\ spent' \subseteq Token
    BY <1>6, <1>a DEF DeleteSession, Deindex, DeleteFamily, Collect, Wipe, Finish
<1>7. ASSUME Advance(p)
      PROVE  outdated' \subseteq Named \cup Request /\ spent' \subseteq Token
    BY <1>7, <1>a DEF Advance, Outdate, Issued, Named, At, About
<1>8. ASSUME \/ Previous(p) \/ Supersede(p)
      PROVE  outdated' \subseteq Named \cup Request /\ spent' \subseteq Token
    BY <1>8, <1>a DEF Previous, Supersede
<1>9. ASSUME MakeToken(p)
      PROVE  outdated' \subseteq Named \cup Request /\ spent' \subseteq Token
    BY <1>9, <1>a, TheToken DEF MakeToken, Named
<1>10. ASSUME \/ Point(p) \/ Announce(p) \/ Withdraw(p)
                \/ Redeem(p) \/ Confirm(p)
      PROVE  outdated' \subseteq Named \cup Request /\ spent' \subseteq Token
    BY <1>10, <1>a DEF Point, Announce, Withdraw, Redeem, Confirm, Finish
<1>11. ASSUME \E s \in Session : Refresh(p, s)
      PROVE  outdated' \subseteq Named \cup Request /\ spent' \subseteq Token
    BY <1>11, <1>a DEF Refresh
<1>12. ASSUME \E s \in Session : Revoke(p, s)
      PROVE  outdated' \subseteq Named \cup Request /\ spent' \subseteq Token
    BY <1>12, <1>a DEF Revoke
<1>13. ASSUME \E t \in Token : Consume(p, t)
      PROVE  outdated' \subseteq Named \cup Request /\ spent' \subseteq Token
    BY <1>13, <1>a DEF Consume
<1> QED  BY <1>1, <1>2, <1>3, <1>4, <1>5, <1>6, <1>7, <1>8, <1>9, <1>10, <1>11,
            <1>12, <1>13 DEF Begin, Continue

LEMMA TypesStep ==
    ASSUME IInv, NEW p \in Request, Begin(p) \/ Continue(p)
    PROVE  Types'
<1>1. /\ user' \in [version : Version, active : BOOLEAN, verified : BOOLEAN]
      /\ Keys' /\ outdated' \subseteq Named \cup Request /\ spent' \subseteq Token
    BY UserType, KeysType, OutdatedType
<1>2. /\ claim' \in [Named -> Claim \cup {None}]
      /\ \A s \in Issued' : claim'[s].family \in Family
    BY ClaimType
<1>3. req' \in [Request -> Doing]
    BY RequestType
<1>4. \A q \in Request : req'[q].version \in Version
    BY <1>3 DEF Doing
<1> QED  BY <1>1, <1>2, <1>3, <1>4 DEF Types, TypeOK, Keys, Named

(***************************************************************************)
(* Numbers                                                                 *)
(***************************************************************************)

\* A request takes a family over from what a session says; only an issue makes one.
LEMMA FamilyStays ==
    ASSUME IInv, NEW p \in Request, Begin(p) \/ Continue(p)
    PROVE  \/ IssueSession(p)
           \/ req'[p].family \in {req[p].family, None} \cup {claim[s].family : s \in Issued}
<1>a. Types
    BY DEF IInv
<1> DEFINE Old == {req[p].family, None} \cup {claim[s].family : s \in Issued}
<1>1. ASSUME SaveGoogle(p)
      PROVE  req'[p].family \in Old
    BY <1>1, <1>a DEF SaveGoogle, SaveUser, Types, Doing
<1>2. ASSUME Advance(p)
      PROVE  req'[p].family \in Old
    BY <1>2, <1>a DEF Advance, SaveUser, Types, Doing, Idle, Collecting
<1>3. ASSUME Confirm(p)
      PROVE  req'[p].family \in Old
    BY <1>3, <1>a DEF Confirm, SaveUser, Types, Idle
<1>4. ASSUME Login(p)
      PROVE  req'[p].family \in Old
    BY <1>4, <1>a DEF Login, Read, Goto, Types, Idle
<1>5. ASSUME Google(p)
      PROVE  req'[p].family \in Old
    BY <1>5, <1>a DEF Google, Read, Goto, Types, Idle
<1>6. ASSUME LogoutAll(p)
      PROVE  req'[p].family \in Old
    BY <1>6, <1>a DEF LogoutAll, Read, Goto, Types, Idle
<1>7. ASSUME ChangePassword(p)
      PROVE  req'[p].family \in Old
    BY <1>7, <1>a DEF ChangePassword, Read, Goto, Types, Idle
<1>8. ASSUME AskReset(p)
      PROVE  req'[p].family \in Old
    BY <1>8, <1>a DEF AskReset, Read, Goto, Types, Idle
<1>9. ASSUME AskCheck(p)
      PROVE  req'[p].family \in Old
    BY <1>9, <1>a DEF AskCheck, Read, Goto, Types, Idle
<1>10. ASSUME \/ RecordLogin(p) \/ Refused(p) \/ Fail(p)
                \/ RecordFamily(p) \/ RecordIndex(p)
      PROVE  req'[p].family \in Old
    BY <1>10, <1>a DEF RecordLogin, Refused, Fail, RecordFamily, RecordIndex, Goto,
       Step, Finish, Types, Doing, Idle
<1>11. ASSUME Spend(p)
      PROVE  req'[p].family \in Old
    BY <1>11, <1>a DEF Spend, Goto, Step, Finish, Types, Doing, Idle
<1>12. ASSUME Check(p)
      PROVE  req'[p].family \in Old
    <2>1. Renew(p) \/ Finish(p)
        BY <1>12 DEF Check
    <2>2. ASSUME Renew(p) PROVE req'[p].family \in Old
        BY <2>2, <1>a DEF Goto, Finish, Types, Doing, Idle, Renew
    <2>3. ASSUME Finish(p) PROVE req'[p].family \in Old
        BY <2>3, <1>a DEF Goto, Finish, Types, Doing, Idle, Renew
    <2> QED  BY <2>1, <2>2, <2>3
<1>13. ASSUME DropFamily(p)
      PROVE  req'[p].family \in Old
    BY <1>13, <1>a DEF DropFamily, Goto, Step, Finish, Types, Doing, Idle
<1>14. ASSUME ReadReused(p)
      PROVE  req'[p].family \in Old
    BY <1>14, <1>a DEF ReadReused, Goto, Step, Finish, Types, Doing, Idle
<1>15. ASSUME DeleteSession(p)
      PROVE  req'[p].family \in Old
    BY <1>15, <1>a DEF DeleteSession, Goto, Step, Finish, Types, Doing, Idle
<1>16. ASSUME Deindex(p)
      PROVE  req'[p].family \in Old
    BY <1>16, <1>a DEF Deindex, Goto, Step, Finish, Types, Doing, Idle
<1>17. ASSUME DeleteFamily(p)
      PROVE  req'[p].family \in Old
    BY <1>17, <1>a DEF DeleteFamily, Goto, Step, Finish, Types, Doing, Idle
<1>18. ASSUME Collect(p)
      PROVE  req'[p].family \in Old
    BY <1>18, <1>a DEF Collect, Goto, Step, Finish, Types, Doing, Idle
<1>19. ASSUME Wipe(p)
      PROVE  req'[p].family \in Old
    <2>1. Finish(p) \/ Goto(p, [req[p] EXCEPT !.at = "issue", !.op = "none", !.ids = {}])
        BY <1>19 DEF Wipe
    <2>2. ASSUME Finish(p) PROVE req'[p].family \in Old
        BY <2>2, <1>a DEF Goto, Finish, Types, Doing, Idle, Renew
    <2>3. ASSUME Goto(p, [req[p] EXCEPT !.at = "issue", !.op = "none", !.ids = {}])
          PROVE  req'[p].family \in Old
        BY <2>3, <1>a DEF Goto, Finish, Types, Doing, Idle, Renew
    <2> QED  BY <2>1, <2>2, <2>3
<1>20. ASSUME Previous(p)
      PROVE  req'[p].family \in Old
    BY <1>20, <1>a DEF Previous, Goto, Step, Finish, Types, Doing, Idle
<1>21. ASSUME Supersede(p)
      PROVE  req'[p].family \in Old
    BY <1>21, <1>a DEF Supersede, Goto, Step, Finish, Types, Doing, Idle
<1>22. ASSUME MakeToken(p)
      PROVE  req'[p].family \in Old
    BY <1>22, <1>a DEF MakeToken, Goto, Step, Finish, Types, Doing, Idle
<1>23. ASSUME Point(p)
      PROVE  req'[p].family \in Old
    BY <1>23, <1>a DEF Point, Goto, Step, Finish, Types, Doing, Idle
<1>24. ASSUME Announce(p)
      PROVE  req'[p].family \in Old
    BY <1>24, <1>a DEF Announce, Goto, Step, Finish, Types, Doing, Idle
<1>25. ASSUME Withdraw(p)
      PROVE  req'[p].family \in Old
    BY <1>25, <1>a DEF Withdraw, Goto, Step, Finish, Types, Doing, Idle
<1>26. ASSUME Redeem(p)
      PROVE  req'[p].family \in Old
    <2>1. \/ Finish(p)
          \/ Goto(p, [req[p] EXCEPT !.at = "revoke", !.op = "reset",
                                    !.version = user.version])
          \/ Goto(p, [req[p] EXCEPT !.at = "confirm", !.op = "confirm"])
        BY <1>26 DEF Redeem
    <2>2. ASSUME Finish(p) PROVE req'[p].family \in Old
        BY <2>2, <1>a DEF Goto, Finish, Types, Doing, Idle, Renew
    <2>3. ASSUME Goto(p, [req[p] EXCEPT !.at = "revoke", !.op = "reset",
                                        !.version = user.version])
          PROVE  req'[p].family \in Old
        BY <2>3, <1>a DEF Goto, Finish, Types, Doing, Idle, Renew
    <2>4. ASSUME Goto(p, [req[p] EXCEPT !.at = "confirm", !.op = "confirm"])
          PROVE  req'[p].family \in Old
        BY <2>4, <1>a DEF Goto, Finish, Types, Doing, Idle, Renew
    <2> QED  BY <2>1, <2>2, <2>3, <2>4
<1>27. ASSUME \E s \in Session : Refresh(p, s)
      PROVE  req'[p].family \in Old
    BY <1>27, <1>a DEF Refresh, Goto, Types, TypeOK, Idle, Issued
<1>28. ASSUME \E s \in Session : Revoke(p, s)
      PROVE  req'[p].family \in Old
    BY <1>28, <1>a DEF Revoke, Goto, Types, TypeOK, Idle
<1>29. ASSUME \E t \in Token : Consume(p, t)
      PROVE  req'[p].family \in Old
    BY <1>29, <1>a DEF Consume, Goto, Types, Idle
<1> QED  BY <1>1, <1>2, <1>3, <1>4, <1>5, <1>6, <1>7, <1>8, <1>9, <1>10, <1>11,
            <1>12, <1>13, <1>14, <1>15, <1>16, <1>17, <1>18, <1>19, <1>20, <1>21,
            <1>22, <1>23, <1>24, <1>25, <1>26, <1>27, <1>28, <1>29 DEF Begin,
            Continue

LEMMA NumberedStep ==
    ASSUME IInv, NEW p \in Request, Begin(p) \/ Continue(p)
    PROVE  Numbered'
<1>a. Types /\ Numbered /\ Cardinality(Issued) \in Nat
    BY Counted DEF IInv
<1>b. \A q \in Request \ {p} : req'[q].family = req[q].family
    BY Others DEF Left
<1>1. CASE IssueSession(p)
    <2> DEFINE m == Cardinality(Issued) + 1
    <2>1. PICK s \in Session, f \in Family :
             /\ s = <<"session", m>> /\ claim[s] = None
             /\ f = IF req[p].family = None THEN <<"family", m>> ELSE req[p].family
             /\ claim' = [claim EXCEPT ![s] = [version |-> req[p].version, family |-> f]]
             /\ [version |-> req[p].version, family |-> f] \in Claim
             /\ Issued' = Issued \cup {s} /\ \A k : Made(k)' = Made(k)
             /\ Goto(p, [req[p] EXCEPT !.at = "recordFamily", !.about = s, !.family = f])
        BY <1>1, TheSession
    <2>2. Cardinality(Issued)' = m
        <3>1. s \notin Issued
            BY <2>1 DEF Issued
        <3> QED  BY <2>1, <3>1, Counted, FS_AddElement
    <2>3. \A k : Cardinality(Made(k))' = Cardinality(Made(k))
        BY <2>1
    <2>4. f[2] <= m /\ [version |-> req[p].version, family |-> f] # None
        BY <2>1, <1>a, NamesAssumption DEF Numbered, Family
    <2>5. \A r \in Session : claim'[r] # None <=> r[2] <= m
        BY <1>a, <2>1, <2>4 DEF Numbered, Session, Types, Named
    <2>6. \A t \in Token : claim'[t] = claim[t]
        BY <1>a, <2>1, SessionsAndTokens DEF Types, Named
    <2>7. \A r \in Issued' : claim'[r].family[2] <= m
        BY <1>a, <2>1, <2>4 DEF Numbered, Issued, Types, Named, Family
    <2>8. \A q \in Request : req'[q].family # None => req'[q].family[2] <= m
        <3>1. req'[p].family = f
            BY <1>a, <2>1 DEF Goto, Types, Doing
        <3> QED  BY <1>a, <1>b, <2>4, <3>1, Fields DEF Numbered, Family
    <2> QED  BY <1>a, <2>2, <2>3, <2>5, <2>6, <2>7, <2>8 DEF Numbered
<1>2. ASSUME ~IssueSession(p)
      PROVE  \A q \in Request : req'[q].family # None => req'[q].family[2] <= Cardinality(Issued)
    BY <1>a, <1>b, <1>2, FamilyStays DEF Numbered
<1>3. CASE MakeToken(p)
    <2>0. PICK o, m : o = req[p].op /\ m = Cardinality(Made(o)) + 1
        OBVIOUS
    <2>1. PICK t \in Token :
             /\ t = <<o, m>> /\ claim[t] = None
             /\ claim' = [claim EXCEPT ![t] = [version |-> req[p].version, family |-> None]]
             /\ [version |-> req[p].version, family |-> None] \in Claim
             /\ Issued' = Issued
             /\ \A k : Made(k)' = IF k = o THEN Made(k) \cup {t} ELSE Made(k)
        BY <1>3, <2>0, TheToken
    <2>2. Cardinality(Made(o))' = m /\ Cardinality(Made(o)) \in Nat
        <3>1. t \notin Made(o)
            BY <2>1 DEF Made
        <3>2. Cardinality(Made(o) \cup {t}) = m
            BY <2>0, <3>1, Counted, FS_AddElement
        <3> QED  BY <2>0, <2>1, <3>2, Counted
    <2>3. \A k : k # o => Cardinality(Made(k))' = Cardinality(Made(k))
        BY <2>1
    <2>4. \A r \in Session : claim'[r] = claim[r]
        BY <1>a, <2>1, SessionsAndTokens DEF Types, Named
    <2>5. [version |-> req[p].version, family |-> None] # None
        BY <2>1, NamesAssumption
    <2>6. ASSUME NEW x \in Token PROVE claim'[x] # None <=> x[2] <= Cardinality(Made(x[1]))'
        <3>1. CASE x[1] # o
            BY <1>a, <2>1, <2>3, <3>1 DEF Numbered, Types, Named
        <3>2. CASE x[1] = o
            <4>1. x = t <=> x[2] = m
                BY <2>1, <3>2 DEF Token
            <4>2. x # t => claim'[x] = claim[x]
                BY <1>a, <2>1 DEF Types, Named
            <4>3. claim'[t] # None
                BY <1>a, <2>1, <2>5 DEF Types, Named
            <4>4. claim[x] # None <=> x[2] <= Cardinality(Made(o))
                BY <1>a, <3>2 DEF Numbered
            <4>5. x[2] \in Int
                BY SessionsAssumption DEF Token
            <4> QED  BY <2>0, <2>2, <3>2, <4>1, <4>2, <4>3, <4>4, <4>5
        <3> QED  BY <3>1, <3>2
    <2>7. ~IssueSession(p)
        BY <1>3 DEF MakeToken, IssueSession, At
    <2>8. Issued \subseteq Session
        BY DEF Issued
    <2> QED  BY <1>a, <1>2, <2>1, <2>4, <2>6, <2>7, <2>8 DEF Numbered
<1>4. CASE claim' = claim /\ ~IssueSession(p)
    <2>1. Issued' = Issued /\ \A k : Made(k)' = Made(k)
        BY <1>4 DEF Issued, Made
    <2> QED  BY <1>a, <1>2, <1>4, <2>1 DEF Numbered
<1> QED  BY <1>1, <1>3, <1>4, ClaimsStay

(***************************************************************************)
(* The rest of the invariant                                               *)
(***************************************************************************)

\* What the request of the step is about where it goes.
LEMMA AboutSelf ==
    ASSUME IInv, NEW p \in Request, Begin(p) \/ Continue(p)
    PROVE  About(p)'
<1>a. /\ Types /\ About(p) /\ req[p] \in Doing /\ Issued \subseteq Issued'
      /\ \A x \in Named : claim[x] # None => claim'[x] = claim[x]
      /\ claim' = claim => Issued' = Issued
    BY Fields, ClaimType, ClaimsStay DEF IInv, Issued
<1>b. ASSUME Finish(p) PROVE About(p)'
    BY <1>b, <1>a DEF Finish, Goto, Types, Idle, About
<1>1. ASSUME RecordLogin(p)
      PROVE  About(p)'
    BY <1>1, <1>a DEF RecordLogin, Goto, Step, Finish, Types, Doing, Idle, About,
       At, Named
<1>2. ASSUME SaveGoogle(p)
      PROVE  About(p)'
    BY <1>2, <1>a DEF SaveGoogle, SaveUser, Types, Doing, Idle, About, At
<1>3. ASSUME Refused(p)
      PROVE  About(p)'
    BY <1>3, <1>a DEF Refused, Goto, Step, Finish, Types, Doing, Idle, About, At,
       Named
<1>4. ASSUME Fail(p)
      PROVE  About(p)'
    BY <1>4, <1>a DEF Fail, Goto, Step, Finish, Types, Doing, Idle, About, At, Named
<1>5. ASSUME IssueSession(p)
      PROVE  About(p)'
    <2>1. PICK s \in Session, f \in Family :
             /\ Issued' = Issued \cup {s}
             /\ Goto(p, [req[p] EXCEPT !.at = "recordFamily", !.about = s, !.family = f])
        BY <1>5, TheSession
    <2> QED  BY <1>a, <2>1 DEF Goto, Types, Doing, About
<1>6. ASSUME RecordFamily(p)
      PROVE  About(p)'
    BY <1>6, <1>a DEF RecordFamily, Goto, Step, Finish, Types, Doing, Idle, About,
       At, Named
<1>7. ASSUME RecordIndex(p)
      PROVE  About(p)'
    BY <1>7, <1>a DEF RecordIndex, Goto, Step, Finish, Types, Doing, Idle, About,
       At, Named
<1>8. ASSUME Spend(p)
      PROVE  About(p)'
    BY <1>8, <1>a DEF Spend, Goto, Step, Finish, Types, Doing, Idle, About, At,
       Named
<1>9. ASSUME Check(p)
      PROVE  About(p)'
    <2>1. Renew(p) \/ Finish(p)
        BY <1>9 DEF Check
    <2>2. ASSUME Renew(p) PROVE About(p)'
        BY <1>a, <2>2 DEF Renew, Goto, Types, Doing, About
    <2> QED  BY <1>b, <2>1, <2>2
<1>10. ASSUME DropFamily(p)
      PROVE  About(p)'
    BY <1>10, <1>a DEF DropFamily, Goto, Step, Finish, Types, Doing, Idle, About,
       At, Named
<1>11. ASSUME ReadReused(p)
      PROVE  About(p)'
    BY <1>11, <1>a DEF ReadReused, Goto, Step, Finish, Types, Doing, Idle, About,
       At, Named
<1>12. ASSUME DeleteSession(p)
      PROVE  About(p)'
    BY <1>12, <1>a DEF DeleteSession, Goto, Step, Finish, Types, Doing, Idle,
       About, At, Named
<1>13. ASSUME Deindex(p)
      PROVE  About(p)'
    BY <1>13, <1>a DEF Deindex, Goto, Step, Finish, Types, Doing, Idle, About, At,
       Named
<1>14. ASSUME DeleteFamily(p)
      PROVE  About(p)'
    BY <1>14, <1>a DEF DeleteFamily, Goto, Step, Finish, Types, Doing, Idle, About,
       At, Named
<1>15. ASSUME Advance(p)
      PROVE  About(p)'
    BY <1>15, <1>a DEF Advance, SaveUser, Types, Doing, Idle, About, At, Collecting
<1>16. ASSUME Collect(p)
      PROVE  About(p)'
    BY <1>16, <1>a DEF Collect, Goto, Step, Finish, Types, Doing, Idle, About, At,
       Named
<1>17. ASSUME Wipe(p)
      PROVE  About(p)'
    <2>1. Finish(p) \/ Goto(p, [req[p] EXCEPT !.at = "issue", !.op = "none", !.ids = {}])
        BY <1>17 DEF Wipe
    <2>2. ASSUME Goto(p, [req[p] EXCEPT !.at = "issue", !.op = "none", !.ids = {}])
          PROVE  About(p)'
        BY <1>a, <2>2 DEF Goto, Types, Doing, About
    <2> QED  BY <1>b, <2>1, <2>2
<1>18. ASSUME Previous(p)
      PROVE  About(p)'
    BY <1>18, <1>a DEF Previous, Goto, Step, Finish, Types, Doing, Idle, About, At,
       Named
<1>19. ASSUME Supersede(p)
      PROVE  About(p)'
    BY <1>19, <1>a DEF Supersede, Goto, Step, Finish, Types, Doing, Idle, About,
       At, Named
<1>20. ASSUME MakeToken(p)
      PROVE  About(p)'
    <2>1. PICK t \in Token :
             /\ claim' = [claim EXCEPT ![t] = [version |-> req[p].version, family |-> None]]
             /\ [version |-> req[p].version, family |-> None] \in Claim
             /\ Goto(p, [req[p] EXCEPT !.at = "point", !.about = t])
        BY <1>20, TheToken
    <2>2. claim'[t] # None
        BY <1>a, <2>1, NamesAssumption DEF Types, Named
    <2>3. req[p].op \in Purpose
        BY <1>20, <1>a DEF MakeToken, At, About
    <2> QED  BY <1>a, <2>1, <2>2, <2>3 DEF Goto, Types, Doing, About
<1>21. ASSUME Point(p)
      PROVE  About(p)'
    BY <1>21, <1>a DEF Point, Goto, Step, Finish, Types, Doing, Idle, About, At,
       Named
<1>22. ASSUME Announce(p)
      PROVE  About(p)'
    BY <1>22, <1>a DEF Announce, Goto, Step, Finish, Types, Doing, Idle, About, At,
       Named
<1>23. ASSUME Withdraw(p)
      PROVE  About(p)'
    BY <1>23, <1>a DEF Withdraw, Goto, Step, Finish, Types, Doing, Idle, About, At,
       Named
<1>24. ASSUME Redeem(p)
      PROVE  About(p)'
    <2> DEFINE t == req[p].about
    <2>1. /\ t \in Token /\ claim[t] # None /\ claim' = claim /\ req[p].family = None
          /\ \/ Finish(p)
             \/ Goto(p, [req[p] EXCEPT !.at = "confirm", !.op = "confirm"])
             \/ /\ claim[t].version = user.version
                /\ Goto(p, [req[p] EXCEPT !.at = "revoke", !.op = "reset",
                                          !.version = user.version])
        BY <1>24, <1>a DEF Redeem, At, About
    <2>2. ASSUME Goto(p, [req[p] EXCEPT !.at = "confirm", !.op = "confirm"])
          PROVE  About(p)'
        BY <1>a, <2>2 DEF Goto, Types, Doing, About
    <2>3. ASSUME claim[t].version = user.version,
                 Goto(p, [req[p] EXCEPT !.at = "revoke", !.op = "reset",
                                        !.version = user.version])
          PROVE  About(p)'
        BY <1>a, <2>1, <2>3 DEF Goto, Types, Doing, About
    <2> QED  BY <1>b, <2>1, <2>2, <2>3
<1>25. ASSUME Confirm(p)
      PROVE  About(p)'
    BY <1>25, <1>a DEF Confirm, SaveUser, Types, Doing, Idle, About, At
<1>26. ASSUME Login(p)
      PROVE  About(p)'
    BY <1>26, <1>a DEF Login, Read, Goto, Step, Finish, Types, Doing, Idle, About,
       At, Named, Purpose
<1>27. ASSUME Google(p)
      PROVE  About(p)'
    BY <1>27, <1>a DEF Google, Read, Goto, Step, Finish, Types, Doing, Idle, About,
       At, Named, Purpose
<1>28. ASSUME LogoutAll(p)
      PROVE  About(p)'
    BY <1>28, <1>a DEF LogoutAll, Read, Goto, Step, Finish, Types, Doing, Idle,
       About, At, Named, Purpose
<1>29. ASSUME ChangePassword(p)
      PROVE  About(p)'
    BY <1>29, <1>a DEF ChangePassword, Read, Goto, Step, Finish, Types, Doing,
       Idle, About, At, Named, Purpose
<1>30. ASSUME AskReset(p)
      PROVE  About(p)'
    BY <1>30, <1>a DEF AskReset, Read, Goto, Step, Finish, Types, Doing, Idle,
       About, At, Named, Purpose
<1>31. ASSUME AskCheck(p)
      PROVE  About(p)'
    BY <1>31, <1>a DEF AskCheck, Read, Goto, Step, Finish, Types, Doing, Idle,
       About, At, Named, Purpose
<1>32. ASSUME \E s \in Session : Refresh(p, s)
      PROVE  About(p)'
    <2>1. PICK s \in given \cap Session, i \in SUBSET Session :
             Goto(p, [Idle EXCEPT !.at = "spend", !.op = "refresh", !.about = s,
                                  !.family = claim[s].family, !.ids = i])
        <3>1. PICK x \in Session : Refresh(p, x)
            BY <1>32
        <3> DEFINE f == family[claim[x].family]
                   reused == f # None /\ f.version = claim[x].version /\ f.current # x
                   i == IF reused THEN {f.current} ELSE {}
        <3>2. x \in given /\ claim[x].family \in Family
            BY <3>1, <1>a DEF Refresh, Types, TypeOK, Issued
        <3>3. i \in SUBSET Session
            BY <1>a, <3>2, Fields DEF Current
        <3>4. Goto(p, [Idle EXCEPT !.at = "spend", !.op = "refresh", !.about = x,
                                   !.family = claim[x].family, !.ids = i])
            BY <3>1 DEF Refresh
        <3> QED  BY <3>2, <3>3, <3>4
    <2>2. claim' = claim
        BY <1>32 DEF Refresh
    <2>3. s \in Issued
        BY <1>a DEF Types, TypeOK, Issued
    <2> QED  BY <1>a, <2>1, <2>2, <2>3 DEF Goto, Types, Idle, About
<1>33. ASSUME \E s \in Session : Revoke(p, s)
      PROVE  About(p)'
    BY <1>33, <1>a DEF Revoke, Goto, Types, TypeOK, Idle, About
<1>34. ASSUME \E t \in Token : Consume(p, t)
      PROVE  About(p)'
    BY <1>34, <1>a DEF Consume, Goto, Types, TypeOK, Idle, About
<1> QED  BY <1>1, <1>2, <1>3, <1>4, <1>5, <1>6, <1>7, <1>8, <1>9, <1>10, <1>11,
            <1>12, <1>13, <1>14, <1>15, <1>16, <1>17, <1>18, <1>19, <1>20, <1>21,
            <1>22, <1>23, <1>24, <1>25, <1>26, <1>27, <1>28, <1>29, <1>30, <1>31,
            <1>32, <1>33, <1>34 DEF Begin, Continue

LEMMA AboutStep ==
    ASSUME IInv, NEW p \in Request, Begin(p) \/ Continue(p)
    PROVE  \A q \in Request : About(q)'
<1> SUFFICES ASSUME NEW q \in Request \ {p} PROVE About(q)'
    BY AboutSelf
<1>1. About(q) /\ Left(q) /\ Issued \subseteq Issued'
    BY Others, ClaimType DEF IInv
<1>2. \A x \in Named : claim[x] # None => claim'[x] = claim[x]
    BY ClaimsStay
<1>3. Issued \subseteq Named /\ Token \subseteq Named /\ \A s \in Issued : claim[s] # None
    BY DEF Issued, Named
<1> QED  BY <1>1, <1>2, <1>3 DEF About, Left

\* A request has the tokenVersion it read or wrote, and goes to save a user it has
\* just read.
LEMMA VersionOf ==
    ASSUME IInv, NEW p \in Request, Begin(p) \/ Continue(p)
    PROVE  /\ \/ req'[p].version \in {req[p].version, 0}
              \/ req'[p].version = user'.version
           /\ req'[p].at = "revoke" => req'[p].version = user'.version
<1> DEFINE Copied == /\ \/ req'[p].version \in {req[p].version, 0}
                        \/ req'[p].version = user'.version
                     /\ req'[p].at = "revoke" => req'[p].version = user'.version
<1> SUFFICES Copied
    OBVIOUS
<1>a. /\ Types /\ req[p] \in Doing
      /\ user \in [version : Version, active : BOOLEAN, verified : BOOLEAN]
    BY Fields DEF IInv, Types, TypeOK
<1>b. ASSUME Finish(p) PROVE Copied
    BY <1>b, <1>a DEF Finish, Goto, Types, Idle
<1>1. ASSUME RecordLogin(p)
      PROVE  Copied
    BY <1>1, <1>a DEF RecordLogin, Goto, Step, Finish, Types, Doing, Idle
<1>2. ASSUME SaveGoogle(p)
      PROVE  Copied
    BY <1>2, <1>a DEF SaveGoogle, SaveUser, Types, Doing
<1>3. ASSUME Refused(p)
      PROVE  Copied
    BY <1>3, <1>a DEF Refused, Goto, Step, Finish, Types, Doing, Idle
<1>4. ASSUME Fail(p)
      PROVE  Copied
    BY <1>4, <1>a DEF Fail, Goto, Step, Finish, Types, Doing, Idle
<1>5. ASSUME IssueSession(p)
      PROVE  Copied
    BY <1>5, <1>a DEF IssueSession, Goto, Step, Finish, Types, Doing, Idle
<1>6. ASSUME RecordFamily(p)
      PROVE  Copied
    BY <1>6, <1>a DEF RecordFamily, Goto, Step, Finish, Types, Doing, Idle
<1>7. ASSUME RecordIndex(p)
      PROVE  Copied
    BY <1>7, <1>a DEF RecordIndex, Goto, Step, Finish, Types, Doing, Idle
<1>8. ASSUME Spend(p)
      PROVE  Copied
    BY <1>8, <1>a DEF Spend, Goto, Step, Finish, Types, Doing, Idle
<1>9. ASSUME Check(p)
      PROVE  Copied
    <2>1. Finish(p) \/ (Renew(p) /\ user' = user)
        BY <1>9 DEF Check
    <2>2. ASSUME Finish(p) PROVE Copied
        BY <1>9, <2>2, <1>a, <1>b DEF Goto, Types, Doing, Renew
    <2>3. ASSUME (Renew(p) /\ user' = user) PROVE Copied
        BY <1>9, <2>3, <1>a, <1>b DEF Goto, Types, Doing, Renew
    <2> QED  BY <2>1, <2>2, <2>3
<1>10. ASSUME DropFamily(p)
      PROVE  Copied
    BY <1>10, <1>a DEF DropFamily, Goto, Step, Finish, Types, Doing, Idle
<1>11. ASSUME ReadReused(p)
      PROVE  Copied
    BY <1>11, <1>a DEF ReadReused, Goto, Step, Finish, Types, Doing, Idle
<1>12. ASSUME DeleteSession(p)
      PROVE  Copied
    BY <1>12, <1>a DEF DeleteSession, Goto, Step, Finish, Types, Doing, Idle
<1>13. ASSUME Deindex(p)
      PROVE  Copied
    BY <1>13, <1>a DEF Deindex, Goto, Step, Finish, Types, Doing, Idle
<1>14. ASSUME DeleteFamily(p)
      PROVE  Copied
    BY <1>14, <1>a DEF DeleteFamily, Goto, Step, Finish, Types, Doing, Idle
<1>15. ASSUME Advance(p)
      PROVE  Copied
    BY <1>15, <1>a DEF Advance, SaveUser, Types, Doing, Idle, Collecting
<1>16. ASSUME Collect(p)
      PROVE  Copied
    BY <1>16, <1>a DEF Collect, Goto, Step, Finish, Types, Doing, Idle
<1>17. ASSUME Wipe(p)
      PROVE  Copied
    <2>1. Finish(p) \/ Goto(p, [req[p] EXCEPT !.at = "issue", !.op = "none", !.ids = {}])
        BY <1>17 DEF Wipe
    <2>2. ASSUME Finish(p) PROVE Copied
        BY <1>17, <2>2, <1>a, <1>b DEF Goto, Types, Doing, Renew
    <2>3. ASSUME Goto(p, [req[p] EXCEPT !.at = "issue", !.op = "none", !.ids = {}]) PROVE Copied
        BY <1>17, <2>3, <1>a, <1>b DEF Goto, Types, Doing, Renew
    <2> QED  BY <2>1, <2>2, <2>3
<1>18. ASSUME Previous(p)
      PROVE  Copied
    BY <1>18, <1>a DEF Previous, Goto, Step, Finish, Types, Doing, Idle
<1>19. ASSUME Supersede(p)
      PROVE  Copied
    BY <1>19, <1>a DEF Supersede, Goto, Step, Finish, Types, Doing, Idle
<1>20. ASSUME MakeToken(p)
      PROVE  Copied
    BY <1>20, <1>a DEF MakeToken, Goto, Step, Finish, Types, Doing, Idle
<1>21. ASSUME Point(p)
      PROVE  Copied
    BY <1>21, <1>a DEF Point, Goto, Step, Finish, Types, Doing, Idle
<1>22. ASSUME Announce(p)
      PROVE  Copied
    BY <1>22, <1>a DEF Announce, Goto, Step, Finish, Types, Doing, Idle
<1>23. ASSUME Withdraw(p)
      PROVE  Copied
    BY <1>23, <1>a DEF Withdraw, Goto, Step, Finish, Types, Doing, Idle
<1>24. ASSUME Redeem(p)
      PROVE  Copied
    <2>1. \/ Finish(p)
          \/ /\ user' = user
             /\ Goto(p, [req[p] EXCEPT !.at = "revoke", !.op = "reset",
                                       !.version = user.version])
          \/ Goto(p, [req[p] EXCEPT !.at = "confirm", !.op = "confirm"])
        BY <1>24 DEF Redeem
    <2>2. ASSUME Finish(p) PROVE Copied
        BY <1>24, <2>2, <1>a, <1>b DEF Goto, Types, Doing, Renew
    <2>3. ASSUME user' = user,
                 Goto(p, [req[p] EXCEPT !.at = "revoke", !.op = "reset",
                                        !.version = user.version])
          PROVE  Copied
        BY <1>24, <2>3, <1>a, <1>b DEF Goto, Types, Doing, Renew
    <2>4. ASSUME Goto(p, [req[p] EXCEPT !.at = "confirm", !.op = "confirm"]) PROVE Copied
        BY <1>24, <2>4, <1>a, <1>b DEF Goto, Types, Doing, Renew
    <2> QED  BY <2>1, <2>2, <2>3, <2>4
<1>25. ASSUME Confirm(p)
      PROVE  Copied
    BY <1>25, <1>a DEF Confirm, SaveUser, Types, Idle
<1>26. ASSUME Login(p)
      PROVE  Copied
    BY <1>26, <1>a DEF Login, Read, Goto, Types, Idle
<1>27. ASSUME Google(p)
      PROVE  Copied
    BY <1>27, <1>a DEF Google, Read, Goto, Types, Idle
<1>28. ASSUME LogoutAll(p)
      PROVE  Copied
    BY <1>28, <1>a DEF LogoutAll, Read, Goto, Types, Idle
<1>29. ASSUME ChangePassword(p)
      PROVE  Copied
    BY <1>29, <1>a DEF ChangePassword, Read, Goto, Types, Idle
<1>30. ASSUME AskReset(p)
      PROVE  Copied
    BY <1>30, <1>a DEF AskReset, Read, Goto, Types, Idle
<1>31. ASSUME AskCheck(p)
      PROVE  Copied
    BY <1>31, <1>a DEF AskCheck, Read, Goto, Types, Idle
<1>32. ASSUME \E s \in Session : Refresh(p, s)
      PROVE  Copied
    BY <1>32, <1>a DEF Refresh, Goto, Types, Idle
<1>33. ASSUME \E s \in Session : Revoke(p, s)
      PROVE  Copied
    BY <1>33, <1>a DEF Revoke, Goto, Types, Idle
<1>34. ASSUME \E t \in Token : Consume(p, t)
      PROVE  Copied
    BY <1>34, <1>a DEF Consume, Goto, Types, Idle
<1> HIDE DEF Copied
<1> QED  BY <1>1, <1>2, <1>3, <1>4, <1>5, <1>6, <1>7, <1>8, <1>9, <1>10, <1>11,
            <1>12, <1>13, <1>14, <1>15, <1>16, <1>17, <1>18, <1>19, <1>20, <1>21,
            <1>22, <1>23, <1>24, <1>25, <1>26, <1>27, <1>28, <1>29, <1>30, <1>31,
            <1>32, <1>33, <1>34 DEF Begin, Continue

LEMMA VersionsStep ==
    ASSUME IInv, NEW p \in Request, Begin(p) \/ Continue(p)
    PROVE  Versions'
<1>a. /\ Types /\ Versions /\ user'.version >= user.version
      /\ \A x \in Named : claim[x] # None => claim[x] \in Claim
      /\ user.version \in Nat /\ user'.version \in Nat
      /\ \A q \in Request : req[q].version \in Nat
    BY UserType, Fields, SessionsAssumption DEF IInv, Types, Version
<1>1. \A x \in Named : claim'[x] # None => claim'[x].version <= user'.version
    <2>1. CASE claim' = claim
        BY <1>a, <2>1 DEF Versions, Claim, Version
    <2>2. ASSUME NEW y \in Named, NEW f, claim' = [claim EXCEPT ![y] =
                    [version |-> req[p].version, family |-> f]]
          PROVE  \A x \in Named : claim'[x] # None => claim'[x].version <= user'.version
        BY <1>a, <2>2 DEF Versions, Claim, Version, Types
    <2>3. CASE IssueSession(p)
        BY <2>2, <2>3, TheSession DEF Named
    <2>4. CASE MakeToken(p)
        BY <2>2, <2>4, TheToken DEF Named
    <2> QED  BY <2>1, <2>3, <2>4, ClaimsStay
<1>2. ASSUME NEW q \in Request \ {p}
      PROVE  /\ req'[q].version <= user'.version
             /\ At(q, "revoke")' /\ req'[q].fresh => req'[q].version = user'.version
    BY <1>a, Others DEF Left, Versions, At
<1>3. /\ req'[p].version <= user'.version
      /\ At(p, "revoke")' /\ req'[p].fresh => req'[p].version = user'.version
    BY <1>a, VersionOf DEF Versions, At
<1> QED  BY <1>1, <1>2, <1>3 DEF Versions, At

\* A request is outdated by no step of its own, and what it issues then is of the
\* tokenVersion it had.
LEMMA OutdatedSelf ==
    ASSUME IInv, NEW p \in Request, Begin(p) \/ Continue(p), p \in outdated'
    PROVE  /\ p \in outdated
           /\ req'[p].at \in Issues \cup {"recordFamily", "recordIndex", "point", "announce"}
           /\ req'[p].version = req[p].version
<1> DEFINE Kept == /\ p \in outdated
                   /\ req'[p].at \in Issues \cup {"recordFamily", "recordIndex", "point", "announce"}
                   /\ req'[p].version = req[p].version
<1> SUFFICES Kept
    OBVIOUS
<1>a. /\ Types /\ req[p] \in Doing /\ About(p)
      /\ p \in outdated => req[p].at \in Issues \cup {"recordFamily", "recordIndex",
                                                      "point", "announce"}
      /\ p \notin Named
    BY Fields, NamesAssumption DEF IInv, Outdated, Named
<1>1. ASSUME RecordLogin(p)
      PROVE  Kept
    BY <1>1, <1>a DEF RecordLogin, Goto, Step, Finish, Types, Doing, Idle, At,
       Issues
<1>2. ASSUME SaveGoogle(p)
      PROVE  Kept
    BY <1>2, <1>a DEF SaveGoogle, SaveUser, Types, Doing, Issues
<1>3. ASSUME Refused(p)
      PROVE  Kept
    BY <1>3, <1>a DEF Refused, Goto, Step, Finish, Types, Doing, Idle, At, Issues
<1>4. ASSUME Fail(p)
      PROVE  Kept
    BY <1>4, <1>a DEF Fail, Goto, Step, Finish, Types, Doing, Idle, At, Issues
<1>5. ASSUME IssueSession(p)
      PROVE  Kept
    <2>1. PICK s \in Session, f \in Family :
             /\ Goto(p, [req[p] EXCEPT !.at = "recordFamily", !.about = s, !.family = f])
             /\ outdated' = IF p \in outdated THEN outdated \cup {s} ELSE outdated
        BY <1>5, TheSession
    <2> QED  BY <1>a, <2>1 DEF Goto, Types, Doing, Named
<1>6. ASSUME RecordFamily(p)
      PROVE  Kept
    BY <1>6, <1>a DEF RecordFamily, Goto, Step, Finish, Types, Doing, Idle, At,
       Issues
<1>7. ASSUME RecordIndex(p)
      PROVE  Kept
    BY <1>7, <1>a DEF RecordIndex, Goto, Step, Finish, Types, Doing, Idle, At,
       Issues
<1>8. ASSUME Spend(p)
      PROVE  Kept
    BY <1>8, <1>a DEF Spend, Goto, Step, Finish, Types, Doing, Idle, At, Issues
<1>9. ASSUME Check(p)
      PROVE  Kept
    <2>1. Finish(p) \/ (Renew(p) /\ user.version = claim[req[p].about].version)
        BY <1>9 DEF Check
    <2>2. req[p].about \in Issued
        BY <1>9, <1>a DEF Check, At, About
    <2>3. req[p].about \in outdated => claim[req[p].about].version < user.version
        BY <2>2 DEF IInv, Outdated, Issued, Named
    <2>4. user.version \in Int
        BY <1>a, Fields, SessionsAssumption DEF Version
    <2> QED  BY <2>1, <2>3, <2>4 DEF Finish, Renew
<1>10. ASSUME DropFamily(p)
      PROVE  Kept
    BY <1>10, <1>a DEF DropFamily, Goto, Step, Finish, Types, Doing, Idle, At,
       Issues
<1>11. ASSUME ReadReused(p)
      PROVE  Kept
    BY <1>11, <1>a DEF ReadReused, Goto, Step, Finish, Types, Doing, Idle, At,
       Issues
<1>12. ASSUME DeleteSession(p)
      PROVE  Kept
    BY <1>12, <1>a DEF DeleteSession, Goto, Step, Finish, Types, Doing, Idle, At,
       Issues
<1>13. ASSUME Deindex(p)
      PROVE  Kept
    BY <1>13, <1>a DEF Deindex, Goto, Step, Finish, Types, Doing, Idle, At, Issues
<1>14. ASSUME DeleteFamily(p)
      PROVE  Kept
    BY <1>14, <1>a DEF DeleteFamily, Goto, Step, Finish, Types, Doing, Idle, At,
       Issues
<1>15. ASSUME Advance(p)
      PROVE  Kept
    BY <1>15, <1>a DEF Advance, Outdate
<1>16. ASSUME Collect(p)
      PROVE  Kept
    BY <1>16, <1>a DEF Collect, Goto, Step, Finish, Types, Doing, Idle, At, Issues
<1>17. ASSUME Wipe(p)
      PROVE  Kept
    BY <1>17, <1>a DEF Wipe, Goto, Step, Finish, Types, Doing, Idle, At, Issues
<1>18. ASSUME Previous(p)
      PROVE  Kept
    BY <1>18, <1>a DEF Previous, Goto, Step, Finish, Types, Doing, Idle, At, Issues
<1>19. ASSUME Supersede(p)
      PROVE  Kept
    BY <1>19, <1>a DEF Supersede, Goto, Step, Finish, Types, Doing, Idle, At, Issues
<1>20. ASSUME MakeToken(p)
      PROVE  Kept
    <2>1. PICK t \in Token :
             /\ Goto(p, [req[p] EXCEPT !.at = "point", !.about = t])
             /\ outdated' = IF p \in outdated THEN outdated \cup {t} ELSE outdated
        BY <1>20, TheToken
    <2> QED  BY <1>a, <2>1 DEF Goto, Types, Doing, Named
<1>21. ASSUME Point(p)
      PROVE  Kept
    BY <1>21, <1>a DEF Point, Goto, Step, Finish, Types, Doing, Idle, At, Issues
<1>22. ASSUME Announce(p)
      PROVE  Kept
    BY <1>22, <1>a DEF Announce, Goto, Step, Finish, Types, Doing, Idle, At, Issues
<1>23. ASSUME Withdraw(p)
      PROVE  Kept
    BY <1>23, <1>a DEF Withdraw, Goto, Step, Finish, Types, Doing, Idle, At, Issues
<1>24. ASSUME Redeem(p)
      PROVE  Kept
    BY <1>24, <1>a DEF Redeem, Goto, Step, Finish, Types, Doing, Idle, At, Issues
<1>25. ASSUME Confirm(p)
      PROVE  Kept
    BY <1>25, <1>a DEF Confirm
<1>26. ASSUME Login(p)
      PROVE  Kept
    BY <1>26, <1>a DEF Login, Read, At, Issues
<1>27. ASSUME Google(p)
      PROVE  Kept
    BY <1>27, <1>a DEF Google, Read, At, Issues
<1>28. ASSUME LogoutAll(p)
      PROVE  Kept
    BY <1>28, <1>a DEF LogoutAll, Read, At, Issues
<1>29. ASSUME ChangePassword(p)
      PROVE  Kept
    BY <1>29, <1>a DEF ChangePassword, Read, At, Issues
<1>30. ASSUME AskReset(p)
      PROVE  Kept
    BY <1>30, <1>a DEF AskReset, Read, At, Issues
<1>31. ASSUME AskCheck(p)
      PROVE  Kept
    BY <1>31, <1>a DEF AskCheck, Read, At, Issues
<1>32. ASSUME \E s \in Session : Refresh(p, s)
      PROVE  Kept
    BY <1>32, <1>a DEF Refresh, At, Issues
<1>33. ASSUME \E s \in Session : Revoke(p, s)
      PROVE  Kept
    BY <1>33, <1>a DEF Revoke, At, Issues
<1>34. ASSUME \E t \in Token : Consume(p, t)
      PROVE  Kept
    BY <1>34, <1>a DEF Consume, At, Issues
<1> HIDE DEF Kept
<1> QED  BY <1>1, <1>2, <1>3, <1>4, <1>5, <1>6, <1>7, <1>8, <1>9, <1>10, <1>11,
            <1>12, <1>13, <1>14, <1>15, <1>16, <1>17, <1>18, <1>19, <1>20, <1>21,
            <1>22, <1>23, <1>24, <1>25, <1>26, <1>27, <1>28, <1>29, <1>30, <1>31,
            <1>32, <1>33, <1>34 DEF Begin, Continue

\* What a step outdates: what was issued, by a revocation, and what a request that
\* is outdated issues.
LEMMA NewlyOutdated ==
    ASSUME IInv, NEW p \in Request, Begin(p) \/ Continue(p)
    PROVE  /\ \A x \in outdated' \cap Named :
                \/ x \in outdated
                \/ Advance(p) /\ claim[x] # None
                \/ /\ p \in outdated /\ claim'[x] # None
                   /\ claim'[x].version = req[p].version
           /\ \A q \in outdated' \cap Request :
                \/ q = p
                \/ q \in outdated
                \/ Advance(p) /\ req[q].at \in Issues
           /\ \A x \in outdated : x = p \/ x \in outdated'
<1> DEFINE New == /\ \A x \in outdated' \cap Named :
                       \/ x \in outdated
                       \/ Advance(p) /\ claim[x] # None
                       \/ /\ p \in outdated /\ claim'[x] # None
                          /\ claim'[x].version = req[p].version
                  /\ \A q \in outdated' \cap Request :
                       \/ q = p
                       \/ q \in outdated
                       \/ Advance(p) /\ req[q].at \in Issues
                  /\ \A x \in outdated : x = p \/ x \in outdated'
<1> SUFFICES New
    OBVIOUS
<1>a. /\ Request \cap Named = {}
      /\ claim \in [Named -> Claim \cup {None}]
    BY NamesAssumption DEF Named, IInv, Types
<1>1. ASSUME \/ Login(p) \/ Google(p) \/ LogoutAll(p)
                \/ ChangePassword(p) \/ AskReset(p) \/ AskCheck(p)
      PROVE  New
    BY <1>1 DEF Login, Google, LogoutAll, ChangePassword, AskReset, AskCheck, Read
<1>2. ASSUME \/ RecordLogin(p) \/ SaveGoogle(p) \/ Refused(p)
                \/ Fail(p) \/ RecordFamily(p) \/ RecordIndex(p)
      PROVE  New
    BY <1>2 DEF RecordLogin, SaveGoogle, Refused, Fail, RecordFamily, RecordIndex,
       Finish
<1>3. ASSUME IssueSession(p)
      PROVE  New
    <2>1. PICK s \in Session, f \in Family :
             /\ claim' = [claim EXCEPT ![s] = [version |-> req[p].version, family |-> f]]
             /\ [version |-> req[p].version, family |-> f] \in Claim
             /\ outdated' = IF p \in outdated THEN outdated \cup {s} ELSE outdated
        BY <1>3, TheSession
    <2> QED  BY <1>a, <2>1, NamesAssumption DEF Named
<1>4. ASSUME \/ Spend(p) \/ DropFamily(p) \/ ReadReused(p)
      PROVE  New
    BY <1>4 DEF Spend, DropFamily, ReadReused, Finish
<1>5. ASSUME Check(p)
      PROVE  New
    BY <1>5, <1>a DEF Check, Finish, Renew
<1>6. ASSUME \/ DeleteSession(p) \/ Deindex(p) \/ DeleteFamily(p)
                \/ Collect(p) \/ Wipe(p)
      PROVE  New
    BY <1>6 DEF DeleteSession, Deindex, DeleteFamily, Collect, Wipe, Finish
<1>7. ASSUME Advance(p)
      PROVE  New
    BY <1>7, <1>a DEF Advance, Outdate, Issued, Named
<1>8. ASSUME \/ Previous(p) \/ Supersede(p)
      PROVE  New
    BY <1>8 DEF Previous, Supersede
<1>9. ASSUME MakeToken(p)
      PROVE  New
    <2>1. PICK t \in Token :
             /\ claim' = [claim EXCEPT ![t] = [version |-> req[p].version, family |-> None]]
             /\ [version |-> req[p].version, family |-> None] \in Claim
             /\ outdated' = IF p \in outdated THEN outdated \cup {t} ELSE outdated
        BY <1>9, TheToken
    <2> QED  BY <1>a, <2>1, NamesAssumption DEF Named
<1>10. ASSUME \/ Point(p) \/ Announce(p) \/ Withdraw(p)
                \/ Redeem(p) \/ Confirm(p)
      PROVE  New
    BY <1>10 DEF Point, Announce, Withdraw, Redeem, Confirm, Finish
<1>11. ASSUME \E s \in Session : Refresh(p, s)
      PROVE  New
    BY <1>11 DEF Refresh
<1>12. ASSUME \E s \in Session : Revoke(p, s)
      PROVE  New
    BY <1>12 DEF Revoke
<1>13. ASSUME \E t \in Token : Consume(p, t)
      PROVE  New
    BY <1>13 DEF Consume
<1> HIDE DEF New
<1> QED  BY <1>1, <1>2, <1>3, <1>4, <1>5, <1>6, <1>7, <1>8, <1>9, <1>10, <1>11,
            <1>12, <1>13 DEF Begin, Continue

LEMMA SpentStays ==
    ASSUME IInv, NEW p \in Request, Begin(p) \/ Continue(p)
    PROVE  /\ Advance(p) /\ req[p].op = "reset" /\ spent' = spent \cup {req[p].about}
           \/ spent' = spent
    BY DEF Begin, Continue, Login, Google, Refresh, Revoke, LogoutAll,
       ChangePassword,
        AskReset, AskCheck, Consume, Read, RecordLogin, SaveGoogle, Refused, Fail,
        IssueSession, RecordFamily, RecordIndex, Spend, Check, DropFamily, ReadReused,
        DeleteSession, Deindex, DeleteFamily, Advance, Collect, Wipe, Previous,
        Supersede, MakeToken, Point, Announce, Withdraw, Redeem, Confirm

LEMMA OutdatedStep ==
    ASSUME IInv, NEW p \in Request, Begin(p) \/ Continue(p)
    PROVE  Outdated'
<1>a. /\ Types /\ Versions /\ Outdated /\ About(p)
      /\ user.version \in Nat /\ user'.version \in Nat
      /\ \A x \in Named : claim[x] # None => claim[x].version \in Nat
      /\ \A q \in Request : req[q].version \in Nat
    BY UserType, Fields, SessionsAssumption DEF IInv, Types, Claim, Version
<1>b. user'.version >= user.version /\ (Advance(p) => user'.version > user.version)
    BY UserType DEF Advance
<1>1. \A x \in outdated' \cap Named : claim'[x] # None /\ claim'[x].version < user'.version
    <2> SUFFICES ASSUME NEW x \in outdated' \cap Named
                 PROVE  claim'[x] # None /\ claim'[x].version < user'.version
        OBVIOUS
    <2>1. claim[x] # None => claim'[x] = claim[x]
        BY ClaimsStay
    <2>2. CASE x \in outdated
        BY <1>a, <1>b, <2>1, <2>2 DEF Outdated
    <2>3. CASE Advance(p) /\ claim[x] # None
        BY <1>a, <1>b, <2>1, <2>3 DEF Versions
    <2>4. CASE p \in outdated /\ claim'[x] # None /\ claim'[x].version = req[p].version
        BY <1>a, <1>b, <2>4 DEF Outdated
    <2> QED  BY <2>2, <2>3, <2>4, NewlyOutdated
<1>2. ASSUME NEW q \in outdated' \cap Request
      PROVE  /\ req'[q].at \in Issues \cup {"recordFamily", "recordIndex", "point", "announce"}
             /\ req'[q].version < user'.version
    <2>1. CASE q = p
        BY <1>a, <1>b, <2>1, OutdatedSelf DEF Outdated
    <2>2. CASE q # p
        <3>1. req'[q].at = req[q].at /\ req'[q].version = req[q].version
            BY <2>2, Others DEF Left
        <3>2. CASE q \in outdated
            BY <1>a, <1>b, <3>1, <3>2 DEF Outdated
        <3>3. CASE Advance(p) /\ req[q].at \in Issues
            BY <1>a, <1>b, <3>1, <3>3 DEF Versions
        <3> QED  BY <2>2, <3>2, <3>3, NewlyOutdated
    <2> QED  BY <2>1, <2>2
<1>3. spent' \subseteq outdated'
    <2>1. spent \subseteq outdated'
        <3>1. p \notin spent
            BY <1>a, NamesAssumption DEF Types, TypeOK
        <3> QED  BY <1>a, <3>1, NewlyOutdated DEF Outdated
    <2>2. ASSUME Advance(p), req[p].op = "reset" PROVE req[p].about \in outdated'
        <3>1. req[p].about \in Token /\ claim[req[p].about] # None
            BY <1>a, <2>2 DEF Advance, At, About
        <3>2. req[p].about # p
            BY <3>1, NamesAssumption
        <3> QED  BY <2>2, <3>1, <3>2 DEF Advance, Outdate
    <2> QED  BY <2>1, <2>2, SpentStays
<1> QED  BY <1>1, <1>2, <1>3 DEF Outdated

\* Only a session that is taken passes its family on, and only an issue uses it.
LEMMA Renewed ==
    ASSUME IInv, NEW p \in Request, Begin(p) \/ Continue(p)
    PROVE  \/ Spend(p)
           \/ IssueSession(p)
           \/ /\ stored' \subseteq stored
              /\ Renewing(p)' => Renewing(p) /\ req'[p].family = req[p].family
<1> DEFINE Calm == /\ stored' \subseteq stored
                   /\ Renewing(p)' => Renewing(p) /\ req'[p].family = req[p].family
<1> SUFFICES Spend(p) \/ IssueSession(p) \/ Calm
    OBVIOUS
<1>a. Types /\ req[p] \in Doing /\ About(p)
    BY Fields DEF IInv
<1>b. ASSUME Finish(p) PROVE ~Renewing(p)'
    BY <1>b, <1>a DEF Finish, Goto, Types, Idle, Renewing
<1>1. ASSUME RecordLogin(p)
      PROVE  Calm
    BY <1>1, <1>a DEF RecordLogin, Goto, Step, Finish, Types, Doing, Idle,
       Renewing, redis, At, About
<1>2. ASSUME SaveGoogle(p)
      PROVE  Calm
    BY <1>2, <1>a DEF SaveGoogle, SaveUser, Types, Doing, redis, Renewing, At, About
<1>3. ASSUME Refused(p)
      PROVE  Calm
    BY <1>3, <1>a DEF Refused, Goto, Step, Finish, Types, Doing, Idle, Renewing,
       redis, At, About
<1>4. ASSUME Fail(p)
      PROVE  Calm
    BY <1>4, <1>a DEF Fail, Goto, Step, Finish, Types, Doing, Idle, Renewing,
       redis, At, About
<1>5. ASSUME RecordFamily(p)
      PROVE  Calm
    BY <1>5, <1>a DEF RecordFamily, Goto, Step, Finish, Types, Doing, Idle,
       Renewing, redis, At, About
<1>6. ASSUME RecordIndex(p)
      PROVE  Calm
    BY <1>6, <1>a DEF RecordIndex, Goto, Step, Finish, Types, Doing, Idle,
       Renewing, redis, At, About
<1>7. ASSUME Check(p)
      PROVE  Calm
    <2>1. \/ Renewing(p) /\ stored' = stored /\ (Finish(p) \/ Renew(p))
          \/ stored' = stored /\ req[p].family = None /\ (Finish(p) \/ Renew(p))
        BY <1>7, <1>a DEF Check, At, Renewing
    <2>2. Renew(p) => req'[p].family = req[p].family
        BY <1>a DEF Renew, Goto, Types, Doing
    <2> QED  BY <1>b, <2>1, <2>2 DEF Renewing
<1>8. ASSUME DropFamily(p)
      PROVE  Calm
    BY <1>8, <1>a DEF DropFamily, Goto, Step, Finish, Types, Doing, Idle, Renewing,
       redis, At, About
<1>9. ASSUME ReadReused(p)
      PROVE  Calm
    BY <1>9, <1>a DEF ReadReused, Goto, Step, Finish, Types, Doing, Idle, Renewing,
       redis, At, About
<1>10. ASSUME DeleteSession(p)
      PROVE  Calm
    BY <1>10, <1>a DEF DeleteSession, Goto, Step, Finish, Types, Doing, Idle,
       Renewing, redis, At, About
<1>11. ASSUME Deindex(p)
      PROVE  Calm
    BY <1>11, <1>a DEF Deindex, Goto, Step, Finish, Types, Doing, Idle, Renewing,
       redis, At, About
<1>12. ASSUME DeleteFamily(p)
      PROVE  Calm
    BY <1>12, <1>a DEF DeleteFamily, Goto, Step, Finish, Types, Doing, Idle,
       Renewing, redis, At, About
<1>13. ASSUME Advance(p)
      PROVE  Calm
    BY <1>13, <1>a DEF Advance, SaveUser, Types, Doing, Idle, Collecting, Renewing,
       redis, At, About
<1>14. ASSUME Collect(p)
      PROVE  Calm
    BY <1>14, <1>a DEF Collect, Goto, Step, Finish, Types, Doing, Idle, Renewing,
       redis, At, About
<1>15. ASSUME Wipe(p)
      PROVE  Calm
    <2> DEFINE r == [req[p] EXCEPT !.at = "issue", !.op = "none", !.ids = {}]
    <2>1. /\ stored' \subseteq stored /\ req[p].family = None
          /\ Finish(p) \/ Goto(p, r)
        BY <1>15, <1>a DEF Wipe, At, About
    <2>2. Goto(p, r) => req'[p].family = req[p].family
        BY <1>a DEF Goto, Types, Doing
    <2> QED  BY <1>b, <2>1, <2>2 DEF Renewing
<1>16. ASSUME Previous(p)
      PROVE  Calm
    BY <1>16, <1>a DEF Previous, Goto, Step, Finish, Types, Doing, Idle, Renewing,
       redis, At, About
<1>17. ASSUME Supersede(p)
      PROVE  Calm
    BY <1>17, <1>a DEF Supersede, Goto, Step, Finish, Types, Doing, Idle, Renewing,
       redis, At, About
<1>18. ASSUME MakeToken(p)
      PROVE  Calm
    BY <1>18, <1>a DEF MakeToken, Goto, Step, Finish, Types, Doing, Idle, Renewing,
       redis, At, About
<1>19. ASSUME Point(p)
      PROVE  Calm
    BY <1>19, <1>a DEF Point, Goto, Step, Finish, Types, Doing, Idle, Renewing,
       redis, At, About
<1>20. ASSUME Announce(p)
      PROVE  Calm
    BY <1>20, <1>a DEF Announce, Goto, Step, Finish, Types, Doing, Idle, Renewing,
       redis, At, About
<1>21. ASSUME Withdraw(p)
      PROVE  Calm
    BY <1>21, <1>a DEF Withdraw, Goto, Step, Finish, Types, Doing, Idle, Renewing,
       redis, At, About
<1>22. ASSUME Redeem(p)
      PROVE  Calm
    <2> DEFINE r == [req[p] EXCEPT !.at = "revoke", !.op = "reset", !.version = user.version]
               c == [req[p] EXCEPT !.at = "confirm", !.op = "confirm"]
    <2>1. stored' = stored /\ (Finish(p) \/ Goto(p, r) \/ Goto(p, c))
        BY <1>22 DEF Redeem, redis
    <2>2. Goto(p, r) \/ Goto(p, c) => ~Renewing(p)'
        BY <1>a DEF Goto, Types, Doing, Renewing
    <2> QED  BY <1>b, <2>1, <2>2
<1>23. ASSUME Confirm(p)
      PROVE  Calm
    BY <1>23, <1>a DEF Confirm, SaveUser, Types, Idle, Renewing, redis
<1>24. ASSUME Login(p)
      PROVE  Calm
    BY <1>24, <1>a DEF Login, Read, Goto, Types, Idle, Renewing, redis
<1>25. ASSUME Google(p)
      PROVE  Calm
    BY <1>25, <1>a DEF Google, Read, Goto, Types, Idle, Renewing, redis
<1>26. ASSUME LogoutAll(p)
      PROVE  Calm
    BY <1>26, <1>a DEF LogoutAll, Read, Goto, Types, Idle, Renewing, redis
<1>27. ASSUME ChangePassword(p)
      PROVE  Calm
    BY <1>27, <1>a DEF ChangePassword, Read, Goto, Types, Idle, Renewing, redis
<1>28. ASSUME AskReset(p)
      PROVE  Calm
    BY <1>28, <1>a DEF AskReset, Read, Goto, Types, Idle, Renewing, redis
<1>29. ASSUME AskCheck(p)
      PROVE  Calm
    BY <1>29, <1>a DEF AskCheck, Read, Goto, Types, Idle, Renewing, redis
<1>30. ASSUME \E s \in Session : Refresh(p, s)
      PROVE  Calm
    BY <1>30, <1>a DEF Refresh, Goto, Types, Idle, Renewing, redis
<1>31. ASSUME \E s \in Session : Revoke(p, s)
      PROVE  Calm
    BY <1>31, <1>a DEF Revoke, Goto, Types, Idle, Renewing, redis
<1>32. ASSUME \E t \in Token : Consume(p, t)
      PROVE  Calm
    BY <1>32, <1>a DEF Consume, Goto, Types, Idle, Renewing
<1> HIDE DEF Calm
<1> QED  BY <1>1, <1>2, <1>3, <1>4, <1>5, <1>6, <1>7, <1>8, <1>9, <1>10, <1>11,
            <1>12, <1>13, <1>14, <1>15, <1>16, <1>17, <1>18, <1>19, <1>20, <1>21,
            <1>22, <1>23, <1>24, <1>25, <1>26, <1>27, <1>28, <1>29, <1>30, <1>31,
            <1>32 DEF Begin, Continue

LEMMA OneOfAFamilyStep ==
    ASSUME IInv, NEW p \in Request, Begin(p) \/ Continue(p)
    PROVE  OneOfAFamily'
<1>a. /\ Types /\ OneOfAFamily /\ About(p) /\ Numbered
      /\ stored \subseteq Issued
      /\ \A s \in Issued : claim'[s] = claim[s] /\ claim[s].family \in Family
      /\ Cardinality(Issued) \in Nat
    BY ClaimsStay, Counted DEF IInv, Types, TypeOK, Issued, Named
<1>b. \A q \in Request \ {p} : /\ Renewing(q)' <=> Renewing(q)
                               /\ req'[q].family = req[q].family
    BY Others DEF Left, Renewing
<1>1. CASE /\ stored' \subseteq stored
           /\ Renewing(p)' => Renewing(p) /\ req'[p].family = req[p].family
    BY <1>a, <1>b, <1>1 DEF OneOfAFamily, OneSessionPerFamily
<1>2. CASE Spend(p)
    <2> DEFINE s == req[p].about
    <2>1. stored' = stored \ {s} /\ s \in Issued /\ req[p].family = claim[s].family
        BY <1>a, <1>2 DEF Spend, At, About
    <2>2. Renewing(p)' => s \in stored /\ req'[p].family = req[p].family
        BY <1>a, <1>2, Fields DEF Spend, Step, Finish, Goto, Renewing, Types,
           Doing, Idle
    <2>3. s \in stored => /\ \A t \in stored \ {s} : claim[t].family # claim[s].family
                          /\ \A q \in Request : Renewing(q) => req[q].family # claim[s].family
        BY <1>a DEF OneOfAFamily, OneSessionPerFamily
    <2>4. OneSessionPerFamily'
        BY <1>a, <2>1 DEF OneOfAFamily, OneSessionPerFamily
    <2>5. ASSUME NEW q \in Request, Renewing(q)', NEW t \in stored'
          PROVE  claim'[t].family # req'[q].family
        BY <1>a, <1>b, <2>1, <2>2, <2>3, <2>5 DEF OneOfAFamily
    <2>6. ASSUME NEW q \in Request, NEW r \in Request, Renewing(q)', Renewing(r)',
                 req'[q].family = req'[r].family
          PROVE  q = r
        BY <1>a, <1>b, <2>1, <2>2, <2>3, <2>6 DEF OneOfAFamily
    <2> QED  BY <2>4, <2>5, <2>6 DEF OneOfAFamily
<1>3. CASE IssueSession(p)
    <2>1. PICK s \in Session, f \in Family :
             /\ s = <<"session", Cardinality(Issued) + 1>> /\ claim[s] = None
             /\ f = IF req[p].family = None THEN <<"family", Cardinality(Issued) + 1>>
                                            ELSE req[p].family
             /\ claim' = [claim EXCEPT ![s] = [version |-> req[p].version, family |-> f]]
             /\ Goto(p, [req[p] EXCEPT !.at = "recordFamily", !.about = s, !.family = f])
             /\ stored' = stored \cup {s}
        BY <1>3, TheSession
    <2>2. claim'[s].family = f /\ ~Renewing(p)'
        BY <1>a, <2>1 DEF Types, Named, Goto, Doing, Renewing
    <2>3. /\ \A t \in stored : claim[t].family # f
          /\ \A q \in Request \ {p} : Renewing(q) => req[q].family # f
        <3>1. CASE req[p].family = None
            <4>1. f[2] = Cardinality(Issued) + 1
                BY <2>1, <3>1
            <4>2. \A t \in Issued : claim[t].family[2] <= Cardinality(Issued)
                BY <1>a DEF Numbered
            <4>3. \A q \in Request : req[q].family # None =>
                     req[q].family[2] <= Cardinality(Issued)
                BY <1>a DEF Numbered
            <4> QED  BY <1>a, <4>1, <4>2, <4>3 DEF Renewing
        <3>2. CASE req[p].family # None
            <4>1. Renewing(p) /\ f = req[p].family
                BY <1>3, <2>1, <3>2 DEF IssueSession, At, Renewing
            <4> QED  BY <1>a, <4>1 DEF OneOfAFamily
        <3> QED  BY <3>1, <3>2
    <2>4. OneSessionPerFamily'
        BY <1>a, <2>1, <2>2, <2>3 DEF OneOfAFamily, OneSessionPerFamily
    <2>5. ASSUME NEW q \in Request, Renewing(q)', NEW t \in stored'
          PROVE  claim'[t].family # req'[q].family
        BY <1>a, <1>b, <2>1, <2>2, <2>3, <2>5 DEF OneOfAFamily
    <2>6. ASSUME NEW q \in Request, NEW r \in Request, Renewing(q)', Renewing(r)',
                 req'[q].family = req'[r].family
          PROVE  q = r
        BY <1>a, <1>b, <2>2, <2>6 DEF OneOfAFamily
    <2> QED  BY <2>4, <2>5, <2>6 DEF OneOfAFamily
<1> QED  BY <1>1, <1>2, <1>3, Renewed

(***************************************************************************)
(* The steps of staff, and the theorems                                    *)
(***************************************************************************)

\* Staff disable or enable the account: the copies of all requests that will save
\* the user are obsolete.
LEMMA StaffStep ==
    ASSUME IInv, Disable \/ Enable
    PROVE  IInv'
<1>a. /\ Types /\ Numbered /\ Versions /\ Outdated /\ OneOfAFamily
      /\ \A q \in Request : About(q)
      /\ user.version \in Nat
    BY Fields, SessionsAssumption DEF IInv, Version
<1>1. /\ req' = [q \in Request |-> Staled(q)]
      /\ UNCHANGED <<redis, claim, given, spent>>
    BY DEF Disable, Enable, Staled
<1>2. \A q \in Request : req'[q] \in Doing /\ Left(q)
    BY <1>a, <1>1, StaledType, LeftByStaling
<1>3. Issued' = Issued /\ \A k : Made(k)' = Made(k)
    BY <1>1 DEF Issued, Made
<1>4. /\ user' \in [version : Version, active : BOOLEAN, verified : BOOLEAN]
      /\ user'.version \in Nat /\ user'.version >= user.version
      /\ Disable => user'.version > user.version
    <2>1. user \in [version : Version, active : BOOLEAN, verified : BOOLEAN]
        BY <1>a DEF Types, TypeOK
    <2>2. CASE Disable
        <3>1. /\ user' = [user EXCEPT !.active = FALSE, !.version = @ + 1]
              /\ user.version < MaxVersion
            BY <2>2 DEF Disable
        <3>2. user.version + 1 \in Version
            BY <1>a, <3>1, SessionsAssumption DEF Version
        <3>3. /\ user' \in [version : Version, active : BOOLEAN, verified : BOOLEAN]
              /\ user'.version = user.version + 1
            BY <2>1, <3>1, <3>2
        <3> QED  BY <1>a, <3>3
    <2>3. CASE Enable
        <3>1. user' = [user EXCEPT !.active = TRUE] /\ ~Disable
            BY <2>3 DEF Enable, Disable
        <3>2. /\ user' \in [version : Version, active : BOOLEAN, verified : BOOLEAN]
              /\ user'.version = user.version
            BY <2>1, <3>1
        <3> QED  BY <1>a, <3>1, <3>2
    <2> QED  BY <2>2, <2>3
<1>5. outdated' \subseteq Named \cup Request /\ outdated \subseteq outdated'
    BY <1>a DEF Disable, Enable, Types, Issued, Named
<1>6. Types'
    <2>1. req' \in [Request -> Doing]
        BY <1>1, <1>2
    <2>2. \A q \in Request : req'[q].version \in Version
        BY <1>2 DEF Doing
    <2> QED  BY <1>a, <1>1, <1>3, <1>4, <1>5, <2>1, <2>2 DEF Types, TypeOK, redis
<1>7. Numbered'
    BY <1>a, <1>1, <1>2, <1>3 DEF Numbered, Left
<1>8. \A q \in Request : About(q)'
    BY <1>a, <1>1, <1>2, <1>3 DEF About, Left
<1>9. Versions'
    <2>1. \A x \in Named : claim[x] # None => claim[x].version \in Nat
        BY <1>a DEF Types, Claim, Version
    <2>2. \A q \in Request : req[q].version \in Nat
        BY <1>a, Fields DEF Version
    <2>3. \A x \in Named : claim'[x] # None => claim'[x].version <= user'.version
        BY <1>a, <1>1, <1>4, <2>1 DEF Versions
    <2>4. \A q \in Request : req'[q].version <= user'.version
        BY <1>a, <1>2, <1>4, <2>2 DEF Versions, Left
    <2>5. \A q \in Request :
             At(q, "revoke")' /\ req'[q].fresh => req'[q].version = user'.version
        BY <1>a, <1>2 DEF Versions, Left, At
    <2> QED  BY <2>3, <2>4, <2>5 DEF Versions
<1>10. Outdated'
    <2>1. \A x \in Named : claim[x] # None => claim[x].version \in Nat
        BY <1>a DEF Types, Claim, Version
    <2>2. \A q \in Request : req[q].version \in Nat
        BY <1>a, Fields DEF Version
    <2>a. \/ outdated' = outdated
          \/ /\ Disable
             /\ outdated' = outdated \cup Issued \cup {t \in Token : claim[t] # None}
                               \cup {q \in Request : req[q].at \in Issues}
        BY DEF Disable, Enable
    <2>b. Request \cap Named = {}
        BY NamesAssumption DEF Named
    <2>3. \A x \in outdated' \cap Named : x \in outdated \/ (Disable /\ claim[x] # None)
        BY <2>a, <2>b DEF Issued
    <2>4. \A q \in outdated' \cap Request : q \in outdated \/ (Disable /\ req[q].at \in Issues)
        BY <2>a, <2>b DEF Issued, Named
    <2>5. \A x \in outdated' \cap Named : claim'[x] # None /\ claim'[x].version < user'.version
        BY <1>a, <1>1, <1>4, <2>1, <2>3 DEF Outdated, Versions
    <2>6. \A q \in outdated' \cap Request :
             /\ req'[q].at \in Issues \cup {"recordFamily", "recordIndex", "point", "announce"}
             /\ req'[q].version < user'.version
        BY <1>a, <1>2, <1>4, <2>2, <2>4 DEF Outdated, Versions, Left
    <2>7. spent' \subseteq outdated'
        BY <1>a, <1>1, <1>5 DEF Outdated
    <2> QED  BY <2>5, <2>6, <2>7 DEF Outdated
<1>11. OneOfAFamily'
    BY <1>a, <1>1, <1>2 DEF OneOfAFamily, OneSessionPerFamily, Renewing, Left, redis
<1> QED  BY <1>6, <1>7, <1>8, <1>9, <1>10, <1>11 DEF IInv

LEMMA InvariantInit == Init => IInv
<1> SUFFICES ASSUME Init PROVE IInv
    OBVIOUS
<1>1. /\ \A x \in Named : claim[x] = None
      /\ \A p \in Request : req[p] = Idle
    BY DEF Init, Named
<1>2. Issued = {} /\ \A k : Made(k) = {}
    BY <1>1 DEF Issued, Made, Named
<1>3. Cardinality({}) = 0
    BY FS_EmptySet
<1>4. 0 \in Version
    BY SessionsAssumption DEF Version
<1>5. Types
    BY <1>1, <1>2, <1>4, IdleType DEF Init, Types, TypeOK, Idle, Named
<1>6. Numbered
    BY <1>1, <1>2, <1>3, SessionsAssumption DEF Numbered, Idle, Session, Token,
       Named
<1>7. \A p \in Request : About(p)
    BY <1>1 DEF About, Idle
<1>8. Versions /\ Outdated
    BY <1>1 DEF Init, Versions, Outdated, Idle, At
<1>9. OneOfAFamily
    BY <1>1 DEF Init, OneOfAFamily, OneSessionPerFamily, Renewing, Idle
<1> QED  BY <1>5, <1>6, <1>7, <1>8, <1>9 DEF IInv

LEMMA InvariantNext == IInv /\ [Next]_vars => IInv'
<1> SUFFICES ASSUME IInv, [Next]_vars PROVE IInv'
    OBVIOUS
<1>1. ASSUME NEW p \in Request, Begin(p) \/ Continue(p) PROVE IInv'
    BY <1>1, TypesStep, NumberedStep, AboutStep, VersionsStep, OutdatedStep,
       OneOfAFamilyStep DEF IInv
<1>2. CASE Disable \/ Enable
    BY <1>2, StaffStep
<1>3. CASE UNCHANGED vars
    BY <1>3 DEF vars, IInv, Types, TypeOK, Numbered, About, Versions, Outdated,
        OneOfAFamily, OneSessionPerFamily, Renewing, Issued, Made, At
<1> QED  BY <1>1, <1>2, <1>3 DEF Next

\* The inductive invariant holds at every step, for any number of requests, sessions
\* and tokens.
THEOREM Invariance == Spec => []IInv
    BY InvariantInit, InvariantNext, PTL DEF Spec

\* Every document and key is of its type.
THEOREM TypeCorrect == Spec => []TypeOK
<1>1. IInv => TypeOK
    BY DEF IInv, Types
<1> QED  BY <1>1, Invariance, PTL

\* A revocation of all sessions ends every session issued before, and those still
\* issued then for a user read before it, whatever else goes on: such a session is of
\* an earlier tokenVersion, for ever.
THEOREM RevocationHolds == Spec => []NoSessionOutlivesRevocation
<1>1. IInv => NoSessionOutlivesRevocation
    <2> SUFFICES ASSUME IInv, NEW s \in outdated \cap Session PROVE ~Usable(s)
        BY DEF NoSessionOutlivesRevocation
    <2>1. claim[s].version < user.version /\ user.version \in Int
        BY Fields, SessionsAssumption DEF IInv, Outdated, Named, Version
    <2> QED  BY <2>1 DEF Usable
<1> QED  BY <1>1, Invariance, PTL

\* Of the sessions refreshed from one another one at most has a key: GETDEL gives a
\* session to one request, and a session of its family comes of no other.
THEOREM OneOfEachFamily == Spec => []OneSessionPerFamily
<1>1. IInv => OneSessionPerFamily
    BY DEF IInv, OneOfAFamily
<1> QED  BY <1>1, Invariance, PTL

\* A reset token sets a password once, and never after the sessions have been revoked:
\* the request that redeems it saves a user of the token's tokenVersion.
THEOREM ResetOnce == Spec => ResetTokensAreSpent
<1>1. ASSUME IInv, NEW p \in Request, Advance(p), req[p].op = "reset"
      PROVE  req[p].about \notin spent \cup outdated
    <2>1. /\ req[p].about \in Named
          /\ claim[req[p].about].version = user.version
        BY <1>1 DEF IInv, About, Versions, Advance, At, Named
    <2>2. user.version \in Int
        BY <1>1, Fields, SessionsAssumption DEF IInv, Version
    <2> QED  BY <1>1, <2>1, <2>2 DEF IInv, Outdated
<1>2. IInv /\ [Next]_vars => [\A p \in Request :
         Advance(p) /\ req[p].op = "reset" => req[p].about \notin spent \cup outdated]_vars
    BY <1>1
<1> QED  BY <1>2, Invariance, PTL DEF Spec, ResetTokensAreSpent
=============================================================================
