------------------------------ MODULE Sessions ------------------------------
(***************************************************************************)
(* Sign-in sessions and action tokens of one account.                      *)
(*                                                                         *)
(* The user document in MongoDB carries a tokenVersion.  Redis keeps the   *)
(* rest: one key per session, one per family of sessions that were         *)
(* refreshed from each other, the index of the user's sessions, one key    *)
(* per action token and a pointer to the latest one of each purpose.       *)
(* Access and refresh tokens are signed and name their session, family and *)
(* tokenVersion; a session counts only while its key is there and its      *)
(* tokenVersion is the user's.                                             *)
(*                                                                         *)
(* Every request is a series of commands to Redis and MongoDB, and each    *)
(* command is one action, so that requests interleave between any two.     *)
(* The user is saved under optimistic concurrency: a request whose copy    *)
(* has been overtaken by another save fails.  A request can fail or its    *)
(* process die after any command.                                          *)
(*                                                                         *)
(* Passwords, roles, expiry by age and the customer profile are left out.  *)
(***************************************************************************)
EXTENDS Integers, FiniteSets

CONSTANTS
    Request,     \* what serves one request after the other
    Does,        \* Does[p]: the operations request p may be for
    Mortal,      \* those of them that may fail half-way
    Sessions,    \* how many sessions are issued at most
    Resets,      \* how many password-reset tokens,
    Checks,      \*   how many e-mail verification tokens are issued at most
    MaxVersion,  \* the last tokenVersion
    None         \* nothing, for a key that is not there

ASSUME SessionsAssumption ==
    /\ Sessions \in Nat /\ Resets \in Nat /\ Checks \in Nat /\ MaxVersion \in Nat
    /\ Mortal \subseteq Request

Session == {"session"} \X (1 .. Sessions)
Family  == {"family"} \X (1 .. Sessions)
Purpose == {"password-reset", "email-verification"}
Token   == ({"password-reset"} \X (1 .. Resets))
             \cup ({"email-verification"} \X (1 .. Checks))
Version == 0 .. MaxVersion

\* What a token says, and what Redis keeps of a family.
Claim   == [version : Version, family : Family \cup {None}]
Current == [current : Session, version : Version]

ASSUME NamesAssumption ==
    /\ Request \cap (Session \cup Token) = {}
    /\ None \notin Session \cup Token \cup Family
    /\ None \notin Claim /\ None \notin Current

VARIABLES
    user,      \* MongoDB: tokenVersion, isActive, whether the e-mail is verified
    stored,    \* Redis: the sessions that have a key
    family,    \* Redis: the current session and tokenVersion of a family
    index,     \* Redis: the user's sorted set of sessions
    record,    \* Redis: the action tokens that have a key
    pointer,   \* Redis: the latest action token of a purpose
    claim,     \* what a token says: its tokenVersion, and its session's family
    given,     \* the sessions and action tokens in the hands of the user
    req,       \* what each request is doing
    outdated,  \* history: what was there before the sessions were last revoked
    spent      \* history: the reset tokens that have set a password

vars == <<user, stored, family, index, record, pointer, claim, given, req,
          outdated, spent>>
redis == <<stored, family, index, record, pointer>>

-----------------------------------------------------------------------------
(* Requests *)

\* What request p does next, for which operation, about which session or token
\* and of which family, with the tokenVersion of its copy of the user, whether
\* that copy is still the stored one, and the sessions it is about to revoke.
Idle == [at |-> "idle", op |-> "none", about |-> None, family |-> None,
         version |-> 0, fresh |-> TRUE, ids |-> {}]

At(p, l)   == req[p].at = l
Goto(p, r) == req' = [req EXCEPT ![p] = r]
Step(p, l) == Goto(p, [req[p] EXCEPT !.at = l])
Finish(p)  == Goto(p, Idle) /\ outdated' = outdated \ {p}

Issued == {s \in Session : claim[s] # None}
Made(k) == {t \in Token : t[1] = k /\ claim[t] # None}

\* The middleware: the session is there, and the user is active and has its
\* tokenVersion.
Usable(s) == s \in stored /\ user.active /\ claim[s].version = user.version

Authenticated == \E s \in given \cap Session : Usable(s)

\* Request p of operation o starts by reading the user and goes on at l.
Read(p, l, o) ==
    /\ At(p, "idle")
    /\ user.active
    /\ Goto(p, [Idle EXCEPT !.at = l, !.op = o, !.version = user.version])
    /\ UNCHANGED <<user, redis, claim, given, outdated, spent>>

Saves  == {"google", "confirm", "revoke"}
Issues == {"login", "google", "issue", "previous", "supersede", "make"}

\* Saving the user makes the copies of others that will be saved too obsolete.
SaveUser(p, u, r) ==
    /\ user' = u
    /\ req' = [q \in Request |->
         IF q = p THEN r
         ELSE [req[q] EXCEPT !.fresh = @ /\ req[q].at \notin Saves]]

\* The save of a stale copy is refused with a version error.
Refused(p) ==
    /\ req[p].at \in Saves
    /\ ~req[p].fresh
    /\ Finish(p)
    /\ UNCHANGED <<user, redis, claim, given, spent>>

\* The request fails or its process dies.
Fail(p) ==
    /\ p \in Mortal
    /\ ~At(p, "idle")
    /\ Finish(p)
    /\ UNCHANGED <<user, redis, claim, given, spent>>

\* Everything issued so far, and what other requests issue for the user they
\* have read before, is outdated by a revocation.
Outdate(p) ==
    outdated' = (outdated \cup Issued \cup {t \in Token : claim[t] # None}
                   \cup {q \in Request : req[q].at \in Issues}) \ {p}

-----------------------------------------------------------------------------
(* Issuing a session *)

\* The session, then its family and the index.
IssueSession(p) ==
    LET n == Cardinality(Issued) + 1
        s == <<"session", n>>
        f == IF req[p].family = None THEN <<"family", n>> ELSE req[p].family
    IN
    /\ At(p, "issue")
    /\ s \in Session
    /\ claim' = [claim EXCEPT ![s] = [version |-> req[p].version, family |-> f]]
    /\ stored' = stored \cup {s}
    /\ Goto(p, [req[p] EXCEPT !.at = "recordFamily", !.about = s, !.family = f])
    /\ outdated' = IF p \in outdated THEN outdated \cup {s} ELSE outdated
    /\ UNCHANGED <<user, family, index, record, pointer, given, spent>>

RecordFamily(p) ==
    /\ At(p, "recordFamily")
    /\ family' = [family EXCEPT ![req[p].family] =
                    [current |-> req[p].about, version |-> req[p].version]]
    /\ Step(p, "recordIndex")
    /\ UNCHANGED <<user, stored, index, record, pointer, claim, given, outdated, spent>>

RecordIndex(p) ==
    /\ At(p, "recordIndex")
    /\ index' = index \cup {req[p].about}
    /\ given' = given \cup {req[p].about}
    /\ Finish(p)
    /\ UNCHANGED <<user, stored, family, record, pointer, claim, spent>>

\* Local login: the password is right, and the account active when the login
\* is recorded.
Login(p) == Read(p, "login", "none")

RecordLogin(p) ==
    /\ At(p, "login")
    /\ user.active
    /\ Step(p, "issue")
    /\ UNCHANGED <<user, redis, claim, given, outdated, spent>>

\* Google login saves the user.
Google(p) == Read(p, "google", "none")

SaveGoogle(p) ==
    /\ At(p, "google")
    /\ req[p].fresh
    /\ SaveUser(p, [user EXCEPT !.verified = TRUE], [req[p] EXCEPT !.at = "issue"])
    /\ UNCHANGED <<redis, claim, given, outdated, spent>>

-----------------------------------------------------------------------------
(* Refreshing *)

\* The family is read before the session is taken: here it says what becomes of
\* the request.
Refresh(p, s) ==
    LET f == family[claim[s].family]
        reused == f # None /\ f.version = claim[s].version /\ f.current # s
    IN
    /\ At(p, "idle")
    /\ s \in given \cap Session
    /\ Goto(p, [Idle EXCEPT !.at = "spend", !.op = "refresh", !.about = s,
                            !.family = claim[s].family,
                            !.ids = IF reused THEN {f.current} ELSE {}])
    /\ UNCHANGED <<user, redis, claim, given, outdated, spent>>

\* The key is read without being deleted.
SpendKept(p) ==
    LET s == req[p].about IN
    /\ At(p, "spend")
    /\ IF req[p].ids # {} THEN Step(p, "dropFamily") /\ UNCHANGED outdated
       ELSE IF s \in stored THEN Step(p, "check") /\ UNCHANGED outdated
       ELSE Finish(p)
    /\ UNCHANGED <<user, redis, claim, given, spent>>

\* GETDEL takes the session, so that one request only gets it.
Spend(p) ==
    LET s == req[p].about IN
    /\ At(p, "spend")
    /\ stored' = stored \ {s}
    /\ IF req[p].ids # {} THEN Step(p, "dropFamily") /\ UNCHANGED outdated
       ELSE IF s \in stored THEN Step(p, "check") /\ UNCHANGED outdated
       ELSE Finish(p)
    /\ UNCHANGED <<user, family, index, record, pointer, claim, given, spent>>

\* The session that follows is outdated if the one it follows is.
Renew(p) ==
    /\ Goto(p, [req[p] EXCEPT !.at = "issue", !.op = "none", !.about = None,
                              !.version = user.version])
    /\ outdated' = IF req[p].about \in outdated THEN outdated \cup {p} ELSE outdated \ {p}

\* A session of any tokenVersion is renewed.
CheckAnyVersion(p) ==
    /\ At(p, "check")
    /\ index' = index \ {req[p].about}
    /\ IF user.active THEN Renew(p) ELSE Finish(p)
    /\ UNCHANGED <<user, stored, family, record, pointer, claim, given, spent>>

\* The session is taken from the index and the user is read: a session of
\* another tokenVersion is not renewed.
Check(p) ==
    /\ At(p, "check")
    /\ index' = index \ {req[p].about}
    /\ IF user.active /\ user.version = claim[req[p].about].version
       THEN Renew(p)
       ELSE Finish(p)
    /\ UNCHANGED <<user, stored, family, record, pointer, claim, given, spent>>

\* A token refreshed before is presented again: its family is deleted and the
\* session that was its current one is revoked.
DropFamily(p) ==
    LET c == CHOOSE s \in req[p].ids : TRUE IN
    /\ At(p, "dropFamily")
    /\ family' = [family EXCEPT ![req[p].family] = None]
    /\ Goto(p, [req[p] EXCEPT !.at = "delete", !.about = c,
                              !.ids = IF c \in stored THEN {c} ELSE {}])
    /\ UNCHANGED <<user, stored, index, record, pointer, claim, given, outdated, spent>>

\* ... and then the user, to revoke all the rest.
ReadReused(p) ==
    /\ At(p, "readReused")
    /\ Goto(p, [Idle EXCEPT !.at = "revoke", !.op = "reuse", !.version = user.version])
    /\ outdated' = outdated \ {p}
    /\ UNCHANGED <<user, redis, claim, given, spent>>

-----------------------------------------------------------------------------
(* Revoking one session *)

\* Logging out, or ending one of the sessions in the list.
Revoke(p, s) ==
    /\ At(p, "idle")
    /\ Authenticated
    /\ s \in stored
    /\ Goto(p, [Idle EXCEPT !.at = "delete", !.op = "logout", !.about = s,
                            !.family = claim[s].family, !.ids = {s}])
    /\ UNCHANGED <<user, redis, claim, given, outdated, spent>>

\* ids says whether the session was found when it was read.
DeleteSession(p) ==
    /\ At(p, "delete")
    /\ stored' = stored \ {req[p].about}
    /\ IF req[p].ids # {} THEN Step(p, "deindex") /\ UNCHANGED outdated
       ELSE IF req[p].op = "refresh" THEN Step(p, "readReused") /\ UNCHANGED outdated
       ELSE Finish(p)
    /\ UNCHANGED <<user, family, index, record, pointer, claim, given, spent>>

\* The family is read next, and deleted when this session is its current one.
Deindex(p) ==
    LET f == family[req[p].family] IN
    /\ At(p, "deindex")
    /\ index' = index \ {req[p].about}
    /\ IF f # None /\ f.current = req[p].about
       THEN Step(p, "deleteFamily") /\ UNCHANGED outdated
       ELSE IF req[p].op = "refresh" THEN Step(p, "readReused") /\ UNCHANGED outdated
       ELSE Finish(p)
    /\ UNCHANGED <<user, stored, family, record, pointer, claim, given, spent>>

\* The family forgets its current session and stays.
ForgetCurrent(p) ==
    /\ At(p, "deleteFamily")
    /\ family' = [family EXCEPT ![req[p].family] = [current |-> None, version |-> 0]]
    /\ IF req[p].op = "refresh" THEN Step(p, "readReused") /\ UNCHANGED outdated
       ELSE Finish(p)
    /\ UNCHANGED <<user, stored, index, record, pointer, claim, given, spent>>

\* The family is deleted: the next token of it that comes back looks unknown.
DeleteFamily(p) ==
    /\ At(p, "deleteFamily")
    /\ family' = [family EXCEPT ![req[p].family] = None]
    /\ IF req[p].op = "refresh" THEN Step(p, "readReused") /\ UNCHANGED outdated
       ELSE Finish(p)
    /\ UNCHANGED <<user, stored, index, record, pointer, claim, given, spent>>

-----------------------------------------------------------------------------
(* Revoking all sessions *)

LogoutAll(p)      == Authenticated /\ Read(p, "revoke", "logoutAll")
ChangePassword(p) == Authenticated /\ Read(p, "revoke", "changePassword")

\* After the save only a changed password needs the tokenVersion.
Collecting(p, v) ==
    IF req[p].op = "changePassword" THEN [req[p] EXCEPT !.at = "collect", !.version = v]
                                    ELSE [Idle EXCEPT !.at = "collect"]

\* The tokenVersion is advanced, with a new password or without.
Advance(p) ==
    LET v == req[p].version + 1 IN
    /\ At(p, "revoke")
    /\ req[p].fresh
    /\ v \in Version
    /\ SaveUser(p, [user EXCEPT !.version = v], Collecting(p, v))
    /\ spent' = IF req[p].op = "reset" THEN spent \cup {req[p].about} ELSE spent
    /\ Outdate(p)
    /\ UNCHANGED <<redis, claim, given>>

\* The sessions in the index are read, and their families: of a session no
\* longer there the family is not known.
Collect(p) ==
    /\ At(p, "collect")
    /\ Goto(p, [req[p] EXCEPT !.at = "wipe",
                  !.ids = index \cup {claim[s].family : s \in index \cap stored}])
    /\ UNCHANGED <<user, redis, claim, given, outdated, spent>>

\* The keys found are deleted, and the index as a whole; a changed password
\* begins a new session.
Wipe(p) ==
    /\ At(p, "wipe")
    /\ stored' = stored \ req[p].ids
    /\ family' = [f \in Family |-> IF f \in req[p].ids THEN None ELSE family[f]]
    /\ index' = {}
    /\ IF req[p].op = "changePassword"
       THEN /\ Goto(p, [req[p] EXCEPT !.at = "issue", !.op = "none", !.ids = {}])
            /\ UNCHANGED outdated
       ELSE Finish(p)
    /\ UNCHANGED <<user, record, pointer, claim, given, spent>>

\* Staff disable and enable the account in a transaction; an employee's account
\* is enabled as it was.
Disable ==
    /\ user.active
    /\ user.version < MaxVersion
    /\ user' = [user EXCEPT !.active = FALSE, !.version = @ + 1]
    /\ req' = [q \in Request |-> [req[q] EXCEPT !.fresh = @ /\ req[q].at \notin Saves]]
    /\ outdated' = outdated \cup Issued \cup {t \in Token : claim[t] # None}
                     \cup {q \in Request : req[q].at \in Issues}
    /\ UNCHANGED <<redis, claim, given, spent>>

Enable ==
    /\ ~user.active
    /\ user' = [user EXCEPT !.active = TRUE]
    /\ req' = [q \in Request |-> [req[q] EXCEPT !.fresh = @ /\ req[q].at \notin Saves]]
    /\ UNCHANGED <<redis, claim, given, outdated, spent>>

-----------------------------------------------------------------------------
(* Action tokens *)

AskReset(p) == Read(p, "previous", "password-reset")
AskCheck(p) == Authenticated /\ ~user.verified /\ Read(p, "previous", "email-verification")

\* The latest token of the purpose is looked up, and deleted.
Previous(p) ==
    LET t == pointer[req[p].op] IN
    /\ At(p, "previous")
    /\ Goto(p, [req[p] EXCEPT !.at = IF t = None THEN "make" ELSE "supersede", !.about = t])
    /\ UNCHANGED <<user, redis, claim, given, outdated, spent>>

Supersede(p) ==
    /\ At(p, "supersede")
    /\ record' = record \ {req[p].about}
    /\ Goto(p, [req[p] EXCEPT !.at = "make", !.about = None])
    /\ UNCHANGED <<user, stored, family, index, pointer, claim, given, outdated, spent>>

MakeToken(p) ==
    LET t == <<req[p].op, Cardinality(Made(req[p].op)) + 1>> IN
    /\ At(p, "make")
    /\ t \in Token
    /\ claim' = [claim EXCEPT ![t] = [version |-> req[p].version, family |-> None]]
    /\ record' = record \cup {t}
    /\ Goto(p, [req[p] EXCEPT !.at = "point", !.about = t])
    /\ outdated' = IF p \in outdated THEN outdated \cup {t} ELSE outdated
    /\ UNCHANGED <<user, stored, family, index, pointer, given, spent>>

Point(p) ==
    /\ At(p, "point")
    /\ pointer' = [pointer EXCEPT ![req[p].op] = req[p].about]
    /\ Step(p, "announce")
    /\ UNCHANGED <<user, stored, family, index, record, claim, given, outdated, spent>>

\* The token goes to the outbox, and from there to the user.
Announce(p) ==
    /\ At(p, "announce")
    /\ given' = given \cup {req[p].about}
    /\ Finish(p)
    /\ UNCHANGED <<user, redis, claim, spent>>

\* A token that cannot be announced is deleted unless another one is the latest.
Withdraw(p) ==
    LET t == req[p].about IN
    /\ At(p, "announce")
    /\ IF pointer[t[1]] = t
       THEN /\ pointer' = [pointer EXCEPT ![t[1]] = None]
            /\ record' = record \ {t}
       ELSE UNCHANGED <<pointer, record>>
    /\ Finish(p)
    /\ UNCHANGED <<user, stored, family, index, claim, given, spent>>

\* One script takes the token and its pointer, if it is the latest one.
Consume(p, t) ==
    /\ At(p, "idle")
    /\ t \in given \cap Token
    /\ pointer[t[1]] = t /\ t \in record
    /\ pointer' = [pointer EXCEPT ![t[1]] = None]
    /\ record' = record \ {t}
    /\ Goto(p, [Idle EXCEPT !.at = "redeem", !.about = t])
    /\ UNCHANGED <<user, stored, family, index, claim, given, outdated, spent>>

\* The user is read whatever tokenVersion the token was issued for.
RedeemAnyVersion(p) ==
    LET t == req[p].about IN
    /\ At(p, "redeem")
    /\ IF user.active
       THEN /\ IF t[1] = "password-reset"
               THEN Goto(p, [req[p] EXCEPT !.at = "revoke", !.op = "reset", !.version = user.version])
               ELSE Goto(p, [req[p] EXCEPT !.at = "confirm", !.op = "confirm"])
            /\ outdated' = outdated \ {p}
       ELSE Finish(p)
    /\ UNCHANGED <<user, redis, claim, given, spent>>

\* The user is read: the token must be of its tokenVersion.
Redeem(p) ==
    LET t == req[p].about IN
    /\ At(p, "redeem")
    /\ IF user.active /\ user.version = claim[t].version
       THEN /\ IF t[1] = "password-reset"
               THEN Goto(p, [req[p] EXCEPT !.at = "revoke", !.op = "reset", !.version = user.version])
               ELSE Goto(p, [req[p] EXCEPT !.at = "confirm", !.op = "confirm"])
            /\ outdated' = outdated \ {p}
       ELSE Finish(p)
    /\ UNCHANGED <<user, redis, claim, given, spent>>

\* A user verified meanwhile is not changed, and nothing is sent.
Confirm(p) ==
    /\ At(p, "confirm")
    /\ req[p].fresh
    /\ SaveUser(p, [user EXCEPT !.verified = TRUE], Idle)
    /\ outdated' = outdated \ {p}
    /\ UNCHANGED <<redis, claim, given, spent>>

-----------------------------------------------------------------------------
(* The specification *)

Init ==
    /\ user = [version |-> 0, active |-> TRUE, verified |-> FALSE]
    /\ stored = {} /\ index = {} /\ record = {}
    /\ family = [f \in Family |-> None]
    /\ pointer = [k \in Purpose |-> None]
    /\ claim = [t \in Session \cup Token |-> None]
    /\ given = {}
    /\ req = [p \in Request |-> Idle]
    /\ outdated = {}
    /\ spent = {}

Begin(p) ==
    \/ "login" \in Does[p] /\ (Login(p) \/ Google(p))
    \/ "refresh" \in Does[p] /\ \E s \in Session : Refresh(p, s)
    \/ "revoke" \in Does[p] /\ \E s \in Session : Revoke(p, s)
    \/ "logoutAll" \in Does[p] /\ LogoutAll(p)
    \/ "changePassword" \in Does[p] /\ ChangePassword(p)
    \/ "ask" \in Does[p] /\ (AskReset(p) \/ AskCheck(p))
    \/ "redeem" \in Does[p] /\ \E t \in Token : Consume(p, t)

Continue(p) ==
    \/ RecordLogin(p) \/ SaveGoogle(p) \/ Refused(p) \/ Fail(p)
    \/ IssueSession(p) \/ RecordFamily(p) \/ RecordIndex(p)
    \/ Spend(p) \/ Check(p) \/ DropFamily(p) \/ ReadReused(p)
    \/ DeleteSession(p) \/ Deindex(p) \/ DeleteFamily(p)
    \/ Advance(p) \/ Collect(p) \/ Wipe(p)
    \/ Previous(p) \/ Supersede(p) \/ MakeToken(p) \/ Point(p)
    \/ Announce(p) \/ Withdraw(p) \/ Redeem(p) \/ Confirm(p)

Next ==
    \/ \E p \in Request : Begin(p) \/ Continue(p)
    \/ Disable
    \/ Enable

Spec == Init /\ [][Next]_vars

-----------------------------------------------------------------------------
(* Properties *)

TypeOK ==
    /\ user \in [version : Version, active : BOOLEAN, verified : BOOLEAN]
    /\ stored \subseteq Issued /\ index \subseteq Issued
    /\ family \in [Family -> Current \cup {None}]
    /\ record \subseteq Token
    /\ pointer \in [Purpose -> Token \cup {None}]
    /\ given \subseteq {t \in Session \cup Token : claim[t] # None}
    /\ \A p \in Request : req[p].version \in Version
    /\ spent \subseteq Token

\* When all sessions are revoked, none issued before counts any more, nor one
\* that is issued later for what a request has read before.
NoSessionOutlivesRevocation == \A s \in outdated \cap Session : ~Usable(s)

\* Of the sessions refreshed from each other one is left.
OneSessionPerFamily ==
    \A s, t \in stored : claim[s].family = claim[t].family => s = t

\* A reset token sets a password once, and none issued before the sessions were
\* last revoked does.
ResetTokensAreSpent ==
    [][\A p \in Request :
         Advance(p) /\ req[p].op = "reset" => req[p].about \notin spent \cup outdated]_vars
=============================================================================
