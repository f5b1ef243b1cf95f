------------------------------ MODULE Sessions ------------------------------
(***************************************************************************)
(* Logins and the sessions they make: when a session is accepted, how its  *)
(* last_seen_at is kept, and how it ends.                                  *)
(*                                                                         *)
(* Every HTTP request has a READ COMMITTED transaction of its own, which   *)
(* resolves the session first and commits, or rolls back on an error, when *)
(* the handler is done.  An update locks the session's row until then.  A  *)
(* login makes a row nobody knows of until it is committed.  Requests that *)
(* are refused change nothing, and have no action, except for logins:      *)
(* their refusal is committed to the audit log before it is raised.        *)
(*                                                                         *)
(* Users are switched on and off by somebody else.                         *)
(***************************************************************************)
EXTENDS Integers, FiniteSets

CONSTANTS
    Users,
    Tokens,
    Requests,        \* requests that may be served at the same time
    None,            \* no user, no token
    Throttle,        \* session_touch_throttle_seconds
    IdleTimeout,     \* session_idle_timeout_seconds
    AbsoluteTimeout, \* session_absolute_timeout_seconds
    MaxDuration,     \* bound: how long a request is served
    MaxTime,         \* bound: the clock
    MaxRefusals      \* bound: logins with a wrong password

ASSUME SessionsAssumption ==
    /\ None \notin Users /\ None \notin Tokens
    /\ Throttle \in Nat \ {0} /\ IdleTimeout \in Nat \ {0}
    /\ AbsoluteTimeout \in Nat \ {0}
    /\ MaxDuration \in Nat /\ MaxTime \in Nat /\ MaxRefusals \in Nat

VARIABLES
    clock,
    active,  \* users that are active
    session, \* user_session, committed
    request, \* the requests being served
    audit,   \* audit_log, committed: entries of each action
    used,    \* history: when each token was last accepted
    served,  \* history: when the last request that succeeded was accepted
    refused  \* history: logins that were answered with a refusal

vars == <<clock, active, session, request, audit, used, served, refused>>

Time == 0..MaxTime

Session == [user : Users, created : Time, last_seen_at : Time, revoked : BOOLEAN]
NoSession == [user |-> None, created |-> 0, last_seen_at |-> 0, revoked |-> FALSE]
Known(t) == session[t] # NoSession

\* A request: its token, the session it read or made, when, and what it has
\* written to the session's row.
Request == [pc : {"idle", "login", "touching", "running", "revoking", "refusing", "refused"},
            token : Tokens \union {None},
            record : Session \union {NoSession},
            now : Time,
            writes : SUBSET {"last_seen_at", "revoked"}]

Idle == [pc |-> "idle", token |-> None, record |-> NoSession, now |-> 0, writes |-> {}]

AuditActions == {"auth.login", "auth.logout", "auth.login_failed"}

SessionsTypeOK ==
    /\ clock \in Time
    /\ active \subseteq Users
    /\ session \in [Tokens -> Session \union {NoSession}]
    /\ request \in [Requests -> Request]
    /\ audit \in [AuditActions -> Nat]
    /\ used \in [Tokens -> Time] /\ served \in [Tokens -> Time]
    /\ refused \in 0..MaxRefusals
    /\ \A t \in Tokens : Known(t) =>
            /\ session[t].created <= session[t].last_seen_at
            /\ session[t].last_seen_at <= used[t] /\ used[t] <= clock

Init ==
    /\ clock = 0
    /\ active = Users
    /\ session = [t \in Tokens |-> NoSession]
    /\ request = [r \in Requests |-> Idle]
    /\ audit = [a \in AuditActions |-> 0]
    /\ used = [t \in Tokens |-> 0]
    /\ served = [t \in Tokens |-> 0]
    /\ refused = 0

-----------------------------------------------------------------------------
(* Time, and users *)

Tick ==
    /\ clock < MaxTime
    /\ \A r \in Requests : request[r].pc # "idle" => clock < request[r].now + MaxDuration
    /\ clock' = clock + 1
    /\ UNCHANGED <<active, session, request, audit, used, served, refused>>

SwitchUser(u) ==
    /\ active' = IF u \in active THEN active \ {u} ELSE active \union {u}
    /\ UNCHANGED <<clock, session, request, audit, used, served, refused>>

-----------------------------------------------------------------------------
(* Logins *)

\* create_session
NewSession(u) == [user |-> u, created |-> clock, last_seen_at |-> clock, revoked |-> FALSE]

\* authenticate, and the session: its row and its audit entry are in the
\* transaction of the login.  A token is random, and so new.
Login(r, u, t) ==
    /\ request[r].pc = "idle"
    /\ u \in active
    /\ ~Known(t) /\ \A q \in Requests : request[q].token # t
    /\ request' = [request EXCEPT ![r] =
            [Idle EXCEPT !.pc = "login", !.token = t, !.now = clock, !.record = NewSession(u)]]
    /\ UNCHANGED <<clock, active, session, audit, used, served, refused>>

\* The user is known, but inactive or the password is wrong.
RefuseLogin(r) ==
    /\ request[r].pc = "idle"
    /\ request' = [request EXCEPT ![r] = [Idle EXCEPT !.pc = "refusing", !.now = clock]]
    /\ UNCHANGED <<clock, active, session, audit, used, served, refused>>

\* Mutant: the refusal is left to the request's transaction.
RefuseOnly(r) ==
    /\ request[r].pc = "refusing"
    /\ request' = [request EXCEPT ![r].pc = "refused"]
    /\ UNCHANGED <<clock, active, session, audit, used, served, refused>>

\* _fail commits the audit entry.
RecordRefusal(r) ==
    /\ request[r].pc = "refusing"
    /\ audit["auth.login_failed"] < MaxRefusals
    /\ audit' = [audit EXCEPT !["auth.login_failed"] = @ + 1]
    /\ request' = [request EXCEPT ![r].pc = "refused"]
    /\ UNCHANGED <<clock, active, session, used, served, refused>>

\* The exception rolls back what is left, and is answered.
AnswerRefusal(r) ==
    /\ request[r].pc = "refused"
    /\ refused < MaxRefusals
    /\ refused' = refused + 1
    /\ request' = [request EXCEPT ![r] = Idle]
    /\ UNCHANGED <<clock, active, session, audit, used, served>>

-----------------------------------------------------------------------------
(* Requests with a session *)

\* resolve_session: the conditions on the row and its user.
Accepted(t) ==
    /\ session[t].user \in active
    /\ ~session[t].revoked
    /\ clock < session[t].created + AbsoluteTimeout
    /\ clock < session[t].last_seen_at + IdleTimeout

\* Mutant: last_seen_at is refreshed when the session is about to expire.
AboutToExpire(t) == clock - session[t].last_seen_at >= IdleTimeout - 1

\* _touch: last_seen_at is written when the last write is old enough.
TouchDue(t) == clock - session[t].last_seen_at >= Throttle

Resolve(r, t) ==
    /\ request[r].pc = "idle"
    /\ Known(t) /\ Accepted(t)
    /\ request' = [request EXCEPT ![r] =
            [Idle EXCEPT !.pc = IF TouchDue(t) THEN "touching" ELSE "running",
                         !.token = t, !.record = session[t], !.now = clock]]
    /\ used' = [used EXCEPT ![t] = clock]
    /\ UNCHANGED <<clock, active, session, audit, served, refused>>

\* No other request has written the session's row.
Unlocked(r) ==
    \A q \in Requests \ {r} : request[q].token = request[r].token => request[q].writes = {}

\* The UPDATE waits for whoever has written the row, and writes the time the
\* session was resolved at.
Touch(r) ==
    /\ request[r].pc = "touching"
    /\ Unlocked(r)
    /\ request' = [request EXCEPT ![r] =
            [request[r] EXCEPT !.pc = "running", !.writes = @ \union {"last_seen_at"}]]
    /\ UNCHANGED <<clock, active, session, audit, used, served, refused>>

\* revoke_session: nothing is written when the row is revoked.  The row is the
\* one that resolve_session has read, and its UPDATE may have to wait; should
\* db.get read it again and find a logout committed since, then writing
\* nothing leaves the same row.
Revocable(r) == ~request[r].record.revoked /\ Unlocked(r)

Logout(r) ==
    /\ request[r].pc = "running"
    /\ Revocable(r)
    /\ request' = [request EXCEPT ![r] =
            [request[r] EXCEPT !.pc = "revoking", !.writes = @ \union {"revoked"}]]
    /\ UNCHANGED <<clock, active, session, audit, used, served, refused>>

\* Mutant: an update writes the whole row as it was read.
WholeRow(r) ==
    LET q == request[r]
    IN  IF q.pc # "login" /\ q.writes = {} THEN session[q.token]
        ELSE [q.record EXCEPT
                !.last_seen_at = IF "last_seen_at" \in q.writes THEN q.now ELSE @,
                !.revoked = "revoked" \in q.writes]

\* Mutant: a touch writes the time it is committed at.
CommitTime(r) ==
    LET q == request[r]
        row == session[q.token]
    IN  IF q.pc = "login" THEN q.record
        ELSE [row EXCEPT !.last_seen_at = IF q.writes # {} THEN clock ELSE @,
                         !.revoked = row.revoked \/ "revoked" \in q.writes]

\* The row that a request leaves: an update writes what has changed.
Updated(r) ==
    LET q == request[r]
        row == session[q.token]
    IN  IF q.pc = "login" THEN q.record
        ELSE [row EXCEPT !.last_seen_at = IF "last_seen_at" \in q.writes THEN q.now ELSE @,
                         !.revoked = row.revoked \/ "revoked" \in q.writes]

\* What the request leaves in the audit log.
Audited(r) ==
    CASE request[r].pc = "login" -> [audit EXCEPT !["auth.login"] = @ + 1]
      [] request[r].pc = "revoking" -> [audit EXCEPT !["auth.logout"] = @ + 1]
      [] OTHER -> audit

\* get_db commits.
Commit(r) ==
    LET t == request[r].token
        now == request[r].now
    IN  /\ request[r].pc \in {"login", "running", "revoking"}
        /\ session' = [session EXCEPT ![t] = Updated(r)]
        /\ audit' = Audited(r)
        /\ used' = [used EXCEPT ![t] = IF used[t] < now THEN now ELSE used[t]]
        /\ served' = [served EXCEPT ![t] = IF served[t] < now THEN now ELSE served[t]]
        /\ request' = [request EXCEPT ![r] = Idle]
        /\ UNCHANGED <<clock, active, refused>>

\* The handler raises, or the process dies: everything is rolled back, the
\* touch too.
Fail(r) ==
    /\ request[r].pc # "idle"
    /\ request' = [request EXCEPT ![r] = Idle]
    /\ UNCHANGED <<clock, active, session, audit, used, served, refused>>

Next ==
    \/ Tick
    \/ \E u \in Users : SwitchUser(u)
    \/ \E r \in Requests :
        \/ \E u \in Users, t \in Tokens : Login(r, u, t)
        \/ RefuseLogin(r) \/ RecordRefusal(r) \/ AnswerRefusal(r)
        \/ \E t \in Tokens : Resolve(r, t)
        \/ Touch(r) \/ Logout(r)
        \/ Commit(r) \/ Fail(r)

Spec == Init /\ [][Next]_vars

-----------------------------------------------------------------------------
(* Properties *)

\* A session is over once its logout is committed, for good, whatever the
\* requests that read it before still write; and a session that nobody used for
\* the idle timeout is not accepted again, in whatever order its last_seen_at
\* was written.
EndedStaysEnded ==
    [][\A t \in Tokens :
        /\ Known(t) /\ session[t].revoked => session'[t].revoked
        /\ \A r \in Requests :
            (request[r].pc = "idle" /\ request'[r].pc # "idle" /\ request'[r].token = t
                /\ Known(t)) =>
                clock - used[t] < IdleTimeout]_vars

\* The throttle, and requests that write an older time after a newer one, make
\* a session look idle for longer than it is, but by less than the throttle or
\* by the time that a request takes: the last request that succeeded keeps it.
UsedIsSeen ==
    \A t \in Tokens : Known(t) =>
        \/ served[t] - session[t].last_seen_at < Throttle
        \/ served[t] - session[t].last_seen_at <= MaxDuration

\* Every session comes with a login in the audit log, every one that was logged
\* out with a logout, and a refused login is there before it is answered, though
\* the request that it failed is rolled back.
AuditTells ==
    LET sessions == {t \in Tokens : Known(t)}
    IN  /\ audit["auth.login"] = Cardinality(sessions)
        /\ audit["auth.logout"] >= Cardinality({t \in sessions : session[t].revoked})
        /\ audit["auth.login_failed"] >= refused
=============================================================================
