---------------------------- MODULE SessionsProofs ----------------------------
(***************************************************************************)
(* Proofs about Sessions, for any number of tokens and requests.           *)
(*                                                                         *)
(* No lock is needed for them: an update writes only the columns it        *)
(* changes, a logout is never undone by a touch, and what a touch writes   *)
(* is at most as old as a request takes.                                   *)
(***************************************************************************)
EXTENDS Sessions, FiniteSetTheorems, TLAPS

\* A request with a token that is not new.
Serving(r) == request[r].pc \in {"touching", "running", "revoking"}

\* A request that is going to write last_seen_at.
Touching(r) == request[r].pc = "touching" \/ "last_seen_at" \in request[r].writes

\* last_seen_at is behind by less than the throttle, or by what a request takes.
Behind(moment, t) ==
    \/ moment - session[t].last_seen_at < Throttle
    \/ moment - session[t].last_seen_at <= MaxDuration

\* What SessionsTypeOK says of each variable.
Types ==
    /\ clock \in Time
    /\ active \subseteq Users
    /\ session \in [Tokens -> Session \union {NoSession}]
    /\ request \in [Requests -> Request]
    /\ audit \in [AuditActions -> Nat]
    /\ used \in [Tokens -> Time] /\ served \in [Tokens -> Time]
    /\ refused \in 0..MaxRefusals

\* A request is served for a bounded time, and its pc says what it has written.
RequestInv(r) ==
    LET q == request[r]
    IN  /\ q.pc # "idle" => q.now <= clock /\ clock <= q.now + MaxDuration
        /\ "revoked" \in q.writes <=> q.pc = "revoking"
        /\ q.pc \in {"login", "touching"} => q.writes = {}
        /\ q.pc \in {"login", "touching", "running", "revoking"} => q.token \in Tokens

\* Nobody else knows the token of a login before it is committed.
LoginInv(r) ==
    request[r].pc = "login" =>
        /\ ~Known(request[r].token)
        /\ \A q \in Requests \ {r} : request[q].token # request[r].token
        /\ \E u \in Users : request[r].record =
                [user |-> u, created |-> request[r].now,
                 last_seen_at |-> request[r].now, revoked |-> FALSE]

\* A session in use is known, and a request that does not touch it was accepted
\* when it needed no touch, or has been overtaken by one that did.
ServingInv(r) ==
    Serving(r) => /\ Known(request[r].token)
                  /\ session[request[r].token].created <= request[r].now
                  /\ Touching(r) \/ Behind(request[r].now, request[r].token)

\* The times of a token that is used.
TokenInv(t) ==
    /\ used[t] <= clock /\ served[t] <= clock
    /\ Known(t) => /\ session[t].created <= session[t].last_seen_at
                   /\ session[t].last_seen_at <= used[t]
                   /\ Behind(served[t], t)

KnownTokens == {t \in Tokens : Known(t)}
Ended == {t \in Tokens : Known(t) /\ session[t].revoked}
Refusing == {r \in Requests : request[r].pc = "refused"}

\* The audit log counts sessions, those that were logged out, and refusals.
AuditInv ==
    /\ IsFiniteSet(KnownTokens) /\ audit["auth.login"] = Cardinality(KnownTokens)
    /\ IsFiniteSet(Ended) /\ Cardinality(Ended) <= audit["auth.logout"]
    /\ IsFiniteSet(Refusing)
    /\ Cardinality(Refusing) + refused <= audit["auth.login_failed"]

RequestsInv == \A r \in Requests : RequestInv(r) /\ LoginInv(r) /\ ServingInv(r)

SessionsInv ==
    /\ Types
    /\ RequestsInv
    /\ \A t \in Tokens : TokenInv(t)
    /\ AuditInv

-----------------------------------------------------------------------------

\* Times are natural numbers, and a row is not NoSession.
LEMMA Rows ==
    ASSUME Types
    PROVE  /\ Time \subseteq Nat
           /\ \A row \in Session : row # NoSession
           /\ \A t \in Tokens : Known(t) => session[t] \in Session
           /\ \A t \in Tokens : session[t].created \in Nat /\ session[t].last_seen_at \in Nat
           /\ \A t \in Tokens : used[t] \in Nat /\ served[t] \in Nat
           /\ \A r \in Requests : request[r].now \in Nat
           /\ clock \in Nat
<1> USE SessionsAssumption
<1>1. Time \subseteq Nat
  BY DEF Time
<1>2. \A row \in Session : row # NoSession
  <2>1. \A row \in Session : row.user \in Users
    BY DEF Session
  <2>2. NoSession.user = None
    BY DEF NoSession
  <2> QED BY <2>1, <2>2
<1>3. \A t \in Tokens : Known(t) => session[t] \in Session
  BY DEF Known, Types
<1>4. \A t \in Tokens : session[t].created \in Nat /\ session[t].last_seen_at \in Nat
  <2>1. \A row \in Session : row.created \in Nat /\ row.last_seen_at \in Nat
    BY <1>1 DEF Session
  <2>2. NoSession.created = 0 /\ NoSession.last_seen_at = 0
    BY DEF NoSession
  <2> QED BY <2>1, <2>2 DEF Types
<1>5. \A r \in Requests : request[r].now \in Nat
  BY <1>1 DEF Types, Request
<1> QED BY <1>1, <1>2, <1>3, <1>4, <1>5 DEF Types

LEMMA InitInv == Init => SessionsInv
<1> SUFFICES ASSUME Init PROVE SessionsInv
  OBVIOUS
<1> USE SessionsAssumption
<1>1. Types
  BY DEF Init, Types, Time, Session, Request, Idle, AuditActions
<1>2. RequestsInv
  BY DEF Init, RequestsInv, RequestInv, LoginInv, ServingInv, Serving, Idle
<1>3. \A t \in Tokens : TokenInv(t)
  BY DEF Init, TokenInv, Known
<1>4. KnownTokens = {} /\ Ended = {} /\ Refusing = {}
  BY DEF Init, KnownTokens, Ended, Refusing, Known, Idle
<1>5. AuditInv
  BY <1>4, FS_EmptySet DEF Init, AuditInv, AuditActions
<1> QED BY <1>1, <1>2, <1>3, <1>5 DEF SessionsInv

\* A request is served for a bounded time, and takes what it read with it.
LEMMA TickStep ==
    ASSUME SessionsInv, Tick
    PROVE  SessionsInv'
<1> USE SessionsAssumption
<1>1. /\ clock' = clock + 1 /\ clock < MaxTime
      /\ UNCHANGED <<active, session, request, audit, used, served, refused>>
  BY DEF Tick
<1>2. Types /\ RequestsInv /\ AuditInv /\ \A t \in Tokens : TokenInv(t)
  BY DEF SessionsInv
<1>3. Types'
  BY <1>1, <1>2 DEF Types, Time
<1>4. ASSUME NEW r \in Requests PROVE (RequestInv(r) /\ LoginInv(r) /\ ServingInv(r))'
  <2>1. RequestInv(r) /\ LoginInv(r) /\ ServingInv(r)
    BY <1>2 DEF RequestsInv
  <2>2. RequestInv(r)'
    BY <1>1, <1>2, <2>1, Rows DEF RequestInv, Tick
  <2>3. LoginInv(r)'
    BY <1>1, <2>1 DEF LoginInv, Known
  <2>4. ServingInv(r)'
    BY <1>1, <2>1 DEF ServingInv, Serving, Touching, Behind, Known
  <2> QED BY <2>2, <2>3, <2>4
<1>5. ASSUME NEW t \in Tokens PROVE TokenInv(t)'
  BY <1>1, <1>2, Rows DEF TokenInv, Known, Behind
<1>6. AuditInv'
  BY <1>1, <1>2 DEF AuditInv, KnownTokens, Ended, Refusing, Known
<1> QED BY <1>3, <1>4, <1>5, <1>6 DEF SessionsInv, RequestsInv

\* A step that changes one request only, and keeps the sessions.
LEMMA RequestStep ==
    ASSUME SessionsInv, NEW r \in Requests, NEW q \in Request,
           request' = [request EXCEPT ![r] = q],
           UNCHANGED <<clock, active, session, served>>,
           (RequestInv(r) /\ LoginInv(r) /\ ServingInv(r))',
           q.token # request[r].token /\ q.token # None =>
                \A p \in Requests \ {r} : request[p].pc = "login" => request[p].token # q.token
    PROVE  RequestsInv'
<1>1. request \in [Requests -> Request] /\ RequestsInv
  BY DEF SessionsInv, Types
<1>2. SUFFICES ASSUME NEW p \in Requests, p # r
               PROVE  (RequestInv(p) /\ LoginInv(p) /\ ServingInv(p))'
  BY DEF RequestsInv
<1>3. request'[p] = request[p] /\ request'[r] = q
  BY <1>1, <1>2
<1>4. RequestInv(p) /\ LoginInv(p) /\ ServingInv(p)
  BY <1>1 DEF RequestsInv
<1>5. RequestInv(p)'
  BY <1>3, <1>4 DEF RequestInv
<1>6. LoginInv(p)'
  <2>1. SUFFICES ASSUME request[p].pc = "login" PROVE LoginInv(p)'
    BY <1>3 DEF LoginInv
  <2>2. request[p].token \in Tokens /\ request[p].token # None
    BY <2>1, <1>4, SessionsAssumption DEF RequestInv
  <2>3. q.token # request[p].token
    BY <1>2, <1>4, <2>1, <2>2 DEF LoginInv
  <2>4. \A o \in Requests \ {p} : request'[o].token # request'[p].token
    BY <1>1, <1>3, <1>4, <2>1, <2>3 DEF LoginInv
  <2> QED BY <1>3, <1>4, <2>1, <2>4 DEF LoginInv, Known
<1>7. ServingInv(p)'
  BY <1>3, <1>4 DEF ServingInv, Serving, Touching, Behind, Known
<1> QED BY <1>5, <1>6, <1>7

\* A step that starts or changes a request, but commits nothing.
LEMMA LoginStep ==
    ASSUME SessionsInv, NEW r \in Requests, NEW u \in Users, NEW t \in Tokens, Login(r, u, t)
    PROVE  SessionsInv'
<1> USE SessionsAssumption
<1>1. PICK q : /\ q = [Idle EXCEPT !.pc = "login", !.token = t, !.now = clock,
                                   !.record = NewSession(u)]
               /\ request' = [request EXCEPT ![r] = q]
  BY DEF Login
<1>2. /\ request[r].pc = "idle" /\ ~Known(t)
      /\ \A p \in Requests : request[p].token # t
      /\ UNCHANGED <<clock, active, session, audit, used, served, refused>>
  BY DEF Login
<1>3. Types /\ RequestsInv /\ AuditInv /\ \A p \in Tokens : TokenInv(p)
  BY DEF SessionsInv
<1>4. q = [pc |-> "login", token |-> t, record |-> NewSession(u), now |-> clock, writes |-> {}]
  BY <1>1 DEF Idle
<1>5. NewSession(u) \in Session /\ q \in Request
  BY <1>3, <1>4 DEF NewSession, Session, Request, Types
<1>6. Types' /\ request'[r] = q /\ \A p \in Requests \ {r} : request'[p] = request[p]
  BY <1>1, <1>2, <1>3, <1>5 DEF Types
<1>7. /\ q.pc = "login" /\ q.token = t /\ q.now = clock /\ q.writes = {}
      /\ q.record = [user |-> u, created |-> clock, last_seen_at |-> clock, revoked |-> FALSE]
  BY <1>4 DEF NewSession
<1>8. RequestInv(r)'
  <2>1. clock \in Nat /\ clock' = clock
    BY <1>2, <1>3, Rows
  <2> QED BY <1>6, <1>7, <2>1 DEF RequestInv
<1>9. LoginInv(r)' /\ ServingInv(r)'
  <2>1. ~Known(t)' /\ \A p \in Requests \ {r} : request'[p].token # t
    BY <1>2, <1>6 DEF Known
  <2> QED BY <1>6, <1>7, <2>1 DEF LoginInv, ServingInv, Serving, Known
<1>10. RequestsInv'
  BY <1>1, <1>2, <1>3, <1>5, <1>7, <1>8, <1>9, RequestStep
<1>11. \A p \in Tokens : TokenInv(p)'
  BY <1>2, <1>3 DEF TokenInv, Known, Behind
<1>12. Refusing' = Refusing
  BY <1>2, <1>6, <1>7 DEF Refusing
<1>13. AuditInv'
  BY <1>2, <1>3, <1>12 DEF AuditInv, KnownTokens, Ended, Known
<1> QED BY <1>6, <1>10, <1>11, <1>13 DEF SessionsInv

\* A session is read when it was seen within the throttle, or will be touched.
LEMMA ResolveStep ==
    ASSUME SessionsInv, NEW r \in Requests, NEW t \in Tokens, Resolve(r, t)
    PROVE  SessionsInv'
<1> USE SessionsAssumption
<1>1. PICK q : /\ q = [Idle EXCEPT !.pc = IF TouchDue(t) THEN "touching" ELSE "running",
                                   !.token = t, !.record = session[t], !.now = clock]
               /\ request' = [request EXCEPT ![r] = q]
  BY DEF Resolve
<1>2. /\ request[r].pc = "idle" /\ Known(t)
      /\ used' = [used EXCEPT ![t] = clock]
      /\ UNCHANGED <<clock, active, session, audit, served, refused>>
  BY DEF Resolve
<1>3. Types /\ RequestsInv /\ AuditInv /\ \A p \in Tokens : TokenInv(p)
  BY DEF SessionsInv
<1>4. q = [pc |-> IF TouchDue(t) THEN "touching" ELSE "running", token |-> t,
           record |-> session[t], now |-> clock, writes |-> {}]
  BY <1>1 DEF Idle
<1>5. q \in Request
  BY <1>3, <1>4 DEF Request, Types
<1>6. Types' /\ request'[r] = q /\ \A p \in Requests \ {r} : request'[p] = request[p]
  BY <1>1, <1>2, <1>3, <1>5 DEF Types
<1>7. /\ q.pc \in {"touching", "running"}
      /\ q.pc = "touching" <=> TouchDue(t)
      /\ q.token = t /\ q.now = clock /\ q.writes = {}
  BY <1>4
<1>8. RequestInv(r)'
  <2>1. clock \in Nat /\ clock' = clock
    BY <1>2, <1>3, Rows
  <2> QED BY <1>6, <1>7, <2>1 DEF RequestInv
<1>9. LoginInv(r)'
  BY <1>6, <1>7 DEF LoginInv
<1>10. ServingInv(r)'
  <2>1. Known(t)' /\ session'[t] = session[t]
    BY <1>2 DEF Known
  <2>2. session[t].created <= clock /\ (~TouchDue(t) => clock - session[t].last_seen_at < Throttle)
    BY <1>2, <1>3, Rows DEF TokenInv, TouchDue
  <2> QED BY <1>6, <1>7, <2>1, <2>2 DEF ServingInv, Serving, Touching, Behind
<1>11. RequestsInv'
  <2>1. \A p \in Requests : request[p].pc = "login" => request[p].token # t
    BY <1>2, <1>3 DEF RequestsInv, LoginInv
  <2> QED BY <1>1, <1>2, <1>5, <1>7, <1>8, <1>9, <1>10, <2>1, RequestStep
<1>12. ASSUME NEW p \in Tokens PROVE TokenInv(p)'
  <2>1. /\ used'[p] \in {used[p], clock} /\ served' = served /\ clock' = clock
        /\ session' = session
    BY <1>2, <1>3 DEF Types
  <2>2. TokenInv(p)
    BY <1>3
  <2> QED BY <1>3, <2>1, <2>2, Rows DEF TokenInv, Known, Behind
<1>13. Refusing' = Refusing
  BY <1>2, <1>6, <1>7 DEF Refusing
<1>14. AuditInv'
  BY <1>2, <1>3, <1>13 DEF AuditInv, KnownTokens, Ended, Known
<1> QED BY <1>6, <1>11, <1>12, <1>14 DEF SessionsInv

\* A step of a request that is not answered, or is given up, before it has
\* committed: the tables stand, but for the record of a refusal.
LEMMA ServingStep ==
    ASSUME SessionsInv, NEW r \in Requests,
           \/ RefuseLogin(r) \/ RecordRefusal(r) \/ AnswerRefusal(r)
           \/ Touch(r) \/ Logout(r) \/ Fail(r)
    PROVE  SessionsInv'
<1> USE SessionsAssumption
<1>1. Types /\ RequestsInv /\ AuditInv /\ \A p \in Tokens : TokenInv(p)
  BY DEF SessionsInv
<1>2. /\ UNCHANGED <<clock, active, session, used, served>>
      /\ request[r] \in Request
      /\ RequestInv(r) /\ LoginInv(r) /\ ServingInv(r)
  BY <1>1 DEF RefuseLogin, RecordRefusal, AnswerRefusal, Touch, Logout, Fail, Types, RequestsInv
<1>3. request[r] = [pc |-> request[r].pc, token |-> request[r].token,
                    record |-> request[r].record, now |-> request[r].now,
                    writes |-> request[r].writes]
  BY <1>2 DEF Request
<1>4. Idle \in Request /\ [Idle EXCEPT !.pc = "refusing", !.now = clock] \in Request
  <2>1. 0 \in Time /\ clock \in Time
    BY <1>1 DEF Types, Time
  <2>2. Idle \in Request
    BY <2>1 DEF Idle, Request
  <2>3. ASSUME NEW q, q = [Idle EXCEPT !.pc = "refusing", !.now = clock]
        PROVE  q \in Request
    <3>1. q = [pc |-> "refusing", token |-> None, record |-> NoSession, now |-> clock,
               writes |-> {}]
      BY <2>3 DEF Idle
    <3> QED BY <2>1, <3>1 DEF Request
  <2> QED BY <2>2, <2>3
<1>5. ASSUME NEW q \in Request, request' = [request EXCEPT ![r] = q],
             RequestInv(r)', LoginInv(r)', ServingInv(r)',
             q.token \in {request[r].token, None},
             /\ audit' \in [AuditActions -> Nat] /\ refused' \in 0..MaxRefusals
             /\ audit'["auth.login"] = audit["auth.login"]
             /\ audit'["auth.logout"] = audit["auth.logout"],
             /\ IsFiniteSet(Refusing')
             /\ Cardinality(Refusing') + refused' <= audit'["auth.login_failed"]
      PROVE  SessionsInv'
  <2>1. RequestsInv'
    BY <1>2, <1>5, RequestStep
  <2>2. Types'
    BY <1>1, <1>2, <1>5 DEF Types
  <2>3. \A p \in Tokens : TokenInv(p)'
    BY <1>1, <1>2 DEF TokenInv, Known, Behind
  <2>4. AuditInv'
    BY <1>1, <1>2, <1>5 DEF AuditInv, KnownTokens, Ended, Known
  <2> QED BY <2>1, <2>2, <2>3, <2>4 DEF SessionsInv
<1>6. ASSUME NEW q \in Request, request' = [request EXCEPT ![r] = q]
      PROVE  /\ request'[r] = q /\ \A p \in Requests \ {r} : request'[p] = request[p]
             /\ Refusing \ {r} \subseteq Refusing' /\ Refusing' \subseteq Refusing \union {r}
             /\ r \in Refusing' <=> q.pc = "refused"
             /\ r \in Refusing <=> request[r].pc = "refused"
  BY <1>1, <1>6 DEF Types, Refusing
<1>7. /\ IsFiniteSet(Refusing) /\ Cardinality(Refusing) \in Nat
      /\ Cardinality(Refusing) + refused <= audit["auth.login_failed"]
      /\ refused \in Nat /\ audit["auth.login_failed"] \in Nat
      /\ audit["auth.login"] \in Nat /\ audit["auth.logout"] \in Nat
  BY <1>1, FS_CardinalityType DEF AuditInv, Types, AuditActions
<1>8. ASSUME NEW q \in Request, request' = [request EXCEPT ![r] = q],
             request[r].pc # "refused", q.pc # "refused"
      PROVE  Refusing' = Refusing
  <2>1. r \notin Refusing /\ r \notin Refusing'
    BY <1>6, <1>8
  <2>2. Refusing \subseteq Refusing' /\ Refusing' \subseteq Refusing
    BY <1>6, <1>8, <2>1
  <2> QED BY <2>2
<1>9. ASSUME NEW q \in Request, request' = [request EXCEPT ![r] = q], q.pc # "refused"
      PROVE  /\ Refusing' = Refusing \ {r} /\ IsFiniteSet(Refusing')
             /\ Cardinality(Refusing') =
                    IF request[r].pc = "refused" THEN Cardinality(Refusing) - 1
                    ELSE Cardinality(Refusing)
  <2>1. Refusing' = Refusing \ {r}
    BY <1>6, <1>9 
  <2> QED BY <2>1, <1>6, <1>7, <1>9, FS_RemoveElement
<1>10. CASE RefuseLogin(r)
  <2> DEFINE q == [Idle EXCEPT !.pc = "refusing", !.now = clock]
  <2>1. request[r].pc = "idle" /\ request' = [request EXCEPT ![r] = q] /\ UNCHANGED <<audit, refused>>
    BY <1>10 DEF RefuseLogin
  <2>2. q.pc = "refusing" /\ q.token = None /\ q.now = clock /\ q.writes = {}
    BY DEF Idle
  <2>3. (RequestInv(r) /\ LoginInv(r) /\ ServingInv(r))'
    BY <1>1, <1>2, <1>4, <1>6, <2>1, <2>2, Rows DEF RequestInv, LoginInv, ServingInv, Serving
  <2>4. Refusing' = Refusing
    BY <1>4, <1>8, <2>1, <2>2
  <2> QED BY <1>1, <1>4, <1>5, <1>7, <2>1, <2>2, <2>3, <2>4 DEF Types
<1>11. CASE RecordRefusal(r)
  <2> DEFINE q == [request[r] EXCEPT !.pc = "refused"]
  <2>1. /\ request[r].pc = "refusing" /\ request' = [request EXCEPT ![r] = q]
        /\ audit' = [audit EXCEPT !["auth.login_failed"] = @ + 1] /\ UNCHANGED refused
    BY <1>1, <1>11 DEF RecordRefusal, Types
  <2>2. /\ q \in Request /\ q.pc = "refused" /\ q.token = request[r].token
        /\ q.now = request[r].now /\ q.writes = request[r].writes
    BY <1>2, <1>3 DEF Request
  <2>3. (RequestInv(r) /\ LoginInv(r) /\ ServingInv(r))'
    BY <1>2, <1>6, <2>1, <2>2 DEF RequestInv, LoginInv, ServingInv, Serving
  <2>4. Refusing' = Refusing \union {r} /\ r \notin Refusing
    BY <1>6, <2>1, <2>2
  <2>5. IsFiniteSet(Refusing') /\ Cardinality(Refusing') = Cardinality(Refusing) + 1
    BY <1>7, <2>4, FS_AddElement
  <2>6. /\ audit' \in [AuditActions -> Nat]
        /\ audit'["auth.login_failed"] = audit["auth.login_failed"] + 1
        /\ audit'["auth.login"] = audit["auth.login"]
        /\ audit'["auth.logout"] = audit["auth.logout"]
    BY <1>1, <2>1 DEF Types, AuditActions
  <2>7. Cardinality(Refusing') + refused' <= audit'["auth.login_failed"]
    BY <1>7, <2>1, <2>5, <2>6
  <2>8. refused' \in 0..MaxRefusals
    BY <1>1, <2>1 DEF Types
  <2> QED BY <1>5, <2>1, <2>2, <2>3, <2>5, <2>6, <2>7, <2>8
<1>12. CASE AnswerRefusal(r)
  <2>1. /\ request[r].pc = "refused" /\ request' = [request EXCEPT ![r] = Idle]
        /\ refused' = refused + 1 /\ refused < MaxRefusals /\ UNCHANGED audit
    BY <1>12 DEF AnswerRefusal
  <2>2. Idle.pc = "idle" /\ Idle.token = None /\ Idle.writes = {}
    BY DEF Idle
  <2>3. (RequestInv(r) /\ LoginInv(r) /\ ServingInv(r))'
    BY <1>4, <1>6, <2>1, <2>2 DEF RequestInv, LoginInv, ServingInv, Serving
  <2>4. refused' \in 0..MaxRefusals
    BY <1>1, <2>1 DEF Types
  <2>5. IsFiniteSet(Refusing') /\ Cardinality(Refusing') = Cardinality(Refusing) - 1
    BY <1>4, <1>9, <2>1, <2>2
  <2>6. Cardinality(Refusing') + refused' <= audit'["auth.login_failed"]
    BY <1>7, <2>1, <2>5
  <2>7. audit' \in [AuditActions -> Nat]
    BY <1>1, <2>1 DEF Types
  <2> QED BY <1>4, <1>5, <2>1, <2>2, <2>3, <2>4, <2>5, <2>6, <2>7
<1>13. CASE Touch(r)
  <2> DEFINE q == [request[r] EXCEPT !.pc = "running", !.writes = @ \union {"last_seen_at"}]
  <2>1. /\ request[r].pc = "touching" /\ request' = [request EXCEPT ![r] = q]
        /\ UNCHANGED <<audit, refused>>
    BY <1>13 DEF Touch
  <2>2. /\ q \in Request /\ q.pc = "running" /\ q.token = request[r].token
        /\ q.now = request[r].now /\ q.writes = {"last_seen_at"}
    BY <1>2, <1>3, <2>1 DEF Request, RequestInv
  <2>3. (RequestInv(r) /\ LoginInv(r) /\ ServingInv(r))'
    BY <1>2, <1>6, <2>1, <2>2
       DEF RequestInv, LoginInv, ServingInv, Serving, Touching, Known
  <2>4. Refusing' = Refusing
    BY <1>8, <2>1, <2>2
  <2> QED BY <1>1, <1>5, <1>7, <2>1, <2>2, <2>3, <2>4 DEF Types
<1>14. CASE Logout(r)
  <2> DEFINE q == [request[r] EXCEPT !.pc = "revoking", !.writes = @ \union {"revoked"}]
  <2>1. /\ request[r].pc = "running" /\ request' = [request EXCEPT ![r] = q]
        /\ UNCHANGED <<audit, refused>>
    BY <1>14 DEF Logout
  <2>2. /\ q \in Request /\ q.pc = "revoking" /\ q.token = request[r].token
        /\ q.now = request[r].now /\ q.writes = request[r].writes \union {"revoked"}
    BY <1>2, <1>3, <2>1 DEF Request, RequestInv
  <2>3. (RequestInv(r) /\ LoginInv(r) /\ ServingInv(r))'
    BY <1>2, <1>6, <2>1, <2>2
       DEF RequestInv, LoginInv, ServingInv, Serving, Touching, Known, Behind
  <2>4. Refusing' = Refusing
    BY <1>8, <2>1, <2>2
  <2> QED BY <1>1, <1>5, <1>7, <2>1, <2>2, <2>3, <2>4 DEF Types
<1>15. CASE Fail(r)
  <2>1. request' = [request EXCEPT ![r] = Idle] /\ UNCHANGED <<audit, refused>>
    BY <1>15 DEF Fail
  <2>2. Idle.pc = "idle" /\ Idle.token = None /\ Idle.writes = {}
    BY DEF Idle
  <2>3. (RequestInv(r) /\ LoginInv(r) /\ ServingInv(r))'
    BY <1>4, <1>6, <2>1, <2>2 DEF RequestInv, LoginInv, ServingInv, Serving
  <2>4. /\ IsFiniteSet(Refusing') /\ Cardinality(Refusing') \in Nat
        /\ Cardinality(Refusing') <= Cardinality(Refusing)
    <3>1. Refusing' \in SUBSET Refusing
      BY <1>4, <1>9, <2>1, <2>2
    <3> QED BY <1>7, <3>1, FS_Subset, FS_CardinalityType
  <2>5. Cardinality(Refusing') + refused' <= audit'["auth.login_failed"]
    BY <1>7, <2>1, <2>4
  <2>6. audit' \in [AuditActions -> Nat] /\ refused' \in 0..MaxRefusals
    BY <1>1, <2>1 DEF Types
  <2> QED BY <1>4, <1>5, <2>1, <2>2, <2>3, <2>4, <2>5, <2>6
<1> QED BY <1>10, <1>11, <1>12, <1>13, <1>14, <1>15

\* What a commit leaves of a session: a new row, or the old one with what the
\* request has written.
LEMMA Committed ==
    ASSUME SessionsInv, NEW r \in Requests, Commit(r),
           NEW q, NEW t, q = request[r], t = q.token
    PROVE  /\ t \in Tokens /\ q.now \in Time /\ q.now <= clock /\ clock <= q.now + MaxDuration
           /\ session'[t] \in Session
           /\ \A p \in Tokens \ {t} : session'[p] = session[p]
           /\ q.pc = "login" => /\ ~Known(t)
                                /\ session'[t].created = q.now
                                /\ session'[t].last_seen_at = q.now
                                /\ ~session'[t].revoked
           /\ q.pc # "login" =>
                /\ Known(t)
                /\ session'[t].created = session[t].created
                /\ session[t].created <= q.now
                /\ session'[t].last_seen_at = IF "last_seen_at" \in q.writes THEN q.now
                                              ELSE session[t].last_seen_at
                /\ session'[t].revoked <=> session[t].revoked \/ q.pc = "revoking"
                /\ "last_seen_at" \in q.writes \/ Behind(q.now, t)
<1>1. Types /\ RequestInv(r) /\ LoginInv(r) /\ ServingInv(r)
  BY DEF SessionsInv, RequestsInv
<1>2. q.pc \in {"login", "running", "revoking"} /\ session' = [session EXCEPT ![t] = Updated(r)]
  BY DEF Commit
<1>3. t \in Tokens /\ q.now \in Time /\ q.now <= clock /\ clock <= q.now + MaxDuration
  BY <1>1, <1>2 DEF RequestInv, Types, Request
<1>4. session'[t] = Updated(r) /\ \A p \in Tokens \ {t} : session'[p] = session[p]
  BY <1>1, <1>2, <1>3 DEF Types
<1>5. CASE q.pc = "login"
  <2>1. Updated(r) = q.record
    BY <1>5 DEF Updated
  <2>2. PICK u \in Users : q.record = [user |-> u, created |-> q.now,
                                       last_seen_at |-> q.now, revoked |-> FALSE]
    BY <1>1, <1>5 DEF LoginInv
  <2>3. q.record \in Session
    BY <1>3, <2>2 DEF Session
  <2> QED BY <1>1, <1>3, <1>4, <1>5, <2>1, <2>2, <2>3 DEF LoginInv
<1>6. CASE q.pc # "login"
  <2>1. Serving(r) /\ ~(q.pc = "touching") /\ ("revoked" \in q.writes <=> q.pc = "revoking")
    BY <1>1, <1>2, <1>6 DEF Serving, RequestInv
  <2>2. Known(t) /\ session[t].created <= q.now /\ ("last_seen_at" \in q.writes \/ Behind(q.now, t))
    BY <1>1, <2>1 DEF ServingInv, Touching
  <2>3. session[t] \in Session
    BY <1>1, <1>3, <2>2, Rows
  <2>4. PICK row \in Session : row = session[t]
    BY <2>3
  <2>5. session'[t] = [row EXCEPT
                !.last_seen_at = IF "last_seen_at" \in q.writes THEN q.now ELSE @,
                !.revoked = row.revoked \/ "revoked" \in q.writes]
    BY <1>4, <1>6, <2>4 DEF Updated
  <2>6. /\ session'[t].user = row.user /\ session'[t].created = row.created
        /\ session'[t].last_seen_at = IF "last_seen_at" \in q.writes THEN q.now
                                      ELSE row.last_seen_at
        /\ session'[t].revoked = (row.revoked \/ "revoked" \in q.writes)
    BY <2>4, <2>5 DEF Session
  <2>7. session'[t] \in Session
    BY <1>3, <2>4, <2>5, <2>6 DEF Session
  <2> QED BY <1>3, <1>4, <1>6, <2>1, <2>2, <2>4, <2>6, <2>7
<1> QED BY <1>5, <1>6

LEMMA CommitStep ==
    ASSUME SessionsInv, NEW r \in Requests, Commit(r),
           NEW q, NEW t, q = request[r], t = q.token
    PROVE  SessionsInv'
<1> USE SessionsAssumption
<1>1. Types /\ RequestsInv /\ AuditInv /\ \A p \in Tokens : TokenInv(p)
  BY DEF SessionsInv
<1>2. /\ t \in Tokens /\ q.now \in Time /\ q.now <= clock /\ clock <= q.now + MaxDuration
      /\ session'[t] \in Session
      /\ \A p \in Tokens \ {t} : session'[p] = session[p]
      /\ q.pc = "login" => /\ ~Known(t)
                           /\ session'[t].created = q.now
                           /\ session'[t].last_seen_at = q.now
                           /\ ~session'[t].revoked
      /\ q.pc # "login" =>
           /\ Known(t)
           /\ session'[t].created = session[t].created
           /\ session[t].created <= q.now
           /\ session'[t].last_seen_at = IF "last_seen_at" \in q.writes THEN q.now
                                         ELSE session[t].last_seen_at
           /\ session'[t].revoked <=> session[t].revoked \/ q.pc = "revoking"
           /\ "last_seen_at" \in q.writes \/ Behind(q.now, t)
  BY Committed
<1>3. /\ q.pc \in {"login", "running", "revoking"}
      /\ session' = [session EXCEPT ![t] = Updated(r)]
      /\ audit' = Audited(r)
      /\ used' = [used EXCEPT ![t] = IF used[t] < q.now THEN q.now ELSE used[t]]
      /\ served' = [served EXCEPT ![t] = IF served[t] < q.now THEN q.now ELSE served[t]]
      /\ request' = [request EXCEPT ![r] = Idle]
      /\ UNCHANGED <<clock, active, refused>>
  BY DEF Commit
<1>4. /\ used'[t] = (IF used[t] < q.now THEN q.now ELSE used[t])
      /\ served'[t] = (IF served[t] < q.now THEN q.now ELSE served[t])
      /\ \A p \in Tokens \ {t} : used'[p] = used[p] /\ served'[p] = served[p]
      /\ used' \in [Tokens -> Time] /\ served' \in [Tokens -> Time]
  BY <1>1, <1>2, <1>3 DEF Types
<1>5. /\ request'[r] = Idle /\ \A p \in Requests \ {r} : request'[p] = request[p]
      /\ request' \in [Requests -> Request]
  <2>1. Idle \in Request
    BY DEF Idle, Request, Time
  <2> QED BY <1>1, <1>3, <2>1 DEF Types
<1>6. Idle.pc = "idle" /\ Idle.token = None /\ Idle.writes = {}
  BY DEF Idle
<1>7. Known(t)' /\ \A p \in Tokens \ {t} : Known(p)' <=> Known(p)
  BY <1>1, <1>2, Rows DEF Known
<1>8. /\ audit' \in [AuditActions -> Nat]
      /\ audit'["auth.login"] = IF q.pc = "login" THEN audit["auth.login"] + 1
                                ELSE audit["auth.login"]
      /\ audit'["auth.logout"] = IF q.pc = "revoking" THEN audit["auth.logout"] + 1
                                 ELSE audit["auth.logout"]
      /\ audit'["auth.login_failed"] = audit["auth.login_failed"]
  BY <1>1, <1>3 DEF Types, Audited, AuditActions
<1>9. Types'
  <2>1. session' \in [Tokens -> Session \union {NoSession}]
    BY <1>1, <1>2, <1>3 DEF Types
  <2> QED BY <1>1, <1>3, <1>4, <1>5, <1>8, <2>1 DEF Types
<1>10. ASSUME NEW p \in Requests PROVE (RequestInv(p) /\ LoginInv(p) /\ ServingInv(p))'
  <2>1. CASE p = r
    BY <1>5, <1>6, <2>1 DEF RequestInv, LoginInv, ServingInv, Serving
  <2>2. CASE p # r
    <3>1. request'[p] = request[p] /\ RequestInv(p) /\ LoginInv(p) /\ ServingInv(p)
      BY <1>1, <1>5, <2>2 DEF RequestsInv
    <3>2. RequestInv(p)'
      BY <1>3, <3>1 DEF RequestInv
    <3>3. LoginInv(p)'
      <4>1. SUFFICES ASSUME request[p].pc = "login" PROVE LoginInv(p)'
        BY <3>1 DEF LoginInv
      <4>2. request[p].token \in Tokens /\ request[p].token # t /\ request[p].token # None
        BY <2>2, <3>1, <4>1 DEF RequestInv, LoginInv
      <4>3. ~Known(request[p].token)'
        BY <1>7, <3>1, <4>1, <4>2 DEF LoginInv, Known
      <4>4. \A o \in Requests \ {p} : request'[o].token # request[p].token
        BY <1>5, <1>6, <3>1, <4>1, <4>2 DEF LoginInv
      <4> QED BY <3>1, <4>1, <4>3, <4>4 DEF LoginInv, Known
    <3>4. ServingInv(p)'
      <4>1. SUFFICES ASSUME Serving(p) PROVE ServingInv(p)'
        BY <3>1 DEF ServingInv, Serving
      <4> DEFINE s == request[p].token
      <4>2. s \in Tokens /\ Known(s) /\ session[s].created <= request[p].now
        BY <3>1, <4>1 DEF Serving, RequestInv, ServingInv
      <4>3. CASE s # t
        BY <1>2, <3>1, <4>1, <4>2, <4>3 DEF ServingInv, Touching, Behind, Known
      <4>4. CASE s = t
        <5>1. q.pc # "login"
          BY <1>2, <4>2, <4>4
        <5>2. session'[t].created <= request'[p].now
          BY <1>2, <3>1, <4>2, <4>4, <5>1
        <5>3. Touching(p) \/ Behind(request[p].now, t)
          BY <3>1, <4>1, <4>4 DEF ServingInv
        <5>4. request[p].now \in Nat /\ request[p].now <= clock
              /\ q.now \in Nat /\ clock \in Nat
          BY <1>1, <1>2, <3>1, <4>1, Rows DEF RequestInv, Serving
        <5>5. (Touching(p) \/ Behind(request[p].now, t))'
          BY <1>2, <3>1, <5>1, <5>3, <5>4 DEF Touching, Behind
        <5> QED BY <1>7, <3>1, <4>4, <5>2, <5>5 DEF ServingInv
      <4> QED BY <4>3, <4>4
    <3> QED BY <3>2, <3>3, <3>4
  <2> QED BY <2>1, <2>2
<1>11. ASSUME NEW p \in Tokens PROVE TokenInv(p)'
  <2>1. TokenInv(p) /\ clock' = clock
    BY <1>1, <1>3
  <2>2. CASE p # t
    BY <1>2, <1>4, <1>7, <2>1, <2>2 DEF TokenInv, Behind
  <2>3. CASE p = t
    <3>1. /\ q.now \in Nat /\ clock \in Nat /\ used[t] \in Nat /\ served[t] \in Nat
          /\ session[t].created \in Nat /\ session[t].last_seen_at \in Nat
      BY <1>1, <1>2, Rows
    <3>2. served'[t] <= clock
      BY <1>2, <1>4, <2>1, <2>3, <3>1 DEF TokenInv
    <3>3. CASE q.pc = "login"
      <4>1. Behind(served[t], t)'
        BY <1>2, <1>4, <2>1, <2>3, <3>1, <3>2, <3>3 DEF Behind
      <4>2. used'[t] = q.now \/ used'[t] = used[t]
        BY <1>4
      <4>3. used[t] <= clock
        BY <2>1, <2>3 DEF TokenInv
      <4> QED BY <1>2, <1>4, <2>1, <2>3, <3>1, <3>2, <3>3, <4>1, <4>2, <4>3 DEF TokenInv
    <3>4. CASE q.pc # "login"
      <4>1. Behind(served[t], t)'
        BY <1>2, <1>4, <2>1, <2>3, <3>1, <3>2, <3>4 DEF TokenInv, Behind
      <4> QED BY <1>2, <1>4, <2>1, <2>3, <3>1, <3>2, <3>4, <4>1 DEF TokenInv
    <3> QED BY <3>3, <3>4
  <2> QED BY <2>2, <2>3
<1>12. AuditInv'
  <2>1. /\ IsFiniteSet(KnownTokens) /\ audit["auth.login"] = Cardinality(KnownTokens)
        /\ IsFiniteSet(Ended) /\ Cardinality(Ended) <= audit["auth.logout"]
        /\ IsFiniteSet(Refusing)
        /\ Cardinality(Refusing) + refused <= audit["auth.login_failed"]
        /\ Cardinality(Ended) \in Nat /\ Cardinality(KnownTokens) \in Nat
        /\ audit["auth.logout"] \in Nat
    BY <1>1, FS_CardinalityType DEF AuditInv, Types, AuditActions
  <2>2. KnownTokens' = KnownTokens \union {t} /\ (t \in KnownTokens <=> q.pc # "login")
    BY <1>2, <1>7 DEF KnownTokens
  <2>3. IsFiniteSet(KnownTokens') /\ audit'["auth.login"] = Cardinality(KnownTokens')
    <3>1. /\ IsFiniteSet(KnownTokens \union {t})
          /\ Cardinality(KnownTokens \union {t}) =
                IF t \in KnownTokens THEN Cardinality(KnownTokens)
                ELSE Cardinality(KnownTokens) + 1
      BY <2>1, FS_AddElement
    <3> QED BY <1>8, <2>1, <2>2, <3>1
  <2>4. Ended' = IF q.pc = "revoking" THEN Ended \union {t} ELSE Ended
    BY <1>2, <1>3, <1>7 DEF Ended
  <2>5. IsFiniteSet(Ended') /\ Cardinality(Ended') <= audit'["auth.logout"]
    <3>1. /\ IsFiniteSet(Ended \union {t})
          /\ Cardinality(Ended \union {t}) =
                IF t \in Ended THEN Cardinality(Ended) ELSE Cardinality(Ended) + 1
      BY <2>1, FS_AddElement
    <3>2. IsFiniteSet(Ended') /\ Cardinality(Ended') <= audit'["auth.logout"]
      <4>1. CASE q.pc = "revoking"
        BY <1>8, <2>1, <2>4, <3>1, <4>1
      <4>2. CASE q.pc # "revoking"
        BY <1>8, <2>1, <2>4, <4>2
      <4> QED BY <4>1, <4>2
    <3> QED BY <3>2
  <2>6. Refusing' = Refusing
    BY <1>3, <1>5, <1>6 DEF Refusing
  <2> QED BY <1>3, <1>8, <2>1, <2>3, <2>5, <2>6 DEF AuditInv
<1> QED BY <1>9, <1>10, <1>11, <1>12 DEF SessionsInv, RequestsInv

LEMMA SessionsStep == SessionsInv /\ [Next]_vars => SessionsInv'
<1> SUFFICES ASSUME SessionsInv, [Next]_vars PROVE SessionsInv'
  OBVIOUS
<1>1. CASE Tick
  BY <1>1, TickStep
<1>2. ASSUME NEW u \in Users, SwitchUser(u) PROVE SessionsInv'
  <2>1. active' \subseteq Users
    BY <1>2 DEF SessionsInv, Types, SwitchUser
  <2>2. UNCHANGED <<clock, session, request, audit, used, served, refused>>
    BY <1>2 DEF SwitchUser
  <2> QED BY <2>1, <2>2
          DEF SessionsInv, Types, RequestsInv, RequestInv, LoginInv, ServingInv, Serving,
              Touching, TokenInv, Behind, AuditInv, KnownTokens, Ended, Refusing, Known
<1>3. ASSUME NEW r \in Requests, NEW u \in Users, NEW t \in Tokens, Login(r, u, t)
      PROVE  SessionsInv'
  BY <1>3, LoginStep
<1>4. ASSUME NEW r \in Requests,
             \/ RefuseLogin(r) \/ RecordRefusal(r) \/ AnswerRefusal(r)
             \/ Touch(r) \/ Logout(r) \/ Fail(r)
      PROVE  SessionsInv'
  BY <1>4, ServingStep
<1>5. ASSUME NEW r \in Requests, NEW t \in Tokens, Resolve(r, t) PROVE SessionsInv'
  BY <1>5, ResolveStep
<1>6. ASSUME NEW r \in Requests, Commit(r) PROVE SessionsInv'
  BY <1>6, CommitStep
<1>7. CASE UNCHANGED vars
  BY <1>7
     DEF vars, SessionsInv, Types, RequestsInv, RequestInv, LoginInv, ServingInv, Serving,
         Touching, TokenInv, Behind, AuditInv, KnownTokens, Ended, Refusing, Known
<1> QED BY <1>1, <1>2, <1>3, <1>4, <1>5, <1>6, <1>7 DEF Next

LEMMA SessionsInvariance == Spec => []SessionsInv
<1> QED BY InitInv, SessionsStep, PTL DEF Spec

-----------------------------------------------------------------------------

\* Requests and rows have their types, and the times of a session are in order:
\* made, last written, last accepted, now.
THEOREM TypeCorrect == Spec => []SessionsTypeOK
<1>1. SessionsInv => SessionsTypeOK
  BY DEF SessionsInv, Types, TokenInv, SessionsTypeOK
<1> QED BY <1>1, SessionsInvariance, PTL

\* last_seen_at is behind the last request that succeeded by less than the
\* throttle, or by no more than a request takes, for any number of requests that
\* write it in any order (_touch).
THEOREM LastSeen == Spec => []UsedIsSeen
<1>1. SessionsInv => UsedIsSeen
  BY DEF SessionsInv, TokenInv, Behind, UsedIsSeen
<1> QED BY <1>1, SessionsInvariance, PTL

\* The audit log has a login for each session, a logout for each that was logged
\* out, and every refusal before it is answered (_fail, log_audit).
THEOREM LoginsAudited == Spec => []AuditTells
<1>1. SessionsInv => AuditTells
  <2>1. ASSUME SessionsInv PROVE audit["auth.login_failed"] >= refused
    BY <2>1, FS_CardinalityType, SessionsAssumption DEF SessionsInv, AuditInv, Types, AuditActions
  <2>2. ASSUME SessionsInv PROVE Ended = {t \in KnownTokens : session[t].revoked}
    BY DEF Ended, KnownTokens
  <2>3. ASSUME SessionsInv PROVE audit["auth.logout"] >= Cardinality(Ended)
    BY <2>3, FS_CardinalityType DEF SessionsInv, AuditInv, Types, AuditActions
  <2> QED BY <2>1, <2>2, <2>3 DEF SessionsInv, AuditInv, AuditTells, KnownTokens
<1> QED BY <1>1, SessionsInvariance, PTL

\* A logout is final whatever older requests still write, and a session is not
\* accepted when its token was not used for the idle timeout (resolve_session,
\* revoke_session).
THEOREM LogoutIsFinal == Spec => EndedStaysEnded
<1>1. ASSUME SessionsInv, [Next]_vars, NEW t \in Tokens, Known(t), session[t].revoked
      PROVE  session'[t].revoked
  <2>1. CASE session' = session
    BY <1>1, <2>1
  <2>2. ASSUME NEW r \in Requests, Commit(r) PROVE session'[t].revoked
    <3>1. CASE t = request[r].token
      BY <1>1, <2>2, <3>1, Committed
    <3>2. CASE t # request[r].token
      BY <1>1, <2>2, <3>2, Committed
    <3> QED BY <3>1, <3>2
  <2> QED BY <1>1, <2>1, <2>2
          DEF Next, Tick, SwitchUser, Login, RefuseLogin, RecordRefusal, AnswerRefusal, Resolve,
              Touch, Logout, Fail, vars
<1>2. ASSUME SessionsInv, [Next]_vars, NEW t \in Tokens, NEW r \in Requests, Known(t),
             request[r].pc = "idle", request'[r].pc # "idle", request'[r].token = t
      PROVE  clock - used[t] < IdleTimeout
  <2> USE SessionsAssumption
  <2>1. Types /\ RequestsInv /\ TokenInv(t)
    BY <1>2 DEF SessionsInv
  <2>2. ASSUME NEW s \in Tokens, Resolve(r, s) PROVE clock - used[t] < IdleTimeout
    <3>1. PICK q : /\ q = [Idle EXCEPT !.pc = IF TouchDue(s) THEN "touching" ELSE "running",
                                       !.token = s, !.record = session[s], !.now = clock]
                   /\ request' = [request EXCEPT ![r] = q]
      BY <2>2 DEF Resolve
    <3>2. q.token = s /\ request'[r] = q
      BY <2>1, <3>1 DEF Idle, Types
    <3> QED BY <1>2, <2>1, <2>2, <3>2, Rows DEF Resolve, Accepted, TokenInv
  <2>3. ASSUME NEW u \in Users, NEW s \in Tokens, Login(r, u, s)
        PROVE  clock - used[t] < IdleTimeout
    <3>1. PICK q : /\ q = [Idle EXCEPT !.pc = "login", !.token = s, !.now = clock,
                                       !.record = NewSession(u)]
                   /\ request' = [request EXCEPT ![r] = q]
      BY <2>3 DEF Login
    <3>2. q.token = s /\ request'[r] = q
      BY <2>1, <3>1 DEF Idle, Types
    <3> QED BY <1>2, <2>3, <3>2 DEF Login
  <2>4. ASSUME RefuseLogin(r) PROVE FALSE
    <3>1. PICK q : /\ q = [Idle EXCEPT !.pc = "refusing", !.now = clock]
                   /\ request' = [request EXCEPT ![r] = q]
      BY <2>4 DEF RefuseLogin
    <3>2. q.token = None /\ request'[r] = q
      BY <2>1, <3>1 DEF Idle, Types
    <3> QED BY <1>2, <3>2
  <2>5. ASSUME NEW p \in Requests \ {r}, NEW q, request' = [request EXCEPT ![p] = q] PROVE FALSE
    BY <1>2, <2>1, <2>5 DEF Types
  <2>6. ASSUME UNCHANGED request PROVE FALSE
    BY <1>2, <2>6
  <2>7. ASSUME RecordRefusal(r) \/ AnswerRefusal(r) \/ Touch(r) \/ Logout(r) \/ Commit(r)
                 \/ Fail(r)
        PROVE  FALSE
    BY <1>2, <2>7 DEF RecordRefusal, AnswerRefusal, Touch, Logout, Commit, Fail
  <2>8. ASSUME NEW p \in Requests \ {r},
               \/ \E u \in Users, s \in Tokens : Login(p, u, s)
               \/ RefuseLogin(p) \/ RecordRefusal(p) \/ AnswerRefusal(p)
               \/ \E s \in Tokens : Resolve(p, s)
               \/ Touch(p) \/ Logout(p) \/ Commit(p) \/ Fail(p)
        PROVE  FALSE
    BY <2>5, <2>8
       DEF Login, RefuseLogin, RecordRefusal, AnswerRefusal, Resolve, Touch, Logout, Commit, Fail
  <2> QED BY <1>2, <2>2, <2>3, <2>4, <2>6, <2>7, <2>8 DEF Next, Tick, SwitchUser, vars
<1>3. SessionsInv /\ [Next]_vars =>
        [\A t \in Tokens :
            /\ Known(t) /\ session[t].revoked => session'[t].revoked
            /\ \A r \in Requests :
                (request[r].pc = "idle" /\ request'[r].pc # "idle" /\ request'[r].token = t
                    /\ Known(t)) =>
                    clock - used[t] < IdleTimeout]_vars
  BY <1>1, <1>2
<1> QED BY <1>3, SessionsInvariance, PTL DEF Spec, EndedStaysEnded
=============================================================================
