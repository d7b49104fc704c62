------------------------ MODULE PortalAccess_proofs ------------------------
(* Proofs about PortalAccess, for any number of sessions, stations, logins,   *)
(* moves and refused changes of mode.                                         *)
EXTENDS PortalAccess, TLAPS, WellFoundedInduction

LEMMA LeastNumber ==
  ASSUME NEW T \in SUBSET Nat, T # {}
  PROVE  \E x \in T : \A y \in T : x <= y
<1>1. PICK x \in T : \A y \in T : ~ (<<y, x>> \in OpToRel(<, Nat))
  BY NatLessThanWellFounded, WFMin
<1>2. \A y \in T : y < x => <<y, x>> \in OpToRel(<, Nat)
  BY DEF OpToRel
<1>3. \A y \in T : ~ (y < x)
  BY <1>1, <1>2, Zenon
<1> QED BY <1>3

-----------------------------------------------------------------------------
(* The sessions *)

SessionsType ==
    /\ s_sessions \in [Slots -> [token : 0 .. issued, expires_in : -1 .. SESSION_IDLE_TIMEOUT,
                                 in_use : BOOLEAN]]
    /\ issued \in 0 .. MaxLogins

Session(m) == [token : 0 .. m, expires_in : -1 .. SESSION_IDLE_TIMEOUT, in_use : BOOLEAN]

LEMMA SessionWith ==
  ASSUME NEW m, NEW s \in Session(m), NEW e \in -1 .. SESSION_IDLE_TIMEOUT
  PROVE  LET w == [s EXCEPT !.expires_in = e]
         IN  w \in Session(m) /\ w.token = s.token /\ w.in_use = s.in_use /\ w.expires_in = e
BY DEF Session

LEMMA SessionFreed ==
  ASSUME NEW m, NEW s \in Session(m)
  PROVE  LET w == [s EXCEPT !.in_use = FALSE]
         IN  w \in Session(m) /\ w.token = s.token /\ w.in_use = FALSE /\ w.expires_in = s.expires_in
BY DEF Session

(* One unit of time takes one from what is left of each session. *)
LEMMA LaterIs ==
  ASSUME NEW m, NEW t \in [Slots -> Session(m)]
  PROVE  /\ Later(t) \in [Slots -> Session(m)]
         /\ \A i \in Slots :
               /\ Later(t)[i].token = t[i].token /\ Later(t)[i].in_use = t[i].in_use
               /\ ~Expired(Later(t)[i]) =>
                     ~Expired(t[i]) /\ Later(t)[i].expires_in = t[i].expires_in - 1
               /\ ~Expired(t[i]) /\ Expired(Later(t)[i]) => t[i].expires_in = 0
<1>1. ASSUME NEW i \in Slots
      PROVE  /\ Later(t)[i] \in Session(m)
             /\ Later(t)[i].token = t[i].token /\ Later(t)[i].in_use = t[i].in_use
             /\ ~Expired(Later(t)[i]) =>
                   ~Expired(t[i]) /\ Later(t)[i].expires_in = t[i].expires_in - 1
             /\ ~Expired(t[i]) /\ Expired(Later(t)[i]) => t[i].expires_in = 0
  <2>1. t[i] \in Session(m) /\ t[i].expires_in \in -1 .. SESSION_IDLE_TIMEOUT /\ SESSION_IDLE_TIMEOUT \in Nat
    BY SessionsAssumption DEF Session
  <2>2. CASE t[i].expires_in >= 0
    <3>1. Later(t)[i] = [t[i] EXCEPT !.expires_in = t[i].expires_in - 1]
      BY <2>1, <2>2 DEF Later
    <3>2. t[i].expires_in - 1 \in -1 .. SESSION_IDLE_TIMEOUT
      BY <2>1, <2>2
    <3>3. /\ Later(t)[i] \in Session(m) /\ Later(t)[i].token = t[i].token
          /\ Later(t)[i].in_use = t[i].in_use
          /\ Later(t)[i].expires_in = t[i].expires_in - 1
      BY <2>1, <3>1, <3>2, SessionWith
    <3>4. ~Expired(t[i])
      BY <2>1, <2>2 DEF Expired
    <3>5. Expired(Later(t)[i]) => t[i].expires_in = 0
      BY <2>1, <2>2, <3>3 DEF Expired
    <3> QED BY <3>3, <3>4, <3>5
  <2>3. CASE ~(t[i].expires_in >= 0)
    <3>1. Later(t)[i] = t[i] /\ Expired(t[i])
      BY <2>1, <2>3 DEF Later, Expired
    <3> QED BY <2>1, <3>1
  <2> QED BY <2>2, <2>3
<1>2. Later(t) \in [Slots -> Session(m)]
  BY <1>1 DEF Later
<1> QED BY <1>1, <1>2

(* The slot a login takes: a free one, or else one that is closest to its end. *)
LEMMA Allocated ==
  ASSUME NEW m, NEW t \in [Slots -> Session(m)]
  PROVE  LET s == allocate_session_locked(t)
         IN  /\ s \in Slots
             /\ \/ ~t[s].in_use
                \/ /\ \A i \in Slots : t[i].in_use
                   /\ \A j \in Slots : t[s].expires_in <= t[j].expires_in
<1> DEFINE free   == {i \in Slots : ~t[i].in_use}
           oldest == {i \in Slots : \A j \in Slots : t[i].expires_in <= t[j].expires_in}
           First(S) == CHOOSE i \in S : \A j \in S : i <= j
           s == allocate_session_locked(t)
<1>1. s = IF free # {} THEN First(free) ELSE First(oldest)
  BY DEF allocate_session_locked
<1>2. ASSUME NEW S \in SUBSET Slots, S # {} PROVE First(S) \in S
  <2>1. S \in SUBSET Nat
    BY DEF Slots
  <2>2. \E i \in S : \A j \in S : i <= j
    BY <1>2, <2>1, LeastNumber
  <2> QED BY <2>2
<1>3. oldest # {}
  <2> DEFINE T == {t[i].expires_in + 1 : i \in Slots}
  <2>1. \A i \in Slots : t[i].expires_in \in -1 .. SESSION_IDLE_TIMEOUT
    BY DEF Session
  <2>2. T \in SUBSET Nat /\ T # {}
    <3>1. 1 \in Slots
      BY SessionsAssumption DEF Slots
    <3> QED BY <2>1, <3>1, SessionsAssumption
  <2>3. PICK x \in T : \A y \in T : x <= y
    BY <2>2, LeastNumber
  <2>4. PICK i \in Slots : x = t[i].expires_in + 1
    BY <2>3
  <2>5. ASSUME NEW j \in Slots PROVE t[i].expires_in <= t[j].expires_in
    <3>1. t[i].expires_in + 1 <= t[j].expires_in + 1
      BY <2>3, <2>4
    <3> QED BY <2>1, <3>1, SessionsAssumption
  <2> QED BY <2>5
<1>4. CASE free # {}
  <2>1. s = First(free) /\ free \in SUBSET Slots
    BY <1>1, <1>4
  <2>2. s \in free
    BY <1>2, <1>4, <2>1
  <2> QED BY <2>2
<1>5. CASE free = {}
  <2>1. s = First(oldest) /\ oldest \in SUBSET Slots
    BY <1>1, <1>5
  <2>2. s \in oldest
    BY <1>2, <1>3, <2>1
  <2>3. \A i \in Slots : t[i].in_use
    BY <1>5
  <2> QED BY <2>2, <2>3
<1> QED BY <1>4, <1>5

LEMMA ReclaimIs ==
  ASSUME NEW m, NEW t \in [Slots -> Session(m)], NEW token, NEW i \in Slots
  PROVE  LET r == ReclaimLocked(t, token)[i]
         IN  /\ r \in Session(m) /\ r.token = t[i].token /\ r.expires_in = t[i].expires_in
             /\ r.in_use => t[i].in_use
             /\ ~Expired(t[i]) => r = t[i]
<1> DEFINE r == ReclaimLocked(t, token)[i]
<1>1. CASE t[i].token = token /\ Expired(t[i])
  <2>1. r = [t[i] EXCEPT !.in_use = FALSE]
    BY <1>1 DEF ReclaimLocked
  <2> QED BY <1>1, <2>1, SessionFreed
<1>2. CASE ~(t[i].token = token /\ Expired(t[i]))
  <2>1. r = t[i]
    BY <1>2 DEF ReclaimLocked
  <2> QED BY <2>1
<1> QED BY <1>1, <1>2

LEMMA SessionsAre == SessionsType <=> s_sessions \in [Slots -> Session(issued)] /\ issued \in 0 .. MaxLogins
BY DEF SessionsType, Session

LEMMA SessionsAreAfter ==
  SessionsType' <=> s_sessions' \in [Slots -> Session(issued')] /\ issued' \in 0 .. MaxLogins
BY DEF SessionsType, Session

(* What a step of the table may do to the sessions that someone else holds and to those    *)
(* that have ended: token is the one it is about, and 0 when it is about none.              *)
Keeps(token) ==
    LET now == Later(s_sessions) IN
    \A i \in Slots :
        /\ now[i].in_use /\ ~Expired(now[i]) /\ now[i].token # token => s_sessions'[i] = now[i]
        /\ s_sessions'[i].in_use /\ ~Expired(s_sessions'[i]) =>
              now[i].in_use /\ ~Expired(now[i]) /\ s_sessions'[i].token = now[i].token

LEMMA WaitStep ==
  ASSUME SessionsType, Wait
  PROVE  SessionsType' /\ issued' = issued /\ Keeps(0)
         /\ \A i \in Slots : s_sessions'[i] = Later(s_sessions)[i]
BY SessionsAre, SessionsAreAfter, LaterIs DEF Wait, Keeps

LEMMA RequireStep ==
  ASSUME SessionsType, NEW token, wp_auth_require(token)
  PROVE  /\ SessionsType' /\ issued' = issued /\ Keeps(token)
         /\ \A i \in Slots : LET now == Later(s_sessions) IN
               now[i].in_use /\ ~Expired(now[i]) /\ now[i].token = token =>
                  /\ s_sessions'[i].in_use /\ s_sessions'[i].token = token /\ ~Expired(s_sessions'[i])
                  /\ s_sessions'[i].expires_in = SESSION_IDLE_TIMEOUT
<1> DEFINE now_ == Later(s_sessions)
           s == find_session_locked(now_, token)
<1>1. now_ \in [Slots -> Session(issued)]
  BY SessionsAre, LaterIs
<1>2. /\ s_sessions' = [i \in Slots |-> IF i \in s THEN [now_[i] EXCEPT !.expires_in = SESSION_IDLE_TIMEOUT]
                                       ELSE ReclaimLocked(now_, token)[i]]
      /\ issued' = issued
  BY DEF wp_auth_require
<1>3. \A i \in Slots : i \in s <=> now_[i].in_use /\ now_[i].token = token /\ ~Expired(now_[i])
  BY DEF find_session_locked
<1> HIDE DEF now_, s
<1>4. ASSUME NEW i \in Slots
      PROVE  /\ s_sessions'[i] \in Session(issued) /\ s_sessions'[i].token = now_[i].token
             /\ i \in s => /\ s_sessions'[i].in_use /\ ~Expired(s_sessions'[i])
                           /\ s_sessions'[i].expires_in = SESSION_IDLE_TIMEOUT
             /\ i \notin s => /\ s_sessions'[i].in_use => now_[i].in_use
                              /\ Expired(now_[i]) => Expired(s_sessions'[i])
                              /\ ~Expired(now_[i]) => s_sessions'[i] = now_[i]
  <2>1. now_[i] \in Session(issued)
    BY <1>1
  <2>2. CASE i \in s
    <3> DEFINE w == [now_[i] EXCEPT !.expires_in = SESSION_IDLE_TIMEOUT]
    <3>1. s_sessions'[i] = w
      BY <1>2, <2>2
    <3>2. SESSION_IDLE_TIMEOUT \in -1 .. SESSION_IDLE_TIMEOUT /\ ~(SESSION_IDLE_TIMEOUT < 0)
      BY SessionsAssumption
    <3>3. w \in Session(issued) /\ w.token = now_[i].token /\ w.in_use = now_[i].in_use
          /\ w.expires_in = SESSION_IDLE_TIMEOUT
      BY <2>1, <3>2, SessionWith
    <3> HIDE DEF w
    <3>4. ~Expired(w)
      BY <3>2, <3>3 DEF Expired
    <3> QED BY <1>3, <2>2, <3>1, <3>3, <3>4
  <2>3. CASE i \notin s
    <3> DEFINE r == ReclaimLocked(now_, token)[i]
    <3>1. s_sessions'[i] = r
      BY <1>2, <2>3
    <3>2. /\ r \in Session(issued) /\ r.token = now_[i].token /\ r.expires_in = now_[i].expires_in
          /\ r.in_use => now_[i].in_use
          /\ ~Expired(now_[i]) => r = now_[i]
      BY <1>1, ReclaimIs
    <3> HIDE DEF r
    <3>3. Expired(now_[i]) => Expired(r)
      BY <3>2 DEF Expired
    <3> QED BY <2>3, <3>1, <3>2, <3>3
  <2> QED BY <2>2, <2>3
<1>5. s_sessions' \in [Slots -> Session(issued)]
  BY <1>2, <1>4
<1>6. SessionsType'
  BY <1>2, <1>5, SessionsAre, SessionsAreAfter
<1>7. Keeps(token)
  BY <1>3, <1>4 DEF Keeps, now_
<1>8. \A i \in Slots : now_[i].in_use /\ ~Expired(now_[i]) /\ now_[i].token = token =>
           /\ s_sessions'[i].in_use /\ s_sessions'[i].token = token /\ ~Expired(s_sessions'[i])
           /\ s_sessions'[i].expires_in = SESSION_IDLE_TIMEOUT
  BY <1>3, <1>4
<1> QED BY <1>2, <1>6, <1>7, <1>8 DEF now_

LEMMA LogoutStep ==
  ASSUME SessionsType, NEW token, logout_handler(token)
  PROVE  /\ SessionsType' /\ issued' = issued /\ Keeps(token)
         /\ \A i \in Slots : s_sessions'[i].in_use /\ ~Expired(s_sessions'[i]) =>
               s_sessions'[i].token # token
<1> DEFINE now_ == Later(s_sessions)
           s == find_session_locked(now_, token)
<1>1. now_ \in [Slots -> Session(issued)]
  BY SessionsAre, LaterIs
<1>2. /\ s_sessions' = [i \in Slots |-> IF i \in s THEN [now_[i] EXCEPT !.in_use = FALSE]
                                       ELSE ReclaimLocked(now_, token)[i]]
      /\ issued' = issued
  BY DEF logout_handler
<1>3. \A i \in Slots : i \in s <=> now_[i].in_use /\ now_[i].token = token /\ ~Expired(now_[i])
  BY DEF find_session_locked
<1> HIDE DEF now_, s
<1>4. ASSUME NEW i \in Slots
      PROVE  /\ s_sessions'[i] \in Session(issued) /\ s_sessions'[i].token = now_[i].token
             /\ i \in s => ~s_sessions'[i].in_use
             /\ i \notin s => /\ s_sessions'[i].in_use => now_[i].in_use
                              /\ Expired(now_[i]) => Expired(s_sessions'[i])
                              /\ ~Expired(now_[i]) => s_sessions'[i] = now_[i]
  <2>1. now_[i] \in Session(issued)
    BY <1>1
  <2>2. CASE i \in s
    BY <1>2, <2>1, <2>2, SessionFreed
  <2>3. CASE i \notin s
    <3> DEFINE r == ReclaimLocked(now_, token)[i]
    <3>1. s_sessions'[i] = r
      BY <1>2, <2>3
    <3>2. /\ r \in Session(issued) /\ r.token = now_[i].token /\ r.expires_in = now_[i].expires_in
          /\ r.in_use => now_[i].in_use
          /\ ~Expired(now_[i]) => r = now_[i]
      BY <1>1, ReclaimIs
    <3> HIDE DEF r
    <3>3. Expired(now_[i]) => Expired(r)
      BY <3>2 DEF Expired
    <3> QED BY <2>3, <3>1, <3>2, <3>3
  <2> QED BY <2>2, <2>3
<1>5. s_sessions' \in [Slots -> Session(issued)]
  BY <1>2, <1>4
<1>6. SessionsType'
  BY <1>2, <1>5, SessionsAre, SessionsAreAfter
<1>7. Keeps(token)
  BY <1>3, <1>4 DEF Keeps, now_
<1>8. \A i \in Slots : s_sessions'[i].in_use /\ ~Expired(s_sessions'[i]) => s_sessions'[i].token # token
  BY <1>3, <1>4
<1> QED BY <1>2, <1>6, <1>7, <1>8

LEMMA LoginStep ==
  ASSUME SessionsType, login_handler
  PROVE  LET now == Later(s_sessions)
             s   == allocate_session_locked(now)
         IN  /\ SessionsType' /\ issued' = issued + 1
             /\ s \in Slots /\ s_sessions'[s].token = issued'
             /\ s_sessions'[s].expires_in = SESSION_IDLE_TIMEOUT
             /\ \A i \in Slots : i # s => s_sessions'[i] = now[i]
<1> DEFINE now_ == Later(s_sessions)
           s == allocate_session_locked(now_)
           w == [token |-> issued', expires_in |-> SESSION_IDLE_TIMEOUT, in_use |-> TRUE]
<1>1. now_ \in [Slots -> Session(issued)] /\ issued \in 0 .. MaxLogins
  BY SessionsAre, LaterIs
<1>2. /\ s_sessions' = [now_ EXCEPT ![s] = w] /\ issued < MaxLogins /\ issued' = issued + 1
  BY DEF login_handler
<1>3. s \in Slots
  BY <1>1, Allocated
<1> HIDE DEF now_, s
<1>4. issued' \in 0 .. MaxLogins /\ issued \in Nat /\ issued' \in 0 .. issued'
  BY <1>1, <1>2, SessionsAssumption
<1>5. w \in Session(issued')
  <2>1. SESSION_IDLE_TIMEOUT \in -1 .. SESSION_IDLE_TIMEOUT
    BY SessionsAssumption
  <2> QED BY <1>4, <2>1 DEF Session
<1>6. ASSUME NEW i \in Slots PROVE now_[i] \in Session(issued')
  <2>1. 0 .. issued \subseteq 0 .. issued'
    BY <1>2, <1>4
  <2>2. now_[i] \in Session(issued)
    BY <1>1
  <2> QED BY <2>1, <2>2 DEF Session
<1>7. s_sessions'[s] = w /\ \A i \in Slots : i # s => s_sessions'[i] = now_[i]
  BY <1>1, <1>2, <1>3
<1>8. s_sessions' \in [Slots -> Session(issued')]
  <2> HIDE DEF w
  <2>1. now_ \in [Slots -> Session(issued')]
    BY <1>1, <1>6
  <2> QED BY <1>2, <1>3, <1>5, <2>1
<1>9. SessionsType'
  BY <1>4, <1>8, SessionsAreAfter
<1> QED BY <1>2, <1>3, <1>7, <1>9 DEF now_, s

(* The table tells what the history does: of a session that is alive, the time left is      *)
(* what its owner's last request has left of the time-out.                                   *)
SinceType == since \in [Tokens -> 0 .. Over]

Linked ==
    \A i \in Slots : s_sessions[i].in_use /\ ~Expired(s_sessions[i]) =>
        /\ s_sessions[i].token \in 1 .. issued
        /\ s_sessions[i].expires_in = SESSION_IDLE_TIMEOUT - since[s_sessions[i].token]

SessionsInv == SessionsType /\ SinceType /\ Linked

LEMMA SessionsFrame ==
  ASSUME SessionsInv, UNCHANGED auth_vars
  PROVE  SessionsInv'
BY DEF auth_vars, SessionsInv, SessionsType, SinceType, Linked

LEMMA IdleForIs ==
  ASSUME SinceType, NEW token \in Tokens
  PROVE  /\ IdleFor(token) \in 0 .. Over
         /\ since[token] # Over => IdleFor(token) = since[token] + 1
<1>1. since[token] \in 0 .. Over /\ Over \in Nat
  BY SessionsAssumption DEF SinceType, Over
<1> QED BY <1>1 DEF IdleFor

LEMMA SinceIs ==
  ASSUME SinceType, NEW t, NEW idle \in 0 .. Over, From(t, idle) \/ NoRequest
  PROVE  SinceType'
<1>1. \A token \in Tokens : IdleFor(token) \in 0 .. Over
  BY IdleForIs
<1> QED BY <1>1 DEF SinceType, From, NoRequest, Over

(* A session that is still alive when the next step comes ... *)
LEMMA NowLinked ==
  ASSUME SessionsInv, NEW i \in Slots,
         Later(s_sessions)[i].in_use, ~Expired(Later(s_sessions)[i])
  PROVE  LET token == s_sessions[i].token
         IN  /\ s_sessions[i].in_use /\ ~Expired(s_sessions[i])
             /\ Later(s_sessions)[i].token = token
             /\ token \in 1 .. issued /\ token \in Tokens
             /\ IdleFor(token) \in Nat /\ IdleFor(token) # Over
             /\ Later(s_sessions)[i].expires_in = SESSION_IDLE_TIMEOUT - IdleFor(token)
<1> DEFINE now_ == Later(s_sessions)
           token == s_sessions[i].token
<1>1. s_sessions \in [Slots -> Session(issued)] /\ issued \in 0 .. MaxLogins
  BY SessionsAre DEF SessionsInv
<1>2. /\ now_[i].token = token /\ s_sessions[i].in_use /\ ~Expired(s_sessions[i])
      /\ now_[i].expires_in = s_sessions[i].expires_in - 1
      /\ now_ \in [Slots -> Session(issued)]
  BY <1>1, LaterIs
<1>3. /\ token \in 1 .. issued
      /\ s_sessions[i].expires_in = SESSION_IDLE_TIMEOUT - since[token]
  BY <1>2 DEF SessionsInv, Linked
<1>4. token \in Tokens
  BY <1>1, <1>3, SessionsAssumption DEF Tokens
<1>5. since[token] \in 0 .. Over /\ SESSION_IDLE_TIMEOUT \in Nat
  BY <1>4, SessionsAssumption DEF SessionsInv, SinceType
<1>6. ~(now_[i].expires_in < 0)
  BY DEF Expired
<1> HIDE DEF now_, token
<1>7. now_[i].expires_in = SESSION_IDLE_TIMEOUT - since[token] - 1 /\ since[token] < SESSION_IDLE_TIMEOUT
  BY <1>2, <1>3, <1>5, <1>6
<1>8. IdleFor(token) = since[token] + 1
  BY <1>4, <1>5, <1>7, IdleForIs DEF SessionsInv, Over
<1>9. /\ IdleFor(token) \in Nat /\ IdleFor(token) # Over
      /\ now_[i].expires_in = SESSION_IDLE_TIMEOUT - IdleFor(token)
  BY <1>5, <1>7, <1>8 DEF Over
<1> QED BY <1>2, <1>3, <1>4, <1>9 DEF now_, token

(* ... and one that is not: its owner has been idle for the whole time-out. *)
LEMMA EndsIdle ==
  ASSUME SessionsInv, NEW i \in Slots, s_sessions[i].in_use, ~Expired(s_sessions[i]),
         IdleFor(s_sessions[i].token) # Over
  PROVE  Later(s_sessions)[i].in_use /\ ~Expired(Later(s_sessions)[i])
<1> DEFINE token == s_sessions[i].token
<1>1. s_sessions \in [Slots -> Session(issued)] /\ issued \in 0 .. MaxLogins
  BY SessionsAre DEF SessionsInv
<1>2. /\ token \in 1 .. issued
      /\ s_sessions[i].expires_in = SESSION_IDLE_TIMEOUT - since[token]
  BY DEF SessionsInv, Linked
<1>3. token \in Tokens
  BY <1>1, <1>2, SessionsAssumption DEF Tokens
<1>4. since[token] \in 0 .. Over /\ SESSION_IDLE_TIMEOUT \in Nat
  BY <1>3, SessionsAssumption DEF SessionsInv, SinceType
<1>5. since[token] # Over /\ since[token] + 1 # Over
  BY <1>4 DEF IdleFor
<1> HIDE DEF token
<1>6. s_sessions[i].expires_in # 0
  BY <1>2, <1>4, <1>5 DEF Over
<1> QED BY <1>1, <1>6, LaterIs

(* What keeps the table and the history linked. *)
LEMMA LinkKept ==
  ASSUME SessionsInv, SessionsType', SinceType', issued' >= issued,
         \A i \in Slots : LET now == Later(s_sessions) IN
            s_sessions'[i].in_use /\ ~Expired(s_sessions'[i]) =>
              \/ /\ now[i].in_use /\ ~Expired(now[i]) /\ s_sessions'[i] = now[i]
                 /\ since'[now[i].token] = IdleFor(now[i].token)
              \/ /\ s_sessions'[i].token \in 1 .. issued'
                 /\ s_sessions'[i].expires_in = SESSION_IDLE_TIMEOUT
                 /\ since'[s_sessions'[i].token] = 0
  PROVE  SessionsInv'
<1>1. ASSUME NEW i \in Slots, s_sessions'[i].in_use, ~Expired(s_sessions'[i])
      PROVE  /\ s_sessions'[i].token \in 1 .. issued'
             /\ s_sessions'[i].expires_in = SESSION_IDLE_TIMEOUT - since'[s_sessions'[i].token]
  <2> DEFINE now_ == Later(s_sessions)
  <2>1. CASE /\ now_[i].in_use /\ ~Expired(now_[i]) /\ s_sessions'[i] = now_[i]
             /\ since'[now_[i].token] = IdleFor(now_[i].token)
    <3>1. /\ now_[i].token \in 1 .. issued
          /\ now_[i].expires_in = SESSION_IDLE_TIMEOUT - IdleFor(now_[i].token)
      BY <2>1, NowLinked
    <3>2. issued \in Nat /\ issued' \in Nat
      BY SessionsAssumption DEF SessionsInv, SessionsType
    <3> HIDE DEF now_
    <3>3. now_[i].token \in 1 .. issued'
      BY <3>1, <3>2
    <3> QED BY <2>1, <3>1, <3>3
  <2>2. CASE /\ s_sessions'[i].token \in 1 .. issued'
             /\ s_sessions'[i].expires_in = SESSION_IDLE_TIMEOUT
             /\ since'[s_sessions'[i].token] = 0
    BY <2>2, SessionsAssumption
  <2> QED BY <1>1, <2>1, <2>2
<1> QED BY <1>1 DEF SessionsInv, Linked

(* What the property says of a step of the table. *)
EndsForAReason ==
    \A token \in 1 .. issued' :
        /\ Live(s_sessions, token) /\ ~Live(s_sessions', token) =>
              \/ logout_handler(token)
              \/ IdleFor(token) = Over
              \/ /\ issued' = issued + 1
                 /\ \A i \in Slots :
                       /\ s_sessions[i].in_use
                       /\ IdleFor(s_sessions[i].token) # Over
                       /\ IdleFor(s_sessions[i].token) <= IdleFor(token)
        /\ Live(s_sessions', token) /\ token <= issued =>
              Live(s_sessions, token) /\ IdleFor(token) # Over

(* A session that is alive and whose owner is not idle for too long has its slot. *)
LEMMA HasSlot ==
  ASSUME SessionsInv, NEW token, Live(s_sessions, token), IdleFor(token) # Over
  PROVE  \E i \in Slots : LET now == Later(s_sessions)
                          IN  now[i].in_use /\ ~Expired(now[i]) /\ now[i].token = token
<1>1. PICK i \in Slots : s_sessions[i].in_use /\ s_sessions[i].token = token /\ ~Expired(s_sessions[i])
  BY DEF Live
<1>2. Later(s_sessions)[i].in_use /\ ~Expired(Later(s_sessions)[i])
  BY <1>1, EndsIdle
<1> QED BY <1>1, <1>2, NowLinked

(* A step that issues no token brings no session back, and keeps none beyond its time. *)
LEMMA NothingReturns ==
  ASSUME SessionsInv, NEW about, Keeps(about), NEW token, Live(s_sessions', token)
  PROVE  Live(s_sessions, token) /\ IdleFor(token) # Over
<1>1. PICK i \in Slots : s_sessions'[i].in_use /\ s_sessions'[i].token = token /\ ~Expired(s_sessions'[i])
  BY DEF Live
<1>2. LET now == Later(s_sessions)
      IN  now[i].in_use /\ ~Expired(now[i]) /\ now[i].token = token
  BY <1>1 DEF Keeps
<1> QED BY <1>2, NowLinked DEF Live

(* A step about another token, or about none, ends no session. *)
LEMMA OthersStay ==
  ASSUME NEW about, Keeps(about), NEW token, token # about,
         NEW i \in Slots, Later(s_sessions)[i].in_use, Later(s_sessions)[i].token = token,
         ~Expired(Later(s_sessions)[i])
  PROVE  Live(s_sessions', token)
<1>1. s_sessions'[i] = Later(s_sessions)[i]
  BY DEF Keeps
<1> QED BY <1>1 DEF Live

(* The session of the one a step is about gets its whole time, or ends. *)
Renewed(i, about) ==
    LET now == Later(s_sessions)
        is  == now[i].in_use /\ ~Expired(now[i]) /\ now[i].token = about
    IN  is /\ s_sessions'[i].in_use /\ ~Expired(s_sessions'[i]) =>
         /\ s_sessions'[i].token = about /\ s_sessions'[i].expires_in = SESSION_IDLE_TIMEOUT
         /\ since'[about] = 0

(* A step that keeps the sessions of everyone else leaves them linked. *)
LEMMA KeepsLinked ==
  ASSUME SessionsInv, SessionsType', SinceType', issued' = issued, NEW about, Keeps(about),
         \A token \in Tokens : token # about => since'[token] = IdleFor(token),
         \A i \in Slots : Renewed(i, about)
  PROVE  SessionsInv'
<1> DEFINE now_ == Later(s_sessions)
<1>1. ASSUME NEW i \in Slots, s_sessions'[i].in_use, ~Expired(s_sessions'[i])
      PROVE  \/ /\ now_[i].in_use /\ ~Expired(now_[i]) /\ s_sessions'[i] = now_[i]
                /\ since'[now_[i].token] = IdleFor(now_[i].token)
             \/ /\ s_sessions'[i].token \in 1 .. issued'
                /\ s_sessions'[i].expires_in = SESSION_IDLE_TIMEOUT
                /\ since'[s_sessions'[i].token] = 0
  <2>1. now_[i].in_use /\ ~Expired(now_[i])
    BY <1>1 DEF Keeps
  <2>2. now_[i].token \in 1 .. issued /\ now_[i].token \in Tokens
    BY <2>1, NowLinked
  <2>3. CASE now_[i].token = about
    BY <1>1, <2>1, <2>2, <2>3 DEF Renewed
  <2>4. CASE now_[i].token # about
    BY <2>1, <2>2, <2>4 DEF Keeps
  <2> QED BY <2>3, <2>4
<1>2. issued' >= issued
  BY SessionsAssumption DEF SessionsInv, SessionsType
<1> QED BY <1>1, <1>2, LinkKept

LEMMA SessionsStep ==
  ASSUME SessionsInv, Sessions
  PROVE  SessionsInv' /\ EndsForAReason
<1> DEFINE now_ == Later(s_sessions)
<1>0. SessionsType /\ SinceType /\ 0 \in 0 .. Over /\ Over \in 0 .. Over
  BY SessionsAssumption DEF SessionsInv, Over
<1>1. CASE Wait
  <2>1. SessionsType' /\ Keeps(0) /\ issued' = issued /\ NoRequest
    BY <1>0, <1>1, WaitStep DEF Wait
  <2>2. SinceType' /\ \A token \in Tokens : since'[token] = IdleFor(token)
    BY <1>0, <2>1, SinceIs DEF NoRequest
  <2>3. \A i \in Slots : Renewed(i, 0)
    <3>1. \A i \in Slots : now_[i].in_use /\ ~Expired(now_[i]) => now_[i].token # 0
      BY NowLinked
    <3> QED BY <3>1 DEF Renewed
  <2>4. SessionsInv'
    BY <2>1, <2>2, <2>3, KeepsLinked
  <2>5. \A token \in 1 .. issued' : token # 0
    OBVIOUS
  <2> QED BY <2>1, <2>4, <2>5, HasSlot, NothingReturns, OthersStay DEF EndsForAReason
<1>2. CASE login_handler
  <2> DEFINE s == allocate_session_locked(now_)
  <2>1. /\ SessionsType' /\ issued' = issued + 1
        /\ s \in Slots /\ s_sessions'[s].token = issued'
        /\ s_sessions'[s].expires_in = SESSION_IDLE_TIMEOUT
        /\ \A i \in Slots : i # s => s_sessions'[i] = now_[i]
    BY <1>0, <1>2, LoginStep
  <2>2. now_ \in [Slots -> Session(issued)] /\ issued \in Nat /\ issued' \in 0 .. MaxLogins
    BY <1>0, <2>1, SessionsAre, SessionsAreAfter, LaterIs, SessionsAssumption
  <2>3. \/ ~now_[s].in_use
        \/ /\ \A i \in Slots : now_[i].in_use
           /\ \A j \in Slots : now_[s].expires_in <= now_[j].expires_in
    BY <2>2, Allocated
  <2> HIDE DEF s
  <2>4. SinceType' /\ \A token \in Tokens : since'[token] = IF token = issued' THEN 0 ELSE IdleFor(token)
    <3>1. From(issued', 0)
      BY <1>2 DEF login_handler
    <3> QED BY <1>0, <3>1, SinceIs DEF From
  <2>5. SessionsInv'
    <3>1. ASSUME NEW i \in Slots, s_sessions'[i].in_use, ~Expired(s_sessions'[i])
          PROVE  \/ /\ now_[i].in_use /\ ~Expired(now_[i]) /\ s_sessions'[i] = now_[i]
                    /\ since'[now_[i].token] = IdleFor(now_[i].token)
                 \/ /\ s_sessions'[i].token \in 1 .. issued'
                    /\ s_sessions'[i].expires_in = SESSION_IDLE_TIMEOUT
                    /\ since'[s_sessions'[i].token] = 0
      <4>1. CASE i = s
        <5>1. issued' \in 1 .. issued' /\ issued' \in Tokens
          BY <2>1, <2>2 DEF Tokens
        <5> QED BY <2>1, <2>4, <4>1, <5>1
      <4>2. CASE i # s
        <5>1. s_sessions'[i] = now_[i] /\ now_[i].in_use /\ ~Expired(now_[i])
          BY <2>1, <3>1, <4>2
        <5>2. now_[i].token \in 1 .. issued /\ now_[i].token \in Tokens
          BY <5>1, NowLinked
        <5>3. now_[i].token # issued'
          BY <2>1, <2>2, <5>2
        <5> QED BY <2>4, <5>1, <5>2, <5>3
      <4> QED BY <4>1, <4>2
    <3>2. issued' >= issued
      BY <2>1, <2>2
    <3> QED BY <2>1, <2>4, <3>1, <3>2, LinkKept
  <2>6. ASSUME NEW token \in 1 .. issued', Live(s_sessions', token), token <= issued
        PROVE  Live(s_sessions, token) /\ IdleFor(token) # Over
    <3>1. PICK i \in Slots : s_sessions'[i].in_use /\ s_sessions'[i].token = token /\ ~Expired(s_sessions'[i])
      BY <2>6 DEF Live
    <3>2. i # s
      BY <2>1, <2>2, <2>6, <3>1
    <3>3. now_[i].in_use /\ now_[i].token = token /\ ~Expired(now_[i])
      BY <2>1, <3>1, <3>2
    <3> QED BY <3>3, NowLinked DEF Live
  <2>7. ASSUME NEW token \in 1 .. issued', ~Live(s_sessions', token), NEW k \in Slots,
               now_[k].in_use, now_[k].token = token, ~Expired(now_[k]), NEW i \in Slots
        PROVE  /\ s_sessions[i].in_use
               /\ IdleFor(s_sessions[i].token) # Over
               /\ IdleFor(s_sessions[i].token) <= IdleFor(token)
    <3>1. k = s
      <4>1. k # s => s_sessions'[k] = now_[k]
        BY <2>1
      <4> QED BY <2>7, <4>1 DEF Live
    <3>2. now_[i].in_use /\ now_[k].expires_in <= now_[i].expires_in
      BY <2>3, <2>7, <3>1
    <3>3. ~Expired(now_[i])
      <4>1. now_[k].expires_in \in Int /\ now_[i].expires_in \in Int
        BY <2>2, SessionsAssumption DEF Session
      <4>2. now_[k].expires_in >= 0
        BY <2>7, <4>1 DEF Expired
      <4> QED BY <3>2, <4>1, <4>2 DEF Expired
    <3>4. /\ s_sessions[i].in_use
          /\ IdleFor(s_sessions[i].token) \in Nat /\ IdleFor(s_sessions[i].token) # Over
          /\ now_[i].expires_in = SESSION_IDLE_TIMEOUT - IdleFor(s_sessions[i].token)
      BY <3>2, <3>3, NowLinked
    <3>5. /\ IdleFor(token) \in Nat
          /\ now_[k].expires_in = SESSION_IDLE_TIMEOUT - IdleFor(token)
      BY <2>7, NowLinked
    <3>6. IdleFor(s_sessions[i].token) <= IdleFor(token)
      BY <3>2, <3>4, <3>5, SessionsAssumption
    <3> QED BY <3>4, <3>6
  <2>8. EndsForAReason
    <3>1. ASSUME NEW token \in 1 .. issued', Live(s_sessions, token), ~Live(s_sessions', token),
                 IdleFor(token) # Over
          PROVE  \A i \in Slots : /\ s_sessions[i].in_use
                                  /\ IdleFor(s_sessions[i].token) # Over
                                  /\ IdleFor(s_sessions[i].token) <= IdleFor(token)
      BY <2>7, <3>1, HasSlot
    <3> QED BY <2>1, <2>6, <3>1 DEF EndsForAReason
  <2> QED BY <2>5, <2>8
<1>3. ASSUME NEW about \in 1 .. issued, wp_auth_require(about)
      PROVE  SessionsInv' /\ EndsForAReason
  <2>1. /\ SessionsType' /\ Keeps(about) /\ issued' = issued
        /\ \A i \in Slots : now_[i].in_use /\ ~Expired(now_[i]) /\ now_[i].token = about =>
              /\ s_sessions'[i].in_use /\ s_sessions'[i].token = about /\ ~Expired(s_sessions'[i])
              /\ s_sessions'[i].expires_in = SESSION_IDLE_TIMEOUT
    BY <1>0, <1>3, RequireStep
  <2>2. From(about, IF IdleFor(about) = Over THEN Over ELSE 0)
    BY <1>3 DEF wp_auth_require, RequestOf
  <2>3. SinceType' /\ \A token \in Tokens : token # about => since'[token] = IdleFor(token)
    BY <1>0, <2>2, SinceIs DEF From
  <2>4. ASSUME NEW i \in Slots PROVE Renewed(i, about)
    <3> SUFFICES ASSUME now_[i].in_use, ~Expired(now_[i]), now_[i].token = about
                 PROVE  since'[about] = 0
      BY <2>1 DEF Renewed
    <3>1. IdleFor(about) # Over /\ about \in Tokens
      BY NowLinked
    <3> QED BY <2>2, <3>1 DEF From
  <2>5. SessionsInv'
    BY <2>1, <2>3, <2>4, KeepsLinked
  <2>6. ASSUME NEW token \in 1 .. issued', NEW i \in Slots, now_[i].in_use, now_[i].token = token, ~Expired(now_[i])
        PROVE  Live(s_sessions', token)
    <3>1. CASE token = about
      BY <2>1, <2>6, <3>1 DEF Live
    <3>2. CASE token # about
      BY <2>1, <2>6, <3>2, OthersStay
    <3> QED BY <3>1, <3>2
  <2> QED BY <2>1, <2>5, <2>6, HasSlot, NothingReturns DEF EndsForAReason
<1>4. ASSUME NEW about \in 1 .. issued, logout_handler(about)
      PROVE  SessionsInv' /\ EndsForAReason
  <2>1. /\ SessionsType' /\ Keeps(about) /\ issued' = issued
        /\ \A i \in Slots : s_sessions'[i].in_use /\ ~Expired(s_sessions'[i]) =>
              s_sessions'[i].token # about
    BY <1>0, <1>4, LogoutStep
  <2>2. SinceType' /\ \A token \in Tokens : token # about => since'[token] = IdleFor(token)
    BY <1>0, <1>4, SinceIs DEF logout_handler, From
  <2>3. \A i \in Slots : Renewed(i, about)
    BY <2>1 DEF Keeps, Renewed
  <2>4. SessionsInv'
    BY <2>1, <2>2, <2>3, KeepsLinked
  <2>5. ASSUME NEW token \in 1 .. issued', ~logout_handler(token), NEW i \in Slots,
               now_[i].in_use, now_[i].token = token, ~Expired(now_[i])
        PROVE  Live(s_sessions', token)
    <3>1. token # about
      BY <1>4, <2>5
    <3> QED BY <2>1, <2>5, <3>1, OthersStay
  <2> QED BY <2>1, <2>4, <2>5, HasSlot, NothingReturns DEF EndsForAReason
<1> QED BY <1>1, <1>2, <1>3, <1>4 DEF Sessions

-----------------------------------------------------------------------------
(* The network: what its steps preserve. *)

Pending(c) == c.pc \in {"stop", "set_mode", "start"}
On(c) == HasAp(c.desired)
Other(t) == IF t = "timer" THEN "event" ELSE "timer"

(* A call has a mode exactly where it sets one, and each task has at most one call before the *)
(* driver.                                                                                    *)
CallsInv ==
    /\ \A t \in Tasks : (task(t).desired # "NULL") <=> (task(t).pc \in {"set_mode", "start"})
    /\ calls \in {<<>>, <<"timer">>, <<"event">>, <<"timer", "event">>, <<"event", "timer">>}
    /\ \A t \in Tasks : Pending(task(t)) <=> \E i \in 1 .. Len(calls) : calls[i] = t

(* Through the grace window nothing changes the mode, and the hotspot is on.  After it the    *)
(* policy's state says whether it counts a client.                                            *)
PolicyInv ==
    /\ s_grace_active => /\ s_state = "BOOT_GRACE" /\ timer_task = Idle /\ event_task = Idle
                         /\ ApOn
    /\ ~s_grace_active => /\ s_state # "BOOT_GRACE"
                          /\ s_state = "ACTIVE_BY_CLIENT" <=> s_client_count > 0

RadioInv == s_wifi_started = radio /\ (associated > 0 => ApOn)

(* What two calls in a row before the driver say of each other. *)
PairInv ==
    \A t \in Tasks : calls = <<Other(t), t>> =>
        /\ task(t).pc = "stop" => radio
        /\ task(t).pc = "start" /\ task(Other(t)).pc = "set_mode" => ~radio

(* A start is asked for right after the mode is set, and another mode since then comes with   *)
(* a start of its own.                                                                        *)
StartInv ==
    \A t \in Tasks :
        task(t).pc = "start" /\ ~(task(Other(t)).pc = "start" /\ calls = <<t, Other(t)>>) =>
            HasAp(wifi_mode) = On(task(t))

(* The hotspot is off once the driver has served these calls. *)
OffAfter ==
    \/ calls = <<>> /\ ~ApOn
    \/ \E t \in Tasks : /\ calls = <<t>>
                        /\ \/ task(t).pc = "stop"
                           \/ task(t).pc = "set_mode" /\ ~On(task(t))
                           \/ task(t).pc = "start" /\ ~HasAp(wifi_mode)
    \/ \E t \in Tasks :
          /\ calls = <<Other(t), t>>
          /\ \/ task(t).pc = "stop"
             \/ task(t).pc = "set_mode" /\ ~On(task(t))
             \/ /\ task(t).pc = "start"
                /\ IF task(Other(t)).pc = "set_mode" THEN ~On(task(Other(t))) ELSE ~HasAp(wifi_mode)

(* After the grace window the policy changes in the event task alone, and the timer task sets *)
(* the mode once.  Until then the mode is as the event task left it.                          *)
ModesInv ==
    ~s_grace_active /\ failures = 0 =>
        /\ Pending(event_task) => (On(event_task) <=> s_state = "ACTIVE_BY_CLIENT")
        /\ (timer_task.pc = "changed" \/ On(timer_task)) /\ event_task.pc = "idle"
              /\ s_state = "ACTIVE_BY_CLIENT" => ApOn
        /\ On(timer_task) /\ event_task.pc = "changed" /\ s_state = "OFF" => ApOn
        /\ s_state = "OFF" => event_task.pc = "changed" \/ timer_task.pc = "changed" \/ OffAfter

NetInv == CallsInv /\ PolicyInv /\ RadioInv /\ PairInv /\ StartInv /\ ModesInv

-----------------------------------------------------------------------------
(* The clients counted and the stations on the hotspot: the events in the queue lead from the *)
(* first number to the second, and never below none.                                          *)

Events == {"AP_STACONNECTED", "AP_STADISCONNECTED", "STA_START", "STA_DISCONNECTED", "GOT_IP"}

Effect(e) == IF e = "AP_STACONNECTED" THEN 1 ELSE IF e = "AP_STADISCONNECTED" THEN -1 ELSE 0

Leads(s, f) == f \in [0 .. Len(s) -> Nat] /\ \A i \in 1 .. Len(s) : f[i] = f[i - 1] + Effect(s[i])

Balanced(from, s, to) == \E f : Leads(s, f) /\ f[0] = from /\ f[Len(s)] = to

LEMMA BalancedEmpty ==
  ASSUME NEW a \in Nat, NEW c \in Nat
  PROVE  Balanced(a, <<>>, c) <=> a = c
<1>1. ASSUME a = c PROVE Balanced(a, <<>>, c)
  <2> DEFINE f == [i \in 0 .. 0 |-> a]
  <2>1. Leads(<<>>, f) /\ f[0] = a /\ f[Len(<<>>)] = a
    BY DEF Leads
  <2> QED BY <1>1, <2>1 DEF Balanced
<1>2. ASSUME Balanced(a, <<>>, c) PROVE a = c
  BY <1>2 DEF Balanced
<1> QED BY <1>1, <1>2

LEMMA BalancedOne ==
  ASSUME NEW e, NEW a \in Nat, NEW c \in Nat, c = a + Effect(e)
  PROVE  Balanced(a, <<e>>, c)
<1> DEFINE f == [i \in 0 .. 1 |-> IF i = 0 THEN a ELSE c]
<1>1. f \in [0 .. 1 -> Nat] /\ f[0] = a /\ f[1] = c
  OBVIOUS
<1> HIDE DEF f
<1>2. Leads(<<e>>, f)
  <2>1. Len(<<e>>) = 1 /\ <<e>>[1] = e
    OBVIOUS
  <2>2. \A i \in 1 .. 1 : i = 1 /\ i - 1 = 0
    OBVIOUS
  <2> QED BY <1>1, <2>1, <2>2 DEF Leads
<1> QED BY <1>1, <1>2 DEF Balanced

LEMMA BalancedConcat ==
  ASSUME NEW s \in Seq(Events), NEW r \in Seq(Events), NEW a, NEW b, NEW c,
         Balanced(a, s, b), Balanced(b, r, c)
  PROVE  Balanced(a, s \o r, c)
<1>1. PICK f : Leads(s, f) /\ f[0] = a /\ f[Len(s)] = b
  BY DEF Balanced
<1>2. PICK g : Leads(r, g) /\ g[0] = b /\ g[Len(r)] = c
  BY DEF Balanced
<1> DEFINE n == Len(s)
           m == Len(r)
           h == [i \in 0 .. n + m |-> IF i <= n THEN f[i] ELSE g[i - n]]
<1>3. n \in Nat /\ m \in Nat /\ Len(s \o r) = n + m
  OBVIOUS
<1>4. \A i \in 0 .. n + m : i <= n => h[i] = f[i]
  OBVIOUS
<1>5. \A i \in 0 .. n + m : i >= n => h[i] = g[i - n]
  <2>1. h[n] = f[n] /\ f[n] = g[0]
    BY <1>1, <1>2, <1>3
  <2>2. \A i \in 0 .. n + m : i > n => h[i] = g[i - n]
    BY <1>3
  <2>3. n - n = 0
    BY <1>3
  <2> QED BY <1>3, <2>1, <2>2, <2>3
<1>6. h \in [0 .. n + m -> Nat]
  <2>1. \A i \in 0 .. n : f[i] \in Nat
    BY <1>1 DEF Leads
  <2>2. \A i \in 0 .. m : g[i] \in Nat
    BY <1>2 DEF Leads
  <2>3. ASSUME NEW i \in 0 .. n + m PROVE h[i] \in Nat
    <3>1. CASE i <= n
      <4>1. i \in 0 .. n /\ h[i] = f[i]
        BY <1>3, <1>4, <3>1
      <4> QED BY <2>1, <4>1
    <3>2. CASE i > n
      <4>1. i - n \in 0 .. m /\ h[i] = g[i - n]
        BY <1>3, <1>5, <3>2
      <4> HIDE DEF h
      <4> QED BY <2>2, <4>1
    <3> QED BY <1>3, <3>1, <3>2
  <2> QED BY <2>3
<1>7. ASSUME NEW i \in 1 .. n + m PROVE h[i] = h[i - 1] + Effect((s \o r)[i])
  <2>1. CASE i <= n
    <3>1. h[i] = f[i] /\ h[i - 1] = f[i - 1] /\ (s \o r)[i] = s[i] /\ i \in 1 .. n
      BY <1>3, <1>4, <2>1
    <3> QED BY <1>1, <3>1 DEF Leads
  <2>2. CASE i > n
    <3>1. /\ h[i] = g[i - n] /\ h[i - 1] = g[(i - n) - 1] /\ (s \o r)[i] = r[i - n]
          /\ i - n \in 1 .. m
      <4>1. i - 1 \in 0 .. n + m /\ i - 1 >= n /\ (i - 1) - n = (i - n) - 1 /\ i - n \in 1 .. m
        BY <1>3, <2>2
      <4>2. h[i - 1] = g[(i - 1) - n]
        BY <1>5, <4>1
      <4>3. h[i] = g[i - n]
        BY <1>3, <1>5, <2>2
      <4>4. (s \o r)[i] = r[i - n]
        BY <1>3, <2>2
      <4> QED BY <4>1, <4>2, <4>3, <4>4
    <3> HIDE DEF h
    <3> QED BY <1>2, <3>1 DEF Leads
  <2> QED BY <1>3, <2>1, <2>2
<1>8. h[0] = a /\ h[n + m] = c
  <2>1. n + m >= n /\ (n + m) - n = m /\ n + m \in 0 .. n + m /\ 0 \in 0 .. n + m /\ 0 <= n
    BY <1>3
  <2> QED BY <1>1, <1>2, <1>4, <1>5, <2>1
<1> HIDE DEF h
<1>9. Leads(s \o r, h)
  BY <1>3, <1>6, <1>7 DEF Leads
<1> QED BY <1>3, <1>8, <1>9 DEF Balanced

LEMMA BalancedTail ==
  ASSUME NEW s \in Seq(Events), s # <<>>, NEW a \in Nat, NEW c, Balanced(a, s, c)
  PROVE  /\ a + Effect(Head(s)) \in Nat
         /\ Balanced(a + Effect(Head(s)), Tail(s), c)
<1>1. PICK f : Leads(s, f) /\ f[0] = a /\ f[Len(s)] = c
  BY DEF Balanced
<1> DEFINE n == Len(s)
           g == [i \in 0 .. n - 1 |-> f[i + 1]]
<1>2. n \in Nat \ {0} /\ Len(Tail(s)) = n - 1 /\ Tail(s) \in Seq(Events) /\ Head(s) = s[1]
  OBVIOUS
<1>3. f[1] = a + Effect(Head(s)) /\ f[1] \in Nat
  <2>1. 1 \in 1 .. n /\ 1 - 1 = 0 /\ 1 \in 0 .. n
    BY <1>2
  <2> QED BY <1>1, <1>2, <2>1 DEF Leads
<1>4. \A i \in 0 .. n - 1 : i + 1 \in 0 .. n /\ g[i] = f[i + 1]
  BY <1>2
<1>5. g \in [0 .. n - 1 -> Nat]
  BY <1>1, <1>4 DEF Leads
<1>6. ASSUME NEW i \in 1 .. n - 1 PROVE g[i] = g[i - 1] + Effect(Tail(s)[i])
  <2>1. i \in 0 .. n - 1 /\ i - 1 \in 0 .. n - 1 /\ (i - 1) + 1 = i /\ (i + 1) - 1 = i
        /\ i + 1 \in 1 .. n
    BY <1>2
  <2>2. Tail(s)[i] = s[i + 1]
    BY <1>2
  <2>3. g[i] = f[i + 1] /\ g[i - 1] = f[i]
    BY <1>4, <2>1
  <2> HIDE DEF g
  <2> QED BY <1>1, <2>1, <2>2, <2>3 DEF Leads
<1>7. g[0] = f[1] /\ g[n - 1] = c
  <2>1. 0 \in 0 .. n - 1 /\ n - 1 \in 0 .. n - 1 /\ 0 + 1 = 1 /\ (n - 1) + 1 = n
    BY <1>2
  <2> QED BY <1>1, <1>4, <2>1
<1> HIDE DEF g
<1>8. Leads(Tail(s), g)
  BY <1>2, <1>5, <1>6 DEF Leads
<1> QED BY <1>2, <1>3, <1>7, <1>8 DEF Balanced

LEMMA BalancedRepeat ==
  ASSUME NEW n \in Nat
  PROVE  /\ Repeat("AP_STADISCONNECTED", n) \in Seq(Events)
         /\ Balanced(n, Repeat("AP_STADISCONNECTED", n), 0)
<1> DEFINE s == Repeat("AP_STADISCONNECTED", n)
           f == [i \in 0 .. n |-> n - i]
<1>1. s \in Seq(Events) /\ Len(s) = n /\ \A i \in 1 .. n : s[i] = "AP_STADISCONNECTED"
  BY DEF Repeat, Events
<1>2. f \in [0 .. n -> Nat] /\ f[0] = n /\ f[n] = 0
  OBVIOUS
<1>3. \A i \in 1 .. n : f[i] = f[i - 1] + (-1)
  OBVIOUS
<1>4. Effect("AP_STADISCONNECTED") = -1
  BY DEF Effect
<1> HIDE DEF f, s
<1>5. Leads(s, f)
  BY <1>1, <1>2, <1>3, <1>4 DEF Leads
<1>6. Balanced(n, s, 0)
  BY <1>1, <1>2, <1>5 DEF Balanced
<1> QED BY <1>1, <1>6 DEF s

-----------------------------------------------------------------------------
(* The types of the network's variables *)

Modes == {"AP", "STA", "APSTA"}

PolicyType ==
    /\ transport \in {"wifi", "other"} /\ s_state \in {"BOOT_GRACE", "ACTIVE_BY_CLIENT", "OFF"}
    /\ s_grace_active \in BOOLEAN /\ s_client_count \in Nat
RadioType ==
    /\ s_wifi_started \in BOOLEAN /\ radio \in BOOLEAN /\ wifi_mode \in Modes
    /\ failures \in 0 .. MaxModeFailures
TasksType == timer_task \in Calls /\ event_task \in Calls
StaType ==
    /\ s_sta_connected \in BOOLEAN /\ s_sta_reconnect_timer \in BOOLEAN
    /\ sta_link \in {"down", "connecting", "up"} /\ dhcp \in BOOLEAN /\ reachable \in BOOLEAN
    /\ sta_configured \in BOOLEAN
StationsType == associated \in 0 .. MaxStations /\ events \in Seq(Events)

Balance == Balanced(s_client_count, events, associated)

NetType == PolicyType /\ RadioType /\ TasksType /\ StaType /\ StationsType

NInv == NetType /\ Balance /\ NetInv

LEMMA TypeParts == NInv /\ SessionsType /\ SinceType /\ moves \in 0 .. MaxMoves => TypeOK
<1>1. CallsInv => calls \in Seq(Tasks)
  <2>1. \A t \in Tasks, u \in Tasks : <<t, u>> \in Seq(Tasks) /\ <<t>> \in Seq(Tasks)
    OBVIOUS
  <2>2. <<>> \in Seq(Tasks) /\ "timer" \in Tasks /\ "event" \in Tasks
    BY DEF Tasks
  <2> QED BY <2>1, <2>2, Zenon DEF CallsInv
<1> QED
  BY <1>1, Zenon DEF NInv, NetType, NetInv, PolicyType, RadioType, TasksType, StaType, StationsType,
                     Events, Modes, SessionsType, SinceType, TypeOK

LEMMA NetFrame == NInv /\ UNCHANGED net_vars => NInv'
<1> SUFFICES ASSUME NInv, UNCHANGED net_vars PROVE NInv'
  OBVIOUS
<1>1. /\ UNCHANGED <<transport, s_state, s_grace_active, s_client_count, s_wifi_started, s_sta_connected>>
      /\ UNCHANGED <<s_sta_reconnect_timer, timer_task, event_task, failures, wifi_mode, radio, calls>>
      /\ UNCHANGED <<associated, sta_link, dhcp, events, reachable, sta_configured>>
  BY DEF net_vars, policy_vars, sta_vars, driver_vars
<1>2. NetType' /\ Balance'
  BY <1>1 DEF NInv, NetType, PolicyType, RadioType, TasksType, StaType, StationsType, Balance
<1>3. \A t : task(t)' = task(t)
  BY <1>1 DEF task
<1>4. CallsInv' /\ PolicyInv' /\ RadioInv' /\ PairInv' /\ StartInv'
  BY <1>1, <1>3 DEF NInv, NetInv, CallsInv, PolicyInv, RadioInv, PairInv, StartInv, Pending, On, ApOn
<1>5. OffAfter' = OffAfter
  BY <1>1, <1>3 DEF OffAfter, On, ApOn
<1>6. ModesInv'
  BY <1>1, <1>5 DEF NInv, NetInv, ModesInv, Pending, On, ApOn
<1> QED BY <1>2, <1>4, <1>6 DEF NInv, NetInv

-----------------------------------------------------------------------------
(* The two tasks and the calls they have before the driver *)

LEMMA TwoTasks ==
  ASSUME NEW t \in Tasks
  PROVE  /\ Other(t) \in Tasks /\ Other(Other(t)) = t /\ Other(t) # t
         /\ \A u \in Tasks : u = t \/ u = Other(t)
BY DEF Tasks, Other

LEMMA TaskGoesIs ==
  ASSUME NEW t \in Tasks, NEW call \in Calls, TasksType, TaskGoes(t, call)
  PROVE  TasksType' /\ task(t)' = call /\ task(Other(t))' = task(Other(t))
<1>1. CASE t = "timer"
  BY <1>1 DEF TaskGoes, task, Other, TasksType
<1>2. CASE t = "event"
  BY <1>2 DEF TaskGoes, task, Other, TasksType
<1> QED BY <1>1, <1>2 DEF Tasks

(* CallsInv, as a task sees it. *)
CallsAt(t) ==
    /\ (task(t).desired # "NULL") <=> (task(t).pc \in {"set_mode", "start"})
    /\ (task(Other(t)).desired # "NULL") <=> (task(Other(t)).pc \in {"set_mode", "start"})
    /\ \/ calls = <<>> /\ ~Pending(task(t)) /\ ~Pending(task(Other(t)))
       \/ calls = <<t>> /\ Pending(task(t)) /\ ~Pending(task(Other(t)))
       \/ calls = <<Other(t)>> /\ ~Pending(task(t)) /\ Pending(task(Other(t)))
       \/ calls = <<t, Other(t)>> /\ Pending(task(t)) /\ Pending(task(Other(t)))
       \/ calls = <<Other(t), t>> /\ Pending(task(t)) /\ Pending(task(Other(t)))

InList(c, v) == \E i \in 1 .. Len(c) : c[i] = v

(* The tasks in a list of calls, for the lists there are. *)
LEMMA InCalls ==
  ASSUME NEW t, NEW u, NEW v
  PROVE  /\ ~InList(<<>>, v)
         /\ InList(<<t>>, v) <=> v = t
         /\ InList(<<t, u>>, v) <=> v \in {t, u}
<1>1. Len(<<>>) = 0 /\ Len(<<t>>) = 1 /\ Len(<<t, u>>) = 2
  OBVIOUS
<1>2. <<t>>[1] = t /\ <<t, u>>[1] = t /\ <<t, u>>[2] = u
  OBVIOUS
<1>3. 1 .. 0 = {} /\ 1 .. 1 = {1} /\ 1 .. 2 = {1, 2}
  OBVIOUS
<1> QED BY <1>1, <1>2, <1>3, Zenon DEF InList

LEMMA CallsIs ==
  ASSUME NEW t \in Tasks
  PROVE  CallsInv <=> CallsAt(t)
<1> DEFINE o == Other(t)
           In(v) == InList(calls, v)
           Shapes == {<<>>, <<t>>, <<o>>, <<t, o>>, <<o, t>>}
<1>1. Tasks = {t, o} /\ t # o
  BY TwoTasks
<1>2. {<<>>, <<"timer">>, <<"event">>, <<"timer", "event">>, <<"event", "timer">>} = Shapes
  BY DEF Tasks, Other
<1>3. /\ calls = <<>> => ~In(t) /\ ~In(o)
      /\ calls = <<t>> => In(t) /\ ~In(o)
      /\ calls = <<o>> => ~In(t) /\ In(o)
      /\ calls = <<t, o>> => In(t) /\ In(o)
      /\ calls = <<o, t>> => In(t) /\ In(o)
  <2>1. calls = <<>> => ~In(t) /\ ~In(o)
    <3>1. ~InList(<<>>, t) /\ ~InList(<<>>, o)
      BY InCalls
    <3> QED BY <3>1
  <2>2. calls = <<t>> => In(t) /\ ~In(o)
    <3>1. InList(<<t>>, t) /\ ~InList(<<t>>, o)
      BY <1>1, InCalls
    <3> QED BY <3>1
  <2>3. calls = <<o>> => ~In(t) /\ In(o)
    <3>1. ~InList(<<o>>, t) /\ InList(<<o>>, o)
      BY <1>1, InCalls
    <3> QED BY <3>1
  <2>4. calls = <<t, o>> => In(t) /\ In(o)
    <3>1. InList(<<t, o>>, t) /\ InList(<<t, o>>, o)
      BY InCalls
    <3> QED BY <3>1
  <2>5. calls = <<o, t>> => In(t) /\ In(o)
    <3>1. InList(<<o, t>>, t) /\ InList(<<o, t>>, o)
      BY InCalls
    <3> QED BY <3>1
  <2> QED BY <2>1, <2>2, <2>3, <2>4, <2>5, Zenon
<1>4. CallsInv <=> /\ \A u \in {t, o} : (task(u).desired # "NULL") <=> (task(u).pc \in {"set_mode", "start"})
                   /\ calls \in Shapes
                   /\ \A u \in {t, o} : Pending(task(u)) <=> In(u)
  BY <1>1, <1>2, Zenon DEF CallsInv, InList
<1> HIDE DEF In, o
<1> QED BY <1>3, <1>4, Zenon DEF CallsAt, o

LEMMA CallsIsAfter ==
  ASSUME NEW t \in Tasks
  PROVE  CallsInv' <=> CallsAt(t)'
<1> DEFINE o == Other(t)
           In(v) == InList(calls', v)
           Shapes == {<<>>, <<t>>, <<o>>, <<t, o>>, <<o, t>>}
<1>1. Tasks = {t, o} /\ t # o
  BY TwoTasks
<1>2. {<<>>, <<"timer">>, <<"event">>, <<"timer", "event">>, <<"event", "timer">>} = Shapes
  BY DEF Tasks, Other
<1>3. /\ calls' = <<>> => ~In(t) /\ ~In(o)
      /\ calls' = <<t>> => In(t) /\ ~In(o)
      /\ calls' = <<o>> => ~In(t) /\ In(o)
      /\ calls' = <<t, o>> => In(t) /\ In(o)
      /\ calls' = <<o, t>> => In(t) /\ In(o)
  <2>1. calls' = <<>> => ~In(t) /\ ~In(o)
    <3>1. ~InList(<<>>, t) /\ ~InList(<<>>, o)
      BY InCalls
    <3> QED BY <3>1
  <2>2. calls' = <<t>> => In(t) /\ ~In(o)
    <3>1. InList(<<t>>, t) /\ ~InList(<<t>>, o)
      BY <1>1, InCalls
    <3> QED BY <3>1
  <2>3. calls' = <<o>> => ~In(t) /\ In(o)
    <3>1. ~InList(<<o>>, t) /\ InList(<<o>>, o)
      BY <1>1, InCalls
    <3> QED BY <3>1
  <2>4. calls' = <<t, o>> => In(t) /\ In(o)
    <3>1. InList(<<t, o>>, t) /\ InList(<<t, o>>, o)
      BY InCalls
    <3> QED BY <3>1
  <2>5. calls' = <<o, t>> => In(t) /\ In(o)
    <3>1. InList(<<o, t>>, t) /\ InList(<<o, t>>, o)
      BY InCalls
    <3> QED BY <3>1
  <2> QED BY <2>1, <2>2, <2>3, <2>4, <2>5, Zenon
<1>4. CallsInv' <=> /\ \A u \in {t, o} : (task(u)'.desired # "NULL") <=> (task(u)'.pc \in {"set_mode", "start"})
                    /\ calls' \in Shapes
                    /\ \A u \in {t, o} : Pending(task(u)') <=> In(u)
  BY <1>1, <1>2, Zenon DEF CallsInv, InList
<1> HIDE DEF In, o
<1> QED BY <1>3, <1>4, Zenon DEF CallsAt, o

LEMMA TwoInARow ==
  ASSUME NEW t, NEW u
  PROVE  Tail(<<t, u>>) = <<u>> /\ Append(<<u>>, t) = <<u, t>>
<1>1. <<t, u>> \in Seq({t, u}) /\ <<u>> \in Seq({t, u}) /\ <<u, t>> \in Seq({t, u})
  OBVIOUS
<1>2. Len(<<t, u>>) = 2 /\ Len(<<u>>) = 1 /\ Len(<<u, t>>) = 2
  OBVIOUS
<1>3. Tail(<<t, u>>) = <<u>>
  <2>1. Tail(<<t, u>>) \in Seq({t, u}) /\ Len(Tail(<<t, u>>)) = 1 /\ Tail(<<t, u>>)[1] = u
    BY <1>1, <1>2
  <2> QED BY <2>1
<1>4. Append(<<u>>, t) = <<u, t>>
  <2>1. Append(<<u>>, t) \in Seq({t, u}) /\ Len(Append(<<u>>, t)) = 2
        /\ Append(<<u>>, t)[1] = u /\ Append(<<u>>, t)[2] = t
    BY <1>1, <1>2
  <2> DEFINE a == Append(<<u>>, t)
             b == <<u, t>>
  <2>2. \A s \in Seq({t, u}) : Len(s) = 2 => s \in [1 .. 2 -> {t, u}]
    OBVIOUS
  <2>5. a \in [1 .. 2 -> {t, u}] /\ b \in [1 .. 2 -> {t, u}]
    BY <1>1, <1>2, <2>1, <2>2
  <2>3. a[1] = b[1] /\ a[2] = b[2] /\ 1 .. 2 = {1, 2}
    BY <2>1
  <2> HIDE DEF a, b
  <2>4. a = b
    BY <2>3, <2>5
  <2> QED BY <2>4 DEF a, b
<1> QED BY <1>3, <1>4

(* What the queue before the driver is, and becomes, when a task's call is served. *)
LEMMA ServedIs ==
  ASSUME NEW t \in Tasks, NEW pc \in {"stop", "set_mode", "start"}, CallsInv, Served(t, pc)
  PROVE  LET o == Other(t)
         IN  /\ Pending(task(t)) /\ task(t).pc = pc
             /\ \/ calls = <<t>> /\ ~Pending(task(o)) /\ Tail(calls) = <<>>
                   /\ Append(Tail(calls), t) = <<t>>
                \/ calls = <<t, o>> /\ Pending(task(o)) /\ Tail(calls) = <<o>>
                   /\ Append(Tail(calls), t) = <<o, t>>
<1> DEFINE o == Other(t)
<1>1. task(t).pc = pc /\ Pending(task(t)) /\ calls # <<>> /\ Head(calls) = t /\ t # o
  BY TwoTasks DEF Served, Pending
<1>2. CallsAt(t)
  BY CallsIs
<1>3. calls # <<o, t>> /\ calls # <<o>>
  BY <1>1
<1>4. \/ calls = <<t>> /\ ~Pending(task(o))
      \/ calls = <<t, o>> /\ Pending(task(o))
  BY <1>1, <1>2, <1>3, Zenon DEF CallsAt
<1>5. calls = <<t>> => Tail(calls) = <<>> /\ Append(Tail(calls), t) = <<t>>
  OBVIOUS
<1>6. calls = <<t, o>> => Tail(calls) = <<o>> /\ Append(Tail(calls), t) = <<o, t>>
  BY TwoInARow
<1> QED BY <1>1, <1>4, <1>5, <1>6, Zenon

(* And when a task that has no call makes one. *)
LEMMA QueueIs ==
  ASSUME NEW t \in Tasks, CallsInv, ~Pending(task(t))
  PROVE  LET o == Other(t)
         IN  \/ calls = <<>> /\ ~Pending(task(o)) /\ Append(calls, t) = <<t>>
             \/ calls = <<o>> /\ Pending(task(o)) /\ Append(calls, t) = <<o, t>>
<1> DEFINE o == Other(t)
<1>1. \/ calls = <<>> /\ ~Pending(task(o))
      \/ calls = <<o>> /\ Pending(task(o))
  BY CallsIs, Zenon DEF CallsAt
<1>2. calls = <<>> => Append(calls, t) = <<t>>
  OBVIOUS
<1>3. calls = <<o>> => Append(calls, t) = <<o, t>>
  BY TwoInARow
<1> QED BY <1>1, <1>2, <1>3, Zenon

(* What the driver does to the stations and their events. *)
LEMMA DriverIs ==
  ASSUME NEW mode \in Modes, NEW on \in BOOLEAN, DriverGoesTo(mode, on), NetType, Balance,
         s_client_count' = s_client_count
  PROVE  /\ wifi_mode' = mode /\ radio' = on
         /\ StationsType' /\ Balance'
         /\ associated' > 0 => on /\ HasAp(mode)
         /\ sta_link' \in {"down", "connecting", "up"} /\ dhcp' = dhcp
<1> DEFINE ap_ends  == ~(on /\ HasAp(mode))
           sta_ends == ~(on /\ HasSta(mode))
           starts   == ~StaOn /\ ~sta_ends
           gone == IF ap_ends THEN Repeat("AP_STADISCONNECTED", associated) ELSE <<>>
           lost == IF sta_ends /\ sta_link # "down" THEN <<"STA_DISCONNECTED">> ELSE <<>>
           begun == IF starts THEN <<"STA_START">> ELSE <<>>
<1>1. /\ wifi_mode' = mode /\ radio' = on
      /\ associated' = IF ap_ends THEN 0 ELSE associated
      /\ sta_link' = IF sta_ends THEN "down" ELSE sta_link
      /\ events' = events \o gone \o lost \o begun
      /\ dhcp' = dhcp
  BY Zenon DEF DriverGoesTo
<1>2. associated \in Nat /\ events \in Seq(Events) /\ sta_link \in {"down", "connecting", "up"}
      /\ associated \in 0 .. MaxStations /\ 0 \in 0 .. MaxStations
  BY NetworkAssumption DEF NetType, StationsType, StaType
<1>3. gone \in Seq(Events) /\ Balanced(associated, gone, associated')
  <2>1. CASE ap_ends
    <3>1. gone = Repeat("AP_STADISCONNECTED", associated) /\ associated' = 0
      BY <1>1, <2>1, Zenon
    <3> HIDE DEF gone
    <3> QED BY <1>2, <3>1, BalancedRepeat
  <2>2. CASE ~ap_ends
    <3>1. gone = <<>> /\ associated' = associated
      BY <1>1, <2>2, Zenon
    <3>2. <<>> \in Seq(Events)
      OBVIOUS
    <3> HIDE DEF gone
    <3> QED BY <3>2, <1>2, <3>1, BalancedEmpty
  <2> QED BY <2>1, <2>2, Zenon
<1>4. associated' \in Nat /\ associated' \in 0 .. MaxStations
  BY <1>1, <1>2
<1>5. lost \in Seq(Events) /\ begun \in Seq(Events)
  <2>1. <<>> \in Seq(Events) /\ <<"STA_DISCONNECTED">> \in Seq(Events) /\ <<"STA_START">> \in Seq(Events)
    BY DEF Events
  <2> QED BY <2>1, Zenon
<1>6. Balanced(associated', <<>>, associated') /\ Effect("STA_DISCONNECTED") = 0 /\ Effect("STA_START") = 0
  BY <1>4, BalancedEmpty DEF Effect
<1>7. Balanced(associated', lost, associated') /\ Balanced(associated', begun, associated')
  <2>1. \A x \in Nat : x = x + 0
    OBVIOUS
  <2>2. /\ Balanced(associated', <<"STA_DISCONNECTED">>, associated')
        /\ Balanced(associated', <<"STA_START">>, associated')
    BY <1>4, <1>6, <2>1, BalancedOne
  <2> QED BY <1>6, <2>2
<1> HIDE DEF gone, lost, begun
<1>8. /\ events \o gone \in Seq(Events)
      /\ (events \o gone) \o lost \in Seq(Events)
      /\ ((events \o gone) \o lost) \o begun \in Seq(Events)
  BY <1>2, <1>3, <1>5
<1>9. Balanced(s_client_count, events, associated)
  BY DEF Balance
<1>10. Balanced(s_client_count, events \o gone, associated')
  BY <1>2, <1>3, <1>9, BalancedConcat
<1>11. Balanced(s_client_count, (events \o gone) \o lost, associated')
  BY <1>5, <1>7, <1>8, <1>10, BalancedConcat
<1>12. Balanced(s_client_count, ((events \o gone) \o lost) \o begun, associated')
  BY <1>5, <1>7, <1>8, <1>11, BalancedConcat
<1>13. StationsType'
  BY <1>1, <1>4, <1>8 DEF StationsType
<1>14. Balance'
  BY <1>1, <1>12 DEF Balance
<1>15. associated' > 0 => on /\ HasAp(mode)
  BY <1>1, <1>2
<1>16. sta_link' \in {"down", "connecting", "up"}
  BY <1>1, <1>2
<1> QED BY <1>1, <1>13, <1>14, <1>15, <1>16

-----------------------------------------------------------------------------
(* PairInv, StartInv and OffAfter, as a task and the other one see them. *)

PairOf(t, o) ==
    calls = <<o, t>> => /\ task(t).pc = "stop" => radio
                        /\ task(t).pc = "start" /\ task(o).pc = "set_mode" => ~radio

StartOf(t, o) ==
    task(t).pc = "start" /\ ~(task(o).pc = "start" /\ calls = <<t, o>>) =>
        HasAp(wifi_mode) = On(task(t))

OffOne(t) ==
    /\ calls = <<t>>
    /\ \/ task(t).pc = "stop"
       \/ task(t).pc = "set_mode" /\ ~On(task(t))
       \/ task(t).pc = "start" /\ ~HasAp(wifi_mode)

OffTwo(o, t) ==
    /\ calls = <<o, t>>
    /\ \/ task(t).pc = "stop"
       \/ task(t).pc = "set_mode" /\ ~On(task(t))
       \/ /\ task(t).pc = "start"
          /\ IF task(o).pc = "set_mode" THEN ~On(task(o)) ELSE ~HasAp(wifi_mode)

OffFor(t, o) ==
    (calls = <<>> /\ ~ApOn) \/ OffOne(t) \/ OffOne(o) \/ OffTwo(o, t) \/ OffTwo(t, o)

LEMMA ByTasks ==
  ASSUME NEW t \in Tasks, NEW o, o = Other(t)
  PROVE  /\ PairInv <=> PairOf(t, o) /\ PairOf(o, t)
         /\ StartInv <=> StartOf(t, o) /\ StartOf(o, t)
         /\ OffAfter <=> OffFor(t, o)
<1>1. Tasks = {t, o} /\ Other(o) = t
  BY TwoTasks
<1>2. PairInv <=> \A u \in {t, o} : PairOf(u, Other(u))
  BY <1>1, Zenon DEF PairInv, PairOf
<1>3. StartInv <=> \A u \in {t, o} : StartOf(u, Other(u))
  BY <1>1, Zenon DEF StartInv, StartOf
<1>4. OffAfter <=> \/ calls = <<>> /\ ~ApOn
                   \/ \E u \in {t, o} : OffOne(u)
                   \/ \E u \in {t, o} : OffTwo(Other(u), u)
  BY <1>1, Zenon DEF OffAfter, OffOne, OffTwo
<1> QED BY <1>1, <1>2, <1>3, <1>4, Zenon DEF OffFor

LEMMA ByTasksAfter ==
  ASSUME NEW t \in Tasks, NEW o, o = Other(t)
  PROVE  /\ PairInv' <=> PairOf(t, o)' /\ PairOf(o, t)'
         /\ StartInv' <=> StartOf(t, o)' /\ StartOf(o, t)'
         /\ OffAfter' <=> OffFor(t, o)'
<1>1. Tasks = {t, o} /\ Other(o) = t
  BY TwoTasks
<1>2. PairInv' <=> \A u \in {t, o} : PairOf(u, Other(u))'
  BY <1>1, Zenon DEF PairInv, PairOf
<1>3. StartInv' <=> \A u \in {t, o} : StartOf(u, Other(u))'
  BY <1>1, Zenon DEF StartInv, StartOf
<1>4. OffAfter' <=> \/ calls' = <<>> /\ ~ApOn'
                    \/ \E u \in {t, o} : OffOne(u)'
                    \/ \E u \in {t, o} : OffTwo(Other(u), u)'
  BY <1>1, Zenon DEF OffAfter, OffOne, OffTwo
<1> QED BY <1>1, <1>2, <1>3, <1>4, Zenon DEF OffFor

LEMMA TaskIs ==
  ASSUME TasksType, NEW t \in Tasks
  PROVE  /\ task(t) \in Calls
         /\ task(t).pc \in {"idle", "changed", "stop", "set_mode", "start"}
         /\ task(t).desired \in {"NULL", "AP", "STA", "APSTA"}
BY DEF TasksType, task, Calls

LEMMA CallIs ==
  ASSUME NEW p \in {"idle", "changed", "stop", "set_mode", "start"},
         NEW d \in {"NULL", "AP", "STA", "APSTA"}
  PROVE  [pc |-> p, desired |-> d] \in Calls
BY DEF Calls

LEMMA IdleIs == Idle \in Calls /\ Idle.pc = "idle" /\ Idle.desired = "NULL" /\ ~Pending(Idle) /\ ~On(Idle)
BY DEF Idle, Calls, Pending, On, HasAp

(* The task sees the calls before the driver; what becomes of them when it makes one. *)
LEMMA DecidedStep ==
  ASSUME NInv, NEW t \in Tasks, ModeDecided(t)
  PROVE  /\ NetType' /\ Balance' /\ CallsInv' /\ PolicyInv' /\ RadioInv'
         /\ task(Other(t))' = task(Other(t))
         /\ \/ /\ task(t)' = Idle /\ calls' = calls
               /\ (s_state = "OFF") => ~ApOn
               /\ (s_state # "OFF") => ApOn
            \/ /\ calls' = Append(calls, t) /\ Pending(task(t)')
               /\ task(t)'.pc = "stop" => radio
               /\ task(t)'.pc \in {"stop", "set_mode"}
               /\ On(task(t)') <=> s_state # "OFF"
<1> DEFINE o == Other(t)
           desired == compute_desired_mode
           pc == IF desired = "NULL" THEN (IF s_wifi_started THEN "stop" ELSE "idle")
                 ELSE IF s_wifi_started /\ wifi_mode = desired THEN "idle" ELSE "set_mode"
<1>1. /\ task(t).pc = "changed"
      /\ IF pc = "idle" THEN TaskGoes(t, Idle) /\ UNCHANGED calls
                        ELSE TaskGoes(t, [pc |-> pc, desired |-> desired]) /\ calls' = Append(calls, t)
  BY Zenon DEF ModeDecided, Call
<1>2. /\ UNCHANGED <<transport, s_state, s_grace_active, s_client_count, s_wifi_started>>
      /\ UNCHANGED <<s_sta_connected, s_sta_reconnect_timer, failures, wifi_mode, radio>>
      /\ UNCHANGED <<associated, sta_link, dhcp, events, reachable, sta_configured>>
  BY DEF ModeDecided, policy_vars, sta_vars
<1>3. TasksType /\ CallsInv /\ s_wifi_started = radio /\ radio \in BOOLEAN
  BY DEF NInv, NetType, NetInv, RadioInv, RadioType
<1>4. /\ desired \in {"NULL", "AP", "STA", "APSTA"}
      /\ HasAp(desired) <=> s_state # "OFF"
      /\ pc \in {"idle", "stop", "set_mode"}
      /\ (pc = "stop") => desired = "NULL" /\ radio
      /\ (pc = "set_mode") => desired # "NULL"
      /\ (pc = "idle") => \/ desired = "NULL" /\ ~radio
                          \/ radio /\ wifi_mode = desired
  BY <1>3 DEF compute_desired_mode, HasAp
<1> HIDE DEF pc, desired
<1>5. [pc |-> pc, desired |-> desired] \in Calls /\ Idle \in Calls /\ Idle.pc = "idle" /\ Idle.desired = "NULL"
  BY <1>4, CallIs, IdleIs
<1>6. TasksType' /\ task(o)' = task(o)
  BY <1>1, <1>3, <1>5, TaskGoesIs
<1>7. \/ pc = "idle" /\ task(t)' = Idle /\ calls' = calls
      \/ pc # "idle" /\ task(t)' = [pc |-> pc, desired |-> desired] /\ calls' = Append(calls, t)
  BY <1>1, <1>3, <1>5, TaskGoesIs
<1>8. task(t)' = [pc |-> pc, desired |-> desired] => task(t)'.pc = pc /\ task(t)'.desired = desired
  OBVIOUS
<1>9. ~Pending(task(t)) /\ CallsAt(t) /\ ~s_grace_active
  <2>1. ~Pending(task(t)) /\ task(t) # Idle
    BY <1>1, <1>5 DEF Pending
  <2>2. s_grace_active => task(t) = Idle
    BY DEF NInv, NetInv, PolicyInv, task
  <2> QED BY <1>3, <2>1, <2>2, CallsIs
<1>10. CallsInv'
  <2>1. \/ calls = <<>> /\ ~Pending(task(o)) /\ Append(calls, t) = <<t>>
        \/ calls = <<o>> /\ Pending(task(o)) /\ Append(calls, t) = <<o, t>>
    BY <1>3, <1>9, QueueIs
  <2>2. (task(o)'.desired # "NULL") <=> (task(o)'.pc \in {"set_mode", "start"})
    BY <1>6, <1>9 DEF CallsAt
  <2>3. (task(t)'.desired # "NULL") <=> (task(t)'.pc \in {"set_mode", "start"})
    BY <1>4, <1>5, <1>7, <1>8
  <2>4. Pending(task(t)') <=> pc # "idle"
    BY <1>4, <1>5, <1>7, <1>8 DEF Pending
  <2>5. Pending(task(o)') <=> Pending(task(o))
    BY <1>6
  <2>6. CallsAt(t)'
    BY <1>7, <2>1, <2>2, <2>3, <2>4, <2>5, Zenon DEF CallsAt
  <2> QED BY <2>6, CallsIsAfter
<1>11. NetType' /\ Balance' /\ RadioInv'
  BY <1>2, <1>6 DEF NInv, NetType, PolicyType, RadioType, StaType, StationsType, Balance, NetInv, RadioInv, ApOn
<1>12. PolicyInv'
  BY <1>2, <1>9 DEF NInv, NetInv, PolicyInv
<1>13. CASE pc = "idle"
  <2>1. (s_state = "OFF" => ~ApOn) /\ (s_state # "OFF" => ApOn)
    BY <1>4, <1>13 DEF ApOn, HasAp
  <2> QED BY <1>6, <1>7, <1>10, <1>11, <1>12, <1>13, <2>1
<1>14. CASE pc # "idle"
  <2>1. task(t)'.pc = pc /\ task(t)'.desired = desired /\ calls' = Append(calls, t)
    BY <1>7, <1>8, <1>14
  <2>2. Pending(task(t)')
    BY <1>4, <1>14, <2>1 DEF Pending
  <2>3. On(task(t)') <=> s_state # "OFF"
    BY <1>4, <2>1, Zenon DEF On
  <2> QED BY <1>4, <1>6, <1>10, <1>11, <1>12, <1>14, <2>1, <2>2, <2>3
<1> QED BY <1>13, <1>14

(* A call that is served, and is the last one of the change of mode. *)
LEMMA ReturnIs ==
  ASSUME NEW t \in Tasks, NEW pc \in {"stop", "set_mode", "start"}, CallsInv, TasksType,
         Served(t, pc), Return(t)
  PROVE  LET o == Other(t)
         IN  /\ TasksType' /\ CallsInv'
             /\ task(t).pc = pc /\ task(t)' = Idle /\ task(o)' = task(o)
             /\ \/ calls = <<t>> /\ calls' = <<>>
                \/ calls = <<t, o>> /\ calls' = <<o>>
<1> DEFINE o == Other(t)
<1>1. TaskGoes(t, Idle) /\ calls' = Tail(calls)
  BY DEF Return
<1>2. TasksType' /\ task(t)' = Idle /\ task(o)' = task(o)
  BY <1>1, IdleIs, TaskGoesIs
<1>3. /\ task(t).pc = pc
      /\ \/ calls = <<t>> /\ calls' = <<>> /\ ~Pending(task(o))
         \/ calls = <<t, o>> /\ calls' = <<o>> /\ Pending(task(o))
  BY <1>1, ServedIs
<1>4. CallsAt(t)
  BY CallsIs
<1>5. Idle.desired = "NULL" /\ Idle.pc \notin {"set_mode", "start"} /\ ~Pending(Idle)
  BY IdleIs
<1>6. CallsAt(t)'
  BY <1>2, <1>3, <1>4, <1>5, Zenon DEF CallsAt
<1>7. CallsInv'
  BY <1>6, CallsIsAfter
<1> QED BY <1>2, <1>3, <1>7, Zenon

(* The mode is set while the radio is off: the start comes next. *)
LEMMA GoesOnIs ==
  ASSUME NEW t \in Tasks, CallsInv, TasksType, Served(t, "set_mode"),
         Call(t, "start", task(t).desired, Tail(calls))
  PROVE  LET o == Other(t)
         IN  /\ TasksType' /\ CallsInv'
             /\ task(t)'.pc = "start" /\ task(t)'.desired = task(t).desired /\ task(o)' = task(o)
             /\ \/ calls = <<t>> /\ calls' = <<t>>
                \/ calls = <<t, o>> /\ calls' = <<o, t>>
<1> DEFINE o == Other(t)
           call == [pc |-> "start", desired |-> task(t).desired]
<1>1. TaskGoes(t, call) /\ calls' = Append(Tail(calls), t)
  BY DEF Call
<1>2. call \in Calls /\ call.pc = "start" /\ call.desired = task(t).desired
  BY TaskIs, CallIs
<1> HIDE DEF call
<1>3. TasksType' /\ task(t)' = call /\ task(o)' = task(o)
  BY <1>1, <1>2, TaskGoesIs
<1>4. /\ task(t).pc = "set_mode"
      /\ \/ calls = <<t>> /\ calls' = <<t>> /\ ~Pending(task(o))
         \/ calls = <<t, o>> /\ calls' = <<o, t>> /\ Pending(task(o))
  BY <1>1, ServedIs
<1>5. CallsAt(t)
  BY CallsIs
<1>6. Pending(call)
  BY <1>2 DEF Pending
<1>7. task(t).desired # "NULL"
  BY <1>4, <1>5 DEF CallsAt
<1>8. call.desired # "NULL" /\ call.pc \in {"set_mode", "start"}
  BY <1>2, <1>7
<1>9. CallsAt(t)'
  BY <1>3, <1>4, <1>5, <1>6, <1>8, Zenon DEF CallsAt
<1>10. CallsInv'
  BY <1>9, CallsIsAfter
<1> QED BY <1>2, <1>3, <1>4, <1>10, Zenon

(* No call is before the driver in the grace window. *)
LEMMA GraceOver ==
  ASSUME NInv, NEW t \in Tasks, task(t) # Idle
  PROVE  ~s_grace_active
BY DEF NInv, NetInv, PolicyInv, task

(* What a call that is served does, whatever it is. *)
LEMMA ServedStep ==
  ASSUME NInv, NEW t \in Tasks, NEW pc \in {"stop", "set_mode", "start"}, Served(t, pc),
         TasksType', CallsInv',
         UNCHANGED <<transport, policy_vars, sta_vars, reachable, sta_configured>>,
         failures' \in 0 .. MaxModeFailures,
         \/ UNCHANGED <<wifi_mode, radio, s_wifi_started, associated, sta_link, dhcp, events>>
         \/ \E mode \in Modes, on \in BOOLEAN : DriverGoesTo(mode, on) /\ s_wifi_started' = on
  PROVE  ~s_grace_active /\ NetType' /\ Balance' /\ PolicyInv' /\ RadioInv'
<1>1. /\ UNCHANGED <<transport, s_state, s_grace_active, s_client_count, s_sta_connected>>
      /\ UNCHANGED <<s_sta_reconnect_timer, reachable, sta_configured>>
  BY DEF policy_vars, sta_vars
<1>2. ~s_grace_active
  <2>1. task(t) # Idle
    BY IdleIs DEF Served
  <2> QED BY <2>1, GraceOver
<1>3. PolicyInv' /\ PolicyType'
  BY <1>1, <1>2 DEF NInv, NetInv, NetType, PolicyInv, PolicyType
<1>4. NetType /\ Balance
  BY DEF NInv
<1>5. CASE UNCHANGED <<wifi_mode, radio, s_wifi_started, associated, sta_link, dhcp, events>>
  BY <1>1, <1>2, <1>3, <1>5
     DEF NInv, NetInv, NetType, RadioType, StaType, StationsType, Balance, RadioInv, ApOn
<1>6. ASSUME NEW mode \in Modes, NEW on \in BOOLEAN, DriverGoesTo(mode, on), s_wifi_started' = on
      PROVE  NetType' /\ Balance' /\ RadioInv'
  <2>1. /\ wifi_mode' = mode /\ radio' = on
        /\ StationsType' /\ Balance'
        /\ associated' > 0 => on /\ HasAp(mode)
        /\ sta_link' \in {"down", "connecting", "up"} /\ dhcp' = dhcp
    BY <1>1, <1>4, <1>6, DriverIs
  <2>2. RadioType'
    BY <1>6, <2>1 DEF RadioType
  <2>3. StaType'
    BY <1>1, <1>4, <2>1 DEF NetType, StaType
  <2>4. RadioInv'
    BY <1>6, <2>1 DEF RadioInv, ApOn
  <2> QED BY <1>3, <2>1, <2>2, <2>3, <2>4 DEF NetType
<1> QED BY <1>2, <1>3, <1>5, <1>6

LEMMA Distinct ==
  ASSUME NEW t, NEW o, t # o
  PROVE  /\ <<t>> # <<>> /\ <<o>> # <<>> /\ <<t, o>> # <<>> /\ <<o, t>> # <<>>
         /\ <<t>> # <<o>> /\ <<t>> # <<t, o>> /\ <<t>> # <<o, t>>
         /\ <<o>> # <<t, o>> /\ <<o>> # <<o, t>> /\ <<t, o>> # <<o, t>>
<1>1. Len(<<>>) = 0 /\ Len(<<t>>) = 1 /\ Len(<<o>>) = 1 /\ Len(<<t, o>>) = 2 /\ Len(<<o, t>>) = 2
  OBVIOUS
<1>2. <<t>>[1] = t /\ <<o>>[1] = o /\ <<t, o>>[1] = t /\ <<o, t>>[1] = o
  OBVIOUS
<1> QED BY <1>1, <1>2

(* When the driver is done with a call, nothing else has changed the mode in between. *)
LEMMA ReturnKeeps ==
  ASSUME NInv, NEW t \in Tasks, NEW o, o = Other(t), Pending(task(t)),
         task(t)' = Idle, task(o)' = task(o),
         \/ calls = <<t>> /\ calls' = <<>>
         \/ calls = <<t, o>> /\ calls' = <<o>>,
         \/ task(t).pc = "set_mode" /\ radio = TRUE
         \/ wifi_mode' = wifi_mode
  PROVE  PairInv' /\ StartInv'
<1>1. o \in Tasks /\ o # t /\ PairOf(o, t) /\ StartOf(o, t) /\ CallsAt(t)
  BY TwoTasks, ByTasks, CallsIs DEF NInv, NetInv
<1>2. calls' # <<o, t>> /\ calls' # <<t, o>> /\ calls # <<o, t>>
  BY <1>1, Distinct
<1>3. PairOf(t, o)' /\ PairOf(o, t)'
  BY <1>2 DEF PairOf
<1>4. StartOf(t, o)'
  BY IdleIs DEF StartOf
<1>5. ASSUME task(o).pc = "start", wifi_mode' = wifi_mode PROVE HasAp(wifi_mode') = On(task(o))
  BY <1>1, <1>2, <1>5 DEF StartOf
<1>6. ~(task(o).pc = "start" /\ task(t).pc = "set_mode" /\ radio)
  <2>1. calls = <<t>> => ~Pending(task(o))
    BY <1>1, Distinct DEF CallsAt
  <2> QED BY <1>1, <2>1 DEF PairOf, Pending
<1>7. StartOf(o, t)'
  BY <1>5, <1>6 DEF StartOf
<1> QED BY <1>1, <1>3, <1>4, <1>7, ByTasksAfter

(* What the last call of a change of mode does to the radio and its mode. *)
Returns(t) ==
    \/ task(t).pc = "stop" /\ wifi_mode' = wifi_mode /\ radio' = FALSE
    \/ task(t).pc = "set_mode" /\ wifi_mode' = task(t).desired /\ radio' = TRUE /\ radio = TRUE
    \/ task(t).pc = "start" /\ wifi_mode' = wifi_mode /\ radio' = TRUE

LEMMA OffOneReturns ==
  ASSUME NEW t, OffOne(t), Returns(t), calls' = <<>>
  PROVE  calls' = <<>> /\ ~ApOn'
BY DEF OffOne, Returns, On, ApOn

LEMMA OffTwoReturns ==
  ASSUME NEW t, NEW o, OffTwo(t, o), Returns(t), calls' = <<o>>, task(o)' = task(o)
  PROVE  OffOne(o)'
BY DEF OffTwo, OffOne, Returns, On

LEMMA ReturnModes ==
  ASSUME NInv, NEW t \in Tasks, NEW o, o = Other(t), Pending(task(t)), Returns(t),
         task(t)' = Idle, task(o)' = task(o),
         \/ calls = <<t>> /\ calls' = <<>>
         \/ calls = <<t, o>> /\ calls' = <<o>>,
         ~s_grace_active, UNCHANGED <<s_state, s_grace_active, failures>>
  PROVE  ModesInv'
<1> SUFFICES ASSUME failures = 0 PROVE ModesInv'
  BY DEF ModesInv
<1>1. /\ Pending(event_task) => (On(event_task) <=> s_state = "ACTIVE_BY_CLIENT")
      /\ (timer_task.pc = "changed" \/ On(timer_task)) /\ event_task.pc = "idle"
            /\ s_state = "ACTIVE_BY_CLIENT" => ApOn
      /\ On(timer_task) /\ event_task.pc = "changed" /\ s_state = "OFF" => ApOn
      /\ s_state = "OFF" => event_task.pc = "changed" \/ timer_task.pc = "changed" \/ OffAfter
  BY DEF NInv, NetInv, ModesInv
<1>2. o \in Tasks /\ o # t /\ t = Other(o) /\ StartOf(t, o) /\ StartOf(o, t) /\ CallsAt(t)
  BY TwoTasks, ByTasks, CallsIs DEF NInv, NetInv
<1>3. calls \in {<<t>>, <<t, o>>} /\ calls # <<>> /\ calls # <<o>> /\ calls # <<o, t>> /\ <<t>> # <<t, o>>
  BY <1>2, Distinct
<1>4. OffAfter => OffAfter'
  <2> SUFFICES ASSUME OffAfter PROVE OffAfter'
    OBVIOUS
  <2>1. OffFor(t, o)
    BY ByTasks
  <2>2. (OffOne(t) /\ calls = <<t>>) \/ (OffTwo(t, o) /\ calls = <<t, o>>)
    BY <1>3, <2>1 DEF OffFor, OffOne, OffTwo
  <2>3. OffFor(t, o)'
    BY <1>3, <2>2, OffOneReturns, OffTwoReturns DEF OffFor
  <2> QED BY <2>3, ByTasksAfter
<1>5. CASE t = "timer"
  <2>1. timer_task = task(t) /\ event_task = task(o) /\ timer_task' = Idle /\ event_task' = event_task
    BY <1>5 DEF task, Other
  <2>2. timer_task.pc # "changed"
    BY <2>1 DEF Pending
  <2> QED BY <1>1, <1>4, <2>1, <2>2, IdleIs DEF ModesInv
<1>6. CASE t = "event"
  <2>1. event_task = task(t) /\ timer_task = task(o) /\ event_task' = Idle /\ timer_task' = timer_task
    BY <1>6 DEF task, Other
  <2>2. event_task.pc # "changed"
    BY <2>1 DEF Pending
  <2>3. ASSUME timer_task.pc = "changed" \/ On(timer_task), s_state = "ACTIVE_BY_CLIENT" PROVE ApOn'
    <3>1. On(event_task) /\ event_task.pc # "stop"
      BY <1>1, <1>2, <2>1, <2>3 DEF CallsAt, On, HasAp
    <3>2. CASE event_task.pc = "set_mode"
      BY <2>1, <3>1, <3>2 DEF Returns, ApOn, On
    <3>3. CASE event_task.pc = "start"
      <4>1. HasAp(wifi_mode)
        BY <1>2, <1>3, <2>1, <2>3, <3>1, <3>3 DEF StartOf
      <4> QED BY <2>1, <3>3, <4>1 DEF Returns, ApOn
    <3> QED BY <2>1, <3>1, <3>2, <3>3 DEF Pending
  <2> QED BY <1>1, <1>4, <2>1, <2>2, <2>3, IdleIs DEF ModesInv
<1> QED BY <1>5, <1>6 DEF Tasks

(* The mode is set and the start is still to come: another call may come in between. *)
LEMMA GoesOnKeeps ==
  ASSUME NInv, NEW t \in Tasks, NEW o, o = Other(t), task(t).pc = "set_mode",
         radio = FALSE, radio' = FALSE, wifi_mode' = task(t).desired,
         task(t)'.pc = "start", task(t)'.desired = task(t).desired, task(o)' = task(o),
         \/ calls = <<t>> /\ calls' = <<t>>
         \/ calls = <<t, o>> /\ calls' = <<o, t>>,
         ~s_grace_active, UNCHANGED <<s_state, s_grace_active, failures>>
  PROVE  PairInv' /\ StartInv' /\ ModesInv'
<1>1. o \in Tasks /\ o # t /\ t = Other(o) /\ PairOf(o, t) /\ StartOf(o, t) /\ CallsAt(t)
  BY TwoTasks, ByTasks, CallsIs DEF NInv, NetInv
<1>2. /\ calls # <<>> /\ calls # <<o>> /\ calls # <<o, t>> /\ calls' # <<t, o>> /\ <<t>> # <<t, o>>
      /\ <<t>> # <<o, t>>
  BY <1>1, Distinct
<1>3. calls = <<t>> => ~Pending(task(o))
  BY <1>1, Distinct DEF CallsAt
<1>4. PairInv'
  <2>1. PairOf(t, o)'
    BY DEF PairOf
  <2>2. PairOf(o, t)'
    BY <1>2 DEF PairOf
  <2> QED BY <2>1, <2>2, ByTasksAfter
<1>5. StartInv'
  <2>1. StartOf(t, o)'
    BY DEF StartOf, On
  <2>2. StartOf(o, t)'
    BY <1>3 DEF StartOf, Pending
  <2> QED BY <2>1, <2>2, ByTasksAfter
<1>6. OffAfter => OffAfter'
  <2> SUFFICES ASSUME OffAfter PROVE OffAfter'
    OBVIOUS
  <2>1. OffFor(t, o)
    BY ByTasks
  <2>2. (OffOne(t) /\ calls = <<t>>) \/ (OffTwo(t, o) /\ calls = <<t, o>>)
    BY <1>2, <2>1 DEF OffFor, OffOne, OffTwo
  <2>3. CASE OffOne(t) /\ calls = <<t>>
    <3>1. OffOne(t)'
      BY <1>2, <2>3 DEF OffOne, On
    <3> QED BY <3>1, ByTasksAfter DEF OffFor
  <2>4. CASE OffTwo(t, o) /\ calls = <<t, o>>
    <3>1. task(o).pc # "stop"
      BY <1>1, <2>4 DEF PairOf
    <3>2. OffTwo(o, t)'
      BY <1>2, <2>4, <3>1 DEF OffTwo, On
    <3> QED BY <3>2, ByTasksAfter DEF OffFor
  <2> QED BY <2>2, <2>3, <2>4
<1>7. ModesInv'
  <2> SUFFICES ASSUME failures = 0 PROVE ModesInv'
    BY DEF ModesInv
  <2>1. /\ Pending(event_task) => (On(event_task) <=> s_state = "ACTIVE_BY_CLIENT")
        /\ (timer_task.pc = "changed" \/ On(timer_task)) /\ event_task.pc = "idle"
              => s_state # "ACTIVE_BY_CLIENT"
        /\ On(timer_task) /\ event_task.pc = "changed" => s_state # "OFF"
        /\ s_state = "OFF" => event_task.pc = "changed" \/ timer_task.pc = "changed" \/ OffAfter
    BY DEF NInv, NetInv, ModesInv, ApOn
  <2>2. On(task(t)') <=> On(task(t))
    BY DEF On
  <2>3. CASE t = "timer"
    <3>1. timer_task = task(t) /\ event_task = task(o) /\ timer_task' = task(t)' /\ event_task' = event_task
      BY <2>3 DEF task, Other
    <3> QED BY <1>6, <2>1, <2>2, <3>1 DEF ModesInv
  <2>4. CASE t = "event"
    <3>1. event_task = task(t) /\ timer_task = task(o) /\ event_task' = task(t)' /\ timer_task' = timer_task
      BY <2>4 DEF task, Other
    <3>2. Pending(event_task)
      BY <3>1 DEF Pending
    <3> QED BY <1>6, <2>1, <2>2, <3>1, <3>2 DEF ModesInv
  <2> QED BY <2>3, <2>4 DEF Tasks
<1> QED BY <1>4, <1>5, <1>7

(* The task has decided that the mode is right as it is. *)
LEMMA DecidedIdle ==
  ASSUME NInv, NEW t \in Tasks, NEW o, o = Other(t), task(t).pc = "changed",
         task(t)' = Idle, task(o)' = task(o), UNCHANGED <<calls, wifi_mode, radio>>,
         s_state = "OFF" => ~ApOn, s_state # "OFF" => ApOn,
         ~s_grace_active, UNCHANGED <<s_state, s_grace_active, failures>>
  PROVE  PairInv' /\ StartInv' /\ ModesInv'
<1>1. o \in Tasks /\ o # t /\ t = Other(o) /\ PairOf(o, t) /\ StartOf(o, t) /\ CallsAt(t)
  BY TwoTasks, ByTasks, CallsIs DEF NInv, NetInv
<1>2. ~Pending(task(t))
  BY DEF Pending
<1>3. (calls = <<>> /\ ~Pending(task(o))) \/ (calls = <<o>> /\ Pending(task(o)))
  BY <1>1, <1>2 DEF CallsAt
<1>4. calls # <<o, t>> /\ calls # <<t, o>>
  BY <1>1, <1>3, Distinct
<1>5. PairInv'
  <2>1. PairOf(t, o)' /\ PairOf(o, t)'
    BY <1>4 DEF PairOf
  <2> QED BY <2>1, ByTasksAfter
<1>6. task(o).pc = "start" => HasAp(wifi_mode) = On(task(o))
  BY <1>1 DEF StartOf
<1>7. StartInv'
  <2>1. StartOf(t, o)'
    BY IdleIs DEF StartOf
  <2>2. StartOf(o, t)'
    BY <1>6 DEF StartOf
  <2> QED BY <2>1, <2>2, ByTasksAfter
<1>8. ModesInv'
  <2> SUFFICES ASSUME failures = 0 PROVE ModesInv'
    BY DEF ModesInv
  <2>1. /\ Pending(event_task) => (On(event_task) <=> s_state = "ACTIVE_BY_CLIENT")
        /\ (timer_task.pc = "changed" \/ On(timer_task)) /\ event_task.pc = "idle"
              /\ s_state = "ACTIVE_BY_CLIENT" => ApOn
        /\ On(timer_task) /\ event_task.pc = "changed" /\ s_state = "OFF" => ApOn
    BY DEF NInv, NetInv, ModesInv
  <2>2. ASSUME s_state = "OFF", ~On(task(o)) PROVE OffAfter'
    <3>1. OffFor(t, o)'
      BY <1>3, <1>6, <2>2 DEF OffFor, OffOne, ApOn, Pending, On
    <3> QED BY <3>1, ByTasksAfter
  <2>3. CASE t = "timer"
    <3>1. timer_task = task(t) /\ event_task = task(o) /\ timer_task' = Idle /\ event_task' = event_task
      BY <2>3 DEF task, Other
    <3>2. ~Pending(task(o)) => ~On(task(o))
      BY <1>1 DEF CallsAt, Pending, On, HasAp
    <3> QED BY <2>1, <2>2, <3>1, <3>2, IdleIs DEF ModesInv
  <2>4. CASE t = "event"
    <3>1. event_task = task(t) /\ timer_task = task(o) /\ event_task' = Idle /\ timer_task' = timer_task
      BY <2>4 DEF task, Other
    <3>2. ApOn' = ApOn
      BY DEF ApOn
    <3> QED BY <2>1, <2>2, <3>1, <3>2, IdleIs DEF ModesInv
  <2> QED BY <2>3, <2>4 DEF Tasks
<1> QED BY <1>5, <1>7, <1>8

(* The task has decided on another mode, and asks for it. *)
LEMMA DecidedCall ==
  ASSUME NInv, NEW t \in Tasks, NEW o, o = Other(t), task(t).pc = "changed",
         task(o)' = task(o), UNCHANGED <<wifi_mode, radio>>, calls' = Append(calls, t),
         Pending(task(t)'), task(t)'.pc \in {"stop", "set_mode"}, task(t)'.pc = "stop" => radio,
         On(task(t)') <=> s_state # "OFF",
         ~s_grace_active, UNCHANGED <<s_state, s_grace_active, failures>>
  PROVE  PairInv' /\ StartInv' /\ ModesInv'
<1>1. o \in Tasks /\ o # t /\ t = Other(o) /\ StartOf(o, t) /\ CallsAt(t)
  BY TwoTasks, ByTasks, CallsIs DEF NInv, NetInv
<1>2. ~Pending(task(t))
  BY DEF Pending
<1>3. calls' = <<t>> \/ calls' = <<o, t>>
  BY <1>2, QueueIs DEF NInv, NetInv
<1>4. calls' # <<t, o>>
  BY <1>1, <1>3, Distinct
<1>5. PairInv'
  <2>1. PairOf(t, o)' /\ PairOf(o, t)'
    BY <1>4 DEF PairOf
  <2> QED BY <2>1, ByTasksAfter
<1>6. StartInv'
  <2>1. StartOf(t, o)'
    BY DEF StartOf
  <2>2. StartOf(o, t)'
    BY <1>1 DEF StartOf
  <2> QED BY <2>1, <2>2, ByTasksAfter
<1>7. s_state # "OFF" <=> s_state = "ACTIVE_BY_CLIENT"
  BY DEF NInv, NetInv, NetType, PolicyType, PolicyInv
<1>8. ModesInv'
  <2> SUFFICES ASSUME failures = 0 PROVE ModesInv'
    BY DEF ModesInv
  <2>1. /\ Pending(event_task) => (On(event_task) <=> s_state = "ACTIVE_BY_CLIENT")
        /\ (timer_task.pc = "changed" \/ On(timer_task)) /\ event_task.pc = "idle"
              /\ s_state = "ACTIVE_BY_CLIENT" => ApOn
    BY DEF NInv, NetInv, ModesInv
  <2>2. ASSUME s_state = "OFF" PROVE OffAfter'
    <3>1. OffOne(t)' \/ OffTwo(o, t)'
      BY <1>3, <2>2 DEF OffOne, OffTwo
    <3> QED BY <3>1, ByTasksAfter DEF OffFor
  <2>3. ApOn' = ApOn
    BY DEF ApOn
  <2>4. CASE t = "timer"
    <3>1. timer_task = task(t) /\ event_task = task(o) /\ timer_task' = task(t)' /\ event_task' = event_task
      BY <2>4 DEF task, Other
    <3> QED BY <1>7, <2>1, <2>2, <2>3, <3>1 DEF ModesInv
  <2>5. CASE t = "event"
    <3>1. event_task = task(t) /\ timer_task = task(o) /\ event_task' = task(t)' /\ timer_task' = timer_task
      BY <2>5 DEF task, Other
    <3>2. event_task'.pc \notin {"idle", "changed"}
      BY <3>1
    <3> QED BY <1>7, <2>1, <2>2, <2>3, <3>1, <3>2 DEF ModesInv
  <2> QED BY <2>4, <2>5 DEF Tasks
<1> QED BY <1>5, <1>6, <1>8

LEMMA Together ==
  NetType' /\ Balance' /\ CallsInv' /\ PolicyInv' /\ RadioInv' /\ PairInv' /\ StartInv' /\ ModesInv' => NInv'
BY Zenon DEF NInv, NetInv

LEMMA ApplyStep ==
  ASSUME NInv, NEW t \in Tasks, apply_wifi_mode(t)
  PROVE  NInv'
<1> DEFINE o == Other(t)
<1>1. TasksType /\ CallsInv /\ s_wifi_started = radio /\ radio \in BOOLEAN /\ wifi_mode \in Modes
      /\ failures \in 0 .. MaxModeFailures /\ MaxModeFailures \in Nat
  BY NetworkAssumption DEF NInv, NetType, NetInv, RadioInv, RadioType
<1>2. CASE ModeDecided(t)
  <2>1. UNCHANGED <<s_state, s_grace_active, failures, wifi_mode, radio>> /\ task(t).pc = "changed"
    BY <1>2 DEF ModeDecided, policy_vars
  <2>2. ~s_grace_active
    BY <2>1, IdleIs, GraceOver
  <2>3. /\ NetType' /\ Balance' /\ CallsInv' /\ PolicyInv' /\ RadioInv'
        /\ task(o)' = task(o)
        /\ \/ /\ task(t)' = Idle /\ calls' = calls
              /\ (s_state = "OFF") => ~ApOn
              /\ (s_state # "OFF") => ApOn
           \/ /\ calls' = Append(calls, t) /\ Pending(task(t)')
              /\ task(t)'.pc = "stop" => radio
              /\ task(t)'.pc \in {"stop", "set_mode"}
              /\ On(task(t)') <=> s_state # "OFF"
    BY <1>2, DecidedStep
  <2>4. PairInv' /\ StartInv' /\ ModesInv'
    BY <2>1, <2>2, <2>3, DecidedIdle, DecidedCall
  <2> QED BY <2>3, <2>4, Together
<1>3. CASE ModeRefused(t)
  <2>1. PICK pc \in {"stop", "set_mode", "start"} : Served(t, pc)
    BY <1>3 DEF ModeRefused
  <2>2. /\ Return(t) /\ failures < MaxModeFailures /\ failures' = failures + 1
        /\ UNCHANGED <<transport, policy_vars, s_wifi_started, sta_vars, wifi_mode, radio, associated,
                       sta_link, dhcp, events, reachable, sta_configured>>
    BY <1>3 DEF ModeRefused
  <2>3. /\ TasksType' /\ CallsInv' /\ task(t)' = Idle /\ task(o)' = task(o) /\ task(t).pc = pc
        /\ \/ calls = <<t>> /\ calls' = <<>>
           \/ calls = <<t, o>> /\ calls' = <<o>>
    BY <1>1, <2>1, <2>2, ReturnIs
  <2>4. failures' \in 0 .. MaxModeFailures /\ failures' # 0 /\ Pending(task(t))
    BY <1>1, <2>2, <2>3 DEF Pending
  <2>5. NetType' /\ Balance' /\ PolicyInv' /\ RadioInv'
    BY <2>1, <2>2, <2>3, <2>4, ServedStep
  <2>6. PairInv' /\ StartInv'
    BY <2>2, <2>3, <2>4, ReturnKeeps
  <2>7. ModesInv'
    BY <2>4 DEF ModesInv
  <2> QED BY <2>3, <2>5, <2>6, <2>7, Together
<1>4. CASE ModeStops(t)
  <2>1. /\ Served(t, "stop") /\ DriverGoesTo(wifi_mode, FALSE) /\ s_wifi_started' = FALSE /\ Return(t)
        /\ UNCHANGED <<transport, policy_vars, sta_vars, failures, reachable, sta_configured>>
    BY <1>4 DEF ModeStops
  <2>2. /\ TasksType' /\ CallsInv' /\ task(t)' = Idle /\ task(o)' = task(o) /\ task(t).pc = "stop"
        /\ \/ calls = <<t>> /\ calls' = <<>>
           \/ calls = <<t, o>> /\ calls' = <<o>>
    BY <1>1, <2>1, ReturnIs
  <2>3. wifi_mode' = wifi_mode /\ radio' = FALSE /\ Pending(task(t)) /\ Returns(t)
    BY <2>1, <2>2 DEF DriverGoesTo, Pending, Returns
  <2>4. ~s_grace_active /\ NetType' /\ Balance' /\ PolicyInv' /\ RadioInv'
    BY <1>1, <2>1, <2>2, ServedStep
  <2>5. PairInv' /\ StartInv'
    BY <2>2, <2>3, ReturnKeeps
  <2>6. ModesInv'
    BY <2>1, <2>2, <2>3, <2>4, ReturnModes DEF policy_vars
  <2> QED BY <2>2, <2>4, <2>5, <2>6, Together
<1>5. CASE ModeIsSet(t)
  <2> DEFINE mode == task(t).desired
  <2>1. /\ Served(t, "set_mode") /\ DriverGoesTo(mode, radio)
        /\ IF radio THEN Return(t) ELSE Call(t, "start", mode, Tail(calls))
        /\ UNCHANGED <<transport, policy_vars, s_wifi_started, sta_vars, failures, reachable, sta_configured>>
    BY <1>1, <1>5 DEF ModeIsSet
  <2>2. mode \in Modes /\ task(t).pc = "set_mode" /\ Pending(task(t))
    BY <1>1, <2>1, TaskIs, CallsIs DEF CallsAt, Served, Modes, Pending
  <2>3. wifi_mode' = mode /\ radio' = radio
    BY <2>1 DEF DriverGoesTo
  <2>4. CASE radio
    <3>1. /\ TasksType' /\ CallsInv' /\ task(t)' = Idle /\ task(o)' = task(o)
          /\ \/ calls = <<t>> /\ calls' = <<>>
             \/ calls = <<t, o>> /\ calls' = <<o>>
      BY <1>1, <2>1, <2>4, ReturnIs
    <3>2. ~s_grace_active /\ NetType' /\ Balance' /\ PolicyInv' /\ RadioInv'
      BY <1>1, <2>1, <2>2, <3>1, ServedStep
    <3>3. PairInv' /\ StartInv'
      BY <1>1, <2>2, <2>4, <3>1, ReturnKeeps
    <3>4. ModesInv'
      <4>1. Returns(t)
        BY <1>1, <2>2, <2>3, <2>4 DEF Returns
      <4> QED BY <2>1, <2>2, <3>1, <3>2, <4>1, ReturnModes DEF policy_vars
    <3> QED BY <3>1, <3>2, <3>3, <3>4, Together
  <2>5. CASE ~radio
    <3>1. /\ TasksType' /\ CallsInv' /\ task(t)'.pc = "start" /\ task(t)'.desired = mode
          /\ task(o)' = task(o)
          /\ \/ calls = <<t>> /\ calls' = <<t>>
             \/ calls = <<t, o>> /\ calls' = <<o, t>>
      BY <1>1, <2>1, <2>5, GoesOnIs
    <3>2. ~s_grace_active /\ NetType' /\ Balance' /\ PolicyInv' /\ RadioInv'
      BY <1>1, <2>1, <2>2, <3>1, ServedStep
    <3>3. radio = FALSE /\ radio' = FALSE /\ UNCHANGED <<s_state, s_grace_active, failures>>
      BY <1>1, <2>1, <2>3, <2>5 DEF policy_vars
    <3>4. PairInv' /\ StartInv' /\ ModesInv'
      BY <2>2, <2>3, <3>1, <3>2, <3>3, GoesOnKeeps
    <3> QED BY <3>1, <3>2, <3>4, Together
  <2> QED BY <2>4, <2>5
<1>6. CASE ModeStarts(t)
  <2>1. /\ Served(t, "start") /\ DriverGoesTo(wifi_mode, TRUE) /\ s_wifi_started' = TRUE /\ Return(t)
        /\ UNCHANGED <<transport, policy_vars, sta_vars, failures, reachable, sta_configured>>
    BY <1>6 DEF ModeStarts
  <2>2. /\ TasksType' /\ CallsInv' /\ task(t)' = Idle /\ task(o)' = task(o) /\ task(t).pc = "start"
        /\ \/ calls = <<t>> /\ calls' = <<>>
           \/ calls = <<t, o>> /\ calls' = <<o>>
    BY <1>1, <2>1, ReturnIs
  <2>3. wifi_mode' = wifi_mode /\ radio' = TRUE /\ Pending(task(t)) /\ Returns(t)
    BY <2>1, <2>2 DEF DriverGoesTo, Pending, Returns
  <2>4. ~s_grace_active /\ NetType' /\ Balance' /\ PolicyInv' /\ RadioInv'
    BY <1>1, <2>1, <2>2, ServedStep
  <2>5. PairInv' /\ StartInv'
    BY <2>2, <2>3, ReturnKeeps
  <2>6. ModesInv'
    BY <2>1, <2>2, <2>3, <2>4, ReturnModes DEF policy_vars
  <2> QED BY <2>2, <2>4, <2>5, <2>6, Together
<1> QED BY <1>2, <1>3, <1>4, <1>5, <1>6 DEF apply_wifi_mode

-----------------------------------------------------------------------------
(* The steps that change no mode *)

(* All that the calls of the driver rest on is as it was. *)
LEMMA ModesFrame ==
  ASSUME NInv,
         UNCHANGED <<s_state, s_grace_active, s_wifi_started, timer_task, event_task, failures>>,
         UNCHANGED <<wifi_mode, radio, calls>>
  PROVE  TasksType' /\ RadioType' /\ CallsInv' /\ PairInv' /\ StartInv' /\ ModesInv'
<1>1. \A t : task(t)' = task(t)
  BY DEF task
<1>2. CallsInv' /\ PairInv' /\ StartInv'
  BY <1>1 DEF NInv, NetInv, CallsInv, PairInv, StartInv, Pending, On
<1>3. OffAfter' = OffAfter
  BY <1>1 DEF OffAfter, On, ApOn
<1>4. ModesInv'
  BY <1>3 DEF NInv, NetInv, ModesInv, Pending, On, ApOn
<1>5. TasksType' /\ RadioType'
  BY DEF NInv, NetType, TasksType, RadioType
<1> QED BY <1>2, <1>4, <1>5

LEMMA AppendIs ==
  ASSUME NEW s \in Seq(Events), NEW e \in Events
  PROVE  Append(s, e) \in Seq(Events) /\ Append(s, e) = s \o <<e>> /\ <<e>> \in Seq(Events)
OBVIOUS

(* One more event, with its effect on the stations. *)
LEMMA BalancedAppend ==
  ASSUME NEW s \in Seq(Events), NEW e \in Events, NEW a, NEW b \in Nat, NEW c \in Nat,
         Balanced(a, s, b), c = b + Effect(e)
  PROVE  Balanced(a, Append(s, e), c)
<1>1. Balanced(b, <<e>>, c)
  BY BalancedOne
<1>2. Balanced(a, s \o <<e>>, c)
  BY <1>1, AppendIs, BalancedConcat
<1> QED BY <1>2, AppendIs

(* What happens to the stations, the link and the site's network. *)
LEMMA OutsideStep ==
  ASSUME NInv, Associate \/ Leave \/ NetworkComesAndGoes \/ LinkChanges \/ AddressArrives
  PROVE  NInv'
<1>1. /\ UNCHANGED <<transport, s_state, s_grace_active, s_client_count, s_wifi_started>>
      /\ UNCHANGED <<s_sta_connected, s_sta_reconnect_timer, timer_task, event_task, failures>>
      /\ UNCHANGED <<wifi_mode, radio, calls, sta_configured>>
  BY DEF Associate, Leave, NetworkComesAndGoes, LinkChanges, AddressArrives, Outside, policy_vars, sta_vars
<1>2. TasksType' /\ RadioType' /\ CallsInv' /\ PairInv' /\ StartInv' /\ ModesInv'
  BY <1>1, ModesFrame
<1>3. PolicyType' /\ PolicyInv'
  BY <1>1 DEF NInv, NetType, NetInv, PolicyType, PolicyInv, ApOn
<1>4. /\ associated \in 0 .. MaxStations /\ associated \in Nat /\ events \in Seq(Events)
      /\ Balanced(s_client_count, events, associated) /\ MaxStations \in Nat
      /\ StaType /\ RadioInv
  BY NetworkAssumption DEF NInv, NetType, NetInv, StationsType, Balance
<1>5. /\ Effect("AP_STACONNECTED") = 1 /\ Effect("AP_STADISCONNECTED") = -1
      /\ Effect("STA_DISCONNECTED") = 0 /\ Effect("GOT_IP") = 0
      /\ "AP_STACONNECTED" \in Events /\ "AP_STADISCONNECTED" \in Events
      /\ "STA_DISCONNECTED" \in Events /\ "GOT_IP" \in Events
  BY DEF Effect, Events
<1>6. CASE Associate
  <2>1. /\ ApOn /\ associated' = associated + 1 /\ associated < MaxStations
        /\ events' = Append(events, "AP_STACONNECTED") /\ UNCHANGED <<sta_link, dhcp, reachable>>
    BY <1>6 DEF Associate
  <2>2. associated' \in 0 .. MaxStations /\ associated' \in Nat
    BY <1>4, <2>1
  <2>3. StationsType' /\ Balance'
    BY <1>1, <1>4, <1>5, <2>1, <2>2, AppendIs, BalancedAppend DEF StationsType, Balance
  <2>4. StaType' /\ RadioInv'
    BY <1>1, <1>4, <2>1 DEF StaType, RadioInv, ApOn
  <2> QED BY <1>2, <1>3, <2>3, <2>4, Together DEF NetType
<1>7. CASE Leave
  <2>1. /\ associated > 0 /\ associated' = associated - 1
        /\ events' = Append(events, "AP_STADISCONNECTED") /\ UNCHANGED <<sta_link, dhcp, reachable>>
    BY <1>7 DEF Leave
  <2>2. associated' \in 0 .. MaxStations /\ associated' \in Nat /\ associated' = associated + (-1)
    BY <1>4, <2>1
  <2>3. StationsType' /\ Balance'
    BY <1>1, <1>4, <1>5, <2>1, <2>2, AppendIs, BalancedAppend DEF StationsType, Balance
  <2>4. StaType' /\ RadioInv'
    BY <1>1, <1>4, <2>1 DEF StaType, RadioInv, ApOn
  <2> QED BY <1>2, <1>3, <2>3, <2>4, Together DEF NetType
<1>8. CASE NetworkComesAndGoes \/ LinkChanges \/ AddressArrives
  <2>1. /\ associated' = associated
        /\ \/ events' = events
           \/ \E e \in {"STA_DISCONNECTED", "GOT_IP"} : events' = Append(events, e)
    BY <1>8 DEF NetworkComesAndGoes, LinkChanges, AddressArrives
  <2>2. \A x \in Nat : x = x + 0
    OBVIOUS
  <2>3. StationsType' /\ Balance'
    <3>1. CASE events' = events
      BY <1>1, <1>4, <2>1, <3>1 DEF StationsType, Balance
    <3>2. ASSUME NEW e \in {"STA_DISCONNECTED", "GOT_IP"}, events' = Append(events, e)
          PROVE  StationsType' /\ Balance'
      <4>1. e \in Events /\ Effect(e) = 0
        BY <1>5
      <4>2. Append(events, e) \in Seq(Events) /\ Balanced(s_client_count, Append(events, e), associated)
        BY <1>4, <2>2, <4>1, AppendIs, BalancedAppend
      <4> QED BY <1>1, <1>4, <2>1, <3>2, <4>2 DEF StationsType, Balance
    <3> QED BY <2>1, <3>1, <3>2
  <2>4. StaType'
    BY <1>1, <1>4, <1>8 DEF StaType, NetworkComesAndGoes, LinkChanges, AddressArrives
  <2>5. RadioInv'
    BY <1>1, <1>4, <2>1 DEF RadioInv, ApOn
  <2> QED BY <1>2, <1>3, <2>3, <2>4, <2>5, Together DEF NetType
<1> QED BY <1>6, <1>7, <1>8

LEMMA EditStep ==
  ASSUME NInv, EditTransport
  PROVE  NInv'
<1>1. /\ transport' \in {"wifi", "other"}
      /\ UNCHANGED <<s_state, s_grace_active, s_client_count, s_wifi_started>>
      /\ UNCHANGED <<s_sta_connected, s_sta_reconnect_timer, timer_task, event_task, failures>>
      /\ UNCHANGED <<wifi_mode, radio, calls, associated, sta_link, dhcp, events, reachable, sta_configured>>
  BY DEF EditTransport, policy_vars, sta_vars, driver_vars
<1>2. TasksType' /\ RadioType' /\ CallsInv' /\ PairInv' /\ StartInv' /\ ModesInv'
  BY <1>1, ModesFrame
<1>3. PolicyType' /\ PolicyInv' /\ RadioInv' /\ StaType' /\ StationsType' /\ Balance'
  BY <1>1 DEF NInv, NetType, NetInv, PolicyType, PolicyInv, RadioInv, StaType, StationsType, Balance, ApOn
<1> QED BY <1>2, <1>3, Together DEF NetType

LEMMA ReconnectStep ==
  ASSUME NInv, sta_reconnect_timer_cb
  PROVE  NInv'
<1>1. /\ UNCHANGED <<transport, s_state, s_grace_active, s_client_count, s_wifi_started>>
      /\ UNCHANGED <<s_sta_connected, timer_task, event_task, failures, wifi_mode, radio, calls>>
      /\ UNCHANGED <<associated, dhcp, events, reachable, sta_configured>>
      /\ s_sta_reconnect_timer' = FALSE
      /\ sta_link' = IF StaOn /\ sta_configured /\ sta_link = "down" THEN "connecting" ELSE sta_link
  BY DEF sta_reconnect_timer_cb, policy_vars, esp_wifi_connect
<1>2. TasksType' /\ RadioType' /\ CallsInv' /\ PairInv' /\ StartInv' /\ ModesInv'
  BY <1>1, ModesFrame
<1>3. PolicyType' /\ PolicyInv' /\ RadioInv' /\ StationsType' /\ Balance'
  BY <1>1 DEF NInv, NetType, NetInv, PolicyType, PolicyInv, RadioInv, StationsType, Balance, ApOn
<1>4. StaType'
  BY <1>1 DEF NInv, NetType, StaType
<1> QED BY <1>2, <1>3, <1>4, Together DEF NetType

(* The grace window ends: the timer task is to bring the radio where the policy now wants it. *)
LEMMA GraceStep ==
  ASSUME NInv, grace_timer_cb
  PROVE  NInv'
<1> DEFINE new == IF s_client_count > 0 THEN "ACTIVE_BY_CLIENT" ELSE "OFF"
           call == [Idle EXCEPT !.pc = "changed"]
<1>1. /\ s_grace_active /\ timer_task = Idle /\ s_grace_active' = FALSE
      /\ s_state' = new /\ TaskGoes("timer", IF new = s_state THEN Idle ELSE call)
      /\ UNCHANGED <<transport, s_client_count, s_wifi_started, s_sta_connected, failures>>
      /\ UNCHANGED <<s_sta_reconnect_timer, wifi_mode, radio, calls, associated, sta_link>>
      /\ UNCHANGED <<dhcp, events, reachable, sta_configured>>
  BY DEF grace_timer_cb, set_state, sta_vars, driver_vars
<1>2. s_state = "BOOT_GRACE" /\ event_task = Idle /\ ApOn /\ TasksType /\ s_client_count \in Nat
  BY <1>1 DEF NInv, NetInv, NetType, PolicyInv, PolicyType
<1>3. call = [pc |-> "changed", desired |-> "NULL"]
  BY DEF Idle
<1>4. call \in Calls /\ call.pc = "changed" /\ call.desired = "NULL" /\ ~Pending(call) /\ ~On(call)
  BY <1>3, CallIs DEF Pending, On, HasAp
<1> HIDE DEF call
<1>5. TaskGoes("timer", call)
  BY <1>1, <1>2
<1>6. timer_task' = call /\ event_task' = Idle /\ "timer" \in Tasks /\ Other("timer") = "event"
  BY <1>2, <1>5 DEF TaskGoes, Tasks, Other
<1>7. TasksType'
  BY <1>4, <1>6, IdleIs DEF TasksType
<1>8. /\ task("timer") = Idle /\ task("timer")' = call
      /\ task("event") = Idle /\ task("event")' = Idle
  BY <1>1, <1>2, <1>6 DEF task
<1>9. CallsInv'
  <2>1. CallsAt("timer")
    BY <1>6, CallsIs DEF NInv, NetInv
  <2>2. calls = <<>>
    BY <1>6, <1>8, <2>1, IdleIs, Zenon DEF CallsAt
  <2>3. CallsAt("timer")'
    BY <1>1, <1>4, <1>6, <1>8, <2>2, IdleIs DEF CallsAt
  <2> QED BY <1>6, <2>3, CallsIsAfter
<1>10. PairInv' /\ StartInv'
  BY <1>4, <1>6, <1>8, IdleIs, ByTasksAfter DEF PairOf, StartOf
<1>11. ModesInv'
  BY <1>1, <1>2, <1>4, <1>6, IdleIs DEF ModesInv, ApOn
<1>12. PolicyType' /\ PolicyInv'
  BY <1>1, <1>2 DEF NInv, NetType, PolicyType, PolicyInv
<1>13. RadioType' /\ StaType' /\ StationsType' /\ Balance' /\ RadioInv'
  BY <1>1 DEF NInv, NetType, NetInv, RadioType, StaType, StationsType, Balance, RadioInv, ApOn
<1> QED BY <1>7, <1>9, <1>10, <1>11, <1>12, <1>13, Together DEF NetType

(* The first event of the queue is taken. *)
LEMMA HandledIs ==
  ASSUME NInv, events # <<>>, events' = Tail(events), associated' = associated,
         s_client_count' = s_client_count + Effect(Head(events))
  PROVE  StationsType' /\ Balance' /\ s_client_count' \in Nat
<1>1. /\ events \in Seq(Events) /\ associated \in 0 .. MaxStations /\ s_client_count \in Nat
      /\ Balanced(s_client_count, events, associated)
  BY DEF NInv, NetType, StationsType, PolicyType, Balance
<1>2. Tail(events) \in Seq(Events)
  BY <1>1
<1>3. /\ s_client_count + Effect(Head(events)) \in Nat
      /\ Balanced(s_client_count + Effect(Head(events)), Tail(events), associated)
  BY <1>1, BalancedTail
<1> QED BY <1>1, <1>2, <1>3 DEF StationsType, Balance

LEMMA StaStep ==
  ASSUME NInv, sta_event_handler
  PROVE  NInv'
<1>1. /\ events # <<>> /\ events' = Tail(events)
      /\ Head(events) \in {"STA_START", "STA_DISCONNECTED", "GOT_IP"}
      /\ UNCHANGED <<transport, s_state, s_grace_active, s_client_count, s_wifi_started>>
      /\ UNCHANGED <<timer_task, event_task, failures, wifi_mode, radio, calls>>
      /\ UNCHANGED <<associated, reachable, sta_configured>>
  BY DEF sta_event_handler, Handled, NoChange
<1>2. TasksType' /\ RadioType' /\ CallsInv' /\ PairInv' /\ StartInv' /\ ModesInv'
  BY <1>1, ModesFrame
<1>3. PolicyType' /\ PolicyInv' /\ RadioInv'
  BY <1>1 DEF NInv, NetType, NetInv, PolicyType, PolicyInv, RadioInv, ApOn
<1>4. StationsType' /\ Balance'
  <2>1. Effect(Head(events)) = 0
    BY <1>1 DEF Effect
  <2>2. s_client_count' = s_client_count + 0
    BY <1>1 DEF NInv, NetType, PolicyType
  <2> QED BY <1>1, <2>1, <2>2, HandledIs
<1>5. StaType'
  <2>1. StaType
    BY DEF NInv, NetType
  <2>2. CASE Head(events) = "STA_START" /\ esp_wifi_connect /\ UNCHANGED <<sta_vars, dhcp>>
    BY <1>1, <2>1, <2>2 DEF StaType, esp_wifi_connect, sta_vars
  <2>3. CASE StaDisconnected /\ UNCHANGED sta_link
    BY <1>1, <2>1, <2>3 DEF StaType, StaDisconnected
  <2>4. CASE s_sta_connected' = TRUE /\ UNCHANGED <<s_sta_reconnect_timer, sta_link, dhcp>>
    BY <1>1, <2>1, <2>4 DEF StaType
  <2> QED BY <2>2, <2>3, <2>4 DEF sta_event_handler
<1> QED BY <1>2, <1>3, <1>4, <1>5, Together DEF NetType

(* A client comes or goes: after the grace window the event task is to follow the policy. *)
LEMMA ClientStep ==
  ASSUME NInv, wifi_event_handler
  PROVE  NInv'
<1> DEFINE call == [Idle EXCEPT !.pc = "changed"]
<1>1. /\ events # <<>> /\ events' = Tail(events) /\ event_task = Idle
      /\ UNCHANGED <<transport, s_grace_active, s_wifi_started, failures, wifi_mode, radio, calls>>
      /\ UNCHANGED <<associated, reachable, sta_configured, s_sta_connected, s_sta_reconnect_timer, sta_link, dhcp>>
  BY DEF wifi_event_handler, Handled, sta_vars
<1>2. s_client_count \in Nat /\ Balanced(s_client_count, events, associated) /\ events \in Seq(Events)
  BY DEF NInv, NetType, PolicyType, StationsType, Balance
<1>3. s_client_count' = s_client_count + Effect(Head(events))
  <2>1. CASE Head(events) = "AP_STACONNECTED" /\ ClientConnected
    BY <2>1 DEF ClientConnected, Effect
  <2>2. CASE Head(events) = "AP_STADISCONNECTED" /\ ClientDisconnected
    <3>1. Effect(Head(events)) = -1 /\ s_client_count + Effect(Head(events)) \in Nat
      BY <1>1, <1>2, <2>2, BalancedTail DEF Effect
    <3>2. s_client_count > 0
      BY <1>2, <3>1
    <3> QED BY <1>2, <2>2, <3>1, <3>2 DEF ClientDisconnected
  <2> QED BY <2>1, <2>2 DEF wifi_event_handler
<1>4. StationsType' /\ Balance' /\ s_client_count' \in Nat
  BY <1>1, <1>3, HandledIs
<1>5. RadioType' /\ StaType' /\ RadioInv'
  BY <1>1 DEF NInv, NetType, NetInv, RadioType, StaType, RadioInv, ApOn
<1>6. \/ /\ UNCHANGED <<s_state, timer_task, event_task>>
         /\ s_grace_active \/ (s_client_count' > 0 /\ s_client_count > 0)
      \/ /\ ~s_grace_active
         /\ s_state' = IF s_client_count' > 0 THEN "ACTIVE_BY_CLIENT" ELSE "OFF"
         /\ TaskGoes("event", IF s_state' = s_state THEN Idle ELSE call)
  <2>1. CASE Head(events) = "AP_STACONNECTED" /\ ClientConnected
    <3>1. s_client_count' > 0
      BY <1>2, <2>1 DEF ClientConnected
    <3> QED BY <2>1, <3>1 DEF ClientConnected, set_state, NoChange
  <2>2. CASE Head(events) = "AP_STADISCONNECTED" /\ ClientDisconnected
    <3>1. s_client_count' # 0 => s_client_count' > 0 /\ s_client_count > 0
      BY <1>2, <1>4, <2>2 DEF ClientDisconnected
    <3>2. s_client_count' = 0 => ~(s_client_count' > 0)
      OBVIOUS
    <3> QED BY <2>2, <3>1, <3>2 DEF ClientDisconnected, set_state, NoChange
  <2> QED BY <2>1, <2>2 DEF wifi_event_handler
<1>7. call.pc = "changed" /\ call.desired = "NULL" /\ call \in Calls /\ ~Pending(call) /\ ~On(call)
  <2>1. call = [pc |-> "changed", desired |-> "NULL"]
    BY DEF Idle
  <2> QED BY <2>1, CallIs DEF Pending, On, HasAp
<1> HIDE DEF call
<1>8. TasksType /\ CallsInv /\ PairInv /\ StartInv /\ PolicyInv /\ PolicyType
  BY DEF NInv, NetType, NetInv
<1>9. CASE UNCHANGED <<s_state, timer_task, event_task>>
  <2>1. TasksType' /\ RadioType' /\ CallsInv' /\ PairInv' /\ StartInv' /\ ModesInv'
    BY <1>1, <1>9, ModesFrame
  <2>2. PolicyType'
    BY <1>1, <1>4, <1>8, <1>9 DEF PolicyType
  <2>3. PolicyInv'
    BY <1>1, <1>6, <1>8, <1>9 DEF PolicyInv, ApOn
  <2> QED BY <1>4, <1>5, <2>1, <2>2, <2>3, Together DEF NetType
<1>10. CASE /\ ~s_grace_active
            /\ s_state' = IF s_client_count' > 0 THEN "ACTIVE_BY_CLIENT" ELSE "OFF"
            /\ TaskGoes("event", IF s_state' = s_state THEN Idle ELSE call)
  <2>1. PolicyType' /\ PolicyInv'
    BY <1>1, <1>4, <1>8, <1>10 DEF PolicyType, PolicyInv
  <2>2. CASE s_state' = s_state
    <3>1. UNCHANGED <<timer_task, event_task>>
      BY <1>1, <1>10, <2>2 DEF TaskGoes
    <3>2. TasksType' /\ RadioType' /\ CallsInv' /\ PairInv' /\ StartInv' /\ ModesInv'
      BY <1>1, <2>2, <3>1, ModesFrame
    <3> QED BY <1>4, <1>5, <2>1, <3>2, Together DEF NetType
  <2>3. CASE s_state' # s_state
    <3>1. TaskGoes("event", call)
      BY <1>10, <2>3
    <3>2. /\ event_task' = call /\ timer_task' = timer_task
          /\ "event" \in Tasks /\ Other("event") = "timer"
      BY <3>1 DEF TaskGoes, Tasks, Other
    <3>3. /\ task("event") = Idle /\ task("event")' = call
          /\ task("timer") = timer_task /\ task("timer")' = timer_task
      BY <1>1, <3>2 DEF task
    <3>4. TasksType'
      BY <1>7, <1>8, <3>2 DEF TasksType
    <3>5. CallsInv'
      <4>1. CallsAt("event")
        BY <1>8, <3>2, CallsIs
      <4>2. /\ (timer_task.desired # "NULL") <=> (timer_task.pc \in {"set_mode", "start"})
            /\ \/ calls = <<>> /\ ~Pending(timer_task)
               \/ calls = <<"timer">> /\ Pending(timer_task)
        BY <3>2, <3>3, <4>1, IdleIs DEF CallsAt
      <4>3. (call.desired # "NULL") <=> (call.pc \in {"set_mode", "start"})
        BY <1>7
      <4>4. CallsAt("event")'
        BY <1>1, <1>7, <3>2, <3>3, <4>2, <4>3, Zenon DEF CallsAt
      <4> QED BY <3>2, <4>4, CallsIsAfter
    <3>6. PairInv' /\ StartInv'
      <4>1. PairOf("event", "timer") /\ PairOf("timer", "event") /\ StartOf("timer", "event")
        BY <1>8, <3>2, ByTasks
      <4>2. PairOf("event", "timer")' /\ PairOf("timer", "event")'
        BY <1>1, <1>7, <3>3, <4>1 DEF PairOf
      <4>3. StartOf("event", "timer")' /\ StartOf("timer", "event")'
        BY <1>1, <1>7, <3>3, <4>1, IdleIs DEF StartOf
      <4> QED BY <3>2, <4>2, <4>3, ByTasksAfter
    <3>7. ModesInv'
      <4>1. ApOn' = ApOn
        BY <1>1 DEF ApOn
      <4>2. s_state' = "OFF" => s_state = "ACTIVE_BY_CLIENT"
        BY <1>8, <1>10, <2>3 DEF PolicyInv, PolicyType
      <4>3. failures = 0 /\ On(timer_task) /\ s_state = "ACTIVE_BY_CLIENT" => ApOn
        BY <1>1, <1>10, IdleIs DEF NInv, NetInv, ModesInv
      <4> QED BY <1>1, <1>7, <3>2, <4>1, <4>2, <4>3 DEF ModesInv
    <3> QED BY <1>4, <1>5, <2>1, <3>4, <3>5, <3>6, <3>7, Together DEF NetType
  <2> QED BY <2>2, <2>3
<1> QED BY <1>6, <1>9, <1>10

-----------------------------------------------------------------------------
(* The whole *)

IInv == NInv /\ SessionsInv /\ moves \in 0 .. MaxMoves

LEMMA NetInit == NetworkInit => NInv
<1> SUFFICES ASSUME NetworkInit PROVE NInv
  OBVIOUS
<1>1. /\ transport \in {"wifi", "other"} /\ s_state = "BOOT_GRACE" /\ s_grace_active = TRUE
      /\ s_client_count = 0 /\ s_wifi_started = TRUE /\ s_sta_connected = FALSE
      /\ s_sta_reconnect_timer = FALSE /\ timer_task = Idle /\ event_task = Idle /\ failures = 0
      /\ radio = TRUE /\ calls = <<>> /\ associated = 0 /\ sta_link = "down" /\ dhcp = FALSE
      /\ reachable \in BOOLEAN /\ sta_configured \in BOOLEAN /\ wifi_mode \in {"APSTA", "AP"}
      /\ events \in {<<"STA_START">>, <<>>}
  BY DEF NetworkInit
<1>2. 0 \in 0 .. MaxModeFailures /\ 0 \in 0 .. MaxStations
  BY NetworkAssumption
<1>11. PolicyType /\ TasksType /\ StaType
  BY <1>1, IdleIs DEF PolicyType, TasksType, StaType
<1>12. RadioType
  BY <1>1, <1>2 DEF RadioType, Modes
<1>3. <<>> \in Seq(Events) /\ <<"STA_START">> \in Seq(Events)
  BY DEF Events
<1>4. StationsType
  BY <1>1, <1>2, <1>3 DEF StationsType
<1>5. Balance
  <2>1. Balanced(0, <<>>, 0) /\ Balanced(0, <<"STA_START">>, 0)
    <3>1. Effect("STA_START") = 0 /\ 0 = 0 + 0
      BY DEF Effect
    <3> QED BY <3>1, BalancedEmpty, BalancedOne
  <2> QED BY <1>1, <2>1 DEF Balance
<1>6. \A t \in Tasks : task(t) = Idle
  BY <1>1 DEF task
<1>7. "timer" \in Tasks
  BY DEF Tasks
<1>8. CallsInv
  <2>1. Other("timer") \in Tasks
    BY <1>7, TwoTasks
  <2>2. CallsAt("timer")
    BY <1>1, <1>6, <1>7, <2>1, IdleIs DEF CallsAt
  <2> QED BY <1>7, <2>2, CallsIs
<1>9. PairInv /\ StartInv
  BY <1>6, IdleIs DEF PairInv, StartInv
<1>10. PolicyInv /\ RadioInv /\ ModesInv
  BY <1>1 DEF PolicyInv, RadioInv, ModesInv, ApOn, HasAp
<1> QED BY <1>4, <1>5, <1>8, <1>9, <1>10, <1>11, <1>12 DEF NInv, NetType, NetInv

LEMMA AuthInit == auth_init => SessionsInv
<1> SUFFICES ASSUME auth_init PROVE SessionsInv
  OBVIOUS
<1> DEFINE e == [token |-> 0, expires_in |-> -1, in_use |-> FALSE]
<1>1. s_sessions = [i \in Slots |-> e] /\ issued = 0
  BY DEF auth_init
<1>2. e \in Session(issued) /\ issued \in 0 .. MaxLogins
  BY <1>1, SessionsAssumption DEF Session
<1> HIDE DEF e
<1>3. s_sessions \in [Slots -> Session(issued)]
  BY <1>1, <1>2
<1>4. SessionsType
  BY <1>2, <1>3, SessionsAre
<1>5. SinceType
  BY SessionsAssumption DEF auth_init, SinceType, Over
<1>6. Linked
  BY <1>1 DEF Linked, e
<1> QED BY <1>4, <1>5, <1>6 DEF SessionsInv

LEMMA NextStep ==
  ASSUME IInv, Next
  PROVE  /\ IInv'
         /\ Sessions \/ UNCHANGED auth_vars
<1>1. NInv /\ SessionsInv /\ moves \in 0 .. MaxMoves /\ MaxMoves \in Nat
  BY MovesAssumption DEF IInv
<1>2. Move \/ NoMove => moves' \in 0 .. MaxMoves
  BY <1>1 DEF Move, NoMove
<1>3. ASSUME UNCHANGED auth_vars PROVE SessionsInv'
  BY <1>1, <1>3, SessionsFrame
<1>4. CASE (Associate \/ Leave \/ NetworkComesAndGoes \/ EditTransport) /\ Move /\ NetworkOnly
  BY <1>1, <1>2, <1>3, <1>4, OutsideStep, EditStep DEF NetworkOnly, IInv
<1>5. CASE (LinkChanges \/ AddressArrives) /\ NoMove /\ NetworkOnly
  BY <1>1, <1>2, <1>3, <1>5, OutsideStep DEF NetworkOnly, IInv
<1>6. CASE TimerTask /\ NoMove /\ NetworkOnly
  <2>1. "timer" \in Tasks
    BY DEF Tasks
  <2>2. NInv'
    BY <1>1, <1>6, <2>1, GraceStep, ReconnectStep, ApplyStep DEF TimerTask
  <2> QED BY <1>2, <1>3, <1>6, <2>2 DEF NetworkOnly, IInv
<1>7. CASE EventTask /\ NoMove /\ NetworkOnly
  <2>1. "event" \in Tasks
    BY DEF Tasks
  <2>2. NInv'
    BY <1>1, <1>7, <2>1, ClientStep, StaStep, ApplyStep DEF EventTask
  <2> QED BY <1>2, <1>3, <1>7, <2>2 DEF NetworkOnly, IInv
<1>8. CASE Sessions /\ SessionsOnly
  <2>1. NInv'
    BY <1>1, <1>8, NetFrame DEF SessionsOnly
  <2>2. SessionsInv'
    BY <1>1, <1>8, SessionsStep
  <2>3. Move \/ NoMove
    BY <1>8, Zenon DEF Sessions
  <2> QED BY <1>2, <1>8, <2>1, <2>2, <2>3 DEF IInv
<1> QED BY <1>4, <1>5, <1>6, <1>7, <1>8 DEF Next

LEMMA Invariance == Spec => []IInv
<1>1. Init => IInv
  BY NetInit, AuthInit, MovesAssumption DEF Init, IInv
<1>2. IInv /\ [Next]_vars => IInv'
  <2> SUFFICES ASSUME IInv, [Next]_vars PROVE IInv'
    OBVIOUS
  <2>1. CASE Next
    BY <2>1, NextStep
  <2>2. CASE UNCHANGED vars
    <3>1. UNCHANGED net_vars /\ UNCHANGED auth_vars /\ moves' = moves
      BY <2>2 DEF vars
    <3> QED BY <3>1, NetFrame, SessionsFrame DEF IInv
  <2> QED BY <2>1, <2>2
<1> QED BY <1>1, <1>2, PTL DEF Spec

(* Every variable keeps its type: the count of the hotspot's clients, in particular, never   *)
(* goes below none, although an event counts as one less only when the task comes to it.      *)
THEOREM TypeCorrect == Spec => []TypeOK
<1>1. IInv => TypeOK
  BY TypeParts DEF IInv, SessionsInv
<1> QED BY <1>1, Invariance, PTL

(* ap_policy.c and net_manager.c: the hotspot is on through the grace window, and whenever    *)
(* the timer task, the event task and the driver have caught up it is on exactly while a      *)
(* client is on it, in whatever order the two tasks' calls of the driver have crossed.        *)
THEOREM HotspotIsRight == Spec => []HotspotFollowsPolicy
<1>1. IInv => HotspotFollowsPolicy
  <2> SUFFICES ASSUME IInv PROVE HotspotFollowsPolicy
    OBVIOUS
  <2>1. NInv /\ PolicyInv /\ PolicyType /\ RadioInv /\ ModesInv /\ Balance /\ CallsInv
        /\ associated \in Nat
    BY NetworkAssumption DEF IInv, NInv, NetInv, NetType, StationsType
  <2>2. s_grace_active => ApOn /\ s_state = "BOOT_GRACE"
    BY <2>1 DEF PolicyInv
  <2>3. ASSUME Settled
        PROVE  /\ ApOn = (s_grace_active \/ associated > 0)
               /\ ApOn = (s_state # "OFF")
               /\ s_client_count = associated
    <3>1. events = <<>> /\ timer_task = Idle /\ event_task = Idle /\ failures = 0
      BY <2>3 DEF Settled
    <3>2. s_client_count = associated
      <4>1. Balanced(s_client_count, <<>>, associated) /\ s_client_count \in Nat
        BY <2>1, <3>1 DEF Balance, PolicyType
      <4> QED BY <2>1, <4>1, BalancedEmpty
    <3>3. calls = <<>>
      <4>1. "timer" \in Tasks /\ Other("timer") \in Tasks
        BY TwoTasks DEF Tasks
      <4>2. CallsAt("timer") /\ \A t \in Tasks : task(t) = Idle
        BY <2>1, <3>1, <4>1, CallsIs DEF task
      <4> QED BY <4>1, <4>2, IdleIs, Zenon DEF CallsAt
    <3>4. OffAfter => ~ApOn
      <4>1. \A t \in Tasks : <<t>> # <<>> /\ <<Other(t), t>> # <<>>
        OBVIOUS
      <4> QED BY <3>3, <4>1 DEF OffAfter
    <3>5. ~s_grace_active => /\ s_state \in {"ACTIVE_BY_CLIENT", "OFF"}
                             /\ s_state = "ACTIVE_BY_CLIENT" <=> associated > 0
      BY <2>1, <3>2 DEF PolicyInv, PolicyType
    <3>6. ~s_grace_active /\ s_state = "OFF" => ~ApOn
      BY <2>1, <3>1, <3>4, IdleIs DEF ModesInv
    <3>7. associated > 0 => ApOn
      BY <2>1 DEF RadioInv
    <3>8. ApOn \in BOOLEAN /\ s_grace_active \in BOOLEAN
      BY <2>1 DEF ApOn, HasAp, IInv, NInv, NetType, RadioType, PolicyType
    <3>9. ApOn <=> s_grace_active \/ associated > 0
      BY <2>2, <3>5, <3>6, <3>7
    <3>10. ApOn <=> s_state # "OFF"
      BY <2>2, <3>5, <3>6, <3>7
    <3> QED BY <3>2, <3>8, <3>9, <3>10
  <2> QED BY <2>2, <2>3 DEF HotspotFollowsPolicy
<1> QED BY <1>1, Invariance, PTL

(* auth.c: a session ends when its owner logs out or has made no request for the whole       *)
(* time-out, or when every slot is held by someone who has, it is the one idle for longest,   *)
(* and someone else logs in; nobody stays logged in beyond the time-out, and a token that     *)
(* has ended never opens the portal again.                                                    *)
THEOREM LoginsLast == Spec => SessionsEndForAReason
<1>1. IInv /\ [Next]_vars => [EndsForAReason]_auth_vars
  <2> SUFFICES ASSUME IInv, [Next]_vars, ~UNCHANGED auth_vars PROVE EndsForAReason
    OBVIOUS
  <2>1. Next
    BY DEF vars
  <2>2. Sessions
    BY <2>1, NextStep
  <2> QED BY <2>2, SessionsStep DEF IInv
<1> QED BY <1>1, Invariance, PTL DEF Spec, SessionsEndForAReason, EndsForAReason
=============================================================================
