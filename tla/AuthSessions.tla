---------------------------- MODULE AuthSessions ----------------------------
(***************************************************************************)
(* The login sessions of the web portal (components/web_portal/auth.c): a  *)
(* table of MAX_SESSIONS slots, each with a token and the time it expires, *)
(* which every authenticated request puts off.  The HTTP server runs one   *)
(* handler at a time.  A slot's time is modelled as what is left of it;    *)
(* no two requests come at the same microsecond, so each takes one unit.   *)
(***************************************************************************)
EXTENDS Integers, FiniteSets

CONSTANTS
    MAX_SESSIONS,           \* 4 in the code
    SESSION_IDLE_TIMEOUT,   \* 30 minutes in the code
    MaxLogins               \* bound of the model on the tokens handed out

ASSUME SessionsAssumption ==
    /\ MAX_SESSIONS \in Nat \ {0} /\ MaxLogins \in Nat
    /\ SESSION_IDLE_TIMEOUT \in Nat \ {0}

Slots == 1 .. MAX_SESSIONS

VARIABLES
    s_sessions,     \* [token, expires_in, in_use]; expires_in = -1: expired
    issued,         \* tokens handed out so far, the last one being its number
    since           \* history, per token: the time since its owner logged in or last made
                    \* a request, or Over

auth_vars == <<s_sessions, issued, since>>

Tokens == 1 .. MaxLogins

\* The owner has logged out, or been idle for longer than the time-out.
Over == SESSION_IDLE_TIMEOUT + 1

auth_init ==
    /\ s_sessions = [i \in Slots |-> [token |-> 0, expires_in |-> -1, in_use |-> FALSE]]
    /\ issued = 0
    /\ since = [token \in Tokens |-> Over]

\* How long the owner of a token has made no request when the next step comes.
IdleFor(token) == IF since[token] = Over THEN Over ELSE since[token] + 1

NoRequest == since' = [token \in Tokens |-> IdleFor(token)]
From(t, idle) == since' = [token \in Tokens |-> IF token = t THEN idle ELSE IdleFor(token)]
RequestOf(t) == From(t, IF IdleFor(t) = Over THEN Over ELSE 0)

\* The table one unit of time later.
Later(sessions) ==
    [i \in Slots |-> IF sessions[i].expires_in >= 0
                     THEN [sessions[i] EXCEPT !.expires_in = @ - 1]
                     ELSE sessions[i]]

Expired(session) == session.expires_in < 0

\* find_session_locked: the slot of a token, and of none that has expired.
find_session_locked(sessions, token) ==
    {i \in Slots : sessions[i].in_use /\ sessions[i].token = token /\ ~Expired(sessions[i])}

\* It also gives up the slot of the token it finds expired.
ReclaimLocked(sessions, token) ==
    [i \in Slots |-> IF sessions[i].token = token /\ Expired(sessions[i])
                     THEN [sessions[i] EXCEPT !.in_use = FALSE]
                     ELSE sessions[i]]

\* The first slot that is free, or else the one closest to expiring.
allocate_session_locked(sessions) ==
    LET free   == {i \in Slots : ~sessions[i].in_use}
        oldest == {i \in Slots : \A j \in Slots : sessions[i].expires_in <= sessions[j].expires_in}
        First(S) == CHOOSE i \in S : \A j \in S : i <= j
    IN  IF free # {} THEN First(free) ELSE First(oldest)

-----------------------------------------------------------------------------

Wait ==
    /\ \E i \in Slots : s_sessions[i].expires_in >= 0
    /\ s_sessions' = Later(s_sessions)
    /\ NoRequest /\ UNCHANGED issued

\* Mutant of wp_auth_require: the time-out is added to what is left.
AddTimeout(token) ==
    LET now == Later(s_sessions)
        s   == find_session_locked(now, token)
    IN  /\ s_sessions' = [i \in Slots |->
              IF i \in s THEN [now[i] EXCEPT !.expires_in = @ + SESSION_IDLE_TIMEOUT]
              ELSE ReclaimLocked(now, token)[i]]
        /\ RequestOf(token) /\ UNCHANGED issued

\* Mutant of wp_auth_require: a request does not put off the end of its session.
NoRenewal(token) ==
    /\ s_sessions' = ReclaimLocked(Later(s_sessions), token)
    /\ RequestOf(token) /\ UNCHANGED issued

\* A request with a token, whether it is still good or not.
wp_auth_require(token) ==
    LET now == Later(s_sessions)
        s   == find_session_locked(now, token)
    IN  /\ s_sessions' = [i \in Slots |->
              IF i \in s THEN [now[i] EXCEPT !.expires_in = SESSION_IDLE_TIMEOUT]
              ELSE ReclaimLocked(now, token)[i]]
        /\ RequestOf(token) /\ UNCHANGED issued

\* The password was right.
login_handler ==
    LET now == Later(s_sessions)
        s   == allocate_session_locked(now)
    IN  /\ issued < MaxLogins /\ issued' = issued + 1
        /\ s_sessions' = [now EXCEPT ![s] =
              [token |-> issued', expires_in |-> SESSION_IDLE_TIMEOUT, in_use |-> TRUE]]
        /\ From(issued', 0)

logout_handler(token) ==
    LET now == Later(s_sessions)
        s   == find_session_locked(now, token)
    IN  /\ s_sessions' = [i \in Slots |->
              IF i \in s THEN [now[i] EXCEPT !.in_use = FALSE] ELSE ReclaimLocked(now, token)[i]]
        /\ From(token, Over) /\ UNCHANGED issued
=============================================================================
