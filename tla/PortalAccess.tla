---------------------------- MODULE PortalAccess ----------------------------
(***************************************************************************)
(* How people get at the portal of a running device: the hotspot and the   *)
(* network it is reached over (Network), and the login sessions            *)
(* (AuthSessions).  People come and go, log in, and change the transport;  *)
(* the network of the site appears and disappears.  MaxMoves bounds all    *)
(* of that together; the device's own steps are not bounded.               *)
(***************************************************************************)
EXTENDS Network, AuthSessions

CONSTANT MaxMoves

ASSUME MovesAssumption == MaxMoves \in Nat

VARIABLE moves

vars == <<net_vars, auth_vars, moves>>

Init ==
    /\ NetworkInit /\ auth_init
    /\ moves = 0

Move == moves < MaxMoves /\ moves' = moves + 1
NoMove == UNCHANGED moves
NetworkOnly == UNCHANGED auth_vars
SessionsOnly == UNCHANGED net_vars

TimerTask ==
    grace_timer_cb \/ sta_reconnect_timer_cb \/ apply_wifi_mode("timer")

EventTask ==
    wifi_event_handler \/ sta_event_handler \/ apply_wifi_mode("event")

Sessions ==
    \/ Wait /\ NoMove
    \/ login_handler /\ Move
    \/ \E token \in 1 .. issued : (wp_auth_require(token) \/ logout_handler(token)) /\ NoMove

Next ==
    \/ (Associate \/ Leave \/ NetworkComesAndGoes \/ EditTransport) /\ Move /\ NetworkOnly
    \/ (LinkChanges \/ AddressArrives) /\ NoMove /\ NetworkOnly
    \/ TimerTask /\ NoMove /\ NetworkOnly
    \/ EventTask /\ NoMove /\ NetworkOnly
    \/ Sessions /\ SessionsOnly

\* The two tasks go on, and the driver answers; nothing is asked of people, of
\* the network or of the HTTP server.  The callbacks of one timer do not keep
\* the other's waiting: each is dispatched when its time has come.
Spec ==
    /\ Init /\ [][Next]_vars
    /\ WF_vars(grace_timer_cb /\ NoMove /\ NetworkOnly)
    /\ SF_vars(sta_reconnect_timer_cb /\ NoMove /\ NetworkOnly)
    /\ WF_vars(apply_wifi_mode("timer") /\ NoMove /\ NetworkOnly)
    /\ WF_vars(EventTask /\ NoMove /\ NetworkOnly)
    /\ WF_vars(LinkChanges /\ NoMove /\ NetworkOnly)
    /\ WF_vars(AddressArrives /\ NoMove /\ NetworkOnly)

-----------------------------------------------------------------------------
(* Properties *)

Calls == [pc : {"idle", "changed", "stop", "set_mode", "start"},
          desired : {"NULL", "AP", "STA", "APSTA"}]

\* Every variable has its type; the count of clients is never negative.
TypeOK ==
    /\ transport \in {"wifi", "other"}
    /\ s_state \in {"BOOT_GRACE", "ACTIVE_BY_CLIENT", "OFF"}
    /\ s_grace_active \in BOOLEAN /\ s_client_count \in Nat
    /\ s_wifi_started \in BOOLEAN /\ s_sta_connected \in BOOLEAN
    /\ s_sta_reconnect_timer \in BOOLEAN
    /\ timer_task \in Calls /\ event_task \in Calls
    /\ failures \in 0 .. MaxModeFailures
    /\ wifi_mode \in {"AP", "STA", "APSTA"} /\ radio \in BOOLEAN
    /\ calls \in Seq(Tasks)
    /\ associated \in 0 .. MaxStations /\ sta_link \in {"down", "connecting", "up"}
    /\ dhcp \in BOOLEAN /\ reachable \in BOOLEAN /\ sta_configured \in BOOLEAN
    /\ events \in Seq({"AP_STACONNECTED", "AP_STADISCONNECTED", "STA_START", "STA_DISCONNECTED",
                       "GOT_IP"})
    /\ s_sessions \in [Slots -> [token : 0 .. issued, expires_in : -1 .. SESSION_IDLE_TIMEOUT,
                                 in_use : BOOLEAN]]
    /\ since \in [Tokens -> 0 .. Over]
    /\ issued \in 0 .. MaxLogins /\ moves \in 0 .. MaxMoves

\* Nothing is under way in the tasks, and the driver has done all it was told.
Settled == events = <<>> /\ timer_task = Idle /\ event_task = Idle /\ failures = 0

\* ap_policy.c and net_manager.c: the hotspot is on through the grace window,
\* and whenever the tasks have caught up it is on exactly while a client is on
\* it, although the grace timer's callback and the event handlers change the
\* policy's state and the radio's mode in two tasks.
HotspotFollowsPolicy ==
    /\ s_grace_active => ApOn
    /\ Settled => /\ ApOn = (s_grace_active \/ associated > 0)
                  /\ ApOn = (s_state # "OFF")
                  /\ s_client_count = associated

\* sta_event_handler and its timer: once the network that was configured at boot
\* stays in range of a station that stays on, the device gets connected and knows
\* it, and once it stays out of range the device knows that, however the loss of a
\* link, a late address and the pause before the next try have crossed.  A station
\* that the driver has no network for stays down (net_manager.c:166).
StaStatusConverges ==
    /\ <>[](StaOn /\ sta_configured /\ reachable) => <>[]s_sta_connected
    /\ <>[](StaOn /\ ~reachable) => <>[]~s_sta_connected

Live(sessions, token) ==
    \E i \in Slots : /\ sessions[i].in_use /\ sessions[i].token = token
                     /\ ~Expired(sessions[i])

\* auth.c: someone who is logged in stays so until they log out or make no request
\* for the whole time-out, unless every slot is held by someone who did within it
\* and theirs is the session that has been idle for the longest; and nobody stays
\* logged in beyond the time-out, or again once a session has ended.
SessionsEndForAReason ==
    [][\A token \in 1 .. issued' :
          /\ Live(s_sessions, token) /\ ~Live(s_sessions', token) =>
                \/ logout_handler(token)
                \/ IdleFor(token) = Over
                \/ /\ issued' = issued + 1
                   /\ \A i \in Slots :
                         /\ s_sessions[i].in_use
                         /\ IdleFor(s_sessions[i].token) # Over
                         /\ IdleFor(s_sessions[i].token) <= IdleFor(token)
          /\ Live(s_sessions', token) /\ token <= issued =>
                Live(s_sessions, token) /\ IdleFor(token) # Over
      ]_auth_vars
=============================================================================
