------------------------------ MODULE Network ------------------------------
(***************************************************************************)
(* The setup hotspot and the WiFi station (components/net_manager).        *)
(* ap_policy decides whether the hotspot is wanted: for a grace window     *)
(* after boot, then while a client is associated.  net_manager brings the  *)
(* radio into the mode that the policy and the transport setting ask for,  *)
(* and connects the station again when its link is lost.                   *)
(*                                                                         *)
(* Timer callbacks run in the timer task, the handlers of WiFi events in   *)
(* the event task.  The timer task has the higher priority, so the other   *)
(* one runs in the middle of a callback only where that waits: for the     *)
(* console, and for the WiFi driver in the calls that change the mode.     *)
(***************************************************************************)
EXTENDS Integers, Sequences, SequencesExt

CONSTANTS
    MaxStations,        \* stations the hotspot accepts (ap_cfg.ap.max_connection)
    MaxModeFailures     \* bound of the model on the mode changes the driver refuses

ASSUME NetworkAssumption == MaxStations \in Nat \ {0} /\ MaxModeFailures \in Nat

VARIABLES
    transport,          \* config_store's transport: "wifi" or "other"
    s_state,            \* ap_policy: "BOOT_GRACE", "ACTIVE_BY_CLIENT" or "OFF"
    s_grace_active,
    s_client_count,
    s_wifi_started,
    s_sta_connected,
    s_sta_reconnect_timer,  \* armed
    timer_task, event_task, \* where each is in a change of mode: [pc, desired]
    failures,           \* mode changes refused so far
    wifi_mode,          \* external: the mode the driver is configured for
    radio,              \* external: the driver is started
    calls,              \* external: the tasks the driver works for, in their order
    associated,         \* external: stations on the hotspot
    sta_link,           \* external: "down", "connecting" or "up"
    dhcp,               \* external: an address is being obtained
    reachable,          \* external: the configured network is in range
    sta_configured,     \* external: the driver has a network for the station
    events              \* external: the queue of the event loop

policy_vars == <<s_state, s_grace_active, s_client_count>>
driver_vars == <<wifi_mode, radio, calls, associated, sta_link, dhcp, events>>
sta_vars == <<s_sta_connected, s_sta_reconnect_timer>>
net_vars == <<transport, policy_vars, s_wifi_started, sta_vars, timer_task, event_task,
              failures, driver_vars, reachable, sta_configured>>

Idle == [pc |-> "idle", desired |-> "NULL"]

HasAp(mode) == mode \in {"AP", "APSTA"}
HasSta(mode) == mode \in {"STA", "APSTA"}
ApOn == radio /\ HasAp(wifi_mode)
StaOn == radio /\ HasSta(wifi_mode)

\* net_manager_init: the hotspot is on, and the station is given its network and starts
\* if it is wanted.  If not, the driver may still have the network of an earlier boot.
NetworkInit ==
    /\ transport \in {"wifi", "other"}
    /\ s_state = "BOOT_GRACE" /\ s_grace_active = TRUE /\ s_client_count = 0
    /\ s_wifi_started = TRUE /\ s_sta_connected = FALSE /\ s_sta_reconnect_timer = FALSE
    /\ timer_task = Idle /\ event_task = Idle
    /\ failures = 0
    /\ wifi_mode = IF transport = "wifi" THEN "APSTA" ELSE "AP"
    /\ radio = TRUE /\ calls = <<>> /\ associated = 0 /\ sta_link = "down" /\ dhcp = FALSE
    /\ reachable \in BOOLEAN
    /\ sta_configured \in BOOLEAN /\ (transport = "wifi" => sta_configured)
    /\ events = IF transport = "wifi" THEN <<"STA_START">> ELSE <<>>

-----------------------------------------------------------------------------
(* The driver (external) *)

Repeat(e, n) == [i \in 1 .. n |-> e]

\* The driver goes to the given mode, or stops.  Stations that lose the hotspot
\* and a station link that is lost are reported.
DriverGoesTo(mode, on) ==
    LET ap_ends  == ~(on /\ HasAp(mode))
        sta_ends == ~(on /\ HasSta(mode))
        starts   == ~StaOn /\ ~sta_ends
    IN  /\ wifi_mode' = mode /\ radio' = on
        /\ associated' = IF ap_ends THEN 0 ELSE associated
        /\ sta_link' = IF sta_ends THEN "down" ELSE sta_link
        /\ events' = events
              \o (IF ap_ends THEN Repeat("AP_STADISCONNECTED", associated) ELSE <<>>)
              \o (IF sta_ends /\ sta_link # "down" THEN <<"STA_DISCONNECTED">> ELSE <<>>)
              \o (IF starts THEN <<"STA_START">> ELSE <<>>)
        /\ UNCHANGED dhcp

\* esp_wifi_connect: nothing happens without a station or a network for it, or while
\* it is busy; the error is ignored, and no event follows it (net_manager.c:109,118).
esp_wifi_connect ==
    sta_link' = IF StaOn /\ sta_configured /\ sta_link = "down" THEN "connecting" ELSE sta_link

Outside == UNCHANGED <<transport, policy_vars, s_wifi_started, sta_vars, timer_task, event_task,
                       failures, wifi_mode, radio, calls, sta_configured>>

Associate ==
    /\ ApOn /\ associated < MaxStations
    /\ associated' = associated + 1
    /\ events' = Append(events, "AP_STACONNECTED")
    /\ Outside /\ UNCHANGED <<sta_link, dhcp, reachable>>

Leave ==
    /\ associated > 0
    /\ associated' = associated - 1
    /\ events' = Append(events, "AP_STADISCONNECTED")
    /\ Outside /\ UNCHANGED <<sta_link, dhcp, reachable>>

NetworkComesAndGoes ==
    /\ reachable' = ~reachable
    /\ Outside /\ UNCHANGED <<associated, sta_link, dhcp, events>>

\* A try to connect ends, or a link whose network is gone.
LinkChanges ==
    /\ \/ /\ sta_link = "connecting" /\ reachable
          /\ sta_link' = "up" /\ dhcp' = TRUE
          /\ UNCHANGED events
       \/ /\ sta_link # "down" /\ ~reachable
          /\ sta_link' = "down"
          /\ events' = Append(events, "STA_DISCONNECTED")
          /\ UNCHANGED dhcp
    /\ Outside /\ UNCHANGED <<associated, reachable>>

\* An address arrives, at the latest before the loss of the link is handled.
AddressArrives ==
    /\ dhcp /\ dhcp' = FALSE
    /\ events' = Append(events, "GOT_IP")
    /\ Outside /\ UNCHANGED <<associated, sta_link, reachable>>

-----------------------------------------------------------------------------
(* apply_wifi_mode, in the task t                                           *)

Tasks == {"timer", "event"}
task(t) == IF t = "timer" THEN timer_task ELSE event_task
TaskGoes(t, call) ==
    IF t = "timer" THEN timer_task' = call /\ UNCHANGED event_task
                   ELSE event_task' = call /\ UNCHANGED timer_task

compute_desired_mode ==
    LET ap_on  == s_state # "OFF"
        sta_on == transport = "wifi"
    IN  IF ap_on /\ sta_on THEN "APSTA" ELSE IF ap_on THEN "AP" ELSE IF sta_on THEN "STA" ELSE "NULL"

\* A call of the driver, which serves the tasks in the order of their calls.
Call(t, pc, desired, waiting) ==
    TaskGoes(t, [pc |-> pc, desired |-> desired]) /\ calls' = Append(waiting, t)
Return(t) == TaskGoes(t, Idle) /\ calls' = Tail(calls)
Served(t, pc) == calls # <<>> /\ Head(calls) = t /\ task(t).pc = pc

\* The callback of set_state: what is wanted now is compared with what is there.
ModeDecided(t) ==
    LET desired == compute_desired_mode
        pc == IF desired = "NULL" THEN (IF s_wifi_started THEN "stop" ELSE "idle")
              ELSE IF s_wifi_started /\ wifi_mode = desired THEN "idle" ELSE "set_mode"
    IN  /\ task(t).pc = "changed"
        /\ IF pc = "idle" THEN TaskGoes(t, Idle) /\ UNCHANGED calls
                          ELSE Call(t, pc, desired, calls)
        /\ UNCHANGED <<transport, policy_vars, s_wifi_started, sta_vars, failures, wifi_mode, radio,
                       associated, sta_link, dhcp, events, reachable, sta_configured>>

\* A call of the driver is refused: it is logged, and nothing tries again.
ModeRefused(t) ==
    /\ \E pc \in {"stop", "set_mode", "start"} : Served(t, pc)
    /\ failures < MaxModeFailures /\ failures' = failures + 1
    /\ Return(t)
    /\ UNCHANGED <<transport, policy_vars, s_wifi_started, sta_vars, wifi_mode, radio, associated,
                   sta_link, dhcp, events, reachable, sta_configured>>

ModeStops(t) ==
    /\ Served(t, "stop")
    /\ DriverGoesTo(wifi_mode, FALSE)
    /\ s_wifi_started' = FALSE
    /\ Return(t)
    /\ UNCHANGED <<transport, policy_vars, sta_vars, failures, reachable, sta_configured>>

ModeIsSet(t) ==
    /\ Served(t, "set_mode")
    /\ DriverGoesTo(task(t).desired, radio)
    /\ IF s_wifi_started THEN Return(t) ELSE Call(t, "start", task(t).desired, Tail(calls))
    /\ UNCHANGED <<transport, policy_vars, s_wifi_started, sta_vars, failures, reachable,
                   sta_configured>>

ModeStarts(t) ==
    /\ Served(t, "start")
    /\ DriverGoesTo(wifi_mode, TRUE)
    /\ s_wifi_started' = TRUE
    /\ Return(t)
    /\ UNCHANGED <<transport, policy_vars, sta_vars, failures, reachable, sta_configured>>

apply_wifi_mode(t) ==
    ModeDecided(t) \/ ModeRefused(t) \/ ModeStops(t) \/ ModeIsSet(t) \/ ModeStarts(t)

-----------------------------------------------------------------------------
(* ap_policy *)

\* set_state in the task t, up to the line it logs: the callback comes next.
set_state(t, new_state) ==
    /\ s_state' = new_state
    /\ TaskGoes(t, IF new_state = s_state THEN Idle ELSE [Idle EXCEPT !.pc = "changed"])

\* The grace timer is started once, at boot.
grace_timer_cb ==
    /\ s_grace_active /\ timer_task = Idle
    /\ s_grace_active' = FALSE
    /\ set_state("timer", IF s_client_count > 0 THEN "ACTIVE_BY_CLIENT" ELSE "OFF")
    /\ UNCHANGED <<transport, s_client_count, s_wifi_started, sta_vars, failures,
                   driver_vars, reachable, sta_configured>>

NoChange == UNCHANGED <<s_state, timer_task, event_task>>

Handled == /\ events' = Tail(events)
           /\ UNCHANGED <<transport, s_grace_active, s_wifi_started, failures,
                          wifi_mode, radio, calls, associated, reachable, sta_configured>>

ClientConnected ==
    /\ s_client_count' = s_client_count + 1
    /\ IF ~s_grace_active THEN set_state("event", "ACTIVE_BY_CLIENT") ELSE NoChange

\* Mutant of ClientDisconnected: the grace window is not looked at.
LastClientEndsGrace ==
    /\ s_client_count' = IF s_client_count > 0 THEN s_client_count - 1 ELSE 0
    /\ IF s_client_count' = 0 THEN set_state("event", "OFF") ELSE NoChange

ClientDisconnected ==
    /\ s_client_count' = IF s_client_count > 0 THEN s_client_count - 1 ELSE 0
    /\ IF ~s_grace_active /\ s_client_count' = 0 THEN set_state("event", "OFF") ELSE NoChange

wifi_event_handler ==
    /\ event_task = Idle /\ events # <<>>
    /\ \/ Head(events) = "AP_STACONNECTED" /\ ClientConnected
       \/ Head(events) = "AP_STADISCONNECTED" /\ ClientDisconnected
    /\ Handled
    /\ UNCHANGED <<sta_vars, sta_link, dhcp>>

-----------------------------------------------------------------------------
(* The station *)

sta_reconnect_timer_cb ==
    /\ s_sta_reconnect_timer /\ timer_task = Idle
    /\ s_sta_reconnect_timer' = FALSE
    /\ esp_wifi_connect
    /\ UNCHANGED <<transport, policy_vars, s_wifi_started, s_sta_connected, timer_task, event_task,
                   failures, wifi_mode, radio, calls, associated, dhcp, reachable, events,
                   sta_configured>>

\* Mutant of StaDisconnected: the timer is started only when a link was lost,
\* and not when a try to connect failed.
RetryOnLossOnly ==
    /\ s_sta_connected' = FALSE
    /\ s_sta_reconnect_timer' = s_sta_connected
    /\ dhcp' = (dhcp /\ sta_link = "up")

StaDisconnected ==
    /\ s_sta_connected' = FALSE
    /\ s_sta_reconnect_timer' = TRUE
    /\ dhcp' = (dhcp /\ sta_link = "up")

sta_event_handler ==
    /\ event_task = Idle /\ events # <<>>
    /\ \/ /\ Head(events) = "STA_START"
          /\ esp_wifi_connect
          /\ UNCHANGED <<sta_vars, dhcp>>
       \/ /\ Head(events) = "STA_DISCONNECTED"
          /\ StaDisconnected
          /\ UNCHANGED sta_link
       \/ /\ Head(events) = "GOT_IP"
          /\ s_sta_connected' = TRUE
          /\ UNCHANGED <<s_sta_reconnect_timer, sta_link, dhcp>>
    /\ Handled /\ NoChange
    /\ UNCHANGED s_client_count

\* The portal stores another transport.  The radio's mode follows at the next change
\* of the hotspot's state; the station's network is set only at the restart that the
\* portal asks for.
EditTransport ==
    /\ transport' \in {"wifi", "other"} \ {transport}
    /\ UNCHANGED <<policy_vars, s_wifi_started, sta_vars, timer_task, event_task, failures,
                   driver_vars, reachable, sta_configured>>
=============================================================================
