--------------------------- MODULE MC_MqttBridge ---------------------------
(* Small instances of MqttBridge: two brokers, both modes, MQTT disabled.    *)
EXTENDS MqttBridge

CONSTANTS brokerA, brokerB

Setting(enabled, batch, flat, interval, host) ==
    [enabled |-> enabled, batch_enabled |-> batch, flat_telemetry |-> flat,
     batch_interval |-> interval, host |-> host]

ImmediateA == Setting(TRUE, FALSE, FALSE, 0, brokerA)
ImmediateB == Setting(TRUE, FALSE, TRUE, 0, brokerB)
BatchA == Setting(TRUE, TRUE, FALSE, 2, brokerA)
BatchFlatA == Setting(TRUE, TRUE, TRUE, 1, brokerA)
Disabled == Setting(FALSE, FALSE, FALSE, 0, NoHost)

AllModes == {ImmediateA, ImmediateB, BatchA, BatchFlatA, Disabled}
ImmediateModes == {ImmediateA, ImmediateB, Disabled}
BatchModes == {BatchA, BatchFlatA}
=============================================================================
