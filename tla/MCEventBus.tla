------------------------------ MODULE MCEventBus ------------------------------
(* Instances of EventBus. *)
EXTENDS EventBus

CONSTANTS w1, w2

SomeCharacters ==
    {"event", "telemetry", "t", "tenant", "other", "g", "w", "x", ":", "lamp", "prefix", "suffix"}

ThePrefix == <<"prefix">>

\* The update of the provisioning changes the mode, the tenant and the gateway.
SomeSettings == {
    [generic |-> TRUE, tenant |-> <<"tenant">>, gateway |-> <<"g", "w">>],
    [generic |-> FALSE, tenant |-> <<"other">>, gateway |-> <<"x">>] }

\* Telemetry of a device of the gateway, with an empty tenant and a suffix, of QoS 1, and
\* an event of the gateway itself, of QoS 0, with a payload that cannot be extended.
SomeMessages == {
    [topic |-> << <<"t">>, <<>>, <<"g", "w", ":", "lamp">>, <<"suffix">> >>,
     extensible |-> FALSE, qos |-> 1],
    [topic |-> << <<"event">>, <<"tenant">> >>, extensible |-> FALSE, qos |-> 0] }
=============================================================================
