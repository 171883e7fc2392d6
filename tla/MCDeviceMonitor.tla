-------------------------- MODULE MCDeviceMonitor --------------------------
(* DeviceMonitor for TLC: what getNetData.lua prints for a known device,   *)
(* for one after an interface without a device, for an unknown device, and *)
(* when the configuration cannot be read.                                  *)
EXTENDS DeviceMonitor

AllOutputs == {<<"found">>, <<"other", "found">>, <<"not_found">>,
               <<"other", "not_found">>, <<"other">>}
Known      == {<<"found">>}
=============================================================================
