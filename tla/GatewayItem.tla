---------------------------- MODULE GatewayItem ----------------------------
(* What a gateway hands on of the values it is sent.  Its filters are transfer's *)
(* (src/gateway/receiver/rpc/rpc_transfer.go, socket/socket_telnet.go), but it  *)
(* also takes the tags apart, and what it accepts it sends to transfer as the   *)
(* values of an rpc call (sender/send_tasks.go).                                *)
EXTENDS TransferItem

\* Tags may also be "torn": not all pairs of a key and a value.
GatewayRefuses(v) == Refused(v) \/ v.tags = "torn"

LineItem(l) == ReadLine(l)

convert(item) ==
    [metric |-> "named", endpoint |-> "named", tags |-> "fit", value |-> "number",
     type |-> item.type, step |-> item.step, ts |-> item.ts]
=============================================================================
