------------------------------ MODULE TransferItem ------------------------------
(***************************************************************************)
(* What transfer makes of the values it is sent: which are refused, and    *)
(* the items judge and graph get (src/transfer/receiver/rpc/               *)
(* rpc_transfer.go, receiver/socket/socket_telnet.go, sender/sender.go).   *)
(***************************************************************************)
EXTENDS Integers

CONSTANTS
  MinStep,      \* config, at least 1
  DefaultStep,  \* g.DEFAULT_STEP
  Now           \* time.Now() when the values are received

ASSUME ItemAssumption ==
  MinStep \in Nat \ {0} /\ DefaultStep \in Nat \ {0} /\ Now \in Nat \ {0}

Types == {"GAUGE", "COUNTER", "DERIVE"}

\* Go's integer remainder has the sign of the dividend.
Rem(a, b) == IF a >= 0 THEN a % b ELSE -((-a) % b)

-----------------------------------------------------------------------------
(* RecvMetricValues.  A value is [metric, endpoint, tags, type, value,     *)
(* step, ts]: metric is "named", "empty" or "kernel.hostname", endpoint    *)
(* "named" or "empty", tags "fit" or "tooLong", value "number", "numeral", *)
(* "text", "empty" or "other".                                             *)

Refused(v) ==
  \/ v.metric \in {"kernel.hostname", "empty"} \/ v.endpoint = "empty"
  \/ v.type \notin Types
  \/ v.value \notin {"number", "numeral"}
  \/ v.step <= 0
  \/ v.tags = "tooLong"

Received(v) ==
  [ts   |-> IF v.ts <= 0 \/ v.ts > Now * 2 THEN Now ELSE v.ts,
   step |-> v.step, type |-> v.type]

(* socketTelnetHandle.  A line is [fields, ts, type, step]; the type is    *)
(* there from the fifth field on, the step with the sixth.                 *)

LineType(l) == IF l.fields >= 5 THEN l.type ELSE "COUNTER"
LineRefused(l) == LineType(l) \notin Types

ReadLine(l) ==
  [ts |-> l.ts, type |-> LineType(l),
   step |-> IF l.fields = 6 THEN l.step ELSE DefaultStep]

-----------------------------------------------------------------------------
(* Push2JudgeSendQueue, Push2GraphSendQueue *)

alignTs(ts, period) == ts - Rem(ts, period)

StepOf(item) == IF item.step < MinStep THEN MinStep ELSE item.step

JudgeItem(item) == [ts |-> alignTs(item.ts, StepOf(item)), type |-> item.type]

\* Mutant: the graph item keeps a step below MinStep for its timestamp.
GraphItemShortStep(item) ==
  [ts        |-> alignTs(item.ts, IF item.step < 1 THEN 1 ELSE item.step),
   step      |-> StepOf(item),
   heartbeat |-> 2 * StepOf(item),
   dsType    |-> IF item.type = "GAUGE" THEN "GAUGE" ELSE "DERIVE",
   min       |-> IF item.type = "GAUGE" THEN "U" ELSE "0"]

GraphItem(item) ==
  [ts        |-> alignTs(item.ts, StepOf(item)),
   step      |-> StepOf(item),
   heartbeat |-> 2 * StepOf(item),
   dsType    |-> IF item.type = "GAUGE" THEN "GAUGE" ELSE "DERIVE",
   min       |-> IF item.type = "GAUGE" THEN "U" ELSE "0"]

=============================================================================
