-------------------------------- MODULE MCAlarm --------------------------------
(* A small instance of AlarmConsume, with a rule and one of the judge's own     *)
(* metrics, and one of FalconMessage.  A behaviour shows one of them, and of   *)
(* the second the robots, wechat or the queue.                                 *)
EXTENDS AlarmConsume, FalconMessage

CONSTANTS c1, c2, u1, u2

VARIABLE part

MCMetricOf == c1 :> "metric" @@ c2 :> "self"
MCKinds    == <<"sms">>
MCWorkers  == [k \in {"sms"} |-> 1]

Content(form, type, counter, parts) == [form |-> form, type |-> type, counter |-> counter, parts |-> parts]
MCContents ==
  {Content("complete", "PROBLEM", "none", {}),
   Content("complete", "DDALERT", "crash.log", {"packageName", "subAddr", "function"}),
   Content("complete", "DDALARM", "alert.cpu", {"packageName"}),
   Content("noFunction", "OK", "none", {})}

MCInit == Init /\ MessageInit /\ part \in {"alarm", "ding", "wechat", "queue"}
MCNext ==
  /\ UNCHANGED part
  /\ \/ part = "alarm" /\ Next /\ UNCHANGED mvars
     \/ part = "ding" /\ (DingNext \/ DingSenders) /\ UNCHANGED vars
     \/ part = "wechat" /\ (WechatNext \/ WechatAnswers) /\ UNCHANGED vars
     \/ part = "queue" /\ QueueNext /\ UNCHANGED vars

\* Readers, combiners and senders go on, and so do the goroutines of falcon-message,
\* whose calls of dingtalk and wechat return, and the ticker of its queue.
AlarmFair ==
  /\ \A r \in Readers : WF_vars(part = "alarm" /\ Read(r))
  /\ \A k \in Channels : WF_vars(part = "alarm" /\ Combine(k)) /\ WF_vars(part = "alarm" /\ Send(k))
MessageFair ==
  /\ WF_mvars(part = "ding" /\ DingSenders)
  /\ WF_mvars(part = "wechat" /\ WechatAnswers)
  /\ WF_mvars(part = "queue" /\ (SendQueueMessage \/ \E b \in batches : BatchEnds(b)))

MCSpec == MCInit /\ [][MCNext]_<<vars, mvars, part>> /\ AlarmFair /\ MessageFair

\* Once no more events and messages come, each has been dealt with in the end.
Settles == <>[](/\ part = "alarm" => Settled
                /\ part # "alarm" => MessagesEnd)
=============================================================================
