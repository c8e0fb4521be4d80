---------------------------- MODULE FalconMessage ----------------------------
(* What brings alarm's messages to people: falcon-message, whose handler gives  *)
(* each to the robots of dingtalk or to wechat (src/falcon-message), the loop   *)
(* that keeps wechat's token, and the queue of dinghook (src/dinghook).         *)
EXTENDS SequencesExt, Integers

CONSTANTS
    Contents,       \* messages: form, type, counter and what it is made of
    Robots,      \* tokens of dingtalk's robots
    MaxPosts,    \* bound: messages posted to falcon-message, and pushed on the queue
    Limit,       \* of the DingQueue
    Expires,     \* how long wechat's token is good for
    Ahead,       \* how much earlier the loop asks for the next one
    FetchTime, PostTime, \* how long calls of wechat may take
    Default,     \* how long a cache keeps what is put into it for no time
    MaxTime      \* bound: the clock

ASSUME MessageAssumption ==
    /\ MaxPosts \in Nat /\ Limit \in Nat /\ MaxTime \in Nat
    /\ Expires \in Nat /\ Ahead \in 1..(Expires - 1) /\ Default \in Nat
    /\ FetchTime \in Nat /\ PostTime \in Nat /\ FetchTime + PostTime < Ahead

VARIABLES
    posts,     \* the messages posted, in order: kind, receivers, answer
    sending,   \* <<post, robot>> of the goroutines that send
    taken,     \* <<post, robot>> that the robot took
    refused,   \* <<post, robot>> that was given up
    pushed,    \* messages pushed on the queue; each is its number
    waiting,  \* those that wait in it
    batches,   \* batches that are being sent
    ended,     \* history: batches that were sent, or given up
    clock,
    loop,      \* GetAccessToken: where it is, and since or until when
    token,     \* what is cached: whether wechat takes it, and until when
    wechat,    \* a post that is being sent to wechat, with the token it has
    trouble    \* history: wechat gave no token when it was asked for one
dingvars == <<sending, taken, refused>>
queuevars == <<pushed, waiting, batches, ended>>
tokenvars == <<clock, loop, token, trouble>>
mvars == <<posts, dingvars, queuevars, tokenvars, wechat>>

NoToken == [good |-> FALSE, until |-> 0]
NoPost == [no |-> 0, from |-> 0, token |-> NoToken]

MessageInit ==
    /\ posts = <<>> /\ sending = {} /\ taken = {} /\ refused = {}
    /\ pushed = 0 /\ waiting = <<>> /\ batches = {} /\ ended = {}
    /\ clock = 0 /\ loop = [at |-> "fetch", from |-> 0] /\ token = NoToken
    /\ wechat = NoPost /\ trouble = FALSE

----------------------------------------------------------------------------
(* POST /api/v1/message *)

\* HandleContent: too few parts are an error; without a function it panics, which
\* the middleware turns into one.
HandleContent(m) == m.form = "complete"

\* What main makes of the types: those of self-defined alarms keep their counter.
Counter(m) == IF m.type \in {"DDALERT", "DDALARM", "DDOK"} THEN m.counter ELSE "none"

\* What the content needs for its card, in this order.
Needs(m) ==
    CASE m.counter \in {"crash.log"}      -> <<"packageName", "subAddr", "function">>
      [] m.counter = "crash.log.flag"     -> <<"content", "subAddr", "function">>
      [] m.counter = "offline.reboot"     -> <<"offlineRebootInfo">>
      [] OTHER                            -> <<"description", "packageName">>
Counters(m) ==
    IF m.type = "DDALERT" THEN {"crash.log", "crash.log.flag", "offline.reboot"}
    ELSE {"alert.cpu", "alert.memory", "foreground.app"}

\* The card a robot is sent, or why it is sent none.
Card(m) ==
    IF Counter(m) = "none" THEN "message"
    ELSE IF m.counter \notin Counters(m) THEN "unexpected"
    ELSE IF ToSet(Needs(m)) \subseteq m.parts
         THEN IF m.counter \in {"crash.log", "crash.log.flag"} THEN "actionCard" ELSE "markdown"
         ELSE "incomplete"
Sendable(m) == Card(m) \in {"message", "actionCard", "markdown"}

Answered(m, a) == posts' = Append(posts, [kind |-> m, answer |-> a])
Post(m) == m \in Contents /\ Len(posts) < MaxPosts

PostBad(m) ==
    /\ Post(m) /\ ~HandleContent(m)
    /\ Answered(m, "error")
    /\ UNCHANGED <<dingvars, queuevars, tokenvars, wechat>>

\* A goroutine for each robot; the answer waits for none.
PostDing(m) ==
    /\ Post(m) /\ HandleContent(m)
    /\ Answered(m, "ok")
    /\ \E to \in SUBSET Robots \ {{}} : sending' = sending \cup {<<Len(posts) + 1, r>> : r \in to}
    /\ UNCHANGED <<taken, refused, queuevars, tokenvars, wechat>>

DingSend(s) ==
    /\ s \in sending /\ sending' = sending \ {s}
    /\ \/ Sendable(posts[s[1]].kind) /\ taken' = taken \cup {s} /\ UNCHANGED refused
       \/ refused' = refused \cup {s} /\ UNCHANGED taken
    /\ UNCHANGED <<posts, queuevars, tokenvars, wechat>>

Found == token.until > clock

PostWechat(m) ==
    /\ Post(m) /\ HandleContent(m) /\ wechat = NoPost
    /\ IF Found
       THEN Answered(m, "none") /\ wechat' = [no |-> Len(posts) + 1, from |-> clock, token |-> token]
       ELSE Answered(m, "error") /\ UNCHANGED wechat
    /\ UNCHANGED <<dingvars, queuevars, tokenvars>>

\* Whatever wechat answers is an answer.
WechatAnswers ==
    /\ wechat # NoPost
    /\ \E a \in {"ok", "error"} : posts' = [posts EXCEPT ![wechat.no].answer = a]
    /\ wechat' = NoPost
    /\ UNCHANGED <<dingvars, queuevars, tokenvars>>

----------------------------------------------------------------------------
(* GetAccessToken *)

\* Mutant: the next token is asked for when the old one has ended.
SleepUntilEnd(expires) == loop' = [at |-> "sleep", from |-> clock + expires]
SleepUntil(expires) ==
    loop' = [at |-> "sleep", from |-> clock + (IF expires > Ahead THEN expires - Ahead ELSE 0)]

FetchOk ==
    /\ loop.at = "fetch"
    /\ token' = [good |-> TRUE, until |-> clock + Expires]
    /\ SleepUntil(Expires)
    /\ UNCHANGED <<posts, dingvars, queuevars, clock, trouble, wechat>>

\* An answer without a token is waited on, and put into the cache like one, for the
\* time that is the cache's default.
FetchRefused ==
    /\ loop.at = "fetch"
    /\ loop' = [at |-> "pause", from |-> clock + 1] /\ trouble' = TRUE
    /\ UNCHANGED <<posts, dingvars, queuevars, clock, token, wechat>>
CacheRefused ==
    /\ loop.at = "pause" /\ clock >= loop.from
    /\ token' = [good |-> FALSE, until |-> clock + Default]
    /\ SleepUntil(0)
    /\ UNCHANGED <<posts, dingvars, queuevars, clock, trouble, wechat>>

\* An error ends the loop for good.
FetchFails ==
    /\ loop.at = "fetch"
    /\ loop' = [at |-> "over", from |-> clock] /\ trouble' = TRUE
    /\ UNCHANGED <<posts, dingvars, queuevars, clock, token, wechat>>

Wake ==
    /\ loop.at = "sleep" /\ clock >= loop.from
    /\ loop' = [at |-> "fetch", from |-> clock]
    /\ UNCHANGED <<posts, dingvars, queuevars, clock, token, trouble, wechat>>

\* Calls take their time at most, and sleeps end in time.
Pass ==
    /\ clock < MaxTime
    /\ loop.at = "fetch" => clock < loop.from + FetchTime
    /\ loop.at \in {"sleep", "pause"} => clock < loop.from
    /\ wechat # NoPost => clock < wechat.from + PostTime
    /\ clock' = clock + 1
    /\ UNCHANGED <<posts, dingvars, queuevars, loop, token, trouble, wechat>>

GetAccessToken == FetchOk \/ FetchRefused \/ CacheRefused \/ FetchFails \/ Wake

----------------------------------------------------------------------------
(* DingQueue *)

Push ==
    /\ pushed < MaxPosts /\ pushed' = pushed + 1
    /\ waiting' = Append(waiting, pushed')
    /\ UNCHANGED <<posts, dingvars, batches, ended, tokenvars, wechat>>

\* What is left after a send: with a limit the inner loop takes all the same.
Popped == <<>>

SendQueueMessage ==
    /\ waiting # <<>>
    /\ waiting' = Popped
    /\ batches' = batches \cup {waiting}
    /\ UNCHANGED <<posts, dingvars, pushed, ended, tokenvars, wechat>>

\* A batch the robot refuses is replaced by a text, which Ding.Send takes for none
\* of its types.
BatchEnds(b) ==
    /\ b \in batches /\ batches' = batches \ {b}
    /\ \E how \in {"taken", "refused"} : ended' = ended \cup {[batch |-> b, how |-> how]}
    /\ UNCHANGED <<posts, dingvars, pushed, waiting, tokenvars, wechat>>

----------------------------------------------------------------------------
\* The robots, wechat and the queue have nothing in common but the handler.
DingNext == \E m \in Contents : PostBad(m) \/ PostDing(m)
DingSenders == \E s \in sending : DingSend(s)
WechatNext == GetAccessToken \/ Pass \/ \E m \in Contents : PostWechat(m)
QueueNext == Push \/ SendQueueMessage \/ \E b \in batches : BatchEnds(b)

----------------------------------------------------------------------------
MessageTypeOK ==
    /\ \A n \in DOMAIN posts : posts[n].kind \in Contents /\ posts[n].answer \in {"ok", "error", "none"}
    /\ sending \cup taken \cup refused \subseteq (DOMAIN posts) \X Robots
    /\ waiting \in Seq(1..pushed) /\ batches \subseteq Seq(1..pushed)
    /\ clock \in 0..MaxTime /\ token.good \in BOOLEAN /\ wechat.no \in 0..Len(posts) /\ trouble \in BOOLEAN

\* A message that was pushed waits in the queue or is in one batch, and a batch is a
\* stretch of what was pushed, in order, however the goroutines that send them overlap.
AllBatches == batches \cup {e.batch : e \in ended}
QueueWhole ==
    /\ \A n \in 1..pushed : Cardinality({b \in AllBatches \cup {waiting} : n \in ToSet(b)}) = 1
    /\ \A b \in AllBatches : \A k \in 1..(Len(b) - 1) : b[k + 1] = b[k] + 1

\* As long as every call for a token succeeds, what is sent to wechat has a token that
\* is good when it is found and still when it arrives, with no lock between the loop
\* that renews it and the handlers.
TokenInTime ==
    ~trouble => /\ token.good => token.until > clock
                /\ wechat # NoPost => wechat.token.until > clock

\* The queue loses and repeats nothing, and tokens are renewed in time.
MessagesSound == MessageTypeOK /\ QueueWhole /\ TokenInTime

\* What was handed to goroutines comes to an end, and the queue is emptied.
MessagesEnd == sending = {} /\ wechat = NoPost /\ waiting = <<>> /\ batches = {}

\* dinghook.go:57: with a limit at most that many messages are sent at a time.
LimitKept == \A b \in batches : Limit > 0 => Len(b) <= Limit
=============================================================================
