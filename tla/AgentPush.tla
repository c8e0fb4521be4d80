----------------------------- MODULE AgentPush -----------------------------
(* How the agent brings batches to the transfers or gateways of its list        *)
(* (src/agent/g/transfer.go, g/rpc.go, g/var.go).  Each pusher, a collector or a *)
(* request to /v1/push, has one batch and offers it to the addresses in random   *)
(* order until one takes it.  A client has one connection and one call at a      *)
(* time; the call itself is made by a goroutine that nobody waits for once it    *)
(* has timed out.                                                               *)
EXTENDS Integers, FiniteSets

CONSTANTS
    Pushers,       \* goroutines, named as their batches
    Addrs,         \* Transfer.Addrs
    NoClient

ASSUME PushersHaveAddrs == Addrs # {} /\ IsFiniteSet(Addrs) /\ NoClient \notin Pushers

VARIABLES
    at,            \* pusher -> what it does next
    left,          \* pusher -> addresses it has not come to
    using,         \* pusher -> <<address, client>>, a client named by the pusher that made it
    TransferClients, \* address -> client, or NoClient
    locked,        \* <<address, client>> -> whether a call holds its lock
    conn,          \* <<address, client>> -> whether it has a connection, not nil
    flight,        \* <<pusher, address>> -> the call's goroutine
    taken,         \* <<pusher, address>> -> whether the address has handled the batch
    alive          \* whether the agent's process runs
pushvars == <<at, left, using, TransferClients, locked, conn, flight, taken, alive>>

Clients == Addrs \X Pushers
Calls == Pushers \X Addrs
NoCall == <<NoClient, NoClient>>
Flight(x) == [at |-> x, client |-> NoClient]

AgentPushTypeOK ==
    /\ at \in [Pushers -> {"new", "next", "init", "lock", "wait", "sent", "failed"}]
    /\ left \in [Pushers -> SUBSET Addrs]
    /\ using \in [Pushers -> Clients \cup (Addrs \X {NoClient}) \cup {NoCall}]
    /\ TransferClients \in [Addrs -> Pushers \cup {NoClient}]
    /\ locked \in [Clients -> BOOLEAN] /\ conn \in [Clients -> BOOLEAN]
    /\ flight \in [Calls -> [at : {"none", "ready", "sent", "answered", "late", "adrift"},
                            client : Pushers \cup {NoClient}]]
    /\ taken \in [Calls -> BOOLEAN] /\ alive \in BOOLEAN

AgentPushInit ==
    /\ at = [p \in Pushers |-> "new"]
    /\ left = [p \in Pushers |-> Addrs]
    /\ using = [p \in Pushers |-> NoCall]
    /\ TransferClients = [a \in Addrs |-> NoClient]
    /\ locked = [c \in Clients |-> FALSE]
    /\ conn = [c \in Clients |-> FALSE]
    /\ flight = [c \in Calls |-> Flight("none")]
    /\ taken = [c \in Calls |-> FALSE]
    /\ alive = TRUE

Addr(p) == using[p][1]
Now(p, from, to) == alive /\ at[p] = from /\ at' = [at EXCEPT ![p] = to]

----------------------------------------------------------------------------
\* SendMetrics takes the next address and looks for its client; two pushers that
\* find none both make one, and the later stays in the map.
GetTransferClient(p, a) ==
    /\ alive /\ at[p] \in {"new", "next"} /\ a \in left[p]
    /\ at' = [at EXCEPT ![p] = IF TransferClients[a] = NoClient THEN "init" ELSE "lock"]
    /\ left' = [left EXCEPT ![p] = @ \ {a}]
    /\ using' = [using EXCEPT ![p] = <<a, TransferClients[a]>>]
    /\ UNCHANGED <<TransferClients, locked, conn, flight, taken, alive>>

InitTransferClient(p) ==
    /\ Now(p, "init", "lock")
    /\ using' = [using EXCEPT ![p][2] = p]
    /\ TransferClients' = [TransferClients EXCEPT ![Addr(p)] = p]
    /\ UNCHANGED <<left, locked, conn, flight, taken, alive>>

\* Every address has failed: the batch is not kept.
GiveUp(p) ==
    /\ left[p] = {}
    /\ Now(p, "next", "failed")
    /\ UNCHANGED <<left, using, TransferClients, locked, conn, flight, taken, alive>>

----------------------------------------------------------------------------
\* SingleConnRpcClient.Call: lock the client, connect if it has no connection, let a
\* goroutine call, and wait for its answer or for ten seconds.
ServerConn(p) ==
    /\ Now(p, "lock", "wait")
    /\ ~locked[using[p]]
    /\ locked' = [locked EXCEPT ![using[p]] = TRUE]
    /\ conn' = [conn EXCEPT ![using[p]] = TRUE]
    /\ flight' = [flight EXCEPT ![<<p, Addr(p)>>] = [at |-> "ready", client |-> using[p][2]]]
    /\ UNCHANGED <<left, using, TransferClients, taken, alive>>

\* Four dials in a row fail.
DialFails(p) ==
    /\ Now(p, "lock", "next")
    /\ ~locked[using[p]] /\ ~conn[using[p]]
    /\ using' = [using EXCEPT ![p] = NoCall]
    /\ UNCHANGED <<left, TransferClients, locked, conn, flight, taken, alive>>

\* The goroutine reads rpcClient when it is run, which may be after its call timed
\* out: it then finds the connection of a later call, or nil and dies, and the agent
\* with it.
GoroutineCalls(p, a) ==
    LET f == flight[<<p, a>>] IN
    /\ alive /\ f.at \in {"ready", "late"}
    /\ IF conn[<<a, f.client>>]
       THEN /\ flight' = [flight EXCEPT ![<<p, a>>] = Flight(IF f.at = "late" THEN "adrift" ELSE "sent")]
            /\ UNCHANGED alive
       ELSE alive' = FALSE /\ UNCHANGED flight
    /\ UNCHANGED <<at, left, using, TransferClients, locked, conn, taken>>

\* The server handles the request, whoever still waits.
Handled(p, a) ==
    /\ flight[<<p, a>>].at \in {"sent", "adrift"}
    /\ taken' = [taken EXCEPT ![<<p, a>>] = TRUE]
    /\ flight' = [flight EXCEPT ![<<p, a>>].at = IF @ = "sent" THEN "answered" ELSE "none"]
    /\ UNCHANGED <<at, left, using, TransferClients, locked, conn, alive>>

\* Mutant: the call returns once the request is written.
RepliedWhenSent(p) == flight[<<p, Addr(p)>>].at \in {"sent", "answered"}
Replied(p) == flight[<<p, Addr(p)>>].at = "answered"

\* Mutant: Call leaves the client locked.
UnlockedNever(p) == locked
Unlocked(p) == [locked EXCEPT ![using[p]] = FALSE]

Answer(p) ==
    /\ Now(p, "wait", "sent") /\ Replied(p)
    /\ locked' = Unlocked(p)
    /\ flight' = [flight EXCEPT ![<<p, Addr(p)>>].at = "none"]
    /\ using' = [using EXCEPT ![p] = NoCall]
    /\ UNCHANGED <<left, TransferClients, conn, taken, alive>>

\* An error or the timeout closes the connection; what was sent may arrive or not.
ClientCallFails(p, arrives) ==
    /\ Now(p, "wait", "next")
    /\ conn' = [conn EXCEPT ![using[p]] = FALSE]
    /\ locked' = Unlocked(p)
    /\ flight' = [flight EXCEPT ![<<p, Addr(p)>>] =
                    CASE @.at = "ready"            -> [@ EXCEPT !.at = "late"]
                      [] @.at = "sent" /\ arrives  -> Flight("adrift")
                      [] OTHER                     -> Flight("none")]
    /\ using' = [using EXCEPT ![p] = NoCall]
    /\ UNCHANGED <<left, TransferClients, taken, alive>>

Push(p) ==
    \/ InitTransferClient(p) \/ GiveUp(p)
    \/ \E a \in Addrs : GetTransferClient(p, a)
    \/ ServerConn(p) \/ DialFails(p)
    \/ Answer(p) \/ \E arrives \in BOOLEAN : ClientCallFails(p, arrives)

AgentPushNext ==
    \E p \in Pushers :
        \/ Push(p)
        \/ \E a \in Addrs : GoroutineCalls(p, a) \/ Handled(p, a)

\* Every push comes to an end, whatever the addresses do: a client is never left
\* locked.
PushesEnd == alive => \A p \in Pushers : at[p] \in {"sent", "failed"}

----------------------------------------------------------------------------
\* A batch as DeliveryChannel has it: some transfer is its destination.
PushStatus == [p \in Pushers |->
    IF at[p] \in {"new", "sent", "failed"} THEN at[p]
    ELSE IF alive THEN "kept" ELSE "lost"]
PushChannel == INSTANCE DeliveryChannel WITH
    Dests <- {"transfer"}, Items <- Pushers, Tries <- [d \in {"transfer"} |-> Cardinality(Addrs)],
    status <- [d \in {"transfer"} |-> PushStatus],
    copies <- [d \in {"transfer"} |-> [p \in Pushers |-> Cardinality({a \in Addrs : taken[<<p, a>>]})]]

\* A batch that SendMetrics counts as done was handled by some address, one that no
\* address took was offered to each, and none is handled more often than there are
\* addresses, although goroutines outlive their calls and share connections.
PushIsChannel == PushChannel!Spec
=============================================================================
