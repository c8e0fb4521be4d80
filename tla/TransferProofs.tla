----------------------------- MODULE TransferProofs -----------------------------
(* Proofs about TransferSend and TransferItem. *)
EXTENDS TransferSend, TransferItem, FiniteSetTheorems, TLAPS

Batches == Seq(Items)

-----------------------------------------------------------------------------
(* Sequences without repetition *)

\* Putting an item at the end adds it to the items of a sequence.
LEMMA RangeAppend ==
  ASSUME NEW q \in Seq(Items), NEW i \in Items
  PROVE  /\ Append(q, i) \in Seq(Items) /\ Len(Append(q, i)) = Len(q) + 1
         /\ Range(Append(q, i)) = Range(q) \cup {i}
         /\ IsInjective(q) /\ i \notin Range(q) => IsInjective(Append(q, i))
<1>1. Append(q, i) \in Seq(Items) /\ Len(Append(q, i)) = Len(q) + 1
  OBVIOUS
<1>2. \A k \in 1..Len(q) : Append(q, i)[k] = q[k]
  OBVIOUS
<1>3. Append(q, i)[Len(q) + 1] = i
  OBVIOUS
<1>4. Range(Append(q, i)) = Range(q) \cup {i}
  BY <1>1, <1>2, <1>3 DEF Range
<1>5. IsInjective(q) /\ i \notin Range(q) => IsInjective(Append(q, i))
  BY <1>1, <1>2, <1>3 DEF Range, IsInjective
<1> QED
  BY <1>1, <1>4, <1>5

\* Two sequences that hold the first n and the other items of q.
LEMMA RangeParts ==
  ASSUME NEW q \in Seq(Items), NEW n \in 0..Len(q),
         NEW a \in Seq(Items), Len(a) = n, \A k \in 1..n : a[k] = q[k],
         NEW b \in Seq(Items), Len(b) = Len(q) - n, \A k \in 1..(Len(q) - n) : b[k] = q[n + k]
  PROVE  /\ Range(a) \cup Range(b) = Range(q)
         /\ IsInjective(q) => Range(a) \cap Range(b) = {} /\ IsInjective(a) /\ IsInjective(b)
<1>1. Range(a) = {q[k] : k \in 1..n}
  <2>1. \A x \in Range(a) : \E k \in 1..n : x = q[k]
    BY DEF Range
  <2>2. ASSUME NEW k \in 1..n PROVE q[k] \in Range(a)
    <3>1. k \in DOMAIN a /\ q[k] = a[k]
      OBVIOUS
    <3> QED
      BY <3>1 DEF Range
  <2> QED
    BY <2>1, <2>2
<1>2. Range(b) = {q[k] : k \in (n + 1)..Len(q)}
  <2>1. ASSUME NEW x \in Range(b) PROVE x \in {q[k] : k \in (n + 1)..Len(q)}
    <3>1. PICK m \in 1..(Len(q) - n) : x = b[m]
      BY <2>1 DEF Range
    <3> QED
      BY <3>1
  <2>2. ASSUME NEW k \in (n + 1)..Len(q) PROVE q[k] \in Range(b)
    <3>1. k - n \in 1..(Len(q) - n) /\ b[k - n] = q[n + (k - n)]
      OBVIOUS
    <3>2. n + (k - n) = k /\ k - n \in DOMAIN b
      BY <3>1
    <3> QED
      BY <3>1, <3>2 DEF Range
  <2> QED
    BY <2>1, <2>2
<1>3. Range(q) = {q[k] : k \in 1..Len(q)}
  BY DEF Range
<1>4. Range(a) \cup Range(b) = Range(q)
  BY <1>1, <1>2, <1>3
<1>5. ASSUME IsInjective(q)
      PROVE  Range(a) \cap Range(b) = {} /\ IsInjective(a) /\ IsInjective(b)
  <2>1. \A k, m \in 1..Len(q) : q[k] = q[m] => k = m
    BY <1>5, SMTT(30) DEF IsInjective
  <2>2. Range(a) \cap Range(b) = {}
    BY <1>1, <1>2, <2>1
  <2>3. IsInjective(a)
    BY <2>1 DEF IsInjective
  <2>4. ASSUME NEW k \in 1..Len(b), NEW m \in 1..Len(b), b[k] = b[m] PROVE k = m
    <3>1. n + k \in 1..Len(q) /\ n + m \in 1..Len(q) /\ q[n + k] = q[n + m]
      BY <2>4
    <3> QED
      BY <2>1, <3>1
  <2>5. IsInjective(b)
    BY <2>4 DEF IsInjective
  <2> QED
    BY <2>2, <2>3, <2>5
<1> QED
  BY <1>4, <1>5

\* Cutting a sequence at n deals its items out to the two parts.
LEMMA RangeSplit ==
  ASSUME NEW q \in Seq(Items), NEW n \in 0..Len(q)
  PROVE  LET a == SubSeq(q, 1, n)  b == SubSeq(q, n + 1, Len(q)) IN
         /\ a \in Seq(Items) /\ b \in Seq(Items) /\ Len(a) = n /\ Len(b) = Len(q) - n
         /\ Range(a) \cup Range(b) = Range(q)
         /\ IsInjective(q) => Range(a) \cap Range(b) = {} /\ IsInjective(a) /\ IsInjective(b)
<1> DEFINE a == SubSeq(q, 1, n)
           b == SubSeq(q, n + 1, Len(q))
<1>1. a \in Seq(Items) /\ Len(a) = n /\ \A k \in 1..n : a[k] = q[k]
  OBVIOUS
<1>2. b \in Seq(Items) /\ Len(b) = Len(q) - n /\ \A k \in 1..(Len(q) - n) : b[k] = q[n + k]
  OBVIOUS
<1> HIDE DEF a, b
<1>3. /\ Range(a) \cup Range(b) = Range(q)
      /\ IsInjective(q) => Range(a) \cap Range(b) = {} /\ IsInjective(a) /\ IsInjective(b)
  BY <1>1, <1>2, RangeParts
<1> QED
  BY <1>1, <1>2, <1>3 DEF a, b

-----------------------------------------------------------------------------
(* Type correctness *)

Typed == TypeOK /\ \A d \in Dests : IsFiniteSet(calls[d])

\* The start is typed.
LEMMA TypedInit == Init => Typed
<1> SUFFICES ASSUME Init PROVE Typed
  OBVIOUS
<1>1. \A d \in Dests : IsFiniteSet(calls[d]) /\ Cardinality(calls[d]) = 0
  BY FS_EmptySet DEF Init
<1>2. \A d \in Dests : /\ Cardinality(calls[d]) <= Concurrent[d]
                       /\ \A c \in calls[d] : Len(c.items) \in 1..Batch[d] /\ c.try \in 1..Tries[d]
  BY <1>1, TransferAssumption DEF Init
<1>3. /\ queue \in [Dests -> Seq(Items)] /\ holding \in [Dests -> Seq(Items)]
      /\ entered \in [Dests -> SUBSET Items]
      /\ \A d \in Dests : Len(queue[d]) <= QueueSize /\ Len(holding[d]) <= Batch[d]
  BY TransferAssumption DEF Init
<1>4. /\ arrived \in 0..MaxItems /\ restarts \in 0..MaxRestarts
      /\ todo \in [Receivers -> SUBSET (Dests \X Items)]
      /\ calls \in [Dests -> SUBSET [items : Seq(Items), try : Nat, answered : BOOLEAN]]
      /\ wire \in [Dests -> SUBSET [items : Seq(Items), try : Nat]]
      /\ copies \in [Dests -> [Items -> Nat]]
  BY TransferAssumption DEF Init
<1>5. /\ dropped \in [Dests -> SUBSET Items] /\ sent \in [Dests -> SUBSET Items]
      /\ failed \in [Dests -> SUBSET Items] /\ lost \in [Dests -> SUBSET Items]
  BY DEF Init
<1> QED
  BY <1>1, <1>2, <1>3, <1>4, <1>5 DEF Typed, TypeOK

\* What a call of d may be.
GoodCall(d, c) ==
  /\ c \in [items : Seq(Items), try : Nat, answered : BOOLEAN]
  /\ Len(c.items) \in 1..Batch[d] /\ c.try \in 1..Tries[d]

\* Replacing the calls of one destination by good ones, no more than its
\* semaphore allows, keeps the type of the calls.
LEMMA CallsTyped ==
  ASSUME Typed, NEW d \in Dests, NEW S, calls' = [calls EXCEPT ![d] = S],
         IsFiniteSet(S), Cardinality(S) <= Concurrent[d], \A c \in S : GoodCall(d, c)
  PROVE  /\ calls' \in [Dests -> SUBSET [items : Seq(Items), try : Nat, answered : BOOLEAN]]
         /\ \A e \in Dests :
              /\ IsFiniteSet(calls'[e]) /\ Cardinality(calls'[e]) <= Concurrent[e]
              /\ \A c \in calls'[e] : Len(c.items) \in 1..Batch[e] /\ c.try \in 1..Tries[e]
BY DEF Typed, TypeOK, GoodCall

\* A call that is removed makes room for another.
LEMMA CallRemoved ==
  ASSUME Typed, NEW d \in Dests, NEW c \in calls[d]
  PROVE  /\ IsFiniteSet(calls[d] \ {c}) /\ Cardinality(calls[d] \ {c}) <= Concurrent[d] - 1
         /\ \A b \in calls[d] : GoodCall(d, b)
<1>1. IsFiniteSet(calls[d]) /\ Cardinality(calls[d]) <= Concurrent[d]
      /\ \A b \in calls[d] : GoodCall(d, b)
  BY DEF Typed, TypeOK, GoodCall
<1>2. Cardinality(calls[d]) \in Nat
  BY <1>1, FS_CardinalityType
<1>3. IsFiniteSet(calls[d] \ {c}) /\ Cardinality(calls[d] \ {c}) = Cardinality(calls[d]) - 1
  BY <1>1, FS_RemoveElement
<1> QED
  BY <1>1, <1>2, <1>3, TransferAssumption

\* A call more, when there is room for it.
LEMMA CallAdded ==
  ASSUME NEW S, IsFiniteSet(S), NEW n \in Nat, Cardinality(S) <= n - 1, NEW c
  PROVE  IsFiniteSet(S \cup {c}) /\ Cardinality(S \cup {c}) <= n
<1>1. Cardinality(S) \in Nat
  BY FS_CardinalityType
<1>2. IsFiniteSet(S \cup {c})
      /\ (Cardinality(S \cup {c}) = Cardinality(S) \/ Cardinality(S \cup {c}) = Cardinality(S) + 1)
  BY FS_AddElement
<1> QED
  BY <1>1, <1>2

\* Marking calls as answered leaves no more calls than there were.
LEMMA CallsAnswered ==
  ASSUME Typed, NEW d \in Dests, NEW q,
         NEW S, S = {IF Request(c) = q THEN [c EXCEPT !.answered = TRUE] ELSE c : c \in calls[d]}
  PROVE  /\ IsFiniteSet(S) /\ Cardinality(S) <= Concurrent[d]
         /\ \A c \in S : GoodCall(d, c)
<1> DEFINE f == [c \in calls[d] |-> IF Request(c) = q THEN [c EXCEPT !.answered = TRUE] ELSE c]
<1>1. IsFiniteSet(calls[d]) /\ Cardinality(calls[d]) <= Concurrent[d]
      /\ \A b \in calls[d] : GoodCall(d, b)
  BY DEF Typed, TypeOK, GoodCall
<1>2. f \in Surjection(calls[d], S)
  BY DEF Surjection
<1>3. IsFiniteSet(S) /\ Cardinality(S) <= Cardinality(calls[d])
  BY <1>1, <1>2, FS_Surjection
<1>4. Cardinality(S) \in Nat /\ Cardinality(calls[d]) \in Nat
  BY <1>1, <1>3, FS_CardinalityType
<1>5. \A c \in S : GoodCall(d, c)
  BY <1>1 DEF GoodCall
<1> QED
  BY <1>1, <1>3, <1>4, <1>5, TransferAssumption

\* Every action of transfer and its destinations keeps the types.
LEMMA TypedStep == Typed /\ [Next]_vars => Typed'
<1> SUFFICES ASSUME Typed, [Next]_vars PROVE Typed'
  OBVIOUS
<1> USE DEF counters, inside, outside
<1>1. ASSUME NEW r \in Receivers, NEW n \in 1..MaxRequest, Recv(r, n) PROVE Typed'
  <2>1. \A d \in Dests : \A i \in (arrived + 1)..(arrived + n) : <<d, i>> \in Dests \X Items
    BY <1>1, TransferAssumption DEF Recv, Typed, TypeOK, Items
  <2>2. {p \in Dests \X ((arrived + 1)..(arrived + n)) : Wants(p[1], p[2])} \in SUBSET (Dests \X Items)
    BY <2>1
  <2>3. todo' \in [Receivers -> SUBSET (Dests \X Items)]
    BY <1>1, <2>2 DEF Recv, Typed, TypeOK
  <2>4. arrived' \in 0..MaxItems
    BY <1>1, TransferAssumption DEF Recv, Typed, TypeOK
  <2> QED
    BY <1>1, <2>3, <2>4 DEF Recv, Typed, TypeOK
<1>2. ASSUME NEW r \in Receivers, PushSome(r) PROVE Typed'
  <2>1. PICK p \in todo[r] : Push(r, p[1], p[2])
    BY <1>2 DEF PushSome
  <2>2. p[1] \in Dests /\ p[2] \in Items
    BY <2>1 DEF Typed, TypeOK
  <2>3. todo' \in [Receivers -> SUBSET (Dests \X Items)]
    BY <2>1 DEF Push, Typed, TypeOK
  <2>4. queue' \in [Dests -> Seq(Items)] /\ \A e \in Dests : Len(queue'[e]) <= QueueSize
    <3>1. CASE HasRoom(p[1])
      <4>1. Append(queue[p[1]], p[2]) \in Seq(Items)
            /\ Len(Append(queue[p[1]], p[2])) = Len(queue[p[1]]) + 1
        BY <2>2 DEF Typed, TypeOK
      <4>2. Len(queue[p[1]]) + 1 <= QueueSize
        BY <2>2, <3>1, TransferAssumption DEF HasRoom, Typed, TypeOK
      <4>3. queue' = [queue EXCEPT ![p[1]] = Append(queue[p[1]], p[2])]
        BY <2>1, <3>1 DEF Push
      <4> QED
        BY <2>2, <4>1, <4>2, <4>3 DEF Typed, TypeOK
    <3>2. CASE ~HasRoom(p[1])
      BY <2>1, <3>2 DEF Push, Typed, TypeOK
    <3> QED
      BY <3>1, <3>2
  <2>5. dropped' = dropped \/ dropped' = [dropped EXCEPT ![p[1]] = @ \cup {p[2]}]
    BY <2>1 DEF Push
  <2>6. dropped' \in [Dests -> SUBSET Items]
    <3>1. dropped \in [Dests -> SUBSET Items]
      BY DEF Typed, TypeOK
    <3>2. dropped[p[1]] \cup {p[2]} \in SUBSET Items
      BY <2>2, <3>1
    <3> QED
      BY <2>5, <3>1, <3>2
  <2>7. UNCHANGED <<arrived, restarts, holding, calls, outside, sent, failed, lost>>
    BY <2>1 DEF Push
  <2> QED
    BY <2>3, <2>4, <2>6, <2>7 DEF Typed, TypeOK
<1>3. ASSUME NEW d \in Dests, PopBackBy(d) PROVE Typed'
  <2> DEFINE n == IF Len(queue[d]) < Batch[d] THEN Len(queue[d]) ELSE Batch[d]
  <2>1. queue[d] \in Seq(Items) /\ n \in 0..Len(queue[d]) /\ n <= Batch[d]
    BY TransferAssumption DEF Typed, TypeOK
  <2>2. /\ SubSeq(queue[d], 1, n) \in Seq(Items) /\ Len(SubSeq(queue[d], 1, n)) = n
        /\ SubSeq(queue[d], n + 1, Len(queue[d])) \in Seq(Items)
        /\ Len(SubSeq(queue[d], n + 1, Len(queue[d]))) = Len(queue[d]) - n
    BY <2>1, RangeSplit
  <2>3. holding' = [holding EXCEPT ![d] = SubSeq(queue[d], 1, n)]
        /\ queue' = [queue EXCEPT ![d] = SubSeq(queue[d], n + 1, Len(queue[d]))]
    BY <1>3 DEF PopBackBy
  <2>4. queue' \in [Dests -> Seq(Items)] /\ \A e \in Dests : Len(queue'[e]) <= QueueSize
    <3> DEFINE part == SubSeq(queue[d], n + 1, Len(queue[d]))
    <3>1. Len(queue[d]) \in Nat /\ Len(queue[d]) <= QueueSize
      BY DEF Typed, TypeOK
    <3> HIDE DEF n
    <3>2. part \in Seq(Items) /\ Len(part) <= QueueSize
      BY <2>1, <2>2, <3>1, TransferAssumption
    <3>3. queue' = [queue EXCEPT ![d] = part]
      BY <2>3
    <3> HIDE DEF part
    <3> QED
      BY <3>2, <3>3 DEF Typed, TypeOK
  <2>5. holding' \in [Dests -> Seq(Items)] /\ \A e \in Dests : Len(holding'[e]) <= Batch[e]
    <3> DEFINE part == SubSeq(queue[d], 1, n)
    <3>1. Len(queue[d]) \in Nat /\ Len(queue[d]) <= QueueSize
      BY DEF Typed, TypeOK
    <3> HIDE DEF n
    <3>2. part \in Seq(Items) /\ Len(part) <= Batch[d]
      BY <2>1, <2>2, <3>1, TransferAssumption
    <3>3. holding' = [holding EXCEPT ![d] = part]
      BY <2>3
    <3> HIDE DEF part
    <3> QED
      BY <3>2, <3>3 DEF Typed, TypeOK
  <2> QED
    BY <1>3, <2>4, <2>5 DEF PopBackBy, Typed, TypeOK
<1>4. ASSUME NEW d \in Dests, StartCall(d) PROVE Typed'
  <2> DEFINE c == Call(holding[d], 1)
  <2>1. holding[d] \in Seq(Items) /\ Len(holding[d]) \in 1..Batch[d]
    BY <1>4, TransferAssumption DEF StartCall, Typed, TypeOK
  <2>2. GoodCall(d, c) /\ Request(c) \in [items : Seq(Items), try : Nat]
    BY <2>1, TransferAssumption DEF Call, Request, GoodCall
  <2>3. IsFiniteSet(calls[d]) /\ (\A b \in calls[d] : GoodCall(d, b))
        /\ Cardinality(calls[d]) <= Concurrent[d] - 1
    <3>1. IsFiniteSet(calls[d]) /\ (\A b \in calls[d] : GoodCall(d, b))
      BY DEF Typed, TypeOK, GoodCall
    <3>2. Cardinality(calls[d]) \in Nat /\ Cardinality(calls[d]) < Concurrent[d]
      BY <1>4, <3>1, FS_CardinalityType DEF StartCall, Acquired
    <3> QED
      BY <3>1, <3>2, TransferAssumption
  <2>4. IsFiniteSet(calls[d] \cup {c}) /\ Cardinality(calls[d] \cup {c}) <= Concurrent[d]
    BY <2>3, CallAdded, TransferAssumption
  <2>5. calls' = [calls EXCEPT ![d] = calls[d] \cup {c}]
        /\ wire' = [wire EXCEPT ![d] = wire[d] \cup {Request(c)}]
        /\ holding' = [holding EXCEPT ![d] = <<>>]
    BY <1>4 DEF StartCall
  <2> HIDE DEF c
  <2>6. \A b \in calls[d] \cup {c} : GoodCall(d, b)
    BY <2>2, <2>3
  <2>7. /\ calls' \in [Dests -> SUBSET [items : Seq(Items), try : Nat, answered : BOOLEAN]]
        /\ \A e \in Dests :
             /\ IsFiniteSet(calls'[e]) /\ Cardinality(calls'[e]) <= Concurrent[e]
             /\ \A b \in calls'[e] : Len(b.items) \in 1..Batch[e] /\ b.try \in 1..Tries[e]
    BY <2>4, <2>5, <2>6, CallsTyped
  <2>8. wire' \in [Dests -> SUBSET [items : Seq(Items), try : Nat]]
    BY <2>2, <2>5 DEF Typed, TypeOK
  <2>9. holding' \in [Dests -> Seq(Items)] /\ \A e \in Dests : Len(holding'[e]) <= Batch[e]
    BY <2>5, TransferAssumption DEF Typed, TypeOK
  <2> QED
    BY <1>4, <2>7, <2>8, <2>9 DEF StartCall, Typed, TypeOK
<1>5. ASSUME NEW d \in Dests, NEW q \in wire[d], Handle(d, q) PROVE Typed'
  <2> DEFINE S == {IF Request(c) = q THEN [c EXCEPT !.answered = TRUE] ELSE c : c \in calls[d]}
  <2>1. IsFiniteSet(S) /\ Cardinality(S) <= Concurrent[d] /\ \A c \in S : GoodCall(d, c)
    BY CallsAnswered
  <2>2. calls' = [calls EXCEPT ![d] = S]
    BY <1>5 DEF Handle
  <2>3. /\ calls' \in [Dests -> SUBSET [items : Seq(Items), try : Nat, answered : BOOLEAN]]
        /\ \A e \in Dests :
             /\ IsFiniteSet(calls'[e]) /\ Cardinality(calls'[e]) <= Concurrent[e]
             /\ \A b \in calls'[e] : Len(b.items) \in 1..Batch[e] /\ b.try \in 1..Tries[e]
    <3> HIDE DEF S
    <3> QED
      BY <2>1, <2>2, CallsTyped
  <2>4. wire' \in [Dests -> SUBSET [items : Seq(Items), try : Nat]]
    BY <1>5 DEF Handle, Typed, TypeOK
  <2>5. copies' \in [Dests -> [Items -> Nat]]
    BY <1>5 DEF Handle, Typed, TypeOK
  <2>6. entered' \in [Dests -> SUBSET Items]
    <3>1. q.items \in Seq(Items)
      BY DEF Typed, TypeOK
    <3>2. Newer(d, q) \subseteq Items
      BY <3>1 DEF Newer
    <3> QED
      BY <1>5, <3>2 DEF Handle, Typed, TypeOK
  <2> QED
    BY <1>5, <2>3, <2>4, <2>5, <2>6 DEF Handle, Typed, TypeOK
<1>6. ASSUME NEW d \in Dests, NEW c \in calls[d], CallOk(d, c) PROVE Typed'
  <2>1. IsFiniteSet(calls[d] \ {c}) /\ Cardinality(calls[d] \ {c}) <= Concurrent[d]
        /\ \A b \in calls[d] \ {c} : GoodCall(d, b)
    <3>1. Cardinality(calls[d] \ {c}) <= Concurrent[d] - 1 /\ IsFiniteSet(calls[d] \ {c})
      BY CallRemoved
    <3>2. Cardinality(calls[d] \ {c}) \in Nat
      BY <3>1, FS_CardinalityType
    <3> QED
      BY <3>1, <3>2, CallRemoved, TransferAssumption
  <2>2. calls' = [calls EXCEPT ![d] = calls[d] \ {c}]
    BY <1>6 DEF CallOk
  <2>3. /\ calls' \in [Dests -> SUBSET [items : Seq(Items), try : Nat, answered : BOOLEAN]]
        /\ \A e \in Dests :
             /\ IsFiniteSet(calls'[e]) /\ Cardinality(calls'[e]) <= Concurrent[e]
             /\ \A b \in calls'[e] : Len(b.items) \in 1..Batch[e] /\ b.try \in 1..Tries[e]
    BY <2>1, <2>2, CallsTyped
  <2>4. c.items \in Seq(Items)
    BY DEF Typed, TypeOK
  <2>5. Range(c.items) \subseteq Items
    BY <2>4 DEF Range
  <2>6. sent' \in [Dests -> SUBSET Items]
    BY <1>6, <2>5 DEF CallOk, Typed, TypeOK
  <2> QED
    BY <1>6, <2>3, <2>6 DEF CallOk, Typed, TypeOK
<1>7. ASSUME NEW d \in Dests, NEW c \in calls[d], Retry(d, c) PROVE Typed'
  <2> DEFINE again == Call(c.items, c.try + 1)
  <2>1. IsFiniteSet(calls[d] \ {c}) /\ Cardinality(calls[d] \ {c}) <= Concurrent[d] - 1
        /\ \A b \in calls[d] : GoodCall(d, b)
    BY CallRemoved
  <2>2. c.try + 1 \in 1..Tries[d]
    BY <1>7, <2>1, TransferAssumption DEF Retry, MayRetry, GoodCall
  <2>3. GoodCall(d, again) /\ Request(again) \in [items : Seq(Items), try : Nat]
    BY <2>1, <2>2 DEF GoodCall, Call, Request
  <2>4. calls' = [calls EXCEPT ![d] = (calls[d] \ {c}) \cup {again}]
    BY <1>7 DEF Retry
  <2>5. PICK left \in Left(d, c) : wire' = [wire EXCEPT ![d] = left \cup {Request(again)}]
    BY <1>7 DEF Retry
  <2> HIDE DEF again
  <2>6. IsFiniteSet((calls[d] \ {c}) \cup {again}) /\ Cardinality((calls[d] \ {c}) \cup {again}) <= Concurrent[d]
    BY <2>1, CallAdded, TransferAssumption
  <2>7. \A b \in (calls[d] \ {c}) \cup {again} : GoodCall(d, b)
    BY <2>1, <2>3
  <2>8. /\ calls' \in [Dests -> SUBSET [items : Seq(Items), try : Nat, answered : BOOLEAN]]
        /\ \A e \in Dests :
             /\ IsFiniteSet(calls'[e]) /\ Cardinality(calls'[e]) <= Concurrent[e]
             /\ \A b \in calls'[e] : Len(b.items) \in 1..Batch[e] /\ b.try \in 1..Tries[e]
    BY <2>4, <2>6, <2>7, CallsTyped
  <2>9. wire' \in [Dests -> SUBSET [items : Seq(Items), try : Nat]]
    BY <2>3, <2>5 DEF Left, Typed, TypeOK
  <2> QED
    BY <1>7, <2>8, <2>9 DEF Retry, Typed, TypeOK
<1>8. ASSUME NEW d \in Dests, NEW c \in calls[d], GiveUp(d, c) PROVE Typed'
  <2>1. IsFiniteSet(calls[d] \ {c}) /\ Cardinality(calls[d] \ {c}) <= Concurrent[d]
        /\ \A b \in calls[d] \ {c} : GoodCall(d, b)
    <3>1. Cardinality(calls[d] \ {c}) <= Concurrent[d] - 1 /\ IsFiniteSet(calls[d] \ {c})
      BY CallRemoved
    <3>2. Cardinality(calls[d] \ {c}) \in Nat
      BY <3>1, FS_CardinalityType
    <3> QED
      BY <3>1, <3>2, CallRemoved, TransferAssumption
  <2>2. calls' = [calls EXCEPT ![d] = calls[d] \ {c}]
    BY <1>8 DEF GiveUp
  <2>3. /\ calls' \in [Dests -> SUBSET [items : Seq(Items), try : Nat, answered : BOOLEAN]]
        /\ \A e \in Dests :
             /\ IsFiniteSet(calls'[e]) /\ Cardinality(calls'[e]) <= Concurrent[e]
             /\ \A b \in calls'[e] : Len(b.items) \in 1..Batch[e] /\ b.try \in 1..Tries[e]
    BY <2>1, <2>2, CallsTyped
  <2>4. c.items \in Seq(Items)
    BY DEF Typed, TypeOK
  <2>5. Range(c.items) \subseteq Items
    BY <2>4 DEF Range
  <2>6. failed' \in [Dests -> SUBSET Items]
    BY <1>8, <2>5 DEF GiveUp, Typed, TypeOK
  <2>7. wire' \in [Dests -> SUBSET [items : Seq(Items), try : Nat]]
    BY <1>8 DEF GiveUp, Left, Typed, TypeOK
  <2> QED
    BY <1>8, <2>3, <2>6, <2>7 DEF GiveUp, Typed, TypeOK
<1>9. ASSUME Restart PROVE Typed'
  <2>1. \A d \in Dests : IsFiniteSet(calls'[d]) /\ Cardinality(calls'[d]) = 0
    BY <1>9, FS_EmptySet DEF Restart
  <2>2. \A d \in Dests : Inside(d) \subseteq Items
    BY DEF Inside, InCalls, Range, Typed, TypeOK
  <2>3. lost' \in [Dests -> SUBSET Items]
    BY <1>9, <2>2 DEF Restart, Typed, TypeOK
  <2>4. restarts' \in 0..MaxRestarts
    BY <1>9, TransferAssumption DEF Restart, Typed, TypeOK
  <2>5. /\ queue' \in [Dests -> Seq(Items)] /\ holding' \in [Dests -> Seq(Items)]
        /\ \A d \in Dests : Len(queue'[d]) <= QueueSize /\ Len(holding'[d]) <= Batch[d]
    BY <1>9, TransferAssumption DEF Restart
  <2>6. /\ calls' \in [Dests -> SUBSET [items : Seq(Items), try : Nat, answered : BOOLEAN]]
        /\ \A d \in Dests :
             /\ Cardinality(calls'[d]) <= Concurrent[d]
             /\ \A b \in calls'[d] : Len(b.items) \in 1..Batch[d] /\ b.try \in 1..Tries[d]
    BY <1>9, <2>1, TransferAssumption DEF Restart
  <2>7. todo' \in [Receivers -> SUBSET (Dests \X Items)]
    BY <1>9 DEF Restart
  <2> QED
    BY <1>9, <2>1, <2>3, <2>4, <2>5, <2>6, <2>7 DEF Restart, Typed, TypeOK
<1>10. CASE UNCHANGED vars
  BY <1>10 DEF vars, Typed, TypeOK
<1> QED
  BY <1>1, <1>2, <1>3, <1>4, <1>5, <1>6, <1>7, <1>8, <1>9, <1>10 DEF Next, Task

\* Every variable keeps its type, no queue outgrows its bound and no
\* destination gets more calls at a time than its semaphore allows.
THEOREM TransferTyped == Spec => []TypeOK
<1>1. Typed => TypeOK
  BY DEF Typed
<1> QED
  BY <1>1, TypedInit, TypedStep, PTL DEF Spec

-----------------------------------------------------------------------------
(* Every item in one place *)

\* Eight sets, no two of which meet.
Split8(w, q, h, c, g, s, f, l) ==
  /\ w \cap (q \cup h \cup c \cup g \cup s \cup f \cup l) = {}
  /\ q \cap (h \cup c \cup g \cup s \cup f \cup l) = {}
  /\ h \cap (c \cup g \cup s \cup f \cup l) = {}
  /\ c \cap (g \cup s \cup f \cup l) = {}
  /\ g \cap (s \cup f \cup l) = {}
  /\ s \cap (f \cup l) = {}
  /\ f \cap l = {}

\* The places of d do not meet.
Apart(d) == Split8(Waiting(d), Range(queue[d]), Range(holding[d]), InCalls(d),
                   dropped[d], sent[d], failed[d], lost[d])

\* No two calls of d share an item.
CallsApart(d) == \A c, e \in calls[d] : c # e => Range(c.items) \cap Range(e.items) = {}

\* All items in a place of d.
Known(d) == Waiting(d) \cup Inside(d) \cup dropped[d] \cup sent[d] \cup failed[d] \cup lost[d]

\* Only what arrived is in a place, and with no restart all that arrived is.
Counted(d) ==
  /\ Known(d) \subseteq 1..arrived
  /\ restarts = 0 => {i \in 1..arrived : Wants(d, i)} \subseteq Known(d)

\* The inductive invariant: an item is waiting at one receiver only, its
\* places do not meet, and what arrived is in one of them.
Placed ==
  /\ Typed
  /\ \A r, s \in Receivers : r # s => todo[r] \cap todo[s] = {}
  /\ \A d \in Dests : /\ Apart(d) /\ CallsApart(d) /\ Counted(d)
                      /\ IsInjective(queue[d]) /\ IsInjective(holding[d])

\* The parts of Placed are OnePlace.
LEMMA PlacedIsOnePlace == Placed => OnePlace
<1> SUFFICES ASSUME Placed, NEW d \in Dests
             PROVE  /\ LET p == Places(d) IN \A m \in 2..8 : \A n \in 1..(m - 1) : p[m] \cap p[n] = {}
                    /\ CallsApart(d) /\ IsInjective(queue[d]) /\ IsInjective(holding[d])
  BY DEF OnePlace, CallsApart
<1> DEFINE p == Places(d)
<1>1. Apart(d) /\ CallsApart(d) /\ IsInjective(queue[d]) /\ IsInjective(holding[d])
  BY DEF Placed
<1>2. /\ p[1] = Waiting(d) /\ p[2] = Range(queue[d]) /\ p[3] = Range(holding[d]) /\ p[4] = InCalls(d)
      /\ p[5] = dropped[d] /\ p[6] = sent[d] /\ p[7] = failed[d] /\ p[8] = lost[d]
  BY DEF Places
<1> HIDE DEF p
<1>3. Split8(p[1], p[2], p[3], p[4], p[5], p[6], p[7], p[8])
  BY <1>1, <1>2 DEF Apart
<1>4. \A m \in 2..8 : \A n \in 1..(m - 1) : p[m] \cap p[n] = {}
  <2>1. ASSUME NEW m \in 2..8, NEW n \in 1..8, n < m PROVE p[m] \cap p[n] = {}
    <3>1. m = 2 \/ m = 3 \/ m = 4 \/ m = 5 \/ m = 6 \/ m = 7 \/ m = 8
      OBVIOUS
    <3>2. n = 1 \/ n = 2 \/ n = 3 \/ n = 4 \/ n = 5 \/ n = 6 \/ n = 7
      BY <2>1
    <3> QED
      BY <1>3, <2>1, <3>1, <3>2 DEF Split8
  <2> QED
    BY <2>1
<1> QED
  BY <1>1, <1>4 DEF p

\* Nothing has arrived at the start.
LEMMA PlacedInit == Init => Placed
<1> SUFFICES ASSUME Init PROVE Placed
  OBVIOUS
<1>1. Typed
  BY TypedInit
<1>2. \A r, s \in Receivers : r # s => todo[r] \cap todo[s] = {}
  BY DEF Init
<1>3. ASSUME NEW d \in Dests
      PROVE  /\ Apart(d) /\ CallsApart(d) /\ Counted(d)
             /\ IsInjective(queue[d]) /\ IsInjective(holding[d])
  <2>1. Waiting(d) = {} /\ InCalls(d) = {} /\ CallsApart(d)
    BY DEF Init, Waiting, InCalls, CallsApart
  <2>2. Range(queue[d]) = {} /\ Range(holding[d]) = {}
        /\ IsInjective(queue[d]) /\ IsInjective(holding[d])
    BY DEF Init, Range, IsInjective
  <2>3. dropped[d] = {} /\ sent[d] = {} /\ failed[d] = {} /\ lost[d] = {}
    BY DEF Init
  <2> QED
    BY <1>1, <2>1, <2>2, <2>3, TransferAssumption DEF Init, Apart, Split8, Counted, Known, Inside
<1> QED
  BY <1>1, <1>2, <1>3 DEF Placed

\* What calls of one destination a step leaves alone hold the same items.
LEMMA SameCalls ==
  ASSUME NEW d, calls'[d] = calls[d]
  PROVE  InCalls(d)' = InCalls(d) /\ CallsApart(d)' = CallsApart(d)
BY DEF InCalls, CallsApart

\* A step that leaves all places of a destination alone.
LEMMA SamePlaces ==
  ASSUME Placed, NEW d \in Dests, arrived' = arrived, restarts' = restarts,
         Waiting(d)' = Waiting(d), queue'[d] = queue[d], holding'[d] = holding[d],
         InCalls(d)' = InCalls(d), CallsApart(d)', dropped'[d] = dropped[d],
         sent'[d] = sent[d], failed'[d] = failed[d], lost'[d] = lost[d]
  PROVE  /\ Apart(d)' /\ CallsApart(d)' /\ Counted(d)'
         /\ IsInjective(queue'[d]) /\ IsInjective(holding'[d])
         /\ Known(d)' = Known(d) /\ Inside(d)' = Inside(d)
<1>1. Apart(d) /\ Counted(d) /\ IsInjective(queue[d]) /\ IsInjective(holding[d])
  BY DEF Placed
<1>2. Inside(d)' = Inside(d)
  BY DEF Inside
<1>3. Known(d)' = Known(d)
  BY <1>2 DEF Known
<1>4. Apart(d)'
  BY <1>1 DEF Apart
<1>5. Counted(d)'
  BY <1>1, <1>3 DEF Counted, Wants
<1> QED
  BY <1>1, <1>2, <1>3, <1>4, <1>5

\* A call taken away takes its items away.
LEMMA CallLeaves ==
  ASSUME Placed, NEW d \in Dests, NEW c \in calls[d], calls' = [calls EXCEPT ![d] = @ \ {c}]
  PROVE  /\ InCalls(d)' = InCalls(d) \ Range(c.items) /\ Range(c.items) \subseteq InCalls(d)
         /\ CallsApart(d)'
         /\ \A e \in Dests : e # d => InCalls(e)' = InCalls(e) /\ CallsApart(e)'
<1>1. calls'[d] = calls[d] \ {c} /\ \A e \in Dests : e # d => calls'[e] = calls[e]
  BY DEF Placed, Typed, TypeOK
<1>2. CallsApart(d) /\ \A e \in Dests : CallsApart(e)
  BY DEF Placed
<1>3. CallsApart(d)'
  BY <1>1, <1>2 DEF CallsApart
<1>4. Range(c.items) \subseteq InCalls(d)
  BY DEF InCalls
<1>5. InCalls(d)' = InCalls(d) \ Range(c.items)
  BY <1>1, <1>2 DEF InCalls, CallsApart
<1>6. \A e \in Dests : e # d => InCalls(e)' = InCalls(e) /\ CallsApart(e)'
  BY <1>1, <1>2, SameCalls
<1> QED
  BY <1>3, <1>4, <1>5, <1>6

\* Every action takes each item to one place and leaves it in no other.
LEMMA PlacedStep == Placed /\ [Next]_vars => Placed'
<1> SUFFICES ASSUME Placed, [Next]_vars PROVE Placed'
  OBVIOUS
<1> USE DEF counters, inside, outside
<1>t. Typed /\ Typed'
  BY TypedStep DEF Placed
<1>n. arrived \in Nat /\ arrived' \in Nat /\ restarts \in Nat
  BY <1>t, TransferAssumption DEF Typed, TypeOK
<1>r. \A r, s \in Receivers : r # s => todo[r] \cap todo[s] = {}
  BY DEF Placed
<1>p. \A e \in Dests : /\ Apart(e) /\ CallsApart(e) /\ Counted(e)
                       /\ IsInjective(queue[e]) /\ IsInjective(holding[e])
  BY DEF Placed
<1> DEFINE Good(e) == /\ Apart(e)' /\ CallsApart(e)' /\ Counted(e)'
                      /\ IsInjective(queue'[e]) /\ IsInjective(holding'[e])
<1>1. ASSUME NEW r \in Receivers, NEW n \in 1..MaxRequest, Recv(r, n) PROVE Placed'
  <2> DEFINE new == {p \in Dests \X ((arrived + 1)..(arrived + n)) : Wants(p[1], p[2])}
  <2>1. todo' = [todo EXCEPT ![r] = new] /\ arrived' = arrived + n /\ todo[r] = {}
        /\ UNCHANGED <<restarts, queue, holding, calls, dropped, sent, failed, lost>>
    BY <1>1 DEF Recv
  <2>2. \A s \in Receivers : todo'[s] = IF s = r THEN new ELSE todo[s]
    BY <1>t, <2>1 DEF Typed, TypeOK
  <2>3. ASSUME NEW s \in Receivers, NEW p \in todo[s] PROVE p[2] \in 1..arrived
    <3>1. p[1] \in Dests /\ p[2] \in Items /\ p = <<p[1], p[2]>>
      BY <1>t DEF Typed, TypeOK
    <3>2. p[2] \in Waiting(p[1])
      BY <3>1 DEF Waiting
    <3> QED
      BY <1>p, <3>1, <3>2 DEF Counted, Known
  <2>4. \A p \in new : p[2] \notin 1..arrived
    BY <1>n
  <2>5. \A e \in Dests, i \in Items : <<e, i>> \in new => i > arrived /\ i <= arrived + n
    BY <1>n
  <2> HIDE DEF new
  <2>6. \A s, u \in Receivers : s # u => todo'[s] \cap todo'[u] = {}
    BY <1>r, <2>2, <2>3, <2>4
  <2>7. ASSUME NEW e \in Dests PROVE Good(e)
    <3>1. \A i \in Waiting(e)' : i \in Waiting(e) \/ (i > arrived /\ i <= arrived')
      BY <2>1, <2>2, <2>5 DEF Waiting
    <3>2. InCalls(e)' = InCalls(e) /\ Inside(e)' = Inside(e) /\ CallsApart(e)'
      BY <1>p, <2>1, SameCalls DEF Inside
    <3>3. \A i \in Known(e) : i <= arrived /\ i >= 1 /\ i \in Nat
      BY <1>n, <1>p DEF Counted
    <3>4. Counted(e)'
      <4>1. arrived <= arrived' /\ \A i \in Waiting(e)' : i \in Nat
        BY <1>n, <2>1 DEF Waiting, Items
      <4>2. Waiting(e)' \subseteq 1..arrived'
        BY <1>n, <3>1, <3>3, <4>1 DEF Known
      <4>3. Known(e)' \subseteq 1..arrived'
        <5>1. Known(e)' \subseteq Known(e) \cup Waiting(e)'
          BY <2>1, <3>2 DEF Known
        <5> QED
          BY <1>n, <3>3, <4>1, <4>2, <5>1
      <4>4. Known(e) \subseteq Known(e)'
        <5>1. Waiting(e) \subseteq Waiting(e)'
          BY <2>1, <2>2 DEF Waiting
        <5> QED
          BY <2>1, <3>2, <5>1 DEF Known
      <4>5. ASSUME NEW i \in (arrived + 1)..arrived', Wants(e, i) PROVE i \in Known(e)'
        <5>1. i \in Items /\ <<e, i>> \in todo'[r]
          BY <1>n, <1>t, <2>1, <2>2, <4>5, TransferAssumption DEF new, Items, Typed, TypeOK
        <5> QED
          BY <5>1 DEF Known, Waiting
      <4>6. 1..arrived' \subseteq 1..arrived \cup (arrived + 1)..arrived'
        BY <1>n
      <4> QED
        BY <1>p, <2>1, <4>3, <4>4, <4>5, <4>6 DEF Counted, Wants
    <3>5. Apart(e)'
      BY <1>n, <1>p, <2>1, <3>1, <3>2, <3>3 DEF Apart, Split8, Known, Inside
    <3> QED
      BY <1>p, <2>1, <3>2, <3>4, <3>5
  <2> QED
    BY <1>t, <2>6, <2>7 DEF Placed
<1>2. ASSUME NEW r \in Receivers, PushSome(r) PROVE Placed'
  <2>1. PICK p \in todo[r] : Push(r, p[1], p[2])
    BY <1>2 DEF PushSome
  <2> DEFINE d == p[1]
             i == p[2]
  <2>2. d \in Dests /\ i \in Items /\ p = <<d, i>>
    BY <1>t, <2>1 DEF Typed, TypeOK
  <2>3. todo' = [todo EXCEPT ![r] = todo[r] \ {<<d, i>>}]
        /\ UNCHANGED <<arrived, restarts, holding, calls, sent, failed, lost>>
    BY <2>1 DEF Push
  <2>4. \/ queue' = [queue EXCEPT ![d] = Append(queue[d], i)] /\ UNCHANGED dropped
        \/ dropped' = [dropped EXCEPT ![d] = dropped[d] \cup {i}] /\ UNCHANGED queue
    BY <2>1 DEF Push
  <2>q. <<d, i>> \in todo[r]
    BY <2>1, <2>2
  <2> HIDE DEF d, i
  <2>5. \A s \in Receivers : todo'[s] = IF s = r THEN todo[r] \ {<<d, i>>} ELSE todo[s]
    BY <1>t, <2>3 DEF Typed, TypeOK
  <2>6. \A s, u \in Receivers : s # u => todo'[s] \cap todo'[u] = {}
    BY <1>r, <2>5
  <2>7. i \in Waiting(d) /\ Waiting(d)' = Waiting(d) \ {i}
        /\ \A e \in Dests : e # d => Waiting(e)' = Waiting(e)
    BY <1>r, <2>2, <2>5, <2>q DEF Waiting
  <2>8. ASSUME NEW e \in Dests PROVE Good(e)
    <3>1. InCalls(e)' = InCalls(e) /\ CallsApart(e)'
      BY <1>p, <2>3, SameCalls
    <3>2. CASE e # d
      <4>1. queue'[e] = queue[e] /\ dropped'[e] = dropped[e]
        BY <1>t, <2>4, <3>2 DEF Typed, TypeOK
      <4> QED
        BY <1>n, <2>3, <2>7, <3>1, <3>2, <4>1, SamePlaces
    <3>3. CASE e = d
      <4>1. i \notin Range(queue[d])
        BY <1>p, <2>2, <2>7 DEF Apart, Split8
      <4>2. \/ Range(queue'[d]) = Range(queue[d]) \cup {i} /\ dropped'[d] = dropped[d]
            \/ Range(queue'[d]) = Range(queue[d]) /\ dropped'[d] = dropped[d] \cup {i}
        BY <1>t, <2>2, <2>4, RangeAppend DEF Typed, TypeOK
      <4>3. IsInjective(queue'[d])
        <5>1. queue'[d] = Append(queue[d], i) \/ queue'[d] = queue[d]
          BY <1>t, <2>2, <2>4 DEF Typed, TypeOK
        <5>2. IsInjective(queue[d]) /\ queue[d] \in Seq(Items)
          BY <1>p, <1>t, <2>2 DEF Typed, TypeOK
        <5> QED
          BY <2>2, <4>1, <5>1, <5>2, RangeAppend
      <4>4. Apart(d)'
        BY <1>p, <2>2, <2>3, <2>7, <3>1, <3>3, <4>2 DEF Apart, Split8
      <4>5. Counted(d)'
        BY <1>p, <2>2, <2>3, <2>7, <3>1, <3>3, <4>2 DEF Counted, Known, Inside
      <4> QED
        BY <1>p, <2>2, <2>3, <3>1, <3>3, <4>3, <4>4, <4>5
    <3> QED
      BY <3>2, <3>3
  <2> QED
    BY <1>t, <2>6, <2>8 DEF Placed
<1>3. ASSUME NEW d \in Dests, PopBackBy(d) PROVE Placed'
  <2> DEFINE n == IF Len(queue[d]) < Batch[d] THEN Len(queue[d]) ELSE Batch[d]
  <2>1. queue[d] \in Seq(Items) /\ n \in 0..Len(queue[d])
    BY <1>t, TransferAssumption DEF Typed, TypeOK
  <2>2. holding' = [holding EXCEPT ![d] = SubSeq(queue[d], 1, n)]
        /\ queue' = [queue EXCEPT ![d] = SubSeq(queue[d], n + 1, Len(queue[d]))]
        /\ holding[d] = <<>> /\ UNCHANGED <<arrived, restarts, todo, calls, counters>>
    BY <1>3 DEF PopBackBy
  <2> HIDE DEF n
  <2>3. holding'[d] = SubSeq(queue[d], 1, n) /\ queue'[d] = SubSeq(queue[d], n + 1, Len(queue[d]))
        /\ \A e \in Dests : e # d => holding'[e] = holding[e] /\ queue'[e] = queue[e]
    BY <1>t, <2>2 DEF Typed, TypeOK
  <2>4. /\ Range(holding'[d]) \cup Range(queue'[d]) = Range(queue[d])
        /\ Range(holding'[d]) \cap Range(queue'[d]) = {}
        /\ IsInjective(queue'[d]) /\ IsInjective(holding'[d])
    <3>1. IsInjective(queue[d])
      BY <1>p
    <3> QED
      BY <2>1, <2>3, <3>1, RangeSplit
  <2>5. Range(holding[d]) = {}
    BY <2>2 DEF Range
  <2>6. ASSUME NEW e \in Dests PROVE Good(e)
    <3>1. InCalls(e)' = InCalls(e) /\ CallsApart(e)' /\ Waiting(e)' = Waiting(e)
      BY <1>p, <2>2, SameCalls DEF Waiting
    <3>2. CASE e # d
      BY <2>2, <2>3, <3>1, <3>2, SamePlaces
    <3>3. CASE e = d
      <4>1. Apart(d)'
        BY <1>p, <2>2, <2>4, <2>5, <3>1, <3>3 DEF Apart, Split8
      <4>2. Counted(d)'
        BY <1>p, <2>2, <2>4, <2>5, <3>1, <3>3 DEF Counted, Known, Inside
      <4> QED
        BY <2>4, <3>1, <3>3, <4>1, <4>2
    <3> QED
      BY <3>2, <3>3
  <2> QED
    BY <1>r, <1>t, <2>2, <2>6 DEF Placed
<1>4. ASSUME NEW d \in Dests, StartCall(d) PROVE Placed'
  <2> DEFINE c == Call(holding[d], 1)
  <2>1. holding' = [holding EXCEPT ![d] = <<>>] /\ calls' = [calls EXCEPT ![d] = calls[d] \cup {c}]
        /\ UNCHANGED <<arrived, restarts, todo, queue, counters>> /\ c.items = holding[d]
    BY <1>4 DEF StartCall, Call
  <2> HIDE DEF c
  <2>2. /\ holding'[d] = <<>> /\ calls'[d] = calls[d] \cup {c}
        /\ \A e \in Dests : e # d => holding'[e] = holding[e] /\ calls'[e] = calls[e]
    BY <1>t, <2>1 DEF Typed, TypeOK
  <2>3. InCalls(d)' = InCalls(d) \cup Range(holding[d])
    BY <2>1, <2>2 DEF InCalls
  <2>4. \A e \in calls[d] : Range(e.items) \cap Range(c.items) = {}
    BY <1>p, <2>1 DEF Apart, Split8, InCalls
  <2>5. CallsApart(d)'
    BY <1>p, <2>2, <2>4 DEF CallsApart
  <2>6. Range(holding'[d]) = {} /\ IsInjective(holding'[d])
    BY <2>2 DEF Range, IsInjective
  <2>7. ASSUME NEW e \in Dests PROVE Good(e)
    <3>1. Waiting(e)' = Waiting(e)
      BY <2>1 DEF Waiting
    <3>2. CASE e # d
      BY <1>n, <1>p, <2>1, <2>2, <3>1, <3>2, SamePlaces, SameCalls
    <3>3. CASE e = d
      <4>1. Apart(d)'
        BY <1>p, <2>1, <2>3, <2>6, <3>1, <3>3 DEF Apart, Split8
      <4>2. Counted(d)'
        BY <1>p, <2>1, <2>3, <2>6, <3>1, <3>3 DEF Counted, Known, Inside
      <4> QED
        BY <1>p, <2>1, <2>5, <2>6, <3>3, <4>1, <4>2
    <3> QED
      BY <3>2, <3>3
  <2> QED
    BY <1>r, <1>t, <2>1, <2>7 DEF Placed
<1>5. ASSUME NEW d \in Dests, NEW q \in wire[d], Handle(d, q) PROVE Placed'
  <2>1. calls' = [calls EXCEPT ![d] =
                   {IF Request(c) = q THEN [c EXCEPT !.answered = TRUE] ELSE c : c \in calls[d]}]
        /\ UNCHANGED <<arrived, restarts, todo, queue, holding, counters>>
    BY <1>5 DEF Handle
  <2> DEFINE a(c) == IF Request(c) = q THEN [c EXCEPT !.answered = TRUE] ELSE c
  <2>2. calls'[d] = {a(c) : c \in calls[d]}
        /\ \A e \in Dests : e # d => calls'[e] = calls[e]
    BY <1>t, <2>1 DEF Typed, TypeOK
  <2>3. \A c \in calls[d] : a(c).items = c.items
    BY <1>t DEF Typed, TypeOK
  <2> HIDE DEF a
  <2>4. InCalls(d)' = InCalls(d)
    BY <2>2, <2>3 DEF InCalls
  <2>5. CallsApart(d)'
    BY <1>p, <2>2, <2>3 DEF CallsApart
  <2>6. ASSUME NEW e \in Dests PROVE Good(e)
    <3>1. Waiting(e)' = Waiting(e)
      BY <2>1 DEF Waiting
    <3>2. InCalls(e)' = InCalls(e) /\ CallsApart(e)'
      BY <1>p, <2>2, <2>4, <2>5, SameCalls
    <3> QED
      BY <1>n, <2>1, <3>1, <3>2, SamePlaces
  <2> QED
    BY <1>r, <1>t, <2>1, <2>6 DEF Placed
<1>6. ASSUME NEW d \in Dests, NEW c \in calls[d], CallOk(d, c) PROVE Placed'
  <2>1. calls' = [calls EXCEPT ![d] = calls[d] \ {c}]
        /\ sent' = [sent EXCEPT ![d] = sent[d] \cup Range(c.items)]
        /\ UNCHANGED <<arrived, restarts, todo, queue, holding, dropped, failed, lost>>
    BY <1>6 DEF CallOk
  <2>2. /\ InCalls(d)' = InCalls(d) \ Range(c.items) /\ Range(c.items) \subseteq InCalls(d)
        /\ CallsApart(d)'
        /\ \A e \in Dests : e # d => InCalls(e)' = InCalls(e) /\ CallsApart(e)'
    BY <2>1, CallLeaves
  <2>3. /\ sent'[d] = sent[d] \cup Range(c.items)
        /\ \A e \in Dests : e # d => sent'[e] = sent[e]
    BY <1>t, <2>1 DEF Typed, TypeOK
  <2>4. ASSUME NEW e \in Dests PROVE Good(e)
    <3>1. Waiting(e)' = Waiting(e)
      BY <2>1 DEF Waiting
    <3>2. CASE e # d
      BY <1>n, <2>1, <2>2, <2>3, <3>1, <3>2, SamePlaces
    <3>3. CASE e = d
      <4>1. Apart(d)'
        BY <1>p, <2>1, <2>2, <2>3, <3>1, <3>3 DEF Apart, Split8
      <4>2. Counted(d)'
        BY <1>p, <2>1, <2>2, <2>3, <3>1, <3>3 DEF Counted, Known, Inside
      <4> QED
        BY <1>p, <2>1, <2>2, <3>3, <4>1, <4>2
    <3> QED
      BY <3>2, <3>3
  <2> QED
    BY <1>r, <1>t, <2>1, <2>4 DEF Placed
<1>7. ASSUME NEW d \in Dests, NEW c \in calls[d], Retry(d, c) PROVE Placed'
  <2> DEFINE again == Call(c.items, c.try + 1)
  <2>1. calls' = [calls EXCEPT ![d] = (calls[d] \ {c}) \cup {again}] /\ again.items = c.items
        /\ UNCHANGED <<arrived, restarts, todo, queue, holding, counters>>
    BY <1>7 DEF Retry, Call
  <2> HIDE DEF again
  <2>2. calls'[d] = (calls[d] \ {c}) \cup {again}
        /\ \A e \in Dests : e # d => calls'[e] = calls[e]
    BY <1>t, <2>1 DEF Typed, TypeOK
  <2>3. InCalls(d)' = InCalls(d)
    BY <2>1, <2>2 DEF InCalls
  <2>4. CallsApart(d)'
    BY <1>p, <2>1, <2>2 DEF CallsApart
  <2>5. ASSUME NEW e \in Dests PROVE Good(e)
    <3>1. Waiting(e)' = Waiting(e)
      BY <2>1 DEF Waiting
    <3>2. InCalls(e)' = InCalls(e) /\ CallsApart(e)'
      BY <1>p, <2>2, <2>3, <2>4, SameCalls
    <3> QED
      BY <1>n, <2>1, <3>1, <3>2, SamePlaces
  <2> QED
    BY <1>r, <1>t, <2>1, <2>5 DEF Placed
<1>8. ASSUME NEW d \in Dests, NEW c \in calls[d], GiveUp(d, c) PROVE Placed'
  <2>1. calls' = [calls EXCEPT ![d] = calls[d] \ {c}]
        /\ failed' = [failed EXCEPT ![d] = failed[d] \cup Range(c.items)]
        /\ UNCHANGED <<arrived, restarts, todo, queue, holding, dropped, sent, lost>>
    BY <1>8 DEF GiveUp
  <2>2. /\ InCalls(d)' = InCalls(d) \ Range(c.items) /\ Range(c.items) \subseteq InCalls(d)
        /\ CallsApart(d)'
        /\ \A e \in Dests : e # d => InCalls(e)' = InCalls(e) /\ CallsApart(e)'
    BY <2>1, CallLeaves
  <2>3. /\ failed'[d] = failed[d] \cup Range(c.items)
        /\ \A e \in Dests : e # d => failed'[e] = failed[e]
    BY <1>t, <2>1 DEF Typed, TypeOK
  <2>4. ASSUME NEW e \in Dests PROVE Good(e)
    <3>1. Waiting(e)' = Waiting(e)
      BY <2>1 DEF Waiting
    <3>2. CASE e # d
      BY <1>n, <2>1, <2>2, <2>3, <3>1, <3>2, SamePlaces
    <3>3. CASE e = d
      <4>1. Apart(d)'
        BY <1>p, <2>1, <2>2, <2>3, <3>1, <3>3 DEF Apart, Split8
      <4>2. Counted(d)'
        BY <1>p, <2>1, <2>2, <2>3, <3>1, <3>3 DEF Counted, Known, Inside
      <4> QED
        BY <1>p, <2>1, <2>2, <3>3, <4>1, <4>2
    <3> QED
      BY <3>2, <3>3
  <2> QED
    BY <1>r, <1>t, <2>1, <2>4 DEF Placed
<1>9. ASSUME Restart PROVE Placed'
  <2>1. /\ todo' = [r \in Receivers |-> {}] /\ queue' = [e \in Dests |-> <<>>]
        /\ holding' = [e \in Dests |-> <<>>] /\ calls' = [e \in Dests |-> {}]
        /\ lost' = [e \in Dests |-> lost[e] \cup Inside(e)]
        /\ restarts' = restarts + 1 /\ UNCHANGED <<arrived, dropped, sent, failed>>
    BY <1>9 DEF Restart
  <2>2. ASSUME NEW e \in Dests PROVE Good(e)
    <3>1. Waiting(e)' = {} /\ InCalls(e)' = {} /\ CallsApart(e)'
      BY <2>1 DEF Waiting, InCalls, CallsApart
    <3>2. Range(queue'[e]) = {} /\ Range(holding'[e]) = {}
          /\ IsInjective(queue'[e]) /\ IsInjective(holding'[e])
      BY <2>1 DEF Range, IsInjective
    <3>3. lost'[e] = lost[e] \cup Inside(e)
      BY <2>1
    <3>4. Apart(e)'
      BY <1>p, <2>1, <3>1, <3>2, <3>3 DEF Apart, Split8, Inside
    <3>5. Counted(e)'
      BY <1>n, <1>p, <2>1, <3>1, <3>2, <3>3 DEF Counted, Known, Inside
    <3> QED
      BY <3>1, <3>2, <3>4, <3>5
  <2> QED
    BY <1>t, <2>1, <2>2 DEF Placed
<1>10. CASE UNCHANGED vars
  <2>1. UNCHANGED <<arrived, restarts, todo, queue, holding, calls, dropped, sent, failed, lost>>
    BY <1>10 DEF vars
  <2>2. ASSUME NEW e \in Dests PROVE Good(e)
    <3>1. Waiting(e)' = Waiting(e) /\ InCalls(e)' = InCalls(e) /\ CallsApart(e)'
      BY <1>p, <2>1, SameCalls DEF Waiting
    <3> QED
      BY <1>n, <2>1, <3>1, SamePlaces
  <2> QED
    BY <1>r, <1>t, <2>1, <2>2 DEF Placed
<1> QED
  BY <1>1, <1>2, <1>3, <1>4, <1>5, <1>6, <1>7, <1>8, <1>9, <1>10 DEF Next, Task


\* The places together are what is known.
LEMMA AllPlaces == \A d : UNION Range(Places(d)) = Known(d)
<1> TAKE d
<1> DEFINE p == Places(d)
<1>1. /\ p[1] = Waiting(d) /\ p[2] = Range(queue[d]) /\ p[3] = Range(holding[d]) /\ p[4] = InCalls(d)
      /\ p[5] = dropped[d] /\ p[6] = sent[d] /\ p[7] = failed[d] /\ p[8] = lost[d]
  BY DEF Places
<1>2. DOMAIN p = 1..8
  BY DEF Places
<1> HIDE DEF p
<1>3. Range(p) = {p[1], p[2], p[3], p[4], p[5], p[6], p[7], p[8]}
  BY <1>2 DEF Range
<1>4. UNION Range(p) = Known(d)
  BY <1>1, <1>3 DEF Known, Inside
<1> QED
  BY <1>4 DEF p

\* Placed holds in every reachable state.
LEMMA PlacedAlways == Spec => []Placed
BY PlacedInit, PlacedStep, PTL DEF Spec

\* Every copy of every item is in one place and counted once, with any number
\* of receivers, destinations, calls, tries and restarts, and as long as
\* transfer is not restarted none disappears without being counted.
THEOREM TransferAccounts == Spec => []Accounted
<1>1. Placed => Accounted
  <2>1. Placed => NothingUncounted
    BY AllPlaces DEF Placed, Counted, NothingUncounted
  <2> QED
    BY <2>1, PlacedIsOnePlace DEF Accounted
<1> QED
  BY <1>1, PlacedAlways, PTL

-----------------------------------------------------------------------------
(* Transfer serves every destination as DeliveryChannel promises *)

\* The requests on the wire that carry an item, and how often it was and may
\* still be handled.
OnWire(d, i) == {q \in wire[d] : i \in Range(q.items)}
Sends(d, i)  == copies[d][i] + Cardinality(OnWire(d, i))

\* The items of d that have been in a call.
Called(d) == InCalls(d) \cup sent[d] \cup failed[d] \cup lost[d]

\* An item is handled no more often than it is sent, no call that has tried it
\* n times has sent it more often, what was in no call is not on its way, and
\* what a call was answered has been handled.
Sound(d, i) ==
  /\ IsFiniteSet(OnWire(d, i)) /\ Sends(d, i) <= Tries[d]
  /\ \A c \in calls[d] : i \in Range(c.items) =>
       Sends(d, i) <= c.try /\ (c.answered => copies[d][i] > 0)
  /\ i \notin Called(d) => copies[d][i] = 0 /\ OnWire(d, i) = {}

\* The inductive invariant of the refinement.
Tried == Placed /\ \A d \in Dests, i \in Items : Sound(d, i)

\* Nothing is on its way at the start.
LEMMA TriedInit == Init => Tried
<1> SUFFICES ASSUME Init PROVE Tried
  OBVIOUS
<1>1. ASSUME NEW d \in Dests, NEW i \in Items PROVE Sound(d, i)
  <2>1. OnWire(d, i) = {} /\ copies[d][i] = 0 /\ calls[d] = {}
    BY DEF Init, OnWire
  <2> QED
    BY <2>1, FS_EmptySet, TransferAssumption DEF Sound, Sends
<1> QED
  BY <1>1, PlacedInit DEF Tried

\* A subset of a finite set has no more elements.
LEMMA Fewer ==
  ASSUME NEW S, NEW T, IsFiniteSet(S), T \subseteq S
  PROVE  /\ IsFiniteSet(T) /\ Cardinality(T) <= Cardinality(S)
         /\ Cardinality(T) \in Nat /\ Cardinality(S) \in Nat
BY FS_Subset, FS_CardinalityType

\* A step that handles nothing, sends nothing and starts no call.
LEMMA SoundKept ==
  ASSUME Tried, NEW d \in Dests, NEW i \in Items, copies'[d] = copies[d],
         wire'[d] \subseteq wire[d], calls'[d] \subseteq calls[d], Called(d) \subseteq Called(d)'
  PROVE  Sound(d, i)'
<1>1. Sound(d, i) /\ copies[d][i] \in Nat /\ Tries[d] \in Nat /\ \A c \in calls[d] : c.try \in Nat
  BY TransferAssumption DEF Tried, Placed, Typed, TypeOK
<1>2. OnWire(d, i)' \subseteq OnWire(d, i)
  BY DEF OnWire
<1>3. IsFiniteSet(OnWire(d, i)') /\ Cardinality(OnWire(d, i)') <= Cardinality(OnWire(d, i))
      /\ Cardinality(OnWire(d, i)') \in Nat /\ Cardinality(OnWire(d, i)) \in Nat
  BY <1>1, <1>2, Fewer DEF Sound
<1>4. Sends(d, i)' <= Sends(d, i) /\ Sends(d, i)' \in Nat /\ Sends(d, i) \in Nat
  BY <1>1, <1>3 DEF Sends
<1> QED
  BY <1>1, <1>2, <1>3, <1>4 DEF Sound

\* Sending an item once more.
LEMMA OneMoreOnWire ==
  ASSUME Tried, NEW d \in Dests, NEW i \in Items, NEW q, copies'[d] = copies[d],
         OnWire(d, i)' \subseteq OnWire(d, i) \cup {q}
  PROVE  /\ IsFiniteSet(OnWire(d, i)') /\ Sends(d, i)' \in Nat
         /\ Sends(d, i) \in Nat /\ Sends(d, i)' <= Sends(d, i) + 1
<1>1. IsFiniteSet(OnWire(d, i)) /\ copies[d][i] \in Nat
  BY DEF Tried, Placed, Typed, TypeOK, Sound
<1>2. IsFiniteSet(OnWire(d, i) \cup {q}) /\ Cardinality(OnWire(d, i)) \in Nat
      /\ Cardinality(OnWire(d, i) \cup {q}) <= Cardinality(OnWire(d, i)) + 1
  <2> DEFINE S == OnWire(d, i)
  <2>1. IsFiniteSet(S)
    BY <1>1
  <2> HIDE DEF S
  <2>2. Cardinality(S) \in Nat
    BY <2>1, FS_CardinalityType
  <2>3. IsFiniteSet(S \cup {q})
        /\ (Cardinality(S \cup {q}) = Cardinality(S) \/ Cardinality(S \cup {q}) = Cardinality(S) + 1)
    BY <2>1, FS_AddElement
  <2>4. Cardinality(S \cup {q}) <= Cardinality(S) + 1
    BY <2>2, <2>3
  <2> QED
    BY <2>2, <2>3, <2>4 DEF S
<1>3. IsFiniteSet(OnWire(d, i)') /\ Cardinality(OnWire(d, i)') \in Nat
      /\ Cardinality(OnWire(d, i)') <= Cardinality(OnWire(d, i) \cup {q})
      /\ Cardinality(OnWire(d, i) \cup {q}) \in Nat
  BY <1>2, Fewer
<1> QED
  BY <1>1, <1>2, <1>3 DEF Sends

\* Every action keeps the count of what is sent and handled.
LEMMA TriedStep == Tried /\ [Next]_vars => Tried'
<1> SUFFICES ASSUME Tried, [Next]_vars PROVE Tried'
  OBVIOUS
<1> USE DEF counters, inside, outside
<1>p. Placed /\ Placed' /\ Typed /\ Typed'
  BY PlacedStep DEF Tried, Placed
<1>a. \A e \in Dests : Apart(e)
  BY <1>p DEF Placed
<1>s. \A e \in Dests, i \in Items : Sound(e, i) /\ copies[e][i] \in Nat
  BY <1>p DEF Tried, Typed, TypeOK
<1>c. \A e \in Dests : \A c \in calls[e] : GoodCall(e, c)
  BY <1>p DEF GoodCall, Typed, TypeOK
<1>1. ASSUME NEW r \in Receivers, NEW n \in 1..MaxRequest, Recv(r, n) PROVE Tried'
  <2>1. UNCHANGED <<inside, outside, counters>>
    BY <1>1 DEF Recv
  <2>2. \A e \in Dests : Called(e)' = Called(e)
    BY <2>1 DEF Called, InCalls
  <2> QED
    BY <1>p, <2>1, <2>2, SoundKept DEF Tried
<1>2. ASSUME NEW r \in Receivers, PushSome(r) PROVE Tried'
  <2>1. UNCHANGED <<calls, outside, sent, failed, lost>>
    BY <1>2 DEF PushSome, Push
  <2>2. \A e \in Dests : Called(e)' = Called(e)
    BY <2>1 DEF Called, InCalls
  <2> QED
    BY <1>p, <2>1, <2>2, SoundKept DEF Tried
<1>3. ASSUME NEW d \in Dests, PopBackBy(d) PROVE Tried'
  <2>1. UNCHANGED <<calls, outside, counters>>
    BY <1>3 DEF PopBackBy
  <2>2. \A e \in Dests : Called(e)' = Called(e)
    BY <2>1 DEF Called, InCalls
  <2> QED
    BY <1>p, <2>1, <2>2, SoundKept DEF Tried
<1>4. ASSUME NEW d \in Dests, StartCall(d) PROVE Tried'
  <2> DEFINE c == Call(holding[d], 1)
  <2>1. /\ calls' = [calls EXCEPT ![d] = calls[d] \cup {c}]
        /\ wire' = [wire EXCEPT ![d] = wire[d] \cup {Request(c)}]
        /\ UNCHANGED <<copies, counters>>
    BY <1>4 DEF StartCall
  <2>2. c.items = holding[d] /\ c.try = 1 /\ ~c.answered /\ Request(c).items = holding[d]
    BY DEF Call, Request
  <2> HIDE DEF c
  <2>3. /\ calls'[d] = calls[d] \cup {c} /\ wire'[d] = wire[d] \cup {Request(c)}
        /\ \A e \in Dests : e # d => calls'[e] = calls[e] /\ wire'[e] = wire[e]
    BY <1>p, <2>1 DEF Typed, TypeOK
  <2>4. \A e \in Dests : Called(e) \subseteq Called(e)'
    BY <2>1, <2>3 DEF Called, InCalls
  <2>5. ASSUME NEW e \in Dests, NEW i \in Items PROVE Sound(e, i)'
    <3>1. CASE e # d
      BY <2>1, <2>3, <2>4, <3>1, SoundKept
    <3>2. CASE e = d /\ i \notin Range(holding[d])
      <4>1. OnWire(d, i)' = OnWire(d, i)
        BY <2>2, <2>3, <3>2 DEF OnWire
      <4>2. Sends(d, i)' = Sends(d, i)
        BY <2>1, <4>1 DEF Sends
      <4> QED
        BY <1>s, <2>1, <2>2, <2>3, <2>4, <3>2, <4>1, <4>2 DEF Sound
    <3>3. CASE e = d /\ i \in Range(holding[d])
      <4>1. i \notin Called(d)
        BY <1>a, <3>3 DEF Apart, Split8, Called
      <4>2. Sends(d, i) = 0
        <5>1. copies[d][i] = 0 /\ OnWire(d, i) = {}
          BY <1>s, <4>1 DEF Sound
        <5> QED
          BY <5>1, FS_EmptySet DEF Sends
      <4>3. OnWire(d, i)' \subseteq OnWire(d, i) \cup {Request(c)}
        BY <2>3 DEF OnWire
      <4>4. IsFiniteSet(OnWire(d, i)') /\ Sends(d, i)' \in Nat /\ Sends(d, i)' <= 1
        <5>1. copies'[d] = copies[d]
          BY <2>1
        <5> QED
          BY <4>2, <4>3, <5>1, OneMoreOnWire
      <4>5. \A b \in calls[d] : i \notin Range(b.items)
        BY <4>1 DEF Called, InCalls
      <4>6. i \in Called(d)'
        BY <2>2, <2>3, <3>3 DEF Called, InCalls
      <4> QED
        BY <2>2, <2>3, <3>3, <4>4, <4>5, <4>6, TransferAssumption DEF Sound
    <3> QED
      BY <3>1, <3>2, <3>3
  <2> QED
    BY <1>p, <2>5 DEF Tried
<1>5. ASSUME NEW d \in Dests, NEW q \in wire[d], Handle(d, q) PROVE Tried'
  <2> DEFINE a(c) == IF Request(c) = q THEN [c EXCEPT !.answered = TRUE] ELSE c
  <2>1. /\ wire' = [wire EXCEPT ![d] = wire[d] \ {q}]
        /\ copies' = [copies EXCEPT ![d] =
                        [i \in Items |-> IF i \in Range(q.items) THEN @[i] + 1 ELSE @[i]]]
        /\ calls' = [calls EXCEPT ![d] = {a(c) : c \in calls[d]}]
        /\ UNCHANGED counters
    BY <1>5 DEF Handle
  <2>2. \A c \in calls[d] : /\ a(c).items = c.items /\ a(c).try = c.try
                            /\ a(c).answered => c.answered \/ c.items = q.items
    BY <1>c DEF GoodCall, Request
  <2> HIDE DEF a
  <2>3. /\ calls'[d] = {a(c) : c \in calls[d]} /\ wire'[d] = wire[d] \ {q}
        /\ \A i \in Items : copies'[d][i] = IF i \in Range(q.items) THEN copies[d][i] + 1 ELSE copies[d][i]
        /\ \A e \in Dests : e # d => calls'[e] = calls[e] /\ wire'[e] = wire[e] /\ copies'[e] = copies[e]
    BY <1>p, <2>1 DEF Typed, TypeOK
  <2>4. InCalls(d)' = InCalls(d)
    BY <2>2, <2>3 DEF InCalls
  <2>5. \A e \in Dests : Called(e)' = Called(e)
    BY <2>1, <2>3, <2>4 DEF Called, InCalls
  <2>6. ASSUME NEW e \in Dests, NEW i \in Items PROVE Sound(e, i)'
    <3>1. CASE e # d
      BY <2>3, <2>5, <3>1, SoundKept
    <3>2. CASE e = d /\ i \notin Range(q.items)
      <4>1. OnWire(d, i)' = OnWire(d, i)
        BY <2>3, <3>2 DEF OnWire
      <4>2. Sends(d, i)' = Sends(d, i) /\ copies'[d][i] = copies[d][i]
        BY <2>3, <3>2, <4>1 DEF Sends
      <4> QED
        BY <1>s, <2>2, <2>3, <2>5, <3>2, <4>1, <4>2 DEF Sound
    <3>3. CASE e = d /\ i \in Range(q.items)
      <4>1. q \in OnWire(d, i) /\ OnWire(d, i)' = OnWire(d, i) \ {q} /\ IsFiniteSet(OnWire(d, i))
        BY <1>s, <2>3, <3>3 DEF OnWire, Sound
      <4>2. IsFiniteSet(OnWire(d, i)') /\ Cardinality(OnWire(d, i)) \in Nat
            /\ Cardinality(OnWire(d, i)') = Cardinality(OnWire(d, i)) - 1
        BY <4>1, FS_RemoveElement, FS_CardinalityType
      <4>3. copies'[d][i] = copies[d][i] + 1
        BY <2>3, <3>3
      <4>4. Sends(d, i)' = Sends(d, i) /\ copies'[d][i] > 0
        BY <1>s, <4>2, <4>3 DEF Sends
      <4>5. i \in Called(d)'
        BY <1>s, <2>5, <4>1 DEF Sound
      <4> QED
        BY <1>s, <2>2, <2>3, <3>3, <4>2, <4>4, <4>5 DEF Sound
    <3> QED
      BY <3>1, <3>2, <3>3
  <2> QED
    BY <1>p, <2>6 DEF Tried
<1>6. ASSUME NEW d \in Dests, NEW c \in calls[d], CallOk(d, c) PROVE Tried'
  <2>1. calls' = [calls EXCEPT ![d] = calls[d] \ {c}]
        /\ sent' = [sent EXCEPT ![d] = sent[d] \cup Range(c.items)]
        /\ UNCHANGED <<outside, failed, lost>>
    BY <1>6 DEF CallOk
  <2>2. \A e \in Dests : calls'[e] \subseteq calls[e]
    BY <1>p, <2>1 DEF Typed, TypeOK
  <2>3. \A e \in Dests : Called(e) \subseteq Called(e)'
    BY <1>p, <2>1, SMTT(30) DEF Called, InCalls, Typed, TypeOK
  <2> QED
    BY <1>p, <2>1, <2>2, <2>3, SoundKept DEF Tried
<1>7. ASSUME NEW d \in Dests, NEW c \in calls[d], Retry(d, c) PROVE Tried'
  <2> DEFINE again == Call(c.items, c.try + 1)
  <2>1. PICK left \in Left(d, c) : wire' = [wire EXCEPT ![d] = left \cup {Request(again)}]
    BY <1>7 DEF Retry
  <2>2. calls' = [calls EXCEPT ![d] = (calls[d] \ {c}) \cup {again}]
        /\ UNCHANGED <<copies, counters>> /\ MayRetry(d, c)
    BY <1>7 DEF Retry
  <2>3. /\ again.items = c.items /\ again.try = c.try + 1 /\ ~again.answered
        /\ Request(again).items = c.items /\ Request(c).items = c.items
    BY DEF Call, Request
  <2> HIDE DEF again
  <2>4. /\ calls'[d] = (calls[d] \ {c}) \cup {again} /\ wire'[d] = left \cup {Request(again)}
        /\ \A e \in Dests : e # d => calls'[e] = calls[e] /\ wire'[e] = wire[e]
        /\ left \subseteq wire[d] /\ wire[d] \ {Request(c)} \subseteq left
    BY <1>p, <2>1, <2>2 DEF Left, Typed, TypeOK
  <2>5. \A e \in Dests : Called(e)' = Called(e)
    BY <2>2, <2>3, <2>4 DEF Called, InCalls
  <2>6. ASSUME NEW e \in Dests, NEW i \in Items PROVE Sound(e, i)'
    <3>1. CASE e # d
      BY <2>2, <2>4, <2>5, <3>1, SoundKept
    <3>2. CASE e = d /\ i \notin Range(c.items)
      <4>1. OnWire(d, i)' = OnWire(d, i)
        BY <2>3, <2>4, <3>2 DEF OnWire
      <4>2. Sends(d, i)' = Sends(d, i)
        BY <2>2, <4>1 DEF Sends
      <4> QED
        BY <1>s, <2>2, <2>3, <2>4, <2>5, <3>2, <4>1, <4>2 DEF Sound
    <3>3. CASE e = d /\ i \in Range(c.items)
      <4>1. OnWire(d, i)' \subseteq OnWire(d, i) \cup {Request(again)}
        BY <2>4 DEF OnWire
      <4>2. IsFiniteSet(OnWire(d, i)') /\ Sends(d, i)' \in Nat
            /\ Sends(d, i) \in Nat /\ Sends(d, i)' <= Sends(d, i) + 1
        BY <2>2, <4>1, OneMoreOnWire
      <4>3. Sends(d, i) <= c.try /\ c.try + 1 <= Tries[d] /\ c.try \in Nat
        BY <1>c, <1>s, <2>2, <3>3, TransferAssumption DEF Sound, MayRetry, GoodCall
      <4>4. Sends(d, i)' <= c.try + 1 /\ Sends(d, i)' <= Tries[d]
        BY <4>2, <4>3, TransferAssumption
      <4>5. \A b \in calls[d] : b # c => i \notin Range(b.items)
        BY <1>p, <3>3 DEF Placed, CallsApart
      <4>6. i \in Called(d)'
        BY <2>5, <3>3 DEF Called, InCalls
      <4> QED
        BY <2>3, <2>4, <3>3, <4>2, <4>4, <4>5, <4>6 DEF Sound
    <3> QED
      BY <3>1, <3>2, <3>3
  <2> QED
    BY <1>p, <2>6 DEF Tried
<1>8. ASSUME NEW d \in Dests, NEW c \in calls[d], GiveUp(d, c) PROVE Tried'
  <2>1. calls' = [calls EXCEPT ![d] = calls[d] \ {c}]
        /\ failed' = [failed EXCEPT ![d] = failed[d] \cup Range(c.items)]
        /\ UNCHANGED <<copies, sent, lost>>
    BY <1>8 DEF GiveUp
  <2>2. \A e \in Dests : wire'[e] \subseteq wire[e] /\ calls'[e] \subseteq calls[e]
    BY <1>8, <1>p DEF GiveUp, Left, Typed, TypeOK
  <2>3. \A e \in Dests : Called(e) \subseteq Called(e)'
    BY <1>p, <2>1, SMTT(30) DEF Called, InCalls, Typed, TypeOK
  <2> QED
    BY <1>p, <2>1, <2>2, <2>3, SoundKept DEF Tried
<1>9. ASSUME Restart PROVE Tried'
  <2>1. /\ calls' = [e \in Dests |-> {}] /\ lost' = [e \in Dests |-> lost[e] \cup Inside(e)]
        /\ UNCHANGED <<outside, sent, failed>>
    BY <1>9 DEF Restart
  <2>2. \A e \in Dests : calls'[e] \subseteq calls[e] /\ Called(e) \subseteq Called(e)'
    BY <2>1 DEF Called, Inside
  <2> QED
    BY <1>p, <2>1, <2>2, SoundKept DEF Tried
<1>10. CASE UNCHANGED vars
  <2>1. UNCHANGED <<calls, outside, counters>>
    BY <1>10 DEF vars
  <2>2. \A e \in Dests : Called(e)' = Called(e)
    BY <2>1 DEF Called, InCalls
  <2> QED
    BY <1>p, <2>1, <2>2, SoundKept DEF Tried
<1> QED
  BY <1>1, <1>2, <1>3, <1>4, <1>5, <1>6, <1>7, <1>8, <1>9, <1>10 DEF Next, Task

\* The items of a sequence that is not empty.
LEMMA RangeOf ==
  ASSUME NEW q \in Seq(Items), Len(q) >= 1
  PROVE  Range(q) # {} /\ Range(q) \subseteq Items
<1>1. q[1] \in Range(q)
  BY DEF Range
<1> QED
  BY <1>1 DEF Range

\* The status of an item, read off sets that do not meet.
LEMMA StatusRead ==
  ASSUME Placed, NEW d \in Dests, NEW i \in Items
  PROVE  /\ i \in Inside(d)  <=> Status[d][i] = "kept"
         /\ i \in dropped[d] <=> Status[d][i] = "dropped"
         /\ i \in sent[d]    <=> Status[d][i] = "sent"
         /\ i \in failed[d]  <=> Status[d][i] = "failed"
         /\ i \in lost[d]    <=> Status[d][i] = "lost"
         /\ Status[d][i] \in {"kept", "dropped", "sent", "failed", "lost", "new"}
<1>1. Apart(d)
  BY DEF Placed
<1>2. Status[d][i] = CASE i \in Inside(d)  -> "kept"
                       [] i \in dropped[d] -> "dropped"
                       [] i \in sent[d]    -> "sent"
                       [] i \in failed[d]  -> "failed"
                       [] i \in lost[d]    -> "lost"
                       [] OTHER            -> "new"
  BY DEF Status
<1>3. /\ Inside(d) \cap (dropped[d] \cup sent[d] \cup failed[d] \cup lost[d]) = {}
      /\ dropped[d] \cap (sent[d] \cup failed[d] \cup lost[d]) = {}
      /\ sent[d] \cap (failed[d] \cup lost[d]) = {} /\ failed[d] \cap lost[d] = {}
  BY <1>1 DEF Apart, Split8, Inside
<1> QED
  BY <1>2, <1>3

\* The same after a step.
LEMMA StatusReadNext ==
  ASSUME Placed', NEW d \in Dests, NEW i \in Items
  PROVE  /\ i \in Inside(d)'  <=> Status'[d][i] = "kept"
         /\ i \in dropped'[d] <=> Status'[d][i] = "dropped"
         /\ i \in sent'[d]    <=> Status'[d][i] = "sent"
         /\ i \in failed'[d]  <=> Status'[d][i] = "failed"
         /\ i \in lost'[d]    <=> Status'[d][i] = "lost"
         /\ Status'[d][i] \in {"kept", "dropped", "sent", "failed", "lost", "new"}
<1>1. Apart(d)'
  BY DEF Placed
<1>2. Status'[d][i] = CASE i \in Inside(d)'  -> "kept"
                        [] i \in dropped'[d] -> "dropped"
                        [] i \in sent'[d]    -> "sent"
                        [] i \in failed'[d]  -> "failed"
                        [] i \in lost'[d]    -> "lost"
                        [] OTHER             -> "new"
  BY DEF Status
<1>3. /\ Inside(d)' \cap (dropped'[d] \cup sent'[d] \cup failed'[d] \cup lost'[d]) = {}
      /\ dropped'[d] \cap (sent'[d] \cup failed'[d] \cup lost'[d]) = {}
      /\ sent'[d] \cap (failed'[d] \cup lost'[d]) = {} /\ failed'[d] \cap lost'[d] = {}
  BY <1>1 DEF Apart, Split8, Inside
<1> QED
  BY <1>2, <1>3

\* A step that keeps the sets of a destination keeps the status of its items.
LEMMA StatusSame ==
  ASSUME NEW d \in Dests, Inside(d)' = Inside(d), dropped'[d] = dropped[d],
         sent'[d] = sent[d], failed'[d] = failed[d], lost'[d] = lost[d]
  PROVE  Status'[d] = Status[d]
BY DEF Status

\* A step that keeps the sets of all destinations keeps Status.
LEMMA StatusUnchanged ==
  ASSUME UNCHANGED <<dropped, sent, failed, lost>>, \A d \in Dests : Inside(d)' = Inside(d)
  PROVE  Status' = Status
BY DEF Status

\* A step that takes some items of one destination to one status.
LEMMA StatusMoves ==
  ASSUME NEW d \in Dests, NEW S, S # {}, NEW to,
         \A e \in Dests : e # d => Status'[e] = Status[e],
         \A i \in Items : Status'[d][i] = IF i \in S THEN to ELSE Status[d][i]
  PROVE  Channel!Move(d, S, to)
<1> DEFINE now == [i \in Items |-> IF i \in S THEN to ELSE Status[d][i]]
<1>1. Status'[d] = now
  BY DEF Status
<1>2. Status' = [e \in Dests |-> IF e = d THEN now ELSE Status[e]]
  BY <1>1 DEF Status
<1>3. Status = [e \in Dests |-> Status[e]]
  BY DEF Status
<1>4. Status' = [Status EXCEPT ![d] = now]
  BY <1>2, <1>3
<1> QED
  BY <1>4 DEF Channel!Move

\* The start of transfer is a start of the channel.
LEMMA ChannelInit == Init => Channel!Init
<1> SUFFICES ASSUME Init PROVE Channel!Init
  OBVIOUS
<1>1. Placed
  BY PlacedInit
<1>2. ASSUME NEW d \in Dests, NEW i \in Items PROVE Status[d][i] = "new"
  <2>1. Inside(d) = {} /\ dropped[d] = {} /\ sent[d] = {} /\ failed[d] = {} /\ lost[d] = {}
    BY DEF Init, Inside, InCalls, Range
  <2> QED
    BY <1>1, <2>1, StatusRead
<1>3. Status = [d \in Dests |-> [i \in Items |-> "new"]]
  BY <1>2 DEF Status
<1> QED
  BY <1>3 DEF Init, Channel!Init


\* Every step of transfer or of a destination is a step of the channel, or
\* leaves it alone.
LEMMA ChannelStep == Tried /\ Tried' /\ [Next]_vars => [Channel!Next]_<<Status, copies>>
<1> SUFFICES ASSUME Tried, Tried', [Next]_vars PROVE [Channel!Next]_<<Status, copies>>
  OBVIOUS
<1> USE DEF counters, inside, outside
<1>p. Placed /\ Placed' /\ Typed /\ Typed'
  BY DEF Tried, Placed
<1>a. \A e \in Dests : Apart(e)
  BY <1>p DEF Placed
<1>1. ASSUME NEW r \in Receivers, NEW n \in 1..MaxRequest, Recv(r, n) PROVE UNCHANGED <<Status, copies>>
  <2>1. UNCHANGED <<inside, outside, counters>>
    BY <1>1 DEF Recv
  <2>2. \A e \in Dests : Inside(e)' = Inside(e)
    BY <2>1 DEF Inside, InCalls
  <2> QED
    BY <2>1, <2>2, StatusUnchanged
<1>2. ASSUME NEW r \in Receivers, PushSome(r) PROVE Channel!Next
  <2>1. PICK p \in todo[r] : Push(r, p[1], p[2])
    BY <1>2 DEF PushSome
  <2> DEFINE d == p[1]
             i == p[2]
  <2>2. d \in Dests /\ i \in Items /\ p = <<d, i>>
    BY <1>p, <2>1 DEF Typed, TypeOK
  <2>3. UNCHANGED <<holding, calls, copies, sent, failed, lost>>
    BY <2>1 DEF Push
  <2>4. \/ queue' = [queue EXCEPT ![d] = Append(queue[d], i)] /\ UNCHANGED dropped
        \/ dropped' = [dropped EXCEPT ![d] = dropped[d] \cup {i}] /\ UNCHANGED queue
    BY <2>1 DEF Push
  <2>5. i \in Waiting(d)
    BY <2>1, <2>2 DEF Waiting
  <2> HIDE DEF d, i
  <2>6. i \in Channel!In(d, "new")
    <3>1. i \notin Inside(d) \cup dropped[d] \cup sent[d] \cup failed[d] \cup lost[d]
      BY <1>a, <2>2, <2>5 DEF Apart, Split8, Inside
    <3> QED
      BY <1>p, <2>2, <3>1, StatusRead DEF Channel!In
  <2>7. InCalls(d)' = InCalls(d) /\ \A e \in Dests : InCalls(e)' = InCalls(e)
    BY <2>3 DEF InCalls
  <2>8. \A e \in Dests : e # d => Status'[e] = Status[e]
    <3>1. ASSUME NEW e \in Dests, e # d PROVE queue'[e] = queue[e] /\ dropped'[e] = dropped[e]
      BY <1>p, <2>4, <3>1 DEF Typed, TypeOK
    <3>2. \A e \in Dests : e # d => Inside(e)' = Inside(e)
      BY <2>3, <2>7, <3>1 DEF Inside
    <3> QED
      BY <2>3, <3>1, <3>2, StatusSame
  <2>9. CASE queue' = [queue EXCEPT ![d] = Append(queue[d], i)] /\ UNCHANGED dropped
    <3>1. Range(queue'[d]) = Range(queue[d]) \cup {i}
      <4>1. queue'[d] = Append(queue[d], i) /\ queue[d] \in Seq(Items)
        BY <1>p, <2>2, <2>9 DEF Typed, TypeOK
      <4> QED
        BY <2>2, <4>1, RangeAppend
    <3>2. Inside(d)' = Inside(d) \cup {i}
      BY <2>3, <2>7, <3>1 DEF Inside
    <3>3. \A j \in Items : Status'[d][j] = IF j \in {i} THEN "kept" ELSE Status[d][j]
      <4> TAKE j \in Items
      <4>1. CASE j = i
        BY <1>p, <2>2, <3>2, <4>1, StatusReadNext
      <4>2. CASE j # i
        BY <2>2, <2>3, <2>9, <3>2, <4>2 DEF Status
      <4> QED
        BY <4>1, <4>2
    <3>4. Channel!Move(d, {i}, "kept")
      BY <2>2, <2>8, <3>3, StatusMoves
    <3> QED
      BY <2>2, <2>3, <2>6, <3>4 DEF Channel!Next, Channel!Keep
  <2>10. CASE dropped' = [dropped EXCEPT ![d] = dropped[d] \cup {i}] /\ UNCHANGED queue
    <3>1. dropped'[d] = dropped[d] \cup {i}
      BY <1>p, <2>2, <2>10 DEF Typed, TypeOK
    <3>2. Inside(d)' = Inside(d)
      BY <2>3, <2>7, <2>10 DEF Inside
    <3>3. \A j \in Items : Status'[d][j] = IF j \in {i} THEN "dropped" ELSE Status[d][j]
      <4> TAKE j \in Items
      <4>1. CASE j = i
        BY <1>p, <2>2, <3>1, <4>1, StatusReadNext
      <4>2. CASE j # i
        BY <2>2, <2>3, <3>1, <3>2, <4>2 DEF Status
      <4> QED
        BY <4>1, <4>2
    <3>4. Channel!Move(d, {i}, "dropped")
      BY <2>2, <2>8, <3>3, StatusMoves
    <3> QED
      BY <2>2, <2>3, <2>6, <3>4 DEF Channel!Next, Channel!Drop
  <2> QED
    BY <2>4, <2>9, <2>10
<1>3. ASSUME NEW d \in Dests, PopBackBy(d) PROVE UNCHANGED <<Status, copies>>
  <2> DEFINE n == IF Len(queue[d]) < Batch[d] THEN Len(queue[d]) ELSE Batch[d]
  <2>1. queue[d] \in Seq(Items) /\ n \in 0..Len(queue[d])
    BY <1>p, TransferAssumption DEF Typed, TypeOK
  <2>2. holding' = [holding EXCEPT ![d] = SubSeq(queue[d], 1, n)]
        /\ queue' = [queue EXCEPT ![d] = SubSeq(queue[d], n + 1, Len(queue[d]))]
        /\ holding[d] = <<>> /\ UNCHANGED <<calls, copies, counters>>
    BY <1>3 DEF PopBackBy
  <2> HIDE DEF n
  <2>3. holding'[d] = SubSeq(queue[d], 1, n) /\ queue'[d] = SubSeq(queue[d], n + 1, Len(queue[d]))
        /\ \A e \in Dests : e # d => holding'[e] = holding[e] /\ queue'[e] = queue[e]
    BY <1>p, <2>2 DEF Typed, TypeOK
  <2>4. Range(holding'[d]) \cup Range(queue'[d]) = Range(queue[d]) /\ Range(holding[d]) = {}
    <3>1. Range(holding'[d]) \cup Range(queue'[d]) = Range(queue[d])
      BY <2>1, <2>3, RangeSplit
    <3>2. Range(holding[d]) = {}
      BY <2>2 DEF Range
    <3> QED
      BY <3>1, <3>2
  <2>5. \A e \in Dests : Inside(e)' = Inside(e)
    BY <2>2, <2>3, <2>4 DEF Inside, InCalls
  <2> QED
    BY <2>2, <2>5, StatusUnchanged
<1>4. ASSUME NEW d \in Dests, StartCall(d) PROVE UNCHANGED <<Status, copies>>
  <2> DEFINE c == Call(holding[d], 1)
  <2>1. holding' = [holding EXCEPT ![d] = <<>>] /\ calls' = [calls EXCEPT ![d] = calls[d] \cup {c}]
        /\ UNCHANGED <<queue, copies, counters>> /\ c.items = holding[d]
    BY <1>4 DEF StartCall, Call
  <2> HIDE DEF c
  <2>2. /\ holding'[d] = <<>> /\ calls'[d] = calls[d] \cup {c}
        /\ \A e \in Dests : e # d => holding'[e] = holding[e] /\ calls'[e] = calls[e]
    BY <1>p, <2>1 DEF Typed, TypeOK
  <2>3. InCalls(d)' = InCalls(d) \cup Range(holding[d]) /\ Range(holding'[d]) = {}
    <3>1. Range(holding'[d]) = {}
      BY <2>2 DEF Range
    <3> QED
      BY <2>1, <2>2, <3>1 DEF InCalls
  <2>4. \A e \in Dests : Inside(e)' = Inside(e)
    BY <2>1, <2>2, <2>3 DEF Inside, InCalls
  <2> QED
    BY <2>1, <2>4, StatusUnchanged
<1>5. ASSUME NEW d \in Dests, NEW q \in wire[d], Handle(d, q) PROVE [Channel!Next]_<<Status, copies>>
  <2> DEFINE a(c) == IF Request(c) = q THEN [c EXCEPT !.answered = TRUE] ELSE c
  <2>1. /\ copies' = [copies EXCEPT ![d] =
                        [i \in Items |-> IF i \in Range(q.items) THEN @[i] + 1 ELSE @[i]]]
        /\ calls' = [calls EXCEPT ![d] = {a(c) : c \in calls[d]}]
        /\ UNCHANGED <<queue, holding, counters>>
    BY <1>5 DEF Handle
  <2>2. \A c \in calls[d] : a(c).items = c.items
    BY <1>p DEF Typed, TypeOK
  <2> HIDE DEF a
  <2>3. /\ calls'[d] = {a(c) : c \in calls[d]}
        /\ \A e \in Dests : e # d => calls'[e] = calls[e]
    BY <1>p, <2>1 DEF Typed, TypeOK
  <2>4. \A e \in Dests : Inside(e)' = Inside(e)
    <3>1. InCalls(d)' = InCalls(d) /\ \A e \in Dests : e # d => InCalls(e)' = InCalls(e)
      BY <2>2, <2>3 DEF InCalls
    <3> QED
      BY <2>1, <3>1 DEF Inside
  <2>5. UNCHANGED Status
    BY <2>1, <2>4, StatusUnchanged
  <2>6. q.items \in Seq(Items) /\ Range(q.items) \subseteq Items
    BY <1>p DEF Typed, TypeOK, Range
  <2>7. ASSUME NEW i \in Range(q.items) PROVE i \in Channel!MayReach(d)
    <3>1. i \in Items /\ Sound(d, i) /\ q \in OnWire(d, i) /\ copies[d][i] \in Nat
      BY <1>p, <2>6 DEF Tried, OnWire, Typed, TypeOK
    <3>2. Cardinality(OnWire(d, i)) \in Nat /\ Cardinality(OnWire(d, i)) > 0
      <4>1. IsFiniteSet(OnWire(d, i))
        BY <3>1 DEF Sound
      <4>2. Cardinality(OnWire(d, i) \ {q}) \in Nat
            /\ Cardinality(OnWire(d, i) \ {q}) = Cardinality(OnWire(d, i)) - 1
            /\ Cardinality(OnWire(d, i)) \in Nat
        BY <3>1, <4>1, FS_RemoveElement, FS_CardinalityType
      <4> QED
        BY <4>2
    <3>3. copies[d][i] < Tries[d]
      BY <3>1, <3>2, TransferAssumption DEF Sound, Sends
    <3>4. i \in Called(d)
      BY <3>1 DEF Sound
    <3>5. i \in Inside(d) \cup sent[d] \cup failed[d] \cup lost[d]
      BY <3>4 DEF Called, Inside
    <3>6. i \notin Channel!In(d, "new") \cup Channel!In(d, "dropped")
      BY <1>p, <3>1, <3>5, StatusRead DEF Channel!In
    <3> QED
      BY <3>1, <3>3, <3>6 DEF Channel!MayReach
  <2>8. Channel!Handle(d)
    BY <2>1, <2>7 DEF Channel!Handle
  <2> QED
    BY <2>5, <2>8 DEF Channel!Next
<1>6. ASSUME NEW d \in Dests, NEW c \in calls[d], CallOk(d, c) PROVE Channel!Next
  <2>1. calls' = [calls EXCEPT ![d] = @ \ {c}] /\ c.answered
        /\ sent' = [sent EXCEPT ![d] = sent[d] \cup Range(c.items)]
        /\ UNCHANGED <<queue, holding, copies, dropped, failed, lost>>
    BY <1>6 DEF CallOk
  <2>2. /\ InCalls(d)' = InCalls(d) \ Range(c.items) /\ Range(c.items) \subseteq InCalls(d)
        /\ \A e \in Dests : e # d => InCalls(e)' = InCalls(e)
    BY <1>p, <2>1, CallLeaves
  <2>3. /\ sent'[d] = sent[d] \cup Range(c.items)
        /\ \A e \in Dests : e # d => sent'[e] = sent[e]
    BY <1>p, <2>1 DEF Typed, TypeOK
  <2>4. \A e \in Dests : e # d => Status'[e] = Status[e]
    BY <2>1, <2>2, <2>3, StatusSame DEF Inside
  <2>5. Inside(d)' = Inside(d) \ Range(c.items) /\ Range(c.items) \subseteq Inside(d)
    BY <1>a, <2>1, <2>2 DEF Apart, Split8, Inside
  <2>6. \A i \in Items : Status'[d][i] = IF i \in Range(c.items) THEN "sent" ELSE Status[d][i]
    <3> TAKE i \in Items
    <3>1. CASE i \in Range(c.items)
      BY <1>p, <2>3, <3>1, StatusReadNext
    <3>2. CASE i \notin Range(c.items)
      BY <2>1, <2>3, <2>5, <3>2 DEF Status
    <3> QED
      BY <3>1, <3>2
  <2>7. c.items \in Seq(Items) /\ Len(c.items) >= 1
    BY <1>p, TransferAssumption DEF Typed, TypeOK
  <2>8. Range(c.items) # {} /\ Range(c.items) \subseteq Items
    BY <2>7, RangeOf
  <2>9. Channel!Move(d, Range(c.items), "sent")
    BY <2>4, <2>6, <2>8, StatusMoves
  <2>10. \A i \in Range(c.items) : i \in Channel!In(d, "kept") /\ copies[d][i] > 0
    BY <1>p, <2>1, <2>5, <2>8, StatusRead DEF Channel!In, Tried, Sound
  <2>11. Channel!Confirm(d)
    BY <2>9, <2>10 DEF Channel!Confirm
  <2> QED
    BY <2>1, <2>11 DEF Channel!Next
<1>7. ASSUME NEW d \in Dests, NEW c \in calls[d], Retry(d, c) PROVE UNCHANGED <<Status, copies>>
  <2> DEFINE again == Call(c.items, c.try + 1)
  <2>1. calls' = [calls EXCEPT ![d] = (calls[d] \ {c}) \cup {again}] /\ again.items = c.items
        /\ UNCHANGED <<queue, holding, copies, counters>>
    BY <1>7 DEF Retry, Call
  <2> HIDE DEF again
  <2>2. calls'[d] = (calls[d] \ {c}) \cup {again}
        /\ \A e \in Dests : e # d => calls'[e] = calls[e]
    BY <1>p, <2>1 DEF Typed, TypeOK
  <2>3. InCalls(d)' = InCalls(d) /\ \A e \in Dests : e # d => InCalls(e)' = InCalls(e)
    BY <2>1, <2>2 DEF InCalls
  <2>4. \A e \in Dests : Inside(e)' = Inside(e)
    BY <2>1, <2>3 DEF Inside
  <2> QED
    BY <2>1, <2>4, StatusUnchanged
<1>8. ASSUME NEW d \in Dests, NEW c \in calls[d], GiveUp(d, c) PROVE Channel!Next
  <2>1. calls' = [calls EXCEPT ![d] = @ \ {c}]
        /\ failed' = [failed EXCEPT ![d] = failed[d] \cup Range(c.items)]
        /\ UNCHANGED <<queue, holding, copies, dropped, sent, lost>>
    BY <1>8 DEF GiveUp
  <2>2. /\ InCalls(d)' = InCalls(d) \ Range(c.items) /\ Range(c.items) \subseteq InCalls(d)
        /\ \A e \in Dests : e # d => InCalls(e)' = InCalls(e)
    BY <1>p, <2>1, CallLeaves
  <2>3. /\ failed'[d] = failed[d] \cup Range(c.items)
        /\ \A e \in Dests : e # d => failed'[e] = failed[e]
    BY <1>p, <2>1 DEF Typed, TypeOK
  <2>4. \A e \in Dests : e # d => Status'[e] = Status[e]
    BY <2>1, <2>2, <2>3, StatusSame DEF Inside
  <2>5. Inside(d)' = Inside(d) \ Range(c.items) /\ Range(c.items) \subseteq Inside(d)
    BY <1>a, <2>1, <2>2 DEF Apart, Split8, Inside
  <2>6. \A i \in Items : Status'[d][i] = IF i \in Range(c.items) THEN "failed" ELSE Status[d][i]
    <3> TAKE i \in Items
    <3>1. CASE i \in Range(c.items)
      BY <1>p, <2>3, <3>1, StatusReadNext
    <3>2. CASE i \notin Range(c.items)
      BY <2>1, <2>3, <2>5, <3>2 DEF Status
    <3> QED
      BY <3>1, <3>2
  <2>7. c.items \in Seq(Items) /\ Len(c.items) >= 1
    BY <1>p, TransferAssumption DEF Typed, TypeOK
  <2>8. Range(c.items) # {} /\ Range(c.items) \subseteq Items
    BY <2>7, RangeOf
  <2>9. Channel!Move(d, Range(c.items), "failed")
    BY <2>4, <2>6, <2>8, StatusMoves
  <2>10. \A i \in Range(c.items) : i \in Channel!In(d, "kept")
    BY <1>p, <2>5, <2>8, StatusRead DEF Channel!In
  <2>11. Channel!GiveUp(d)
    BY <2>9, <2>10 DEF Channel!GiveUp
  <2> QED
    BY <2>1, <2>11 DEF Channel!Next
<1>9. ASSUME Restart PROVE Channel!Next
  <2>1. /\ queue' = [e \in Dests |-> <<>>] /\ holding' = [e \in Dests |-> <<>>]
        /\ calls' = [e \in Dests |-> {}] /\ lost' = [e \in Dests |-> lost[e] \cup Inside(e)]
        /\ UNCHANGED <<copies, dropped, sent, failed>>
    BY <1>9 DEF Restart
  <2>2. \A e \in Dests : Inside(e)' = {} /\ lost'[e] = lost[e] \cup Inside(e)
    BY <2>1 DEF Inside, InCalls, Range
  <2>3. ASSUME NEW e \in Dests, NEW i \in Items
        PROVE  Status'[e][i] = IF Status[e][i] = "kept" THEN "lost" ELSE Status[e][i]
    <3>1. CASE i \in Inside(e)
      BY <1>p, <2>2, <3>1, StatusRead, StatusReadNext
    <3>2. CASE i \notin Inside(e)
      <4>1. Status[e][i] # "kept"
        BY <1>p, <3>2, StatusRead
      <4>2. Status'[e][i] = Status[e][i]
        BY <2>1, <2>2, <3>2 DEF Status
      <4> QED
        BY <4>1, <4>2
    <3> QED
      BY <3>1, <3>2
  <2>4. Channel!Crash
    BY <2>3 DEF Channel!Crash, Status
  <2> QED
    BY <2>1, <2>4 DEF Channel!Next
<1>10. CASE UNCHANGED vars
  <2>1. UNCHANGED <<inside, outside, counters>>
    BY <1>10 DEF vars
  <2>2. \A e \in Dests : Inside(e)' = Inside(e)
    BY <2>1 DEF Inside, InCalls
  <2> QED
    BY <2>1, <2>2, StatusUnchanged
<1> QED
  BY <1>1, <1>2, <1>3, <1>4, <1>5, <1>6, <1>7, <1>8, <1>9, <1>10 DEF Next, Task

\* Every destination is served as DeliveryChannel promises: an item is dropped
\* at once or kept until it is given up or known to have been handled, and
\* handled no more often than it is tried.
THEOREM TransferImplementsChannel == Spec => ImplementsChannel
<1>1. Spec => []Tried
  BY TriedInit, TriedStep, PTL DEF Spec
<1>2. Spec => Channel!Init /\ [][Channel!Next]_<<Status, copies>>
  BY <1>1, ChannelInit, ChannelStep, PTL DEF Spec
<1> QED
  BY <1>2 DEF ImplementsChannel, Channel!Spec

-----------------------------------------------------------------------------
(* What is counted as sent to the judge entered its series *)

Increasing(s) == \A m, n \in DOMAIN s : m < n => s[m] < s[n]
Below(S, T)   == \A i \in S, k \in T : i < k

\* Items that were handled or may still be.
Gone(d) == {i \in Items : copies[d][i] > 0 \/ OnWire(d, i) # {}}

\* The items go through the places of a judge in the order they came, what is
\* on its way and in no call is older than the call, and a call of which some
\* item was handled has entered the series.
InOrder(d) ==
  /\ Increasing(queue[d]) /\ Increasing(holding[d])
  /\ Below(Range(queue[d]), Waiting(d))
  /\ Below(Range(holding[d]), Range(queue[d]) \cup Waiting(d))
  /\ Below(InCalls(d) \cup Gone(d), Range(holding[d]) \cup Range(queue[d]) \cup Waiting(d))
  /\ \A c \in calls[d] :
       /\ Increasing(c.items) /\ Below(Gone(d) \ Range(c.items), Range(c.items))
       /\ \A q \in wire[d] : Range(q.items) \cap Range(c.items) # {} => q.items = c.items
       /\ (\E i \in Range(c.items) : copies[d][i] > 0) => Range(c.items) \subseteq entered[d]
  /\ sent[d] \subseteq entered[d]

Ordered == Tried /\ \A d \in JudgeNodes : InOrder(d)

\* One receiver, and one call at a time to the judge.
Serial == /\ \A r, s \in Receivers : r = s
          /\ \A d \in JudgeNodes : Concurrent[d] = 1

\* Cutting an increasing sequence at n.
LEMMA IncreasingSplit ==
  ASSUME NEW q \in Seq(Items), Increasing(q), NEW n \in 0..Len(q)
  PROVE  LET a == SubSeq(q, 1, n)  b == SubSeq(q, n + 1, Len(q)) IN
         Increasing(a) /\ Increasing(b) /\ Below(Range(a), Range(b))
<1> DEFINE a == SubSeq(q, 1, n)
           b == SubSeq(q, n + 1, Len(q))
<1>1. DOMAIN a = 1..n /\ \A k \in 1..n : a[k] = q[k]
  OBVIOUS
<1>2. DOMAIN b = 1..(Len(q) - n) /\ \A k \in 1..(Len(q) - n) : b[k] = q[n + k]
  OBVIOUS
<1> HIDE DEF a, b
<1>3. \A k, m \in 1..Len(q) : k < m => q[k] < q[m]
  BY DEF Increasing
<1>4. Increasing(a)
  BY <1>1, <1>3 DEF Increasing
<1>5. ASSUME NEW k \in 1..(Len(q) - n), NEW m \in 1..(Len(q) - n), k < m PROVE b[k] < b[m]
  <2>1. n + k \in 1..Len(q) /\ n + m \in 1..Len(q) /\ n + k < n + m
    BY <1>5
  <2> QED
    BY <1>2, <1>3, <2>1
<1>6. Increasing(b)
  BY <1>2, <1>5 DEF Increasing
<1>7. ASSUME NEW k \in 1..n, NEW m \in 1..(Len(q) - n) PROVE a[k] < b[m]
  <2>1. k \in 1..Len(q) /\ n + m \in 1..Len(q) /\ k < n + m
    OBVIOUS
  <2> QED
    BY <1>1, <1>2, <1>3, <2>1
<1>8. Below(Range(a), Range(b))
  BY <1>1, <1>2, <1>7 DEF Below, Range
<1> QED
  BY <1>4, <1>6, <1>8 DEF a, b

\* A greater item at the end.
LEMMA IncreasingAppend ==
  ASSUME NEW q \in Seq(Items), NEW i \in Items, Increasing(q), \A k \in Range(q) : k < i
  PROVE  Increasing(Append(q, i))
<1>1. DOMAIN Append(q, i) = 1..(Len(q) + 1) /\ Append(q, i)[Len(q) + 1] = i
      /\ \A k \in 1..Len(q) : Append(q, i)[k] = q[k]
  OBVIOUS
<1>2. \A k \in 1..Len(q) : q[k] < i
  BY DEF Range
<1> QED
  BY <1>1, <1>2 DEF Increasing

\* A destination of which a step takes nothing further keeps its order.
LEMMA OrderKept ==
  ASSUME Ordered, NEW d \in JudgeNodes, queue'[d] = queue[d], holding'[d] = holding[d],
         Waiting(d)' \subseteq Waiting(d), calls'[d] = calls[d] \/ calls'[d] = {},
         wire'[d] \subseteq wire[d], copies'[d] = copies[d], entered'[d] = entered[d],
         sent'[d] \subseteq entered[d]
  PROVE  InOrder(d)'
<1>1. InOrder(d)
  BY DEF Ordered
<1>2. Gone(d)' \subseteq Gone(d)
  BY DEF Gone, OnWire
<1>3. InCalls(d)' \subseteq InCalls(d)
  BY DEF InCalls
<1>4. /\ Below(Range(queue'[d]), Waiting(d)')
      /\ Below(Range(holding'[d]), Range(queue'[d]) \cup Waiting(d)')
      /\ Below(InCalls(d)' \cup Gone(d)', Range(holding'[d]) \cup Range(queue'[d]) \cup Waiting(d)')
  BY <1>1, <1>2, <1>3 DEF InOrder, Below
<1>5. ASSUME NEW c \in calls'[d]
      PROVE  /\ Increasing(c.items) /\ Below(Gone(d)' \ Range(c.items), Range(c.items))
             /\ \A q \in wire'[d] : Range(q.items) \cap Range(c.items) # {} => q.items = c.items
             /\ (\E i \in Range(c.items) : copies'[d][i] > 0) => Range(c.items) \subseteq entered'[d]
  <2>1. c \in calls[d]
    OBVIOUS
  <2> QED
    BY <1>1, <1>2, <2>1 DEF InOrder, Below
<1> QED
  BY <1>1, <1>4, <1>5 DEF InOrder

\* The start is in order.
LEMMA OrderedInit == Init => Ordered
<1> SUFFICES ASSUME Init PROVE Ordered
  OBVIOUS
<1>1. ASSUME NEW d \in JudgeNodes PROVE InOrder(d)
  <2>1. d \in Dests
    BY DEF Dests
  <2>2. queue[d] = <<>> /\ holding[d] = <<>> /\ calls[d] = {} /\ sent[d] = {}
    BY <2>1 DEF Init
  <2>3. Waiting(d) = {} /\ InCalls(d) = {} /\ Gone(d) = {}
    BY <2>1 DEF Init, Waiting, InCalls, Gone, OnWire
  <2> QED
    BY <2>2, <2>3 DEF InOrder, Increasing, Below, Range
<1> QED
  BY <1>1, TriedInit DEF Ordered

\* A semaphore of one allows one call.
LEMMA OneCall ==
  ASSUME Serial, Typed, NEW d \in JudgeNodes, NEW c \in calls[d]
  PROVE  calls[d] = {c} /\ ~Acquired(d)
<1>1. d \in Dests /\ Concurrent[d] = 1
  BY DEF Dests, Serial
<1>2. IsFiniteSet(calls[d]) /\ Cardinality(calls[d]) <= 1
  BY <1>1 DEF Typed, TypeOK
<1>3. Cardinality(calls[d] \ {c}) = Cardinality(calls[d]) - 1 /\ IsFiniteSet(calls[d] \ {c})
      /\ Cardinality(calls[d]) \in Nat /\ Cardinality(calls[d] \ {c}) \in Nat
  BY <1>2, FS_RemoveElement, FS_CardinalityType
<1>4. Cardinality(calls[d] \ {c}) = 0
  BY <1>2, <1>3
<1>5. calls[d] \ {c} = {}
  BY <1>3, <1>4, FS_EmptySet
<1> QED
  BY <1>1, <1>2, <1>3, <1>5 DEF Acquired

\* With one receiver and one call at a time every action keeps the order.
LEMMA OrderedStep == Serial /\ Ordered /\ [Next]_vars => Ordered'
<1> SUFFICES ASSUME Serial, Ordered, [Next]_vars PROVE Ordered'
  OBVIOUS
<1> USE DEF counters, inside, outside
<1>p. Tried /\ Tried' /\ Placed /\ Placed' /\ Typed /\ Typed'
  BY TriedStep DEF Ordered, Tried, Placed
<1>d. JudgeNodes \subseteq Dests
  BY DEF Dests
<1>o. \A e \in JudgeNodes : InOrder(e) /\ Apart(e) /\ Counted(e) /\ sent[e] \subseteq entered[e]
  BY <1>d, <1>p DEF Ordered, Placed, InOrder
<1>s. \A e \in JudgeNodes, i \in Items : Sound(e, i) /\ copies[e][i] \in Nat
  BY <1>d, <1>p DEF Tried, Typed, TypeOK
<1>g. \A e \in JudgeNodes : Gone(e) \subseteq Called(e) /\ Gone(e) \subseteq Items
  BY <1>s DEF Gone, Sound
<1>1. ASSUME NEW r \in Receivers, NEW n \in 1..MaxRequest, Recv(r, n) PROVE Ordered'
  <2>1. /\ todo[r] = {} /\ UNCHANGED <<inside, outside, counters>>
        /\ todo' = [todo EXCEPT ![r] = {p \in Dests \X ((arrived + 1)..(arrived + n)) : Wants(p[1], p[2])}]
    BY <1>1 DEF Recv
  <2>2. \A s \in Receivers : \A p \in todo'[s] : p[2] \in (arrived + 1)..(arrived + n)
    BY <1>p, <2>1 DEF Serial, Typed, TypeOK
  <2>3. ASSUME NEW e \in JudgeNodes PROVE InOrder(e)'
    <3>1. arrived \in Nat
      BY <1>p DEF Typed, TypeOK
    <3>2. \A i \in Waiting(e)' : i > arrived
      BY <2>2, <3>1 DEF Waiting
    <3>3. InCalls(e)' = InCalls(e) /\ Gone(e)' = Gone(e)
      BY <2>1 DEF InCalls, Gone, OnWire
    <3>4. \A i \in Known(e) : i <= arrived /\ i \in Nat
      BY <1>o, <3>1 DEF Counted
    <3>5. \A i \in Range(queue[e]) \cup Range(holding[e]) \cup InCalls(e) \cup Gone(e) : i \in Known(e)
      BY <1>g DEF Known, Inside, Called
    <3>6. \A i \in Waiting(e)' : i \in Nat
      BY DEF Waiting, Items
    <3>7. \A i \in Range(queue[e]) \cup Range(holding[e]) \cup InCalls(e) \cup Gone(e), k \in Waiting(e)' : i < k
      BY <3>1, <3>2, <3>4, <3>5, <3>6
    <3> QED
      BY <1>o, <2>1, <3>3, <3>7, ZenonT(40) DEF InOrder, Below
  <2> QED
    BY <1>p, <2>3 DEF Ordered
<1>2. ASSUME NEW r \in Receivers, PushSome(r) PROVE Ordered'
  <2>1. PICK p \in todo[r] : Push(r, p[1], p[2])
    BY <1>2 DEF PushSome
  <2> DEFINE d == p[1]
             i == p[2]
  <2>2. d \in Dests /\ i \in Items /\ p = <<d, i>>
    BY <1>p, <2>1 DEF Typed, TypeOK
  <2>3. todo' = [todo EXCEPT ![r] = todo[r] \ {<<d, i>>}] /\ UNCHANGED <<holding, calls, outside, sent>>
        /\ \A x \in todo[r] : ~Before(x, <<d, i>>)
    BY <2>1 DEF Push
  <2>4. \/ queue' = [queue EXCEPT ![d] = Append(queue[d], i)]
        \/ UNCHANGED queue
    BY <2>1 DEF Push
  <2>5. <<d, i>> \in todo[r]
    BY <2>1, <2>2
  <2> HIDE DEF d, i
  <2>6. \A s \in Receivers : s = r /\ todo'[s] = todo[r] \ {<<d, i>>}
    BY <1>p, <2>3 DEF Serial, Typed, TypeOK
  <2>7. \A e \in Dests : Waiting(e)' \subseteq Waiting(e)
    BY <2>6 DEF Waiting
  <2>8. ASSUME NEW e \in JudgeNodes PROVE InOrder(e)'
    <3>1. CASE queue'[e] = queue[e]
      BY <1>d, <1>o, <2>3, <2>7, <3>1, OrderKept
    <3>2. CASE e = d /\ queue'[d] = Append(queue[d], i)
      <4>1. i \in Waiting(d) /\ i \notin Waiting(d)'
        BY <2>2, <2>5, <2>6 DEF Waiting
      <4>2. \A k \in Waiting(d)' : i < k
        <5>1. ASSUME NEW k \in Waiting(d)' PROVE i < k
          <6>1. <<d, k>> \in todo[r] /\ k \in Items /\ k # i
            BY <2>6, <4>1 DEF Waiting
          <6>2. ~(k < i)
            BY <2>3, <6>1 DEF Before
          <6> QED
            BY <2>2, <6>1, <6>2 DEF Items
        <5> QED
          BY <5>1
      <4>3. queue[d] \in Seq(Items) /\ Increasing(queue[d]) /\ \A k \in Range(queue[d]) : k < i
        BY <1>o, <1>p, <2>2, <3>2, <4>1 DEF InOrder, Below, Typed, TypeOK
      <4>4. Increasing(queue'[d]) /\ Range(queue'[d]) = Range(queue[d]) \cup {i}
        BY <2>2, <3>2, <4>3, IncreasingAppend, RangeAppend
      <4>5. InCalls(d)' = InCalls(d) /\ Gone(d)' = Gone(d)
        BY <2>3 DEF InCalls, Gone, OnWire
      <4>6. /\ Below(Range(queue'[d]), Waiting(d)')
            /\ Below(Range(holding'[d]), Range(queue'[d]) \cup Waiting(d)')
            /\ Below(InCalls(d)' \cup Gone(d)', Range(holding'[d]) \cup Range(queue'[d]) \cup Waiting(d)')
        BY <1>o, <2>2, <2>3, <2>7, <3>2, <4>1, <4>2, <4>4, <4>5 DEF InOrder, Below
      <4> QED
        BY <1>o, <2>3, <3>2, <4>4, <4>5, <4>6 DEF InOrder
    <3>3. queue'[e] = queue[e] \/ (e = d /\ queue'[d] = Append(queue[d], i))
      BY <1>d, <1>p, <2>2, <2>4 DEF Typed, TypeOK
    <3> QED
      BY <3>1, <3>2, <3>3
  <2> QED
    BY <1>p, <2>8 DEF Ordered
<1>3. ASSUME NEW d \in Dests, PopBackBy(d) PROVE Ordered'
  <2> DEFINE n == IF Len(queue[d]) < Batch[d] THEN Len(queue[d]) ELSE Batch[d]
  <2>1. queue[d] \in Seq(Items) /\ n \in 0..Len(queue[d])
    BY <1>p, TransferAssumption DEF Typed, TypeOK
  <2>2. holding' = [holding EXCEPT ![d] = SubSeq(queue[d], 1, n)]
        /\ queue' = [queue EXCEPT ![d] = SubSeq(queue[d], n + 1, Len(queue[d]))]
        /\ UNCHANGED <<todo, calls, outside, counters>>
    BY <1>3 DEF PopBackBy
  <2> HIDE DEF n
  <2>3. holding'[d] = SubSeq(queue[d], 1, n) /\ queue'[d] = SubSeq(queue[d], n + 1, Len(queue[d]))
        /\ \A e \in Dests : e # d => holding'[e] = holding[e] /\ queue'[e] = queue[e]
    BY <1>p, <2>2 DEF Typed, TypeOK
  <2>4. Range(holding'[d]) \cup Range(queue'[d]) = Range(queue[d])
    BY <2>1, <2>3, RangeSplit
  <2>5. \A e \in Dests : Waiting(e)' = Waiting(e) /\ InCalls(e)' = InCalls(e) /\ Gone(e)' = Gone(e)
    BY <2>2 DEF Waiting, InCalls, Gone, OnWire
  <2>6. ASSUME NEW e \in JudgeNodes PROVE InOrder(e)'
    <3>1. CASE e # d
      BY <1>d, <1>o, <2>2, <2>3, <2>5, <3>1, OrderKept
    <3>2. CASE e = d
      <4>1. Increasing(holding'[d]) /\ Increasing(queue'[d]) /\ Below(Range(holding'[d]), Range(queue'[d]))
        <5>1. Increasing(queue[d])
          BY <1>o, <3>2 DEF InOrder
        <5> QED
          BY <2>1, <2>3, <5>1, IncreasingSplit
      <4>2. /\ Below(Range(queue'[d]), Waiting(d)')
            /\ Below(Range(holding'[d]), Range(queue'[d]) \cup Waiting(d)')
            /\ Below(InCalls(d)' \cup Gone(d)', Range(holding'[d]) \cup Range(queue'[d]) \cup Waiting(d)')
        BY <1>o, <2>4, <2>5, <3>2, <4>1 DEF InOrder, Below
      <4> QED
        BY <1>o, <2>2, <2>5, <3>2, <4>1, <4>2 DEF InOrder
    <3> QED
      BY <3>1, <3>2
  <2> QED
    BY <1>p, <2>6 DEF Ordered
<1>4. ASSUME NEW d \in Dests, StartCall(d) PROVE Ordered'
  <2> DEFINE c == Call(holding[d], 1)
  <2>1. /\ calls' = [calls EXCEPT ![d] = calls[d] \cup {c}] /\ Acquired(d)
        /\ wire' = [wire EXCEPT ![d] = wire[d] \cup {Request(c)}]
        /\ holding' = [holding EXCEPT ![d] = <<>>]
        /\ UNCHANGED <<todo, queue, copies, entered, counters>>
    BY <1>4 DEF StartCall
  <2>2. c.items = holding[d] /\ Request(c).items = holding[d]
    BY DEF Call, Request
  <2> HIDE DEF c
  <2>3. /\ calls'[d] = calls[d] \cup {c} /\ wire'[d] = wire[d] \cup {Request(c)} /\ holding'[d] = <<>>
        /\ \A e \in Dests : e # d => calls'[e] = calls[e] /\ wire'[e] = wire[e] /\ holding'[e] = holding[e]
    BY <1>p, <2>1 DEF Typed, TypeOK
  <2>4. \A e \in Dests : Waiting(e)' = Waiting(e)
    BY <2>1 DEF Waiting
  <2>5. ASSUME NEW e \in JudgeNodes PROVE InOrder(e)'
    <3>1. CASE e # d
      BY <1>d, <1>o, <2>1, <2>3, <2>4, <3>1, OrderKept
    <3>2. CASE e = d
      <4>1. calls[d] = {} /\ calls'[d] = {c} /\ InCalls(d) = {} /\ InCalls(d)' = Range(holding[d])
        <5>1. calls[d] = {}
          BY <1>p, <2>1, <3>2, OneCall
        <5> QED
          BY <2>2, <2>3, <5>1 DEF InCalls
      <4>2. Range(holding'[d]) = {} /\ Increasing(holding'[d])
        BY <2>3 DEF Range, Increasing
      <4>3. Gone(d)' \subseteq Gone(d) \cup Range(holding[d])
        BY <2>1, <2>2, <2>3 DEF Gone, OnWire
      <4>4. \A i \in Range(holding[d]) : i \notin Called(d) /\ i \in Items
        BY <1>o, <1>p, <3>2 DEF Apart, Split8, Called, Range, Typed, TypeOK
      <4>5. \A i \in Range(holding[d]) : copies[d][i] = 0 /\ OnWire(d, i) = {}
        BY <1>s, <3>2, <4>4 DEF Sound
      <4>6. \A q \in wire[d] : Range(q.items) \cap Range(c.items) = {}
        BY <2>2, <4>5 DEF OnWire
      <4>7. Below(Gone(d)' \ Range(c.items), Range(c.items))
        BY <1>o, <2>2, <3>2, <4>3 DEF InOrder, Below
      <4>8. Increasing(c.items) /\ (\E i \in Range(c.items) : copies'[d][i] > 0) => Range(c.items) \subseteq entered'[d]
        BY <1>o, <2>1, <2>2, <3>2, <4>5 DEF InOrder
      <4>9. \A q \in wire'[d] : Range(q.items) \cap Range(c.items) # {} => q.items = c.items
        BY <2>2, <2>3, <4>6
      <4>10. /\ Below(Range(queue'[d]), Waiting(d)')
             /\ Below(Range(holding'[d]), Range(queue'[d]) \cup Waiting(d)')
             /\ Below(InCalls(d)' \cup Gone(d)', Range(holding'[d]) \cup Range(queue'[d]) \cup Waiting(d)')
        BY <1>o, <2>1, <2>4, <3>2, <4>1, <4>2, <4>3 DEF InOrder, Below
      <4>11. Increasing(c.items)
        BY <1>o, <2>2, <3>2 DEF InOrder
      <4> QED
        BY <1>o, <2>1, <3>2, <4>1, <4>2, <4>7, <4>8, <4>9, <4>10, <4>11 DEF InOrder
    <3> QED
      BY <3>1, <3>2
  <2> QED
    BY <1>p, <2>5 DEF Ordered
<1>5. ASSUME NEW d \in Dests, NEW q \in wire[d], Handle(d, q) PROVE Ordered'
  <2> DEFINE a(c) == IF Request(c) = q THEN [c EXCEPT !.answered = TRUE] ELSE c
  <2>1. /\ wire' = [wire EXCEPT ![d] = wire[d] \ {q}]
        /\ copies' = [copies EXCEPT ![d] =
                        [i \in Items |-> IF i \in Range(q.items) THEN @[i] + 1 ELSE @[i]]]
        /\ entered' = [entered EXCEPT ![d] = entered[d] \cup Newer(d, q)]
        /\ calls' = [calls EXCEPT ![d] = {a(c) : c \in calls[d]}]
        /\ UNCHANGED <<todo, queue, holding, counters>>
    BY <1>5 DEF Handle
  <2>2. \A c \in calls[d] : a(c).items = c.items
    BY <1>p DEF Typed, TypeOK
  <2> HIDE DEF a
  <2>3. /\ calls'[d] = {a(c) : c \in calls[d]} /\ wire'[d] = wire[d] \ {q}
        /\ entered'[d] = entered[d] \cup Newer(d, q)
        /\ \A i \in Items : copies'[d][i] = IF i \in Range(q.items) THEN copies[d][i] + 1 ELSE copies[d][i]
        /\ \A e \in Dests : e # d => /\ calls'[e] = calls[e] /\ wire'[e] = wire[e]
                                     /\ copies'[e] = copies[e] /\ entered'[e] = entered[e]
    BY <1>p, <2>1 DEF Typed, TypeOK
  <2>4. \A e \in Dests : Waiting(e)' = Waiting(e)
    BY <2>1 DEF Waiting
  <2>5. ASSUME NEW e \in JudgeNodes PROVE InOrder(e)'
    <3>1. CASE e # d
      BY <1>d, <1>o, <2>1, <2>3, <2>4, <3>1, OrderKept
    <3>2. CASE e = d
      <4>1. InCalls(d)' = InCalls(d)
        BY <2>2, <2>3 DEF InCalls
      <4>2. Gone(d)' \subseteq Gone(d)
        <5>1. \A i \in Items : i \in Range(q.items) => i \in Gone(d)
          BY DEF Gone, OnWire
        <5> QED
          BY <2>3, <5>1 DEF Gone, OnWire
      <4>3. /\ Below(Range(queue'[d]), Waiting(d)')
            /\ Below(Range(holding'[d]), Range(queue'[d]) \cup Waiting(d)')
            /\ Below(InCalls(d)' \cup Gone(d)', Range(holding'[d]) \cup Range(queue'[d]) \cup Waiting(d)')
        BY <1>o, <2>1, <2>4, <3>2, <4>1, <4>2 DEF InOrder, Below
      <4>4. ASSUME NEW c \in calls[d]
            PROVE  /\ Increasing(c.items) /\ Below(Gone(d)' \ Range(c.items), Range(c.items))
                   /\ \A x \in wire'[d] : Range(x.items) \cap Range(c.items) # {} => x.items = c.items
                   /\ (\E i \in Range(c.items) : copies'[d][i] > 0) => Range(c.items) \subseteq entered'[d]
        <5>1. /\ Increasing(c.items) /\ Below(Gone(d) \ Range(c.items), Range(c.items))
              /\ \A x \in wire[d] : Range(x.items) \cap Range(c.items) # {} => x.items = c.items
              /\ (\E i \in Range(c.items) : copies[d][i] > 0) => Range(c.items) \subseteq entered[d]
          BY <1>o, <3>2 DEF InOrder
        <5>2. CASE q.items # c.items \/ \E i \in Range(c.items) : copies[d][i] > 0
          <6>1. c.items \in Seq(Items)
            BY <1>p DEF Typed, TypeOK
          <6>2. Range(c.items) \subseteq Items
            BY <6>1 DEF Range
          <6>3. (\E i \in Range(c.items) : copies'[d][i] > 0) => \E i \in Range(c.items) : copies[d][i] > 0
            BY <2>3, <5>1, <5>2, <6>2
          <6> QED
            BY <2>3, <4>2, <5>1, <6>3 DEF Below
        <5>3. CASE q.items = c.items /\ ~\E i \in Range(c.items) : copies[d][i] > 0
          <6>1. ASSUME NEW m \in DOMAIN q.items PROVE q.items[m] \in Newer(d, q)
            <7>1. q.items[m] \in Range(c.items) /\ q.items \in Seq(Items)
              BY <1>p, <5>3 DEF Range, Typed, TypeOK
            <7>2. \A i \in Items : copies[d][i] > 0 => i < q.items[m]
              BY <5>1, <5>3, <7>1 DEF Below, Gone
            <7>3. \A k \in 1..(m - 1) : q.items[k] < q.items[m]
              BY <5>1, <5>3, <7>1 DEF Increasing
            <7> QED
              BY <7>2, <7>3 DEF Newer
          <6>2. Range(c.items) \subseteq Newer(d, q)
            BY <5>3, <6>1 DEF Range
          <6> QED
            BY <2>3, <4>2, <5>1, <6>2 DEF Below
        <5> QED
          BY <5>2, <5>3
      <4>5. \A c \in calls'[d] : \E b \in calls[d] : c.items = b.items
        BY <2>2, <2>3
      <4>6. sent'[d] \subseteq entered'[d] /\ Increasing(queue'[d]) /\ Increasing(holding'[d])
        BY <1>o, <2>1, <2>3, <3>2 DEF InOrder
      <4>7. ASSUME NEW c \in calls'[d]
            PROVE  /\ Increasing(c.items) /\ Below(Gone(d)' \ Range(c.items), Range(c.items))
                   /\ \A x \in wire'[d] : Range(x.items) \cap Range(c.items) # {} => x.items = c.items
                   /\ (\E i \in Range(c.items) : copies'[d][i] > 0) => Range(c.items) \subseteq entered'[d]
        <5>1. PICK b \in calls[d] : c.items = b.items
          BY <4>5
        <5> QED
          BY <4>4, <5>1
      <4> QED
        BY <3>2, <4>3, <4>6, <4>7 DEF InOrder
    <3> QED
      BY <3>1, <3>2
  <2> QED
    BY <1>p, <2>5 DEF Ordered
<1>6. ASSUME NEW d \in Dests, NEW c \in calls[d], CallOk(d, c) PROVE Ordered'
  <2>1. calls' = [calls EXCEPT ![d] = calls[d] \ {c}] /\ c.answered
        /\ sent' = [sent EXCEPT ![d] = sent[d] \cup Range(c.items)]
        /\ UNCHANGED <<todo, queue, holding, outside>>
    BY <1>6 DEF CallOk
  <2>2. /\ calls'[d] = calls[d] \ {c} /\ sent'[d] = sent[d] \cup Range(c.items)
        /\ \A e \in Dests : e # d => calls'[e] = calls[e] /\ sent'[e] = sent[e]
    BY <1>p, <2>1 DEF Typed, TypeOK
  <2>3. \A e \in Dests : Waiting(e)' = Waiting(e)
    BY <2>1 DEF Waiting
  <2>4. ASSUME NEW e \in JudgeNodes PROVE InOrder(e)'
    <3>1. CASE e # d
      BY <1>d, <1>o, <2>1, <2>2, <2>3, <3>1, OrderKept
    <3>2. CASE e = d
      <4>1. calls'[d] = {}
        BY <1>p, <2>2, <3>2, OneCall
      <4>2. c.items \in Seq(Items) /\ Len(c.items) >= 1
        BY <1>p, TransferAssumption DEF Typed, TypeOK
      <4>3. Range(c.items) # {} /\ Range(c.items) \subseteq Items
        BY <4>2, RangeOf
      <4>4. \A i \in Range(c.items) : copies[d][i] > 0
        BY <1>s, <2>1, <3>2, <4>3 DEF Sound
      <4>5. Range(c.items) \subseteq entered[d]
        BY <1>o, <3>2, <4>3, <4>4 DEF InOrder
      <4>6. sent'[d] \subseteq entered[d]
        BY <1>o, <2>2, <3>2, <4>5
      <4> QED
        BY <2>1, <2>3, <3>2, <4>1, <4>6, OrderKept
    <3> QED
      BY <3>1, <3>2
  <2> QED
    BY <1>p, <2>4 DEF Ordered
<1>7. ASSUME NEW d \in Dests, NEW c \in calls[d], Retry(d, c) PROVE Ordered'
  <2> DEFINE again == Call(c.items, c.try + 1)
  <2>1. PICK left \in Left(d, c) : wire' = [wire EXCEPT ![d] = left \cup {Request(again)}]
    BY <1>7 DEF Retry
  <2>2. calls' = [calls EXCEPT ![d] = (calls[d] \ {c}) \cup {again}]
        /\ UNCHANGED <<todo, queue, holding, copies, entered, counters>>
    BY <1>7 DEF Retry
  <2>3. again.items = c.items /\ Request(again).items = c.items
    BY DEF Call, Request
  <2> HIDE DEF again
  <2>4. /\ calls'[d] = (calls[d] \ {c}) \cup {again} /\ wire'[d] \subseteq wire[d] \cup {Request(again)}
        /\ \A e \in Dests : e # d => calls'[e] = calls[e] /\ wire'[e] = wire[e]
    BY <1>p, <2>1, <2>2 DEF Left, Typed, TypeOK
  <2>5. \A e \in Dests : Waiting(e)' = Waiting(e)
    BY <2>2 DEF Waiting
  <2>6. ASSUME NEW e \in JudgeNodes PROVE InOrder(e)'
    <3>1. CASE e # d
      BY <1>d, <1>o, <2>2, <2>4, <2>5, <3>1, OrderKept
    <3>2. CASE e = d
      <4>1. calls[d] = {c} /\ calls'[d] = {again}
        BY <1>p, <2>4, <3>2, OneCall
      <4>2. InCalls(d)' = InCalls(d) /\ InCalls(d) = Range(c.items)
        BY <2>3, <4>1 DEF InCalls
      <4>3. Gone(d)' \subseteq Gone(d) \cup Range(c.items)
        BY <2>2, <2>3, <2>4 DEF Gone, OnWire
      <4>4. /\ Below(Range(queue'[d]), Waiting(d)')
            /\ Below(Range(holding'[d]), Range(queue'[d]) \cup Waiting(d)')
            /\ Below(InCalls(d)' \cup Gone(d)', Range(holding'[d]) \cup Range(queue'[d]) \cup Waiting(d)')
        BY <1>o, <2>2, <2>5, <3>2, <4>2, <4>3 DEF InOrder, Below
      <4>5. /\ Increasing(c.items) /\ Below(Gone(d)' \ Range(c.items), Range(c.items))
            /\ \A q \in wire[d] : Range(q.items) \cap Range(c.items) # {} => q.items = c.items
            /\ (\E i \in Range(c.items) : copies'[d][i] > 0) => Range(c.items) \subseteq entered'[d]
        BY <1>o, <2>2, <3>2, <4>3 DEF InOrder, Below
      <4>6. \A q \in wire'[d] : Range(q.items) \cap Range(c.items) # {} => q.items = c.items
        BY <2>3, <2>4, <4>5
      <4>7. sent'[d] \subseteq entered'[d] /\ Increasing(queue'[d]) /\ Increasing(holding'[d])
        BY <1>o, <2>2, <3>2 DEF InOrder
      <4> QED
        BY <2>3, <3>2, <4>1, <4>4, <4>5, <4>6, <4>7 DEF InOrder
    <3> QED
      BY <3>1, <3>2
  <2> QED
    BY <1>p, <2>6 DEF Ordered
<1>8. ASSUME NEW d \in Dests, NEW c \in calls[d], GiveUp(d, c) PROVE Ordered'
  <2>1. calls' = [calls EXCEPT ![d] = calls[d] \ {c}]
        /\ UNCHANGED <<todo, queue, holding, copies, entered, sent>>
    BY <1>8 DEF GiveUp
  <2>2. /\ calls'[d] = calls[d] \ {c} /\ \A e \in Dests : e # d => calls'[e] = calls[e]
        /\ \A e \in Dests : wire'[e] \subseteq wire[e]
    BY <1>8, <1>p DEF GiveUp, Left, Typed, TypeOK
  <2>3. \A e \in Dests : Waiting(e)' = Waiting(e)
    BY <2>1 DEF Waiting
  <2>4. \A e \in JudgeNodes : calls'[e] = calls[e] \/ calls'[e] = {}
    BY <1>d, <1>p, <2>2, OneCall
  <2>5. \A e \in JudgeNodes : InOrder(e)'
    BY <1>d, <1>o, <2>1, <2>2, <2>3, <2>4, OrderKept
  <2> QED
    BY <1>p, <2>5 DEF Ordered
<1>9. ASSUME Restart PROVE Ordered'
  <2>1. /\ todo' = [r \in Receivers |-> {}] /\ queue' = [e \in Dests |-> <<>>]
        /\ holding' = [e \in Dests |-> <<>>] /\ calls' = [e \in Dests |-> {}]
        /\ UNCHANGED <<outside, sent>>
    BY <1>9 DEF Restart
  <2>2. ASSUME NEW e \in JudgeNodes PROVE InOrder(e)'
    <3>1. Waiting(e)' = {} /\ calls'[e] = {} /\ queue'[e] = <<>> /\ holding'[e] = <<>>
      BY <1>d, <2>1 DEF Waiting
    <3>2. Range(queue'[e]) = {} /\ Range(holding'[e]) = {} /\ Increasing(queue'[e]) /\ Increasing(holding'[e])
      BY <3>1 DEF Range, Increasing
    <3> QED
      BY <1>o, <2>1, <3>1, <3>2 DEF InOrder, Below
  <2> QED
    BY <1>p, <2>2 DEF Ordered
<1>10. CASE UNCHANGED vars
  <2>1. UNCHANGED <<todo, inside, outside, counters>>
    BY <1>10 DEF vars
  <2>2. \A e \in Dests : Waiting(e)' = Waiting(e)
    BY <2>1 DEF Waiting
  <2>3. \A e \in JudgeNodes : InOrder(e)'
    BY <1>d, <1>o, <2>1, <2>2, OrderKept
  <2> QED
    BY <1>p, <2>3 DEF Ordered
<1> QED
  BY <1>1, <1>2, <1>3, <1>4, <1>5, <1>6, <1>7, <1>8, <1>9, <1>10 DEF Next, Task

\* With one receiver and one call at a time to the judge, every point counted
\* as sent entered its series, whatever was tried again, answered late or
\* handled after transfer had given it up, for any batches, tries and restarts.
THEOREM TransferFeedsSeries ==
  ASSUME Serial
  PROVE  Spec => []SentEntersSeries
<1>1. Ordered => SentEntersSeries
  BY DEF Ordered, InOrder, SentEntersSeries
<1>2. Ordered /\ [Next]_vars => Ordered'
  BY OrderedStep
<1> QED
  BY <1>1, <1>2, OrderedInit, PTL DEF Spec

-----------------------------------------------------------------------------
(* Aligning keeps the points of a series apart. *)

\* A point is moved back by less than a step, never forward.
LEMMA AlignBack ==
  ASSUME NEW ts \in Nat, NEW p \in Nat \ {0}
  PROVE  alignTs(ts, p) \in Nat /\ alignTs(ts, p) <= ts /\ ts - alignTs(ts, p) < p
BY DEF alignTs, Rem

\* Points a step apart stay in order and never fall on one timestamp, which
\* the judge would refuse and rrdtool would not store.
THEOREM AlignKeepsApart ==
  ASSUME NEW p \in Nat \ {0}, NEW a \in Nat, NEW b \in Nat, a + p <= b
  PROVE  alignTs(a, p) < alignTs(b, p)
<1>1. alignTs(a, p) \in Nat /\ alignTs(a, p) <= a
  BY AlignBack
<1>2. alignTs(b, p) \in Nat /\ b - alignTs(b, p) < p
  BY AlignBack
<1> QED
  BY <1>1, <1>2
=============================================================================
