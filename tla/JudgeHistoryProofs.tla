--------------------------- MODULE JudgeHistoryProofs ---------------------------
(* Theorems about what MCFunctions checks: JudgeHistory for any senders, window, *)
(* length of lists and bounds, and the functions of judge, transfer and graph on *)
(* every input that MCFunctions can build from any numbers, timestamps and steps. *)
EXTENDS MCFunctions, FiniteSetTheorems, WellFoundedInduction, TLAPS

(* A list q and the set a of the points it ever held: newest first, and of what   *)
(* it ever held it has the newest.                                               *)
Descends(q)    == \A i, j \in 1..Len(q) : i < j => q[j] < q[i]
Newest(q, a)   == \A t \in a : t <= q[1]
Gapless(q, a)  == \A i \in 1..(Len(q) - 1) : \A t \in a : ~(q[i + 1] < t /\ t < q[i])
Kept(q, a) ==
  /\ q \in Seq(Ts) /\ Len(q) \in 1..Remain
  /\ a \subseteq Ts /\ \A i \in 1..Len(q) : q[i] \in a
  /\ Descends(q) /\ Newest(q, a) /\ Gapless(q, a)

\* A walk that began at a list's front p pushes ago is at the element now that far down,
\* or, when the list has dropped that, at one the list no longer has.
Reached(q, w, p) ==
  LET at == Len(w) + p
  IN  \/ at <= Len(q) /\ q[at] = w[Len(w)]
      \/ at > Len(q) /\ Len(q) = Remain /\ \A i \in 1..Len(q) : q[i] # w[Len(w)]

\* The walk itself: the points w that followed each other, and room for as many as n.
Walked(q, a, w, n, p) ==
  /\ w \in Seq(Ts) /\ Len(w) >= 1
  /\ \A i \in 1..Len(w) : w[i] \in a
  /\ \A i \in 1..(Len(w) - 1) : w[i + 1] < w[i]
  /\ Gapless(w, a)
  /\ Len(q) >= n + p \/ Len(q) = Remain
  /\ Reached(q, w, p)

\* What a list is after a push.
IsPushed(r, q, t) ==
  /\ r \in Seq(Ts)
  /\ Len(r) = IF Len(q) < Remain THEN Len(q) + 1 ELSE Remain
  /\ r[1] = t /\ \A i \in 2..Len(r) : r[i] = q[i - 1]

\* Pushed puts the point in front of the list and drops the last one of a full list.
LEMMA PushedIs ==
  ASSUME NEW l \in 1..Len(lists), NEW t \in Ts, lists[l] \in Seq(Ts), Len(lists[l]) \in 1..Remain
  PROVE  IsPushed(Pushed(l, t), lists[l], t)
<1>1. PICK q : q = lists[l] /\ q \in Seq(Ts) /\ Len(q) \in 1..Remain
  OBVIOUS
<1>2. PICK all : all = <<t>> \o q
  OBVIOUS
<1>3. /\ all \in Seq(Ts) /\ Len(all) = Len(q) + 1
      /\ all[1] = t /\ \A i \in 2..Len(all) : all[i] = q[i - 1]
  BY <1>1, <1>2
<1>4. Pushed(l, t) = IF Len(all) <= Remain THEN all ELSE SubSeq(all, 1, Remain)
  BY <1>1, <1>2 DEF Pushed
<1>5. CASE Len(all) <= Remain
  BY <1>1, <1>3, <1>4, <1>5, HistoryAssumption DEF IsPushed
<1>6. CASE Len(all) > Remain
  <2>1. Remain \in 1..Len(all) /\ Len(q) = Remain
    BY <1>1, <1>3, <1>6, HistoryAssumption
  <2>2. /\ SubSeq(all, 1, Remain) \in Seq(Ts) /\ Len(SubSeq(all, 1, Remain)) = Remain
        /\ \A i \in 1..Remain : SubSeq(all, 1, Remain)[i] = all[i]
    BY <1>3, <2>1
  <2>3. Pushed(l, t) = SubSeq(all, 1, Remain)
    BY <1>3, <1>4, <1>6, HistoryAssumption
  <2> QED
    BY <1>1, <1>3, <2>1, <2>2, <2>3 DEF IsPushed
<1> QED
  BY <1>3, <1>5, <1>6, <1>1, HistoryAssumption

\* A list stays kept when a newer point is pushed.
LEMMA KeptPush ==
  ASSUME NEW q, NEW a, Kept(q, a), NEW t \in Ts, t > q[1], NEW r, IsPushed(r, q, t)
  PROVE  Kept(r, a \cup {t})
<1>1. /\ Len(r) \in 1..Remain /\ Len(r) <= Len(q) + 1 /\ Len(q) \in Nat /\ Len(q) >= 1
      /\ r[1] = t /\ \A i \in 2..Len(r) : r[i] = q[i - 1] /\ i - 1 \in 1..Len(q)
  BY HistoryAssumption DEF Kept, IsPushed
<1>2. q[1] \in Int /\ t \in Int /\ \A i \in 1..Len(q) : q[i] \in Int /\ q[i] \in a /\ q[i] <= q[1] /\ q[i] < t
  <2>1. \A i \in 1..Len(q) : q[i] \in Ts /\ q[i] \in a /\ q[i] <= q[1]
    BY DEF Kept, Newest
  <2> QED
    BY <2>1, <1>1, HistoryAssumption DEF Ts
<1>3. \A x \in a : x \in Int /\ x <= q[1] /\ x < t
  BY <1>2, HistoryAssumption DEF Kept, Newest, Ts
<1>4. Descends(r)
  <2>1. ASSUME NEW i \in 1..Len(r), NEW j \in 1..Len(r), i < j PROVE r[j] < r[i]
    <3>1. j \in 2..Len(r) /\ r[j] = q[j - 1] /\ j - 1 \in 1..Len(q)
      BY <1>1, <2>1
    <3>2. CASE i = 1
      BY <1>1, <1>2, <3>1, <3>2
    <3>3. CASE i # 1
      <4>1. i \in 2..Len(r) /\ r[i] = q[i - 1] /\ i - 1 \in 1..Len(q) /\ i - 1 < j - 1
        BY <1>1, <2>1, <3>3
      <4> QED
        BY <3>1, <4>1 DEF Kept, Descends
    <3> QED
      BY <3>2, <3>3
  <2> QED
    BY <2>1 DEF Descends
<1>5. Newest(r, a \cup {t})
  BY <1>1, <1>2, <1>3 DEF Newest
<1>6. Gapless(r, a \cup {t})
  <2>1. ASSUME NEW i \in 1..(Len(r) - 1), NEW x \in a \cup {t}, r[i + 1] < x, x < r[i] PROVE FALSE
    <3>1. i + 1 \in 2..Len(r) /\ r[i + 1] = q[i] /\ i \in 1..Len(q)
      BY <1>1
    <3>2. CASE i = 1
      <4>1. x \in a
        BY <1>1, <1>2, <2>1, <3>2
      <4> QED
        BY <1>1, <1>2, <1>3, <2>1, <3>1, <3>2, <4>1
    <3>3. CASE i # 1
      <4>1. i \in 2..Len(r) /\ r[i] = q[i - 1] /\ i - 1 \in 1..(Len(q) - 1) /\ (i - 1) + 1 = i
        BY <1>1, <3>3
      <4>2. PICK y : y = r[i] /\ y < t /\ y \in Int /\ t \in Int
        BY <1>1, <1>2, <4>1
      <4>3. x # t
        <5>1. x < y
          BY <2>1, <4>2
        <5> QED
          BY ONLY <4>2, <5>1
      <4>4. ~(q[i] < x /\ x < q[i - 1])
        BY <4>1, <4>3, <2>1 DEF Kept, Gapless
      <4> QED
        BY <2>1, <3>1, <4>1, <4>4
    <3> QED
      BY <3>2, <3>3
  <2> QED
    BY <2>1 DEF Gapless
<1>7. r \in Seq(Ts) /\ a \cup {t} \subseteq Ts /\ \A i \in 1..Len(r) : r[i] \in a \cup {t}
  <2>1. \A i \in 1..Len(r) : i = 1 \/ i \in 2..Len(r)
    BY <1>1
  <2> QED
    BY <2>1, <1>1, <1>2 DEF Kept, IsPushed
<1> QED
  BY <1>1, <1>4, <1>5, <1>6, <1>7 DEF Kept

\* A walk under way stays one when its list is pushed on.
LEMMA WalkedPush ==
  ASSUME NEW q, NEW a, Kept(q, a), NEW t \in Ts, t > q[1], NEW r, IsPushed(r, q, t),
         NEW w, NEW n \in Nat, NEW p \in Nat, Walked(q, a, w, n, p)
  PROVE  Walked(r, a \cup {t}, w, n, p + 1)
<1>1. /\ Len(r) = (IF Len(q) < Remain THEN Len(q) + 1 ELSE Remain) /\ Len(q) \in Nat /\ Len(q) >= 1
      /\ Len(q) <= Remain /\ Remain \in Nat
      /\ r[1] = t /\ \A i \in 2..Len(r) : r[i] = q[i - 1] /\ i - 1 \in 1..Len(q)
  BY HistoryAssumption DEF Kept, IsPushed
<1>2. Len(w) \in Nat /\ Len(w) >= 1 /\ w \in Seq(Ts)
  BY DEF Walked
<1>3. t \in Int /\ q[1] \in Int /\ \A x \in a : x \in Int /\ x < t
  <2>1. q[1] \in Ts
    BY <1>1 DEF Kept
  <2> QED
    BY <2>1, HistoryAssumption DEF Kept, Newest, Ts
<1>4. \A i \in 1..Len(w) : w[i] \in a /\ w[i] \in Int /\ w[i] < t
  BY <1>3 DEF Walked
<1>5. Gapless(w, a \cup {t})
  <2>1. ASSUME NEW i \in 1..(Len(w) - 1), NEW x \in a \cup {t}, w[i + 1] < x, x < w[i] PROVE FALSE
    <3>1. i \in 1..Len(w) /\ w[i] < t /\ w[i] \in Int
      BY <1>2, <1>4
    <3>2. x \in a
      BY <2>1, <3>1, <1>3
    <3> QED
      BY <2>1, <3>2 DEF Walked, Gapless
  <2> QED
    BY <2>1 DEF Gapless
<1>6. Len(r) >= n + (p + 1) \/ Len(r) = Remain
  BY <1>1 DEF Walked
<1>7. Reached(r, w, p + 1)
  <2>1. PICK at : at = Len(w) + p /\ at \in Nat /\ at >= 1 /\ Len(w) + (p + 1) = at + 1
    BY <1>2
  <2>2. PICK e : e = w[Len(w)] /\ e \in a /\ e < t /\ e \in Int
    BY <1>2, <1>4
  <2>3. CASE at <= Len(q) /\ q[at] = e
    <3>1. CASE at + 1 <= Len(r)
      <4>1. at + 1 \in 2..Len(r) /\ r[at + 1] = q[at]
        BY <1>1, <2>1, <3>1
      <4> QED
        BY <4>1, <2>1, <2>2, <2>3, <3>1 DEF Reached
    <3>2. CASE ~(at + 1 <= Len(r))
      <4>1. Len(r) = Remain /\ at = Len(q) /\ at + 1 > Len(r) /\ Len(q) = Remain
        BY <1>1, <2>1, <2>3, <3>2
      <4>2. ASSUME NEW i \in 1..Len(r) PROVE r[i] # e
        <5>1. CASE i = 1
          BY <5>1, <1>1, <1>3, <2>2
        <5>2. CASE i # 1
          <6>1. r[i] = q[i - 1] /\ i - 1 \in 1..Len(q) /\ i - 1 < at /\ at \in 1..Len(q)
            BY <5>2, <1>1, <2>1, <4>1
          <6>2. q[at] < q[i - 1]
            BY <6>1 DEF Kept, Descends
          <6> QED
            BY <6>1, <6>2, <2>2, <2>3
        <5> QED
          BY <5>1, <5>2
      <4> QED
        BY <4>1, <4>2, <2>1, <2>2 DEF Reached
    <3> QED
      BY <3>1, <3>2
  <2>4. CASE at > Len(q) /\ Len(q) = Remain /\ \A i \in 1..Len(q) : q[i] # e
    <3>1. Len(r) = Remain /\ at + 1 > Len(r)
      BY <1>1, <2>1, <2>4
    <3>2. ASSUME NEW i \in 1..Len(r) PROVE r[i] # e
      <4>1. CASE i = 1
        BY <4>1, <1>1, <1>3, <2>2
      <4>2. CASE i # 1
        BY <4>2, <1>1, <2>4
      <4> QED
        BY <4>1, <4>2
    <3> QED
      BY <3>1, <3>2, <2>1, <2>2 DEF Reached
  <2> QED
    BY <2>1, <2>2, <2>3, <2>4 DEF Walked, Reached
<1> QED
  BY <1>2, <1>4, <1>5, <1>6, <1>7 DEF Walked

-----------------------------------------------------------------------------
(* The lists, and what each sender holds of the one it works on.                 *)

Held(s) ==
  LET q == lists[list[s]]  a == accepted[list[s]]
  IN  /\ pc[s] # "idle" => item[s] \in Ts
      /\ pc[s] \in {"push", "len", "front", "walk"} => list[s] \in 1..Len(lists)
      /\ pc[s] \in {"len", "front", "walk"} => item[s] <= q[1]
      /\ pc[s] \in {"front", "walk"} => size[s] <= Len(q)
      /\ pc[s] # "walk" => window[s] = <<>> /\ pushes[s] = 0
      /\ pc[s] = "walk" => Walked(q, a, window[s], size[s], pushes[s]) /\ item[s] <= window[s][1]

ListsKept == \A l \in 1..Len(lists) : Kept(lists[l], accepted[l])
Histories == TypeOK /\ ListsKept /\ \A s \in Senders : Held(s)

\* There are no lists at the start.
LEMMA HistoriesInit == Init => Histories
<1> SUFFICES ASSUME Init PROVE Histories
  OBVIOUS
<1>1. lists = <<>> /\ accepted = <<>> /\ entry = 0 /\ stale = FALSE /\ down = FALSE
  BY DEF Init
<1>2. Len(lists) = 0 /\ Len(accepted) = 0 /\ lists \in Seq(Seq(Ts)) /\ accepted \in Seq(SUBSET Ts)
  BY <1>1
<1>3. \A s \in Senders : pc[s] = "idle" /\ window[s] = <<>> /\ pushes[s] = 0
  BY DEF Init
<1>4. TypeOK
  <2>1. << >> \in Seq(Ts)
    OBVIOUS
  <2>2. window \in [Senders -> Seq(Ts)]
    BY <2>1 DEF Init
  <2>3. /\ item \in [Senders -> 0..MaxTs] /\ list \in [Senders -> 0..Len(lists)]
        /\ size \in [Senders -> 0..Remain] /\ pushes \in [Senders -> Nat]
    BY <1>2, HistoryAssumption DEF Init
  <2>4. pc \in [Senders -> {"idle", "create", "push", "len", "front", "walk"}]
    BY DEF Init
  <2>5. entry \in 0..Len(lists)
    BY <1>1, <1>2
  <2> QED
    BY <1>1, <1>2, <2>2, <2>3, <2>4, <2>5 DEF TypeOK
<1> QED
  BY <1>2, <1>3, <1>4 DEF Histories, ListsKept, Held

\* The next element of one that is not the last is the one after it; of any other it is nil.
LEMMA NextElementIs ==
  ASSUME NEW l \in 1..Len(lists), Kept(lists[l], accepted[l]), NEW e
  PROVE  /\ \A i \in 1..(Len(lists[l]) - 1) : lists[l][i] = e => NextElement(l, e) = lists[l][i + 1]
         /\ (\A i \in 1..(Len(lists[l]) - 1) : lists[l][i] # e) => NextElement(l, e) = Nil
<1>1. PICK q : q = lists[l] /\ Descends(q) /\ Len(q) \in Nat
              /\ \A i \in 1..Len(q) : q[i] \in Int
  BY HistoryAssumption DEF Kept, Ts
<1>2. PICK at : at = {i \in 1..(Len(q) - 1) : q[i] = e}
  OBVIOUS
<1>3. NextElement(l, e) = IF at = {} THEN Nil ELSE q[Min(at) + 1]
  BY <1>1, <1>2 DEF NextElement
<1>4. ASSUME NEW i \in 1..(Len(q) - 1), q[i] = e PROVE NextElement(l, e) = q[i + 1]
  <2>1. ASSUME NEW j \in 1..(Len(q) - 1), q[j] = e PROVE j = i
    <3>1. i \in 1..Len(q) /\ j \in 1..Len(q) /\ q[i] \in Int /\ q[i] = q[j]
      BY <1>1, <1>4, <2>1
    <3>2. ~(i < j) /\ ~(j < i)
      BY <1>1, <3>1 DEF Descends
    <3> QED
      BY <3>1, <3>2
  <2>2. at = {i}
    BY <1>2, <1>4, <2>1
  <2>3. Min(at) \in at
    <3>1. \E x \in at : \A y \in at : x =< y
      BY <2>2, <1>1
    <3> QED
      BY <3>1 DEF Min
  <2> QED
    BY <1>3, <2>2, <2>3
<1>5. (\A i \in 1..(Len(q) - 1) : q[i] # e) => NextElement(l, e) = Nil
  BY <1>2, <1>3
<1> QED
  BY <1>1, <1>4, <1>5

\* A sender whose state and list did not change holds what it held.
LEMMA HeldRests ==
  ASSUME NEW s \in Senders, Held(s),
         UNCHANGED <<pc[s], item[s], list[s], size[s], window[s], pushes[s]>>,
         pc[s] \in {"push", "len", "front", "walk"} =>
             list[s] \in 1..Len(lists') /\ lists'[list[s]] = lists[list[s]] /\ accepted'[list[s]] = accepted[list[s]]
  PROVE  Held(s)'
  BY DEF Held

\* The first push of a key creates a list with the point.
LEMMA CreateStep ==
  ASSUME Histories, NEW s \in Senders, Create(s)
  PROVE  Histories'
<1>1. PICK n, t : n = Len(lists) /\ t = item[s] /\ n \in Nat /\ t \in Ts /\ Len(accepted) = n
  <2>1. item[s] \in Ts
    BY DEF Histories, Held, Create, Goto
  <2>2. Len(lists) \in Nat /\ Len(accepted) = Len(lists)
    BY DEF Histories, TypeOK
  <2> QED
    BY <2>1, <2>2
<1>2. /\ pc[s] = "create" /\ pc' = [pc EXCEPT ![s] = "len"] /\ entry' = n + 1
      /\ lists' = Append(lists, <<t>>) /\ accepted' = Append(accepted, {t})
      /\ list' = [list EXCEPT ![s] = n + 1]
      /\ UNCHANGED <<stale, down, item, size, window, pushes>>
  BY <1>1 DEF Create, Goto
<1>3. /\ Len(lists') = n + 1 /\ Len(accepted') = n + 1
      /\ lists'[n + 1] = <<t>> /\ accepted'[n + 1] = {t}
      /\ \A l \in 1..n : lists'[l] = lists[l] /\ accepted'[l] = accepted[l]
      /\ lists' \in Seq(Seq(Ts)) /\ accepted' \in Seq(SUBSET Ts)
  BY <1>1, <1>2, SMTT(30) DEF Histories, TypeOK
<1>4. Kept(<<t>>, {t})
  BY <1>1, HistoryAssumption DEF Kept, Descends, Newest, Gapless, Ts
<1>5. TypeOK'
  <2>1. list' \in [Senders -> 0..n + 1]
    BY <1>1, <1>2, SMTT(30) DEF Histories, TypeOK
  <2> QED
    BY <1>1, <1>2, <1>3, <2>1 DEF Histories, TypeOK
<1>6. ListsKept'
  <2>1. \A l \in 1..n + 1 : l \in 1..n \/ l = n + 1
    BY <1>1
  <2> QED
    BY <1>1, <1>3, <1>4, <2>1 DEF Histories, ListsKept
<1>7. ASSUME NEW u \in Senders PROVE Held(u)'
  <2>1. CASE u = s
    <3>1. pc'[s] = "len" /\ list'[s] = n + 1 /\ item'[s] = t /\ window'[s] = <<>> /\ pushes'[s] = 0
      BY <1>1, <1>2 DEF Histories, TypeOK, Held
    <3>2. lists'[n + 1][1] = t /\ t <= t /\ n + 1 \in 1..Len(lists')
      BY <1>1, <1>3, HistoryAssumption DEF Ts
    <3> QED
      BY <2>1, <3>1, <3>2, <1>1 DEF Held
  <2>2. CASE u # s
    <3>1. UNCHANGED <<pc[u], item[u], list[u], size[u], window[u], pushes[u]>>
      BY <1>2, <2>2 DEF Histories, TypeOK
    <3>2. Held(u)
      BY DEF Histories
    <3>3. pc[u] \in {"push", "len", "front", "walk"} =>
             list[u] \in 1..Len(lists') /\ lists'[list[u]] = lists[list[u]] /\ accepted'[list[u]] = accepted[list[u]]
      <4>1. pc[u] \in {"push", "len", "front", "walk"} => list[u] \in 1..n
        BY <3>2, <1>1 DEF Held
      <4> QED
        BY <4>1, <1>1, <1>3
    <3> QED
      BY <3>1, <3>2, <3>3, HeldRests
  <2> QED
    BY <2>1, <2>2
<1> QED
  BY <1>5, <1>6, <1>7 DEF Histories

\* A push on a list, under the walks of the others.
LEMMA PushStep ==
  ASSUME Histories, NEW s \in Senders, Push(s)
  PROVE  Histories'
<1>1. PICK l, t, q, a, r : /\ l = list[s] /\ t = item[s] /\ q = lists[l] /\ a = accepted[l] /\ r = Pushed(l, t)
                           /\ l \in 1..Len(lists) /\ t \in Ts /\ Kept(q, a)
  BY DEF Histories, ListsKept, Held, Push, Goto
<1>2. /\ pc[s] = "push" /\ pc' = [pc EXCEPT ![s] = "len"] /\ t > q[1]
      /\ lists' = [lists EXCEPT ![l] = r]
      /\ accepted' = [accepted EXCEPT ![l] = a \cup {t}]
      /\ pushes' = [u \in Senders |-> IF pc[u] = "walk" /\ list[u] = l THEN pushes[u] + 1 ELSE pushes[u]]
      /\ UNCHANGED <<entry, stale, down, item, list, size, window>>
  BY <1>1 DEF Push, Goto, IsNewer
<1>3. IsPushed(r, q, t)
  BY <1>1, PushedIs DEF Kept
<1>4. Kept(r, a \cup {t})
  BY <1>1, <1>2, <1>3, KeptPush
<1>5. /\ Len(lists') = Len(lists) /\ Len(accepted') = Len(lists) /\ Len(lists) \in Nat
      /\ lists'[l] = r /\ accepted'[l] = a \cup {t}
      /\ \A k \in 1..Len(lists) : k # l => lists'[k] = lists[k] /\ accepted'[k] = accepted[k]
  BY <1>1, <1>2 DEF Histories, TypeOK
<1>6. TypeOK'
  <2>1. r \in Seq(Ts) /\ a \cup {t} \subseteq Ts
    BY <1>4 DEF Kept
  <2>2. lists' \in Seq(Seq(Ts)) /\ accepted' \in Seq(SUBSET Ts)
    BY <1>1, <1>2, <2>1 DEF Histories, TypeOK
  <2>3. pushes' \in [Senders -> Nat]
    BY <1>2, SMTT(30) DEF Histories, TypeOK
  <2> QED
    BY <1>2, <1>5, <2>2, <2>3 DEF Histories, TypeOK
<1>7. ListsKept'
  BY <1>1, <1>4, <1>5 DEF Histories, ListsKept
<1>8. r[1] = t /\ q[1] < t /\ Len(q) <= Len(r) /\ q[1] \in Int /\ t \in Int
  <2>1. Len(q) \in 1..Remain /\ q \in Seq(Ts)
    BY <1>1 DEF Kept
  <2>2. q[1] \in Ts
    BY <2>1, HistoryAssumption
  <2> QED
    BY <1>1, <1>2, <1>3, <2>1, <2>2, HistoryAssumption, SMTT(30) DEF IsPushed, Ts
<1>9. ASSUME NEW u \in Senders PROVE Held(u)'
  <2>0. Held(u) /\ size[u] \in Nat /\ pushes[u] \in Nat
    BY HistoryAssumption DEF Histories, TypeOK
  <2>1. CASE u = s
    <3>1. /\ pc'[s] = "len" /\ list'[s] = l /\ item'[s] = t /\ window'[s] = <<>> /\ pushes'[s] = 0
      BY <1>1, <1>2, <2>0, <2>1 DEF Histories, TypeOK, Held
    <3>2. lists'[l][1] = t /\ t <= t /\ l \in 1..Len(lists')
      BY <1>1, <1>5, <1>8
    <3> QED
      BY <2>1, <3>1, <3>2, <1>1 DEF Held
  <2>2. CASE u # s /\ (pc[u] = "idle" \/ pc[u] = "create" \/ list[u] # l)
    <3>1. UNCHANGED <<pc[u], item[u], list[u], size[u], window[u], pushes[u]>>
      BY <1>2, <2>0, <2>2 DEF Histories, TypeOK, Held
    <3>2. pc[u] \in {"push", "len", "front", "walk"} => list[u] \in 1..Len(lists) /\ list[u] # l
      BY <2>0, <2>2 DEF Held
    <3> QED
      BY <3>1, <3>2, <2>0, <1>5, HeldRests
  <2>3. CASE u # s /\ pc[u] \in {"push", "len", "front", "walk"} /\ list[u] = l
    <3>1. UNCHANGED <<pc[u], item[u], list[u], size[u], window[u]>>
      BY <1>2, <2>3 DEF Histories, TypeOK
    <3>2. pushes'[u] = IF pc[u] = "walk" THEN pushes[u] + 1 ELSE pushes[u]
      BY <1>2, <2>3
    <3>3. item[u] \in Int /\ item[u] \in Ts
      BY <2>0, <2>3, HistoryAssumption DEF Held, Ts
    <3>4. pc[u] \in {"len", "front", "walk"} => item[u] <= r[1]
      <4>1. pc[u] \in {"len", "front", "walk"} => item[u] <= q[1]
        BY <2>0, <2>3, <1>1 DEF Held
      <4> QED
        BY <4>1, <3>3, <1>8
    <3>5. pc[u] \in {"front", "walk"} => size[u] <= Len(r)
      <4>1. pc[u] \in {"front", "walk"} => size[u] <= Len(q)
        BY <2>0, <2>3, <1>1 DEF Held
      <4>2. Len(q) \in Nat /\ Len(r) \in Nat
        BY <1>1, <1>4 DEF Kept
      <4> QED
        BY <4>1, <4>2, <2>0, <1>8
    <3>6. pc[u] = "walk" => Walked(r, a \cup {t}, window[u], size[u], pushes[u] + 1) /\ item[u] <= window[u][1]
      <4>1. pc[u] = "walk" => Walked(q, a, window[u], size[u], pushes[u]) /\ item[u] <= window[u][1]
        BY <2>0, <2>3, <1>1 DEF Held
      <4> QED
        BY <4>1, <2>0, <1>1, <1>2, <1>3, WalkedPush
    <3>7. pc[u] # "walk" => window[u] = <<>> /\ pushes[u] = 0
      BY <2>0 DEF Held
    <3> QED
      BY <3>1, <3>2, <3>3, <3>4, <3>5, <3>6, <3>7, <2>3, <1>1, <1>5 DEF Held
  <2> QED
    BY <2>1, <2>2, <2>3 DEF Histories, TypeOK
<1> QED
  BY <1>6, <1>7, <1>9 DEF Histories

\* The length and the front, read one after the other.
LEMMA ReadStep ==
  ASSUME Histories, NEW s \in Senders, ReadLen(s) \/ ReadFront(s)
  PROVE  Histories'
<1>1. PICK l, q, a : /\ l = list[s] /\ q = lists[l] /\ a = accepted[l]
                     /\ l \in 1..Len(lists) /\ Kept(q, a)
  BY DEF Histories, ListsKept, Held, ReadLen, ReadFront, Goto
<1>2. /\ Len(q) \in 1..Remain /\ Remain \in Nat /\ q[1] \in Ts /\ q[1] \in a
  <2>1. q \in Seq(Ts) /\ Len(q) \in 1..Remain
    BY <1>1 DEF Kept
  <2>2. 1 \in 1..Len(q)
    BY <2>1, HistoryAssumption
  <2> QED
    BY <1>1, <2>1, <2>2, HistoryAssumption DEF Kept
<1>3. UNCHANGED <<lists, entry, stale, down, accepted, item, list, pushes>>
  BY DEF ReadLen, ReadFront, mapVars
<1>4. ListsKept'
  BY <1>3 DEF Histories, ListsKept
<1>5. Held(s) /\ item[s] \in Ts /\ item[s] <= q[1] /\ pushes[s] = 0
  BY <1>1 DEF Histories, Held, ReadLen, ReadFront, Goto
<1>6. ASSUME NEW u \in Senders, u # s PROVE Held(u)'
  <2>1. UNCHANGED <<pc[u], item[u], list[u], size[u], window[u], pushes[u]>>
    BY <1>6, <1>3 DEF ReadLen, ReadFront, Goto, Histories, TypeOK
  <2>2. Held(u)
    BY DEF Histories
  <2> QED
    BY <2>1, <2>2, <1>3, HeldRests DEF Held
<1>7. CASE ReadLen(s)
  <2>1. /\ pc[s] = "len" /\ pc' = [pc EXCEPT ![s] = "front"] /\ size' = [size EXCEPT ![s] = Len(q)]
        /\ window' = window
    BY <1>1, <1>7 DEF ReadLen, Goto
  <2>2. TypeOK'
    <3>1. size' \in [Senders -> 0..Remain] /\ pc' \in [Senders -> {"idle", "create", "push", "len", "front", "walk"}]
      BY <2>1, <1>2 DEF Histories, TypeOK
    <3> QED
      BY <2>1, <3>1, <1>3 DEF Histories, TypeOK
  <2>3. Held(s)'
    <3>1. /\ pc'[s] = "front" /\ item'[s] = item[s] /\ list'[s] = l /\ size'[s] = Len(q)
          /\ window'[s] = <<>> /\ pushes'[s] = 0 /\ lists'[l] = q /\ l \in 1..Len(lists')
      BY <2>1, <1>1, <1>3, <1>5 DEF Histories, TypeOK, Held
    <3> QED
      BY <3>1, <1>2, <1>5 DEF Held
  <2> QED
    BY <2>2, <2>3, <1>4, <1>6 DEF Histories
<1>8. CASE ReadFront(s)
  <2>1. /\ pc[s] = "front" /\ pc' = [pc EXCEPT ![s] = "walk"] /\ window' = [window EXCEPT ![s] = <<q[1]>>]
        /\ size' = size
    BY <1>1, <1>8 DEF ReadFront, Goto
  <2>2. <<q[1]>> \in Seq(Ts) /\ Len(<<q[1]>>) = 1 /\ <<q[1]>>[1] = q[1]
    BY <1>2
  <2>3. TypeOK'
    <3>1. window' \in [Senders -> Seq(Ts)] /\ pc' \in [Senders -> {"idle", "create", "push", "len", "front", "walk"}]
      BY <2>1, <2>2 DEF Histories, TypeOK
    <3> QED
      BY <2>1, <3>1, <1>3 DEF Histories, TypeOK
  <2>4. PICK w, n : w = <<q[1]>> /\ n = size[s] /\ n <= Len(q) /\ n \in Nat
    BY <1>1, <2>1, <1>5, HistoryAssumption, SMTT(30) DEF Held, Histories, TypeOK
  <2>5. Len(w) = 1 /\ w[1] = q[1] /\ w \in Seq(Ts)
    BY <2>2, <2>4
  <2>6. Walked(q, a, w, n, 0)
    BY <2>4, <2>5, <1>2 DEF Walked, Gapless, Reached
  <2>7. Held(s)'
    <3>1. /\ pc'[s] = "walk" /\ item'[s] = item[s] /\ list'[s] = l /\ size'[s] = n
          /\ window'[s] = w /\ pushes'[s] = 0 /\ lists'[l] = q /\ accepted'[l] = a /\ l \in 1..Len(lists')
      BY <2>1, <2>4, <1>1, <1>3, <1>5 DEF Histories, TypeOK
    <3> QED
      BY <3>1, <2>4, <2>5, <2>6, <1>5 DEF Held
  <2> QED
    BY <2>3, <2>7, <1>4, <1>6 DEF Histories
<1> QED
  BY <1>7, <1>8

\* A walk goes on to the next element of the list, as it is now.
LEMMA WalkedNext ==
  ASSUME NEW q, NEW a, Kept(q, a), NEW w, NEW n \in Nat, NEW p \in Nat, Walked(q, a, w, n, p),
         NEW i \in 1..(Len(q) - 1), q[i] = w[Len(w)]
  PROVE  Walked(q, a, Append(w, q[i + 1]), n, p)
<1>1. Len(q) \in Nat /\ \A j \in 1..Len(q) : q[j] \in Ts /\ q[j] \in a /\ q[j] \in Int
  BY HistoryAssumption, SMTT(30) DEF Kept, Ts
<1>2. PICK m, o : m = Len(w) /\ o = q[i + 1] /\ m \in Nat /\ m >= 1 /\ o \in Ts /\ o \in a /\ o \in Int
  <2>1. i + 1 \in 1..Len(q)
    BY <1>1
  <2>2. w \in Seq(Ts) /\ Len(w) >= 1
    BY DEF Walked
  <2>3. Len(w) \in Nat
    BY ONLY <2>2
  <2> QED
    BY <1>1, <2>1, <2>2, <2>3
<1>3. PICK v : v = Append(w, o)
  OBVIOUS
<1>4. /\ v \in Seq(Ts) /\ Len(v) = m + 1 /\ v[m + 1] = o
      /\ \A j \in 1..m : v[j] = w[j]
  BY <1>2, <1>3 DEF Walked
<1>5. o < q[i] /\ q[i] = v[m]
  BY <1>1, <1>2, <1>4 DEF Kept, Descends
<1>6. \A j \in 1..m + 1 : j \in 1..m \/ j = m + 1
  BY <1>2
<1>7. \A j \in 1..m : j \in 1..(m - 1) \/ j = m
  BY <1>2
<1>8. \A j \in 1..m : v[j + 1] < v[j]
  <2>1. ASSUME NEW j \in 1..(m - 1) PROVE v[j + 1] < v[j]
    <3>1. j \in 1..m /\ j + 1 \in 1..m
      BY <1>2
    <3>2. w[j + 1] < w[j]
      BY <1>2 DEF Walked
    <3> QED
      BY <3>1, <3>2, <1>4
  <2> QED
    BY <2>1, <1>4, <1>5, <1>7
<1>9. Gapless(v, a)
  <2>1. ASSUME NEW j \in 1..m, NEW t \in a PROVE ~(v[j + 1] < t /\ t < v[j])
    <3>1. CASE j \in 1..(m - 1)
      <4>1. j \in 1..m /\ j + 1 \in 1..m
        BY <1>2, <3>1
      <4>2. ~(w[j + 1] < t /\ t < w[j])
        BY <3>1, <1>2 DEF Walked, Gapless
      <4> QED
        BY <4>1, <4>2, <1>4
    <3>2. CASE j = m
      <4>1. ~(q[i + 1] < t /\ t < q[i])
        BY DEF Kept, Gapless
      <4> QED
        BY <4>1, <3>2, <1>2, <1>4, <1>5
    <3> QED
      BY <3>1, <3>2, <1>7
  <2>2. Len(v) - 1 = m
    BY <1>2, <1>4
  <2> QED
    BY <2>1, <2>2 DEF Gapless
<1>10. Reached(q, v, p)
  <2>1. PICK at : at = m + p /\ at \in Nat /\ Len(v) + p = at + 1
    BY <1>2, <1>4, SMTT(30)
  <2>2. at <= Len(q) /\ q[at] = q[i] /\ at \in 1..Len(q) /\ i \in 1..Len(q)
    BY <2>1, <1>1, <1>2, SMTT(30) DEF Walked, Reached
  <2>3. at = i
    <3>1. q[at] \in Int /\ ~(q[at] < q[i]) /\ ~(q[i] < q[at])
      BY <2>2, <1>1
    <3> QED
      BY <2>1, <2>2, <3>1 DEF Kept, Descends
  <2>4. v[Len(v)] = o /\ i + 1 <= Len(q) /\ Len(v) + p = i + 1
    BY ONLY <2>1, <2>3, <1>2, <1>4, <1>1, i \in 1..(Len(q) - 1)
  <2> QED
    BY ONLY <2>4, <1>2 DEF Reached
<1>11. \A j \in 1..m + 1 : v[j] \in a
  BY <1>2, <1>4, <1>6 DEF Walked
<1>12. Len(q) >= n + p \/ Len(q) = Remain
  BY DEF Walked
<1>13. Walked(q, a, v, n, p)
  <2>1. Len(v) - 1 = m /\ Len(v) >= 1
    BY <1>2, <1>4
  <2> QED
    BY <2>1, <1>4, <1>8, <1>9, <1>10, <1>11, <1>12 DEF Walked
<1> QED
  BY <1>2, <1>3, <1>13

\* The walk goes on or meets nil.
LEMMA NextPointStep ==
  ASSUME Histories, NEW s \in Senders, NextPoint(s)
  PROVE  Histories'
<1>1. PICK l, q, a, w, n, p : /\ l = list[s] /\ q = lists[l] /\ a = accepted[l] /\ w = window[s] /\ n = size[s] /\ p = pushes[s]
                              /\ l \in 1..Len(lists) /\ Kept(q, a) /\ Walked(q, a, w, n, p)
                              /\ n \in Nat /\ p \in Nat
  BY HistoryAssumption DEF Histories, ListsKept, TypeOK, Held, NextPoint
<1>2. pc[s] = "walk" /\ UNCHANGED <<lists, entry, stale, accepted, pc, item, list, size, pushes>>
  BY DEF NextPoint
<1>3. ListsKept'
  BY <1>2 DEF Histories, ListsKept
<1>4. ASSUME UNCHANGED window, down' \in BOOLEAN PROVE Histories'
  BY <1>2, <1>3, <1>4 DEF Histories, TypeOK, Held
<1>5. CASE NextOf(s) = Nil
  BY <1>4, <1>5 DEF NextPoint
<1>6. CASE NextOf(s) # Nil
  <2>1. window' = [window EXCEPT ![s] = Append(w, NextOf(s))] /\ down' = down
    BY <1>1, <1>6 DEF NextPoint
  <2>2. PICK i \in 1..(Len(q) - 1) : q[i] = w[Len(w)] /\ NextOf(s) = q[i + 1]
    <3>1. NextOf(s) = NextElement(l, w[Len(w)])
      BY <1>1 DEF NextOf
    <3>2. PICK e : e = w[Len(w)]
      OBVIOUS
    <3>3. NextElement(l, e) # Nil /\ Kept(lists[l], accepted[l])
      BY <3>1, <3>2, <1>1, <1>6
    <3>4. PICK i \in 1..(Len(lists[l]) - 1) : lists[l][i] = e /\ NextElement(l, e) = lists[l][i + 1]
      BY <1>1, <3>3, NextElementIs
    <3> QED
      BY <3>1, <3>2, <3>4, <1>1
  <2>3. PICK v : v = Append(w, q[i + 1]) /\ Walked(q, a, v, n, p)
    BY <1>1, <2>2, WalkedNext
  <2>4. v \in Seq(Ts) /\ v[1] = w[1]
    <3>1. w \in Seq(Ts) /\ Len(w) >= 1
      BY <1>1 DEF Walked
    <3> QED
      BY <3>1, <2>3 DEF Walked
  <2>5. window' = [window EXCEPT ![s] = v]
    BY <2>1, <2>2, <2>3
  <2>6. TypeOK'
    <3>1. window' \in [Senders -> Seq(Ts)]
      BY <2>4, <2>5 DEF Histories, TypeOK
    <3> QED
      BY <3>1, <2>1, <1>2 DEF Histories, TypeOK
  <2>7. Held(s)'
    <3>1. /\ Held(s) /\ window'[s] = v /\ lists'[l] = q /\ accepted'[l] = a
      BY <2>5, <1>1, <1>2 DEF Histories, TypeOK
    <3> QED
      BY <3>1, <2>3, <2>4, <1>1, <1>2 DEF Held
  <2>8. ASSUME NEW u \in Senders, u # s PROVE Held(u)'
    <3>1. Held(u) /\ window'[u] = window[u]
      BY <2>5, <2>8 DEF Histories, TypeOK
    <3> QED
      BY <3>1, <1>2 DEF Held
  <2> QED
    BY <2>6, <2>7, <2>8, <1>3 DEF Histories
<1> QED
  BY <1>5, <1>6

\* A request gets the entry of the key.
LEMMA GetStep ==
  ASSUME Histories, NEW s \in Senders, NEW t \in Ts, GetNone(s, t) \/ GetList(s, t)
  PROVE  Histories'
<1>1. /\ pc[s] = "idle" /\ pc' = [pc EXCEPT ![s] = pc'[s]] /\ pc'[s] \in {"create", "push"}
      /\ item' = [item EXCEPT ![s] = t] /\ UNCHANGED <<mapVars, size, window, pushes>>
      /\ list' = [list EXCEPT ![s] = list'[s]] /\ list'[s] \in 0..Len(lists)
      /\ pc'[s] = "push" => list'[s] \in 1..Len(lists)
  <2>1. CASE GetNone(s, t)
    BY <2>1 DEF GetNone, Goto, Histories, TypeOK
  <2>2. CASE GetList(s, t)
    <3>1. pc' = [pc EXCEPT ![s] = "push"] /\ list' = [list EXCEPT ![s] = entry] /\ entry # 0
      BY <2>2 DEF GetList, Goto
    <3>2. entry \in 0..Len(lists) /\ Len(lists) \in Nat
      BY DEF Histories, TypeOK
    <3>3. pc'[s] = "push" /\ list'[s] = entry
      BY <3>1 DEF Histories, TypeOK
    <3>4. entry \in 1..Len(lists)
      BY <3>1, <3>2
    <3>5. pc' = [pc EXCEPT ![s] = pc'[s]] /\ list' = [list EXCEPT ![s] = list'[s]]
      BY <3>1, <3>3
    <3> QED
      BY <2>2, <3>2, <3>3, <3>4, <3>5 DEF GetList, Goto
  <2> QED
    BY <2>1, <2>2
<1>2. UNCHANGED <<lists, entry, stale, down, accepted, size, window, pushes>>
  BY <1>1 DEF mapVars
<1>3. ListsKept'
  BY <1>2 DEF Histories, ListsKept
<1>4. TypeOK'
  <2>1. t \in 0..MaxTs
    BY HistoryAssumption DEF Ts
  <2>2. item' \in [Senders -> 0..MaxTs] /\ list' \in [Senders -> 0..Len(lists)]
        /\ pc' \in [Senders -> {"idle", "create", "push", "len", "front", "walk"}]
    BY <1>1, <2>1 DEF Histories, TypeOK
  <2> QED
    BY <2>2, <1>2 DEF Histories, TypeOK
<1>5. ASSUME NEW u \in Senders PROVE Held(u)'
  <2>0. Held(u)
    BY DEF Histories
  <2>1. CASE u = s
    <3>1. item'[s] = t
      BY <1>1 DEF Histories, TypeOK
    <3> QED
      BY <2>0, <2>1, <3>1, <1>1, <1>2 DEF Held
  <2>2. CASE u # s
    <3>1. UNCHANGED <<pc[u], item[u], list[u], size[u], window[u], pushes[u]>>
      BY <1>1, <1>2, <2>2 DEF Histories, TypeOK
    <3> QED
      BY <2>0, <3>1, <1>2, HeldRests DEF Held
  <2> QED
    BY <2>1, <2>2
<1> QED
  BY <1>3, <1>4, <1>5 DEF Histories

\* A request is over.
LEMMA FinishStep ==
  ASSUME Histories, NEW s \in Senders, PushRejected(s) \/ Evaluate(s)
  PROVE  Histories'
<1>1. Finish(s) /\ UNCHANGED <<lists, entry, stale, down, accepted>>
  BY DEF PushRejected, Evaluate, mapVars
<1>2. ListsKept'
  BY <1>1 DEF Histories, ListsKept
<1>3. TypeOK'
  <2>1. << >> \in Seq(Ts) /\ 0 \in 0..MaxTs /\ 0 \in 0..Remain /\ 0 \in Nat
    BY HistoryAssumption
  <2>2. 0 \in 0..Len(lists)
    <3>1. Len(lists) \in Nat
      BY DEF Histories, TypeOK
    <3> QED
      BY <3>1
  <2>3. /\ pc' \in [Senders -> {"idle", "create", "push", "len", "front", "walk"}]
        /\ item' \in [Senders -> 0..MaxTs] /\ list' \in [Senders -> 0..Len(lists)]
    BY <1>1, <2>1, <2>2 DEF Finish, Histories, TypeOK
  <2>4. /\ size' \in [Senders -> 0..Remain] /\ window' \in [Senders -> Seq(Ts)]
        /\ pushes' \in [Senders -> Nat]
    BY <1>1, <2>1 DEF Finish, Histories, TypeOK
  <2> QED
    BY <1>1, <2>3, <2>4 DEF Histories, TypeOK
<1>4. ASSUME NEW u \in Senders PROVE Held(u)'
  <2>0. Held(u)
    BY DEF Histories
  <2>1. CASE u = s
    <3>1. pc'[s] = "idle" /\ window'[s] = <<>> /\ pushes'[s] = 0
      BY <1>1 DEF Finish, Histories, TypeOK
    <3> QED
      BY <2>1, <3>1 DEF Held
  <2>2. CASE u # s
    <3>1. UNCHANGED <<pc[u], item[u], list[u], size[u], window[u], pushes[u]>>
      BY <1>1, <2>2 DEF Finish, Histories, TypeOK
    <3> QED
      BY <2>0, <3>1, <1>1, HeldRests DEF Held
  <2> QED
    BY <2>1, <2>2
<1> QED
  BY <1>2, <1>3, <1>4 DEF Histories

\* CleanStale touches the entry, and no list a request has.
LEMMA EntryStep ==
  ASSUME Histories, BatchDelete \/ \E before \in Ts : Collect(before)
  PROVE  Histories'
<1>1. /\ UNCHANGED <<lists, down, accepted, pc, item, list, size, window, pushes>>
      /\ entry' \in {entry, 0} /\ stale' \in BOOLEAN
  BY DEF BatchDelete, Collect, senderVars
<1>2. entry' \in 0..Len(lists)
  <2>1. Len(lists) \in Nat /\ entry \in 0..Len(lists)
    BY DEF Histories, TypeOK
  <2> QED
    BY <1>1, <2>1
<1> QED
  BY <1>1, <1>2 DEF Histories, TypeOK, ListsKept, Held

\* Every step keeps what the lists and the senders hold.
LEMMA HistoriesStep == Histories /\ [Next]_vars => Histories'
<1> SUFFICES ASSUME Histories, [Next]_vars PROVE Histories'
  OBVIOUS
<1>1. CASE Restart
  <2>1. /\ lists' = <<>> /\ accepted' = <<>> /\ entry' = 0 /\ stale' = FALSE /\ down' = FALSE
        /\ pc' = [s \in Senders |-> "idle"] /\ item' = [s \in Senders |-> 0]
        /\ list' = [s \in Senders |-> 0] /\ size' = [s \in Senders |-> 0]
        /\ window' = [s \in Senders |-> <<>>] /\ pushes' = [s \in Senders |-> 0]
    BY <1>1 DEF Restart
  <2>2. Init'
    BY <2>1 DEF Init
  <2>3. Init' => Histories'
    BY HistoriesInit, PTL
  <2> QED
    BY <2>2, <2>3
<1>2. CASE UNCHANGED vars
  BY <1>2 DEF vars, mapVars, senderVars, Histories, TypeOK, ListsKept, Held
<1>3. ASSUME NEW s \in Senders, Step(s) PROVE Histories'
  BY <1>3, CreateStep, PushStep, FinishStep, ReadStep, NextPointStep DEF Step
<1> QED
  BY <1>1, <1>2, <1>3, GetStep, EntryStep DEF Next

\* A walk under way meets nil only when the list was pushed out under it.
LEMMA NilIsPushed ==
  ASSUME Histories, NEW s \in Senders, AtNil(s)
  PROVE  pushes[s] > Remain - Elements(s)
<1>1. PICK l, q, a, w, n, p : /\ l = list[s] /\ q = lists[l] /\ a = accepted[l] /\ w = window[s] /\ n = size[s] /\ p = pushes[s]
                              /\ l \in 1..Len(lists) /\ Kept(q, a) /\ Walked(q, a, w, n, p)
                              /\ n \in Nat /\ p \in Nat /\ n <= Len(q)
  BY HistoryAssumption DEF Histories, ListsKept, TypeOK, Held, AtNil
<1>2. PICK m, e : m = Elements(s) /\ m \in Nat /\ m <= n /\ e = w[Len(w)]
  <2>1. PointsNeeded(Type, Window) \in Nat
    BY HistoryAssumption DEF PointsNeeded
  <2> QED
    BY <2>1, <1>1 DEF Elements
<1>3. Len(w) \in Nat /\ Len(w) < m /\ Len(q) \in Nat /\ Len(q) >= 1 /\ Remain \in Nat /\ Len(w) >= 1
  <2>1. w \in Seq(Ts) /\ Len(w) >= 1 /\ Len(q) \in 1..Remain
    BY <1>1 DEF Walked, Kept
  <2> QED
    BY <2>1, <1>1, <1>2, HistoryAssumption, SMTT(30) DEF AtNil
<1>4. NextElement(l, e) = Nil
  BY <1>1, <1>2 DEF AtNil, NextOf
<1>5. \A i \in 1..(Len(q) - 1) : q[i] # e
  <2>1. ASSUME NEW i \in 1..(Len(q) - 1), q[i] = e PROVE FALSE
    <3>1. NextElement(l, e) = q[i + 1]
      BY <2>1, <1>1, NextElementIs
    <3>2. i + 1 \in 1..Len(q)
      BY <1>3
    <3>3. q[i + 1] \in Ts
      BY <3>2, <1>1 DEF Kept
    <3> QED
      BY <3>1, <3>3, <1>4, HistoryAssumption DEF Ts, Nil
  <2> QED
    BY <2>1
<1>6. Len(w) + p >= Len(q)
  <2>1. CASE Len(w) + p <= Len(q) /\ q[Len(w) + p] = e
    <3>1. PICK at : at = Len(w) + p /\ at \in Nat /\ at >= 1 /\ at <= Len(q) /\ q[at] = e
      BY <2>1, <1>1, <1>3, SMTT(30)
    <3>2. at \notin 1..(Len(q) - 1)
      BY <3>1, <1>5
    <3> QED
      BY <3>1, <3>2, <1>3
  <2>2. CASE Len(w) + p > Len(q)
    BY <2>2, <1>1, <1>3
  <2> QED
    BY <2>1, <2>2, <1>1, <1>2 DEF Walked, Reached
<1>7. Len(q) >= n + p \/ Len(q) = Remain
  BY <1>1 DEF Walked
<1>8. p > Remain - m
  <2>1. PICK k, z : k = Len(w) /\ z = Len(q)
    OBVIOUS
  <2>2. /\ k \in Nat /\ z \in Nat /\ m \in Nat /\ n \in Nat /\ p \in Nat /\ Remain \in Nat
        /\ k < m /\ m <= n
    BY <2>1, <1>1, <1>2, <1>3
  <2>3. k + p >= z /\ (z >= n + p \/ z = Remain)
    BY <2>1, <1>6, <1>7
  <2> QED
    BY ONLY <2>2, <2>3
<1> QED
  BY <1>1, <1>2, <1>8

\* src/judge/store/linkedlist.go:43, history.go: however many requests push on the list of a
\* series and CleanStale drops it, a walk without a lock gathers points that followed each
\* other, from the point judged or a newer one, and meets nil only after more pushes than
\* the list has room beyond the window.
THEOREM WalksAreRuns == Spec => []WindowSound
<1>1. Histories => WindowSound
  <2> SUFFICES ASSUME Histories PROVE WindowSound
    OBVIOUS
  <2>1. WindowIsRun
    <3>1. ASSUME NEW s \in Senders, NEW i \in 1..(Len(window[s]) - 1)
          PROVE  /\ window[s][i + 1] < window[s][i]
                 /\ \A t \in accepted[list[s]] : ~(window[s][i + 1] < t /\ t < window[s][i])
      <4>1. Held(s)
        BY DEF Histories
      <4>2. pc[s] = "walk"
        BY <3>1, <4>1 DEF Held
      <4> QED
        BY <3>1, <4>1, <4>2 DEF Held, Walked, Gapless
    <3> QED
      BY <3>1 DEF WindowIsRun
  <2>2. WindowCoversItem
    <3>1. ASSUME NEW s \in Senders, pc[s] = "walk" PROVE window[s][1] >= item[s]
      <4>1. Held(s)
        BY DEF Histories
      <4> QED
        BY <3>1, <4>1 DEF Held
    <3> QED
      BY <3>1 DEF WindowCoversItem
  <2>3. NilOnlyAfterPushes
    BY NilIsPushed DEF NilOnlyAfterPushes
  <2> QED
    BY <2>1, <2>2, <2>3 DEF WindowSound, Histories
<1> QED
  BY <1>1, HistoriesInit, HistoriesStep, PTL DEF Spec

-----------------------------------------------------------------------------
(* The inputs                                                                    *)

\* The points of a series: newest first, no two with one timestamp.
SeriesTyped ==
  /\ type \in {"GAUGE", "COUNTER"}
  /\ pts \in Seq([ts : Int, val : Int])
  /\ \A n \in 1..Len(pts) : pts[n].ts >= 1
  /\ \A n \in 1..(Len(pts) - 1) : pts[n + 1].ts < pts[n].ts

\* What transfer accepted; over rpc nothing older than the epoch or far in the future.
ItemsTyped ==
  /\ items \in Seq([item : [ts : Int, step : Int, type : Types], fields : Nat])
  /\ \A n \in 1..Len(items) : items[n].fields = 0 => items[n].item.ts \in 1..(2 * Now)

InputsTyped == SeriesTyped /\ ItemsTyped

LEMMA InputsInit == MCInit => InputsTyped
<1> SUFFICES ASSUME MCInit PROVE InputsTyped
  OBVIOUS
<1>1. pts = <<>> /\ items = <<>> /\ type \in {"GAUGE", "COUNTER"}
  BY DEF MCInit
<1>2. pts \in Seq([ts : Int, val : Int]) /\ Len(pts) = 0
  BY <1>1
<1>3. items \in Seq([item : [ts : Int, step : Int, type : Types], fields : Nat]) /\ Len(items) = 0
  BY <1>1
<1> QED
  BY <1>1, <1>2, <1>3 DEF InputsTyped, SeriesTyped, ItemsTyped

\* The prefix of a series with a newer point in front is a series.
LEMMA PushPointTyped ==
  ASSUME SeriesTyped, NEW t \in 1..LastTs, NEW v \in Int, NEW n \in Nat,
         pts # <<>> => t > pts[1].ts, n <= Len(pts) + 1,
         type' = type, pts' = SubSeq(<<[ts |-> t, val |-> v]>> \o pts, 1, n)
  PROVE  SeriesTyped'
<1>1. PICK q : q = pts /\ q \in Seq([ts : Int, val : Int]) /\ Len(q) \in Nat
  BY DEF SeriesTyped
<1>2. PICK p : p = [ts |-> t, val |-> v] /\ p \in [ts : Int, val : Int] /\ p.ts = t
  BY InputAssumption
<1>3. PICK all : all = <<p>> \o q
  OBVIOUS
<1>4. /\ all \in Seq([ts : Int, val : Int]) /\ Len(all) = Len(q) + 1
      /\ all[1] = p /\ \A i \in 1..Len(q) : all[i + 1] = q[i]
  <2>1. PICK V : V = [ts : Int, val : Int]
    OBVIOUS
  <2>2. p \in V /\ q \in Seq(V)
    BY <1>1, <1>2, <2>1
  <2>3. /\ all \in Seq(V) /\ Len(all) = Len(q) + 1
        /\ all[1] = p /\ \A i \in 1..Len(q) : all[i + 1] = q[i]
    BY ONLY <1>3, <2>2
  <2> QED
    BY <2>1, <2>3
<1>5. PICK r : r = SubSeq(all, 1, n)
  OBVIOUS
<1>6. r \in Seq([ts : Int, val : Int]) /\ Len(r) = n /\ \A i \in 1..n : r[i] = all[i]
  <2>1. PICK V : V = [ts : Int, val : Int]
    OBVIOUS
  <2>2. all \in Seq(V) /\ n \in Nat /\ n <= Len(all)
    BY <1>1, <1>4, <2>1
  <2>3. r \in Seq(V) /\ Len(r) = n /\ \A i \in 1..n : r[i] = all[i]
    BY ONLY <1>5, <2>2
  <2> QED
    BY <2>1, <2>3
<1>7. pts' = r
  BY <1>1, <1>2, <1>3, <1>5
<1>8. \A i \in 1..Len(q) : q[i].ts >= 1
  BY <1>1 DEF SeriesTyped
<1>9. \A i \in 1..(Len(q) - 1) : q[i + 1].ts < q[i].ts
  BY <1>1 DEF SeriesTyped
<1>10. Len(q) > 0 => t > q[1].ts
  BY <1>1
<1>11. ASSUME NEW i \in 1..Len(r) PROVE r[i].ts >= 1
  <2>1. CASE i = 1
    BY <1>2, <1>4, <1>6, <1>11, <2>1
  <2>2. CASE i # 1
    <3>1. PICK k : k = i - 1
      OBVIOUS
    <3>2. i \in Nat /\ i <= Len(q) + 1 /\ i \in 1..n
      <4>1. Len(q) \in Nat /\ n \in Nat /\ n <= Len(q) + 1 /\ i \in 1..n
        BY <1>1, <1>6, <1>11
      <4> QED
        BY ONLY <4>1
    <3>3. k \in 1..Len(q) /\ i = k + 1
      BY ONLY <1>1, <3>1, <3>2, <2>2
    <3> QED
      BY <3>2, <3>3, <1>4, <1>6, <1>8
  <2> QED
    BY <2>1, <2>2
<1>12. ASSUME NEW i \in 1..(Len(r) - 1) PROVE r[i + 1].ts < r[i].ts
  <2>0. i \in 1..Len(q) /\ i \in 1..n /\ i + 1 \in 1..n /\ i \in Nat
    <3>1. Len(q) \in Nat /\ n \in Nat /\ n <= Len(q) + 1 /\ i \in 1..(n - 1)
      BY <1>1, <1>6, <1>12
    <3> QED
      BY ONLY <3>1
  <2>1. r[i + 1] = q[i] /\ i \in 1..Len(q)
    BY <2>0, <1>4, <1>6
  <2>2. CASE i = 1
    <3>1. r[1].ts = t /\ t > q[1].ts
      <4>1. 1 \in 1..n /\ Len(q) > 0
        BY <1>1, <2>0, <2>2
      <4>2. r[1] = p
        BY <4>1, <1>4, <1>6
      <4> QED
        BY <4>1, <4>2, <1>2, <1>10
    <3>2. q[1] \in [ts : Int, val : Int]
      <4>1. PICK V : V = [ts : Int, val : Int]
        OBVIOUS
      <4>2. q \in Seq(V) /\ 1 \in 1..Len(q)
        BY <1>1, <2>0, <2>2, <4>1
      <4>3. q[1] \in V
        BY ONLY <4>2
      <4> QED
        BY <4>1, <4>3
    <3> QED
      BY <2>1, <2>2, <3>1, <3>2
  <2>3. CASE i # 1
    <3>1. PICK k : k = i - 1
      OBVIOUS
    <3>2. k \in 1..(Len(q) - 1) /\ k \in 1..Len(q) /\ i = k + 1
      BY ONLY <1>1, <2>0, <3>1, <2>3
    <3>3. r[i] = q[k] /\ q[i].ts < q[k].ts
      BY <1>4, <1>6, <1>9, <2>0, <3>2
    <3> QED
      BY <2>1, <3>3
  <2> QED
    BY <2>2, <2>3
<1> QED
  BY <1>6, <1>7, <1>11, <1>12 DEF SeriesTyped

\* An item that transfer accepts.
LEMMA AcceptTyped ==
  ASSUME InputsTyped, NEW i \in [ts : Int, step : Int, type : Types], NEW fields \in Nat,
         fields = 0 => i.ts \in 1..(2 * Now), Accept(i, fields)
  PROVE  InputsTyped'
<1>1. PICK p : p = [item |-> i, fields |-> fields]
  OBVIOUS
<1>2. p \in [item : [ts : Int, step : Int, type : Types], fields : Nat]
      /\ p.item = i /\ p.fields = fields
  BY <1>1
<1>3. PICK q : q = items /\ q \in Seq([item : [ts : Int, step : Int, type : Types], fields : Nat])
              /\ Len(q) \in Nat
  BY DEF InputsTyped, ItemsTyped
<1>4. PICK r : r = Append(q, p)
  OBVIOUS
<1>5. /\ r \in Seq([item : [ts : Int, step : Int, type : Types], fields : Nat])
      /\ Len(r) = Len(q) + 1 /\ r[Len(r)] = p /\ \A n \in 1..Len(q) : r[n] = q[n]
  BY <1>2, <1>3, <1>4
<1>6. items' = r /\ type' = type /\ pts' = pts
  BY <1>1, <1>3, <1>4 DEF Accept
<1>7. ASSUME NEW n \in 1..Len(r), r[n].fields = 0 PROVE r[n].item.ts \in 1..(2 * Now)
  <2>1. CASE n = Len(r)
    BY <2>1, <1>2, <1>5, <1>7
  <2>2. CASE n # Len(r)
    <3>1. n \in 1..Len(q)
      BY <2>2, <1>3, <1>5
    <3> QED
      BY <3>1, <1>3, <1>5, <1>7 DEF InputsTyped, ItemsTyped
  <2> QED
    BY <2>1, <2>2
<1> QED
  BY <1>5, <1>6, <1>7 DEF InputsTyped, ItemsTyped, SeriesTyped

\* What transfer takes for a value is dated between the epoch and twice the present.
LEMMA ReceivedIs ==
  ASSUME NEW v, v.ts \in Int, v.step \in Int, v.type \in Types
  PROVE  Received(v) \in [ts : Int, step : Int, type : Types] /\ Received(v).ts \in 1..(2 * Now)
<1>1. PICK t : t = IF v.ts <= 0 \/ v.ts > Now * 2 THEN Now ELSE v.ts
  OBVIOUS
<1>2. t \in 1..(2 * Now) /\ t \in Int
  BY <1>1, ItemAssumption
<1>3. Received(v) = [ts |-> t, step |-> v.step, type |-> v.type]
  BY <1>1 DEF Received
<1> QED
  BY <1>2, <1>3

LEMMA LineIs ==
  ASSUME NEW l, l.ts \in Int, l.step \in Int, ~LineRefused(l)
  PROVE  ReadLine(l) \in [ts : Int, step : Int, type : Types]
BY ItemAssumption DEF ReadLine, LineRefused

\* What a gateway hands on keeps its time, its step and its type.
LEMMA ConvertIs ==
  ASSUME NEW i \in [ts : Int, step : Int, type : Types]
  PROVE  convert(i).ts \in Int /\ convert(i).step \in Int /\ convert(i).type \in Types
BY DEF convert

LEMMA InputsStep == InputsTyped /\ [MCNext]_<<inputs, vars, part>> => InputsTyped'
<1> SUFFICES ASSUME InputsTyped, [MCNext]_<<inputs, vars, part>> PROVE InputsTyped'
  OBVIOUS
<1>1. CASE UNCHANGED inputs
  BY <1>1 DEF inputs, InputsTyped, SeriesTyped, ItemsTyped
<1>2. CASE PushPoint
  <2>1. PICK t \in 1..LastTs, v \in Numbers :
          /\ pts # <<>> => t > pts[1].ts
          /\ pts' = SubSeq(<<[ts |-> t, val |-> v]>> \o pts, 1,
                           IF Len(pts) < Keep THEN Len(pts) + 1 ELSE Keep)
    BY <1>2 DEF PushPoint
  <2>2. PICK n : n = IF Len(pts) < Keep THEN Len(pts) + 1 ELSE Keep
    OBVIOUS
  <2>3. Len(pts) \in Nat
    BY DEF InputsTyped, SeriesTyped
  <2>4. n \in Nat /\ n <= Len(pts) + 1 /\ v \in Int
    BY <2>2, <2>3, InputAssumption
  <2>5. SeriesTyped'
    BY <1>2, <2>1, <2>2, <2>4, PushPointTyped DEF PushPoint, InputsTyped
  <2> QED
    BY <1>2, <2>5 DEF PushPoint, InputsTyped, ItemsTyped
<1>3. CASE OverRpc
  <2>1. PICK v \in Values : ~Refused(v) /\ Accept(Received(v), 0)
    BY <1>3 DEF OverRpc
  <2>2. v.ts \in Int /\ v.step \in Int /\ v.type \in Types
    BY <2>1, InputAssumption DEF Values, Refused
  <2> QED
    BY <2>1, <2>2, ReceivedIs, AcceptTyped
<1>4. CASE OverSocket
  <2>1. PICK l \in Lines : ~LineRefused(l) /\ Accept(ReadLine(l), l.fields)
    BY <1>4 DEF OverSocket
  <2>2. l.ts \in Timestamps /\ l.step \in Steps /\ l.fields \in 4..6
    BY DEF Lines
  <2>3. l.ts \in Int /\ l.step \in Int /\ l.fields \in Nat /\ l.fields # 0
    <3>1. l.ts \in Int /\ l.step \in Int
      BY <2>2, InputAssumption
    <3>2. \A n \in 4..6 : n \in Nat /\ n # 0
      OBVIOUS
    <3> QED
      BY <2>2, <3>1, <3>2
  <2> QED
    BY <2>1, <2>3, LineIs, AcceptTyped
<1>5. CASE OverGateway
  <2>1. PICK i \in [ts : Int, step : Int, type : Types] : ByGateway(i)
    <3>1. CASE \E v \in Values : ~GatewayRefuses(v) /\ ByGateway(Received(v))
      <4>1. PICK v \in Values : ~GatewayRefuses(v) /\ ByGateway(Received(v))
        BY <3>1
      <4>2. v.ts \in Int /\ v.step \in Int /\ v.type \in Types
        BY <4>1, InputAssumption DEF Values, GatewayRefuses, Refused
      <4> QED
        BY <4>1, <4>2, ReceivedIs
    <3>2. CASE \E l \in Lines : ~LineRefused(l) /\ ByGateway(LineItem(l))
      <4>1. PICK l \in Lines : ~LineRefused(l) /\ ByGateway(ReadLine(l))
        BY <3>2 DEF LineItem
      <4>2. l.ts \in Int /\ l.step \in Int
        BY <4>1, InputAssumption DEF Lines
      <4> QED
        BY <4>1, <4>2, LineIs
    <3> QED
      BY <1>5, <3>1, <3>2 DEF OverGateway
  <2>2. convert(i).ts \in Int /\ convert(i).step \in Int /\ convert(i).type \in Types
    BY ConvertIs
  <2>3. PICK j : j = Received(convert(i))
    OBVIOUS
  <2>4. j \in [ts : Int, step : Int, type : Types] /\ j.ts \in 1..(2 * Now)
    BY <2>2, <2>3, ReceivedIs
  <2>5. Accept(j, 0)
    BY <2>1, <2>3 DEF ByGateway
  <2> QED
    BY <2>4, <2>5, AcceptTyped
<1> QED
  BY <1>1, <1>2, <1>3, <1>4, <1>5 DEF MCNext, Input, inputs

-----------------------------------------------------------------------------
(* What transfer makes of its values                                             *)

\* A timestamp from the epoch on is moved back to a multiple of the step, by less than a
\* step, and never past one that was before it.
LEMMA AlignedBack ==
  ASSUME NEW t \in Nat, NEW p \in Nat \ {0}
  PROVE  alignTs(t, p) \in Nat /\ alignTs(t, p) <= t /\ t < alignTs(t, p) + p
BY DEF alignTs, Rem

LEMMA AlignedKeepsOrder ==
  ASSUME NEW s \in Nat, NEW t \in Nat, s <= t, NEW p \in Nat \ {0}
  PROVE  alignTs(s, p) <= alignTs(t, p)
<1>1. PICK i, j : i = s \div p /\ j = t \div p
  OBVIOUS
<1>2. i \in Nat /\ j \in Nat /\ alignTs(s, p) = p * i /\ alignTs(t, p) = p * j
  BY <1>1 DEF alignTs, Rem
<1>3. p * i <= s /\ t < p * j + p
  BY <1>2, AlignedBack
<1>4. SUFFICES ASSUME j < i PROVE FALSE
  <2>1. i <= j => p * i <= p * j
    BY <1>2
  <2> QED
    BY <1>2, <1>4, <2>1
<1>5. p * j + p <= p * i
  <2>1. PICK k \in Nat : i = j + 1 + k
    <3>1. i - j - 1 \in Nat /\ i = j + 1 + (i - j - 1)
      BY <1>2, <1>4
    <3> QED
      BY <3>1
  <2>2. p * i = p * j + p + p * k /\ p * k \in Nat
    BY <1>2, <2>1
  <2> QED
    BY <1>2, <2>2
<1> QED
  BY <1>2, <1>3, <1>5

LEMMA StepIs == ASSUME NEW i, i.step \in Int PROVE StepOf(i) \in Nat \ {0}
BY ItemAssumption DEF StepOf

\* src/transfer/sender/sender.go:231, receiver/rpc/rpc_transfer.go: whatever the agents, the
\* gateways and the users of the socket send, judge and graph get a point under one
\* timestamp, the points of a series keep their order and, a step apart, their distinction,
\* and over rpc none is dated further ahead than twice the present.
THEOREM TimestampsAgree == MCSpec => []TimesAgree
<1>1. InputsTyped => TimesAgree
  <2> SUFFICES ASSUME InputsTyped PROVE TimesAgree
    OBVIOUS
  <2>0. ASSUME NEW n \in Accepted
        PROVE  /\ Item(n).ts \in Int /\ Item(n).step \in Int
               /\ items[n].fields = 0 => Item(n).ts \in 1..(2 * Now)
    <3>1. PICK x : x = items[n] /\ x \in [item : [ts : Int, step : Int, type : Types], fields : Nat]
      <4>1. PICK V : V = [item : [ts : Int, step : Int, type : Types], fields : Nat]
        OBVIOUS
      <4>2. items \in Seq(V) /\ n \in 1..Len(items)
        BY <4>1 DEF InputsTyped, ItemsTyped, Accepted
      <4>3. items[n] \in V
        BY ONLY <4>2
      <4> QED
        BY <4>1, <4>3
    <3>2. x.item \in [ts : Int, step : Int, type : Types]
      BY <3>1
    <3>3. Item(n) = x.item /\ Item(n).ts \in Int /\ Item(n).step \in Int
      BY <3>1, <3>2 DEF Item
    <3> QED
      BY <3>3 DEF InputsTyped, ItemsTyped, Accepted, Item
  <2>1. SameInstant
    BY DEF SameInstant, JudgeItem, GraphItem
  <2>2. StepsKeptApart
    <3>1. ASSUME NEW a, NEW b, a.ts \in Nat, b.ts \in Nat, a.step \in Int, a.ts < b.ts
          PROVE  /\ alignTs(a.ts, StepOf(a)) <= alignTs(b.ts, StepOf(a))
                 /\ b.ts - a.ts >= StepOf(a) => alignTs(a.ts, StepOf(a)) < alignTs(b.ts, StepOf(a))
                 /\ alignTs(a.ts, StepOf(a)) <= a.ts
      <4>1. PICK p, s, t : p = StepOf(a) /\ s = a.ts /\ t = b.ts
        OBVIOUS
      <4>2. p \in Nat \ {0} /\ s \in Nat /\ t \in Nat /\ s < t
        BY <3>1, <4>1, StepIs
      <4>3. /\ alignTs(s, p) \in Nat /\ alignTs(t, p) \in Nat /\ alignTs(s, p) <= s
            /\ t < alignTs(t, p) + p /\ alignTs(s, p) <= alignTs(t, p)
        BY <4>2, AlignedBack, AlignedKeepsOrder
      <4>4. t - s >= p => alignTs(s, p) < alignTs(t, p)
        BY <4>2, <4>3
      <4> QED
        BY <4>1, <4>3, <4>4
    <3>2. ASSUME NEW m \in Accepted, NEW n \in Accepted, Item(m).ts >= 0, Item(m).ts < Item(n).ts
          PROVE  Item(m).ts \in Nat /\ Item(n).ts \in Nat /\ Item(m).step \in Int
      BY <3>2, <2>0
    <3> QED
      BY <3>1, <3>2 DEF StepsKeptApart
  <2>3. NeverFarAhead
    <3>1. ASSUME NEW n \in Accepted, items[n].fields = 0 PROVE GraphItem(Item(n)).ts \in 0..(2 * Now)
      <4>1. PICK t, p : t = Item(n).ts /\ p = StepOf(Item(n))
        OBVIOUS
      <4>2. t \in 1..(2 * Now) /\ t \in Nat /\ p \in Nat \ {0}
        BY <2>0, <3>1, <4>1, StepIs, ItemAssumption
      <4>3. alignTs(t, p) \in Nat /\ alignTs(t, p) <= t
        BY <4>2, AlignedBack
      <4>4. GraphItem(Item(n)).ts = alignTs(t, p)
        BY <4>1 DEF GraphItem
      <4> QED
        BY <4>2, <4>3, <4>4, ItemAssumption
    <3> QED
      BY <3>1 DEF NeverFarAhead
  <2> QED
    BY <2>1, <2>2, <2>3 DEF TimesAgree
<1> QED
  BY <1>1, InputsInit, InputsStep, PTL DEF MCSpec

-----------------------------------------------------------------------------
(* Numbers                                                                       *)

\* A set of natural numbers has a least one.
LEMMA LeastNumber ==
    ASSUME NEW T, T \subseteq Nat, T # {}
    PROVE  Min(T) \in T /\ \A y \in T : Min(T) <= y
<1> DEFINE R == OpToRel(<, Nat)
<1>1. IsWellFoundedOn(R, Nat)
  BY NatLessThanWellFounded, Zenon
<1> HIDE DEF R
<1>2. PICK x \in T : \A y \in T : ~ (<<y, x>> \in R)
  BY <1>1, WFMin
<1>3. \A y, z \in Nat : y < z => <<y, z>> \in R
  BY DEF R, OpToRel
<1>4. \A y \in T : x \in Nat /\ y \in Nat /\ ~(y < x)
  BY <1>2, <1>3
<1>5. \A y \in T : x <= y
  BY ONLY <1>4
<1> QED
  BY <1>2, <1>5 DEF Min

\* A set that has 0, and with a number the next, has every number.
LEMMA EveryNumber ==
    ASSUME NEW S, 0 \in S, \A n \in Nat : n \in S => n + 1 \in S
    PROVE  \A n \in Nat : n \in S
<1> DEFINE T == Nat \ S
<1>1. SUFFICES ASSUME T # {} PROVE FALSE
  OBVIOUS
<1>2. Min(T) \in T /\ \A y \in T : Min(T) <= y
  BY <1>1, LeastNumber
<1>3. PICK x \in T : \A y \in T : x <= y
  BY <1>2
<1>4. x # 0 /\ x \in Nat
  BY <1>3
<1>5. x - 1 \in Nat /\ x - 1 \notin T
  BY <1>3, <1>4
<1> QED
  BY <1>3, <1>4, <1>5

\* The greatest of the first n numbers, and of a set that has it.
LEMMA GreatestOf ==
  ASSUME NEW n \in Nat, NEW s, s \subseteq 1..n, n \in s
  PROVE  Max(s) = n
<1>1. \A y \in s : n >= y /\ y \in Int
  OBVIOUS
<1>2. \E x \in s : \A y \in s : x >= y
  BY <1>1
<1>3. PICK x : x = Max(s)
  OBVIOUS
<1>4. x \in s /\ \A y \in s : x >= y
  BY <1>2, <1>3 DEF Max
<1>5. x \in Int /\ x >= n /\ n >= x
  BY <1>1, <1>4
<1> QED
  BY <1>3, <1>5

\* A set of numbers up to n that is not empty has a greatest one.
LEMMA GreatestNumber ==
  ASSUME NEW n \in Nat, NEW s, s \subseteq 1..n, s # {}
  PROVE  Max(s) \in s
<1> DEFINE above == {m \in Nat : \A y \in s : y <= m}
<1>1. n \in above
  <2>1. \A y \in s : y \in 1..n
    OBVIOUS
  <2>2. \A y \in 1..n : y <= n
    OBVIOUS
  <2> QED
    BY <2>1, <2>2
<1>2. Min(above) \in above /\ \A y \in above : Min(above) <= y
  BY <1>1, LeastNumber
<1>3. PICK m \in above : \A y \in above : m <= y
  BY <1>2
<1>4. m \in s
  <2>1. SUFFICES ASSUME m \notin s PROVE FALSE
    OBVIOUS
  <2>2. \A y \in s : y \in Nat /\ y >= 1 /\ y <= m /\ y # m
    BY <1>3, <2>1
  <2>3. m \in Nat /\ m >= 1
    <3>1. PICK z \in s : TRUE
      OBVIOUS
    <3> QED
      BY <3>1, <2>2, <1>3
  <2>4. m - 1 \in Nat /\ \A y \in s : y <= m - 1
    BY <2>2, <2>3
  <2>5. m <= m - 1
    BY <2>4, <1>3
  <2> QED
    BY <2>3, <2>5
<1>5. \A y \in s : m >= y
  BY <1>3
<1> QED
  BY <1>4, <1>5 DEF Max

-----------------------------------------------------------------------------
(* Folds from the left                                                           *)

\* g is what comes of the subsets of 1..n when their elements are taken from the least on:
\* step[<<a, i>>] is what i makes of a.
FoldedLeft(g, base, step, n) ==
  \A s \in SUBSET (1..n) : g[s] = IF s = {} THEN base ELSE step[<<g[s \ {Max(s)}], Max(s)>>]

LEMMA FoldLeftIs ==
  ASSUME NEW n \in Nat, NEW V, NEW base \in V, NEW step, \A a \in V, i \in 1..n : step[<<a, i>>] \in V
  PROVE  \E g \in [SUBSET (1..n) -> V] : FoldedLeft(g, base, step, n)
<1> DEFINE Next1(g, s) == IF s = {} THEN base ELSE step[<<g[s \ {Max(s)}], Max(s)>>]
           Has(m) == \E g \in [SUBSET (1..n) -> V] : \A s \in SUBSET (1..m) : g[s] = Next1(g, s)
           N == {m \in Nat : m <= n => Has(m)}
<1>1. 0 \in N
  <2>1. PICK g : g = [s \in SUBSET (1..n) |-> base]
    OBVIOUS
  <2>2. g \in [SUBSET (1..n) -> V] /\ \A s \in SUBSET (1..0) : s = {} /\ g[s] = base
    BY <2>1
  <2>3. Has(0)
    BY <2>2
  <2> HIDE DEF Has
  <2> QED
    BY <2>3
<1>2. ASSUME NEW m \in Nat, m \in N PROVE m + 1 \in N
  <2>0. SUFFICES ASSUME m + 1 <= n PROVE Has(m + 1)
    <3> HIDE DEF Has
    <3> QED
      OBVIOUS
  <2>9. Has(m)
    <3> HIDE DEF Has
    <3> QED
      BY <1>2, <2>0
  <2>1. PICK g \in [SUBSET (1..n) -> V] : \A s \in SUBSET (1..m) : g[s] = Next1(g, s)
    BY <2>9
  <2>2. PICK f : f = [s \in SUBSET (1..n) |->
                        IF s \in SUBSET (1..m) \/ s \notin SUBSET (1..(m + 1)) THEN g[s] ELSE Next1(g, s)]
    OBVIOUS
  <2>3. ASSUME NEW s \in SUBSET (1..(m + 1)), s \notin SUBSET (1..m)
        PROVE  m + 1 \in s /\ Max(s) = m + 1 /\ s \ {m + 1} \in SUBSET (1..m)
    <3>1. \A i \in 1..(m + 1) : i = m + 1 \/ i \in 1..m
      OBVIOUS
    <3>2. m + 1 \in s /\ s \ {m + 1} \in SUBSET (1..m)
      BY <2>3, <3>1
    <3>3. s \subseteq 1..(m + 1) /\ m + 1 \in Nat
      BY <2>3
    <3>4. Max(s) = m + 1
      BY ONLY <3>2, <3>3, GreatestOf
    <3> QED
      BY <3>2, <3>4
  <2>4. SUBSET (1..m) \subseteq SUBSET (1..n) /\ SUBSET (1..(m + 1)) \subseteq SUBSET (1..n)
    <3>1. 1..m \subseteq 1..n /\ 1..(m + 1) \subseteq 1..n
      BY <2>0
    <3> QED
      BY <3>1
  <2>5. ASSUME NEW s \in SUBSET (1..n) PROVE f[s] \in V
    <3>1. CASE s \in SUBSET (1..m) \/ s \notin SUBSET (1..(m + 1))
      BY <2>1, <2>2, <3>1
    <3>2. CASE ~(s \in SUBSET (1..m) \/ s \notin SUBSET (1..(m + 1)))
      <4>1. f[s] = Next1(g, s)
        BY <2>2, <3>2
      <4>2. s # {} /\ m + 1 \in 1..n /\ s \ {m + 1} \in SUBSET (1..n) /\ Max(s) = m + 1
        BY <2>3, <2>4, <2>0, <3>2
      <4>3. g[s \ {m + 1}] \in V
        BY <2>1, <4>2
      <4> QED
        BY <4>1, <4>2, <4>3
    <3> QED
      BY <3>1, <3>2
  <2>6. ASSUME NEW s \in SUBSET (1..(m + 1)) PROVE f[s] = Next1(f, s)
    <3>1. CASE s \in SUBSET (1..m)
      <4>1. s \ {Max(s)} \in SUBSET (1..m)
        BY <3>1
      <4>2. f[s] = g[s] /\ f[s \ {Max(s)}] = g[s \ {Max(s)}]
        BY <3>1, <4>1, <2>2, <2>4
      <4> QED
        BY <3>1, <4>2, <2>1
    <3>2. CASE s \notin SUBSET (1..m)
      <4>1. Max(s) = m + 1 /\ s \ {m + 1} \in SUBSET (1..m) /\ s # {}
        BY <2>3, <3>2
      <4>2. f[s \ {m + 1}] = g[s \ {m + 1}]
        BY <4>1, <2>2, <2>4
      <4>3. f[s] = Next1(g, s)
        BY <3>2, <2>2, <2>4
      <4> QED
        BY <4>1, <4>2, <4>3
    <3> QED
      BY <3>1, <3>2
  <2>7. f \in [SUBSET (1..n) -> V]
    BY <2>2, <2>5
  <2> HIDE DEF Next1
  <2> QED
    BY <2>6, <2>7
<1> HIDE DEF N
<1>3. \A m \in Nat : m \in N
  BY <1>1, <1>2, EveryNumber
<1>4. Has(n)
  <2> HIDE DEF Has
  <2> QED
    BY <1>3 DEF N
<1> HIDE DEF N
<1> QED
  BY <1>4 DEF FoldedLeft

\* The first k numbers without the last one.
LEMMA PrefixIs ==
  ASSUME NEW n \in Nat, NEW k \in 1..n
  PROVE  1..k # {} /\ 1..k \in SUBSET (1..n) /\ (1..k) \ {k} = 1..(k - 1) /\ Max(1..k) = k
<1>1. k \in 1..k /\ 1..k \in SUBSET (1..n) /\ (1..k) \ {k} = 1..(k - 1) /\ k \in Nat
  OBVIOUS
<1>2. Max(1..k) = k
  BY <1>1, GreatestOf
<1> QED
  BY <1>1, <1>2

\* What a fold makes of the first k elements, k after k.
LEMMA FoldedInOrder ==
  ASSUME NEW n \in Nat, NEW g, NEW base, NEW step, FoldedLeft(g, base, step, n)
  PROVE  g[1..0] = base /\ \A k \in 1..n : g[1..k] = step[<<g[1..(k - 1)], k>>]
<1>1. g[1..0] = base
  <2>1. 1..0 = {} /\ 1..0 \in SUBSET (1..n)
    OBVIOUS
  <2> QED
    BY <2>1 DEF FoldedLeft
<1>2. ASSUME NEW k \in 1..n PROVE g[1..k] = step[<<g[1..(k - 1)], k>>]
  BY PrefixIs DEF FoldedLeft
<1> QED
  BY <1>1, <1>2

-----------------------------------------------------------------------------
(* Fractions                                                                     *)

Fraction == [n : Int, d : Nat \ {0}]
AtMost(a, b) == a.n * b.d <= b.n * a.d

LEMMA ProductsOrder ==
  ASSUME NEW x \in Int, NEW y \in Int, NEW k \in Nat \ {0}
  PROVE  x <= y <=> x * k <= y * k
<1>1. ASSUME NEW a \in Int, NEW b \in Int, a <= b PROVE a * k <= b * k
  <2>1. PICK c \in Nat : b = a + c
    <3>1. b - a \in Nat /\ b = a + (b - a)
      BY <1>1
    <3> QED
      BY <3>1
  <2>2. b * k = a * k + c * k /\ c * k \in Nat
    BY <2>1
  <2> QED
    BY <2>2
<1>2. ASSUME y < x PROVE y * k < x * k
  <2>1. y + 1 <= x
    BY <1>2
  <2>2. (y + 1) * k <= x * k /\ (y + 1) * k = y * k + k
    BY <1>1, <2>1
  <2> QED
    BY <2>2
<1> QED
  BY <1>1, <1>2

\* The order of fractions is total and transitive.
LEMMA AtMostTotal ==
  ASSUME NEW a \in Fraction, NEW b \in Fraction
  PROVE  AtMost(a, a) /\ (AtMost(a, b) \/ AtMost(b, a))
<1>1. a.n \in Int /\ a.d \in Int /\ b.n \in Int /\ b.d \in Int
  BY DEF Fraction
<1> QED
  BY <1>1 DEF AtMost

LEMMA AtMostTransitive ==
  ASSUME NEW a \in Fraction, NEW b \in Fraction, NEW c \in Fraction, AtMost(a, b), AtMost(b, c)
  PROVE  AtMost(a, c)
<1>1. PICK an, ad, bn, bd, cn, cd : an = a.n /\ ad = a.d /\ bn = b.n /\ bd = b.d /\ cn = c.n /\ cd = c.d
  OBVIOUS
<1>2. /\ an \in Int /\ bn \in Int /\ cn \in Int
      /\ ad \in Nat \ {0} /\ bd \in Nat \ {0} /\ cd \in Nat \ {0}
  BY <1>1 DEF Fraction
<1>3. an * bd <= bn * ad /\ bn * cd <= cn * bd
  BY <1>1 DEF AtMost
<1>4. (an * bd) * cd <= (bn * ad) * cd
  <2>1. an * bd \in Int /\ bn * ad \in Int
    BY <1>2
  <2> QED
    BY <1>2, <1>3, <2>1, ProductsOrder
<1>5. (bn * cd) * ad <= (cn * bd) * ad
  <2>1. bn * cd \in Int /\ cn * bd \in Int
    BY <1>2
  <2> QED
    BY <1>2, <1>3, <2>1, ProductsOrder
<1>6. /\ (an * bd) * cd = (an * cd) * bd /\ (bn * ad) * cd = (bn * cd) * ad
      /\ (cn * bd) * ad = (cn * ad) * bd
  BY ONLY <1>2
<1>7. an * cd \in Int /\ cn * ad \in Int /\ (an * cd) * bd \in Int /\ (cn * ad) * bd \in Int /\ (bn * cd) * ad \in Int
  BY ONLY <1>2
<1>8. (an * cd) * bd <= (cn * ad) * bd
  BY ONLY <1>4, <1>5, <1>6, <1>7
<1>9. an * cd <= cn * ad
  BY <1>2, <1>7, <1>8, ProductsOrder
<1> QED
  BY <1>1, <1>9 DEF AtMost

LEMMA LessIs == ASSUME NEW a \in Fraction, NEW b \in Fraction PROVE Less(a, b) <=> ~AtMost(b, a)
<1>1. a.n * b.d \in Int /\ b.n * a.d \in Int
  BY DEF Fraction
<1> QED
  BY <1>1 DEF Less, AtMost

\* What the comparisons of a rule say of the order.
LEMMA TriggersIs ==
  ASSUME NEW a \in Fraction, NEW r \in Fraction
  PROVE  /\ Triggers(a, ">", r) <=> ~AtMost(a, r)
         /\ Triggers(a, ">=", r) <=> AtMost(r, a)
         /\ Triggers(a, "<", r) <=> ~AtMost(r, a)
         /\ Triggers(a, "<=", r) <=> AtMost(a, r)
<1>1. PICK x \in Int, y \in Int : x = a.n * r.d /\ y = r.n * a.d
  <2>1. a.n * r.d \in Int /\ r.n * a.d \in Int
    BY DEF Fraction
  <2> QED
    BY <2>1
<1>2. /\ (Less(a, r) <=> x < y) /\ (Less(r, a) <=> y < x) /\ (SameValue(a, r) <=> x = y)
      /\ (AtMost(a, r) <=> x <= y) /\ (AtMost(r, a) <=> y <= x)
  BY <1>1 DEF Less, SameValue, AtMost
<1>3. /\ Triggers(a, ">", r) <=> Less(r, a)
      /\ Triggers(a, ">=", r) <=> Less(r, a) \/ SameValue(a, r)
      /\ Triggers(a, "<", r) <=> Less(a, r)
      /\ Triggers(a, "<=", r) <=> Less(a, r) \/ SameValue(a, r)
  BY DEF Triggers
<1>4. (~(x <= y) <=> y < x) /\ (y <= x <=> y < x \/ x = y) /\ (~(y <= x) <=> x < y) /\ (x <= y <=> x < y \/ x = y)
  OBVIOUS
<1> QED
  BY ONLY <1>2, <1>3, <1>4, Zenon

\* A larger number meets a bound from below when a smaller one does.
LEMMA TriggersMonotone ==
  ASSUME NEW a \in Fraction, NEW b \in Fraction, NEW r \in Fraction, AtMost(a, b), NEW op
  PROVE  /\ op \in {">", ">="} /\ Triggers(a, op, r) => Triggers(b, op, r)
         /\ op \in {"<", "<="} /\ Triggers(b, op, r) => Triggers(a, op, r)
<1>1. CASE op = ">"
  BY <1>1, TriggersIs, AtMostTransitive
<1>2. CASE op = ">="
  BY <1>2, TriggersIs, AtMostTransitive
<1>3. CASE op = "<"
  BY <1>3, TriggersIs, AtMostTransitive
<1>4. CASE op = "<="
  BY <1>4, TriggersIs, AtMostTransitive
<1> QED
  BY <1>1, <1>2, <1>3, <1>4

-----------------------------------------------------------------------------
(* The functions of the judge                                                    *)

\* max and min return a value of the window that none is above, none below.
LEMMA MaxIs ==
  ASSUME NEW n \in Nat \ {0}, NEW vs, DOMAIN vs = 1..n, \A i \in 1..n : vs[i].val \in Fraction
  PROVE  \E i \in 1..n : /\ Extreme(vs, LAMBDA a, b : Less(a, b)) = vs[i].val
                         /\ \A j \in 1..n : AtMost(vs[j].val, vs[i].val)
<1> DEFINE Iter(g) == g = [s \in SUBSET (1..n) |->
                           IF s = {} THEN vs[1].val
                           ELSE IF Less(g[s \ {Max(s)}], vs[Max(s)].val) THEN vs[Max(s)].val ELSE g[s \ {Max(s)}]]
<1>1. Extreme(vs, LAMBDA a, b : Less(a, b)) = (CHOOSE g : Iter(g))[1..n]
  BY DEF Extreme, FoldLeft, MapThenFoldSet
<1>2. PICK step : step = [p \in Fraction \X (1..n) |->
                            IF Less(p[1], vs[p[2]].val) THEN vs[p[2]].val ELSE p[1]]
  OBVIOUS
<1>3. PICK base : base = vs[1].val
  OBVIOUS
<1>4. \A a \in Fraction, i \in 1..n :
        step[<<a, i>>] = (IF Less(a, vs[i].val) THEN vs[i].val ELSE a) /\ step[<<a, i>>] \in Fraction
  BY <1>2
<1>5. base \in Fraction
  BY <1>3
<1>6. \A g \in [SUBSET (1..n) -> Fraction] : FoldedLeft(g, base, step, n) => Iter(g)
  <2> SUFFICES ASSUME NEW g \in [SUBSET (1..n) -> Fraction], FoldedLeft(g, base, step, n) PROVE Iter(g)
    OBVIOUS
  <2>1. ASSUME NEW s \in SUBSET (1..n)
        PROVE  g[s] = IF s = {} THEN vs[1].val
                      ELSE IF Less(g[s \ {Max(s)}], vs[Max(s)].val) THEN vs[Max(s)].val ELSE g[s \ {Max(s)}]
    <3>1. CASE s = {}
      BY <1>3, <3>1 DEF FoldedLeft
    <3>2. CASE s # {}
      <4>1. Max(s) \in 1..n /\ g[s \ {Max(s)}] \in Fraction
        BY <3>2, GreatestNumber
      <4>2. g[s] = step[<<g[s \ {Max(s)}], Max(s)>>]
        BY <3>2 DEF FoldedLeft
      <4> QED
        BY <1>4, <3>2, <4>1, <4>2
    <3> QED
      BY <3>1, <3>2
  <2> QED
    BY <2>1, Zenon
<1>7. \E g \in [SUBSET (1..n) -> Fraction] : FoldedLeft(g, base, step, n)
  BY <1>4, <1>5, FoldLeftIs
<1>8. \E g : Iter(g)
  <2> HIDE DEF Iter
  <2> QED
    BY <1>6, <1>7
<1>9. PICK g : g = CHOOSE h : Iter(h)
  OBVIOUS
<1>10. Iter(g)
  <2> HIDE DEF Iter
  <2> QED
    BY <1>8, <1>9
<1>11. Extreme(vs, LAMBDA a, b : Less(a, b)) = g[1..n]
  <2> HIDE DEF Iter
  <2> QED
    BY <1>1, <1>9, Zenon
<1>12. ASSUME NEW k \in 1..n
       PROVE  g[1..k] = IF Less(g[1..(k - 1)], vs[k].val) THEN vs[k].val ELSE g[1..(k - 1)]
  <2>1. k \in 1..k /\ 1..k # {} /\ 1..k \in SUBSET (1..n) /\ (1..k) \ {k} = 1..(k - 1) /\ k \in Nat
    OBVIOUS
  <2>2. Max(1..k) = k
    BY <2>1, GreatestOf
  <2> QED
    BY <1>10, <2>1, <2>2
<1>13. g[1..0] = vs[1].val
  <2>1. 1..0 = {} /\ 1..0 \in SUBSET (1..n)
    OBVIOUS
  <2> QED
    BY <1>10, <2>1
<1> HIDE DEF Iter
<1> DEFINE Best(k) == \E i \in 1..n : g[1..k] = vs[i].val /\ \A j \in 1..k : AtMost(vs[j].val, vs[i].val)
           N == {k \in Nat : k < n => Best(k + 1)}
<1>14. 0 \in N
  <2>1. 1 \in 1..n /\ 1 - 1 = 0 /\ 0 + 1 = 1 /\ \A j \in 1..1 : j = 1
    OBVIOUS
  <2>2. g[1..1] = vs[1].val
    BY <1>12, <1>13, <2>1
  <2>3. AtMost(vs[1].val, vs[1].val)
    BY <2>1, AtMostTotal
  <2>4. Best(1)
    BY <2>1, <2>2, <2>3
  <2> HIDE DEF Best
  <2> QED
    BY <2>1, <2>4
<1>15. ASSUME NEW m \in Nat, m \in N PROVE m + 1 \in N
  <2>1. SUFFICES ASSUME m + 1 < n PROVE Best(m + 2)
    <3>1. (m + 1) + 1 = m + 2
      OBVIOUS
    <3> HIDE DEF Best
    <3> QED
      BY <3>1
  <2>2. PICK k : k = m + 2
    OBVIOUS
  <2>3. k \in 1..n /\ k - 1 = m + 1 /\ k - 1 \in 1..n /\ k \in Nat
    BY <2>1, <2>2
  <2>4. Best(k - 1)
    <3>1. m < n
      BY <2>1
    <3> HIDE DEF Best
    <3> QED
      BY <1>15, <2>3, <3>1
  <2>5. PICK i \in 1..n : g[1..(k - 1)] = vs[i].val /\ \A j \in 1..(k - 1) : AtMost(vs[j].val, vs[i].val)
    BY <2>4
  <2>6. \A j \in 1..k : j \in 1..(k - 1) \/ j = k
    BY <2>3
  <2>7. CASE Less(g[1..(k - 1)], vs[k].val)
    <3>1. g[1..k] = vs[k].val
      BY <1>12, <2>3, <2>7
    <3>2. AtMost(vs[i].val, vs[k].val)
      BY <2>3, <2>5, <2>7, LessIs, AtMostTotal
    <3>3. ASSUME NEW j \in 1..k PROVE AtMost(vs[j].val, vs[k].val)
      <4>1. CASE j = k
        BY <4>1, <2>3, AtMostTotal
      <4>2. CASE j \in 1..(k - 1)
        <5>1. j \in 1..n
          BY <2>3, <4>2
        <5> QED
          BY <2>3, <2>5, <3>2, <4>2, <5>1, AtMostTransitive
      <4> QED
        BY <2>6, <4>1, <4>2
    <3> QED
      BY <2>2, <2>3, <3>1, <3>3
  <2>8. CASE ~Less(g[1..(k - 1)], vs[k].val)
    <3>1. g[1..k] = vs[i].val
      BY <1>12, <2>3, <2>5, <2>8
    <3>2. AtMost(vs[k].val, vs[i].val)
      BY <2>3, <2>5, <2>8, LessIs
    <3>3. ASSUME NEW j \in 1..k PROVE AtMost(vs[j].val, vs[i].val)
      BY <2>5, <2>6, <3>2
    <3> QED
      BY <2>2, <3>1, <3>3
  <2> QED
    BY <2>7, <2>8
<1> HIDE DEF N
<1>16. \A k \in Nat : k \in N
  BY <1>14, <1>15, EveryNumber
<1>17. Best(n)
  <2>1. n - 1 \in Nat /\ n - 1 < n /\ (n - 1) + 1 = n
    OBVIOUS
  <2> HIDE DEF Best
  <2> QED
    BY <1>16, <2>1 DEF N
<1> QED
  BY <1>11, <1>17

LEMMA MinIs ==
  ASSUME NEW n \in Nat \ {0}, NEW vs, DOMAIN vs = 1..n, \A i \in 1..n : vs[i].val \in Fraction
  PROVE  \E i \in 1..n : /\ Extreme(vs, LAMBDA a, b : Less(b, a)) = vs[i].val
                         /\ \A j \in 1..n : AtMost(vs[i].val, vs[j].val)
<1> DEFINE Iter(g) == g = [s \in SUBSET (1..n) |->
                           IF s = {} THEN vs[1].val
                           ELSE IF Less(vs[Max(s)].val, g[s \ {Max(s)}]) THEN vs[Max(s)].val ELSE g[s \ {Max(s)}]]
<1>1. Extreme(vs, LAMBDA a, b : Less(b, a)) = (CHOOSE g : Iter(g))[1..n]
  BY DEF Extreme, FoldLeft, MapThenFoldSet
<1>2. PICK step : step = [p \in Fraction \X (1..n) |->
                            IF Less(vs[p[2]].val, p[1]) THEN vs[p[2]].val ELSE p[1]]
  OBVIOUS
<1>3. PICK base : base = vs[1].val
  OBVIOUS
<1>4. \A a \in Fraction, i \in 1..n :
        step[<<a, i>>] = (IF Less(vs[i].val, a) THEN vs[i].val ELSE a) /\ step[<<a, i>>] \in Fraction
  BY <1>2
<1>5. base \in Fraction
  BY <1>3
<1>6. \A g \in [SUBSET (1..n) -> Fraction] : FoldedLeft(g, base, step, n) => Iter(g)
  <2> SUFFICES ASSUME NEW g \in [SUBSET (1..n) -> Fraction], FoldedLeft(g, base, step, n) PROVE Iter(g)
    OBVIOUS
  <2>1. ASSUME NEW s \in SUBSET (1..n)
        PROVE  g[s] = IF s = {} THEN vs[1].val
                      ELSE IF Less(vs[Max(s)].val, g[s \ {Max(s)}]) THEN vs[Max(s)].val ELSE g[s \ {Max(s)}]
    <3>1. CASE s = {}
      BY <1>3, <3>1 DEF FoldedLeft
    <3>2. CASE s # {}
      <4>1. Max(s) \in 1..n /\ g[s \ {Max(s)}] \in Fraction
        BY <3>2, GreatestNumber
      <4>2. g[s] = step[<<g[s \ {Max(s)}], Max(s)>>]
        BY <3>2 DEF FoldedLeft
      <4> QED
        BY <1>4, <3>2, <4>1, <4>2
    <3> QED
      BY <3>1, <3>2
  <2> QED
    BY <2>1, Zenon
<1>7. \E g \in [SUBSET (1..n) -> Fraction] : FoldedLeft(g, base, step, n)
  BY <1>4, <1>5, FoldLeftIs
<1>8. \E g : Iter(g)
  <2> HIDE DEF Iter
  <2> QED
    BY <1>6, <1>7
<1>9. PICK g : g = CHOOSE h : Iter(h)
  OBVIOUS
<1>10. Iter(g)
  <2> HIDE DEF Iter
  <2> QED
    BY <1>8, <1>9
<1>11. Extreme(vs, LAMBDA a, b : Less(b, a)) = g[1..n]
  <2> HIDE DEF Iter
  <2> QED
    BY <1>1, <1>9, Zenon
<1>12. ASSUME NEW k \in 1..n
       PROVE  g[1..k] = IF Less(vs[k].val, g[1..(k - 1)]) THEN vs[k].val ELSE g[1..(k - 1)]
  <2>1. k \in 1..k /\ 1..k # {} /\ 1..k \in SUBSET (1..n) /\ (1..k) \ {k} = 1..(k - 1) /\ k \in Nat
    OBVIOUS
  <2>2. Max(1..k) = k
    BY <2>1, GreatestOf
  <2> QED
    BY <1>10, <2>1, <2>2
<1>13. g[1..0] = vs[1].val
  <2>1. 1..0 = {} /\ 1..0 \in SUBSET (1..n)
    OBVIOUS
  <2> QED
    BY <1>10, <2>1
<1> HIDE DEF Iter
<1> DEFINE Best(k) == \E i \in 1..n : g[1..k] = vs[i].val /\ \A j \in 1..k : AtMost(vs[i].val, vs[j].val)
           N == {k \in Nat : k < n => Best(k + 1)}
<1>14. 0 \in N
  <2>1. 1 \in 1..n /\ 1 - 1 = 0 /\ 0 + 1 = 1 /\ \A j \in 1..1 : j = 1
    OBVIOUS
  <2>2. g[1..1] = vs[1].val
    BY <1>12, <1>13, <2>1
  <2>3. AtMost(vs[1].val, vs[1].val)
    BY <2>1, AtMostTotal
  <2>4. Best(1)
    BY <2>1, <2>2, <2>3
  <2> HIDE DEF Best
  <2> QED
    BY <2>1, <2>4
<1>15. ASSUME NEW m \in Nat, m \in N PROVE m + 1 \in N
  <2>1. SUFFICES ASSUME m + 1 < n PROVE Best(m + 2)
    <3>1. (m + 1) + 1 = m + 2
      OBVIOUS
    <3> HIDE DEF Best
    <3> QED
      BY <3>1
  <2>2. PICK k : k = m + 2
    OBVIOUS
  <2>3. k \in 1..n /\ k - 1 = m + 1 /\ k - 1 \in 1..n /\ k \in Nat
    BY <2>1, <2>2
  <2>4. Best(k - 1)
    <3>1. m < n
      BY <2>1
    <3> HIDE DEF Best
    <3> QED
      BY <1>15, <2>3, <3>1
  <2>5. PICK i \in 1..n : g[1..(k - 1)] = vs[i].val /\ \A j \in 1..(k - 1) : AtMost(vs[i].val, vs[j].val)
    BY <2>4
  <2>6. \A j \in 1..k : j \in 1..(k - 1) \/ j = k
    BY <2>3
  <2>7. CASE Less(vs[k].val, g[1..(k - 1)])
    <3>1. g[1..k] = vs[k].val
      BY <1>12, <2>3, <2>7
    <3>2. AtMost(vs[k].val, vs[i].val)
      BY <2>3, <2>5, <2>7, LessIs, AtMostTotal
    <3>3. ASSUME NEW j \in 1..k PROVE AtMost(vs[k].val, vs[j].val)
      <4>1. CASE j = k
        BY <4>1, <2>3, AtMostTotal
      <4>2. CASE j \in 1..(k - 1)
        <5>1. j \in 1..n
          BY <2>3, <4>2
        <5> QED
          BY <2>3, <2>5, <3>2, <4>2, <5>1, AtMostTransitive
      <4> QED
        BY <2>6, <4>1, <4>2
    <3> QED
      BY <2>2, <2>3, <3>1, <3>3
  <2>8. CASE ~Less(vs[k].val, g[1..(k - 1)])
    <3>1. g[1..k] = vs[i].val
      BY <1>12, <2>3, <2>5, <2>8
    <3>2. AtMost(vs[i].val, vs[k].val)
      BY <2>3, <2>5, <2>8, LessIs
    <3>3. ASSUME NEW j \in 1..k PROVE AtMost(vs[i].val, vs[j].val)
      BY <2>5, <2>6, <3>2
    <3> QED
      BY <2>2, <3>1, <3>3
  <2> QED
    BY <2>7, <2>8
<1> HIDE DEF N
<1>16. \A k \in Nat : k \in N
  BY <1>14, <1>15, EveryNumber
<1>17. Best(n)
  <2>1. n - 1 \in Nat /\ n - 1 < n /\ (n - 1) + 1 = n
    OBVIOUS
  <2> HIDE DEF Best
  <2> QED
    BY <1>16, <2>1 DEF N
<1> QED
  BY <1>11, <1>17

\* What the functions of a rule return.
LEMMA ThresholdIs ==
  ASSUME NEW f, NEW vs
  PROVE  /\ f.fn = "max" => Compute(f, vs) = AtThreshold(Extreme(vs, LAMBDA a, b : Less(a, b)), f)
         /\ f.fn = "min" => Compute(f, vs) = AtThreshold(Extreme(vs, LAMBDA a, b : Less(b, a)), f)
         /\ f.fn \in {"max", "min", "sum", "avg"} => \E left : Compute(f, vs) = AtThreshold(left, f)
BY DEF Compute, Extreme, FoldLeft, MapThenFoldSet, Walk, SumOf

LEMMA CountedIs ==
  ASSUME NEW f, NEW vs
  PROVE  /\ f.fn = "all" => Compute(f, vs).triggered = (\A i \in DOMAIN vs : Triggers(vs[i].val, f.op, f.right))
         /\ f.fn = "lookup" => Compute(f, vs).triggered =
                                  (\E i \in 1..f.limit : HitsUpTo(vs, f, i) = f.num /\ f.num > 0)
BY DEF Compute, Extreme, FoldLeft, MapThenFoldSet, Walk, SumOf

LEMMA DiffIs ==
  ASSUME NEW f, NEW vs, f.fn = "diff"
  PROVE  Compute(f, vs) = Walk(vs, f.op, f.right, LAMBDA v : Minus(vs[1].val, v), LAMBDA v : FALSE)
BY DEF Compute, Extreme, FoldLeft, MapThenFoldSet, Walk, SumOf

\* diff shows the first difference that triggers, or the last one when none does.
LEMMA DiffDecides ==
  ASSUME NEW f, NEW vs, f.fn = "diff", NEW n \in Nat \ {0}, Len(vs) = n + 1
  PROVE  Compute(f, vs).triggered = Triggers(Compute(f, vs).left, f.op, f.right)
<1>1. PICK eligible : eligible = {i \in 2..Len(vs) : ~FALSE}
  OBVIOUS
<1>2. PICK hits : hits = {i \in eligible : Triggers(Minus(vs[1].val, vs[i].val), f.op, f.right)}
  OBVIOUS
<1>3. Compute(f, vs) = [left |-> IF eligible = {} THEN Frac(0, 1) ELSE Minus(vs[1].val, vs[StopAt(hits, eligible)].val),
                        triggered |-> hits # {}]
  BY <1>1, <1>2, DiffIs DEF Walk
<1>4. eligible \subseteq 1..(n + 1) /\ eligible \subseteq Nat /\ hits \subseteq Nat /\ hits \subseteq eligible
  BY <1>1, <1>2
<1>5. 2 \in eligible
  BY <1>1
<1>6. PICK stop : stop = StopAt(hits, eligible)
  OBVIOUS
<1>7. /\ Compute(f, vs).triggered = (hits # {})
      /\ Compute(f, vs).left = Minus(vs[1].val, vs[stop].val)
  BY <1>3, <1>5, <1>6
<1>8. CASE hits = {}
  <2>1. stop = Max(eligible)
    BY <1>6, <1>8 DEF StopAt
  <2>2. stop \in eligible
    <3>1. n + 1 \in Nat /\ eligible # {}
      BY <1>5
    <3>2. Max(eligible) \in eligible
      BY ONLY <3>1, <1>4, GreatestNumber
    <3> QED
      BY <2>1, <3>2
  <2>3. ~Triggers(Minus(vs[1].val, vs[stop].val), f.op, f.right)
    BY <1>2, <1>8, <2>2
  <2>4. Triggers(Minus(vs[1].val, vs[stop].val), f.op, f.right) \in BOOLEAN
    BY DEF Triggers
  <2> QED
    BY <1>7, <1>8, <2>3, <2>4
<1>9. CASE hits # {}
  <2>1. stop = Min(hits)
    BY <1>6, <1>9 DEF StopAt
  <2>2. stop \in hits
    BY <2>1, <1>4, <1>9, LeastNumber
  <2>3. Triggers(Minus(vs[1].val, vs[stop].val), f.op, f.right)
    BY <1>2, <2>2
  <2>4. Triggers(Minus(vs[1].val, vs[stop].val), f.op, f.right) \in BOOLEAN
    BY DEF Triggers
  <2> QED
    BY <1>7, <1>9, <2>3, <2>4
<1> QED
  BY <1>8, <1>9

\* The window of a function is there when the series is long enough.
LEMMA HistoryIs ==
  ASSUME SeriesTyped, NEW n \in Nat \ {0}, IsEnough(pts, type, n)
  PROVE  /\ DOMAIN HistoryData(pts, type, n) = 1..n /\ Len(HistoryData(pts, type, n)) = n
         /\ \A i \in 1..n : HistoryData(pts, type, n)[i].val \in Fraction
         /\ type = "COUNTER" => /\ n + 1 <= Len(pts)
                                /\ \A i \in 1..n : HistoryData(pts, type, n)[i].val =
                                      Frac(pts[i].val - pts[i + 1].val, pts[i].ts - pts[i + 1].ts)
<1>1. PICK vs : vs = HistoryData(pts, type, n)
  OBVIOUS
<1>2. PICK V : V = [ts : Int, val : Int]
  OBVIOUS
<1>3. PICK m \in Nat : m = Len(pts)
  BY DEF SeriesTyped
<1>4. \A i \in 1..m : pts[i] \in V
  <2>1. pts \in Seq(V)
    BY <1>2 DEF SeriesTyped
  <2> QED
    BY ONLY <1>3, <2>1
<1>5. \A i \in 1..m : pts[i].ts \in Int /\ pts[i].val \in Int
  BY <1>2, <1>4
<1>6. \A i \in 1..(m - 1) : pts[i + 1].ts < pts[i].ts
  BY <1>3 DEF SeriesTyped
<1>7. type \in {"GAUGE", "COUNTER"} /\ PointsNeeded(type, n) <= m
  BY <1>3 DEF SeriesTyped, IsEnough
<1>8. /\ DOMAIN vs = 1..n
      /\ \A i \in 1..n : vs[i].val = IF type = "GAUGE" THEN Frac(pts[i].val, 1)
                                     ELSE Frac(pts[i].val - pts[i + 1].val, pts[i].ts - pts[i + 1].ts)
  BY <1>1 DEF HistoryData
<1>9. Len(vs) = n
  BY <1>1, <1>8 DEF HistoryData
<1>10. CASE type = "GAUGE"
  <2>1. n <= m
    BY <1>7, <1>10 DEF PointsNeeded
  <2>2. ASSUME NEW i \in 1..n PROVE vs[i].val \in Fraction
    <3>1. i \in 1..m
      BY <2>1
    <3>2. pts[i].val \in Int /\ vs[i].val = Frac(pts[i].val, 1)
      BY <3>1, <1>5, <1>8, <1>10
    <3>3. 1 \in Nat \ {0}
      OBVIOUS
    <3> QED
      BY <3>2, <3>3 DEF Fraction, Frac
  <2> QED
    BY <1>1, <1>8, <1>9, <1>10, <2>2
<1>11. CASE type = "COUNTER"
  <2>1. n + 1 <= m
    BY <1>7, <1>11 DEF PointsNeeded
  <2>2. ASSUME NEW i \in 1..n
        PROVE  vs[i].val \in Fraction /\ vs[i].val = Frac(pts[i].val - pts[i + 1].val, pts[i].ts - pts[i + 1].ts)
    <3>1. i \in 1..m /\ i + 1 \in 1..m /\ i \in 1..(m - 1)
      BY <2>1
    <3>2. PICK a, b, s, t : a = pts[i].val /\ b = pts[i + 1].val /\ s = pts[i].ts /\ t = pts[i + 1].ts
      OBVIOUS
    <3>3. a \in Int /\ b \in Int /\ s \in Int /\ t \in Int /\ t < s
      BY <3>1, <3>2, <1>5, <1>6
    <3>4. a - b \in Int /\ s - t \in Nat \ {0}
      BY ONLY <3>3
    <3>5. vs[i].val = Frac(a - b, s - t)
      BY <1>8, <1>11, <3>2
    <3> QED
      BY <3>2, <3>4, <3>5 DEF Fraction, Frac
  <2> QED
    BY <1>1, <1>3, <1>8, <1>9, <2>1, <2>2
<1> QED
  BY <1>7, <1>10, <1>11

LEMMA ReportedDecides == ASSUME SeriesTyped PROVE ReportedValueDecides
<1>1. ASSUME NEW fn \in {"max", "min", "sum", "avg", "diff"}, NEW n \in Limits, NEW op, NEW right,
             NEW f, f = Function(fn, n, 0, op, right), Ready(f)
      PROVE  Compute(f, History(f)).triggered = Triggers(Compute(f, History(f)).left, op, f.right)
  <2>1. f.fn = fn /\ f.op = op /\ f.limit = n
    BY <1>1 DEF Function
  <2>2. CASE fn = "diff"
    <3>1. n \in Nat \ {0} /\ n + 1 \in Nat \ {0} /\ Limit(f) = n + 1
      BY <2>1, <2>2, InputAssumption DEF Limit
    <3>2. Len(History(f)) = n + 1
      BY <3>1, <1>1, HistoryIs DEF Ready, History
    <3> QED
      BY <2>1, <2>2, <3>1, <3>2, DiffDecides
  <2>3. CASE fn # "diff"
    <3>1. PICK left : Compute(f, History(f)) = AtThreshold(left, f)
      BY <2>1, <2>3, ThresholdIs
    <3> QED
      BY <2>1, <3>1 DEF AtThreshold
  <2> QED
    BY <2>2, <2>3
<1> QED
  BY <1>1 DEF ReportedValueDecides

\* How many of a set of numbers are among the first k.
UpTo(T, k) == Cardinality(T \cap (1..k))

LEMMA UpToIs ==
  ASSUME NEW n \in Nat, NEW T, T \subseteq 1..n
  PROVE  /\ UpTo(T, 0) = 0 /\ UpTo(T, n) = Cardinality(T) /\ Cardinality(T) \in Nat
         /\ \A k \in Nat : UpTo(T, k) \in Nat /\ UpTo(T, k) <= Cardinality(T)
         /\ \A k \in 1..n : UpTo(T, k) <= UpTo(T, k - 1) + 1
<1>1. IsFiniteSet(T)
  <2>1. IsFiniteSet(1..n) /\ T \in SUBSET (1..n)
    BY FS_Interval
  <2> QED
    BY <2>1, FS_Subset
<1>2. \A k \in Nat : IsFiniteSet(T \cap (1..k)) /\ UpTo(T, k) \in Nat /\ UpTo(T, k) <= Cardinality(T)
  <2>1. ASSUME NEW k \in Nat PROVE T \cap (1..k) \in SUBSET T
    OBVIOUS
  <2> QED
    BY <1>1, <2>1, FS_Subset, FS_CardinalityType DEF UpTo
<1>3. T \cap (1..0) = {} /\ T \cap (1..n) = T
  <2>1. 1..0 = {}
    OBVIOUS
  <2>2. \A i \in T : i \in 1..n
    OBVIOUS
  <2> QED
    BY <2>1, <2>2, Zenon
<1>4. UpTo(T, 0) = 0 /\ UpTo(T, n) = Cardinality(T) /\ Cardinality(T) \in Nat
  BY <1>1, <1>3, FS_EmptySet, FS_CardinalityType DEF UpTo
<1>5. ASSUME NEW k \in 1..n PROVE UpTo(T, k) <= UpTo(T, k - 1) + 1
  <2>1. PICK A, B : A = T \cap (1..k) /\ B = T \cap (1..(k - 1))
    OBVIOUS
  <2>2. B = A \ {k}
    BY <2>1
  <2>3. IsFiniteSet(A) /\ Cardinality(A) \in Nat /\ Cardinality(B) \in Nat
    BY <1>2, <2>1, FS_CardinalityType DEF UpTo
  <2>4. Cardinality(B) = IF k \in A THEN Cardinality(A) - 1 ELSE Cardinality(A)
    BY <2>2, <2>3, FS_RemoveElement
  <2>5. Cardinality(A) <= Cardinality(B) + 1
    BY <2>3, <2>4
  <2> QED
    BY <2>1, <2>5 DEF UpTo
<1> QED
  BY <1>2, <1>4, <1>5

\* Counting along, one passes every number up to the last.
LEMMA CountPasses ==
  ASSUME NEW n \in Nat, NEW T, T \subseteq 1..n, NEW m \in Nat \ {0}
  PROVE  (\E i \in 1..n : UpTo(T, i) = m) <=> m <= Cardinality(T)
<1>0. /\ UpTo(T, 0) = 0 /\ UpTo(T, n) = Cardinality(T) /\ Cardinality(T) \in Nat
      /\ \A k \in Nat : UpTo(T, k) \in Nat /\ UpTo(T, k) <= Cardinality(T)
      /\ \A k \in 1..n : UpTo(T, k) <= UpTo(T, k - 1) + 1
  BY UpToIs, Zenon
<1>1. ASSUME m <= Cardinality(T) PROVE \E i \in 1..n : UpTo(T, i) = m
  <2> DEFINE D == {i \in Nat : i <= n /\ m <= UpTo(T, i)}
  <2>1. n \in D
    BY <1>1, <1>0
  <2>2. Min(D) \in D /\ \A y \in D : Min(D) <= y
    BY <2>1, LeastNumber
  <2>3. PICK i \in D : \A y \in D : i <= y
    BY <2>2
  <2>4. i # 0
    BY <2>3, <1>0
  <2>5. i \in 1..n /\ i - 1 \in Nat /\ i - 1 \notin D
    BY <2>3, <2>4
  <2>6. UpTo(T, i) <= UpTo(T, i - 1) + 1 /\ UpTo(T, i) \in Nat /\ UpTo(T, i - 1) \in Nat
    BY <2>5, <1>0
  <2>7. m <= UpTo(T, i) /\ ~(m <= UpTo(T, i - 1))
    BY <2>3, <2>5
  <2>8. UpTo(T, i) = m
    BY <2>6, <2>7
  <2> QED
    BY <2>5, <2>8
<1>2. ASSUME NEW i \in 1..n, UpTo(T, i) = m PROVE m <= Cardinality(T)
  BY <1>2, <1>0
<1> QED
  BY <1>1, <1>2

\* The points of a window that meet a condition.
Hits(vs, op, right, n) == {j \in 1..n : Triggers(vs[j].val, op, right)}

\* lookup(#k,#n) triggers when at least k of the n points do.
LEMMA LookupIs ==
  ASSUME NEW n \in Nat \ {0}, NEW k \in Nat \ {0}, NEW op, NEW right, NEW f, NEW vs,
         f = Function("lookup", n, k, op, right)
  PROVE  Compute(f, vs).triggered = (k <= Cardinality(Hits(vs, op, Frac(right, 1), n)))
<1>1. f.fn = "lookup" /\ f.limit = n /\ f.num = k /\ f.op = op /\ f.right = Frac(right, 1)
  BY DEF Function
<1>2. PICK T : T = Hits(vs, op, Frac(right, 1), n)
  OBVIOUS
<1>3. T \subseteq 1..n
  BY <1>2 DEF Hits
<1>4. ASSUME NEW i \in 1..n PROVE HitsUpTo(vs, f, i) = UpTo(T, i)
  <2>1. {j \in 1..i : Triggers(vs[j].val, op, Frac(right, 1))} = T \cap (1..i)
    BY <1>2 DEF Hits
  <2> QED
    BY <1>1, <2>1 DEF HitsUpTo, UpTo
<1>5. Compute(f, vs).triggered = (\E i \in 1..n : HitsUpTo(vs, f, i) = k /\ k > 0)
  BY <1>1, CountedIs
<1>6. (\E i \in 1..n : HitsUpTo(vs, f, i) = k /\ k > 0) <=> (\E i \in 1..n : UpTo(T, i) = k)
  BY <1>4
<1>7. (\E i \in 1..n : UpTo(T, i) = k) <=> k <= Cardinality(T)
  BY <1>3, CountPasses
<1>8. (k <= Cardinality(T)) \in BOOLEAN
  OBVIOUS
<1> QED
  BY <1>2, <1>5, <1>6, <1>7, <1>8

\* All points meet a condition when as many as there are do, one does when at least one does.
LEMMA HitsAre ==
  ASSUME NEW n \in Nat \ {0}, NEW op, NEW right, NEW vs
  PROVE  /\ n <= Cardinality(Hits(vs, op, right, n)) <=> \A i \in 1..n : Triggers(vs[i].val, op, right)
         /\ 1 <= Cardinality(Hits(vs, op, right, n)) <=> \E i \in 1..n : Triggers(vs[i].val, op, right)
         /\ Cardinality(Hits(vs, op, right, n)) \in Nat
<1>1. PICK T : T = Hits(vs, op, right, n)
  OBVIOUS
<1>2. T \in SUBSET (1..n)
  BY <1>1 DEF Hits
<1>3. IsFiniteSet(1..n) /\ Cardinality(1..n) = n
  BY FS_Interval
<1>4. IsFiniteSet(T) /\ Cardinality(T) <= n /\ (n = Cardinality(T) => 1..n = T) /\ Cardinality(T) \in Nat
  <2>1. PICK S : S = 1..n
    OBVIOUS
  <2>2. IsFiniteSet(S) /\ T \in SUBSET S /\ Cardinality(S) = n
    BY <1>2, <1>3, <2>1
  <2>3. IsFiniteSet(T) /\ Cardinality(T) <= Cardinality(S) /\ (Cardinality(S) = Cardinality(T) => S = T)
    BY ONLY <2>2, FS_Subset
  <2>4. Cardinality(T) \in Nat
    BY <2>3, FS_CardinalityType
  <2> QED
    BY <2>1, <2>2, <2>3, <2>4
<1>5. n <= Cardinality(T) <=> T = 1..n
  BY <1>3, <1>4
<1>6. 1 <= Cardinality(T) <=> T # {}
  BY <1>4, FS_EmptySet
<1>7. T = 1..n <=> \A i \in 1..n : Triggers(vs[i].val, op, right)
  BY <1>1 DEF Hits
<1>8. T # {} <=> \E i \in 1..n : Triggers(vs[i].val, op, right)
  BY <1>1 DEF Hits
<1> QED
  BY <1>1, <1>4, <1>5, <1>6, <1>7, <1>8

\* What max and min decide about the points of a window.
LEMMA ExtremesDecide ==
  ASSUME NEW n \in Nat \ {0}, NEW vs, DOMAIN vs = 1..n, \A i \in 1..n : vs[i].val \in Fraction,
         NEW op, NEW right \in Int, NEW f, NEW h,
         f = Function("max", n, 0, op, right), h = Function("min", n, 0, op, right)
  PROVE  /\ op \in {">", ">="} =>
              /\ Compute(f, vs).triggered <=> \E i \in 1..n : Triggers(vs[i].val, op, Frac(right, 1))
              /\ Compute(h, vs).triggered <=> \A i \in 1..n : Triggers(vs[i].val, op, Frac(right, 1))
         /\ op \in {"<", "<="} =>
              /\ Compute(h, vs).triggered <=> \E i \in 1..n : Triggers(vs[i].val, op, Frac(right, 1))
              /\ Compute(f, vs).triggered <=> \A i \in 1..n : Triggers(vs[i].val, op, Frac(right, 1))
<1>1. /\ f.fn = "max" /\ f.op = op /\ f.right = Frac(right, 1)
      /\ h.fn = "min" /\ h.op = op /\ h.right = Frac(right, 1)
  BY DEF Function
<1>2. PICK r \in Fraction : r = Frac(right, 1)
  <2>1. 1 \in Nat \ {0}
    OBVIOUS
  <2>2. Frac(right, 1) \in Fraction
    BY <2>1 DEF Frac, Fraction
  <2> QED
    BY <2>2
<1>3. PICK i \in 1..n : /\ Extreme(vs, LAMBDA a, b : Less(a, b)) = vs[i].val
                        /\ \A j \in 1..n : AtMost(vs[j].val, vs[i].val)
  BY MaxIs, Zenon
<1>4. PICK k \in 1..n : /\ Extreme(vs, LAMBDA a, b : Less(b, a)) = vs[k].val
                        /\ \A j \in 1..n : AtMost(vs[k].val, vs[j].val)
  BY MinIs, Zenon
<1>5. Compute(f, vs) = AtThreshold(vs[i].val, f)
  BY <1>1, <1>3, ThresholdIs, Zenon
<1>6. Compute(h, vs) = AtThreshold(vs[k].val, h)
  BY <1>1, <1>4, ThresholdIs, Zenon
<1>7. Compute(f, vs).triggered = Triggers(vs[i].val, op, r) /\ Compute(h, vs).triggered = Triggers(vs[k].val, op, r)
  BY <1>1, <1>2, <1>5, <1>6 DEF AtThreshold
<1>8. \A j \in 1..n : AtMost(vs[j].val, vs[i].val) /\ AtMost(vs[k].val, vs[j].val)
  BY <1>3, <1>4
<1>9. ASSUME op \in {">", ">="}, NEW j \in 1..n
      PROVE  (Triggers(vs[j].val, op, r) => Triggers(vs[i].val, op, r)) /\ (Triggers(vs[k].val, op, r) => Triggers(vs[j].val, op, r))
  BY <1>8, <1>9, TriggersMonotone
<1>10. ASSUME op \in {"<", "<="}, NEW j \in 1..n
      PROVE  (Triggers(vs[i].val, op, r) => Triggers(vs[j].val, op, r)) /\ (Triggers(vs[j].val, op, r) => Triggers(vs[k].val, op, r))
  BY <1>8, <1>10, TriggersMonotone
<1>11. (Compute(f, vs).triggered <=> Triggers(vs[i].val, op, r)) /\ (Compute(h, vs).triggered <=> Triggers(vs[k].val, op, r))
  BY <1>7
<1>12. ASSUME op \in {">", ">="}
       PROVE  /\ Compute(f, vs).triggered <=> \E j \in 1..n : Triggers(vs[j].val, op, r)
              /\ Compute(h, vs).triggered <=> \A j \in 1..n : Triggers(vs[j].val, op, r)
  BY <1>9, <1>11, <1>12
<1>13. ASSUME op \in {"<", "<="}
       PROVE  /\ Compute(h, vs).triggered <=> \E j \in 1..n : Triggers(vs[j].val, op, r)
              /\ Compute(f, vs).triggered <=> \A j \in 1..n : Triggers(vs[j].val, op, r)
  BY <1>10, <1>11, <1>13
<1> QED
  BY <1>2, <1>12, <1>13

LEMMA LookupsAgree == ASSUME SeriesTyped PROVE LookupAgrees
<1>1. ASSUME NEW n \in Limits, NEW op, NEW right \in Numbers, NEW all, all = Function("all", n, 0, op, right), Ready(all),
             NEW vs, vs = History(all),
             NEW has, has = [k \in Nat |-> Compute(Function("lookup", n, k, op, right), vs).triggered],
             NEW max, max = Compute(Function("max", n, 0, op, right), vs).triggered,
             NEW min, min = Compute(Function("min", n, 0, op, right), vs).triggered
      PROVE  /\ Compute(all, vs).triggered = has[n]
             /\ \A k \in 2..n : has[k] => has[k - 1]
             /\ op \in {">", ">="} => max = has[1] /\ min = has[n]
             /\ op \in {"<", "<="} => min = has[1] /\ max = has[n]
  <2>1. n \in Nat \ {0} /\ right \in Int
    BY InputAssumption
  <2>2. all.fn = "all" /\ all.op = op /\ all.right = Frac(right, 1) /\ all.limit = n /\ Limit(all) = n
    BY <1>1 DEF Function, Limit
  <2>3. DOMAIN vs = 1..n /\ \A i \in 1..n : vs[i].val \in Fraction
    BY <1>1, <2>1, <2>2, HistoryIs DEF Ready, History
  <2>4. PICK c : c = Cardinality(Hits(vs, op, Frac(right, 1), n))
    OBVIOUS
  <2>5. \A k \in Nat \ {0} : has[k] = (k <= c)
    BY <1>1, <2>1, <2>4, LookupIs
  <2>6. /\ n <= c <=> \A i \in 1..n : Triggers(vs[i].val, op, Frac(right, 1))
        /\ 1 <= c <=> \E i \in 1..n : Triggers(vs[i].val, op, Frac(right, 1))
        /\ c \in Nat
    BY <2>1, <2>4, HitsAre
  <2>7. Compute(all, vs).triggered = (\A i \in 1..n : Triggers(vs[i].val, op, Frac(right, 1)))
    BY <2>2, <2>3, CountedIs
  <2>8. ASSUME NEW k \in 2..n PROVE has[k] => has[k - 1]
    <3>1. k \in Nat \ {0} /\ k - 1 \in Nat \ {0}
      BY <2>1
    <3>2. has[k] = (k <= c) /\ has[k - 1] = (k - 1 <= c)
      BY <2>5, <3>1
    <3>3. k <= c => k - 1 <= c
      BY <2>6, <3>1
    <3> QED
      BY <3>2, <3>3
  <2>9. /\ max \in BOOLEAN /\ min \in BOOLEAN
    <3>1. ASSUME NEW fn \in {"max", "min"} PROVE Compute(Function(fn, n, 0, op, right), vs).triggered \in BOOLEAN
      <4>1. Function(fn, n, 0, op, right).fn = fn
        BY DEF Function
      <4>2. PICK left : Compute(Function(fn, n, 0, op, right), vs) = AtThreshold(left, Function(fn, n, 0, op, right))
        BY <4>1, ThresholdIs
      <4> QED
        <5>1. PICK h : h = Function(fn, n, 0, op, right)
          OBVIOUS
        <5>2. Compute(Function(fn, n, 0, op, right), vs).triggered = Triggers(left, h.op, h.right)
          BY <4>2, <5>1 DEF AtThreshold
        <5>3. Triggers(left, h.op, h.right) \in BOOLEAN
          BY DEF Triggers
        <5> QED
          BY <5>2, <5>3
    <3> QED
      BY <1>1, <3>1
  <2>10. /\ op \in {">", ">="} => (max <=> 1 <= c) /\ (min <=> n <= c)
         /\ op \in {"<", "<="} => (min <=> 1 <= c) /\ (max <=> n <= c)
    <3>1. PICK f, h : f = Function("max", n, 0, op, right) /\ h = Function("min", n, 0, op, right)
      OBVIOUS
    <3>2. max = Compute(f, vs).triggered /\ min = Compute(h, vs).triggered
      BY <1>1, <3>1
    <3>3. /\ op \in {">", ">="} =>
              /\ Compute(f, vs).triggered <=> \E i \in 1..n : Triggers(vs[i].val, op, Frac(right, 1))
              /\ Compute(h, vs).triggered <=> \A i \in 1..n : Triggers(vs[i].val, op, Frac(right, 1))
          /\ op \in {"<", "<="} =>
              /\ Compute(h, vs).triggered <=> \E i \in 1..n : Triggers(vs[i].val, op, Frac(right, 1))
              /\ Compute(f, vs).triggered <=> \A i \in 1..n : Triggers(vs[i].val, op, Frac(right, 1))
      BY ONLY <2>1, <2>3, <3>1, ExtremesDecide
    <3> QED
      BY <2>6, <3>2, <3>3
  <2>11. has[n] = (n <= c) /\ has[1] = (1 <= c)
    <3>1. 1 \in Nat \ {0}
      OBVIOUS
    <3> QED
      BY <2>1, <2>5, <3>1
  <2>12. Compute(all, vs).triggered = has[n]
    <3>1. (\A i \in 1..n : Triggers(vs[i].val, op, Frac(right, 1))) = (n <= c)
      <4>1. (n <= c) \in BOOLEAN
        OBVIOUS
      <4> QED
        BY <2>6, <4>1
    <3> QED
      BY <2>7, <2>11, <3>1
  <2>13. (1 <= c) \in BOOLEAN /\ (n <= c) \in BOOLEAN
    OBVIOUS
  <2> QED
    BY <2>8, <2>9, <2>10, <2>11, <2>12, <2>13
<1>2. ASSUME NEW n \in Limits, NEW op, NEW right \in Numbers, NEW all, all = Function("all", n, 0, op, right), Ready(all),
             NEW vs, vs = History(all)
      PROVE  /\ Compute(all, vs).triggered = Compute(Function("lookup", n, n, op, right), vs).triggered
             /\ \A k \in 2..n : Compute(Function("lookup", n, k, op, right), vs).triggered =>
                                  Compute(Function("lookup", n, k - 1, op, right), vs).triggered
             /\ op \in {">", ">="} =>
                  /\ Compute(Function("max", n, 0, op, right), vs).triggered = Compute(Function("lookup", n, 1, op, right), vs).triggered
                  /\ Compute(Function("min", n, 0, op, right), vs).triggered = Compute(Function("lookup", n, n, op, right), vs).triggered
             /\ op \in {"<", "<="} =>
                  /\ Compute(Function("min", n, 0, op, right), vs).triggered = Compute(Function("lookup", n, 1, op, right), vs).triggered
                  /\ Compute(Function("max", n, 0, op, right), vs).triggered = Compute(Function("lookup", n, n, op, right), vs).triggered
  <2>1. PICK has : has = [k \in Nat |-> Compute(Function("lookup", n, k, op, right), vs).triggered]
    OBVIOUS
  <2>2. PICK max, min : /\ max = Compute(Function("max", n, 0, op, right), vs).triggered
                        /\ min = Compute(Function("min", n, 0, op, right), vs).triggered
    OBVIOUS
  <2>3. /\ Compute(all, vs).triggered = has[n]
        /\ \A k \in 2..n : has[k] => has[k - 1]
        /\ op \in {">", ">="} => max = has[1] /\ min = has[n]
        /\ op \in {"<", "<="} => min = has[1] /\ max = has[n]
    BY <1>1, <1>2, <2>1, <2>2
  <2>4. n \in Nat /\ 1 \in Nat /\ \A k \in 2..n : k \in Nat /\ k - 1 \in Nat
    BY InputAssumption
  <2>5. \A k \in Nat : has[k] = Compute(Function("lookup", n, k, op, right), vs).triggered
    BY <2>1
  <2> QED
    BY <2>2, <2>3, <2>4, <2>5
<1> QED
  BY <1>2 DEF LookupAgrees

\* A fraction of another denominator added to one.
LEMMA PlusIs ==
  ASSUME NEW a \in Fraction, NEW b \in Fraction
  PROVE  Plus(a, b) \in Fraction
<1>1. PICK an, ad, bn, bd : an = a.n /\ ad = a.d /\ bn = b.n /\ bd = b.d
  OBVIOUS
<1>2. an \in Int /\ ad \in Nat \ {0} /\ bn \in Int /\ bd \in Nat \ {0}
  BY <1>1 DEF Fraction
<1>3. ad * bd \in Nat \ {0} /\ an * bd + bn * ad \in Int
  <2>1. /\ ad \in Int /\ ad >= 1 /\ bd \in Int /\ bd >= 1 /\ ad * bd \in Int
        /\ an * bd \in Int /\ bn * ad \in Int
    BY ONLY <1>2
  <2>2. 1 * bd <= ad * bd
    BY <1>2, <2>1, ProductsOrder
  <2> QED
    BY <2>1, <2>2
<1> QED
  BY <1>1, <1>3 DEF Plus, Frac, Fraction

\* From v to w over a time of d, added to a rise of u - v, is a rise of u - w.
LEMMA RiseAdds ==
  ASSUME NEW n \in Int, NEW m \in Nat \ {0}, NEW u \in Int, NEW v \in Int, NEW w \in Int, NEW d \in Nat \ {0},
         n = (u - v) * m
  PROVE  n * d + ((v - w) * d) * m = (u - w) * (m * d)
OBVIOUS

\* The sum RatesAddUp is about, one step after the other.
Seq1(n) == [i \in 1..n |-> i]
Rate(n, i) ==
  Frac(History(Function("sum", n, 0, ">", 0))[i].val.n * Frac(pts[i].ts - pts[i + 1].ts, 1).n,
       History(Function("sum", n, 0, ">", 0))[i].val.d)
Adding(g, n) ==
  g = [s \in SUBSET DOMAIN Seq1(n) |->
         IF s = {} THEN Frac(0, 1) ELSE Plus(g[s \ {Max(s)}], Rate(n, Seq1(n)[Max(s)]))]

LEMMA RatesUnfold ==
  ASSUME \A n \in Limits : type = "COUNTER" /\ Ready(Function("sum", n, 0, ">", 0)) =>
           SameValue((CHOOSE g : Adding(g, n))[DOMAIN Seq1(n)], Frac(pts[1].val - pts[n + 1].val, 1))
  PROVE  RatesAddUp
BY DEF RatesAddUp, FoldLeft, MapThenFoldSet, Adding, Seq1, Rate

\* The rate up to a point is its rise over its time.
LEMMA RateIs ==
  ASSUME SeriesTyped, type = "COUNTER", NEW n \in Limits, Ready(Function("sum", n, 0, ">", 0)), NEW i \in 1..n
  PROVE  \E r \in Nat \ {0} : Rate(n, i) = [n |-> (pts[i].val - pts[i + 1].val) * r, d |-> r]
<1>1. PICK f : f = Function("sum", n, 0, ">", 0)
  OBVIOUS
<1>2. Limit(f) = n /\ n \in Nat \ {0}
  BY <1>1, InputAssumption DEF Function, Limit
<1>3. /\ n + 1 <= Len(pts) /\ Len(pts) \in Nat
      /\ History(f)[i].val = Frac(pts[i].val - pts[i + 1].val, pts[i].ts - pts[i + 1].ts)
      /\ History(f)[i].val \in Fraction
  <2>1. IsEnough(pts, type, n) /\ History(f) = HistoryData(pts, type, n)
    BY <1>1, <1>2 DEF Ready, History
  <2>2. Len(pts) \in Nat
    BY DEF SeriesTyped
  <2> QED
    BY <1>2, <2>1, <2>2, HistoryIs
<1>4. PICK r : r = pts[i].ts - pts[i + 1].ts
  OBVIOUS
<1>5. r \in Nat \ {0}
  BY <1>3, <1>4 DEF Frac, Fraction
<1>6. Rate(n, i) = [n |-> (pts[i].val - pts[i + 1].val) * r, d |-> r]
  BY <1>1, <1>3, <1>4 DEF Rate, Frac
<1> QED
  BY <1>5, <1>6

LEMMA RatesDoAddUp == ASSUME SeriesTyped PROVE RatesAddUp
<1> SUFFICES ASSUME NEW n \in Limits, type = "COUNTER", Ready(Function("sum", n, 0, ">", 0))
             PROVE  SameValue((CHOOSE g : Adding(g, n))[DOMAIN Seq1(n)], Frac(pts[1].val - pts[n + 1].val, 1))
  BY RatesUnfold
<1>1. n \in Nat \ {0} /\ DOMAIN Seq1(n) = 1..n /\ \A i \in 1..n : Seq1(n)[i] = i
  BY InputAssumption DEF Seq1
<1>2. \A i \in 1..n : \E r \in Nat \ {0} : Rate(n, i) = [n |-> (pts[i].val - pts[i + 1].val) * r, d |-> r]
  BY RateIs
<1>3. /\ n + 1 <= Len(pts) /\ \A i \in 1..(n + 1) : pts[i].val \in Int
  <2>1. PICK f : f = Function("sum", n, 0, ">", 0)
    OBVIOUS
  <2>2. Limit(f) = n
    BY <2>1 DEF Function, Limit
  <2>3. n + 1 <= Len(pts)
    BY <1>1, <2>1, <2>2, HistoryIs DEF Ready
  <2>4. PICK V : V = [ts : Int, val : Int]
    OBVIOUS
  <2>5. pts \in Seq(V)
    BY <2>4 DEF SeriesTyped
  <2>6. \A i \in 1..(n + 1) : pts[i] \in V
    BY ONLY <1>1, <2>3, <2>5
  <2> QED
    BY <2>3, <2>4, <2>6
<1>4. ASSUME NEW i \in 1..n PROVE Rate(n, i) \in Fraction
  <2>1. PICK r \in Nat \ {0} : Rate(n, i) = [n |-> (pts[i].val - pts[i + 1].val) * r, d |-> r]
    BY <1>2
  <2>2. PICK u \in Int, v \in Int : u = pts[i].val /\ v = pts[i + 1].val
    <3>1. i \in 1..(n + 1) /\ i + 1 \in 1..(n + 1)
      BY <1>1
    <3> QED
      BY <1>3, <3>1
  <2>3. (u - v) * r \in Int
    OBVIOUS
  <2> QED
    BY <2>1, <2>2, <2>3 DEF Fraction
<1>5. PICK base : base = Frac(0, 1)
  OBVIOUS
<1>6. base \in Fraction /\ base.n = 0 /\ base.d = 1
  BY <1>5 DEF Frac, Fraction
<1>7. PICK step : step = [p \in Fraction \X (1..n) |-> Plus(p[1], Rate(n, p[2]))]
  OBVIOUS
<1>8. ASSUME NEW a \in Fraction, NEW i \in 1..n
      PROVE  step[<<a, i>>] = Plus(a, Rate(n, i)) /\ step[<<a, i>>] \in Fraction
  <2>1. step[<<a, i>>] = Plus(a, Rate(n, i))
    BY <1>7
  <2> QED
    BY <1>4, <2>1, PlusIs
<1>9. PICK f \in [SUBSET (1..n) -> Fraction] : FoldedLeft(f, base, step, n)
  BY <1>1, <1>6, <1>8, FoldLeftIs
<1>10. Adding(f, n)
  <2>1. ASSUME NEW s \in SUBSET (1..n)
        PROVE  f[s] = IF s = {} THEN Frac(0, 1) ELSE Plus(f[s \ {Max(s)}], Rate(n, Seq1(n)[Max(s)]))
    <3>1. CASE s = {}
      BY <1>5, <1>9, <3>1 DEF FoldedLeft
    <3>2. CASE s # {}
      <4>1. Max(s) \in 1..n /\ f[s \ {Max(s)}] \in Fraction
        BY <1>1, <1>9, <3>2, GreatestNumber
      <4>2. f[s] = step[<<f[s \ {Max(s)}], Max(s)>>]
        BY <1>9, <3>2 DEF FoldedLeft
      <4>3. f[s] = Plus(f[s \ {Max(s)}], Rate(n, Max(s)))
        BY <1>8, <4>1, <4>2
      <4> QED
        BY <1>1, <3>2, <4>1, <4>3
    <3> QED
      BY <3>1, <3>2
  <2> QED
    BY <1>1, <1>9, <2>1 DEF Adding
<1>11. PICK g : g = CHOOSE h : Adding(h, n)
  OBVIOUS
<1>12. Adding(g, n)
  BY <1>10, <1>11
<1>13. \A s \in SUBSET (1..n) :
          g[s] = IF s = {} THEN Frac(0, 1) ELSE Plus(g[s \ {Max(s)}], Rate(n, Seq1(n)[Max(s)]))
  BY <1>1, <1>12, Zenon DEF Adding
<1>14. g[1..0] = base
  <2>1. 1..0 = {} /\ 1..0 \in SUBSET (1..n)
    OBVIOUS
  <2> QED
    BY <1>5, <1>13, <2>1
<1>15. ASSUME NEW k \in 1..n PROVE g[1..k] = Plus(g[1..(k - 1)], Rate(n, k))
  <2>1. k \in 1..k /\ 1..k # {} /\ 1..k \in SUBSET (1..n) /\ (1..k) \ {k} = 1..(k - 1) /\ k \in Nat
    <3>1. n \in Nat
      BY <1>1
    <3> QED
      BY <3>1
  <2>2. Max(1..k) = k
    BY <2>1, GreatestOf
  <2> QED
    BY <1>1, <1>13, <2>1, <2>2
<1> DEFINE Right(k) == g[1..k] \in Fraction /\ g[1..k].n = (pts[1].val - pts[k + 1].val) * g[1..k].d
           N == {k \in Nat : k <= n => Right(k)}
<1>16. 0 \in N
  <2>1. 1 \in 1..(n + 1) /\ 0 + 1 = 1
    BY <1>1
  <2>2. pts[1].val \in Int
    BY <1>3, <2>1
  <2>3. (pts[1].val - pts[0 + 1].val) * 1 = 0
    BY <2>1, <2>2
  <2>4. Right(0)
    BY <1>6, <1>14, <2>3
  <2> HIDE DEF Right
  <2> QED
    BY <2>4
<1>17. ASSUME NEW m \in Nat, m \in N PROVE m + 1 \in N
  <2>1. SUFFICES ASSUME m + 1 <= n PROVE Right(m + 1)
    <3> HIDE DEF Right
    <3> QED
      OBVIOUS
  <2>2. PICK k : k = m + 1
    OBVIOUS
  <2>3. k \in 1..n /\ k - 1 = m /\ k \in Nat /\ k \in 1..(n + 1) /\ k + 1 \in 1..(n + 1) /\ 1 \in 1..(n + 1)
    BY <1>1, <2>1, <2>2
  <2>4. Right(m)
    <3>1. m <= n
      BY <1>1, <2>1
    <3> HIDE DEF Right
    <3> QED
      BY <1>17, <3>1
  <2>5. PICK r \in Nat \ {0} : Rate(n, k) = [n |-> (pts[k].val - pts[k + 1].val) * r, d |-> r]
    BY <1>2, <2>3
  <2>6. PICK a : a = g[1..m]
    OBVIOUS
  <2>7. PICK u \in Int, v \in Int, w \in Int : u = pts[1].val /\ v = pts[k].val /\ w = pts[k + 1].val
    BY <1>3, <2>3
  <2>8. a \in Fraction /\ a.n = (u - v) * a.d
    BY <2>2, <2>4, <2>6, <2>7
  <2>9. PICK x \in Int, y \in Nat \ {0} : x = a.n /\ y = a.d
    BY <2>8 DEF Fraction
  <2>10. g[1..k] = Plus(a, Rate(n, k))
    BY <1>15, <2>3, <2>6
  <2>11. g[1..k] \in Fraction
    BY <1>4, <2>3, <2>8, <2>10, PlusIs
  <2>12. g[1..k].n = x * r + ((v - w) * r) * y /\ g[1..k].d = y * r
    BY <2>5, <2>7, <2>9, <2>10 DEF Plus, Frac
  <2>13. x * r + ((v - w) * r) * y = (u - w) * (y * r)
    BY <2>8, <2>9, RiseAdds
  <2> QED
    BY <2>2, <2>7, <2>11, <2>12, <2>13
<1> HIDE DEF N
<1>18. \A k \in Nat : k \in N
  BY <1>16, <1>17, EveryNumber
<1>19. Right(n)
  <2> HIDE DEF Right
  <2> QED
    BY <1>1, <1>18 DEF N
<1>20. PICK a : a = g[1..n]
  OBVIOUS
<1>21. PICK u \in Int : u = pts[1].val - pts[n + 1].val
  <2>1. 1 \in 1..(n + 1) /\ n + 1 \in 1..(n + 1)
    BY <1>1
  <2>2. pts[1].val - pts[n + 1].val \in Int
    BY <1>3, <2>1
  <2> QED
    BY <2>2
<1>22. PICK x \in Int, y \in Int : x = a.n /\ y = a.d /\ x = u * y
  BY <1>19, <1>20, <1>21 DEF Fraction
<1>23. SameValue(a, Frac(u, 1))
  <2>1. x * 1 = u * y
    BY <1>22
  <2> QED
    BY <1>22, <2>1 DEF SameValue, Frac
<1> QED
  BY <1>1, <1>11, <1>20, <1>21, <1>23

\* src/judge/store/func.go:39, linkedlist.go:99: over any series of points pushed in the order
\* of their timestamps, for any limits, thresholds and operators, the number an alarm shows is
\* one that meets its condition, all, lookup, max and min decide alike, and the rates of a
\* counter add up to its rise over the window.
THEOREM JudgeFunctionsAgree == MCSpec => []FunctionsAgree
<1>1. InputsTyped => FunctionsAgree
  BY ReportedDecides, LookupsAgree, RatesDoAddUp DEF InputsTyped, FunctionsAgree
<1> QED
  BY <1>1, InputsInit, InputsStep, PTL DEF MCSpec

-----------------------------------------------------------------------------
(* What graph answers                                                            *)

Data == [ts : Int, val : Int]

\* Data with a value for every step from m on, each at its time.
EveryStep(s, m) == s \in Seq(Data) /\ \A k \in 1..Len(s) : s[k].ts = m + (k - 1) * QueryStep

LEMMA DatumIs == ASSUME NEW t \in Int, NEW v \in Int
                 PROVE  Datum(t, v) \in Data /\ Datum(t, v).ts = t /\ Datum(t, v).val = v
BY DEF Datum, Data

Ticking(s, c, n) ==
  s \in Seq(Int) /\ Len(s) = n /\ DOMAIN s = 1..n /\ \A k \in 1..n : s[k] = c * QueryStep + (k - 1) * QueryStep

LEMMA TicksAre ==
  ASSUME NEW c \in Int, NEW d \in Int, c <= d + 1
  PROVE  Ticking(Ticks(c * QueryStep, d * QueryStep, QueryStep), c, d - c + 1)
<1>0. PICK s : s = Ticks(c * QueryStep, d * QueryStep, QueryStep)
  OBVIOUS
<1>1. PICK n \in Nat : n = d - c + 1
  OBVIOUS
<1>2. (d * QueryStep - c * QueryStep) \div QueryStep + 1 = n
  BY <1>1 DEF QueryStep
<1>3. s = [k \in 1..n |-> c * QueryStep + (k - 1) * QueryStep]
  BY <1>0, <1>2 DEF Ticks
<1>4. \A k \in 1..n : c * QueryStep + (k - 1) * QueryStep \in Int
  BY DEF QueryStep
<1>5. s \in [1..n -> Int] /\ \A k \in 1..n : s[k] = c * QueryStep + (k - 1) * QueryStep
  BY <1>3, <1>4
<1>6. s \in Seq(Int) /\ Len(s) = n /\ DOMAIN s = 1..n
  BY <1>5
<1> QED
  BY <1>0, <1>1, <1>5, <1>6 DEF Ticking

\* The piece of data from index lo + 1 to hi + 1, which has a value for every step from m on.
Piece(r, s, m, lo, hi) ==
  /\ hi < lo => r = <<>>
  /\ lo <= hi => /\ EveryStep(r, m + lo * QueryStep) /\ Len(r) = hi - lo + 1
                 /\ \A k \in 1..Len(r) : r[k] = s[k + lo]

AtLeast(u, n) == IF u < n THEN n ELSE u
AtMostOf(u, n) == IF u > n THEN n ELSE u

\* What of data with a value for every step lies between two of their times, or beyond them.
LEMMA WithinIs ==
  ASSUME NEW s, NEW m \in Int, EveryStep(s, m), NEW u \in Int, NEW w \in Int
  PROVE  Piece(Within(s, m + u * QueryStep, m + w * QueryStep), s, m, AtLeast(u, 0), AtMostOf(w, Len(s) - 1))
<1>0. PICK r : r = Within(s, m + u * QueryStep, m + w * QueryStep)
  OBVIOUS
<1>1. PICK n \in Nat : n = Len(s)
  BY DEF EveryStep
<1>a. PICK lo \in Nat : lo = AtLeast(u, 0) /\ lo = (IF u < 0 THEN 0 ELSE u)
  BY DEF AtLeast
<1>b. PICK hi \in Int : hi = AtMostOf(w, Len(s) - 1) /\ hi = (IF w > n - 1 THEN n - 1 ELSE w)
  BY <1>1 DEF AtMostOf
<1> SUFFICES Piece(r, s, m, lo, hi)
  BY <1>0, <1>a, <1>b, Zenon
<1>2. PICK in : in = {k \in DOMAIN s : s[k].ts >= m + u * QueryStep /\ s[k].ts <= m + w * QueryStep}
  OBVIOUS
<1>3. r = IF in = {} THEN <<>> ELSE SubSeq(s, Min(in), Max(in))
  BY <1>0, <1>2 DEF Within
<1>4. in = {k \in 1..n : k - 1 >= u /\ k - 1 <= w}
  <2>1. DOMAIN s = 1..n /\ \A k \in 1..n : s[k].ts = m + (k - 1) * 2
    BY <1>1 DEF EveryStep, QueryStep
  <2>2. ASSUME NEW k \in 1..n
        PROVE  (s[k].ts >= m + u * 2 /\ s[k].ts <= m + w * 2) <=> (k - 1 >= u /\ k - 1 <= w)
    BY <2>1
  <2> QED
    BY <1>2, <2>1, <2>2 DEF QueryStep
<1>5. in = {k \in 1..n : lo + 1 <= k /\ k <= hi + 1}
  <2>1. ASSUME NEW k \in 1..n PROVE (k - 1 >= u /\ k - 1 <= w) <=> (lo + 1 <= k /\ k <= hi + 1)
    BY <1>a, <1>b
  <2> QED
    BY <1>4, <2>1
<1>6. CASE hi < lo
  <2>1. in = {}
    BY <1>5, <1>6
  <2> QED
    <3>1. r = <<>>
      BY <1>3, <2>1, Zenon
    <3> QED
      BY <1>6, <3>1 DEF Piece
<1>7. CASE lo <= hi
  <2>1. lo + 1 \in in /\ hi + 1 \in in /\ hi + 1 \in 1..n /\ lo + 1 \in 1..n
    BY <1>1, <1>b, <1>5, <1>7
  <2>2. Min(in) = lo + 1
    <3>1. in \subseteq Nat /\ in # {}
      <4>1. in \subseteq 1..n
        BY <1>5
      <4>2. 1..n \subseteq Nat
        OBVIOUS
      <4> QED
        BY <2>1, <4>1, <4>2
    <3>2. PICK x : x = Min(in)
      OBVIOUS
    <3>3. x \in in /\ \A y \in in : x <= y
      BY <3>1, <3>2, LeastNumber
    <3>4. x \in Nat /\ x <= lo + 1 /\ lo + 1 <= x
      BY <1>5, <2>1, <3>3
    <3> QED
      BY <3>2, <3>4
  <2>3. Max(in) = hi + 1
    <3>1. in \subseteq 1..(hi + 1) /\ hi + 1 \in Nat
      BY <1>5, <2>1
    <3> QED
      BY <2>1, <3>1, GreatestOf
  <2>4. PICK i, j : i = lo + 1 /\ j = hi + 1
    OBVIOUS
  <2>5. i \in 1..n /\ j \in 1..n /\ i <= j
    BY <1>7, <2>1, <2>4
  <2>6. r = SubSeq(s, i, j)
    BY <1>3, <2>1, <2>2, <2>3, <2>4
  <2>7. PICK V : V = Data
    OBVIOUS
  <2>8. s \in Seq(V) /\ Len(s) = n
    BY <1>1, <2>7 DEF EveryStep
  <2>9. r \in Seq(V) /\ Len(r) = j - i + 1 /\ \A k \in 1..(j - i + 1) : r[k] = s[i + k - 1]
    BY ONLY <2>5, <2>6, <2>8
  <2>10. Len(r) = hi - lo + 1
    BY <2>4, <2>9
  <2>11. ASSUME NEW k \in 1..Len(r) PROVE r[k] = s[k + lo] /\ k + lo \in 1..n
    <3>1. k \in 1..(j - i + 1) /\ i + k - 1 = k + lo /\ k + lo \in 1..n
      BY <2>4, <2>5, <2>10, <1>7
    <3> QED
      BY <2>9, <3>1
  <2>12. ASSUME NEW k \in 1..Len(r) PROVE r[k].ts = (m + lo * 2) + (k - 1) * 2
    <3>1. k + lo \in 1..n /\ k \in Int
      BY <2>10, <2>11
    <3>2. s[k + lo].ts = m + ((k + lo) - 1) * 2
      BY <1>1, <3>1 DEF EveryStep, QueryStep
    <3>3. m + ((k + lo) - 1) * 2 = (m + lo * 2) + (k - 1) * 2
      BY <3>1
    <3> QED
      BY <2>11, <3>2, <3>3
  <2> QED
    BY <1>7, <2>7, <2>9, <2>10, <2>11, <2>12 DEF EveryStep, QueryStep, Piece
<1>8. hi < lo \/ lo <= hi
  OBVIOUS
<1> QED
  BY <1>6, <1>7, <1>8

\* One step of the loop that formats: the next value goes out when it is of this time.
FormatStep(acc, merged, t) ==
  IF acc.next <= Len(merged) /\ merged[acc.next].ts = t
  THEN [next |-> acc.next + 1, out |-> Append(acc.out, merged[acc.next])]
  ELSE [acc EXCEPT !.out = Append(@, Datum(t, NaN))]

Formatting == [next : Nat \ {0}, out : Seq(Data)]

LEMMA FormatStepIs ==
  ASSUME NEW acc \in Formatting, NEW merged \in Seq(Data), NEW t \in Int
  PROVE  /\ FormatStep(acc, merged, t) \in Formatting
         /\ Len(FormatStep(acc, merged, t).out) = Len(acc.out) + 1
         /\ \A k \in 1..Len(acc.out) : FormatStep(acc, merged, t).out[k] = acc.out[k]
         /\ (acc.next <= Len(merged) /\ merged[acc.next].ts = t) =>
               /\ FormatStep(acc, merged, t).next = acc.next + 1
               /\ FormatStep(acc, merged, t).out[Len(acc.out) + 1] = merged[acc.next]
         /\ ~(acc.next <= Len(merged) /\ merged[acc.next].ts = t) =>
               /\ FormatStep(acc, merged, t).next = acc.next
               /\ FormatStep(acc, merged, t).out[Len(acc.out) + 1] = Datum(t, NaN)
<1>1. PICK x, o : x = acc.next /\ o = acc.out /\ acc = [next |-> x, out |-> o]
  BY DEF Formatting
<1>2. x \in Nat \ {0} /\ o \in Seq(Data) /\ Len(o) \in Nat
  BY <1>1 DEF Formatting
<1>3. \A d \in Data : /\ Append(o, d) \in Seq(Data) /\ Len(Append(o, d)) = Len(o) + 1
                      /\ \A k \in 1..Len(o) : Append(o, d)[k] = o[k]
                      /\ Append(o, d)[Len(o) + 1] = d
  <2>1. PICK V : V = Data
    OBVIOUS
  <2>2. ASSUME NEW d \in V
        PROVE  /\ Append(o, d) \in Seq(V) /\ Len(Append(o, d)) = Len(o) + 1
               /\ \A k \in 1..Len(o) : Append(o, d)[k] = o[k]
               /\ Append(o, d)[Len(o) + 1] = d
    <3>1. o \in Seq(V)
      BY <1>2, <2>1
    <3> QED
      BY <3>1
  <2> QED
    BY <2>1, <2>2
<1>4. CASE x <= Len(merged) /\ merged[x].ts = t
  <2>1. merged[x] \in Data
    <3>1. x \in 1..Len(merged)
      BY <1>2, <1>4
    <3> QED
      BY <3>1
  <2>2. FormatStep(acc, merged, t) = [next |-> x + 1, out |-> Append(o, merged[x])]
    BY <1>1, <1>4 DEF FormatStep
  <2>3. x + 1 \in Nat \ {0}
    BY <1>2
  <2>4. PICK y : y = FormatStep(acc, merged, t)
    OBVIOUS
  <2>5. y.next = x + 1 /\ y.out = Append(o, merged[x]) /\ y \in Formatting
    BY <1>3, <2>1, <2>2, <2>3, <2>4 DEF Formatting
  <2>6. PICK d \in Data : d = merged[x]
    BY <2>1
  <2>7. /\ Len(y.out) = Len(o) + 1 /\ \A k \in 1..Len(o) : y.out[k] = o[k]
        /\ y.out[Len(o) + 1] = d
    BY <1>3, <2>5, <2>6
  <2> QED
    BY <1>1, <1>4, <2>4, <2>5, <2>6, <2>7
<1>5. CASE ~(x <= Len(merged) /\ merged[x].ts = t)
  <2>1. Datum(t, NaN) \in Data
    BY DatumIs DEF NaN
  <2>2. FormatStep(acc, merged, t) = [next |-> x, out |-> Append(o, Datum(t, NaN))]
    BY <1>1, <1>5 DEF FormatStep
  <2>4. PICK y : y = FormatStep(acc, merged, t)
    OBVIOUS
  <2>5. y.next = x /\ y.out = Append(o, Datum(t, NaN)) /\ y \in Formatting
    BY <1>2, <1>3, <2>1, <2>2, <2>4 DEF Formatting
  <2> QED
    BY <1>1, <1>3, <1>5, <2>1, <2>4, <2>5
<1> QED
  BY <1>1, <1>4, <1>5

\* The loop after one time after the other.
LEMMA FormattedIs ==
  ASSUME NEW merged \in Seq(Data), NEW n \in Nat, NEW ts \in Seq(Int), Len(ts) = n
  PROVE  \E g \in [0..n -> Formatting] :
           /\ g[0] = [next |-> 1, out |-> <<>>]
           /\ \A k \in 1..n : g[k] = FormatStep(g[k - 1], merged, ts[k])
           /\ Formatted(merged, ts) = g[n].out
<1> DEFINE Iter(g) == g = [s \in SUBSET DOMAIN ts |->
                           IF s = {} THEN [next |-> 1, out |-> <<>>]
                           ELSE IF g[s \ {Max(s)}].next <= Len(merged) /\ merged[g[s \ {Max(s)}].next].ts = ts[Max(s)]
                                THEN [next |-> g[s \ {Max(s)}].next + 1,
                                      out |-> Append(g[s \ {Max(s)}].out, merged[g[s \ {Max(s)}].next])]
                                ELSE [g[s \ {Max(s)}] EXCEPT !.out = Append(@, Datum(ts[Max(s)], NaN))]]
<1>1. Formatted(merged, ts) = (CHOOSE g : Iter(g))[DOMAIN ts].out
  BY DEF Formatted, FoldLeft, MapThenFoldSet
<1>2. DOMAIN ts = 1..n /\ \A i \in 1..n : ts[i] \in Int
  OBVIOUS
<1>3. PICK base : base = [next |-> 1, out |-> <<>>]
  OBVIOUS
<1>4. base \in Formatting
  <2>1. <<>> \in Seq(Data) /\ 1 \in Nat \ {0}
    OBVIOUS
  <2> QED
    BY <1>3, <2>1 DEF Formatting
<1>5. PICK step : step = [p \in Formatting \X (1..n) |-> FormatStep(p[1], merged, ts[p[2]])]
  OBVIOUS
<1>6. \A a \in Formatting, i \in 1..n : step[<<a, i>>] = FormatStep(a, merged, ts[i]) /\ step[<<a, i>>] \in Formatting
  BY <1>2, <1>5, FormatStepIs
<1>7. PICK f \in [SUBSET (1..n) -> Formatting] : FoldedLeft(f, base, step, n)
  BY <1>4, <1>6, FoldLeftIs
<1>8. \A g : Iter(g) <=> g = [s \in SUBSET (1..n) |-> IF s = {} THEN base ELSE FormatStep(g[s \ {Max(s)}], merged, ts[Max(s)])]
  BY <1>2, <1>3, Zenon DEF FormatStep
<1> HIDE DEF Iter
<1>9. Iter(f)
  <2>1. ASSUME NEW s \in SUBSET (1..n)
        PROVE  f[s] = IF s = {} THEN base ELSE FormatStep(f[s \ {Max(s)}], merged, ts[Max(s)])
    <3>1. CASE s = {}
      BY <1>7, <3>1 DEF FoldedLeft
    <3>2. CASE s # {}
      <4>1. Max(s) \in 1..n /\ f[s \ {Max(s)}] \in Formatting
        BY <1>7, <3>2, GreatestNumber
      <4>2. f[s] = step[<<f[s \ {Max(s)}], Max(s)>>]
        BY <1>7, <3>2 DEF FoldedLeft
      <4> QED
        BY <1>6, <3>2, <4>1, <4>2
    <3> QED
      BY <3>1, <3>2
  <2>2. f = [s \in SUBSET (1..n) |-> IF s = {} THEN base ELSE FormatStep(f[s \ {Max(s)}], merged, ts[Max(s)])]
    BY <1>7, <2>1
  <2> QED
    BY <1>8, <2>2, Zenon
<1>10. PICK h : h = CHOOSE g : Iter(g)
  OBVIOUS
<1>11. Iter(h)
  BY <1>9, <1>10
<1>12. h = [s \in SUBSET (1..n) |-> IF s = {} THEN base ELSE FormatStep(h[s \ {Max(s)}], merged, ts[Max(s)])]
  BY <1>8, <1>11, Zenon
<1>13. \A s \in SUBSET (1..n) : h[s] = IF s = {} THEN base ELSE FormatStep(h[s \ {Max(s)}], merged, ts[Max(s)])
  BY <1>12, Zenon
<1>14. h[1..0] = base
  <2>1. 1..0 = {} /\ 1..0 \in SUBSET (1..n)
    OBVIOUS
  <2> QED
    BY <1>13, <2>1
<1>15. ASSUME NEW k \in 1..n PROVE h[1..k] = FormatStep(h[1..(k - 1)], merged, ts[k])
  <2>1. 1..k # {} /\ 1..k \in SUBSET (1..n) /\ (1..k) \ {k} = 1..(k - 1) /\ Max(1..k) = k
    BY PrefixIs
  <2> QED
    BY <1>13, <2>1
<1>16. PICK r : r = [k \in 0..n |-> h[1..k]]
  OBVIOUS
<1>17. r[0] = base /\ \A k \in 1..n : r[k] = FormatStep(r[k - 1], merged, ts[k])
  <2>1. \A k \in 1..n : k - 1 \in 0..n /\ k \in 0..n
    OBVIOUS
  <2> QED
    BY <1>14, <1>15, <1>16, <2>1
<1> DEFINE N == {k \in Nat : k <= n => r[k] \in Formatting}
<1>18. 0 \in N
  BY <1>4, <1>17
<1>19. ASSUME NEW k \in Nat, k \in N PROVE k + 1 \in N
  <2>1. SUFFICES ASSUME k + 1 <= n PROVE r[k + 1] \in Formatting
    OBVIOUS
  <2>2. k + 1 \in 1..n /\ (k + 1) - 1 = k /\ r[k] \in Formatting
    BY <1>19, <2>1
  <2>3. r[k + 1] = FormatStep(r[k], merged, ts[k + 1]) /\ ts[k + 1] \in Int
    BY <1>2, <1>17, <2>2
  <2> QED
    BY <2>2, <2>3, FormatStepIs
<1> HIDE DEF N
<1>20. \A k \in Nat : k \in N
  BY <1>18, <1>19, EveryNumber
<1>21. r \in [0..n -> Formatting]
  BY <1>16, <1>20 DEF N
<1>22. Formatted(merged, ts) = r[n].out
  BY <1>1, <1>2, <1>10, <1>16
<1> QED
  BY <1>3, <1>17, <1>21, <1>22

\* Every time gets its value of the data, which have one for every step from some time asked
\* for on, or none.
LEMMA FormattedFits ==
  ASSUME NEW from \in Int, NEW q \in Nat, NEW merged, EveryStep(merged, from + q * QueryStep),
         NEW n \in Nat, NEW ts \in Seq(Int), Len(ts) = n, \A k \in 1..n : ts[k] = from + (k - 1) * QueryStep,
         NEW r, r = Formatted(merged, ts)
  PROVE  /\ r \in Seq(Data) /\ Len(r) = n
         /\ \A k \in 1..n : r[k] = IF q < k /\ k <= q + Len(merged) THEN merged[k - q] ELSE Datum(ts[k], NaN)
<1>1. merged \in Seq(Data) /\ \A k \in 1..Len(merged) : merged[k].ts = (from + q * 2) + (k - 1) * 2
  BY DEF EveryStep, QueryStep
<1>2. PICK M \in Nat : M = Len(merged)
  BY <1>1
<1>3. PICK g \in [0..n -> Formatting] :
           /\ g[0] = [next |-> 1, out |-> <<>>]
           /\ \A k \in 1..n : g[k] = FormatStep(g[k - 1], merged, ts[k])
           /\ Formatted(merged, ts) = g[n].out
  BY <1>1, FormattedIs
<1> DEFINE Value(k) == IF q < k /\ k <= q + M THEN merged[k - q] ELSE Datum(ts[k], NaN)
           Good(k) == /\ Len(g[k].out) = k
                      /\ \A i \in 1..k : g[k].out[i] = Value(i)
                      /\ g[k].next = IF k <= q THEN 1 ELSE IF k <= q + M THEN k - q + 1 ELSE M + 1
           N == {k \in Nat : k <= n => Good(k)}
<1>4. 0 \in N
  <2>1. g[0].out = <<>> /\ g[0].next = 1 /\ Len(<<>>) = 0
    BY <1>3
  <2>2. Good(0)
    BY <2>1
  <2> HIDE DEF Good
  <2> QED
    BY <2>2
<1>5. ASSUME NEW m \in Nat, m \in N PROVE m + 1 \in N
  <2>1. SUFFICES ASSUME m + 1 <= n PROVE Good(m + 1)
    <3> HIDE DEF Good
    <3> QED
      OBVIOUS
  <2>2. Good(m)
    <3>1. m <= n
      BY <2>1
    <3> HIDE DEF Good
    <3> QED
      BY <1>5, <3>1
  <2>3. PICK k : k = m + 1
    OBVIOUS
  <2>4. k \in 1..n /\ k \in Nat /\ k - 1 = m /\ m \in 0..n
    BY <2>1, <2>3
  <2>5. PICK a : a = g[m]
    OBVIOUS
  <2>6. a \in Formatting /\ ts[k] \in Int /\ g[k] = FormatStep(a, merged, ts[k])
    BY <1>3, <2>4, <2>5
  <2>7. PICK b : b = FormatStep(a, merged, ts[k])
    OBVIOUS
  <2>8. PICK x \in Nat \ {0} : x = a.next
    BY <2>6 DEF Formatting
  <2>9. Len(a.out) = m /\ \A i \in 1..m : a.out[i] = Value(i)
    BY <2>2, <2>5
  <2>10. x = IF m <= q THEN 1 ELSE IF m <= q + M THEN m - q + 1 ELSE M + 1
    BY <2>2, <2>5, <2>8
  <2>11. /\ Len(b.out) = m + 1 /\ \A i \in 1..m : b.out[i] = a.out[i]
         /\ (x <= M /\ merged[x].ts = ts[k]) => b.next = x + 1 /\ b.out[m + 1] = merged[x]
         /\ ~(x <= M /\ merged[x].ts = ts[k]) => b.next = x /\ b.out[m + 1] = Datum(ts[k], NaN)
    <3>1. /\ Len(b.out) = Len(a.out) + 1 /\ \A i \in 1..Len(a.out) : b.out[i] = a.out[i]
          /\ (a.next <= Len(merged) /\ merged[a.next].ts = ts[k]) =>
                b.next = a.next + 1 /\ b.out[Len(a.out) + 1] = merged[a.next]
          /\ ~(a.next <= Len(merged) /\ merged[a.next].ts = ts[k]) =>
                b.next = a.next /\ b.out[Len(a.out) + 1] = Datum(ts[k], NaN)
      BY <1>1, <2>6, <2>7, FormatStepIs
    <3> QED
      BY <1>2, <2>8, <2>9, <3>1
  <2>12. ts[k] = from + m * 2
    <3>1. ts[k] = from + (k - 1) * 2
      BY <2>4 DEF QueryStep
    <3> QED
      BY <2>4, <3>1
  <2>13. ASSUME x <= M PROVE merged[x].ts = (from + q * 2) + (x - 1) * 2
    <3>1. x \in 1..Len(merged)
      BY <1>2, <2>8, <2>13
    <3> QED
      BY <1>1, <3>1
  <2>14. (x <= M /\ merged[x].ts = ts[k]) <=> (q < k /\ k <= q + M)
    <3>1. x <= M => (merged[x].ts = ts[k] <=> q + x = k)
      BY <2>3, <2>12, <2>13
    <3>2. (x <= M /\ q + x = k) <=> (q < k /\ k <= q + M)
      BY <2>3, <2>8, <2>10
    <3> QED
      BY <3>1, <3>2
  <2>15. (q < k /\ k <= q + M) => x = k - q
    BY <2>3, <2>10
  <2>16. b.out[k] = Value(k)
    BY <2>3, <2>11, <2>14, <2>15
  <2>17. b.next = IF k <= q THEN 1 ELSE IF k <= q + M THEN k - q + 1 ELSE M + 1
    <3>1. CASE q < k /\ k <= q + M
      BY <2>3, <2>11, <2>14, <2>15, <3>1
    <3>2. CASE ~(q < k /\ k <= q + M)
      BY <2>3, <2>10, <2>11, <2>14, <3>2
    <3> QED
      BY <3>1, <3>2
  <2>18. \A i \in 1..k : i = k \/ i \in 1..m
    BY <2>3
  <2> HIDE DEF Value
  <2> QED
    BY <2>3, <2>6, <2>7, <2>9, <2>11, <2>16, <2>17, <2>18
<1> HIDE DEF N
<1>6. \A k \in Nat : k \in N
  BY <1>4, <1>5, EveryNumber
<1>7. Good(n)
  <2> HIDE DEF Good
  <2> QED
    BY <1>6 DEF N
<1>8. g[n].out \in Seq(Data)
  BY <1>3 DEF Formatting
<1> QED
  BY <1>2, <1>3, <1>7, <1>8

\* The cached points of a series: oldest first, on multiples of the step, none below zero.
Sorted(P) ==
  /\ P \in Seq(Data) /\ Len(P) >= 1
  /\ \A i \in 1..Len(P) : P[i].val >= 0 /\ \E c \in Int : P[i].ts = c * QueryStep
  /\ \A i, j \in 1..Len(P) : i < j => P[i].ts < P[j].ts

\* Of a series every point is older than the ones before it.
LEMMA SeriesDescends ==
  ASSUME SeriesTyped
  PROVE  \A i, j \in 1..Len(pts) : i < j => pts[j].ts < pts[i].ts
<1>1. PICK n \in Nat : n = Len(pts)
  BY DEF SeriesTyped
<1>2. \A i \in 1..n : pts[i].ts \in Int
  <2>1. PICK V : V = [ts : Int, val : Int]
    OBVIOUS
  <2>2. pts \in Seq(V)
    BY <2>1 DEF SeriesTyped
  <2>3. \A i \in 1..n : pts[i] \in V
    BY ONLY <1>1, <2>2
  <2> QED
    BY <2>1, <2>3
<1>3. \A i \in 1..(n - 1) : pts[i + 1].ts < pts[i].ts
  BY <1>1 DEF SeriesTyped
<1> DEFINE N == {d \in Nat : \A i \in 1..n : i + d + 1 \in 1..n => pts[i + d + 1].ts < pts[i].ts}
<1>4. 0 \in N
  <2>1. ASSUME NEW i \in 1..n, i + 0 + 1 \in 1..n PROVE pts[i + 0 + 1].ts < pts[i].ts
    <3>1. i \in 1..(n - 1) /\ i + 0 + 1 = i + 1
      BY <2>1
    <3> QED
      BY <1>3, <3>1
  <2> QED
    BY <2>1
<1>5. ASSUME NEW d \in Nat, d \in N PROVE d + 1 \in N
  <2>1. ASSUME NEW i \in 1..n, i + (d + 1) + 1 \in 1..n PROVE pts[i + (d + 1) + 1].ts < pts[i].ts
    <3>1. PICK k : k = i + d + 1
      OBVIOUS
    <3>2. k \in 1..n /\ k \in 1..(n - 1) /\ i + (d + 1) + 1 = k + 1 /\ k + 1 \in 1..n
      BY <2>1, <3>1
    <3>3. pts[k].ts < pts[i].ts
      BY <1>5, <3>1, <3>2
    <3>4. pts[k + 1].ts < pts[k].ts
      BY <1>3, <3>2
    <3>5. pts[i].ts \in Int /\ pts[k].ts \in Int /\ pts[k + 1].ts \in Int
      BY <1>2, <3>2
    <3> QED
      BY <3>2, <3>3, <3>4, <3>5
  <2> QED
    BY <2>1
<1> HIDE DEF N
<1>6. \A d \in Nat : d \in N
  BY <1>4, <1>5, EveryNumber
<1>7. ASSUME NEW i \in 1..n, NEW j \in 1..n, i < j PROVE pts[j].ts < pts[i].ts
  <2>1. PICK d : d = j - i - 1
    OBVIOUS
  <2>2. d \in Nat /\ i + d + 1 = j
    BY <1>7, <2>1
  <2>3. d \in N
    BY <1>6, <2>2
  <2> QED
    BY <2>2, <2>3 DEF N
<1> QED
  BY <1>1, <1>7

LEMMA PointsSorted ==
  ASSUME SeriesTyped, pts # <<>>, \A n \in DOMAIN pts : pts[n].val >= 0
  PROVE  Sorted(Points)
<1>1. PICK n \in Nat : n = Len(pts) /\ n >= 1 /\ DOMAIN pts = 1..n
  BY DEF SeriesTyped
<1>2. \A i \in 1..n : pts[i].ts \in Int /\ pts[i].val \in Int /\ pts[i].val >= 0
  <2>1. PICK V : V = [ts : Int, val : Int]
    OBVIOUS
  <2>2. pts \in Seq(V)
    BY <2>1 DEF SeriesTyped
  <2>3. \A i \in 1..n : pts[i] \in V
    BY ONLY <1>1, <2>2
  <2> QED
    BY <1>1, <2>1, <2>3
<1>3. PICK q : q = [i \in DOMAIN pts |-> Datum(QueryStep * pts[i].ts, pts[i].val)]
  OBVIOUS
<1>4. ASSUME NEW i \in 1..n
      PROVE  q[i] \in Data /\ q[i].ts = pts[i].ts * QueryStep /\ q[i].val = pts[i].val
  <2>1. QueryStep * pts[i].ts \in Int /\ QueryStep * pts[i].ts = pts[i].ts * QueryStep
    BY <1>2 DEF QueryStep
  <2>2. q[i] = Datum(QueryStep * pts[i].ts, pts[i].val)
    BY <1>1, <1>3
  <2> QED
    BY <1>2, <2>1, <2>2, DatumIs
<1>5. q \in [1..n -> Data]
  BY <1>1, <1>3, <1>4
<1>6. q \in Seq(Data) /\ Len(q) = n
  BY <1>5
<1>7. PICK P : P = Points
  OBVIOUS
<1>8. P = [i \in 1..n |-> q[(n - i) + 1]]
  BY <1>3, <1>6, <1>7 DEF Points, Reverse
<1>9. \A i \in 1..n : (n - i) + 1 \in 1..n
  OBVIOUS
<1>10. P \in [1..n -> Data] /\ \A i \in 1..n : P[i] = q[(n - i) + 1]
  BY <1>5, <1>8, <1>9
<1>11. P \in Seq(Data) /\ Len(P) = n
  BY <1>10
<1>12. ASSUME NEW i \in 1..n PROVE P[i].val >= 0 /\ \E c \in Int : P[i].ts = c * QueryStep
  <2>1. (n - i) + 1 \in 1..n
    BY <1>9
  <2> QED
    BY <1>2, <1>4, <1>10, <2>1
<1>13. ASSUME NEW i \in 1..n, NEW j \in 1..n, i < j PROVE P[i].ts < P[j].ts
  <2>1. PICK k, l : k = (n - i) + 1 /\ l = (n - j) + 1
    OBVIOUS
  <2>2. k \in 1..n /\ l \in 1..n /\ l < k
    BY <1>13, <2>1
  <2>3. pts[k].ts < pts[l].ts /\ pts[k].ts \in Int /\ pts[l].ts \in Int
    BY <1>1, <1>2, <2>2, SeriesDescends
  <2>4. P[i].ts = pts[k].ts * QueryStep /\ P[j].ts = pts[l].ts * QueryStep
    BY <1>4, <1>10, <2>1, <2>2
  <2> QED
    BY <2>3, <2>4 DEF QueryStep
<1> QED
  BY <1>1, <1>7, <1>11, <1>12, <1>13 DEF Sorted

-----------------------------------------------------------------------------

\* The last timestamp with a value: a counter's is a step before that of its last point.
LastShown(P) == P[Len(P)].ts - (IF type = "GAUGE" THEN 0 ELSE QueryStep)

LEMMA SortedIs ==
  ASSUME NEW P, Sorted(P)
  PROVE  /\ Len(P) \in Nat \ {0} /\ DOMAIN P = 1..Len(P)
         /\ \A i \in 1..Len(P) : P[i] \in Data /\ P[i].ts \in Int /\ P[i].val \in Nat
         /\ \A i, j \in 1..Len(P) : P[i].ts = P[j].ts => i = j
         /\ \A i \in 1..Len(P) : P[1].ts <= P[i].ts /\ P[i].ts <= P[Len(P)].ts
<1>1. PICK n \in Nat : n = Len(P) /\ n >= 1 /\ DOMAIN P = 1..n
  BY DEF Sorted
<1>2. \A i \in 1..n : P[i] \in Data
  BY <1>1 DEF Sorted
<1>3. \A i \in 1..n : P[i].ts \in Int /\ P[i].val \in Nat
  BY <1>1, <1>2 DEF Sorted, Data
<1>4. \A i, j \in 1..n : i < j => P[i].ts < P[j].ts
  BY <1>1 DEF Sorted
<1>5. ASSUME NEW i \in 1..n, NEW j \in 1..n, P[i].ts = P[j].ts PROVE i = j
  <2>1. ~(i < j) /\ ~(j < i)
    BY <1>3, <1>4, <1>5
  <2> QED
    BY <2>1
<1>6. ASSUME NEW i \in 1..n PROVE P[1].ts <= P[i].ts /\ P[i].ts <= P[n].ts
  <2>1. 1 \in 1..n /\ n \in 1..n /\ (i = 1 \/ 1 < i) /\ (i = n \/ i < n)
    BY <1>1
  <2> QED
    BY <1>3, <1>4, <2>1
<1> QED
  BY <1>1, <1>2, <1>3, <1>5, <1>6

\* The values a series has at a timestamp, if any.
GaugesAt(P, t)   == {P[i].val : i \in {k \in 1..Len(P) : P[k].ts = t}}
CountersAt(P, t) ==
  {(P[r[2]].val - P[r[1]].val) \div QueryStep :
     r \in {r \in (1..Len(P)) \X (1..Len(P)) : P[r[1]].ts = t /\ P[r[2]].ts = t + QueryStep /\ P[r[2]].val >= P[r[1]].val}}

LEMMA ValueAtIs ==
  ASSUME NEW P, Sorted(P), NEW t \in Int
  PROVE  /\ type = "GAUGE" => ValueAt(P, type, QueryStep, t) =
                                IF GaugesAt(P, t) = {} THEN NaN ELSE CHOOSE v \in GaugesAt(P, t) : TRUE
         /\ type # "GAUGE" => ValueAt(P, type, QueryStep, t) =
                                IF CountersAt(P, t) = {} THEN NaN ELSE CHOOSE v \in CountersAt(P, t) : TRUE
<1>1. DOMAIN P = 1..Len(P)
  BY SortedIs
<1>2. PICK at, next : /\ at = {p \in Range(P) : p.ts = t}
                      /\ next = {p \in Range(P) : p.ts = t + QueryStep}
  OBVIOUS
<1>3. CASE type = "GAUGE"
  <2>1. {p.val : p \in at} = GaugesAt(P, t)
    BY <1>1, <1>2 DEF GaugesAt, Range
  <2>2. ValueAt(P, type, QueryStep, t) = IF {p.val : p \in at} = {} THEN NaN ELSE CHOOSE v \in {p.val : p \in at} : TRUE
    BY <1>2, <1>3 DEF ValueAt
  <2> QED
    BY <1>3, <2>1, <2>2
<1>4. CASE type # "GAUGE"
  <2>1. PICK vals : vals = {(pq[2].val - pq[1].val) \div QueryStep : pq \in {r \in at \X next : r[2].val >= r[1].val}}
    OBVIOUS
  <2>2. vals = CountersAt(P, t)
    <3>1. ASSUME NEW v \in vals PROVE v \in CountersAt(P, t)
      <4>1. PICK p \in at, q \in next : v = (q.val - p.val) \div QueryStep /\ q.val >= p.val
        BY <2>1
      <4>2. PICK i \in 1..Len(P), j \in 1..Len(P) : p = P[i] /\ q = P[j] /\ P[i].ts = t /\ P[j].ts = t + QueryStep
        BY <1>1, <1>2 DEF Range
      <4>3. PICK r : r = <<i, j>>
        OBVIOUS
      <4> QED
        BY <4>1, <4>2, <4>3 DEF CountersAt
    <3>2. ASSUME NEW v \in CountersAt(P, t) PROVE v \in vals
      <4>1. PICK i \in 1..Len(P), j \in 1..Len(P) :
               /\ P[i].ts = t /\ P[j].ts = t + QueryStep /\ P[j].val >= P[i].val
               /\ v = (P[j].val - P[i].val) \div QueryStep
        BY DEF CountersAt
      <4>2. P[i] \in at /\ P[j] \in next
        BY <1>1, <1>2, <4>1 DEF Range
      <4>3. PICK r : r = <<P[i], P[j]>>
        OBVIOUS
      <4> QED
        BY <2>1, <4>1, <4>2, <4>3
    <3> QED
      BY <3>1, <3>2
  <2>3. ValueAt(P, type, QueryStep, t) = IF vals = {} THEN NaN ELSE CHOOSE v \in vals : TRUE
    BY <1>2, <1>4, <2>1 DEF ValueAt
  <2> QED
    BY <1>4, <2>2, <2>3
<1> QED
  BY <1>3, <1>4

\* A value is a number, and there is none before the first point or after the last.
LEMMA ValueAtBounds ==
  ASSUME NEW P, Sorted(P), NEW t \in Int
  PROVE  /\ ValueAt(P, type, QueryStep, t) \in Int
         /\ t < P[1].ts \/ t > LastShown(P) => ValueAt(P, type, QueryStep, t) = NaN
<1>1. PICK n \in Nat \ {0} : n = Len(P)
  BY SortedIs
<1>2. \A i \in 1..n : P[i].ts \in Int /\ P[i].val \in Nat /\ P[1].ts <= P[i].ts /\ P[i].ts <= P[n].ts
  BY <1>1, SortedIs
<1>3. 1 \in 1..n /\ n \in 1..n
  OBVIOUS
<1>4. CASE type = "GAUGE"
  <2>1. GaugesAt(P, t) \subseteq Int
    BY <1>1, <1>2 DEF GaugesAt
  <2>2. t < P[1].ts \/ t > P[n].ts => GaugesAt(P, t) = {}
    BY <1>1, <1>2, <1>3 DEF GaugesAt
  <2>3. LastShown(P) = P[n].ts
    BY <1>1, <1>2, <1>3, <1>4 DEF LastShown
  <2> QED
    BY <1>4, <2>1, <2>2, <2>3, ValueAtIs DEF NaN
<1>5. CASE type # "GAUGE"
  <2>1. CountersAt(P, t) \subseteq Int
    <3>1. ASSUME NEW i \in 1..n, NEW j \in 1..n PROVE (P[j].val - P[i].val) \div QueryStep \in Int
      BY <1>2 DEF QueryStep
    <3> QED
      BY <1>1, <3>1 DEF CountersAt
  <2>2. t < P[1].ts \/ t > P[n].ts - QueryStep => CountersAt(P, t) = {}
    <3>1. ASSUME NEW i \in 1..n, NEW j \in 1..n, P[i].ts = t, P[j].ts = t + QueryStep,
                 t < P[1].ts \/ t > P[n].ts - QueryStep
          PROVE  FALSE
      BY <1>2, <1>3, <3>1 DEF QueryStep
    <3> QED
      BY <1>1, <3>1 DEF CountersAt
  <2>3. LastShown(P) = P[n].ts - QueryStep
    BY <1>1, <1>5 DEF LastShown
  <2> QED
    BY <1>5, <2>1, <2>2, <2>3, ValueAtIs DEF NaN
<1> QED
  BY <1>4, <1>5

Fresh(P, t) == ValueAt(P, type, QueryStep, t)

\* The newest value, where the answer has one at its time, is the answer's.
LEMMA LastIs ==
  ASSUME NEW P, Sorted(P), type \in {"GAUGE", "COUNTER"},
         NEW last, last = GetLast(P, type, QueryStep), last.ts # 0,
         NEW shown, shown = last.ts - (IF type = "GAUGE" THEN 0 ELSE QueryStep),
         Fresh(P, shown) # NaN
  PROVE  shown \in Int /\ Fresh(P, shown) = last.val
<1>1. PICK n \in Nat \ {0} : n = Len(P)
  BY SortedIs
<1>2. \A i \in 1..n : P[i].ts \in Int /\ P[i].val \in Nat
  BY <1>1, SortedIs
<1>3. \A i, j \in 1..n : P[i].ts = P[j].ts => i = j
  BY <1>1, SortedIs
<1>4. CASE type = "GAUGE"
  <2>1. last = P[n]
    BY <1>1, <1>4 DEF GetLast
  <2>2. shown = P[n].ts /\ shown \in Int /\ n \in 1..n
    BY <1>2, <1>4, <2>1
  <2>3. GaugesAt(P, shown) = {P[n].val}
    BY <1>1, <1>3, <2>2 DEF GaugesAt
  <2>4. Fresh(P, shown) = CHOOSE v \in {P[n].val} : TRUE
    BY <1>4, <2>2, <2>3, ValueAtIs DEF Fresh
  <2> QED
    BY <2>1, <2>2, <2>4
<1>5. CASE type # "GAUGE"
  <2>1. PICK rise : rise = P[n].val - P[n - 1].val
    OBVIOUS
  <2>2. n >= 2 /\ P[n].ts - P[n - 1].ts = QueryStep
        /\ last = Datum(P[n].ts, IF rise < 0 THEN 0 ELSE rise \div QueryStep)
    <3>1. last = IF n < 2 THEN Datum(0, 0)
                 ELSE IF P[n].ts - P[n - 1].ts # QueryStep THEN Datum(0, 0)
                 ELSE Datum(P[n].ts, IF rise < 0 THEN 0 ELSE rise \div QueryStep)
      BY <1>1, <1>5, <2>1 DEF GetLast
    <3>2. Datum(0, 0).ts = 0
      BY DatumIs
    <3> QED
      BY <3>1, <3>2
  <2>3. n \in 1..n /\ n - 1 \in 1..n
    BY <2>2
  <2>4. shown = P[n - 1].ts /\ shown \in Int /\ shown + QueryStep = P[n].ts
    <3>1. last.ts = P[n].ts
      BY <2>2 DEF Datum
    <3> QED
      BY <1>2, <1>5, <2>2, <2>3, <3>1 DEF QueryStep
  <2>5. CountersAt(P, shown) # {}
    BY <1>5, <2>4, ValueAtIs DEF Fresh
  <2>6. ASSUME NEW v \in CountersAt(P, shown) PROVE v = rise \div QueryStep /\ rise >= 0
    <3>1. PICK i \in 1..n, j \in 1..n : /\ P[i].ts = shown /\ P[j].ts = shown + QueryStep
                                        /\ P[j].val >= P[i].val
                                        /\ v = (P[j].val - P[i].val) \div QueryStep
      BY <1>1 DEF CountersAt
    <3>2. i = n - 1 /\ j = n
      BY <1>3, <2>3, <2>4, <3>1
    <3> QED
      BY <1>2, <2>1, <2>3, <3>1, <3>2
  <2>7. Fresh(P, shown) = CHOOSE v \in CountersAt(P, shown) : TRUE
    BY <1>5, <2>4, <2>5, ValueAtIs DEF Fresh
  <2>8. Fresh(P, shown) \in CountersAt(P, shown)
    BY <2>5, <2>7
  <2>9. Fresh(P, shown) = rise \div QueryStep /\ rise >= 0 /\ rise \in Int
    BY <1>2, <2>1, <2>3, <2>6, <2>8
  <2>10. last.val = rise \div QueryStep
    BY <2>2, <2>9 DEF Datum
  <2> QED
    BY <2>4, <2>9, <2>10
<1> QED
  BY <1>4, <1>5

LEMMA NothingIs == ASSUME NEW m PROVE EveryStep(<<>>, m)
BY DEF EveryStep

\* What of the cached points a query gets: a value for every step of a part of the range, and
\* nothing of the series is beyond that part.
Covers(C, P, a, n, j) ==
  /\ EveryStep(C, a * QueryStep + j * QueryStep)
  /\ C = <<>> => j = 0
  /\ C # <<>> => j + Len(C) <= n + 1
  /\ \A k \in 1..Len(C) : C[k].val = Fresh(P, C[k].ts)
  /\ \A m \in 0..n : m < j \/ m >= j + Len(C) => Fresh(P, a * QueryStep + m * QueryStep) = NaN

LEMMA CachedIs ==
  ASSUME NEW P, Sorted(P), NEW a \in Int, NEW n \in Nat
  PROVE  \E j \in Nat : Covers(Cached(P, type, QueryStep, a * QueryStep, (a + n) * QueryStep), P, a, n, j)
<1>0. PICK C : C = Cached(P, type, QueryStep, a * QueryStep, (a + n) * QueryStep)
  OBVIOUS
<1>1. PICK L \in Nat \ {0} : L = Len(P) /\ 1 \in 1..L /\ L \in 1..L
  BY SortedIs
<1>2. PICK c \in Int : P[1].ts = c * QueryStep
  BY <1>1 DEF Sorted
<1>3. PICK e \in Int : P[L].ts = e * QueryStep
  BY <1>1 DEF Sorted
<1>4. c <= e
  <2>1. P[1].ts <= P[L].ts
    BY <1>1, SortedIs
  <2> QED
    BY <1>2, <1>3, <2>1 DEF QueryStep
<1>5. PICK d : d = IF type = "GAUGE" THEN e ELSE e - 1
  OBVIOUS
<1>6. d \in Int /\ d >= c - 1 /\ LastShown(P) = d * QueryStep
  BY <1>1, <1>3, <1>4, <1>5 DEF LastShown, QueryStep
<1>7. \A t \in Int : Fresh(P, t) \in Int /\ (t < c * QueryStep \/ t > d * QueryStep => Fresh(P, t) = NaN)
  BY <1>2, <1>6, ValueAtBounds DEF Fresh
<1>8. PICK ts : ts = Ticks(c * QueryStep, d * QueryStep, QueryStep)
  OBVIOUS
<1>9. Ticking(ts, c, d - c + 1)
  <2>1. d \in Int /\ c <= d + 1
    BY <1>6
  <2> QED
    BY <1>8, <2>1, TicksAre, Zenon
<1>10. PICK N \in Nat : /\ N = d - c + 1 /\ N = Len(ts) /\ DOMAIN ts = 1..N /\ ts \in Seq(Int)
                       /\ \A k \in 1..N : ts[k] = c * QueryStep + (k - 1) * QueryStep
  BY <1>6, <1>9 DEF Ticking
<1>11. \A k \in 1..N : ts[k] \in Int
  BY <1>10
<1>12. PICK all : all = [k \in 1..N |-> Datum(ts[k], Fresh(P, ts[k]))]
  OBVIOUS
<1>13. all \in [1..N -> Data] /\ \A k \in 1..N : all[k].ts = ts[k] /\ all[k].val = Fresh(P, ts[k])
  <2>1. \A k \in 1..N : Datum(ts[k], Fresh(P, ts[k])) \in Data
    BY <1>7, <1>11, DatumIs
  <2>2. \A k \in 1..N : Datum(ts[k], Fresh(P, ts[k])).ts = ts[k] /\ Datum(ts[k], Fresh(P, ts[k])).val = Fresh(P, ts[k])
    BY <1>7, <1>11, DatumIs
  <2> QED
    BY <1>12, <2>1, <2>2
<1>14. Len(all) = N /\ all \in Seq(Data)
  BY <1>13
<1>15. EveryStep(all, c * QueryStep)
  BY <1>10, <1>13, <1>14 DEF EveryStep
<1>16. C = Within(all, a * QueryStep, (a + n) * QueryStep)
  <2>1. Last(P).ts - (IF type = "GAUGE" THEN 0 ELSE QueryStep) = d * QueryStep
    BY <1>6 DEF LastShown, Last
  <2>2. P[1].ts = c * QueryStep
    BY <1>2
  <2>3. [k \in DOMAIN ts |-> Datum(ts[k], ValueAt(P, type, QueryStep, ts[k]))] = all
    <3>1. DOMAIN ts = 1..N
      BY <1>10
    <3> QED
      BY <3>1, <1>12, Zenon DEF Fresh
  <2>4. C = LET last == d * QueryStep
                t   == Ticks(c * QueryStep, last, QueryStep)
            IN Within([k \in DOMAIN t |-> Datum(t[k], ValueAt(P, type, QueryStep, t[k]))], a * QueryStep, (a + n) * QueryStep)
    BY <1>0, <2>1, <2>2, Zenon DEF Cached
  <2> QED
    BY <1>8, <2>3, <2>4, Zenon
<1>17. PICK u \in Int, w \in Int : u = a - c /\ w = a + n - c
  OBVIOUS
<1>18. PICK lo \in Nat : lo = IF u < 0 THEN 0 ELSE u
  OBVIOUS
<1>19. PICK hi \in Int : hi = IF w > N - 1 THEN N - 1 ELSE w
  OBVIOUS
<1>20. /\ hi < lo => C = <<>>
       /\ lo <= hi => /\ C \in Seq(Data) /\ Len(C) = hi - lo + 1 /\ EveryStep(C, c * QueryStep + lo * QueryStep)
                      /\ \A k \in 1..Len(C) : C[k] = all[k + lo]
  <2>1. c * QueryStep \in Int
    BY DEF QueryStep
  <2>2. c * QueryStep + u * QueryStep = a * QueryStep /\ c * QueryStep + w * QueryStep = (a + n) * QueryStep
    BY <1>17 DEF QueryStep
  <2>3. C = Within(all, c * QueryStep + u * QueryStep, c * QueryStep + w * QueryStep)
    BY <1>16, <2>2
  <2>4. hi = IF w > Len(all) - 1 THEN Len(all) - 1 ELSE w
    BY <1>14, <1>19
  <2> QED
    <3>1. PICK x \in Int : x = c * QueryStep
      BY <2>1
    <3>2. EveryStep(all, x) /\ C = Within(all, x + u * QueryStep, x + w * QueryStep)
      BY <1>15, <2>3, <3>1, Zenon
    <3>3. Piece(C, all, x, AtLeast(u, 0), AtMostOf(w, Len(all) - 1))
      BY <3>1, <3>2, WithinIs, Zenon
    <3>4. lo = AtLeast(u, 0) /\ hi = AtMostOf(w, Len(all) - 1)
      BY <1>18, <2>4, Zenon DEF AtLeast, AtMostOf
    <3>5. Piece(C, all, c * QueryStep, lo, hi)
      BY <3>1, <3>3, <3>4, Zenon
    <3> QED
      BY <3>5, Zenon DEF Piece, EveryStep
<1>21. CASE hi < lo
  <2>1. C = <<>> /\ Len(C) = 0 /\ EveryStep(C, a * QueryStep + 0 * QueryStep)
    <3>1. C = <<>> /\ Len(C) = 0 /\ C \in Seq(Data)
      <4>1. <<>> \in Seq(Data) /\ Len(<<>>) = 0
        OBVIOUS
      <4> QED
        BY <1>20, <1>21, <4>1, Zenon
    <3>2. EveryStep(<<>>, a * QueryStep + 0 * QueryStep)
      BY NothingIs, Zenon
    <3> QED
      BY <3>1, <3>2, Zenon
  <2>2. ASSUME NEW m \in 0..n PROVE Fresh(P, a * QueryStep + m * QueryStep) = NaN
    <3>1. a + m < c \/ a + m > d
      BY <1>6, <1>10, <1>17, <1>18, <1>19, <1>21
    <3>2. PICK t \in Int : t = a * QueryStep + m * QueryStep
      BY DEF QueryStep
    <3>3. t < c * QueryStep \/ t > d * QueryStep
      BY <1>6, <3>1, <3>2 DEF QueryStep
    <3> QED
      BY <1>7, <3>2, <3>3
  <2>3. \A k \in 1..Len(C) : C[k].val = Fresh(P, C[k].ts)
    BY <2>1
  <2> QED
    BY <1>0, <2>1, <2>2, <2>3 DEF Covers
<1>22. CASE lo <= hi
  <2>1. /\ C \in Seq(Data) /\ Len(C) = hi - lo + 1 /\ EveryStep(C, c * QueryStep + lo * QueryStep)
        /\ \A k \in 1..Len(C) : C[k] = all[k + lo]
    BY <1>20, <1>22
  <2>2. PICK j : j = c + lo - a
    OBVIOUS
  <2>3. j \in Nat
    BY <1>17, <1>18, <2>2
  <2>4. c * QueryStep + lo * QueryStep = a * QueryStep + j * QueryStep
    BY <2>2 DEF QueryStep
  <2>5. j + Len(C) <= n + 1 /\ Len(C) >= 1 /\ C # <<>>
    <3>1. j + Len(C) <= n + 1 /\ Len(C) >= 1
      BY <1>17, <1>19, <1>22, <2>1, <2>2
    <3>2. Len(<<>>) = 0
      OBVIOUS
    <3> QED
      BY <3>1, <3>2
  <2>6. ASSUME NEW k \in 1..Len(C) PROVE C[k].val = Fresh(P, C[k].ts)
    <3>1. k + lo \in 1..N
      BY <1>10, <1>19, <1>22, <2>1, <2>6
    <3> QED
      BY <1>13, <2>1, <3>1
  <2>7. ASSUME NEW m \in 0..n, m < j \/ m >= j + Len(C)
        PROVE  Fresh(P, a * QueryStep + m * QueryStep) = NaN
    <3>0. N = d - c + 1 /\ d \in Int /\ Len(C) = hi - lo + 1
      BY <1>6, <1>10, <2>1
    <3>1. a + m < c \/ a + m > d
      BY ONLY <1>17, <1>18, <1>19, <1>22, <2>2, <2>7, <3>0
    <3>2. PICK t \in Int : t = a * QueryStep + m * QueryStep
      BY DEF QueryStep
    <3>3. t < c * QueryStep \/ t > d * QueryStep
      BY <1>6, <3>1, <3>2 DEF QueryStep
    <3> QED
      BY <1>7, <3>2, <3>3
  <2>8. EveryStep(C, a * QueryStep + j * QueryStep)
    BY <2>1, <2>4
  <2> QED
    BY <1>0, <2>3, <2>5, <2>6, <2>7, <2>8 DEF Covers
<1> QED
  BY <1>21, <1>22

\* The value that data with one for every step from step j on have m steps after the start.
ValueOf(s, j, m) == IF j <= m /\ m < j + Len(s) THEN s[m - j + 1].val ELSE NaN

\* What is cached comes before what is stored.
Joined(F, C, j, m) == IF ValueOf(C, j, m) # NaN THEN ValueOf(C, j, m) ELSE ValueOf(F, 0, m)

\* The first j of data with a value for every step are those before the time of the next.
LEMMA JunctionIs ==
  ASSUME NEW x \in Int, NEW j \in Nat, NEW F, EveryStep(F, x), NEW C, Len(C) >= 1,
         EveryStep(C, x + j * QueryStep), F = <<>> \/ j <= Len(F)
  PROVE  Junction(F, C) = IF F = <<>> THEN 0 ELSE j
<1>1. PICK n \in Nat : n = Len(F) /\ DOMAIN F = 1..n /\ \A k \in 1..n : F[k].ts = x + (k - 1) * 2
  BY DEF EveryStep, QueryStep
<1>2. C[1].ts = x + j * 2
  BY DEF EveryStep, QueryStep
<1>3. PICK i \in Nat : i = IF F = <<>> THEN 0 ELSE j
  OBVIOUS
<1>4. i <= n /\ (F = <<>> => n = 0)
  <2>1. F = <<>> => n = 0
    BY <1>1
  <2> QED
    BY <1>1, <1>3, <2>1
<1>5. ASSUME NEW k \in 1..n PROVE F[k].ts < C[1].ts <=> k \in 1..i
  <2>1. F # <<>>
    BY <1>4
  <2>2. F[k].ts = x + (k - 1) * 2
    BY <1>1
  <2> QED
    BY <1>2, <1>3, <2>1, <2>2
<1>6. {k \in DOMAIN F : F[k].ts < C[1].ts} = 1..i
  <2>1. \A k \in 1..i : k \in 1..n
    BY <1>4
  <2> QED
    BY <1>1, <1>5, <2>1
<1>7. Cardinality(1..i) = i
  BY FS_Interval
<1> QED
  BY <1>3, <1>6, <1>7 DEF Junction

\* The stored and the cached values are joined to data with a value for every step.
LEMMA MergedIs ==
  ASSUME NEW x \in Int, NEW j \in Nat, NEW F, EveryStep(F, x), NEW C, EveryStep(C, x + j * QueryStep),
         F = <<>> \/ j <= Len(F)
  PROVE  \E q \in Nat : /\ EveryStep(Merged(F, C, QueryStep), x + q * QueryStep)
                        /\ \A m \in Nat : ValueOf(Merged(F, C, QueryStep), q, m) = Joined(F, C, j, m)
<1>1. PICK S \in Nat : S = Len(F) /\ DOMAIN F = 1..S
  BY DEF EveryStep
<1>2. PICK K \in Nat : K = Len(C) /\ DOMAIN C = 1..K
  BY DEF EveryStep
<1>3. PICK M : M = Merged(F, C, QueryStep)
  OBVIOUS
<1>a. /\ F \in Seq(Data) /\ \A k \in 1..S : F[k] \in Data /\ F[k].ts = x + (k - 1) * 2
      /\ C \in Seq(Data) /\ \A k \in 1..K : C[k] \in Data /\ C[k].ts = (x + j * 2) + (k - 1) * 2
  BY <1>1, <1>2 DEF EveryStep, QueryStep
<1>4. CASE C = <<>>
  <2>1. M = F
    BY <1>3, <1>4, Zenon DEF Merged
  <2>2. K = 0
    BY <1>2, <1>4
  <2>3. ASSUME NEW m \in Nat PROVE ValueOf(M, 0, m) = Joined(F, C, j, m)
    <3>1. ValueOf(C, j, m) = NaN
      BY <1>2, <2>2 DEF ValueOf
    <3> QED
      BY <2>1, <3>1, Zenon DEF Joined
  <2>4. EveryStep(M, x + 0 * QueryStep)
    <3>1. x + 0 * QueryStep = x
      BY DEF QueryStep
    <3> QED
      BY <2>1, <3>1, Zenon
  <2> QED
    BY <1>3, <2>3, <2>4
<1>5. CASE C # <<>>
  <2>1. K >= 1
    <3>1. K = 0 => C = <<>>
      BY <1>2, <1>a
    <3> QED
      BY <1>5, <3>1
  <2>2. PICK i \in Nat : i = (IF F = <<>> THEN 0 ELSE j) /\ i = Junction(F, C)
    BY <1>2, <2>1, JunctionIs
  <2>3. (F = <<>> => S = 0 /\ i = 0) /\ i <= S
    <3>1. F = <<>> => S = 0
      BY <1>1
    <3> QED
      BY <1>1, <2>2, <3>1
  <2>4. PICK gap : gap = IF i = 0 THEN <<>> ELSE Ticks(F[i].ts + QueryStep, C[1].ts - QueryStep, QueryStep)
    OBVIOUS
  <2>5. DOMAIN gap = {}
    <3>1. CASE i = 0
      BY <2>4, <3>1
    <3>2. CASE i # 0
      <4>1. PICK b \in Int, e \in Int : b = F[i].ts + QueryStep /\ e = C[1].ts - QueryStep /\ e = b - 2
        <5>1. i \in 1..S /\ i = j /\ 1 \in 1..K
          BY <2>1, <2>2, <2>3, <3>2
        <5>2. F[i].ts = x + (i - 1) * 2 /\ C[1].ts = (x + j * 2) + (1 - 1) * 2
          BY <1>a, <5>1
        <5> QED
          BY <5>1, <5>2 DEF QueryStep
      <4>2. gap = Ticks(b, e, QueryStep)
        BY <2>4, <3>2, <4>1
      <4>3. (e - b) \div QueryStep + 1 = 0
        <5>1. PICK d \in Int : d = e - b /\ d = -2
          BY <4>1
        <5>2. d \div 2 = -1
          BY <5>1
        <5> QED
          BY <5>1, <5>2 DEF QueryStep
      <4>4. gap = [k \in 1..0 |-> b + (k - 1) * QueryStep]
        BY <4>2, <4>3, Zenon DEF Ticks
      <4> QED
        BY <4>4
    <3> QED
      BY <3>1, <3>2
  <2>6. PICK full : full = F \o [k \in DOMAIN gap |-> Datum(gap[k], NaN)]
    OBVIOUS
  <2>7. full = F
    <3>1. [k \in DOMAIN gap |-> Datum(gap[k], NaN)] = <<>>
      BY <2>5
    <3> QED
      BY <1>a, <2>6, <3>1
  <2>8. PICK span \in Nat : span = IF i + K > S THEN i + K ELSE S
    OBVIOUS
  <2>9. M = [k \in 1..span |-> IF k \in (i + 1)..(i + K) /\ (k > S \/ C[k - i].val # NaN) THEN C[k - i] ELSE F[k]]
    <3>1. PICK first : first = IF i < Len(F) THEN i ELSE Len(full)
      OBVIOUS
    <3>2. first = i
      BY <1>1, <2>3, <2>7, <3>1
    <3>3. PICK n : n = IF first + Len(C) > Len(full) THEN first + Len(C) ELSE Len(full)
      OBVIOUS
    <3>4. n = span
      BY <1>1, <1>2, <2>7, <2>8, <3>2, <3>3
    <3>5. M = [k \in 1..n |-> IF k \in (first + 1)..(first + Len(C)) /\ (k > Len(full) \/ C[k - first].val # NaN)
                              THEN C[k - first] ELSE full[k]]
      BY <1>3, <1>5, <2>2, <2>4, <2>6, <3>1, <3>3, Zenon DEF Merged
    <3> QED
      BY <1>1, <1>2, <2>7, <3>2, <3>4, <3>5, Zenon
  <2>10. PICK q \in Nat : q = IF F = <<>> THEN j ELSE 0
    OBVIOUS
  <2>11. q + i = j
    BY <2>2, <2>10
  <2>12. ASSUME NEW k \in 1..span
         PROVE  M[k] \in Data /\ M[k].ts = (x + q * 2) + (k - 1) * 2
    <3>1. CASE k \in (i + 1)..(i + K) /\ (k > S \/ C[k - i].val # NaN)
      <4>1. M[k] = C[k - i]
        BY <2>9, <3>1
      <4>2. k - i \in 1..K
        BY <3>1
      <4>3. C[k - i] \in Data /\ C[k - i].ts = (x + j * 2) + ((k - i) - 1) * 2
        BY <1>a, <4>2
      <4>4. (x + j * 2) + ((k - i) - 1) * 2 = (x + q * 2) + (k - 1) * 2
        BY <2>11
      <4> QED
        BY <4>1, <4>3, <4>4
    <3>2. CASE ~(k \in (i + 1)..(i + K) /\ (k > S \/ C[k - i].val # NaN))
      <4>1. M[k] = F[k]
        BY <2>9, <3>2
      <4>2. k \in 1..S
        BY <2>3, <2>8, <3>2
      <4>3. q = 0
        BY <2>3, <2>10, <4>2
      <4>4. F[k] \in Data /\ F[k].ts = x + (k - 1) * 2
        BY <1>a, <4>2
      <4> QED
        BY <4>1, <4>3, <4>4
    <3> QED
      BY <3>1, <3>2
  <2>13. M \in Seq(Data) /\ Len(M) = span
    <3>1. M \in [1..span -> Data]
      BY <2>9, <2>12
    <3> QED
      BY <3>1
  <2>14. EveryStep(M, x + q * QueryStep)
    BY <2>12, <2>13 DEF EveryStep, QueryStep
  <2>15. ASSUME NEW m \in Nat PROVE ValueOf(M, q, m) = Joined(F, C, j, m)
    <3>1. PICK k \in Int : k = m - q + 1
      OBVIOUS
    <3>2. q <= m /\ m < q + span <=> k \in 1..span
      BY <3>1
    <3>3. j <= m /\ m < j + K <=> k \in (i + 1)..(i + K)
      BY <2>11, <3>1
    <3>4. m - j + 1 = k - i
      BY <2>11, <3>1
    <3>5. ValueOf(C, j, m) = IF k \in (i + 1)..(i + K) THEN C[k - i].val ELSE NaN
      BY <1>2, <3>3, <3>4, Zenon DEF ValueOf
    <3>6. ValueOf(M, q, m) = IF k \in 1..span THEN M[k].val ELSE NaN
      BY <2>13, <3>1, <3>2, Zenon DEF ValueOf
    <3>7. ValueOf(F, 0, m) = IF k \in 1..S THEN F[k].val ELSE NaN
      <4>1. CASE F = <<>>
        <5>1. ~(m < 0 + S) /\ k \notin 1..S
          BY <2>3, <4>1
        <5> QED
          BY <1>1, <5>1, Zenon DEF ValueOf
      <4>2. CASE F # <<>>
        <5>1. k = m - 0 + 1 /\ (0 <= m /\ m < 0 + S <=> k \in 1..S)
          BY <2>10, <3>1, <4>2
        <5> QED
          BY <1>1, <5>1, Zenon DEF ValueOf
      <4> QED
        BY <4>1, <4>2
    <3>8. CASE k \in (i + 1)..(i + K) /\ (k > S \/ C[k - i].val # NaN)
      <4>1. k \in 1..span
        BY <2>8, <3>8
      <4>2. M[k] = C[k - i]
        BY <2>9, <3>8, <4>1
      <4>3. ValueOf(M, q, m) = C[k - i].val /\ ValueOf(C, j, m) = C[k - i].val
        BY <3>5, <3>6, <3>8, <4>1, <4>2, Zenon
      <4>4. C[k - i].val = NaN => ValueOf(F, 0, m) = NaN
        <5>1. C[k - i].val = NaN => k \notin 1..S
          BY <3>8
        <5> QED
          BY <3>7, <5>1, Zenon
      <4> QED
        BY <4>3, <4>4, Zenon DEF Joined
    <3>9. CASE ~(k \in (i + 1)..(i + K) /\ (k > S \/ C[k - i].val # NaN))
      <4>1. ValueOf(C, j, m) = NaN
        BY <3>5, <3>9, Zenon
      <4>2. Joined(F, C, j, m) = ValueOf(F, 0, m)
        BY <4>1, Zenon DEF Joined
      <4>3. k \in 1..span <=> k \in 1..S
        BY <2>3, <2>8, <3>9
      <4>4. k \in 1..span => M[k] = F[k]
        BY <2>9, <3>9
      <4> QED
        BY <3>6, <3>7, <4>2, <4>3, <4>4, Zenon
    <3> QED
      BY <3>8, <3>9
  <2> QED
    BY <1>3, <2>14, <2>15
<1> QED
  BY <1>4, <1>5

\* What the file has lies in the range it is asked for.
LEMMA FileIs ==
  ASSUME NEW x \in Int, NEW n \in Nat, NEW F, EveryStep(F, x), Len(F) <= n + 1
  PROVE  LET r == Within(F, x, x + n * QueryStep)
         IN  EveryStep(r, x) /\ Len(r) = Len(F) /\ \A m \in Nat : ValueOf(r, 0, m) = ValueOf(F, 0, m)
<1>1. PICK S \in Nat : S = Len(F)
  BY DEF EveryStep
<1>2. PICK r : r = Within(F, x, x + n * QueryStep)
  OBVIOUS
<1>3. x + 0 * QueryStep = x
  BY DEF QueryStep
<1>4. Piece(r, F, x, AtLeast(0, 0), AtMostOf(n, Len(F) - 1))
  <2>1. Piece(Within(F, x + 0 * QueryStep, x + n * QueryStep), F, x, AtLeast(0, 0), AtMostOf(n, Len(F) - 1))
    <3>1. 0 \in Int /\ n \in Int
      OBVIOUS
    <3> QED
      BY <3>1, WithinIs, Zenon
  <2> QED
    BY <1>2, <1>3, <2>1, Zenon
<1>5. AtLeast(0, 0) = 0 /\ AtMostOf(n, Len(F) - 1) = S - 1
  <2>1. S - 1 <= n
    BY <1>1
  <2> QED
    BY <1>1, <2>1 DEF AtLeast, AtMostOf
<1>6. Piece(r, F, x, 0, S - 1)
  BY <1>4, <1>5, Zenon
<1>7. CASE S = 0
  <2>1. S - 1 < 0
    BY <1>7
  <2>2. r = <<>>
    BY <1>6, <2>1, Zenon DEF Piece
  <2>3. Len(r) = 0
    BY <2>2
  <2>4. EveryStep(r, x)
    BY <2>2, NothingIs, Zenon
  <2>5. ASSUME NEW m \in Nat PROVE ValueOf(r, 0, m) = ValueOf(F, 0, m)
    <3>1. ~(m < 0 + 0)
      OBVIOUS
    <3> QED
      BY <1>1, <1>7, <2>3, <3>1, Zenon DEF ValueOf
  <2> QED
    BY <1>1, <1>2, <1>7, <2>3, <2>4, <2>5
<1>8. CASE S # 0
  <2>1. 0 <= S - 1
    BY <1>8
  <2>2. /\ EveryStep(r, x + 0 * QueryStep) /\ Len(r) = (S - 1) - 0 + 1
        /\ \A k \in 1..Len(r) : r[k] = F[k + 0]
    BY <1>6, <2>1, Zenon DEF Piece
  <2>3. EveryStep(r, x) /\ Len(r) = S
    <3>1. (S - 1) - 0 + 1 = S
      OBVIOUS
    <3> QED
      BY <1>3, <2>2, <3>1, Zenon
  <2>4. ASSUME NEW m \in Nat PROVE ValueOf(r, 0, m) = ValueOf(F, 0, m)
    <3>1. CASE m < S
      <4>1. m - 0 + 1 \in 1..S /\ (m - 0 + 1) + 0 = m - 0 + 1
        BY <3>1
      <4>2. r[m - 0 + 1] = F[m - 0 + 1]
        BY <2>2, <2>3, <4>1, Zenon
      <4> QED
        BY <1>1, <2>3, <4>2, Zenon DEF ValueOf
    <3>2. CASE ~(m < S)
      <4>1. ~(m < 0 + S)
        BY <3>2
      <4> QED
        BY <1>1, <2>3, <4>1, Zenon DEF ValueOf
    <3> QED
      BY <3>1, <3>2
  <2> QED
    BY <1>1, <1>2, <2>3, <2>4
<1> QED
  BY <1>7, <1>8

\* One value for every step, the cached one before the file's.
Complete(answer, F, P, a, steps) ==
  /\ answer \in Seq(Data) /\ Len(answer) = steps
  /\ \A k \in 1..steps :
       LET t == a * QueryStep + (k - 1) * QueryStep
       IN  answer[k] = Datum(t, IF Fresh(P, t) # NaN THEN Fresh(P, t) ELSE ValueOf(F, 0, k - 1))

\* A query over n steps from a multiple of the step on.
LEMMA QueryIs ==
  ASSUME NEW P, Sorted(P), type \in {"GAUGE", "COUNTER"}, NEW a \in Int, NEW n \in Nat, n >= 2,
         NEW start \in Int, NEW end \in Int,
         StartTs(start, QueryStep) = a * QueryStep, EndTs(end, QueryStep) = (a + n) * QueryStep,
         NEW steps \in Nat, steps = (IF type = "GAUGE" THEN n + 1 ELSE n),
         NEW F, EveryStep(F, a * QueryStep), F = <<>> \/ Len(F) = steps
  PROVE  Complete(Query(F, P, type, QueryStep, start, end), F, P, a, steps)
<1>1. PICK x \in Int, y \in Int : x = a * QueryStep /\ y = (a + n) * QueryStep /\ y = x + n * QueryStep
  BY DEF QueryStep
<1>2. PICK asked : asked = Ticks(x, IF type = "GAUGE" THEN y ELSE y - QueryStep, QueryStep)
  OBVIOUS
<1>3. PICK C : C = Cached(P, type, QueryStep, x, y)
  OBVIOUS
<1>4. PICK R : R = Within(F, x, y)
  OBVIOUS
<1>5. PICK M : M = Merged(R, C, QueryStep)
  OBVIOUS
<1>6. PICK r : r = Formatted(M, asked)
  OBVIOUS
<1>7. r = Query(F, P, type, QueryStep, start, end)
  <2>1. ~(y - x - QueryStep < 1)
    BY <1>1 DEF QueryStep
  <2>2. P # <<>>
    <3>1. Len(P) # 0
      BY SortedIs
    <3> QED
      BY <3>1
  <2> QED
    BY <1>1, <1>2, <1>3, <1>4, <1>5, <1>6, <2>1, <2>2, Zenon DEF Query
<1>8. /\ asked \in Seq(Int) /\ Len(asked) = steps
      /\ \A k \in 1..steps : asked[k] = x + (k - 1) * QueryStep
  <2>1. PICK d \in Int : d = a + steps - 1
    OBVIOUS
  <2>2. (IF type = "GAUGE" THEN y ELSE y - QueryStep) = d * QueryStep
    BY <1>1, <2>1 DEF QueryStep
  <2>3. a <= d + 1 /\ d - a + 1 = steps
    BY <2>1
  <2>4. asked = Ticks(a * QueryStep, d * QueryStep, QueryStep)
    BY <1>1, <1>2, <2>2, Zenon
  <2>5. Ticking(asked, a, steps)
    BY <2>3, <2>4, TicksAre, Zenon
  <2> QED
    BY <1>1, <2>5, Zenon DEF Ticking
<1>9. EveryStep(F, x) /\ Len(F) <= n + 1
  <2>1. F = <<>> => Len(F) = 0
    OBVIOUS
  <2> QED
    BY <1>1, <2>1
<1>10. EveryStep(R, x) /\ Len(R) = Len(F) /\ \A m \in Nat : ValueOf(R, 0, m) = ValueOf(F, 0, m)
  BY ONLY <1>1, <1>4, <1>9, FileIs
<1>11. C = Cached(P, type, QueryStep, a * QueryStep, (a + n) * QueryStep)
  BY <1>1, <1>3, Zenon
<1>b. PICK j \in Nat : Covers(C, P, a, n, j)
  BY <1>11, CachedIs, Zenon
<1>12. /\ EveryStep(C, a * QueryStep + j * QueryStep)
       /\ C = <<>> => j = 0
       /\ C # <<>> => j + Len(C) <= n + 1
       /\ \A k \in 1..Len(C) : C[k].val = Fresh(P, C[k].ts)
       /\ \A m \in 0..n : m < j \/ m >= j + Len(C) => Fresh(P, a * QueryStep + m * QueryStep) = NaN
  BY <1>b, Zenon DEF Covers
<1>13. PICK K \in Nat : K = Len(C)
  BY <1>12 DEF EveryStep
<1>14. R = <<>> \/ j <= Len(R)
  <2>1. CASE C = <<>>
    <3>1. Len(R) \in Nat
      BY <1>10 DEF EveryStep
    <3> QED
      BY <1>12, <2>1, <3>1
  <2>2. CASE C # <<>>
    <3>1. K # 0
      <4>1. C \in Seq(Data)
        BY <1>12 DEF EveryStep
      <4> QED
        BY <1>13, <2>2, <4>1
    <3>2. j <= steps
      BY <1>12, <1>13, <2>2, <3>1
    <3>3. F = <<>> => Len(R) = 0
      BY <1>10
    <3>4. Len(R) = 0 => R = <<>>
      <4>1. R \in Seq(Data)
        BY <1>10 DEF EveryStep
      <4> QED
        BY <4>1
    <3> QED
      BY <1>10, <3>2, <3>3, <3>4
  <2> QED
    BY <2>1, <2>2
<1>15. EveryStep(C, x + j * QueryStep)
  BY <1>1, <1>12, Zenon
<1>16. PICK q \in Nat : /\ EveryStep(M, x + q * QueryStep)
                        /\ \A m \in Nat : ValueOf(M, q, m) = Joined(R, C, j, m)
  BY ONLY <1>5, <1>10, <1>14, <1>15, MergedIs
<1>17. /\ r \in Seq(Data) /\ Len(r) = steps
       /\ \A k \in 1..steps : r[k] = IF q < k /\ k <= q + Len(M) THEN M[k - q] ELSE Datum(asked[k], NaN)
  BY ONLY <1>6, <1>8, <1>16, FormattedFits
<1>18. ASSUME NEW k \in 1..steps, NEW t, t = x + (k - 1) * QueryStep
       PROVE  r[k] = Datum(t, IF Fresh(P, t) # NaN THEN Fresh(P, t) ELSE ValueOf(F, 0, k - 1))
  <2>1. PICK m \in Nat : m = k - 1 /\ m \in 0..n /\ t = x + m * QueryStep
    BY <1>18
  <2>2. t \in Int
    BY <2>1 DEF QueryStep
  <2>3. ValueOf(C, j, m) = Fresh(P, t)
    <3>1. CASE j <= m /\ m < j + K
      <4>1. PICK i \in 1..K : i = m - j + 1
        BY <3>1
      <4>2. C[i].ts = (x + j * QueryStep) + (i - 1) * QueryStep
        BY <1>13, <1>15 DEF EveryStep
      <4>3. (x + j * QueryStep) + (i - 1) * QueryStep = t
        BY <2>1, <4>1 DEF QueryStep
      <4>4. C[i].val = Fresh(P, t)
        BY <1>12, <1>13, <4>2, <4>3
      <4> QED
        BY <1>13, <3>1, <4>1, <4>4, Zenon DEF ValueOf
    <3>2. CASE ~(j <= m /\ m < j + K)
      <4>1. m < j \/ m >= j + K
        BY <3>2
      <4>2. Fresh(P, a * QueryStep + m * QueryStep) = NaN
        BY <1>12, <1>13, <2>1, <4>1, Zenon
      <4>3. Fresh(P, t) = NaN
        BY <1>1, <2>1, <4>2, Zenon
      <4> QED
        BY <1>13, <3>2, <4>3, Zenon DEF ValueOf
    <3> QED
      BY <3>1, <3>2
  <2>4. ValueOf(M, q, m) = IF Fresh(P, t) # NaN THEN Fresh(P, t) ELSE ValueOf(F, 0, k - 1)
    <3>1. ValueOf(M, q, m) = Joined(R, C, j, m) /\ ValueOf(R, 0, m) = ValueOf(F, 0, m)
      BY <1>10, <1>16
    <3> QED
      BY <2>1, <2>3, <3>1, Zenon DEF Joined
  <2>5. r[k] = Datum(t, ValueOf(M, q, m))
    <3>1. PICK L \in Nat : L = Len(M)
      BY <1>16 DEF EveryStep
    <3>2. (q < k /\ k <= q + L) <=> (q <= m /\ m < q + L)
      BY <2>1
    <3>3. CASE q < k /\ k <= q + L
      <4>1. PICK i \in 1..L : i = k - q /\ i = m - q + 1
        BY <2>1, <3>3
      <4>2. r[k] = M[i]
        BY <1>17, <3>1, <3>3, <4>1, Zenon
      <4>3. M[i] \in Data /\ M[i].ts = (x + q * QueryStep) + (i - 1) * QueryStep
        BY <1>16, <3>1 DEF EveryStep
      <4>4. (x + q * QueryStep) + (i - 1) * QueryStep = t
        BY <2>1, <4>1 DEF QueryStep
      <4>5. M[i] = Datum(t, M[i].val)
        BY <4>3, <4>4 DEF Datum, Data
      <4>6. ValueOf(M, q, m) = M[i].val
        BY <3>1, <3>2, <3>3, <4>1, Zenon DEF ValueOf
      <4> QED
        BY <4>2, <4>5, <4>6, Zenon
    <3>4. CASE ~(q < k /\ k <= q + L)
      <4>1. r[k] = Datum(asked[k], NaN)
        BY <1>17, <3>1, <3>4, Zenon
      <4>2. asked[k] = t
        BY <1>8, <1>18, Zenon
      <4>3. ValueOf(M, q, m) = NaN
        BY <3>1, <3>2, <3>4, Zenon DEF ValueOf
      <4> QED
        BY <4>1, <4>2, <4>3, Zenon
    <3> QED
      BY <3>3, <3>4
  <2> QED
    BY <2>4, <2>5, Zenon
<1> QED
  BY <1>1, <1>7, <1>17, <1>18, Zenon DEF Complete

\* A query is about whole steps.
LEMMA RangeIs ==
  ASSUME NEW start \in Int, NEW end \in Int
  PROVE  \E a \in Int, b \in Int : /\ StartTs(start, QueryStep) = a * QueryStep
                                   /\ EndTs(end, QueryStep) = b * QueryStep
<1>1. StartTs(start, QueryStep) = (start \div 2) * 2
  BY DEF StartTs, QueryStep
<1>2. EndTs(end, QueryStep) = (end \div 2 + 1) * 2
  BY DEF EndTs, QueryStep
<1>3. start \div 2 \in Int /\ end \div 2 + 1 \in Int
  OBVIOUS
<1> QED
  BY <1>1, <1>2, <1>3 DEF QueryStep

\* src/graph/api/graph.go:127 (Query): any two times, any cached points and any file with a
\* value for every step, or none: the answer is the cached values with the file's between.
THEOREM QueryIsEveryStep ==
  ASSUME NEW P, Sorted(P), type \in {"GAUGE", "COUNTER"}, NEW start \in Int, NEW end \in Int,
         NEW from, from = StartTs(start, QueryStep),
         NEW to, to = EndTs(end, QueryStep) - (IF type = "GAUGE" THEN 0 ELSE QueryStep),
         EndTs(end, QueryStep) - from > QueryStep,
         NEW steps, steps = (to - from) \div QueryStep + 1,
         NEW F, EveryStep(F, from), F = <<>> \/ Len(F) = steps,
         NEW answer, answer = Query(F, P, type, QueryStep, start, end)
  PROVE  /\ Len(answer) = steps
         /\ \A k \in 1..steps :
              LET t == from + (k - 1) * QueryStep
              IN  answer[k] = Datum(t, IF Fresh(P, t) # NaN THEN Fresh(P, t) ELSE ValueOf(F, 0, k - 1))
<1>1. PICK a \in Int, b \in Int : from = a * QueryStep /\ EndTs(end, QueryStep) = b * QueryStep
  BY RangeIs
<1>2. PICK n \in Nat : n = b - a /\ n >= 2
  BY <1>1 DEF QueryStep
<1>3. steps = (IF type = "GAUGE" THEN n + 1 ELSE n) /\ steps \in Nat
  <2>0. /\ to = EndTs(end, QueryStep) - (IF type = "GAUGE" THEN 0 ELSE QueryStep)
        /\ steps = (to - from) \div QueryStep + 1
    OBVIOUS
  <2>1. PICK e \in Int : e = (IF type = "GAUGE" THEN b ELSE b - 1) /\ to = e * QueryStep
    BY ONLY <1>1, <2>0 DEF QueryStep
  <2>2. steps = e - a + 1
    BY ONLY <1>1, <2>0, <2>1 DEF QueryStep
  <2> QED
    BY <1>2, <2>1, <2>2
<1>4. StartTs(start, QueryStep) = a * QueryStep /\ EndTs(end, QueryStep) = (a + n) * QueryStep
  <2>1. b = a + n
    BY <1>2
  <2> QED
    BY <1>1, <2>1
<1>5. EveryStep(F, a * QueryStep)
  BY <1>1, Zenon
<1>6. Complete(answer, F, P, a, steps)
  BY <1>2, <1>3, <1>4, <1>5, QueryIs
<1> QED
  BY <1>1, <1>6, Zenon DEF Complete

\* A value is shown at a multiple of the step.
LEMMA ShownIs ==
  ASSUME NEW P, Sorted(P), NEW t \in Int, Fresh(P, t) # NaN, type \in {"GAUGE", "COUNTER"}
  PROVE  \E c \in Int : t = c * QueryStep
<1>1. PICK n \in Nat : n = Len(P) /\ \A i \in 1..n : \E c \in Int : P[i].ts = c * QueryStep
  BY DEF Sorted
<1>2. \E i \in 1..n : P[i].ts = t
  <2>1. CASE type = "GAUGE"
    BY <1>1, <2>1, ValueAtIs DEF Fresh, GaugesAt
  <2>2. CASE type # "GAUGE"
    BY <1>1, <2>2, ValueAtIs DEF Fresh, CountersAt
  <2> QED
    BY <2>1, <2>2
<1> QED
  BY <1>1, <1>2

\* What AnswerIsComplete says of one query and one file.
Answered(P, start, end, from, to, steps, vals) ==
  LET file   == [k \in DOMAIN vals |-> Datum(from + (k - 1) * QueryStep, vals[k])]
      last   == GetLast(P, type, QueryStep)
      shown  == last.ts - (IF type = "GAUGE" THEN 0 ELSE QueryStep)
      answer == Query(file, P, type, QueryStep, start, end)
  IN  /\ Len(answer) = steps
      /\ \A k \in 1..steps :
           LET t == from + (k - 1) * QueryStep
           IN  answer[k] = Datum(t, IF Fresh(P, t) # NaN THEN Fresh(P, t) ELSE IF vals = <<>> THEN NaN ELSE vals[k])
      /\ (last.ts # 0 /\ shown \in from..to /\ Fresh(P, shown) # NaN) => Datum(shown, last.val) \in Range(answer)

\* src/graph/api/graph.go:127 (Query), 381 (GetLast): whatever the file and the cache have of
\* a series, a query is answered with one value for every step it asks for, the cached one
\* before the file's, and the newest value is among them.
THEOREM QueriesAreComplete == MCSpec => []AnswerIsComplete
<1>1. InputsTyped => AnswerIsComplete
  <2> SUFFICES ASSUME SeriesTyped PROVE AnswerIsComplete
    BY DEF InputsTyped
  <2>0. SUFFICES ASSUME pts # <<>>, \A n \in DOMAIN pts : pts[n].val >= 0,
                        NEW start \in {3, 6}, NEW end \in {5, 8, 9}
                 PROVE  LET from  == StartTs(start, QueryStep)
                            to    == EndTs(end, QueryStep) - (IF type = "GAUGE" THEN 0 ELSE QueryStep)
                            steps == ((to - from) \div QueryStep) + 1
                        IN  \A vals \in Answers(steps) : EndTs(end, QueryStep) - from > QueryStep =>
                              Answered(Points, start, end, from, to, steps, vals)
    BY Zenon DEF AnswerIsComplete, Answered, Fresh
  <2> DEFINE from  == StartTs(start, QueryStep)
             to    == EndTs(end, QueryStep) - (IF type = "GAUGE" THEN 0 ELSE QueryStep)
             steps == ((to - from) \div QueryStep) + 1
             P     == Points
  <2>1. /\ from = StartTs(start, QueryStep) /\ P = Points
        /\ to = EndTs(end, QueryStep) - (IF type = "GAUGE" THEN 0 ELSE QueryStep)
        /\ steps = ((to - from) \div QueryStep) + 1
    OBVIOUS
  <2> SUFFICES ASSUME NEW vals \in Answers(steps), EndTs(end, QueryStep) - from > QueryStep
               PROVE  Answered(P, start, end, from, to, steps, vals)
    OBVIOUS
  <2> HIDE DEF from, to, steps, P
  <2>2. PICK file, last, shown, answer :
           /\ file = [k \in DOMAIN vals |-> Datum(from + (k - 1) * QueryStep, vals[k])]
           /\ last = GetLast(P, type, QueryStep)
           /\ shown = last.ts - (IF type = "GAUGE" THEN 0 ELSE QueryStep)
           /\ answer = Query(file, P, type, QueryStep, start, end)
    OBVIOUS
  <2>3. Sorted(P) /\ type \in {"GAUGE", "COUNTER"}
    BY <2>0, <2>1, PointsSorted DEF SeriesTyped
  <2>11. start \in Int /\ end \in Int
    OBVIOUS
  <2>4. PICK a \in Int, b \in Int : from = a * QueryStep /\ EndTs(end, QueryStep) = b * QueryStep
    BY <2>1, <2>11, RangeIs
  <2>5. PICK n \in Nat : n = b - a /\ n >= 2
    BY <2>4 DEF QueryStep
  <2>6. steps = (IF type = "GAUGE" THEN n + 1 ELSE n) /\ steps \in Nat
    <3>1. PICK e \in Int : e = (IF type = "GAUGE" THEN b ELSE b - 1) /\ to = e * QueryStep
      BY <2>1, <2>4 DEF QueryStep
    <3>2. steps = e - a + 1
      BY <2>1, <2>4, <3>1 DEF QueryStep
    <3> QED
      BY <2>5, <3>1, <3>2
  <2>7. PICK L \in Nat : DOMAIN vals = 1..L /\ (vals = <<>> \/ L = steps) /\ (vals = <<>> => L = 0)
                         /\ \A k \in 1..L : vals[k] \in Int
    <3>1. CASE vals = <<>>
      <4>1. DOMAIN vals = 1..0
        BY <3>1
      <4> QED
        BY <3>1, <4>1
    <3>2. CASE vals \in [1..steps -> {NaN, 7}]
      <4>1. DOMAIN vals = 1..steps /\ \A k \in 1..steps : vals[k] \in Int
        BY <3>2 DEF NaN
      <4>2. vals = <<>> => steps = 0
        <5>1. 1 \in 1..steps
          BY <2>5, <2>6
        <5>2. vals # <<>>
          <6>1. DOMAIN <<>> = {}
            OBVIOUS
          <6>2. 1 \in DOMAIN vals
            BY <4>1, <5>1
          <6> QED
            BY <6>1, <6>2, Zenon
        <5> QED
          BY <5>2
      <4> QED
        BY <2>6, <4>1, <4>2
    <3> QED
      BY <3>1, <3>2 DEF Answers
  <2>8. /\ file \in Seq(Data) /\ Len(file) = L
        /\ \A k \in 1..L : file[k].ts = from + (k - 1) * QueryStep /\ file[k].val = vals[k]
    <3>1. ASSUME NEW k \in 1..L
          PROVE  LET d == Datum(from + (k - 1) * QueryStep, vals[k])
                 IN  d \in Data /\ d.ts = from + (k - 1) * QueryStep /\ d.val = vals[k]
      <4>1. from + (k - 1) * QueryStep \in Int /\ vals[k] \in Int
        BY <2>4, <2>7 DEF QueryStep
      <4> QED
        BY <4>1, DatumIs
    <3>2. file \in [1..L -> Data]
      BY <2>2, <2>7, <3>1
    <3> QED
      BY <2>2, <2>7, <3>1, <3>2
  <2>9. EveryStep(file, a * QueryStep) /\ (file = <<>> \/ Len(file) = steps)
    <3>1. L = 0 => file = <<>>
      BY <2>8
    <3> QED
      BY <2>4, <2>7, <2>8, <3>1 DEF EveryStep
  <2>10. StartTs(start, QueryStep) = a * QueryStep /\ EndTs(end, QueryStep) = (a + n) * QueryStep
    <3>1. b = a + n
      BY <2>5
    <3> QED
      BY <2>1, <2>4, <3>1
  <2>b. Complete(answer, file, P, a, steps)
    BY <2>2, <2>3, <2>5, <2>6, <2>9, <2>10, <2>11, QueryIs
  <2>12. /\ answer \in Seq(Data) /\ Len(answer) = steps
         /\ \A k \in 1..steps :
              LET t == a * QueryStep + (k - 1) * QueryStep
              IN  answer[k] = Datum(t, IF Fresh(P, t) # NaN THEN Fresh(P, t) ELSE ValueOf(file, 0, k - 1))
    BY <2>b, Zenon DEF Complete
  <2>13. ASSUME NEW k \in 1..steps
         PROVE  ValueOf(file, 0, k - 1) = IF vals = <<>> THEN NaN ELSE vals[k]
    <3>1. CASE vals = <<>>
      <4>1. ~(k - 1 < 0 + L)
        BY <2>7, <3>1
      <4> QED
        BY <2>8, <3>1, <4>1, Zenon DEF ValueOf
    <3>2. CASE vals # <<>>
      <4>1. 0 <= k - 1 /\ k - 1 < 0 + L /\ (k - 1) - 0 + 1 = k /\ k \in 1..L
        BY <2>6, <2>7, <3>2
      <4> QED
        BY <2>8, <3>2, <4>1, Zenon DEF ValueOf
    <3> QED
      BY <3>1, <3>2
  <2>14. ASSUME NEW k \in 1..steps, NEW t, t = from + (k - 1) * QueryStep
         PROVE  answer[k] = Datum(t, IF Fresh(P, t) # NaN THEN Fresh(P, t) ELSE IF vals = <<>> THEN NaN ELSE vals[k])
    BY <2>4, <2>12, <2>13, <2>14, Zenon
  <2>15. ASSUME last.ts # 0, shown \in from..to, Fresh(P, shown) # NaN
         PROVE  Datum(shown, last.val) \in Range(answer)
    <3>1. shown \in Int /\ Fresh(P, shown) = last.val
      BY <2>2, <2>3, <2>15, LastIs
    <3>2. \E i \in Int : shown = i * QueryStep
      BY <2>2, <2>3, <2>15, <3>1, ShownIs
    <3>3. PICK i \in Int : shown = i * QueryStep
      BY <3>2
    <3>4. PICK k \in Int : k = i - a + 1
      OBVIOUS
    <3>5. shown = from + (k - 1) * QueryStep
      BY <2>4, <3>3, <3>4 DEF QueryStep
    <3>6. k \in 1..steps
      <4>1. PICK e \in Int : e = (IF type = "GAUGE" THEN b ELSE b - 1) /\ to = e * QueryStep
        BY <2>1, <2>4 DEF QueryStep
      <4>2. a <= i /\ i <= e
        BY <2>4, <2>15, <3>3, <4>1 DEF QueryStep
      <4> QED
        BY <2>5, <2>6, <3>4, <4>1, <4>2
    <3>7. answer[k] = Datum(shown, Fresh(P, shown))
      BY <2>14, <2>15, <3>5, <3>6
    <3>8. k \in DOMAIN answer
      BY <2>12, <3>6
    <3> QED
      BY <3>1, <3>7, <3>8 DEF Range
  <2> QED
    BY <2>2, <2>12, <2>14, <2>15, Zenon DEF Answered
<1> QED
  BY <1>1, InputsInit, InputsStep, PTL DEF MCSpec
=============================================================================
