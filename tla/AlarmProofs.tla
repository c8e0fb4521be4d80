----------------------------- MODULE AlarmProofs -----------------------------
(* Proofs about alarm (AlarmConsume) and what brings its messages to people     *)
(* (FalconMessage).                                                             *)
EXTENDS MCAlarm, FiniteSetTheorems, WellFoundedInduction, TLAPS

-----------------------------------------------------------------------------
(* Induction over the natural numbers, for a set: the set of those that have a  *)
(* property, which need not be an operator.                                     *)

\* A set of natural numbers has a least one.
LEMMA LeastNumber ==
    ASSUME NEW T, T \subseteq Nat, T # {}
    PROVE  \E x \in T : \A y \in T : ~(y < x)
<1> DEFINE R == OpToRel(<, Nat)
<1>1. IsWellFoundedOn(R, Nat)
  BY NatLessThanWellFounded, Zenon
<1> HIDE DEF R
<1>2. \E x \in T : \A y \in T : ~ (<<y, x>> \in R)
  BY <1>1, WFMin
<1>3. \A x, y \in Nat : y < x => <<y, x>> \in R
  BY DEF R, OpToRel
<1> QED
  BY <1>2, <1>3

\* A set that has 0, and with a number the next, has every number.
LEMMA EveryNumber ==
    ASSUME NEW S, 0 \in S, \A n \in Nat : n \in S => n + 1 \in S
    PROVE  \A n \in Nat : n \in S
<1> DEFINE T == Nat \ S
<1>1. SUFFICES ASSUME T # {} PROVE FALSE
  OBVIOUS
<1>2. PICK x \in T : \A y \in T : ~(y < x)
  BY <1>1, LeastNumber
<1>3. x # 0 /\ x \in Nat
  BY <1>2
<1>4. x - 1 \in Nat /\ x - 1 \notin T
  BY <1>2, <1>3
<1> QED
  BY <1>2, <1>4

-----------------------------------------------------------------------------
(* What a reader has to do for an event                                         *)

\* A sequence without repetition to which something new is added.
LEMMA AppendNew ==
    ASSUME NEW X, NEW s \in Seq(X), NEW x \in X, IsInjective(s), x \notin Range(s)
    PROVE  /\ Append(s, x) \in Seq(X) /\ IsInjective(Append(s, x))
           /\ Range(Append(s, x)) = Range(s) \cup {x}
<1> DEFINE t == Append(s, x)
<1>1. /\ t \in Seq(X) /\ Len(t) = Len(s) + 1 /\ DOMAIN t = 1..Len(s) + 1
      /\ t[Len(s) + 1] = x /\ \A n \in 1..Len(s) : t[n] = s[n]
  OBVIOUS
<1>2. DOMAIN s = 1..Len(s) /\ Len(s) \in Nat
  OBVIOUS
<1> HIDE DEF t
<1>3. IsInjective(t)
  BY <1>1, <1>2 DEF IsInjective, Range
<1>4. Range(t) = Range(s) \cup {x}
  <2>1. Len(s) + 1 \in DOMAIN t
    BY <1>1, <1>2
  <2> QED
    BY <1>1, <1>2, <2>1 DEF Range
<1> QED
  BY <1>1, <1>3, <1>4 DEF t

\* Chosen lists those of the kinds that are in a set, each once.
LEMMA ChosenOnce ==
    ASSUME NEW S
    PROVE  /\ Chosen(S) \in Seq(Channels) /\ IsInjective(Chosen(S))
           /\ Range(Chosen(S)) = Channels \cap S
<1> DEFINE L == Len(Kinds)
           next(n, q) == IF Kinds[n] \in S THEN Append(q, Kinds[n]) ELSE q
           Is(f, m) == f = [n \in 0..m |-> IF n = 0 THEN << >> ELSE next(n, f[n - 1])]
           first == CHOOSE f : f = [n \in 0..L |-> IF n = 0 THEN << >>
                                     ELSE IF Kinds[n] \in S THEN Append(f[n - 1], Kinds[n]) ELSE f[n - 1]]
<1>1. Chosen(S) = first[L]
  BY DEF Chosen
<1>2. Kinds \in Seq(Channels) /\ L \in Nat /\ DOMAIN Kinds = 1..L /\ IsInjective(Kinds)
  BY AlarmAssumption DEF Channels
<1>3. \A m \in Nat : \E f : Is(f, m)
  <2> DEFINE N == {m \in Nat : \E f : Is(f, m)}
  <2>1. 0 \in N
    <3>1. Is([n \in 0..0 |-> << >>], 0)
      OBVIOUS
    <3> QED
      BY <3>1
  <2>2. ASSUME NEW m \in Nat, m \in N PROVE m + 1 \in N
    <3>1. PICK f : Is(f, m)
      BY <2>2
    <3> DEFINE g == [n \in 0..m + 1 |-> IF n <= m THEN f[n] ELSE next(m + 1, f[m])]
               h == [n \in 0..m + 1 |-> IF n = 0 THEN << >> ELSE next(n, g[n - 1])]
    <3>2. ASSUME NEW n \in 0..m + 1 PROVE g[n] = h[n]
      <4>1. CASE n = 0
        BY <3>1, <4>1
      <4>2. CASE n \in 1..m
        <5> HIDE DEF next
        <5>0. n \in 0..m /\ n # 0 /\ n - 1 \in 0..m /\ n - 1 \in 0..m + 1
          BY <4>2
        <5>1. f[n] = next(n, f[n - 1]) /\ g[n] = f[n] /\ g[n - 1] = f[n - 1]
          BY <3>1, <5>0
        <5> QED
          BY <4>2, <5>1
      <4>3. CASE n = m + 1
        <5>1. g[m + 1] = next(m + 1, f[m]) /\ g[m] = f[m]
          OBVIOUS
        <5>2. (m + 1) - 1 = m /\ m + 1 # 0
          OBVIOUS
        <5> QED
          BY <4>3, <5>1, <5>2
      <4> QED
        BY <4>1, <4>2, <4>3
    <3>3. g = h
      BY <3>2
    <3> HIDE DEF g, next
    <3>4. Is(g, m + 1)
      BY <3>3
    <3>5. \E x : Is(x, m + 1)
      BY <3>4, Zenon
    <3> QED
      BY <3>5
  <2> HIDE DEF N
  <2>3. \A m \in Nat : m \in N
    BY <2>1, <2>2, EveryNumber
  <2> QED
    BY <2>3 DEF N
<1>4. Is(first, L)
  BY <1>2, <1>3
<1> HIDE DEF first
<1>5. first[0] = << >> /\ \A n \in 1..L : first[n] = next(n, first[n - 1])
  <2> HIDE DEF next, L
  <2>1. \A n \in 0..L : first[n] = IF n = 0 THEN << >> ELSE next(n, first[n - 1])
    BY <1>4
  <2>2. 0 \in 0..L /\ \A n \in 1..L : n \in 0..L /\ n # 0
    BY <1>2
  <2> QED
    BY <2>1, <2>2
<1> DEFINE Upto(n) == {Kinds[k] : k \in 1..n}
           Good(n) == n <= L => /\ first[n] \in Seq(Channels) /\ IsInjective(first[n])
                                /\ Range(first[n]) = Upto(n) \cap S
<1>6. \A n \in Nat : Good(n)
  <2> DEFINE N == {m \in Nat : Good(m)}
  <2>1. 0 \in N
    <3>1. << >> \in Seq(Channels) /\ IsInjective(<< >>) /\ Range(<< >>) = {}
      BY DEF IsInjective, Range
    <3>2. Upto(0) = {}
      OBVIOUS
    <3> QED
      BY <1>5, <3>1, <3>2
  <2>2. ASSUME NEW m \in Nat, m \in N PROVE m + 1 \in N
    <3>1. SUFFICES ASSUME m + 1 <= L PROVE Good(m + 1)
      OBVIOUS
    <3>2. first[m] \in Seq(Channels) /\ IsInjective(first[m]) /\ Range(first[m]) = Upto(m) \cap S
      BY <1>2, <2>2, <3>1
    <3>3. first[m + 1] = next(m + 1, first[m])
      <4>1. m + 1 \in 1..L /\ (m + 1) - 1 = m
        BY <1>2, <3>1
      <4> QED
        BY <1>5, <4>1
    <3>4. Kinds[m + 1] \in Channels /\ Upto(m + 1) = Upto(m) \cup {Kinds[m + 1]} /\ Kinds[m + 1] \notin Upto(m)
      BY <1>2, <3>1 DEF IsInjective
    <3> HIDE DEF Upto
    <3>5. CASE Kinds[m + 1] \in S
      BY <3>2, <3>3, <3>4, <3>5, AppendNew
    <3>6. CASE Kinds[m + 1] \notin S
      BY <3>2, <3>3, <3>4, <3>6
    <3> QED
      BY <3>5, <3>6
  <2> HIDE DEF N
  <2>3. \A m \in Nat : m \in N
    BY <2>1, <2>2, EveryNumber
  <2> QED
    BY <2>3 DEF N
<1>7. Upto(L) = Channels
  BY <1>2 DEF Channels, Range
<1> HIDE DEF Upto, next
<1> QED
  BY <1>1, <1>2, <1>6, <1>7

JobType == [do : {"team", "write", "call", "split"}, kind : Channels \cup {""},
            part : {"event", "before", "after", ""}]
\* Jobs that tell by a kind, and what they tell.
Tells(j)  == j.do \in {"write", "split"}
Pairs(q)  == {p \in Channels \X {"event", "before", "after"} :
                \E n \in 1..Len(q) : Tells(q[n]) /\ p = <<q[n].kind, q[n].part>>}
\* A list of jobs that tells nothing twice.
JobsSound(q) ==
    /\ q \in Seq(JobType)
    /\ \A n \in 1..Len(q) : Tells(q[n]) => q[n].kind \in Channels /\ q[n].part # ""
                                           /\ (q[n].do = "split" => q[n].part = "event")
    /\ \A m, n \in 1..Len(q) : Tells(q[m]) /\ Tells(q[n]) /\ q[m].kind = q[n].kind /\ q[m].part = q[n].part => m = n
\* The users are looked up before the first message is written.
Led(q) == (\E n \in 1..Len(q) : q[n].do = "write") => q[1].do = "team"

\* Jobs for one thing, and then for another, tell nothing twice.
LEMMA JobsJoin ==
    ASSUME NEW s, NEW t, JobsSound(s), JobsSound(t), Pairs(s) \cap Pairs(t) = {}
    PROVE  JobsSound(s \o t) /\ Pairs(s \o t) = Pairs(s) \cup Pairs(t)
<1> DEFINE q == s \o t
<1>1. s \in Seq(JobType) /\ t \in Seq(JobType) /\ Len(s) \in Nat /\ Len(t) \in Nat
  <2>1. s \in Seq(JobType) /\ t \in Seq(JobType)
    BY Zenon DEF JobsSound
  <2> QED
    BY <2>1
<1>2. /\ q \in Seq(JobType) /\ Len(q) = Len(s) + Len(t)
      /\ \A n \in 1..Len(s) : q[n] = s[n]
      /\ \A n \in 1..Len(t) : q[Len(s) + n] = t[n]
  BY <1>1
<1>3. ASSUME NEW n \in 1..Len(q) PROVE n \in 1..Len(s) \/ \E m \in 1..Len(t) : n = Len(s) + m
  <2>1. n \in 1..Len(s) \/ (n - Len(s) \in 1..Len(t) /\ n = Len(s) + (n - Len(s)))
    BY <1>1, <1>2
  <2> QED
    BY <2>1
<1>4. \A n \in 1..Len(s) : n \in 1..Len(q)
  BY <1>1, <1>2
<1>5. \A n \in 1..Len(t) : Len(s) + n \in 1..Len(q)
  BY <1>1, <1>2
<1> HIDE DEF q
<1>6. Pairs(q) = Pairs(s) \cup Pairs(t)
  <2>1. ASSUME NEW p \in Pairs(q) PROVE p \in Pairs(s) \cup Pairs(t)
    <3>0. p \in Channels \X {"event", "before", "after"}
      BY <2>1 DEF Pairs
    <3>1. PICK n \in 1..Len(q) : Tells(q[n]) /\ p = <<q[n].kind, q[n].part>>
      BY <2>1 DEF Pairs
    <3>2. CASE n \in 1..Len(s)
      <4>1. q[n] = s[n]
        BY <1>2, <3>2
      <4> QED
        BY <3>0, <3>1, <3>2, <4>1 DEF Pairs
    <3>3. CASE \E m \in 1..Len(t) : n = Len(s) + m
      <4>1. PICK m \in 1..Len(t) : n = Len(s) + m
        BY <3>3
      <4>2. q[n] = t[m]
        BY <1>2, <4>1
      <4> QED
        BY <3>0, <3>1, <4>2 DEF Pairs
    <3> QED
      BY <1>3, <3>2, <3>3
  <2>2. ASSUME NEW p \in Pairs(s) PROVE p \in Pairs(q)
    BY <1>2, <1>4 DEF Pairs
  <2>3. ASSUME NEW p \in Pairs(t) PROVE p \in Pairs(q)
    <3>1. PICK n \in 1..Len(t) : Tells(t[n]) /\ p = <<t[n].kind, t[n].part>>
      BY <2>3 DEF Pairs
    <3>2. Tells(q[Len(s) + n]) /\ p = <<q[Len(s) + n].kind, q[Len(s) + n].part>>
      BY <1>2, <3>1
    <3> QED
      BY <1>5, <2>3, <3>2 DEF Pairs
  <2> QED
    BY <2>1, <2>2, <2>3
<1>7. ASSUME NEW n \in 1..Len(q), Tells(q[n])
      PROVE  /\ q[n].kind \in Channels /\ q[n].part # "" /\ (q[n].do = "split" => q[n].part = "event")
             /\ n \in 1..Len(s) => <<q[n].kind, q[n].part>> \in Pairs(s)
             /\ n \notin 1..Len(s) => <<q[n].kind, q[n].part>> \in Pairs(t)
  <2>1. CASE n \in 1..Len(s)
    <3>1. q[n] = s[n] /\ s[n] \in JobType
      BY <1>1, <1>2, <2>1
    <3>2. s[n].part \in {"event", "before", "after"} /\ s[n].kind \in Channels
      BY <1>7, <2>1, <3>1 DEF JobsSound, JobType
    <3> QED
      BY <1>7, <2>1, <3>1, <3>2 DEF JobsSound, Pairs
  <2>2. CASE n \notin 1..Len(s)
    <3>1. PICK m \in 1..Len(t) : n = Len(s) + m
      BY <1>3, <2>2
    <3>2. q[n] = t[m] /\ t[m] \in JobType
      BY <1>1, <1>2, <3>1
    <3>3. t[m].part \in {"event", "before", "after"} /\ t[m].kind \in Channels
      BY <1>7, <3>2 DEF JobsSound, JobType
    <3> QED
      BY <1>7, <2>2, <3>2, <3>3 DEF JobsSound, Pairs
  <2> QED
    BY <2>1, <2>2
<1>8. ASSUME NEW m \in 1..Len(q), NEW n \in 1..Len(q), Tells(q[m]), Tells(q[n]),
             q[m].kind = q[n].kind, q[m].part = q[n].part
      PROVE  m = n
  <2>1. m \in 1..Len(s) <=> n \in 1..Len(s)
    BY <1>7, <1>8
  <2>2. CASE m \in 1..Len(s)
    BY <1>2, <1>8, <2>1, <2>2 DEF JobsSound
  <2>3. CASE m \notin 1..Len(s)
    <3>1. PICK i \in 1..Len(t) : m = Len(s) + i
      BY <1>3, <2>3
    <3>2. PICK j \in 1..Len(t) : n = Len(s) + j
      BY <1>3, <2>1, <2>3
    <3>3. q[m] = t[i] /\ q[n] = t[j]
      BY <1>2, <3>1, <3>2
    <3>4. i = j
      BY <1>8, <3>3 DEF JobsSound
    <3> QED
      BY <3>1, <3>2, <3>4
  <2> QED
    BY <2>2, <2>3
<1>9. JobsSound(q)
  BY <1>2, <1>7, <1>8 DEF JobsSound
<1> QED
  BY <1>6, <1>9 DEF q

\* To tell by some of the kinds is a job for each.
LEMMA TellOnce ==
    ASSUME NEW S, NEW do \in {"write", "split"}, NEW which \in {"event", "before", "after"},
           do = "split" => which = "event"
    PROVE  LET q == Tell(S, do, which) IN
           /\ JobsSound(q) /\ Pairs(q) = (Channels \cap S) \X {which}
           /\ \A n \in 1..Len(q) : q[n].do = do
<1> DEFINE s == Chosen(S)
           q == Tell(S, do, which)
<1>1. s \in Seq(Channels) /\ IsInjective(s) /\ Range(s) = Channels \cap S
  BY ChosenOnce
<1>2. DOMAIN s = 1..Len(s) /\ Len(s) \in Nat
  BY <1>1
<1>3. q = [n \in DOMAIN s |-> Job(do, s[n], which)]
  BY DEF Tell
<1> HIDE DEF s, q
<1>4. ASSUME NEW n \in 1..Len(s)
      PROVE  s[n] \in Channels /\ q[n].do = do /\ q[n].kind = s[n] /\ q[n].part = which /\ q[n] \in JobType
  <2>1. s[n] \in Channels
    BY <1>1
  <2>2. q[n] = [do |-> do, kind |-> s[n], part |-> which]
    BY <1>2, <1>3 DEF Job
  <2>3. [do |-> do, kind |-> s[n], part |-> which] \in JobType
    BY <2>1 DEF JobType
  <2> QED
    BY <2>1, <2>2, <2>3
<1>5. q \in Seq(JobType) /\ Len(q) = Len(s)
  BY <1>2, <1>3, <1>4
<1>6. \A n \in 1..Len(s) : Tells(q[n])
  BY <1>4 DEF Tells
<1>7. JobsSound(q)
  <2>1. \A m, n \in 1..Len(s) : s[m] = s[n] => m = n
    BY <1>1, <1>2 DEF IsInjective
  <2>2. \A n \in 1..Len(q) : q[n].kind \in Channels /\ q[n].part # "" /\ (q[n].do = "split" => q[n].part = "event")
    BY <1>4, <1>5
  <2>3. \A m, n \in 1..Len(q) : q[m].kind = q[n].kind => m = n
    BY <1>4, <1>5, <2>1
  <2> QED
    BY <1>5, <2>2, <2>3 DEF JobsSound
<1>8. Pairs(q) = (Channels \cap S) \X {which}
  <2>1. ASSUME NEW p \in Pairs(q) PROVE p \in (Channels \cap S) \X {which}
    <3>1. PICK n \in 1..Len(q) : p = <<q[n].kind, q[n].part>>
      BY <2>1 DEF Pairs
    <3>2. p = <<s[n], which>> /\ s[n] \in Range(s)
      BY <1>2, <1>4, <1>5, <3>1 DEF Range
    <3> QED
      BY <1>1, <3>2
  <2>2. ASSUME NEW k \in Channels \cap S PROVE <<k, which>> \in Pairs(q)
    <3>1. PICK n \in 1..Len(s) : s[n] = k
      BY <1>1, <1>2 DEF Range
    <3> QED
      BY <1>4, <1>5, <1>6, <3>1 DEF Pairs
  <2> QED
    BY <2>1, <2>2
<1> QED
  BY <1>4, <1>5, <1>7, <1>8 DEF q

\* A job that tells nothing.
LEMMA OneJob ==
    ASSUME NEW do \in {"team", "call"}
    PROVE  JobsSound(<<Job(do, "", "")>>) /\ Pairs(<<Job(do, "", "")>>) = {}
<1>1. Job(do, "", "") \in JobType /\ ~Tells(Job(do, "", ""))
  BY DEF Job, JobType, Tells
<1>2. ASSUME NEW j \in JobType, ~Tells(j) PROVE JobsSound(<<j>>) /\ Pairs(<<j>>) = {}
  <2>1. <<j>> \in Seq(JobType) /\ Len(<<j>>) = 1 /\ <<j>>[1] = j
    OBVIOUS
  <2>2. \A n \in 1..Len(<<j>>) : ~Tells(<<j>>[n])
    BY <1>2, <2>1
  <2> QED
    BY <2>1, <2>2 DEF JobsSound, Pairs
<1> QED
  BY <1>1, <1>2

\* What a reader does for an event: it tells by each kind that is for the event, and
\* nothing twice, and it looks up the users before it writes to them.
LEMMA ConsumeOnce ==
    ASSUME NEW r, NEW n
    PROVE  LET q == Consume(r, n) IN
           /\ JobsSound(q) /\ Led(q)
           /\ \A k \in Channels : MayTell(n, k) => <<k, "event">> \in Pairs(q)
<1> DEFINE team == GetTeam
           call == <<Job("call", "", "")>>
           a == Tell(Before, "write", "before")
           b == Tell(After, "write", "after")
           kinds == {k \in Channels : MayTell(n, k)}
           h == HandleCallback
           x == IF r = "high" THEN team \o Tell(kinds, "write", "event") ELSE Tell(kinds, "split", "event")
<1>1. JobsSound(team) /\ Pairs(team) = {} /\ JobsSound(call) /\ Pairs(call) = {}
  BY OneJob DEF GetTeam
<1>2. /\ JobsSound(a) /\ Pairs(a) = (Channels \cap Before) \X {"before"}
      /\ JobsSound(b) /\ Pairs(b) = (Channels \cap After) \X {"after"}
  BY TellOnce
<1>3. Len(team) = 1 /\ team[1].do = "team" /\ team \in Seq(JobType)
  <2> DEFINE j == [do |-> "team", kind |-> "", part |-> ""]
  <2>1. j \in JobType /\ j.do = "team"
    BY DEF JobType
  <2>2. team = <<j>>
    BY DEF GetTeam, Job
  <2> HIDE DEF j, team
  <2> QED
    BY <2>1, <2>2
<1> HIDE DEF team, call, a, b
<1>4. ASSUME NEW t, JobsSound(t), Pairs(t) \cap Pairs(team) = {}
      PROVE  Len(team \o t) > 0 /\ (team \o t)[1].do = "team" /\ JobsSound(team \o t) /\ Pairs(team \o t) = Pairs(t)
  <2>1. t \in Seq(JobType)
    BY <1>4 DEF JobsSound
  <2>2. JobsSound(team \o t) /\ Pairs(team \o t) = Pairs(team) \cup Pairs(t)
    BY <1>1, <1>4, JobsJoin
  <2> QED
    BY <1>1, <1>3, <2>1, <2>2
<1>5. /\ JobsSound(h) /\ h \in Seq(JobType) /\ \A k \in Channels : <<k, "event">> \notin Pairs(h)
      /\ h = << >> \/ (Len(h) > 0 /\ h[1].do = "team")
  <2>1. CASE Callback
    <3>1. h = team \o a \o call \o b
      BY <2>1, Zenon DEF HandleCallback, team, a, call, b
    <3>2. JobsSound(team \o a) /\ Pairs(team \o a) = Pairs(a)
      BY <1>1, <1>2, <1>4
    <3>3. JobsSound(team \o a \o call) /\ Pairs(team \o a \o call) = Pairs(a)
      BY <1>1, <3>2, JobsJoin
    <3>4. Pairs(a) \cap Pairs(b) = {}
      BY <1>2
    <3>5. JobsSound(h) /\ Pairs(h) = Pairs(a) \cup Pairs(b)
      BY <1>2, <3>1, <3>3, <3>4, JobsJoin
    <3>6. team \in Seq(JobType) /\ a \in Seq(JobType) /\ call \in Seq(JobType) /\ b \in Seq(JobType) /\ h \in Seq(JobType)
      BY <1>1, <1>2, <3>5 DEF JobsSound
    <3>7. Len(h) > 0 /\ h[1].do = "team"
      <4>1. ASSUME NEW s \in Seq(JobType), NEW t \in Seq(JobType), Len(s) > 0, s[1].do = "team"
            PROVE  s \o t \in Seq(JobType) /\ Len(s \o t) > 0 /\ (s \o t)[1].do = "team"
        BY <4>1
      <4>2. team \o a \in Seq(JobType) /\ Len(team \o a) > 0 /\ (team \o a)[1].do = "team"
        <5>1. Len(team) > 0
          BY <1>3
        <5> QED
          BY <1>3, <3>6, <4>1, <5>1
      <4>3. (team \o a) \o call \in Seq(JobType) /\ Len((team \o a) \o call) > 0 /\ ((team \o a) \o call)[1].do = "team"
        BY <3>6, <4>1, <4>2
      <4> QED
        BY <3>1, <3>6, <4>1, <4>3
    <3> QED
      BY <1>2, <3>5, <3>6, <3>7
  <2>2. CASE ~Callback
    <3>1. h = << >>
      BY <2>2 DEF HandleCallback
    <3>2. JobsSound(<< >>) /\ Pairs(<< >>) = {}
      BY DEF JobsSound, Pairs
    <3> QED
      BY <3>1, <3>2
  <2> QED
    BY <2>1, <2>2
<1>6. /\ JobsSound(x) /\ Pairs(x) = kinds \X {"event"}
      /\ r = "high" => Len(x) > 0 /\ x[1].do = "team"
      /\ r # "high" => \A i \in 1..Len(x) : x[i].do # "write"
  <2>1. Channels \cap kinds = kinds
    OBVIOUS
  <2> HIDE DEF kinds
  <2>2. CASE r = "high"
    <3>1. JobsSound(Tell(kinds, "write", "event")) /\ Pairs(Tell(kinds, "write", "event")) = kinds \X {"event"}
      BY <2>1, TellOnce
    <3> QED
      BY <1>1, <1>4, <2>2, <3>1
  <2>3. CASE r # "high"
    <3>1. /\ JobsSound(Tell(kinds, "split", "event")) /\ Pairs(Tell(kinds, "split", "event")) = kinds \X {"event"}
          /\ \A i \in 1..Len(Tell(kinds, "split", "event")) : Tell(kinds, "split", "event")[i].do = "split"
      BY <2>1, TellOnce
    <3> QED
      BY <2>3, <3>1
  <2> QED
    BY <2>2, <2>3
<1>7. Consume(r, n) = h \o x
  BY DEF Consume, team
<1> HIDE DEF h, x
<1>8. JobsSound(h \o x) /\ Pairs(h \o x) = Pairs(h) \cup Pairs(x)
  <2>1. Pairs(h) \cap Pairs(x) = {}
    BY <1>5, <1>6
  <2> QED
    BY <1>5, <1>6, <2>1, JobsJoin
<1>9. Led(h \o x)
  <2>1. x \in Seq(JobType) /\ h \in Seq(JobType)
    BY <1>5, <1>6 DEF JobsSound
  <2>2. CASE h = << >>
    <3>1. h \o x = x
      BY <2>1, <2>2
    <3>2. Led(x)
      BY <1>6 DEF Led
    <3> QED
      BY <3>1, <3>2
  <2>3. CASE Len(h) > 0 /\ h[1].do = "team"
    <3>1. (h \o x)[1] = h[1]
      BY <2>1, <2>3
    <3> QED
      BY <2>3, <3>1 DEF Led
  <2> QED
    BY <1>5, <2>2, <2>3
<1> QED
  BY <1>6, <1>7, <1>8, <1>9

-----------------------------------------------------------------------------
(* Cases, and the events that wait for a reader or are read                     *)

Statuses  == {"PROBLEM", "OK", "DDALERT"}
EventType == [case : Cases, prio : Prios, status : Statuses]
CaseType  == [no : Nat, closed : BOOLEAN, seen : Nat, before : SUBSET Nat]
ReaderType == [at : {"idle", "case", "write", "action", "jobs"}, no : Nat, found : CaseType, to : SUBSET Users,
               jobs : Seq(JobType)]

\* A reader has an event of one of its queues, or none.
ReadersTyped ==
    /\ events \in Seq(EventType) /\ failures \in 0..MaxFailures
    /\ queue \in [Prios -> Seq(Numbers)]
    /\ \A p \in Prios : \A n \in Range(queue[p]) : Event(n).prio = p
    /\ reader \in [Readers -> ReaderType]
    /\ \A r \in Readers : IF reader[r].at = "idle" THEN reader[r].no = 0
                          ELSE reader[r].no \in Numbers /\ Event(reader[r].no).prio \in Queues(r)
    /\ \A r \in Readers : reader[r].at = "case" => reader[r].found = NoCase
    /\ \A r \in Readers : reader[r].at = "jobs" => reader[r].jobs # << >>
    /\ cases \in [Cases -> CaseType] /\ \A c \in Cases : cases[c].no \in Numbers \cup {0}

Reading(r) == reader[r].at \in {"case", "write"}

\* The events of a priority are read in the order the judge sent them.
Lined ==
    /\ \A p \in Prios : \A i, j \in 1..Len(queue[p]) : i < j => queue[p][i] < queue[p][j]
    /\ \A p \in Prios : \A n \in Numbers \ Range(queue[p]) : Event(n).prio = p =>
          /\ \A m \in Range(queue[p]) : n < m
          /\ \A r \in Readers : /\ Reading(r) /\ Event(reader[r].no).prio = p /\ n # reader[r].no
                                => n < reader[r].no

Its(c)      == {n \in Numbers : Event(n).case = c /\ Event(n).status # "DDALERT"}
Uniform(c)  == \A m, n \in Its(c) : Event(m).prio = Event(n).prio
Recorded(c) == {n \in Its(c) : /\ n \notin Range(queue[Event(n).prio])
                               /\ \A r \in Readers : reader[r].no = n => ~Reading(r)}

\* A reader that is about to write reopens a case a note closed, unless it read it
\* before; and a case is at the last event recorded.
ClosedLast == \A c \in Cases : cases[c].closed => cases[c].no \in {cases[c].seen} \cup cases[c].before
Reopens ==
    \A r \in Readers : \A c \in Cases :
        /\ reader[r].at = "write" /\ reader[r].found.no # 0 /\ ~reader[r].found.closed
        /\ Event(reader[r].no).case = c /\ cases[c].closed
        => reader[r].no \in cases[c].before
AtLast == \A c \in Cases : Uniform(c) => \A n \in Recorded(c) : n <= cases[c].no
FoundLast ==
    \A r \in Readers : \A c \in Cases :
        /\ reader[r].at = "write" /\ Event(reader[r].no).status # "DDALERT"
        /\ Event(reader[r].no).case = c /\ Uniform(c)
        => reader[r].found.no = cases[c].no
Current == ClosedLast /\ Reopens /\ (failures = 0 => AtLast /\ FoundLast)

Consistent == ReadersTyped /\ Lined /\ Current

\* What an event is.
LEMMA EventIs ==
    ASSUME events \in Seq(EventType), NEW n \in Numbers
    PROVE  Event(n).case \in Cases /\ Event(n).prio \in Prios /\ Event(n).status \in Statuses /\ n \in Nat \ {0}
<1>1. events[n] \in EventType
  BY DEF Numbers
<1> QED
  BY <1>1 DEF EventType, Event, Numbers

\* The fields of a reader, and of one that goes somewhere else.
LEMMA ReaderFields ==
    ASSUME NEW x \in ReaderType
    PROVE  /\ x.at \in {"idle", "case", "write", "action", "jobs"} /\ x.no \in Nat /\ x.found \in CaseType
           /\ x.to \in SUBSET Users /\ x.jobs \in Seq(JobType)
BY DEF ReaderType

\* What a reader knows stays when it goes on to something else.
LEMMA ReaderAt ==
    ASSUME NEW x \in ReaderType, NEW at \in {"idle", "case", "write", "action", "jobs"}
    PROVE  LET y == [x EXCEPT !.at = at] IN
           y \in ReaderType /\ y.at = at /\ y.no = x.no /\ y.found = x.found /\ y.to = x.to /\ y.jobs = x.jobs
BY DEF ReaderType

\* A reader that does nothing knows nothing.
LEMMA FreeIs == Free \in ReaderType /\ Free.at = "idle" /\ Free.no = 0 /\ Free.jobs = << >> /\ Free.to = {}
                /\ Free.found = NoCase /\ NoCase \in CaseType /\ NoCase.no = 0 /\ NoCase.closed = FALSE
<1>1. NoCase \in CaseType /\ NoCase.no = 0 /\ NoCase.closed = FALSE
  BY DEF NoCase, CaseType
<1> QED
  BY <1>1 DEF Free, ReaderType

\* The two readers have no priority in common.
LEMMA QueuesApart == \A r, s \in Readers, p \in Prios : p \in Queues(r) /\ p \in Queues(s) => r = s
BY DEF Queues, Readers

\* At the start no event is there.
LEMMA ConsistentInit == Init => Consistent
<1> SUFFICES ASSUME Init PROVE Consistent
  OBVIOUS
<1>1. /\ events = << >> /\ failures = 0 /\ queue = [p \in Prios |-> << >>]
      /\ reader = [r \in Readers |-> Free] /\ cases = [c \in Cases |-> NoCase]
  BY DEF Init
<1>2. Numbers = {} /\ events \in Seq(EventType) /\ 0 \in 0..MaxFailures
  BY <1>1, AlarmAssumption DEF Numbers
<1>3. \A p \in Prios : queue[p] = << >> /\ Range(queue[p]) = {} /\ Len(queue[p]) = 0
  BY <1>1 DEF Range
<1>4. \A r \in Readers : reader[r] = Free
  BY <1>1
<1>5. \A c \in Cases : cases[c] = NoCase
  BY <1>1
<1>6. ReadersTyped
  BY <1>1, <1>2, <1>3, <1>4, <1>5, FreeIs DEF ReadersTyped
<1>7. Lined
  BY <1>2, <1>3 DEF Lined
<1>8. Current
  BY <1>2, <1>4, <1>5, FreeIs DEF Current, ClosedLast, Reopens, AtLast, FoundLast, Recorded, Its
<1> QED
  BY <1>6, <1>7, <1>8 DEF Consistent

\* A step that leaves the queues and the cases alone, and of the readers those that
\* are reading.
LEMMA ReadersQuiet ==
    ASSUME Consistent, UNCHANGED <<events, queue, cases>>, failures' \in 0..MaxFailures,
           failures' = 0 => failures = 0, reader' \in [Readers -> ReaderType],
           \A r \in Readers :
              \/ reader'[r] = reader[r]
              \/ reader'[r].at = "idle" /\ reader'[r].no = 0
                    /\ (Reading(r) => failures' # 0)
              \/ reader'[r].at \in {"action", "jobs"} /\ reader'[r].no = reader[r].no /\ reader[r].at \in {"action", "jobs"}
                    /\ (reader'[r].at = "jobs" => reader'[r].jobs # << >>)
    PROVE  Consistent'
<1>1. Numbers' = Numbers /\ \A n : Event(n)' = Event(n)
  BY DEF Numbers, Event
<1>2. ReadersTyped'
  BY <1>1 DEF Consistent, ReadersTyped, Queues
<1>3. \A r \in Readers : Reading(r)' => Reading(r) /\ reader'[r] = reader[r]
  BY DEF Reading
<1>4. Lined'
  BY <1>1, <1>3 DEF Consistent, Lined
<1>5. \A c : Its(c)' = Its(c)
  BY <1>1 DEF Its
<1>6. \A c : Uniform(c)' <=> Uniform(c)
  BY <1>1, <1>5 DEF Uniform
<1>7. failures' = 0 => \A c \in Cases : Recorded(c)' \subseteq Recorded(c)
  <2> SUFFICES ASSUME failures' = 0, NEW c \in Cases, NEW n \in Recorded(c)' PROVE n \in Recorded(c)
    OBVIOUS
  <2>1. n \in Its(c) /\ n \notin Range(queue[Event(n).prio]) /\ n \in Numbers
    BY <1>1, <1>5 DEF Recorded, Its
  <2>2. ASSUME NEW r \in Readers, reader[r].no = n, Reading(r) PROVE FALSE
    <3>1. reader'[r] = reader[r]
      BY <2>2 DEF Reading
    <3> QED
      BY <2>2, <3>1 DEF Recorded, Reading
  <2> QED
    BY <2>1, <2>2 DEF Recorded
<1>8. Current'
  <2>1. ASSUME NEW r \in Readers, reader'[r].at = "write" PROVE reader'[r] = reader[r]
    BY <2>1
  <2>2. ClosedLast'
    BY DEF Consistent, Current, ClosedLast
  <2>3. Reopens'
    BY <1>1, <2>1 DEF Consistent, Current, Reopens
  <2>4. failures' = 0 => AtLast'
    BY <1>6, <1>7 DEF Consistent, Current, AtLast
  <2>5. failures' = 0 => FoundLast'
    BY <1>1, <1>6, <2>1 DEF Consistent, Current, FoundLast
  <2> QED
    BY <2>2, <2>3, <2>4, <2>5 DEF Current
<1> QED
  BY <1>2, <1>4, <1>8 DEF Consistent

\* A reader that goes on to other jobs, or is done.
LEMMA GoMoves ==
    ASSUME reader \in [Readers -> ReaderType], NEW r \in Readers, NEW to \in SUBSET Users, NEW jobs \in Seq(JobType),
           Go(r, to, jobs)
    PROVE  /\ reader' \in [Readers -> ReaderType] /\ \A s \in Readers \ {r} : reader'[s] = reader[s]
           /\ jobs = << >> => reader'[r] = Free /\ consumed' = consumed \cup {reader[r].no}
           /\ jobs # << >> => /\ reader'[r].at = "jobs" /\ reader'[r].no = reader[r].no /\ reader'[r].to = to
                              /\ reader'[r].jobs = jobs /\ consumed' = consumed
<1> DEFINE y == IF jobs = << >> THEN Free ELSE [reader[r] EXCEPT !.at = "jobs", !.to = to, !.jobs = jobs]
<1>1. reader' = [reader EXCEPT ![r] = y]
  BY DEF Go
<1>2. reader[r] \in ReaderType
  OBVIOUS
<1>3. CASE jobs = << >>
  BY <1>1, <1>3, FreeIs DEF Go
<1>4. CASE jobs # << >>
  <2>1. /\ y \in ReaderType /\ y.at = "jobs" /\ y.no = reader[r].no /\ y.to = to /\ y.jobs = jobs
    BY <1>2, <1>4 DEF ReaderType
  <2> HIDE DEF y
  <2>2. reader'[r] = y /\ reader' \in [Readers -> ReaderType] /\ \A s \in Readers \ {r} : reader'[s] = reader[s]
    BY <1>1, <2>1
  <2> QED
    BY <1>4, <2>1, <2>2 DEF Go
<1> QED
  BY <1>3, <1>4

\* A failure that is counted.
LEMMA FailuresCount ==
    ASSUME failures \in 0..MaxFailures
    PROVE  /\ Works => failures' \in 0..MaxFailures /\ (failures' = 0 => failures = 0)
           /\ Fails => failures' \in 0..MaxFailures /\ failures' # 0
BY AlarmAssumption DEF Works, Fails

\* The judge's events come at the end of their queue.
LEMMA JudgeStep ==
    ASSUME Consistent, NEW c \in Cases, NEW p \in Prios, NEW s \in Statuses, Judge(c, p, s)
    PROVE  Consistent'
<1> USE DEF Event
<1>0. PICK N : N = Len(events) + 1
  OBVIOUS
<1> DEFINE e == [case |-> c, prio |-> p, status |-> s]
<1>1. /\ events' = Append(events, e) /\ queue' = [queue EXCEPT ![p] = Append(queue[p], N)]
      /\ UNCHANGED <<reader, cases, failures>>
  BY <1>0 DEF Judge, mysql
<1>2. events \in Seq(EventType) /\ queue \in [Prios -> Seq(Numbers)] /\ e \in EventType
  BY DEF Consistent, ReadersTyped, EventType
<1>3. /\ events' \in Seq(EventType) /\ Len(events') = N /\ N \in Nat
      /\ events'[N] = e /\ \A n \in 1..Len(events) : events'[n] = events[n]
  BY <1>0, <1>1, <1>2
<1>e. e.prio = p
  OBVIOUS
<1> HIDE DEF e
<1>4. Numbers' = Numbers \cup {N} /\ N \notin Numbers /\ \A n \in Numbers : n < N /\ n \in Nat
  BY <1>0, <1>2, <1>3 DEF Numbers
<1>5. Event(N)' = e /\ \A n \in Numbers : Event(n)' = Event(n)
  BY <1>3 DEF Event, Numbers
<1>6. ASSUME NEW q \in Prios
      PROVE  /\ queue'[q] \in Seq(Numbers')
             /\ Range(queue'[q]) = IF q = p THEN Range(queue[q]) \cup {N} ELSE Range(queue[q])
             /\ \A i, j \in 1..Len(queue'[q]) : i < j => queue'[q][i] < queue'[q][j]
  <2>1. queue[q] \in Seq(Numbers) /\ Range(queue[q]) \subseteq Numbers /\ Len(queue[q]) \in Nat
        /\ \A i \in 1..Len(queue[q]) : queue[q][i] \in Numbers
    BY <1>2 DEF Range
  <2>2. \A i, j \in 1..Len(queue[q]) : i < j => queue[q][i] < queue[q][j]
    BY DEF Consistent, Lined
  <2>3. CASE q = p
    <3>1. queue'[q] = Append(queue[q], N)
      BY <1>1, <1>2, <2>3
    <3>2. queue[q] \in Seq(Numbers')
      BY <1>4, <2>1
    <3>3. /\ queue'[q] \in Seq(Numbers') /\ Len(queue'[q]) = Len(queue[q]) + 1
          /\ queue'[q][Len(queue[q]) + 1] = N /\ \A i \in 1..Len(queue[q]) : queue'[q][i] = queue[q][i]
      BY <1>4, <3>1, <3>2
    <3>4. Range(queue'[q]) = Range(queue[q]) \cup {N}
      <4>1. DOMAIN queue'[q] = 1..Len(queue[q]) + 1 /\ DOMAIN queue[q] = 1..Len(queue[q])
        BY <2>1, <3>3
      <4>2. Len(queue[q]) + 1 \in DOMAIN queue'[q]
        BY <2>1, <4>1
      <4>3. \A i \in DOMAIN queue'[q] : i \in DOMAIN queue[q] \/ i = Len(queue[q]) + 1
        BY <2>1, <4>1
      <4>4. \A i \in DOMAIN queue[q] : i \in DOMAIN queue'[q]
        BY <2>1, <4>1
      <4> QED
        BY <3>3, <4>1, <4>2, <4>3, <4>4 DEF Range
    <3>5. ASSUME NEW i \in 1..Len(queue'[q]), NEW j \in 1..Len(queue'[q]), i < j PROVE queue'[q][i] < queue'[q][j]
      <4>1. i \in 1..Len(queue[q]) /\ (j \in 1..Len(queue[q]) \/ j = Len(queue[q]) + 1)
        BY <2>1, <3>3, <3>5
      <4> QED
        BY <1>4, <2>1, <2>2, <3>3, <3>5, <4>1
    <3> QED
      BY <2>3, <3>3, <3>4, <3>5
  <2>4. CASE q # p
    <3>1. queue'[q] = queue[q]
      BY <1>1, <2>4
    <3>2. queue[q] \in Seq(Numbers')
      BY <1>4, <2>1
    <3> QED
      BY <2>2, <2>4, <3>1, <3>2
  <2> QED
    BY <2>3, <2>4
<1>7. \A q \in Prios : Range(queue[q]) \subseteq Numbers
  BY <1>2 DEF Range
<1>8. ReadersTyped'
  <2>1. queue' \in [Prios -> Seq(Numbers')]
    BY <1>1, <1>2, <1>6
  <2>2. \A q \in Prios : \A n \in Range(queue'[q]) : Event(n)'.prio = q
    <3>1. \A q \in Prios : \A n \in Range(queue[q]) : Event(n).prio = q
      BY DEF Consistent, ReadersTyped
    <3>2. ASSUME NEW q \in Prios, NEW n \in Range(queue'[q]) PROVE events'[n].prio = q
      <4>1. Range(queue'[q]) = IF q = p THEN Range(queue[q]) \cup {N} ELSE Range(queue[q])
        BY <1>6
      <4>2. n \in Range(queue[q]) \/ (n = N /\ q = p)
        BY <3>2, <4>1
      <4>3. CASE n = N /\ q = p
        BY <1>e, <1>5, <4>3
      <4>4. CASE n \in Range(queue[q])
        BY <1>5, <1>7, <3>1, <4>4
      <4> QED
        BY <4>2, <4>3, <4>4
    <3> QED
      BY <3>2
  <2>3. \A r \in Readers : IF reader'[r].at = "idle" THEN reader'[r].no = 0
                           ELSE reader'[r].no \in Numbers' /\ Event(reader[r].no)'.prio \in Queues(r)
    BY <1>1, <1>4, <1>5 DEF Consistent, ReadersTyped
  <2> QED
    BY <1>1, <1>3, <1>4, <2>1, <2>2, <2>3 DEF Consistent, ReadersTyped, Queues
<1>9. \A r \in Readers : Reading(r)' = Reading(r) /\ (Reading(r) => reader[r].no \in Numbers)
  BY <1>1 DEF Reading, Consistent, ReadersTyped
<1>10. Lined'
  <2>1. ASSUME NEW q \in Prios, NEW n \in Numbers' \ Range(queue'[q]), Event(n)'.prio = q
        PROVE  /\ n \in Numbers /\ n \notin Range(queue[q]) /\ Event(n).prio = q
    BY <1>4, <1>5, <1>6, <2>1, <1>e
  <2>2. ASSUME NEW q \in Prios, NEW n \in Numbers' \ Range(queue'[q]), Event(n)'.prio = q
        PROVE  \A m \in Range(queue'[q]) : n < m
    <3>1. \A m \in Range(queue[q]) : n < m
      BY <2>1, <2>2 DEF Consistent, Lined
    <3>2. Range(queue'[q]) = IF q = p THEN Range(queue[q]) \cup {N} ELSE Range(queue[q])
      BY <1>6
    <3>3. n < N
      BY <1>4, <2>1, <2>2
    <3> QED
      BY <3>1, <3>2, <3>3
  <2>3. ASSUME NEW q \in Prios, NEW n \in Numbers' \ Range(queue'[q]), Event(n)'.prio = q,
               NEW r \in Readers, Reading(r)', Event(reader[r].no)'.prio = q, n # reader[r].no
        PROVE  n < reader[r].no
    <3>1. Reading(r) /\ Event(reader[r].no).prio = q
      BY <1>1, <1>5, <1>9, <2>3
    <3>2. n \in Numbers \ Range(queue[q]) /\ Event(n).prio = q
      BY <2>1, <2>3
    <3> QED
      BY <2>3, <3>1, <3>2 DEF Consistent, Lined
  <2> QED
    BY <1>1, <1>6, <2>2, <2>3 DEF Lined
<1>11. \A d : Its(d) \subseteq Its(d)'
  BY <1>4, <1>5 DEF Its
<1>12. \A d : Uniform(d)' => Uniform(d)
  BY <1>5, <1>11 DEF Uniform, Its
<1>13. \A d : Recorded(d)' \subseteq Recorded(d)
  <2> SUFFICES ASSUME NEW d, NEW n \in Recorded(d)' PROVE n \in Recorded(d)
    OBVIOUS
  <2>1. n \in Its(d)' /\ n \notin Range(queue'[Event(n)'.prio]) /\ \A r \in Readers : reader[r].no = n => ~Reading(r)'
    BY <1>1 DEF Recorded
  <2>2. n \in Numbers
    <3>1. n \in Numbers'
      BY <2>1 DEF Its
    <3>2. n # N
      BY <1>5, <1>6, <2>1, <1>e
    <3> QED
      BY <1>4, <3>1, <3>2
  <2>3. Event(n).prio \in Prios
    BY <1>2, <2>2, EventIs
  <2>4. n \in Its(d) /\ n \notin Range(queue[Event(n).prio])
    BY <1>5, <1>6, <2>1, <2>2, <2>3 DEF Its
  <2> QED
    BY <1>9, <2>1, <2>4 DEF Recorded
<1>14. Current'
  <2>1. ClosedLast'
    BY <1>1 DEF Consistent, Current, ClosedLast
  <2>2. ASSUME NEW r \in Readers, reader[r].at = "write" PROVE Event(reader[r].no)' = Event(reader[r].no)
    <3>1. reader[r].no \in Numbers
      BY <2>2 DEF Consistent, ReadersTyped
    <3> QED
      BY <1>1, <1>5, <3>1
  <2>3. Reopens'
    BY <1>1, <2>2 DEF Consistent, Current, Reopens
  <2>4. failures' = 0 => AtLast'
    BY <1>1, <1>12, <1>13 DEF Consistent, Current, AtLast
  <2>5. failures' = 0 => FoundLast'
    BY <1>1, <1>12, <2>2 DEF Consistent, Current, FoundLast
  <2> QED
    BY <2>1, <2>3, <2>4, <2>5 DEF Current
<1> QED
  BY <1>8, <1>10, <1>14 DEF Consistent

\* A note closes a case at the event it has, and knows who may still write another.
LEMMA NoteStep ==
    ASSUME Consistent, NEW c \in Cases, Note(c)
    PROVE  Consistent'
<1> DEFINE x == [no |-> cases[c].no, closed |-> TRUE, seen |-> cases[c].no,
                 before |-> {reader[r].no : r \in {s \in Readers : reader[s].at = "write"}}]
<1>1. cases' = [cases EXCEPT ![c] = x] /\ UNCHANGED <<events, queue, reader, failures>>
  BY DEF Note, redis
<1>2. cases \in [Cases -> CaseType] /\ reader \in [Readers -> ReaderType]
  BY DEF Consistent, ReadersTyped
<1>3. x \in CaseType
  <2>1. cases[c].no \in Nat
    BY <1>2 DEF CaseType
  <2>2. \A r \in Readers : reader[r].no \in Nat
    BY <1>2 DEF ReaderType
  <2> QED
    BY <2>1, <2>2 DEF CaseType
<1>4. /\ cases'[c].no = cases[c].no /\ cases'[c].seen = cases[c].no
      /\ \A r \in Readers : reader[r].at = "write" => reader[r].no \in cases'[c].before
      /\ \A d \in Cases \ {c} : cases'[d] = cases[d]
  BY <1>1, <1>2
<1>5. cases' \in [Cases -> CaseType]
  BY <1>1, <1>2, <1>3
<1> HIDE DEF x
<1>6. Numbers' = Numbers /\ \A n : Event(n)' = Event(n)
  BY <1>1 DEF Numbers, Event
<1>7. \A d \in Cases : cases'[d].no = cases[d].no
  BY <1>4
<1>8. ReadersTyped'
  BY <1>1, <1>5, <1>6, <1>7 DEF Consistent, ReadersTyped, Queues
<1>9. Lined'
  BY <1>1, <1>6 DEF Consistent, Lined, Reading
<1>10. \A d : (Uniform(d)' <=> Uniform(d)) /\ Recorded(d)' = Recorded(d)
  BY <1>1, <1>6 DEF Uniform, Its, Recorded, Reading
<1>11. Current'
  <2>1. ClosedLast'
    BY <1>4 DEF Consistent, Current, ClosedLast
  <2>2. Reopens'
    BY <1>1, <1>4, <1>6 DEF Consistent, Current, Reopens
  <2>3. failures' = 0 => AtLast'
    BY <1>1, <1>7, <1>10 DEF Consistent, Current, AtLast
  <2>4. failures' = 0 => FoundLast'
    BY <1>1, <1>6, <1>7, <1>10 DEF Consistent, Current, FoundLast
  <2> QED
    BY <2>1, <2>2, <2>3, <2>4 DEF Current
<1> QED
  BY <1>8, <1>9, <1>11 DEF Consistent

\* The head of a queue whose events are in order.
LEMMA QueueHead ==
    ASSUME NEW S, S \subseteq Nat, NEW q \in Seq(S), q # << >>, \A i, j \in 1..Len(q) : i < j => q[i] < q[j]
    PROVE  /\ Head(q) \in Range(q) /\ Head(q) \in S /\ Tail(q) \in Seq(S)
           /\ Range(q) = Range(Tail(q)) \cup {Head(q)} /\ \A m \in Range(Tail(q)) : Head(q) < m
           /\ \A i, j \in 1..Len(Tail(q)) : i < j => Tail(q)[i] < Tail(q)[j]
<1> DEFINE t == Tail(q)
<1>1. Len(q) \in Nat /\ Len(q) # 0 /\ DOMAIN q = 1..Len(q) /\ \A i \in 1..Len(q) : q[i] \in S
  OBVIOUS
<1>2. Head(q) = q[1] /\ 1 \in 1..Len(q)
  BY <1>1
<1>3. /\ t \in Seq(S) /\ Len(t) = Len(q) - 1 /\ DOMAIN t = 1..Len(q) - 1
      /\ \A i \in 1..Len(q) - 1 : t[i] = q[i + 1]
  BY <1>1
<1> HIDE DEF t
<1>4. Range(q) = Range(t) \cup {q[1]}
  <2>1. ASSUME NEW i \in DOMAIN q PROVE q[i] \in Range(t) \cup {q[1]}
    <3>1. i = 1 \/ (i - 1 \in 1..Len(q) - 1 /\ i = (i - 1) + 1)
      BY <1>1
    <3> QED
      BY <1>3, <3>1 DEF Range
  <2>2. \A i \in DOMAIN t : i + 1 \in DOMAIN q /\ t[i] = q[i + 1]
    BY <1>1, <1>3
  <2> QED
    BY <1>1, <1>2, <2>1, <2>2 DEF Range
<1>5. ASSUME NEW m \in Range(t) PROVE q[1] < m
  <2>1. PICK i \in 1..Len(q) - 1 : m = q[i + 1]
    BY <1>3 DEF Range
  <2>2. i + 1 \in 1..Len(q) /\ 1 < i + 1
    BY <1>1
  <2> QED
    BY <1>2, <2>1, <2>2
<1>6. ASSUME NEW i \in 1..Len(t), NEW j \in 1..Len(t), i < j PROVE t[i] < t[j]
  <2>1. i + 1 \in 1..Len(q) /\ j + 1 \in 1..Len(q) /\ i + 1 < j + 1 /\ t[i] = q[i + 1] /\ t[j] = q[j + 1]
    BY <1>1, <1>3, <1>6
  <2> QED
    BY <2>1
<1> QED
  BY <1>1, <1>2, <1>3, <1>4, <1>5, <1>6 DEF t, Range

\* A reader takes the first event of a queue, and what it has is before what is left.
LEMMA PopStep ==
    ASSUME Consistent, NEW r \in Readers, Pop(r)
    PROVE  Consistent'
<1> USE DEF Event
<1>1. PICK p \in Queues(r) :
        /\ reader[r].at = "idle" /\ queue[p] # << >>
        /\ queue' = [queue EXCEPT ![p] = Tail(queue[p])]
        /\ \/ Works /\ reader' = [reader EXCEPT ![r] = [Free EXCEPT !.no = Head(queue[p]),
                         !.at = IF Event(Head(queue[p])).status = "DDALERT" THEN "write" ELSE "case"]]
           \/ Fails /\ UNCHANGED reader
  BY DEF Pop
<1>2. UNCHANGED <<events, cases>>
  BY DEF Pop, mysql
<1>3. /\ events \in Seq(EventType) /\ queue \in [Prios -> Seq(Numbers)] /\ reader \in [Readers -> ReaderType]
      /\ cases \in [Cases -> CaseType] /\ p \in Prios /\ Numbers \subseteq Nat /\ failures \in 0..MaxFailures
  BY AlarmAssumption DEF Consistent, ReadersTyped, Numbers, Queues
<1>4. PICK n : n = Head(queue[p])
  OBVIOUS
<1>5. /\ n \in Range(queue[p]) /\ n \in Numbers /\ Tail(queue[p]) \in Seq(Numbers)
      /\ Range(queue[p]) = Range(Tail(queue[p])) \cup {n} /\ \A m \in Range(Tail(queue[p])) : n < m
      /\ \A i, j \in 1..Len(Tail(queue[p])) : i < j => Tail(queue[p])[i] < Tail(queue[p])[j]
  <2>1. queue[p] \in Seq(Numbers) /\ \A i, j \in 1..Len(queue[p]) : i < j => queue[p][i] < queue[p][j]
    BY <1>3 DEF Consistent, Lined
  <2> QED
    BY <1>1, <1>3, <1>4, <2>1, QueueHead
<1>6. queue'[p] = Tail(queue[p]) /\ queue' \in [Prios -> Seq(Numbers)] /\ \A q \in Prios \ {p} : queue'[q] = queue[q]
  BY <1>1, <1>3, <1>5
<1>7. Event(n).prio = p /\ n \in Nat
  BY <1>3, <1>5 DEF Consistent, ReadersTyped
<1>8. Numbers' = Numbers
  BY <1>2 DEF Numbers
<1>9. /\ reader' \in [Readers -> ReaderType] /\ \A s \in Readers \ {r} : reader'[s] = reader[s]
      /\ \/ /\ Works /\ reader'[r].no = n /\ reader'[r].found = NoCase
            /\ reader'[r].at = IF Event(n).status = "DDALERT" THEN "write" ELSE "case"
         \/ Fails /\ reader' = reader
  <2>1. CASE UNCHANGED reader /\ Fails
    BY <1>3, <2>1
  <2>2. CASE Works /\ reader' = [reader EXCEPT ![r] = [Free EXCEPT !.no = n,
                                   !.at = IF Event(n).status = "DDALERT" THEN "write" ELSE "case"]]
    <3> DEFINE at == IF Event(n).status = "DDALERT" THEN "write" ELSE "case"
               x == [Free EXCEPT !.no = n, !.at = at]
    <3>1. at \in {"write", "case"}
      OBVIOUS
    <3> HIDE DEF at
    <3>2. x \in ReaderType /\ x.no = n /\ x.found = NoCase /\ x.at = at
      BY <1>7, <3>1, FreeIs DEF ReaderType
    <3>3. reader' = [reader EXCEPT ![r] = x]
      BY <2>2 DEF at
    <3> HIDE DEF x
    <3>4. reader'[r] = x /\ reader' \in [Readers -> ReaderType] /\ \A s \in Readers \ {r} : reader'[s] = reader[s]
      BY <1>3, <3>2, <3>3
    <3> QED
      BY <2>2, <3>2, <3>4 DEF at
  <2> QED
    BY <1>1, <1>4, <2>1, <2>2
<1>10. failures' \in 0..MaxFailures /\ (failures' = 0 => failures = 0 /\ reader'[r].no = n)
  BY <1>3, <1>9, FailuresCount
<1>11. \A q \in Prios : Range(queue'[q]) \subseteq Range(queue[q]) /\ (q # p => queue'[q] = queue[q])
  BY <1>5, <1>6
<1>12. ReadersTyped'
  <2>1. \A q \in Prios : \A m \in Range(queue'[q]) : Event(m)'.prio = q
    BY <1>2, <1>11 DEF Consistent, ReadersTyped
  <2>2. \A s \in Readers : IF reader'[s].at = "idle" THEN reader'[s].no = 0
                           ELSE reader'[s].no \in Numbers' /\ events'[reader'[s].no].prio \in Queues(s)
    <3>1. \A s \in Readers : IF reader[s].at = "idle" THEN reader[s].no = 0
                             ELSE reader[s].no \in Numbers /\ events[reader[s].no].prio \in Queues(s)
      BY DEF Consistent, ReadersTyped
    <3>2. CASE reader' = reader
      BY <1>2, <1>8, <3>1, <3>2
    <3>3. CASE reader'[r].no = n /\ reader'[r].at # "idle"
      BY <1>2, <1>5, <1>7, <1>8, <1>9, <3>1, <3>3
    <3> QED
      BY <1>9, <3>2, <3>3
  <2>3. \A s \in Readers : (reader'[s].at = "case" => reader'[s].found = NoCase)
                         /\ (reader'[s].at = "jobs" => reader'[s].jobs # << >>)
    <3>1. \A s \in Readers : (reader[s].at = "case" => reader[s].found = NoCase)
                             /\ (reader[s].at = "jobs" => reader[s].jobs # << >>)
      BY DEF Consistent, ReadersTyped
    <3>2. (reader'[r].at \in {"case", "write"} /\ reader'[r].found = NoCase) \/ reader' = reader
      BY <1>9
    <3> QED
      BY <1>9, <3>1, <3>2
  <2> QED
    BY <1>2, <1>3, <1>6, <1>8, <1>9, <1>10, <2>1, <2>2, <2>3 DEF Consistent, ReadersTyped, Queues
<1>13. \A s \in Readers : Reading(s)' => IF s = r THEN reader'[r].no = n ELSE Reading(s) /\ reader'[s] = reader[s]
  <2>1. ~Reading(r)
    BY <1>1 DEF Reading
  <2> QED
    BY <1>9, <2>1 DEF Reading
<1>14. Lined'
  <2>1. ASSUME NEW q \in Prios PROVE \A i, j \in 1..Len(queue'[q]) : i < j => queue'[q][i] < queue'[q][j]
    <3>1. CASE q = p
      BY <1>5, <1>6, <3>1
    <3>2. CASE q # p
      BY <1>11, <3>2 DEF Consistent, Lined
    <3> QED
      BY <3>1, <3>2
  <2>2. ASSUME NEW q \in Prios, NEW m \in Numbers \ Range(queue'[q]), events[m].prio = q
        PROVE  m \in Numbers \ Range(queue[q]) \/ (q = p /\ m = n)
    BY <1>5, <1>6, <1>11
  <2>3. ASSUME NEW q \in Prios, NEW m \in Numbers \ Range(queue'[q]), events[m].prio = q
        PROVE  \A l \in Range(queue'[q]) : m < l
    <3>1. CASE m \in Numbers \ Range(queue[q])
      BY <1>11, <2>3, <3>1 DEF Consistent, Lined
    <3>2. CASE q = p /\ m = n
      BY <1>5, <1>6, <3>2
    <3> QED
      BY <2>2, <2>3, <3>1, <3>2
  <2>4. ASSUME NEW q \in Prios, NEW m \in Numbers \ Range(queue'[q]), events[m].prio = q,
               NEW s \in Readers, Reading(s)', events[reader'[s].no].prio = q, m # reader'[s].no
        PROVE  m < reader'[s].no
    <3>1. CASE s = r
      <4>1. reader'[s].no = n /\ q = p /\ n \in Range(queue[p])
        BY <1>5, <1>7, <1>13, <2>4, <3>1
      <4>2. m \in Numbers \ Range(queue[p])
        BY <2>2, <2>4, <4>1
      <4> QED
        BY <2>4, <4>1, <4>2 DEF Consistent, Lined
    <3>2. CASE s # r
      <4>1. Reading(s) /\ reader'[s] = reader[s]
        BY <1>13, <2>4, <3>2
      <4>2. q # p
        <5>1. q \in Queues(s)
          BY <2>4, <4>1 DEF Reading, Consistent, ReadersTyped
        <5> QED
          BY <1>1, <1>3, <3>2, <5>1, QueuesApart
      <4>3. m \in Numbers \ Range(queue[q])
        BY <2>2, <2>4, <4>2
      <4> QED
        BY <2>4, <4>1, <4>3 DEF Consistent, Lined
    <3> QED
      BY <3>1, <3>2
  <2> QED
    BY <1>2, <1>8, <2>1, <2>3, <2>4 DEF Lined
<1>15. \A d : Its(d)' = Its(d) /\ (Uniform(d)' <=> Uniform(d))
  BY <1>2, <1>8 DEF Its, Uniform
<1>16. failures' = 0 => \A d \in Cases : Recorded(d)' \subseteq Recorded(d)
  <2> SUFFICES ASSUME failures' = 0, NEW d \in Cases, NEW m \in Recorded(d)' PROVE m \in Recorded(d)
    OBVIOUS
  <2>1. m \in Its(d) /\ m \notin Range(queue'[events[m].prio]) /\ \A s \in Readers : reader'[s].no = m => ~Reading(s)'
    BY <1>2, <1>15 DEF Recorded
  <2>2. reader'[r].no = n /\ (events[n].status # "DDALERT" => Reading(r)')
    BY <1>9, <1>10 DEF Reading, Fails
  <2>3. m # n
    BY <2>1, <2>2 DEF Its, Reading
  <2>4. m \in Numbers /\ events[m].prio \in Prios
    BY <1>3, <2>1, EventIs DEF Its
  <2>5. m \notin Range(queue[events[m].prio])
    BY <1>5, <1>6, <1>11, <2>1, <2>3, <2>4
  <2>6. \A s \in Readers : reader[s].no = m => ~Reading(s)
    <3>1. ~Reading(r) /\ \A s \in Readers \ {r} : reader'[s] = reader[s]
      BY <1>1, <1>9 DEF Reading
    <3> QED
      BY <2>1, <3>1 DEF Reading
  <2> QED
    BY <2>1, <2>5, <2>6 DEF Recorded
<1>17. Current'
  <2>1. ClosedLast'
    BY <1>2 DEF Consistent, Current, ClosedLast
  <2>2. \A s \in Readers : reader'[s].at = "write" => reader'[s] = reader[s]
            \/ (reader'[s].found.no = 0 /\ events[reader'[s].no].status = "DDALERT")
    BY <1>9, FreeIs
  <2>3. Reopens'
    BY <1>2, <2>2 DEF Consistent, Current, Reopens
  <2>4. failures' = 0 => AtLast'
    BY <1>2, <1>10, <1>15, <1>16 DEF Consistent, Current, AtLast
  <2>5. failures' = 0 => FoundLast'
    BY <1>2, <1>10, <1>15, <2>2 DEF Consistent, Current, FoundLast
  <2> QED
    BY <2>1, <2>3, <2>4, <2>5 DEF Current
<1> QED
  BY <1>12, <1>14, <1>17 DEF Consistent

\* A reader has the case as it is when it reads it.
LEMMA ReadStep ==
    ASSUME Consistent, NEW r \in Readers, ReadCase(r)
    PROVE  Consistent'
<1> USE DEF Event
<1>1. PICK c : c = events[reader[r].no].case
  OBVIOUS
<1>2. /\ reader[r].at = "case" /\ UNCHANGED <<events, queue, cases>>
      /\ \/ Works /\ reader' = [reader EXCEPT ![r].at = "write", ![r].found = cases[c]]
         \/ Fails /\ reader' = [reader EXCEPT ![r].at = "write"]
  BY <1>1 DEF ReadCase, redis, mysql
<1>3. /\ events \in Seq(EventType) /\ reader \in [Readers -> ReaderType] /\ cases \in [Cases -> CaseType]
      /\ reader[r] \in ReaderType /\ reader[r].no \in Numbers /\ reader[r].found = NoCase /\ failures \in 0..MaxFailures
  <2>1. reader[r].found = NoCase /\ reader[r].no \in Numbers
    <3>1. \A s \in Readers : reader[s].at = "case" => reader[s].found = NoCase
      BY DEF Consistent, ReadersTyped
    <3> QED
      BY <1>2, <3>1 DEF Consistent, ReadersTyped
  <2> QED
    BY <2>1 DEF Consistent, ReadersTyped
<1>4. c \in Cases /\ cases[c] \in CaseType
  BY <1>1, <1>3, EventIs
<1>5. /\ reader' \in [Readers -> ReaderType] /\ \A s \in Readers \ {r} : reader'[s] = reader[s]
      /\ reader'[r].at = "write" /\ reader'[r].no = reader[r].no
      /\ \/ Works /\ reader'[r].found = cases[c]
         \/ Fails /\ reader'[r].found = NoCase
  <2>1. CASE Works /\ reader' = [reader EXCEPT ![r].at = "write", ![r].found = cases[c]]
    <3> DEFINE x == [reader[r] EXCEPT !.at = "write", !.found = cases[c]]
    <3>1. x \in ReaderType /\ x.at = "write" /\ x.no = reader[r].no /\ x.found = cases[c]
      BY <1>3, <1>4 DEF ReaderType
    <3>2. reader' = [reader EXCEPT ![r] = x]
      BY <1>3, <2>1
    <3> HIDE DEF x
    <3> QED
      BY <1>3, <2>1, <3>1, <3>2
  <2>2. CASE Fails /\ reader' = [reader EXCEPT ![r].at = "write"]
    <3> DEFINE x == [reader[r] EXCEPT !.at = "write"]
    <3>1. x \in ReaderType /\ x.at = "write" /\ x.no = reader[r].no /\ x.found = NoCase
      BY <1>3, ReaderAt
    <3>2. reader' = [reader EXCEPT ![r] = x]
      BY <1>3, <2>2
    <3> HIDE DEF x
    <3> QED
      BY <1>3, <2>2, <3>1, <3>2
  <2> QED
    BY <1>2, <2>1, <2>2
<1>6. failures' \in 0..MaxFailures /\ (failures' = 0 => failures = 0 /\ reader'[r].found = cases[c])
  BY <1>3, <1>5, FailuresCount
<1>7. Numbers' = Numbers
  BY <1>2 DEF Numbers
<1>8. \A s \in Readers : (Reading(s)' <=> Reading(s)) /\ reader'[s].no = reader[s].no /\ (reader'[s].at = "idle" <=> reader[s].at = "idle")
                         /\ (reader'[s].at \in {"case", "jobs"} => reader'[s] = reader[s])
  BY <1>2, <1>5 DEF Reading
<1>9. ReadersTyped'
  BY <1>2, <1>5, <1>6, <1>7, <1>8, ZenonT(40) DEF Consistent, ReadersTyped, Queues
<1>10. Lined'
  BY <1>2, <1>7, <1>8 DEF Consistent, Lined
<1>11. \A d : Its(d)' = Its(d) /\ (Uniform(d)' <=> Uniform(d)) /\ Recorded(d)' = Recorded(d)
  BY <1>2, <1>7, <1>8 DEF Its, Uniform, Recorded
<1>12. Current'
  <2>1. ClosedLast'
    BY <1>2 DEF Consistent, Current, ClosedLast
  <2>2. Reopens'
    <3>1. ASSUME NEW s \in Readers, NEW d \in Cases, reader'[s].at = "write", reader'[s].found.no # 0,
                 ~reader'[s].found.closed, events'[reader'[s].no].case = d, cases'[d].closed
          PROVE  reader'[s].no \in cases'[d].before
      <4>1. CASE s = r
        BY <1>1, <1>2, <1>5, <3>1, <4>1, FreeIs
      <4>2. CASE s # r
        BY <1>2, <1>5, <3>1, <4>2 DEF Consistent, Current, Reopens
      <4> QED
        BY <4>1, <4>2
    <3> QED
      BY <3>1 DEF Reopens
  <2>3. failures' = 0 => AtLast'
    BY <1>2, <1>6, <1>11 DEF Consistent, Current, AtLast
  <2>4. failures' = 0 => FoundLast'
    <3>1. ASSUME failures' = 0, NEW s \in Readers, NEW d \in Cases, reader'[s].at = "write",
                 events'[reader'[s].no].status # "DDALERT", events'[reader'[s].no].case = d, Uniform(d)'
          PROVE  reader'[s].found.no = cases'[d].no
      <4>1. CASE s = r
        BY <1>1, <1>2, <1>5, <1>6, <3>1, <4>1
      <4>2. CASE s # r
        BY <1>2, <1>5, <1>6, <1>11, <3>1, <4>2 DEF Consistent, Current, FoundLast
      <4> QED
        BY <4>1, <4>2
    <3> QED
      BY <3>1 DEF FoundLast
  <2> QED
    BY <2>1, <2>2, <2>3, <2>4 DEF Current
<1> QED
  BY <1>9, <1>10, <1>12 DEF Consistent

\* What WriteCase makes of a case.
Made(r) ==
    LET n == reader[r].no  c == Event(n).case IN
    IF Event(n).status = "DDALERT" THEN cases[c]
    ELSE IF reader[r].found.no # 0 THEN Updated(cases[c], reader[r].found, n)
    ELSE IF cases[c].no = 0 THEN [NoCase EXCEPT !.no = n] ELSE cases[c]

\* The row of a case after an event: its last event is that one or the one it had.
LEMMA MadeIs ==
    ASSUME reader \in [Readers -> ReaderType], cases \in [Cases -> CaseType], NEW r \in Readers,
           NEW c \in Cases, Event(reader[r].no).case = c
    PROVE  /\ Made(r) \in CaseType
           /\ Event(reader[r].no).status = "DDALERT" => Made(r) = cases[c]
           /\ Made(r).no \in {cases[c].no, reader[r].no}
           /\ Event(reader[r].no).status # "DDALERT" /\ (reader[r].found.no # 0 \/ cases[c].no = 0) => Made(r).no = reader[r].no
           /\ Made(r).closed =>
                /\ cases[c].closed /\ Made(r).before = cases[c].before /\ Made(r).seen = cases[c].seen
                /\ Made(r).no = cases[c].no \/ (reader[r].found.no # 0 /\ ~reader[r].found.closed)
<1> DEFINE n == reader[r].no
           found == reader[r].found
<1>1. reader[r] \in ReaderType /\ n \in Nat /\ found \in CaseType /\ cases[c] \in CaseType
  BY DEF ReaderType
<1> HIDE DEF n, found
<1>2. CASE Event(reader[r].no).status = "DDALERT"
  BY <1>1, <1>2 DEF Made
<1>3. ASSUME Event(reader[r].no).status # "DDALERT", found.no # 0
      PROVE  /\ Made(r) \in CaseType /\ Made(r).no = n
             /\ Made(r).before = cases[c].before /\ Made(r).seen = cases[c].seen
             /\ Made(r).closed => cases[c].closed /\ ~found.closed
  <2> DEFINE b == IF found.closed THEN FALSE ELSE cases[c].closed
             x == [cases[c] EXCEPT !.no = n, !.closed = b]
  <2>1. Made(r) = x
    BY <1>3 DEF Made, Updated, n, found
  <2>2. b \in BOOLEAN /\ (b => cases[c].closed /\ ~found.closed)
    BY <1>1 DEF CaseType
  <2> HIDE DEF b
  <2>3. x \in CaseType /\ x.no = n /\ x.before = cases[c].before /\ x.seen = cases[c].seen /\ x.closed = b
    BY <1>1, <2>2 DEF CaseType
  <2> HIDE DEF x
  <2> QED
    BY <2>1, <2>2, <2>3
<1>4. ASSUME Event(reader[r].no).status # "DDALERT", found.no = 0, cases[c].no = 0
      PROVE  Made(r) \in CaseType /\ Made(r).no = n /\ Made(r).closed = FALSE
  <2>1. Made(r) = [NoCase EXCEPT !.no = n]
    BY <1>4 DEF Made, n, found
  <2>2. [NoCase EXCEPT !.no = n] \in CaseType /\ [NoCase EXCEPT !.no = n].no = n /\ [NoCase EXCEPT !.no = n].closed = FALSE
    BY <1>1 DEF NoCase, CaseType
  <2> QED
    BY <2>1, <2>2
<1>5. ASSUME Event(reader[r].no).status # "DDALERT", found.no = 0, cases[c].no # 0
      PROVE  Made(r) = cases[c]
  BY <1>5 DEF Made, n, found
<1> QED
  BY <1>1, <1>2, <1>3, <1>4, <1>5 DEF n, found

\* The case is at the event that is recorded, reopened if a note closed it before.
LEMMA WriteStep ==
    ASSUME Consistent, NEW r \in Readers, WriteCase(r)
    PROVE  Consistent'
<1> USE DEF Event
<1>1. PICK c : c = events[reader[r].no].case
  OBVIOUS
<1>2. PICK n : n = reader[r].no
  OBVIOUS
<1>3. PICK made : made = Made(r)
  OBVIOUS
<1>4. /\ reader[r].at = "write" /\ UNCHANGED <<events, queue>>
      /\ \/ Works /\ cases' = [cases EXCEPT ![c] = made]
         \/ Fails /\ UNCHANGED cases
         \/ Fails /\ cases' = [cases EXCEPT ![c] = made]
      /\ reader' = [reader EXCEPT ![r].at = "action"]
  BY <1>1, <1>2, <1>3 DEF WriteCase, Made, redis, mysql
<1>5. /\ events \in Seq(EventType) /\ reader \in [Readers -> ReaderType] /\ cases \in [Cases -> CaseType]
      /\ reader[r] \in ReaderType /\ n \in Numbers /\ n \in Nat /\ failures \in 0..MaxFailures
  BY <1>2, <1>4 DEF Consistent, ReadersTyped, ReaderType
<1>6. c \in Cases
  BY <1>1, <1>2, <1>5, EventIs
<1>7. /\ made \in CaseType
      /\ events[n].status = "DDALERT" => made = cases[c]
      /\ made.no \in {cases[c].no, n}
      /\ events[n].status # "DDALERT" /\ (reader[r].found.no # 0 \/ cases[c].no = 0) => made.no = n
      /\ made.closed =>
            /\ cases[c].closed /\ made.before = cases[c].before /\ made.seen = cases[c].seen
            /\ made.no = cases[c].no \/ (reader[r].found.no # 0 /\ ~reader[r].found.closed)
  BY <1>1, <1>2, <1>3, <1>5, <1>6, MadeIs, ZenonT(40)
<1>8. /\ reader' \in [Readers -> ReaderType] /\ \A s \in Readers \ {r} : reader'[s] = reader[s]
      /\ reader'[r].at = "action" /\ reader'[r].no = n
  <2> DEFINE x == [reader[r] EXCEPT !.at = "action"]
  <2>1. x \in ReaderType /\ x.at = "action" /\ x.no = n
    BY <1>2, <1>5, ReaderAt
  <2>2. reader' = [reader EXCEPT ![r] = x]
    BY <1>4, <1>5
  <2> HIDE DEF x
  <2> QED
    BY <1>5, <2>1, <2>2
<1>9. failures' \in 0..MaxFailures /\ (failures' = 0 => failures = 0 /\ cases' = [cases EXCEPT ![c] = made])
  BY <1>4, <1>5, FailuresCount
<1>10. /\ cases' \in [Cases -> CaseType] /\ \A d \in Cases \ {c} : cases'[d] = cases[d]
       /\ cases'[c] = made \/ cases'[c] = cases[c]
       /\ failures' = 0 => cases'[c] = made
  BY <1>4, <1>5, <1>6, <1>7, <1>9
<1>11. Numbers' = Numbers
  BY <1>4 DEF Numbers
<1>12. \A s \in Readers : reader'[s].no = reader[s].no /\ (Reading(s)' <=> Reading(s) /\ s # r) /\ (Reading(s)' => reader'[s] = reader[s])
  BY <1>2, <1>4, <1>8 DEF Reading
<1>13. ReadersTyped'
  <2>1. \A d \in Cases : cases'[d].no \in Numbers \cup {0}
    BY <1>5, <1>7, <1>10 DEF Consistent, ReadersTyped
  <2>2. \A s \in Readers : reader'[s].at = "idle" <=> reader[s].at = "idle"
    BY <1>4, <1>8
  <2>3. \A s \in Readers : reader'[s].at \in {"case", "jobs"} => reader'[s] = reader[s]
    BY <1>8
  <2> QED
    BY <1>4, <1>8, <1>9, <1>10, <1>11, <1>12, <2>1, <2>2, <2>3 DEF Consistent, ReadersTyped, Queues
<1>14. Lined'
  BY <1>4, <1>11, <1>12 DEF Consistent, Lined
<1>15. \A d : Its(d)' = Its(d) /\ (Uniform(d)' <=> Uniform(d))
  BY <1>4, <1>11 DEF Its, Uniform
<1>16. \A d \in Cases : \A m \in Recorded(d)' : m \in Recorded(d) \/ (m = n /\ d = c /\ events[n].status # "DDALERT")
  <2> SUFFICES ASSUME NEW d \in Cases, NEW m \in Recorded(d)', m \notin Recorded(d)
               PROVE  m = n /\ d = c /\ events[n].status # "DDALERT"
    OBVIOUS
  <2>1. m \in Its(d) /\ m \notin Range(queue[events[m].prio]) /\ \A s \in Readers : reader[s].no = m => ~Reading(s)'
    BY <1>4, <1>12, <1>15 DEF Recorded
  <2>2. m = n
    BY <1>2, <1>12, <2>1 DEF Recorded
  <2> QED
    BY <1>1, <1>2, <2>1, <2>2 DEF Its
<1>17. ASSUME failures' = 0, Uniform(c), events[n].status # "DDALERT"
       PROVE  made.no = n /\ \A m \in Recorded(c) : m < n
  <2>1. reader[r].found.no = cases[c].no
    BY <1>1, <1>2, <1>4, <1>6, <1>9, <1>17 DEF Consistent, Current, FoundLast
  <2>2. made.no = n
    BY <1>7, <1>17, <2>1
  <2>3. ASSUME NEW m \in Recorded(c) PROVE m < n
    <3>1. n \in Its(c) /\ m \in Its(c) /\ m \in Numbers
      BY <1>1, <1>2, <1>5, <1>17, <2>3 DEF Its, Recorded
    <3>2. events[m].prio = events[n].prio /\ events[n].prio \in Prios
      BY <1>5, <1>17, <3>1, EventIs DEF Uniform
    <3>3. m \notin Range(queue[events[n].prio]) /\ Reading(r) /\ m # n
      BY <1>2, <1>4, <2>3, <3>2 DEF Recorded, Reading
    <3> QED
      BY <1>2, <3>1, <3>2, <3>3 DEF Consistent, Lined
  <2> QED
    BY <2>2, <2>3
<1>18. Current'
  <2>1. ClosedLast'
    <3>1. ASSUME NEW d \in Cases, cases'[d].closed PROVE cases'[d].no \in {cases'[d].seen} \cup cases'[d].before
      <4>1. \A e \in Cases : cases[e].closed => cases[e].no \in {cases[e].seen} \cup cases[e].before
        BY DEF Consistent, Current, ClosedLast
      <4>2. CASE d = c /\ cases'[c] = made
        <5>1. made.closed /\ cases[c].closed /\ made.before = cases[c].before /\ made.seen = cases[c].seen
          BY <1>7, <3>1, <4>2
        <5>2. CASE made.no = cases[c].no
          BY <1>6, <4>1, <4>2, <5>1, <5>2
        <5>3. CASE made.no = n /\ reader[r].found.no # 0 /\ ~reader[r].found.closed
          <6>1. n \in cases[c].before
            BY <1>1, <1>2, <1>4, <1>6, <5>1, <5>3 DEF Consistent, Current, Reopens
          <6> QED
            BY <4>2, <5>1, <5>3, <6>1
        <5> QED
          BY <1>7, <5>1, <5>2, <5>3
      <4>3. CASE cases'[d] = cases[d]
        BY <3>1, <4>1, <4>3
      <4> QED
        BY <1>10, <4>2, <4>3
    <3> QED
      BY <3>1 DEF ClosedLast
  <2>2. ASSUME NEW s \in Readers, reader'[s].at = "write" PROVE s # r /\ reader'[s] = reader[s]
    BY <1>8, <2>2
  <2>3. Reopens'
    <3>1. ASSUME NEW s \in Readers, NEW d \in Cases, reader'[s].at = "write", reader'[s].found.no # 0,
                 ~reader'[s].found.closed, events'[reader'[s].no].case = d, cases'[d].closed
          PROVE  reader'[s].no \in cases'[d].before
      <4>1. reader'[s] = reader[s] /\ events' = events
        BY <1>4, <2>2, <3>1
      <4>2. cases[d].closed /\ cases'[d].before = cases[d].before
        BY <1>7, <1>10, <3>1
      <4>3. reader[s].no \in cases[d].before
        BY <3>1, <4>1, <4>2 DEF Consistent, Current, Reopens
      <4> QED
        BY <4>1, <4>2, <4>3
    <3> QED
      BY <3>1 DEF Reopens
  <2>4. failures' = 0 => AtLast'
    <3>1. ASSUME failures' = 0, NEW d \in Cases, Uniform(d), NEW m \in Recorded(d)' PROVE m <= cases'[d].no
      <4>1. \A l \in Recorded(d) : l <= cases[d].no
        BY <1>9, <3>1 DEF Consistent, Current, AtLast
      <4>2. CASE m = n /\ d = c /\ events[n].status # "DDALERT"
        BY <1>5, <1>10, <1>17, <3>1, <4>2
      <4>3. CASE m \in Recorded(d) /\ d # c
        BY <1>10, <4>1, <4>3
      <4>4. CASE m \in Recorded(d) /\ d = c
        <5>1. CASE events[n].status = "DDALERT"
          BY <1>7, <1>10, <4>1, <4>4, <5>1
        <5>2. CASE events[n].status # "DDALERT"
          <6>1. m < n /\ cases'[d].no = n
            BY <1>10, <1>17, <3>1, <4>4, <5>2
          <6>2. m \in Nat
            BY <4>4 DEF Recorded, Its, Numbers
          <6> QED
            BY <1>5, <6>1, <6>2
        <5> QED
          BY <5>1, <5>2
      <4> QED
        BY <1>16, <4>2, <4>3, <4>4
    <3> QED
      BY <1>15, <3>1 DEF AtLast
  <2>5. failures' = 0 => FoundLast'
    <3>1. ASSUME failures' = 0, NEW s \in Readers, NEW d \in Cases, reader'[s].at = "write",
                 events'[reader'[s].no].status # "DDALERT", events'[reader'[s].no].case = d, Uniform(d)
          PROVE  reader'[s].found.no = cases'[d].no
      <4>1. s # r /\ reader'[s] = reader[s] /\ events' = events
        BY <1>4, <2>2, <3>1
      <4>2. reader[s].found.no = cases[d].no
        BY <1>9, <3>1, <4>1 DEF Consistent, Current, FoundLast
      <4>3. CASE d # c
        BY <1>10, <4>1, <4>2, <4>3
      <4>4. CASE d = c /\ events[n].status = "DDALERT"
        BY <1>7, <1>10, <4>1, <4>2, <4>4
      <4>5. CASE d = c /\ events[n].status # "DDALERT"
        <5>1. reader[s].no \in Numbers /\ events[reader[s].no].prio \in Queues(s) /\ events[n].prio \in Queues(r)
          BY <1>2, <1>4, <3>1, <4>1 DEF Consistent, ReadersTyped
        <5>2. reader[s].no \in Its(c) /\ n \in Its(c)
          BY <1>1, <1>2, <1>5, <3>1, <4>1, <4>5, <5>1 DEF Its
        <5>3. events[reader[s].no].prio = events[n].prio /\ events[n].prio \in Prios
          BY <1>5, <3>1, <4>5, <5>2, EventIs DEF Uniform
        <5> QED
          BY <4>1, <5>1, <5>3, QueuesApart
      <4> QED
        BY <4>3, <4>4, <4>5
    <3> QED
      BY <1>15, <3>1 DEF FoundLast
  <2> QED
    BY <2>1, <2>3, <2>4, <2>5 DEF Current
<1> QED
  BY <1>13, <1>14, <1>18 DEF Consistent

\* Alarm that starts again reads nothing.
LEMMA RestartStep ==
    ASSUME Consistent, Restart
    PROVE  Consistent'
<1>1. UNCHANGED <<events, queue, cases>> /\ reader' = [r \in Readers |-> Free] /\ Fails
  BY DEF Restart, redis, mysql
<1>2. failures' \in 0..MaxFailures /\ failures' # 0
  BY <1>1, FailuresCount DEF Consistent, ReadersTyped
<1>3. reader' \in [Readers -> ReaderType] /\ \A r \in Readers : reader'[r].at = "idle" /\ reader'[r].no = 0
  BY <1>1, FreeIs
<1> QED
  BY <1>1, <1>2, <1>3, ReadersQuiet

\* Nothing else reads or records an event.
LEMMA OtherSteps ==
    ASSUME Consistent, NEW r \in Readers, GetAction(r) \/ ParseTeams(r) \/ Call(r) \/ Write(r) \/ Split(r)
    PROVE  Consistent'
<1>1. /\ reader \in [Readers -> ReaderType] /\ failures \in 0..MaxFailures /\ reader[r] \in ReaderType
      /\ reader[r].jobs \in Seq(JobType) /\ reader[r].to \in SUBSET Users
      /\ reader[r].at = "jobs" => Tail(reader[r].jobs) \in Seq(JobType)
  <2>1. reader[r] \in ReaderType
    BY DEF Consistent, ReadersTyped
  <2>2. reader[r].jobs \in Seq(JobType)
    BY <2>1, ReaderFields
  <2>3. reader[r].at = "jobs" => reader[r].jobs # << >>
    BY DEF Consistent, ReadersTyped
  <2> QED
    BY <2>1, <2>2, <2>3, ReaderFields DEF Consistent, ReadersTyped
<1>2. UNCHANGED <<events, queue, cases>> /\ reader[r].at \in {"action", "jobs"}
  BY DEF GetAction, ParseTeams, Call, Write, Split, Doing, redis, mysql
<1>3. failures' \in 0..MaxFailures /\ (failures' = 0 => failures = 0)
  BY <1>1, FailuresCount DEF GetAction, ParseTeams, Call, Write, Split, Lookup, NoAnswer
<1>4. \/ \E to \in SUBSET Users, jobs \in Seq(JobType) : Go(r, to, jobs)
      \/ reader' = [reader EXCEPT ![r] = Free]
  <2>1. CASE GetAction(r)
    <3>1. Consume(r, reader[r].no) \in Seq(JobType)
      BY ConsumeOnce DEF JobsSound
    <3> QED
      BY <2>1, <3>1 DEF GetAction
  <2>2. CASE ParseTeams(r)
    BY <1>1, <2>2 DEF ParseTeams, Doing
  <2>3. CASE Call(r) \/ Write(r) \/ Split(r)
    BY <1>1, <2>3 DEF Call, Write, Split, Doing, Rest
  <2> QED
    BY <2>1, <2>2, <2>3
<1>5. /\ reader' \in [Readers -> ReaderType] /\ \A s \in Readers \ {r} : reader'[s] = reader[s]
      /\ \/ reader'[r].at = "idle" /\ reader'[r].no = 0
         \/ reader'[r].at = "jobs" /\ reader'[r].no = reader[r].no /\ reader'[r].jobs # << >>
  <2>1. ASSUME NEW to \in SUBSET Users, NEW jobs \in Seq(JobType), Go(r, to, jobs)
        PROVE  /\ reader' \in [Readers -> ReaderType] /\ \A s \in Readers \ {r} : reader'[s] = reader[s]
               /\ \/ reader'[r].at = "idle" /\ reader'[r].no = 0
                  \/ reader'[r].at = "jobs" /\ reader'[r].no = reader[r].no /\ reader'[r].jobs # << >>
    BY <1>1, <2>1, GoMoves, FreeIs
  <2>2. CASE reader' = [reader EXCEPT ![r] = Free]
    BY <1>1, <2>2, FreeIs
  <2> QED
    BY <1>4, <2>1, <2>2
<1>6. ~Reading(r)
  BY <1>2 DEF Reading
<1> QED
  BY <1>2, <1>3, <1>5, <1>6, ReadersQuiet

\* Every step of alarm, and of the judge and the api, keeps its cases consistent.
LEMMA ConsistentStep == Consistent /\ [Next]_vars => Consistent'
<1> SUFFICES ASSUME Consistent, [Next]_vars PROVE Consistent'
  OBVIOUS
<1>1. ASSUME NEW c \in Cases, NEW p \in Prios, NEW s \in {"PROBLEM", "OK", "DDALERT"}, Judge(c, p, s) PROVE Consistent'
  BY <1>1, JudgeStep DEF Statuses
<1>2. ASSUME NEW c \in Cases, Note(c) PROVE Consistent'
  BY <1>2, NoteStep
<1>3. ASSUME NEW r \in Readers, Read(r) PROVE Consistent'
  BY <1>3, PopStep, ReadStep, WriteStep, OtherSteps DEF Read
<1>4. ASSUME UNCHANGED <<events, queue, cases, reader>>, Works \/ Fails PROVE Consistent'
  <2>1. reader \in [Readers -> ReaderType] /\ failures \in 0..MaxFailures
    BY DEF Consistent, ReadersTyped
  <2>2. failures' \in 0..MaxFailures /\ (failures' = 0 => failures = 0)
    BY <1>4, <2>1, FailuresCount
  <2> QED
    BY <1>4, <2>1, <2>2, ReadersQuiet
<1>5. ASSUME NEW k \in Channels, Combine(k) PROVE Consistent'
  BY <1>4, <1>5 DEF Combine, PopAllDto, WriteGroup, mysql
<1>6. ASSUME NEW k \in Channels, Send(k) PROVE Consistent'
  BY <1>4, <1>6 DEF Send, PopAll, StartSend, EndSend, redis, mysql, Works
<1>7. CASE UNCHANGED vars
  BY <1>4, <1>7 DEF vars, redis, mysql, Works
<1> QED
  BY <1>1, <1>2, <1>3, <1>5, <1>6, <1>7, RestartStep DEF Next

\* With the types of what readers, queues and cases hold, that is what the property
\* says.
LEMMA CasesCurrent == Consistent => CaseIsCurrent
<1> SUFFICES ASSUME Consistent, NEW c \in Cases
             PROVE  /\ cases[c].closed => cases[c].no \in {cases[c].seen} \cup cases[c].before
                    /\ failures = 0 /\ Uniform(c) =>
                         \A n \in Its(c) : /\ n \notin Range(queue[Event(n).prio])
                                           /\ \A r \in Readers : reader[r].no = n => reader[r].at \notin {"case", "write"}
                                           => n <= cases[c].no
  BY DEF CaseIsCurrent, Uniform, Its
<1> QED
  BY DEF Consistent, Current, ClosedLast, AtLast, Recorded, Reading

\* Alarm, and what brings its messages to people, each keep to their own steps.
LEMMA AlarmSpec == MCSpec => MCInit /\ [][MCNext]_<<vars, mvars, part>>
BY DEF MCSpec

\* A step of the whole is one of alarm's or none, and one of falcon-message's or none.
LEMMA AlarmParts ==
    [MCNext]_<<vars, mvars, part>> =>
        [Next]_vars /\ [DingNext \/ DingSenders \/ WechatNext \/ WechatAnswers \/ QueueNext]_mvars
BY DEF MCNext

\* src/alarm/model/event/event_operation.go: a case that a note closed is opened again
\* by the next event, unless that was being recorded meanwhile, and with one priority
\* and no failure it is at the last event recorded.
THEOREM CasesStayCurrent == MCSpec => []CaseIsCurrent
<1>1. MCInit => Consistent
  BY ConsistentInit DEF MCInit
<1> QED
  BY <1>1, ConsistentStep, CasesCurrent, AlarmParts, AlarmSpec, PTL

-----------------------------------------------------------------------------
(* Where what users are told is on its way                                      *)

Item == [no : Nat, user : Users, kind : Channels, part : {"event", "before", "after"}]
MessageType == [nos : SUBSET Nat, to : SUBSET Users, part : {"event", "before", "after"}]
Single == [no : Nat, user : Users]

Holds(m, i) == i.no \in m.nos /\ i.user \in m.to /\ i.part = m.part
AloneIs(d, i) == i.part = "event" /\ d.no = i.no /\ d.user = i.user

\* The items of some messages or entries of a kind, and of all that are somewhere.
HeldOf(k, P)  == {i \in Item : i.kind = k /\ \E m \in P : Holds(m, i)}
Held(f)       == {i \in Item : \E m \in f[i.kind] : Holds(m, i)}
AloneOf(k, P) == {i \in Item : i.kind = k /\ \E d \in P : AloneIs(d, i)}
Alone(f)      == {i \in Item : \E d \in f[i.kind] : AloneIs(d, i)}

Lists    == [k \in Channels |-> sender[k].list]
Sendings == [k \in Channels |-> sender[k].sending]

\* What a reader is still to tell.
PendingOf(r) == {i \in Item : /\ reader[r].at = "jobs" /\ i.no = reader[r].no
                              /\ <<i.kind, i.part>> \in Pairs(reader[r].jobs)}
Pending == {i \in Item : \E r \in Readers : i \in PendingOf(r)}

\* The items of a message.
LEMMA ItemsAre ==
    ASSUME NEW k \in Channels, NEW m \in MessageType
    PROVE  Items(k, m) = HeldOf(k, {m}) /\ Items(k, m) \subseteq Item
<1>1. m.nos \subseteq Nat /\ m.to \subseteq Users /\ m.part \in {"event", "before", "after"}
  BY DEF MessageType
<1>2. Items(k, m) \subseteq Item
  BY <1>1 DEF Items, Item
<1>3. \A i \in Item : i \in Items(k, m) <=> i.kind = k /\ Holds(m, i)
  BY DEF Items, Item, Holds
<1> QED
  BY <1>2, <1>3 DEF HeldOf

\* Some of the messages, or entries, of a kind are put somewhere, or taken away.
Puts(f, g, k, P)  == \A j \in Channels : g[j] = IF j = k THEN f[k] \cup P ELSE f[j]
Takes(f, g, k, P) == \A j \in Channels : g[j] = IF j = k THEN f[k] \ P ELSE f[j]

\* Some of the events a queue holds for single users.
Some(P, f, k) == P \subseteq f[k] /\ f[k] \subseteq Single

\* Messages that are put somewhere, and messages that are taken away.
LEMMA HeldPut ==
    ASSUME NEW f, NEW g, NEW k \in Channels, NEW P, Puts(f, g, k, P)
    PROVE  Held(g) = Held(f) \cup HeldOf(k, P)
<1>1. \A i \in Item : i.kind \in Channels
  BY DEF Item
<1>2. ASSUME NEW i \in Item PROVE i \in Held(g) <=> i \in Held(f) \/ i \in HeldOf(k, P)
  <2>1. CASE i.kind = k
    BY <2>1 DEF Held, HeldOf, Puts
  <2>2. CASE i.kind # k
    BY <1>1, <2>2 DEF Held, HeldOf, Puts
  <2> QED
    BY <2>1, <2>2
<1> QED
  BY <1>2 DEF Held, HeldOf

UniqueIn(f) == \A k \in Channels : \A m, n \in f[k] : (\E i \in Item : i.kind = k /\ Holds(m, i) /\ Holds(n, i)) => m = n

\* Messages that are taken away take what they tell with them, since none tells it twice.
LEMMA HeldTake ==
    ASSUME NEW f, NEW g, NEW k \in Channels, NEW P, P \subseteq f[k], UniqueIn(f),
           Takes(f, g, k, P)
    PROVE  Held(g) = Held(f) \ HeldOf(k, P) /\ HeldOf(k, P) \subseteq Held(f)
<1>1. \A i \in Item : i.kind \in Channels
  BY DEF Item
<1>2. ASSUME NEW i \in Item PROVE (i \in Held(g) <=> i \in Held(f) /\ i \notin HeldOf(k, P)) /\ (i \in HeldOf(k, P) => i \in Held(f))
  <2>1. CASE i.kind = k
    BY <2>1 DEF Held, HeldOf, UniqueIn, Takes
  <2>2. CASE i.kind # k
    BY <1>1, <2>2 DEF Held, HeldOf, Takes
  <2> QED
    BY <2>1, <2>2
<1> QED
  BY <1>2 DEF Held, HeldOf

\* The same of entries, of which each is one item.
LEMMA AlonePut ==
    ASSUME NEW f, NEW g, NEW k \in Channels, NEW P, Puts(f, g, k, P)
    PROVE  Alone(g) = Alone(f) \cup AloneOf(k, P)
<1>1. \A i \in Item : i.kind \in Channels
  BY DEF Item
<1>2. ASSUME NEW i \in Item PROVE i \in Alone(g) <=> i \in Alone(f) \/ i \in AloneOf(k, P)
  <2>1. CASE i.kind = k
    BY <2>1 DEF Alone, AloneOf, Puts
  <2>2. CASE i.kind # k
    BY <1>1, <2>2 DEF Alone, AloneOf, Puts
  <2> QED
    BY <2>1, <2>2
<1> QED
  BY <1>2 DEF Alone, AloneOf

\* So do the events for one user.
LEMMA AloneTake ==
    ASSUME NEW f, NEW g, NEW k \in Channels, NEW P, Some(P, f, k), Takes(f, g, k, P)
    PROVE  Alone(g) = Alone(f) \ AloneOf(k, P)
<1>1. \A i \in Item : i.kind \in Channels
  BY DEF Item
<1>2. \A d, e \in Single : d.no = e.no /\ d.user = e.user => d = e
  BY DEF Single
<1>3. ASSUME NEW i \in Item PROVE i \in Alone(g) <=> i \in Alone(f) /\ i \notin AloneOf(k, P)
  <2>1. CASE i.kind = k
    <3>1. \A d, e \in f[k] : AloneIs(d, i) /\ AloneIs(e, i) => d = e
      BY <1>2 DEF AloneIs, Some
    <3> QED
      BY <2>1, <3>1 DEF Alone, AloneOf, Takes, Some
  <2>2. CASE i.kind # k
    BY <1>1, <2>2 DEF Alone, AloneOf, Takes
  <2> QED
    BY <2>1, <2>2
<1> QED
  BY <1>3 DEF Alone, AloneOf

\* A group that is written as a message has the items of its entries.
LEMMA GroupIs ==
    ASSUME NEW k \in Channels, NEW P, P \subseteq Single, NEW u \in Users, \A e \in P : e.user = u
    PROVE  LET m == Message({e.no : e \in P}, {u}, "event") IN
           m \in MessageType /\ Items(k, m) = AloneOf(k, P)
<1> DEFINE nos == {e.no : e \in P}
           m == Message(nos, {u}, "event")
<1>1. nos \subseteq Nat
  BY DEF Single
<1>2. m = [nos |-> nos, to |-> {u}, part |-> "event"]
  BY DEF Message
<1>3. m \in MessageType /\ m.nos = nos /\ m.to = {u} /\ m.part = "event"
  <2> HIDE DEF nos, m
  <2>1. [nos |-> nos, to |-> {u}, part |-> "event"] \in MessageType
    BY <1>1 DEF MessageType
  <2> QED
    BY <1>2, <2>1
<1>4. Items(k, m) = HeldOf(k, {m})
  BY <1>3, ItemsAre
<1> HIDE DEF m
<1>5. ASSUME NEW i \in Item PROVE Holds(m, i) <=> \E e \in P : AloneIs(e, i)
  BY <1>3 DEF Holds, AloneIs
<1> QED
  BY <1>3, <1>4, <1>5 DEF HeldOf, AloneOf, m

\* The first of a list of jobs, and the rest.
LEMMA JobsRest ==
    ASSUME NEW q, JobsSound(q), q # << >>
    PROVE  /\ JobsSound(Tail(q)) /\ q[1] \in JobType
           /\ Tells(q[1]) => /\ q[1].kind \in Channels /\ q[1].part \in {"event", "before", "after"}
                             /\ <<q[1].kind, q[1].part>> \in Pairs(q)
                             /\ Pairs(Tail(q)) = Pairs(q) \ {<<q[1].kind, q[1].part>>}
                             /\ (q[1].do = "split" => q[1].part = "event")
           /\ ~Tells(q[1]) => Pairs(Tail(q)) = Pairs(q)
           /\ \A n \in 1..Len(Tail(q)) : n + 1 \in 1..Len(q) /\ Tail(q)[n] = q[n + 1]
<1> DEFINE t == Tail(q)
<1>1. q \in Seq(JobType)
  BY DEF JobsSound
<1>2. Len(q) \in Nat /\ Len(q) # 0
  BY <1>1
<1>3. /\ t \in Seq(JobType) /\ Len(t) = Len(q) - 1 /\ \A n \in 1..Len(t) : t[n] = q[n + 1] /\ n + 1 \in 1..Len(q)
      /\ 1 \in 1..Len(q) /\ q[1] \in JobType
  BY <1>1, <1>2
<1> HIDE DEF t
<1>4. \A n \in 1..Len(q) : n = 1 \/ (n - 1 \in 1..Len(t) /\ t[n - 1] = q[n])
  <2>1. ASSUME NEW n \in 1..Len(q), n # 1 PROVE n - 1 \in 1..Len(t) /\ (n - 1) + 1 = n
    BY <1>2, <1>3, <2>1
  <2> QED
    BY <1>3, <2>1
<1>5. \A n \in 1..Len(q) : Tells(q[n]) => q[n].kind \in Channels /\ q[n].part \in {"event", "before", "after"}
                                          /\ (q[n].do = "split" => q[n].part = "event")
  <2>1. ASSUME NEW n \in 1..Len(q) PROVE q[n] \in JobType
    BY <1>1
  <2> QED
    BY <2>1 DEF JobsSound, JobType
<1>6. \A m, n \in 1..Len(q) : Tells(q[m]) /\ Tells(q[n]) /\ q[m].kind = q[n].kind /\ q[m].part = q[n].part => m = n
  BY DEF JobsSound
<1>7. JobsSound(t)
  <2>1. ASSUME NEW m \in 1..Len(t), NEW n \in 1..Len(t), Tells(t[m]), Tells(t[n]), t[m].kind = t[n].kind, t[m].part = t[n].part
        PROVE  m = n
    <3>1. m + 1 = n + 1
      BY <1>3, <1>6, <2>1
    <3> QED
      BY <3>1
  <2>2. \A n \in 1..Len(t) : Tells(t[n]) => t[n].kind \in Channels /\ t[n].part # "" /\ (t[n].do = "split" => t[n].part = "event")
    BY <1>3, <1>5
  <2> QED
    BY <1>3, <2>1, <2>2 DEF JobsSound
<1>8. Pairs(t) \subseteq Pairs(q)
  BY <1>3 DEF Pairs
<1>9. ASSUME NEW p \in Pairs(q), p \notin Pairs(t) PROVE Tells(q[1]) /\ p = <<q[1].kind, q[1].part>>
  <2>1. PICK n \in 1..Len(q) : Tells(q[n]) /\ p = <<q[n].kind, q[n].part>>
    BY <1>9 DEF Pairs
  <2>2. n = 1
    BY <1>4, <1>9, <2>1 DEF Pairs
  <2> QED
    BY <2>1, <2>2
<1>10. ASSUME Tells(q[1]) PROVE <<q[1].kind, q[1].part>> \in Pairs(q) /\ <<q[1].kind, q[1].part>> \notin Pairs(t)
  <2>1. <<q[1].kind, q[1].part>> \in Pairs(q)
    BY <1>3, <1>5, <1>10 DEF Pairs
  <2>2. ASSUME NEW n \in 1..Len(t), Tells(t[n]), q[1].kind = t[n].kind, q[1].part = t[n].part PROVE FALSE
    <3>1. n + 1 = 1
      BY <1>3, <1>6, <1>10, <2>2
    <3> QED
      BY <3>1
  <2> QED
    BY <2>1, <2>2 DEF Pairs
<1> QED
  BY <1>3, <1>5, <1>7, <1>8, <1>9, <1>10 DEF t

\* The messages and entries have their shape.
CarriedTyped ==
    /\ users \in [Channels -> SUBSET Single] /\ combiner \in [Channels -> SUBSET Single]
    /\ messages \in [Channels -> SUBSET MessageType]
    /\ sender \in [Channels -> [list : SUBSET MessageType, sending : SUBSET MessageType]]
    /\ \A k \in Channels : IsFiniteSet(sender[k].sending) /\ Cardinality(sender[k].sending) <= Workers[k]
    /\ told \subseteq Item /\ lost \subseteq Item
    /\ known \subseteq {"action", "users"} /\ rows \subseteq Numbers

\* A reader tells nothing twice, and everybody or nobody.
ReadersReady ==
    \A r \in Readers : reader[r].at = "jobs" => JobsSound(reader[r].jobs) /\ reader[r].to \in {{}, Users}

\* An event is in its queue, with a reader, or one is done with it.
NumbersApart ==
    /\ consumed \cup unheard \subseteq Numbers
    /\ \A p \in Prios : \A n \in Range(queue[p]) : n \notin consumed \cup unheard /\ \A r \in Readers : reader[r].no # n
    /\ \A r \in Readers : reader[r].at # "idle" => reader[r].no \notin consumed \cup unheard

\* Eight sets that have nothing in common.
Split8(j, u, c, m, l, s, t, x) ==
    /\ j \cap (u \cup c \cup m \cup l \cup s \cup t \cup x) = {} /\ u \cap (c \cup m \cup l \cup s \cup t \cup x) = {}
    /\ c \cap (m \cup l \cup s \cup t \cup x) = {} /\ m \cap (l \cup s \cup t \cup x) = {}
    /\ l \cap (s \cup t \cup x) = {} /\ s \cap (t \cup x) = {} /\ t \cap x = {}
Apart == Split8(Pending, Alone(users), Alone(combiner), Held(messages), Held(Lists), Held(Sendings), told, lost)
Somewhere == Pending \cup Alone(users) \cup Alone(combiner) \cup Held(messages) \cup Held(Lists) \cup Held(Sendings)
               \cup told \cup lost

\* No two messages of a kind tell the same.
Messages(k) == messages[k] \cup sender[k].list \cup sender[k].sending
Unique == \A k \in Channels : \A m, n \in Messages(k) : (\E i \in Item : i.kind = k /\ Holds(m, i) /\ Holds(n, i)) => m = n

\* What is somewhere is of an event a reader has come to tell of, and what is to be
\* told of one that it told of is somewhere.
Telling == {n \in Nat : \E r \in Readers : reader[r].at = "jobs" /\ reader[r].no = n}
Known   == \A i \in Somewhere : i.no \in consumed \cup unheard \cup Telling
Due(i)  == i.part = "event" /\ MayTell(i.no, i.kind)
Served  == \A i \in Item : i.no \in consumed \cup Telling /\ Due(i) => i \in Somewhere

\* Without a failure nothing is lost, and messages are written once the users are known.
Unharmed ==
    failures = 0 => /\ lost = {} /\ unheard = {}
                    /\ \A r \in Readers : reader[r].at = "jobs" => reader[r].to = Users \/ Led(reader[r].jobs)

Carried == CarriedTyped /\ ReadersReady /\ NumbersApart /\ Apart /\ Unique /\ Known /\ Served /\ Unharmed

\* As long as all is somewhere, and the events told of are the same, or more are given
\* up, the rest follows.
LEMMA Carry ==
    ASSUME Known, Served, consumed \cup Telling \subseteq Numbers, \A n \in Numbers : MayTell(n, "sms")' <=> MayTell(n, "sms"),
           Somewhere' = Somewhere, consumed' \cup Telling' \subseteq consumed \cup Telling,
           consumed \cup unheard \cup Telling \subseteq consumed' \cup unheard' \cup Telling'
    PROVE  Known' /\ Served'
<1>1. Known'
  BY DEF Known
<1>2. \A i \in Item : i.no \in Numbers => (Due(i)' <=> Due(i))
  BY DEF Due, MayTell
<1> QED
  BY <1>1, <1>2 DEF Served

\* At the start nobody is to be told anything.
LEMMA CarriedInit == Init => Carried
<1> SUFFICES ASSUME Init PROVE Carried
  OBVIOUS
<1>1. /\ events = << >> /\ failures = 0 /\ queue = [p \in Prios |-> << >>]
      /\ reader = [r \in Readers |-> Free]
      /\ users = [k \in Channels |-> {}] /\ combiner = [k \in Channels |-> {}] /\ messages = [k \in Channels |-> {}]
      /\ sender = [k \in Channels |-> [list |-> {}, sending |-> {}]]
      /\ told = {} /\ lost = {} /\ unheard = {} /\ consumed = {} /\ rows = {} /\ known = {}
  BY DEF Init
<1>2. \A r \in Readers : reader[r].at = "idle" /\ reader[r].no = 0
  BY <1>1, FreeIs
<1>3. \A k \in Channels : users[k] = {} /\ combiner[k] = {} /\ messages[k] = {} /\ sender[k].list = {} /\ sender[k].sending = {}
  BY <1>1
<1>4. \A i \in Item : i.kind \in Channels
  BY DEF Item
<1>5. Pending = {} /\ Alone(users) = {} /\ Alone(combiner) = {} /\ Held(messages) = {} /\ Held(Lists) = {} /\ Held(Sendings) = {}
  <2>1. Pending = {}
    BY <1>2 DEF Pending, PendingOf
  <2>2. Alone(users) = {} /\ Alone(combiner) = {} /\ Held(messages) = {}
    BY <1>3, <1>4 DEF Alone, Held
  <2>3. Held(Lists) = {} /\ Held(Sendings) = {}
    BY <1>3, <1>4 DEF Held, Lists, Sendings
  <2> QED
    BY <2>1, <2>2, <2>3
<1>6. CarriedTyped
  <2>1. IsFiniteSet({}) /\ Cardinality({}) = 0 /\ \A k \in Channels : Workers[k] \in Nat
    BY FS_EmptySet, AlarmAssumption DEF Channels
  <2>2. ASSUME NEW k \in Channels PROVE Cardinality(sender[k].sending) <= Workers[k] /\ IsFiniteSet(sender[k].sending)
    <3>1. sender[k].sending = {}
      BY <1>3
    <3>2. Workers[k] \in Nat /\ 0 <= Workers[k]
      BY <2>1
    <3> QED
      BY <2>1, <3>1, <3>2
  <2> QED
    BY <1>1, <2>2 DEF CarriedTyped
<1>7. ReadersReady
  BY <1>2 DEF ReadersReady
<1>8. NumbersApart
  <2>1. \A p \in Prios : Range(queue[p]) = {}
    BY <1>1 DEF Range
  <2> QED
    BY <1>1, <1>2, <2>1 DEF NumbersApart
<1>9. Apart /\ Known
  BY <1>1, <1>5 DEF Apart, Split8, Known, Somewhere
<1>10. Unique
  BY <1>3 DEF Unique, Messages
<1>11. Served
  BY <1>1, <1>2 DEF Served, Telling
<1>12. Unharmed
  BY <1>1, <1>2 DEF Unharmed
<1> QED
  BY <1>6, <1>7, <1>8, <1>9, <1>10, <1>11, <1>12 DEF Carried

\* A step that leaves the readers, the queues and what they are done with alone.
LEMMA ReadersRest ==
    ASSUME ReadersReady, NumbersApart, UNCHANGED <<events, queue, reader, consumed, unheard>>
    PROVE  /\ ReadersReady' /\ NumbersApart' /\ Pending' = Pending /\ Telling' = Telling /\ Numbers' = Numbers
           /\ \A n, k : MayTell(n, k)' <=> MayTell(n, k)
<1>1. Numbers' = Numbers
  BY DEF Numbers
<1>2. ReadersReady'
  BY DEF ReadersReady
<1>3. NumbersApart'
  BY <1>1 DEF NumbersApart
<1>4. Pending' = Pending /\ Telling' = Telling
  BY DEF Pending, PendingOf, Telling
<1>5. \A n, k : MayTell(n, k)' <=> MayTell(n, k)
  BY DEF MayTell, Event
<1> QED
  BY <1>1, <1>2, <1>3, <1>4, <1>5

\* What a reader tells of is an event the judge sent.
LEMMA TellsSent ==
    ASSUME Consistent, Carried
    PROVE  consumed \cup unheard \cup Telling \subseteq Numbers /\ \A i \in Somewhere : i.no \in Numbers
<1>1. Telling \subseteq Numbers
  BY DEF Telling, Consistent, ReadersTyped
<1>2. consumed \cup unheard \subseteq Numbers
  BY Zenon DEF Carried, NumbersApart
<1> QED
  BY <1>1, <1>2 DEF Carried, Known

\* A step by which items go from one place to another, and no reader does anything.
LEMMA QuietStep ==
    ASSUME Consistent, Carried, UNCHANGED <<events, queue, reader, consumed, unheard>>,
           CarriedTyped', Apart', Unique', Somewhere' = Somewhere, failures' = 0 => failures = 0 /\ lost' = lost
    PROVE  Carried'
<1>1. /\ ReadersReady' /\ NumbersApart' /\ Pending' = Pending /\ Telling' = Telling /\ Numbers' = Numbers
      /\ \A n, k : MayTell(n, k)' <=> MayTell(n, k)
  BY ReadersRest DEF Carried
<1>2. consumed \cup Telling \subseteq Numbers
  BY TellsSent
<1>3. Known' /\ Served'
  BY <1>1, <1>2, Carry DEF Carried
<1>4. Unharmed'
  BY DEF Carried, Unharmed
<1> QED
  BY <1>1, <1>3, <1>4 DEF Carried

\* A note, and a reader that reads or writes a case, tell nothing.
LEMMA NoteCarried ==
    ASSUME Consistent, Carried, NEW c \in Cases, Note(c)
    PROVE  Carried'
<1>1. UNCHANGED <<events, queue, users, messages, reader, rows, known, combiner, sender, told, lost, unheard, consumed, failures>>
  BY DEF Note, redis, history
<1>2. CarriedTyped' /\ Unique'
  BY <1>1 DEF Carried, CarriedTyped, Unique, Messages, Numbers
<1>3. /\ Pending' = Pending /\ Alone(users)' = Alone(users) /\ Alone(combiner)' = Alone(combiner) /\ Held(messages)' = Held(messages)
      /\ Held(Lists)' = Held(Lists) /\ Held(Sendings)' = Held(Sendings)
  BY <1>1 DEF Pending, PendingOf, Alone, Held, Lists, Sendings
<1>4. Apart' /\ Somewhere' = Somewhere
  BY <1>1, <1>3 DEF Carried, Apart, Split8, Somewhere
<1> QED
  BY <1>1, <1>2, <1>4, QuietStep

\* A combiner takes entries of users.
LEMMA PopAllDtoCarried ==
    ASSUME Consistent, Carried, NEW k \in Channels, PopAllDto(k)
    PROVE  Carried'
<1>1. PICK chosen \in SUBSET users[k] :
        combiner' = [combiner EXCEPT ![k] = chosen] /\ (Works \/ Fails) /\ combiner[k] = {}
  <2>1. users[k] \in SUBSET users[k]
    OBVIOUS
  <2> QED
    BY <2>1 DEF PopAllDto
<1>2. /\ users' = [users EXCEPT ![k] = users[k] \ combiner'[k]]
      /\ UNCHANGED <<events, queue, messages, reader, rows, known, sender, told, lost, unheard, consumed>>
  BY DEF PopAllDto, mysql, history
<1>3. /\ users \in [Channels -> SUBSET Single] /\ combiner \in [Channels -> SUBSET Single] /\ failures \in 0..MaxFailures
      /\ CarriedTyped
  BY DEF Carried, CarriedTyped, Consistent, ReadersTyped
<1>4. combiner'[k] = chosen
  BY <1>1, <1>3
<1>5. /\ \A j \in Channels : combiner'[j] = IF j = k THEN combiner[k] \cup chosen ELSE combiner[j]
      /\ \A j \in Channels : users'[j] = IF j = k THEN users[k] \ chosen ELSE users[j]
      /\ users' \in [Channels -> SUBSET Single] /\ combiner' \in [Channels -> SUBSET Single]
  BY <1>1, <1>2, <1>3, <1>4
<1>6. CarriedTyped'
  BY <1>2, <1>3, <1>5 DEF CarriedTyped, Numbers
<1>7. Alone(combiner') = Alone(combiner) \cup AloneOf(k, chosen)
  <2>1. \A j \in Channels : combiner'[j] = IF j = k THEN combiner[k] \cup chosen ELSE combiner[j]
    BY <1>5
  <2> QED
    <3>1. Puts(combiner, combiner', k, chosen)
      BY ONLY <2>1 DEF Puts
    <3> QED
      BY ONLY <3>1, k \in Channels, AlonePut
<1>8. Alone(users') = Alone(users) \ AloneOf(k, chosen) /\ AloneOf(k, chosen) \subseteq Alone(users)
  <2>1. chosen \subseteq users[k] /\ users[k] \subseteq Single
    BY <1>1, <1>3
  <2>2. \A j \in Channels : users'[j] = IF j = k THEN users[k] \ chosen ELSE users[j]
    BY <1>5
  <2>3. AloneOf(k, chosen) \subseteq Alone(users)
    BY <2>1 DEF AloneOf, Alone
  <2>4. Takes(users, users', k, chosen)
    BY ONLY <2>2 DEF Takes
  <2>5. Some(chosen, users, k)
    BY ONLY <2>1 DEF Some
  <2>6. Alone(users') = Alone(users) \ AloneOf(k, chosen)
    BY ONLY <2>4, <2>5, k \in Channels, AloneTake
  <2> QED
    BY <2>3, <2>6
<1>9. Pending' = Pending /\ Held(messages') = Held(messages) /\ Held(Lists)' = Held(Lists) /\ Held(Sendings)' = Held(Sendings)
  BY <1>2 DEF Pending, PendingOf, Held, Lists, Sendings
<1>10. Apart' /\ Somewhere' = Somewhere
  <2>1. Apart
    BY DEF Carried
  <2> QED
    BY <1>2, <1>7, <1>8, <1>9, <2>1 DEF Apart, Split8, Somewhere
<1>11. Unique'
  BY <1>2 DEF Carried, Unique, Messages
<1>12. failures' = 0 => failures = 0
  BY <1>1, <1>3, FailuresCount
<1> QED
  BY <1>2, <1>6, <1>10, <1>11, <1>12, QuietStep

\* A new message of items no message has tells nothing a second time.
LEMMA UniquePut ==
    ASSUME Unique, NEW k \in Channels, NEW m \in MessageType,
           \A j \in Channels : Messages(j)' \subseteq IF j = k THEN Messages(k) \cup {m} ELSE Messages(j),
           HeldOf(k, {m}) \cap (Held(messages) \cup Held(Lists) \cup Held(Sendings)) = {}
    PROVE  Unique'
<1>1. ASSUME NEW n \in Messages(k), NEW i \in Item, i.kind = k, Holds(m, i), Holds(n, i) PROVE FALSE
  <2>1. i \in HeldOf(k, {m})
    BY <1>1 DEF HeldOf
  <2>2. i \in Held(messages) \cup Held(Lists) \cup Held(Sendings)
    BY <1>1 DEF Messages, Held, Lists, Sendings
  <2> QED
    BY <2>1, <2>2
<1>2. ASSUME NEW j \in Channels, NEW x \in Messages(j)', NEW y \in Messages(j)', NEW i \in Item, i.kind = j, Holds(x, i), Holds(y, i)
      PROVE  x = y
  <2>1. CASE j # k
    BY <1>2, <2>1 DEF Unique
  <2>2. CASE j = k
    <3>1. x \in Messages(k) \/ x = m
      BY <1>2, <2>2
    <3>2. y \in Messages(k) \/ y = m
      BY <1>2, <2>2
    <3> QED
      BY <1>1, <1>2, <2>2, <3>1, <3>2 DEF Unique
  <2> QED
    BY <2>1, <2>2
<1> QED
  BY <1>2 DEF Unique

\* A combiner writes a group as a message, or loses it.
LEMMA WriteGroupCarried ==
    ASSUME Consistent, Carried, NEW k \in Channels, NEW d, WriteGroup(k, d)
    PROVE  Carried'
<1>0. PICK G : G = Group(k, d)
  OBVIOUS
<1>1. PICK m : m = Message({e.no : e \in G}, {d.user}, "event")
  OBVIOUS
<1>2. /\ d \in combiner[k] /\ combiner' = [combiner EXCEPT ![k] = combiner[k] \ G]
      /\ \/ Works /\ messages' = [messages EXCEPT ![k] = messages[k] \cup {m}] /\ UNCHANGED lost
         \/ Fails /\ lost' = lost \cup Items(k, m) /\ UNCHANGED messages
      /\ UNCHANGED <<events, queue, users, reader, rows, known, sender, told, unheard, consumed>>
  BY <1>0, <1>1 DEF WriteGroup, mysql
<1>3. /\ combiner \in [Channels -> SUBSET Single] /\ messages \in [Channels -> SUBSET MessageType] /\ failures \in 0..MaxFailures
      /\ CarriedTyped /\ Apart /\ Unique
  BY DEF Carried, CarriedTyped, Consistent, ReadersTyped
<1>4. G \subseteq combiner[k] /\ G \subseteq Single /\ \A e \in G : e.user = d.user
  BY <1>0, <1>3 DEF Group
<1>5. d.user \in Users
  BY <1>2, <1>3 DEF Single
<1>6. m \in MessageType /\ Items(k, m) = AloneOf(k, G)
  BY <1>1, <1>4, <1>5, GroupIs
<1>7. Items(k, m) = HeldOf(k, {m}) /\ Items(k, m) \subseteq Item
  BY <1>6, ItemsAre
<1>8. /\ \A j \in Channels : combiner'[j] = IF j = k THEN combiner[k] \ G ELSE combiner[j]
      /\ combiner' \in [Channels -> SUBSET Single]
  BY <1>2, <1>3
<1>9. Alone(combiner') = Alone(combiner) \ Items(k, m) /\ Items(k, m) \subseteq Alone(combiner)
  <2>1. G \subseteq combiner[k] /\ combiner[k] \subseteq Single
    BY <1>3, <1>4
  <2>2. \A j \in Channels : combiner'[j] = IF j = k THEN combiner[k] \ G ELSE combiner[j]
    BY <1>8
  <2>3. AloneOf(k, G) \subseteq Alone(combiner)
    BY <2>1 DEF AloneOf, Alone
  <2>4. Alone(combiner') = Alone(combiner) \ AloneOf(k, G)
    <3>1. Takes(combiner, combiner', k, G)
      BY ONLY <2>2 DEF Takes
    <3>2. Some(G, combiner, k)
      BY ONLY <2>1 DEF Some
    <3> QED
      BY ONLY <3>1, <3>2, k \in Channels, AloneTake
  <2> QED
    BY <1>6, <2>3, <2>4
<1>10. Pending' = Pending /\ Alone(users') = Alone(users) /\ Held(Lists)' = Held(Lists) /\ Held(Sendings)' = Held(Sendings)
  BY <1>2 DEF Pending, PendingOf, Alone, Held, Lists, Sendings
<1>11. CASE Works /\ messages' = [messages EXCEPT ![k] = messages[k] \cup {m}] /\ UNCHANGED lost
  <2>1. /\ \A j \in Channels : messages'[j] = IF j = k THEN messages[k] \cup {m} ELSE messages[j]
        /\ messages' \in [Channels -> SUBSET MessageType]
    BY <1>3, <1>6, <1>11
  <2>2. Held(messages') = Held(messages) \cup Items(k, m)
    BY <1>7, <2>1, HeldPut, SMTT(30) DEF Puts
  <2>3. Apart' /\ Somewhere' = Somewhere
    BY <1>2, <1>3, <1>9, <1>10, <1>11, <2>2, ZenonT(40) DEF Apart, Split8, Somewhere
  <2>4. Unique'
    <3>1. \A j \in Channels : Messages(j)' \subseteq IF j = k THEN Messages(k) \cup {m} ELSE Messages(j)
      BY <1>2, <2>1 DEF Messages
    <3>2. HeldOf(k, {m}) \cap (Held(messages) \cup Held(Lists) \cup Held(Sendings)) = {}
      BY <1>3, <1>7, <1>9 DEF Apart, Split8
    <3> QED
      BY <1>3, <1>6, <3>1, <3>2, UniquePut
  <2>5. CarriedTyped'
    BY <1>2, <1>3, <1>8, <1>11, <2>1 DEF CarriedTyped, Numbers
  <2>6. failures' = 0 => failures = 0
    BY <1>3, <1>11, FailuresCount
  <2> QED
    BY <1>2, <1>11, <2>3, <2>4, <2>5, <2>6, QuietStep
<1>12. CASE Fails /\ lost' = lost \cup Items(k, m) /\ UNCHANGED messages
  <2>1. Held(messages') = Held(messages)
    BY <1>12
  <2>2. Apart' /\ Somewhere' = Somewhere
    BY <1>2, <1>3, <1>9, <1>10, <1>12, <2>1, ZenonT(40) DEF Apart, Split8, Somewhere
  <2>3. Unique'
    BY <1>2, <1>3, <1>12 DEF Unique, Messages
  <2>4. CarriedTyped'
    BY <1>2, <1>3, <1>7, <1>8, <1>12 DEF CarriedTyped, Numbers
  <2>5. failures' # 0
    BY <1>3, <1>12, FailuresCount
  <2> QED
    BY <1>2, <2>2, <2>3, <2>4, <2>5, QuietStep
<1> QED
  BY <1>2, <1>11, <1>12

SenderType == [list : SUBSET MessageType, sending : SUBSET MessageType]

\* A sender that has other messages.
LEMMA SenderHas ==
    ASSUME sender \in [Channels -> SenderType], NEW k \in Channels, NEW L \in SUBSET MessageType, NEW S \in SUBSET MessageType,
           sender' = [sender EXCEPT ![k] = [sender[k] EXCEPT !.list = L, !.sending = S]]
    PROVE  /\ sender' \in [Channels -> SenderType]
           /\ sender'[k].list = L /\ sender'[k].sending = S /\ \A j \in Channels \ {k} : sender'[j] = sender[j]
           /\ \A j \in Channels : Lists[j] = sender[j].list /\ Lists'[j] = sender'[j].list
           /\ \A j \in Channels : Sendings[j] = sender[j].sending /\ Sendings'[j] = sender'[j].sending
<1> DEFINE x == [sender[k] EXCEPT !.list = L, !.sending = S]
<1>1. sender[k] \in SenderType
  OBVIOUS
<1>2. x \in SenderType /\ x.list = L /\ x.sending = S
  BY <1>1 DEF SenderType
<1> HIDE DEF x
<1>3. sender' = [sender EXCEPT ![k] = x]
  BY DEF x
<1>4. sender' \in [Channels -> SenderType] /\ sender'[k] = x /\ \A j \in Channels \ {k} : sender'[j] = sender[j]
  BY <1>2, <1>3
<1> QED
  BY <1>2, <1>4 DEF Lists, Sendings

\* No message waits in two places, as far as it tells anything.
LEMMA UniqueParts == Unique => UniqueIn(messages) /\ UniqueIn(Lists) /\ UniqueIn(Sendings)
BY DEF Unique, UniqueIn, Messages, Lists, Sendings

\* A sender takes messages off redis.
LEMMA PopAllCarried ==
    ASSUME Consistent, Carried, NEW k \in Channels, PopAll(k)
    PROVE  Carried'
<1>1. PICK popped \in SUBSET messages[k] :
        /\ Works \/ Fails
        /\ sender' = [sender EXCEPT ![k].list = popped]
        /\ messages' = [messages EXCEPT ![k] = messages[k] \ popped]
  BY DEF PopAll
<1>2. /\ sender[k].list = {}
      /\ UNCHANGED <<events, queue, users, reader, rows, known, combiner, told, lost, unheard, consumed>>
  BY DEF PopAll, mysql, history
<1>3. /\ sender \in [Channels -> SenderType] /\ messages \in [Channels -> SUBSET MessageType] /\ failures \in 0..MaxFailures
      /\ CarriedTyped /\ Apart /\ Unique
  BY DEF Carried, CarriedTyped, Consistent, ReadersTyped, SenderType
<1>4. /\ sender' \in [Channels -> SenderType]
      /\ sender'[k].list = popped /\ sender'[k].sending = sender[k].sending /\ \A j \in Channels \ {k} : sender'[j] = sender[j]
      /\ \A j \in Channels : Lists[j] = sender[j].list /\ Lists'[j] = sender'[j].list
      /\ \A j \in Channels : Sendings[j] = sender[j].sending /\ Sendings'[j] = sender'[j].sending
  <2>1. sender[k] \in SenderType /\ popped \in SUBSET MessageType
    BY <1>1, <1>3
  <2>2. sender[k].sending \in SUBSET MessageType
    BY <2>1 DEF SenderType
  <2>3. [sender[k] EXCEPT !.list = popped] = [sender[k] EXCEPT !.list = popped, !.sending = sender[k].sending]
    BY <2>1 DEF SenderType
  <2>4. sender' = [sender EXCEPT ![k] = [sender[k] EXCEPT !.list = popped]]
    BY <1>1
  <2>5. sender' = [sender EXCEPT ![k] = [sender[k] EXCEPT !.list = popped, !.sending = sender[k].sending]]
    BY <2>3, <2>4
  <2> QED
    BY <1>3, <2>1, <2>2, <2>5, SenderHas
<1>5. /\ messages' \in [Channels -> SUBSET MessageType]
      /\ \A j \in Channels : messages'[j] = IF j = k THEN messages[k] \ popped ELSE messages[j]
  BY <1>1, <1>3
<1>6. CarriedTyped'
  <2>1. \A j \in Channels : sender'[j].sending = sender[j].sending
    BY <1>4
  <2> QED
    BY <1>2, <1>3, <1>4, <1>5, <2>1 DEF CarriedTyped, Numbers, SenderType
<1>7. Held(messages') = Held(messages) \ HeldOf(k, popped) /\ HeldOf(k, popped) \subseteq Held(messages)
  <2>1. UniqueIn(messages) /\ \A j \in Channels : messages'[j] = IF j = k THEN messages[k] \ popped ELSE messages[j]
    BY <1>3, <1>5, UniqueParts
  <2>2. HeldOf(k, popped) \subseteq Held(messages)
    BY DEF HeldOf, Held
  <2>3. Held(messages') = Held(messages) \ HeldOf(k, popped)
    <3>1. Takes(messages, messages', k, popped)
      BY ONLY <2>1 DEF Takes
    <3> QED
      BY ONLY <2>1, <3>1, popped \subseteq messages[k], k \in Channels, HeldTake
  <2> QED
    BY <2>2, <2>3
<1>8. Held(Lists') = Held(Lists) \cup HeldOf(k, popped)
  <2>0. PICK f, g : f = Lists /\ g = Lists'
    OBVIOUS
  <2>1. f[k] = {} /\ g[k] = popped /\ \A j \in Channels : j # k => g[j] = f[j]
    BY <1>2, <1>4, <2>0
  <2>2. \A j \in Channels : g[j] = IF j = k THEN f[k] \cup popped ELSE f[j]
    BY <2>1
  <2>3. Held(g) = Held(f) \cup HeldOf(k, popped)
    <3>1. Puts(f, g, k, popped)
      BY ONLY <2>2 DEF Puts
    <3> QED
      BY ONLY <3>1, k \in Channels, HeldPut
  <2> QED
    BY <2>0, <2>3
<1>9. Held(Sendings') = Held(Sendings)
  BY <1>4 DEF Held, Item
<1>10. Pending' = Pending /\ Alone(users') = Alone(users) /\ Alone(combiner') = Alone(combiner)
  BY <1>2 DEF Pending, PendingOf, Alone
<1>11. Apart' /\ Somewhere' = Somewhere
  BY <1>2, <1>3, <1>7, <1>8, <1>9, <1>10 DEF Apart, Split8, Somewhere
<1>12. Unique'
  <2>1. \A j \in Channels : Messages(j)' \subseteq Messages(j)
    BY <1>2, <1>4, <1>5 DEF Messages
  <2> QED
    BY <1>3, <2>1 DEF Unique
<1>13. failures' = 0 => failures = 0
  BY <1>1, <1>3, FailuresCount
<1> QED
  BY <1>2, <1>6, <1>11, <1>12, <1>13, QuietStep

\* A message whose sending starts, for which there is a slot.
LEMMA StartSendCarried ==
    ASSUME Consistent, Carried, NEW k \in Channels, NEW m, StartSend(k, m)
    PROVE  Carried'
<1>1. PICK L, S : L = sender[k].list \ {m} /\ S = sender[k].sending \cup {m}
  OBVIOUS
<1>2. /\ m \in sender[k].list /\ Cardinality(sender[k].sending) < Workers[k]
      /\ sender' = [sender EXCEPT ![k].list = L, ![k].sending = S]
      /\ UNCHANGED <<events, queue, users, messages, reader, rows, known, combiner, told, lost, unheard, consumed, failures>>
  BY <1>1 DEF StartSend, HasSlot, mysql, history, redis
<1>3. /\ sender \in [Channels -> SenderType] /\ CarriedTyped /\ Apart /\ Unique
  BY DEF Carried, CarriedTyped, SenderType
<1>4. sender[k] \in SenderType /\ L \in SUBSET MessageType /\ S \in SUBSET MessageType
  <2>1. sender[k] \in SenderType
    BY <1>3
  <2>2. sender[k].list \in SUBSET MessageType /\ sender[k].sending \in SUBSET MessageType
    BY <2>1 DEF SenderType
  <2> QED
    BY <1>1, <1>2, <2>1, <2>2
<1>5. /\ sender' \in [Channels -> SenderType]
      /\ sender'[k].list = L /\ sender'[k].sending = S /\ \A j \in Channels \ {k} : sender'[j] = sender[j]
      /\ \A j \in Channels : Lists[j] = sender[j].list /\ Lists'[j] = sender'[j].list
      /\ \A j \in Channels : Sendings[j] = sender[j].sending /\ Sendings'[j] = sender'[j].sending
  <2>1. sender' = [sender EXCEPT ![k] = [sender[k] EXCEPT !.list = L, !.sending = S]]
    BY <1>2, <1>3, <1>4 DEF SenderType
  <2> QED
    BY <1>3, <1>4, <2>1, SenderHas
<1>6. CarriedTyped'
  <2>1. IsFiniteSet(sender[k].sending)
    BY <1>3 DEF CarriedTyped
  <2>2. IsFiniteSet(S) /\ Cardinality(S) <= Workers[k]
    <3>1. /\ IsFiniteSet(sender[k].sending \cup {m})
          /\ Cardinality(sender[k].sending \cup {m}) = IF m \in sender[k].sending THEN Cardinality(sender[k].sending)
                                                      ELSE Cardinality(sender[k].sending) + 1
      BY <2>1, FS_AddElement
    <3>2. Cardinality(sender[k].sending) \in Nat /\ Workers[k] \in Nat
      BY <2>1, FS_CardinalityType, AlarmAssumption DEF Channels
    <3> QED
      BY <1>1, <1>2, <3>1, <3>2
  <2>3. \A j \in Channels : IsFiniteSet(sender'[j].sending) /\ Cardinality(sender'[j].sending) <= Workers[j]
    BY <1>3, <1>5, <2>2 DEF CarriedTyped
  <2> QED
    BY <1>2, <1>3, <1>5, <2>3 DEF CarriedTyped, Numbers, SenderType
<1>7. Held(Lists') = Held(Lists) \ HeldOf(k, {m}) /\ HeldOf(k, {m}) \subseteq Held(Lists)
  <2>1. UniqueIn(Lists) /\ {m} \subseteq Lists[k] /\ \A j \in Channels : Lists'[j] = IF j = k THEN Lists[k] \ {m} ELSE Lists[j]
    BY <1>1, <1>2, <1>3, <1>5, UniqueParts
  <2>2. HeldOf(k, {m}) \subseteq Held(Lists)
    BY <2>1 DEF HeldOf, Held
  <2>3. PICK f, g : f = Lists /\ g = Lists'
    OBVIOUS
  <2>4. UniqueIn(f) /\ {m} \subseteq f[k] /\ \A j \in Channels : g[j] = IF j = k THEN f[k] \ {m} ELSE f[j]
    BY <2>1, <2>3
  <2>5. Held(g) = Held(f) \ HeldOf(k, {m})
    <3>1. Takes(f, g, k, {m})
      BY ONLY <2>4 DEF Takes
    <3> QED
      BY ONLY <2>4, <3>1, k \in Channels, HeldTake
  <2> QED
    BY <2>2, <2>3, <2>5
<1>8. Held(Sendings') = Held(Sendings) \cup HeldOf(k, {m})
  <2>0. PICK f, g, P : f = Sendings /\ g = Sendings' /\ P = {m}
    OBVIOUS
  <2>1. \A j \in Channels : g[j] = IF j = k THEN f[k] \cup P ELSE f[j]
    BY <1>1, <1>5, <2>0
  <2>2. Held(g) = Held(f) \cup HeldOf(k, P)
    <3>1. Puts(f, g, k, P)
      BY <2>1 DEF Puts
    <3> QED
      BY <3>1, HeldPut
  <2> QED
    BY <2>0, <2>2
<1>9. Pending' = Pending /\ Alone(users') = Alone(users) /\ Alone(combiner') = Alone(combiner) /\ Held(messages') = Held(messages)
  BY <1>2 DEF Pending, PendingOf, Alone
<1>10. Apart' /\ Somewhere' = Somewhere
  BY <1>2, <1>3, <1>7, <1>8, <1>9 DEF Apart, Split8, Somewhere
<1>11. Unique'
  <2>1. \A j \in Channels : Messages(j)' \subseteq Messages(j)
    BY <1>1, <1>2, <1>5 DEF Messages
  <2> QED
    BY <1>3, <2>1 DEF Unique
<1> QED
  BY <1>2, <1>6, <1>10, <1>11, QuietStep

\* A message that has been sent, or lost on the way.
LEMMA EndSendCarried ==
    ASSUME Consistent, Carried, NEW k \in Channels, NEW m, EndSend(k, m)
    PROVE  Carried'
<1>1. PICK S : S = sender[k].sending \ {m}
  OBVIOUS
<1>2. /\ m \in sender[k].sending
      /\ \/ Works /\ told' = told \cup Items(k, m) /\ UNCHANGED lost
         \/ Fails /\ lost' = lost \cup Items(k, m) /\ UNCHANGED told
      /\ sender' = [sender EXCEPT ![k].sending = S]
      /\ UNCHANGED <<events, queue, users, messages, reader, rows, known, combiner, unheard, consumed>>
  BY <1>1 DEF EndSend, mysql, redis
<1>3. sender \in [Channels -> SenderType] /\ CarriedTyped /\ Apart /\ Unique /\ failures \in 0..MaxFailures
  BY DEF Carried, CarriedTyped, SenderType, Consistent, ReadersTyped
<1>4. sender[k] \in SenderType /\ sender[k].list \in SUBSET MessageType /\ S \in SUBSET MessageType /\ m \in MessageType
  <2>1. sender[k] \in SenderType
    BY <1>3
  <2>2. sender[k].list \in SUBSET MessageType /\ sender[k].sending \in SUBSET MessageType
    BY <2>1 DEF SenderType
  <2> QED
    BY <1>1, <1>2, <2>1, <2>2
<1>5. /\ sender' \in [Channels -> SenderType]
      /\ sender'[k].list = sender[k].list /\ sender'[k].sending = S /\ \A j \in Channels \ {k} : sender'[j] = sender[j]
      /\ \A j \in Channels : Lists[j] = sender[j].list /\ Lists'[j] = sender'[j].list
      /\ \A j \in Channels : Sendings[j] = sender[j].sending /\ Sendings'[j] = sender'[j].sending
  <2>1. [sender[k] EXCEPT !.sending = S] = [sender[k] EXCEPT !.list = sender[k].list, !.sending = S]
    BY <1>4 DEF SenderType
  <2>2. sender' = [sender EXCEPT ![k] = [sender[k] EXCEPT !.sending = S]]
    BY <1>2
  <2>3. sender' = [sender EXCEPT ![k] = [sender[k] EXCEPT !.list = sender[k].list, !.sending = S]]
    BY <2>1, <2>2
  <2> QED
    BY <1>3, <1>4, <2>3, SenderHas
<1>6. Items(k, m) = HeldOf(k, {m}) /\ Items(k, m) \subseteq Item
  BY <1>4, ItemsAre
<1>7. CarriedTyped'
  <2>1. IsFiniteSet(sender[k].sending) /\ Cardinality(sender[k].sending) <= Workers[k]
    BY <1>3 DEF CarriedTyped
  <2>2. IsFiniteSet(S) /\ Cardinality(S) <= Workers[k]
    <3>1. /\ IsFiniteSet(sender[k].sending \ {m})
          /\ Cardinality(sender[k].sending \ {m}) = Cardinality(sender[k].sending) - 1
      BY <1>2, <2>1, FS_RemoveElement
    <3>2. Cardinality(sender[k].sending) \in Nat /\ Workers[k] \in Nat
      BY <2>1, FS_CardinalityType, AlarmAssumption DEF Channels
    <3> QED
      BY <1>1, <2>1, <3>1, <3>2
  <2>3. \A j \in Channels : IsFiniteSet(sender'[j].sending) /\ Cardinality(sender'[j].sending) <= Workers[j]
    BY <1>3, <1>5, <2>2 DEF CarriedTyped
  <2> QED
    BY <1>2, <1>3, <1>5, <1>6, <2>3 DEF CarriedTyped, Numbers, SenderType
<1>8. Held(Sendings') = Held(Sendings) \ HeldOf(k, {m}) /\ HeldOf(k, {m}) \subseteq Held(Sendings)
  <2>1. /\ UniqueIn(Sendings) /\ {m} \subseteq Sendings[k]
        /\ \A j \in Channels : Sendings'[j] = IF j = k THEN Sendings[k] \ {m} ELSE Sendings[j]
    BY <1>1, <1>2, <1>3, <1>5, UniqueParts
  <2>2. HeldOf(k, {m}) \subseteq Held(Sendings)
    BY <2>1 DEF HeldOf, Held
  <2>3. PICK f, g : f = Sendings /\ g = Sendings'
    OBVIOUS
  <2>4. UniqueIn(f) /\ {m} \subseteq f[k] /\ \A j \in Channels : g[j] = IF j = k THEN f[k] \ {m} ELSE f[j]
    BY <2>1, <2>3
  <2>5. Held(g) = Held(f) \ HeldOf(k, {m})
    <3>1. Takes(f, g, k, {m})
      BY ONLY <2>4 DEF Takes
    <3> QED
      BY ONLY <2>4, <3>1, k \in Channels, HeldTake
  <2> QED
    BY <2>2, <2>3, <2>5
<1>9. Held(Lists') = Held(Lists)
  BY <1>5 DEF Held, Item
<1>10. Pending' = Pending /\ Alone(users') = Alone(users) /\ Alone(combiner') = Alone(combiner) /\ Held(messages') = Held(messages)
  BY <1>2 DEF Pending, PendingOf, Alone
<1>11. Apart' /\ Somewhere' = Somewhere
  <2>1. (told' = told \cup HeldOf(k, {m}) /\ lost' = lost) \/ (lost' = lost \cup HeldOf(k, {m}) /\ told' = told)
    BY <1>2, <1>6
  <2> QED
    BY <1>3, <1>8, <1>9, <1>10, <2>1 DEF Apart, Split8, Somewhere
<1>12. Unique'
  <2>1. \A j \in Channels : Messages(j)' \subseteq Messages(j)
    BY <1>1, <1>2, <1>5 DEF Messages
  <2> QED
    BY <1>3, <2>1 DEF Unique
<1>13. failures' = 0 => failures = 0 /\ lost' = lost
  BY <1>2, <1>3, FailuresCount
<1> QED
  BY <1>2, <1>7, <1>11, <1>12, <1>13, QuietStep

\* A step in which no reader tells anything.
LEMMA UntoldStep ==
    ASSUME Consistent, Carried, UNCHANGED <<users, combiner, messages, sender, told, lost, consumed>>,
           \A s \in Readers : reader'[s] = reader[s] \/ (reader[s].at # "jobs" /\ reader'[s].at # "jobs"),
           \A n \in Numbers : MayTell(n, "sms")' <=> MayTell(n, "sms"),
           CarriedTyped', NumbersApart', unheard \subseteq unheard', failures' = 0 => failures = 0 /\ unheard' = unheard
    PROVE  Carried'
<1>1. Pending' = Pending /\ Telling' = Telling
  <2>1. \A s \in Readers : (reader'[s].at = "jobs" <=> reader[s].at = "jobs") /\ (reader[s].at = "jobs" => reader'[s] = reader[s])
    OBVIOUS
  <2>2. \A s \in Readers : PendingOf(s)' = PendingOf(s)
    BY <2>1 DEF PendingOf
  <2> QED
    BY <2>1, <2>2 DEF Pending, Telling
<1>2. ReadersReady'
  BY DEF Carried, ReadersReady
<1>3. /\ Alone(users)' = Alone(users) /\ Alone(combiner)' = Alone(combiner) /\ Held(messages)' = Held(messages)
      /\ Held(Lists)' = Held(Lists) /\ Held(Sendings)' = Held(Sendings)
  BY DEF Alone, Held, Lists, Sendings
<1>4. Apart' /\ Somewhere' = Somewhere
  BY <1>1, <1>3 DEF Carried, Apart, Split8, Somewhere
<1>5. Unique'
  BY DEF Carried, Unique, Messages
<1>6. Known' /\ Served'
  <2>1. Known /\ Served /\ consumed \cup Telling \subseteq Numbers
    BY TellsSent DEF Carried
  <2>2. /\ consumed' \cup Telling' \subseteq consumed \cup Telling
        /\ consumed \cup unheard \cup Telling \subseteq consumed' \cup unheard' \cup Telling'
    BY <1>1
  <2> QED
    BY <1>4, <2>1, <2>2, Carry
<1>7. Unharmed'
  <2>1. \A s \in Readers : reader'[s].at = "jobs" => reader'[s] = reader[s]
    OBVIOUS
  <2> QED
    BY <2>1 DEF Carried, Unharmed
<1> QED
  BY <1>2, <1>4, <1>5, <1>6, <1>7 DEF Carried

\* A new event is in its queue only.
LEMMA JudgeCarried ==
    ASSUME Consistent, Carried, NEW c \in Cases, NEW p \in Prios, NEW s \in Statuses, Judge(c, p, s)
    PROVE  Carried'
<1>0. PICK N : N = Len(events) + 1
  OBVIOUS
<1> DEFINE e == [case |-> c, prio |-> p, status |-> s]
<1>1. /\ events' = Append(events, e) /\ queue' = [queue EXCEPT ![p] = Append(queue[p], N)]
      /\ UNCHANGED <<reader, users, messages, rows, known, combiner, sender, told, lost, unheard, consumed, failures>>
  BY <1>0 DEF Judge, mysql, history
<1>2. events \in Seq(EventType) /\ queue \in [Prios -> Seq(Numbers)] /\ e \in EventType /\ CarriedTyped /\ NumbersApart
  BY DEF Consistent, ReadersTyped, EventType, Carried
<1>3. Len(events') = N /\ N \in Nat /\ \A n \in 1..Len(events) : events'[n] = events[n]
  BY <1>0, <1>1, <1>2
<1> HIDE DEF e
<1>4. Numbers \subseteq Numbers' /\ N \notin Numbers
  BY <1>0, <1>2, <1>3 DEF Numbers
<1>5. \A n \in Numbers : MayTell(n, "sms")' <=> MayTell(n, "sms")
  BY <1>3 DEF MayTell, Event, Numbers
<1>6. \A q \in Prios : \A n \in Range(queue'[q]) : n \in Range(queue[q]) \/ n = N
  <2> SUFFICES ASSUME NEW q \in Prios, NEW n \in Range(queue'[q]) PROVE n \in Range(queue[q]) \/ n = N
    OBVIOUS
  <2>1. queue[q] \in Seq(Numbers)
    BY <1>2
  <2>2. CASE q # p
    BY <1>1, <1>2, <2>2
  <2>3. CASE q = p
    <3>1. queue'[q] = Append(queue[q], N)
      BY <1>1, <1>2, <2>3
    <3>2. PICK i \in 1..Len(queue[q]) + 1 : n = Append(queue[q], N)[i]
      BY <2>1, <3>1 DEF Range
    <3> QED
      BY <2>1, <3>2 DEF Range
  <2> QED
    BY <2>2, <2>3
<1>7. \A r \in Readers : reader[r].no \in Numbers \cup {0}
  BY DEF Consistent, ReadersTyped
<1>8. NumbersApart'
  <2>1. N # 0 /\ \A r \in Readers : reader[r].no # N
    BY <1>0, <1>2, <1>4, <1>7
  <2>2. consumed' \cup unheard' \subseteq Numbers' /\ N \notin consumed \cup unheard
    BY <1>1, <1>2, <1>4 DEF NumbersApart
  <2> QED
    BY <1>1, <1>2, <1>6, <2>1, <2>2 DEF NumbersApart
<1>9. CarriedTyped'
  BY <1>1, <1>2, <1>4 DEF CarriedTyped
<1> QED
  BY <1>1, <1>5, <1>8, <1>9, UntoldStep

\* An event that is popped is with the reader, or has been lost on the way.
LEMMA PopCarried ==
    ASSUME Consistent, Carried, NEW r \in Readers, Pop(r)
    PROVE  Carried'
<1> USE DEF Event
<1>1. PICK p \in Queues(r) :
        /\ reader[r].at = "idle" /\ queue[p] # << >>
        /\ queue' = [queue EXCEPT ![p] = Tail(queue[p])]
        /\ \/ /\ Works /\ UNCHANGED unheard
              /\ reader' = [reader EXCEPT ![r] = [Free EXCEPT !.no = Head(queue[p]),
                   !.at = IF Event(Head(queue[p])).status = "DDALERT" THEN "write" ELSE "case"]]
           \/ Fails /\ unheard' = unheard \cup {Head(queue[p])} /\ UNCHANGED reader
  BY DEF Pop
<1>2. UNCHANGED <<events, users, messages, rows, known, combiner, sender, told, lost, consumed>>
  BY DEF Pop, mysql
<1>3. /\ queue \in [Prios -> Seq(Numbers)] /\ reader \in [Readers -> ReaderType] /\ failures \in 0..MaxFailures
      /\ p \in Prios /\ Numbers \subseteq Nat /\ CarriedTyped /\ NumbersApart
      /\ \A q \in Prios : \A m \in Range(queue[q]) : events[m].prio = q
  BY AlarmAssumption DEF Consistent, ReadersTyped, Numbers, Queues, Carried
<1>4. PICK n : n = Head(queue[p])
  OBVIOUS
<1>5. /\ n \in Range(queue[p]) /\ n \in Numbers /\ Tail(queue[p]) \in Seq(Numbers)
      /\ Range(queue[p]) = Range(Tail(queue[p])) \cup {n} /\ \A m \in Range(Tail(queue[p])) : n < m
  <2>1. queue[p] \in Seq(Numbers) /\ \A i, j \in 1..Len(queue[p]) : i < j => queue[p][i] < queue[p][j]
    BY <1>3 DEF Consistent, Lined
  <2> QED
    BY <1>1, <1>3, <1>4, <2>1, QueueHead
<1>6. \A q \in Prios : Range(queue'[q]) \subseteq Range(queue[q]) \ {n}
  <2> SUFFICES ASSUME NEW q \in Prios PROVE Range(queue'[q]) \subseteq Range(queue[q]) \ {n}
    OBVIOUS
  <2>1. CASE q = p
    <3>1. queue'[q] = Tail(queue[p])
      BY <1>1, <1>3, <2>1
    <3>2. \A m \in Range(Tail(queue[p])) : m # n
      BY <1>3, <1>5
    <3> QED
      BY <1>5, <2>1, <3>1, <3>2
  <2>2. CASE q # p
    <3>1. queue'[q] = queue[q]
      BY <1>1, <1>3, <2>2
    <3>2. n \notin Range(queue[q])
      BY <1>3, <1>5, <2>2
    <3> QED
      BY <3>1, <3>2
  <2> QED
    BY <2>1, <2>2
<1>7. n \notin consumed \cup unheard /\ \A s \in Readers : reader[s].no # n
  BY <1>3, <1>5 DEF NumbersApart
<1>8. /\ \A s \in Readers \ {r} : reader'[s] = reader[s]
      /\ \/ reader'[r].at \in {"case", "write"} /\ reader'[r].no = n /\ unheard' = unheard /\ Works
         \/ reader' = reader /\ unheard' = unheard \cup {n} /\ Fails
  <2>1. CASE Works /\ UNCHANGED unheard /\ reader' = [reader EXCEPT ![r] = [Free EXCEPT !.no = n,
                                               !.at = IF events[n].status = "DDALERT" THEN "write" ELSE "case"]]
    <3> DEFINE x == [Free EXCEPT !.no = n, !.at = IF events[n].status = "DDALERT" THEN "write" ELSE "case"]
    <3>1. x.at \in {"case", "write"} /\ x.no = n
      BY DEF Free
    <3> HIDE DEF x
    <3>2. reader' = [reader EXCEPT ![r] = x]
      BY <2>1 DEF x
    <3> QED
      BY <1>3, <2>1, <3>1, <3>2
  <2> QED
    BY <1>1, <1>4, <2>1
<1>9. Numbers' = Numbers
  BY <1>2 DEF Numbers
<1>10. NumbersApart'
  <2>1. consumed' \cup unheard' \subseteq Numbers'
    BY <1>2, <1>3, <1>5, <1>8, <1>9 DEF NumbersApart
  <2>2. ASSUME NEW q \in Prios, NEW m \in Range(queue'[q]) PROVE m \notin consumed' \cup unheard' /\ \A s \in Readers : reader'[s].no # m
    <3>1. m \in Range(queue[q]) /\ m # n
      BY <1>6, <2>2
    <3>2. m \notin consumed \cup unheard /\ \A s \in Readers : reader[s].no # m
      BY <1>3, <3>1 DEF NumbersApart
    <3> QED
      BY <1>2, <1>8, <3>1, <3>2
  <2>3. ASSUME NEW s \in Readers, reader'[s].at # "idle" PROVE reader'[s].no \notin consumed' \cup unheard'
    <3>1. CASE reader'[s] = reader[s]
      <4>1. reader[s].no \notin consumed \cup unheard
        BY <1>3, <2>3, <3>1 DEF NumbersApart
      <4> QED
        BY <1>2, <1>7, <1>8, <3>1, <4>1
    <3>2. CASE s = r /\ reader'[r].no = n /\ unheard' = unheard
      BY <1>2, <1>7, <3>2
    <3> QED
      BY <1>8, <3>1, <3>2
  <2> QED
    BY <2>1, <2>2, <2>3 DEF NumbersApart
<1>11. CarriedTyped'
  BY <1>2, <1>3, <1>9 DEF CarriedTyped
<1>12. \A s \in Readers : reader'[s] = reader[s] \/ (reader[s].at # "jobs" /\ reader'[s].at # "jobs")
  BY <1>1, <1>8
<1>13. failures' = 0 => failures = 0 /\ unheard' = unheard
  BY <1>3, <1>8, FailuresCount
<1>14. \A m \in Numbers : MayTell(m, "sms")' <=> MayTell(m, "sms")
  BY <1>2 DEF MayTell
<1>15. unheard \subseteq unheard'
  BY <1>8
<1> QED
  BY <1>2, <1>10, <1>11, <1>12, <1>13, <1>14, <1>15, UntoldStep

\* A reader that reads and records an event keeps it.
LEMMA RecordCarried ==
    ASSUME Consistent, Carried, NEW r \in Readers, ReadCase(r) \/ WriteCase(r)
    PROVE  Carried'
<1>1. /\ UNCHANGED <<events, queue, users, messages, known, combiner, sender, told, lost, unheard, consumed>>
      /\ Works \/ Fails
  BY DEF ReadCase, WriteCase, redis, history
<1>2. /\ reader \in [Readers -> ReaderType] /\ failures \in 0..MaxFailures /\ CarriedTyped /\ NumbersApart
      /\ reader[r].at \in {"case", "write"} /\ reader[r] \in ReaderType /\ reader[r].no \in Numbers
  <2>1. reader[r].at \in {"case", "write"}
    BY DEF ReadCase, WriteCase
  <2> QED
    BY <2>1 DEF Consistent, ReadersTyped, Carried
<1>3. /\ \A s \in Readers \ {r} : reader'[s] = reader[s]
      /\ reader'[r].no = reader[r].no /\ reader'[r].at \in {"write", "action"}
  <2>1. CASE ReadCase(r)
    <3>1. PICK c : reader' = [reader EXCEPT ![r].at = "write", ![r].found = c] \/ reader' = [reader EXCEPT ![r].at = "write"]
      BY <2>1 DEF ReadCase
    <3>2. ASSUME NEW x, reader' = [reader EXCEPT ![r] = x], x.at = "write", x.no = reader[r].no
          PROVE  reader'[r].no = reader[r].no /\ reader'[r].at = "write" /\ \A s \in Readers \ {r} : reader'[s] = reader[s]
      BY <1>2, <3>2
    <3>3. /\ [reader[r] EXCEPT !.at = "write"].at = "write" /\ [reader[r] EXCEPT !.at = "write"].no = reader[r].no
          /\ [reader[r] EXCEPT !.at = "write", !.found = c].at = "write"
          /\ [reader[r] EXCEPT !.at = "write", !.found = c].no = reader[r].no
      BY <1>2 DEF ReaderType
    <3>4. \/ reader' = [reader EXCEPT ![r] = [reader[r] EXCEPT !.at = "write", !.found = c]]
          \/ reader' = [reader EXCEPT ![r] = [reader[r] EXCEPT !.at = "write"]]
      BY <1>2, <3>1 DEF ReaderType
    <3> QED
      BY <3>2, <3>3, <3>4
  <2>2. CASE WriteCase(r)
    <3>1. reader' = [reader EXCEPT ![r].at = "action"]
      BY <2>2 DEF WriteCase
    <3>2. [reader[r] EXCEPT !.at = "action"].at = "action" /\ [reader[r] EXCEPT !.at = "action"].no = reader[r].no
      BY <1>2 DEF ReaderType
    <3> QED
      BY <1>2, <3>1, <3>2
  <2> QED
    BY <2>1, <2>2
<1>4. rows' \subseteq rows \cup {reader[r].no}
  BY DEF ReadCase, WriteCase, mysql
<1>5. Numbers' = Numbers /\ \A n \in Numbers : MayTell(n, "sms")' <=> MayTell(n, "sms")
  BY <1>1 DEF Numbers, MayTell, Event
<1>6. CarriedTyped'
  BY <1>1, <1>2, <1>4, <1>5 DEF CarriedTyped
<1>7. NumbersApart'
  <2>1. \A s \in Readers : reader'[s].no = reader[s].no /\ (reader'[s].at = "idle" <=> reader[s].at = "idle")
    BY <1>2, <1>3
  <2> QED
    BY <1>1, <1>2, <1>5, <2>1 DEF NumbersApart
<1>8. failures' = 0 => failures = 0
  BY <1>1, <1>2, FailuresCount
<1> QED
  BY <1>1, <1>2, <1>3, <1>5, <1>6, <1>7, <1>8, UntoldStep

\* The readers have different events.
LEMMA ReadersApart ==
    ASSUME Consistent
    PROVE  \A r, s \in Readers : reader[r].at # "idle" /\ reader[s].at # "idle" /\ r # s => reader[r].no # reader[s].no
<1> SUFFICES ASSUME NEW r \in Readers, NEW s \in Readers, reader[r].at # "idle", reader[s].at # "idle", reader[r].no = reader[s].no
             PROVE  r = s
  OBVIOUS
<1>1. reader[r].no \in Numbers /\ Event(reader[r].no).prio \in Queues(r) /\ Event(reader[s].no).prio \in Queues(s)
  BY DEF Consistent, ReadersTyped
<1>2. Event(reader[r].no).prio \in Prios
  BY <1>1, EventIs DEF Consistent, ReadersTyped
<1> QED
  BY <1>1, <1>2, QueuesApart

\* What the first of a reader's jobs tells.
ToldBy(r) == {i \in Item : /\ Tells(reader[r].jobs[1]) /\ i.no = reader[r].no
                           /\ i.kind = reader[r].jobs[1].kind /\ i.part = reader[r].jobs[1].part}

\* A reader goes on to its next job, or is done.
LEMMA GoOn ==
    ASSUME Consistent, Carried, NEW r \in Readers, reader[r].at = "jobs", NEW to \in {{}, Users},
           Go(r, to, Tail(reader[r].jobs)), UNCHANGED <<events, queue, unheard>>
    PROVE  /\ ReadersReady' /\ NumbersApart' /\ Numbers' = Numbers
           /\ consumed' \cup Telling' = consumed \cup Telling
           /\ Pending' = Pending \ ToldBy(r) /\ ToldBy(r) \subseteq Pending
           /\ \A s \in Readers \ {r} : reader'[s] = reader[s]
           /\ reader'[r].at = "jobs" => reader'[r].to = to /\ reader'[r].jobs = Tail(reader[r].jobs)
<1>1. PICK n, q : n = reader[r].no /\ q = reader[r].jobs
  OBVIOUS
<1>2. /\ reader \in [Readers -> ReaderType] /\ reader[r] \in ReaderType /\ q # << >> /\ JobsSound(q)
      /\ NumbersApart /\ ReadersReady /\ n \in Numbers /\ n \in Nat
  BY <1>1 DEF Consistent, ReadersTyped, Carried, ReadersReady, Numbers
<1>3. /\ JobsSound(Tail(q)) /\ q[1] \in JobType /\ Tail(q) \in Seq(JobType)
      /\ Tells(q[1]) => <<q[1].kind, q[1].part>> \in Pairs(q) /\ Pairs(Tail(q)) = Pairs(q) \ {<<q[1].kind, q[1].part>>}
      /\ ~Tells(q[1]) => Pairs(Tail(q)) = Pairs(q)
  <2>1. /\ JobsSound(Tail(q)) /\ q[1] \in JobType
        /\ Tells(q[1]) => <<q[1].kind, q[1].part>> \in Pairs(q) /\ Pairs(Tail(q)) = Pairs(q) \ {<<q[1].kind, q[1].part>>}
        /\ ~Tells(q[1]) => Pairs(Tail(q)) = Pairs(q)
    BY <1>2, JobsRest
  <2> QED
    BY <2>1 DEF JobsSound
<1>4. PICK t : t = Tail(q)
  OBVIOUS
<1>5. /\ \A s \in Readers \ {r} : reader'[s] = reader[s]
      /\ t = << >> => reader'[r] = Free /\ consumed' = consumed \cup {n}
      /\ t # << >> => /\ reader'[r].at = "jobs" /\ reader'[r].no = n /\ reader'[r].to = to
                      /\ reader'[r].jobs = t /\ consumed' = consumed
  <2>1. Go(r, to, t) /\ t \in Seq(JobType) /\ to \in SUBSET Users
    BY <1>1, <1>3, <1>4
  <2>2. /\ \A s \in Readers \ {r} : reader'[s] = reader[s]
        /\ t = << >> => reader'[r] = Free /\ consumed' = consumed \cup {reader[r].no}
        /\ t # << >> => /\ reader'[r].at = "jobs" /\ reader'[r].no = reader[r].no /\ reader'[r].to = to
                        /\ reader'[r].jobs = t /\ consumed' = consumed
    BY ONLY <1>2, <2>1, r \in Readers, GoMoves
  <2> QED
    BY <1>1, <2>2
<1>6. Free.at = "idle" /\ Free.no = 0 /\ 0 # n
  BY <1>2, FreeIs DEF Numbers
<1>7. \A s \in Readers \ {r} : reader[s].no # n
  <2>1. \A s \in Readers : reader[s].at = "idle" => reader[s].no = 0
    BY DEF Consistent, ReadersTyped
  <2> QED
    BY <1>1, <1>6, <2>1, ReadersApart
<1>8. ReadersReady'
  BY <1>2, <1>3, <1>4, <1>5, <1>6 DEF ReadersReady
<1>9. Numbers' = Numbers
  BY DEF Numbers
<1>10. NumbersApart'
  <2>1. consumed' \cup unheard' \subseteq Numbers' /\ consumed' \cup unheard' \subseteq consumed \cup unheard \cup {n}
    BY <1>2, <1>5, <1>9 DEF NumbersApart
  <2>2. ASSUME NEW p \in Prios, NEW m \in Range(queue'[p]) PROVE m \notin consumed' \cup unheard' /\ \A s \in Readers : reader'[s].no # m
    <3>1. m \notin consumed \cup unheard /\ \A s \in Readers : reader[s].no # m
      BY <1>2, <2>2 DEF NumbersApart
    <3>2. m # 0
      <4>1. queue[p] \in Seq(Numbers)
        BY DEF Consistent, ReadersTyped
      <4>2. m \in Numbers
        BY <2>2, <4>1 DEF Range
      <4> QED
        BY <4>2 DEF Numbers
    <3> QED
      BY <1>1, <1>5, <1>6, <2>1, <3>1, <3>2
  <2>3. ASSUME NEW s \in Readers, reader'[s].at # "idle" PROVE reader'[s].no \notin consumed' \cup unheard'
    <3>1. CASE s = r
      BY <1>1, <1>2, <1>5, <1>6, <2>3, <3>1 DEF NumbersApart
    <3>2. CASE s # r
      BY <1>2, <1>5, <1>7, <2>1, <2>3, <3>2 DEF NumbersApart
    <3> QED
      BY <3>1, <3>2
  <2> QED
    BY <2>1, <2>2, <2>3 DEF NumbersApart
<1>11. consumed' \cup Telling' = consumed \cup Telling
  <2>1. n \in Telling /\ \A m : m \in Telling => m = n \/ m \in Telling'
    BY <1>1, <1>2, <1>5 DEF Telling
  <2>2. \A m : m \in Telling' => m \in Telling
    BY <1>1, <1>2, <1>5, <1>6 DEF Telling
  <2>3. n \in consumed' \/ n \in Telling'
    BY <1>2, <1>5 DEF Telling
  <2> QED
    BY <1>5, <2>1, <2>2, <2>3
<1>12. ASSUME NEW i \in Item
       PROVE  /\ i \in PendingOf(r)' <=> i \in PendingOf(r) /\ i \notin ToldBy(r)
              /\ i \in ToldBy(r) => i \in PendingOf(r)
              /\ \A s \in Readers \ {r} : (i \in PendingOf(s)' <=> i \in PendingOf(s)) /\ (i \in PendingOf(s) => i \notin ToldBy(r))
  <2>1. i \in PendingOf(r) <=> i.no = n /\ <<i.kind, i.part>> \in Pairs(q)
    BY <1>1 DEF PendingOf
  <2>2. i \in ToldBy(r) <=> Tells(q[1]) /\ i.no = n /\ i.kind = q[1].kind /\ i.part = q[1].part
    BY <1>1 DEF ToldBy
  <2>3. i \in PendingOf(r)' <=> i.no = n /\ <<i.kind, i.part>> \in Pairs(t)
    <3>1. t = << >> => Pairs(t) = {}
      BY DEF Pairs
    <3> QED
      BY <1>5, <1>6, <3>1 DEF PendingOf
  <2>4. ASSUME NEW s \in Readers, s # r PROVE (i \in PendingOf(s)' <=> i \in PendingOf(s)) /\ (i \in PendingOf(s) => i \notin ToldBy(r))
    BY <1>5, <1>7, <2>2, <2>4 DEF PendingOf
  <2> QED
    BY <1>3, <1>4, <2>1, <2>2, <2>3, <2>4
<1>13. Pending' = Pending \ ToldBy(r) /\ ToldBy(r) \subseteq Pending
  <2>1. ToldBy(r) \subseteq Item
    BY DEF ToldBy
  <2> QED
    BY <1>12, <2>1 DEF Pending
<1> QED
  BY <1>1, <1>4, <1>5, <1>6, <1>8, <1>9, <1>10, <1>11, <1>13

\* Once the users are known, or if there is nothing to write, it stays so.
LEMMA LedRest ==
    ASSUME NEW q, JobsSound(q), q # << >>, Led(q), q[1].do # "team"
    PROVE  q[1].do # "write" /\ Led(Tail(q))
<1>1. Len(q) \in Nat /\ Len(q) # 0
  <2>1. q \in Seq(JobType)
    BY DEF JobsSound
  <2> QED
    BY <2>1
<1>2. \A n \in 1..Len(q) : q[n].do # "write"
  BY DEF Led
<1>3. \A n \in 1..Len(Tail(q)) : n + 1 \in 1..Len(q) /\ Tail(q)[n] = q[n + 1]
  BY JobsRest
<1> QED
  BY <1>1, <1>2, <1>3 DEF Led

\* A reader goes on, and what it told is somewhere else.
LEMMA GoingStep ==
    ASSUME Consistent, Carried, NEW r \in Readers, reader[r].at = "jobs", NEW to \in {{}, Users},
           Go(r, to, Tail(reader[r].jobs)), UNCHANGED <<events, queue, unheard>>,
           CarriedTyped', Apart', Unique', Somewhere' = Somewhere,
           failures' = 0 => /\ failures = 0 /\ lost' = lost
                            /\ to = Users \/ (to = reader[r].to /\ reader[r].jobs[1].do # "team")
    PROVE  Carried'
<1>1. /\ ReadersReady' /\ NumbersApart' /\ Numbers' = Numbers
      /\ consumed' \cup Telling' = consumed \cup Telling
      /\ \A s \in Readers \ {r} : reader'[s] = reader[s]
      /\ reader'[r].at = "jobs" => reader'[r].to = to /\ reader'[r].jobs = Tail(reader[r].jobs)
  BY GoOn
<1>2. \A n \in Numbers : MayTell(n, "sms")' <=> MayTell(n, "sms")
  BY DEF MayTell, Event
<1>3. Known' /\ Served'
  <2>1. Known /\ Served /\ consumed \cup Telling \subseteq Numbers
    BY TellsSent DEF Carried
  <2> QED
    BY <1>1, <1>2, <2>1, Carry
<1>4. Unharmed'
  <2> SUFFICES ASSUME failures' = 0
               PROVE  lost' = {} /\ unheard' = {}
                      /\ \A s \in Readers : reader'[s].at = "jobs" => reader'[s].to = Users \/ Led(reader'[s].jobs)
    BY DEF Unharmed
  <2>1. lost = {} /\ unheard = {} /\ \A s \in Readers : reader[s].at = "jobs" => reader[s].to = Users \/ Led(reader[s].jobs)
    BY DEF Carried, Unharmed
  <2>2. CASE to = Users
    BY <1>1, <2>1, <2>2
  <2>3. CASE to = reader[r].to /\ to # Users /\ reader[r].jobs[1].do # "team"
    <3>1. JobsSound(reader[r].jobs) /\ reader[r].jobs # << >>
      BY DEF Carried, ReadersReady, Consistent, ReadersTyped
    <3>2. Led(Tail(reader[r].jobs))
      BY <2>1, <2>3, <3>1, LedRest
    <3> QED
      BY <1>1, <2>1, <3>2
  <2> QED
    BY <2>1, <2>2, <2>3
<1> QED
  BY <1>1, <1>3, <1>4 DEF Carried

\* To look up the users of the teams, or to wait for a callback, tells nothing.
LEMMA LookCarried ==
    ASSUME Consistent, Carried, NEW r \in Readers, ParseTeams(r) \/ Call(r)
    PROVE  Carried'
<1>1. /\ UNCHANGED <<events, queue, users, messages, rows, combiner, sender, told, lost, unheard>>
      /\ reader[r].at = "jobs" /\ reader[r].jobs[1].do \in {"team", "call"}
      /\ known' \subseteq known \cup {"users"} \/ known' = known
  BY DEF ParseTeams, Call, Doing, Lookup, NoAnswer, redis, mysql
<1>2. reader[r].to \in {{}, Users} /\ CarriedTyped /\ Apart /\ Unique /\ failures \in 0..MaxFailures
  BY <1>1 DEF Carried, ReadersReady, Consistent, ReadersTyped
<1>3. PICK to \in {{}, Users} :
        /\ Go(r, to, Tail(reader[r].jobs))
        /\ failures' = 0 => failures = 0 /\ (to = Users \/ (to = reader[r].to /\ reader[r].jobs[1].do # "team"))
  <2>1. CASE ParseTeams(r)
    <3>1. CASE Lookup("users") /\ Go(r, Users, Tail(reader[r].jobs))
      <4>1. failures' = 0 => failures = 0
        BY <1>2, <3>1, FailuresCount DEF Lookup
      <4> QED
        BY <3>1, <4>1
    <3>2. CASE NoAnswer("users") /\ Go(r, {}, Tail(reader[r].jobs))
      <4>1. failures' # 0
        BY <1>2, <3>2, FailuresCount DEF NoAnswer
      <4> QED
        BY <3>2, <4>1
    <3> QED
      BY <2>1, <3>1, <3>2 DEF ParseTeams
  <2>2. CASE Call(r)
    <3>1. Go(r, reader[r].to, Tail(reader[r].jobs)) /\ failures' = failures /\ reader[r].jobs[1].do = "call"
      BY <2>2 DEF Call, Rest, Doing
    <3> QED
      BY <1>2, <3>1
  <2> QED
    BY <2>1, <2>2
<1>4. ToldBy(r) = {}
  BY <1>1 DEF ToldBy, Tells
<1>5. Pending' = Pending /\ Numbers' = Numbers
  BY <1>1, <1>3, <1>4, GoOn
<1>6. /\ Alone(users)' = Alone(users) /\ Alone(combiner)' = Alone(combiner) /\ Held(messages)' = Held(messages)
      /\ Held(Lists)' = Held(Lists) /\ Held(Sendings)' = Held(Sendings)
  BY <1>1 DEF Alone, Held, Lists, Sendings
<1>7. Apart' /\ Somewhere' = Somewhere
  BY <1>1, <1>2, <1>5, <1>6 DEF Apart, Split8, Somewhere
<1>8. Unique'
  BY <1>1, <1>2 DEF Unique, Messages
<1>9. CarriedTyped'
  BY <1>1, <1>2, <1>5 DEF CarriedTyped
<1> QED
  BY <1>1, <1>3, <1>7, <1>8, <1>9, GoingStep

\* A reader that tells: its job, and the items of it.
LEMMA TellingJob ==
    ASSUME Consistent, Carried, NEW r \in Readers, reader[r].at = "jobs", Tells(reader[r].jobs[1])
    PROVE  /\ reader[r].no \in Numbers /\ reader[r].no \in Nat /\ reader[r].to \in {{}, Users}
           /\ reader[r].jobs[1].kind \in Channels /\ reader[r].jobs[1].part \in {"event", "before", "after"}
           /\ reader[r].jobs[1].do = "split" => reader[r].jobs[1].part = "event"
           /\ failures = 0 /\ reader[r].jobs[1].do = "write" => reader[r].to = Users
           /\ \A to \in SUBSET Users :
                LET m == Message({reader[r].no}, to, reader[r].jobs[1].part) IN
                m \in MessageType /\ Items(reader[r].jobs[1].kind, m) = {i \in ToldBy(r) : i.user \in to}
<1>1. JobsSound(reader[r].jobs) /\ reader[r].jobs # << >> /\ reader[r].no \in Numbers /\ reader[r].to \in {{}, Users}
  BY DEF Consistent, ReadersTyped, Carried, ReadersReady
<1>2. reader[r].no \in Nat
  BY <1>1 DEF Numbers
<1>3. /\ reader[r].jobs[1].kind \in Channels /\ reader[r].jobs[1].part \in {"event", "before", "after"}
      /\ reader[r].jobs[1].do = "split" => reader[r].jobs[1].part = "event"
  BY <1>1, JobsRest
<1>4. failures = 0 /\ reader[r].jobs[1].do = "write" => reader[r].to = Users
  <2> SUFFICES ASSUME failures = 0, reader[r].jobs[1].do = "write", Led(reader[r].jobs) PROVE FALSE
    BY DEF Carried, Unharmed
  <2>1. reader[r].jobs[1].do # "team"
    OBVIOUS
  <2> QED
    BY <1>1, <2>1, LedRest
<1>5. ASSUME NEW to \in SUBSET Users
      PROVE  LET m == Message({reader[r].no}, to, reader[r].jobs[1].part) IN
             m \in MessageType /\ Items(reader[r].jobs[1].kind, m) = {i \in ToldBy(r) : i.user \in to}
  <2>1. PICK k, n, p : k = reader[r].jobs[1].kind /\ n = reader[r].no /\ p = reader[r].jobs[1].part
    OBVIOUS
  <2>2. PICK m : m = [nos |-> {n}, to |-> to, part |-> p]
    OBVIOUS
  <2>3. m \in MessageType /\ m.nos = {n} /\ m.to = to /\ m.part = p
    BY <1>2, <1>3, <2>1, <2>2 DEF MessageType
  <2>4. Items(k, m) = HeldOf(k, {m})
    BY <1>3, <2>1, <2>3, ItemsAre
  <2>5. ASSUME NEW i \in Item PROVE i \in HeldOf(k, {m}) <=> i \in ToldBy(r) /\ i.user \in to
    BY <2>1, <2>3 DEF HeldOf, Holds, ToldBy
  <2>6. HeldOf(k, {m}) \subseteq Item /\ ToldBy(r) \subseteq Item
    BY DEF HeldOf, ToldBy
  <2>7. Message({n}, to, p) = m
    BY <2>2 DEF Message
  <2> QED
    BY <2>1, <2>3, <2>4, <2>5, <2>6, <2>7
<1> QED
  BY <1>1, <1>2, <1>3, <1>4, <1>5

\* A reader writes a message for all users, or loses it.
LEMMA WriteCarried ==
    ASSUME Consistent, Carried, NEW r \in Readers, Write(r)
    PROVE  Carried'
<1>1. PICK k, n, p, to : k = reader[r].jobs[1].kind /\ n = reader[r].no /\ p = reader[r].jobs[1].part /\ to = reader[r].to
  OBVIOUS
<1>2. PICK m, missed : m = Message({n}, to, p) /\ missed = Message({n}, Users \ to, p)
  OBVIOUS
<1>3. /\ reader[r].at = "jobs" /\ reader[r].jobs[1].do = "write" /\ m.to = to
      /\ \/ /\ Works /\ messages' = [messages EXCEPT ![k] = IF to = {} THEN messages[k] ELSE messages[k] \cup {m}]
            /\ lost' = lost \cup Items(k, missed)
         \/ Fails /\ to # {} /\ lost' = lost \cup Items(k, m) /\ UNCHANGED messages
      /\ Go(r, to, Tail(reader[r].jobs))
      /\ UNCHANGED <<events, queue, users, rows, known, combiner, sender, told, unheard>>
  <2>1. m.to = to
    BY <1>2 DEF Message
  <2> QED
    BY <1>1, <1>2, <2>1 DEF Write, Rest, Doing, mysql
<1>4. /\ n \in Numbers /\ k \in Channels /\ to \in {{}, Users} /\ (failures = 0 => to = Users)
      /\ m \in MessageType /\ Items(k, m) = {i \in ToldBy(r) : i.user \in to}
      /\ Items(k, missed) = {i \in ToldBy(r) : i.user \in Users \ to}
  <2>1. Tells(reader[r].jobs[1])
    BY <1>3 DEF Tells
  <2>2. /\ n \in Numbers /\ k \in Channels /\ to \in {{}, Users} /\ (failures = 0 => to = Users)
    BY <1>1, <1>3, <2>1, TellingJob
  <2>3. \A x \in SUBSET Users : Message({n}, x, p) \in MessageType /\ Items(k, Message({n}, x, p)) = {i \in ToldBy(r) : i.user \in x}
    BY <1>1, <1>3, <2>1, TellingJob
  <2>4. to \in SUBSET Users /\ Users \ to \in SUBSET Users
    BY <2>2
  <2> QED
    BY <1>2, <2>2, <2>3, <2>4
<1>5. CarriedTyped /\ Apart /\ Unique /\ failures \in 0..MaxFailures /\ messages \in [Channels -> SUBSET MessageType]
  BY DEF Carried, CarriedTyped, Consistent, ReadersTyped
<1>6. Pending' = Pending \ ToldBy(r) /\ ToldBy(r) \subseteq Pending /\ Numbers' = Numbers
  BY <1>3, <1>4, GoOn
<1>7. \A i \in ToldBy(r) : i \in Item /\ i.user \in Users
  BY DEF ToldBy, Item
<1>8. HeldOf(k, {m}) = Items(k, m)
  BY <1>4, ItemsAre
<1>9. /\ Alone(users)' = Alone(users) /\ Alone(combiner)' = Alone(combiner)
      /\ Held(Lists)' = Held(Lists) /\ Held(Sendings)' = Held(Sendings)
  BY <1>3 DEF Alone, Held, Lists, Sendings
<1>10. CASE to = Users /\ to # {} /\ messages' = [messages EXCEPT ![k] = messages[k] \cup {m}] /\ lost' = lost \cup Items(k, missed) /\ Works
  <2>1. Items(k, missed) = {} /\ Items(k, m) = ToldBy(r)
    BY <1>4, <1>7, <1>10
  <2>2. PICK f, P : f = messages' /\ P = {m}
    OBVIOUS
  <2>3. Puts(messages, f, k, P) /\ f \in [Channels -> SUBSET MessageType]
    BY <1>4, <1>5, <1>10, <2>2 DEF Puts
  <2>4. Held(messages') = Held(messages) \cup ToldBy(r)
    BY <1>4, <1>8, <2>1, <2>2, <2>3, HeldPut
  <2>5. Apart' /\ Somewhere' = Somewhere
    BY <1>3, <1>5, <1>6, <1>9, <1>10, <2>1, <2>4, ZenonT(40) DEF Apart, Split8, Somewhere
  <2>6. Unique'
    <3>1. \A j \in Channels : Messages(j)' \subseteq IF j = k THEN Messages(k) \cup {m} ELSE Messages(j)
      BY <1>3, <1>5, <1>10 DEF Messages
    <3>2. HeldOf(k, {m}) \cap (Held(messages) \cup Held(Lists) \cup Held(Sendings)) = {}
      BY <1>5, <1>6, <1>8, <2>1 DEF Apart, Split8
    <3> QED
      BY <1>4, <1>5, <3>1, <3>2, UniquePut
  <2>7. CarriedTyped'
    BY <1>3, <1>5, <1>6, <1>10, <2>1, <2>2, <2>3 DEF CarriedTyped
  <2>8. failures' = 0 => failures = 0
    BY <1>5, <1>10, FailuresCount
  <2> QED
    BY <1>1, <1>3, <1>4, <1>10, <2>1, <2>5, <2>6, <2>7, <2>8, GoingStep
<1>11. CASE messages' = messages /\ lost' = lost \cup ToldBy(r)
            /\ (failures' = 0 => failures = 0 /\ to = Users /\ ToldBy(r) = {})
  <2>1. Held(messages)' = Held(messages)
    BY <1>11
  <2>2. Apart' /\ Somewhere' = Somewhere
    BY <1>3, <1>5, <1>6, <1>9, <1>11, <2>1 DEF Apart, Split8, Somewhere
  <2>3. Unique'
    BY <1>3, <1>5, <1>11 DEF Unique, Messages
  <2>4. CarriedTyped'
    BY <1>3, <1>5, <1>6, <1>7, <1>11 DEF CarriedTyped
  <2>5. failures' = 0 => failures = 0 /\ lost' = lost /\ to = Users
    BY <1>11
  <2> QED
    BY <1>1, <1>3, <1>4, <2>2, <2>3, <2>4, <2>5, GoingStep
<1>12. CASE Works /\ to = {} /\ messages' = [messages EXCEPT ![k] = messages[k]] /\ lost' = lost \cup Items(k, missed)
  <2>1. messages' = messages
    BY <1>5, <1>12
  <2>2. Items(k, missed) = ToldBy(r)
    BY <1>4, <1>7, <1>12
  <2>3. failures' = 0 => failures = 0 /\ to = Users /\ ToldBy(r) = {}
    BY <1>4, <1>5, <1>7, <1>12, FailuresCount
  <2> QED
    BY <1>11, <1>12, <2>1, <2>2, <2>3
<1>13. CASE Fails /\ to # {} /\ lost' = lost \cup Items(k, m) /\ UNCHANGED messages
  <2>1. Items(k, m) = ToldBy(r)
    BY <1>4, <1>7, <1>13
  <2>2. failures' # 0
    BY <1>5, <1>13, FailuresCount
  <2> QED
    BY <1>11, <1>13, <2>1, <2>2
<1> QED
  BY <1>3, <1>4, <1>10, <1>12, <1>13

\* A reader makes an entry for each user, or loses that.
LEMMA SplitCarried ==
    ASSUME Consistent, Carried, NEW r \in Readers, Split(r)
    PROVE  Carried'
<1>1. PICK k, n : k = reader[r].jobs[1].kind /\ n = reader[r].no
  OBVIOUS
<1>2. PICK to \in SUBSET Users :
        /\ users' = [users EXCEPT ![k] = users[k] \cup {[no |-> reader[r].no, user |-> u] : u \in to}]
        /\ lost' = lost \cup Items(k, Message({n}, Users \ to, "event"))
        /\ (Works /\ to = Users) \/ Fails
        /\ known' \subseteq known \cup {"users"}
  <2>1. Users \in SUBSET Users /\ {} \in SUBSET Users
    OBVIOUS
  <2>2. \E to \in SUBSET Users :
          /\ users' = [users EXCEPT ![reader[r].jobs[1].kind] =
                         users[reader[r].jobs[1].kind] \cup {[no |-> reader[r].no, user |-> u] : u \in to}]
          /\ lost' = lost \cup Items(reader[r].jobs[1].kind, Message({reader[r].no}, Users \ to, "event"))
          /\ \/ Lookup("users") /\ to = Users
             \/ NoAnswer("users")
             \/ Fails /\ known' = known \cup {"users"}
    BY <2>1 DEF Split
  <2> QED
    BY <1>1, <2>2 DEF Lookup, NoAnswer
<1>3. /\ reader[r].at = "jobs" /\ reader[r].jobs[1].do = "split"
      /\ Go(r, reader[r].to, Tail(reader[r].jobs))
      /\ UNCHANGED <<events, queue, messages, rows, combiner, sender, told, unheard>>
  BY DEF Split, Rest, Doing, mysql
<1>4. Tells(reader[r].jobs[1])
  BY <1>3 DEF Tells
<1>5. /\ n \in Numbers /\ n \in Nat /\ k \in Channels /\ reader[r].to \in {{}, Users} /\ reader[r].jobs[1].part = "event"
      /\ Items(k, Message({n}, Users \ to, "event")) = {i \in ToldBy(r) : i.user \in Users \ to}
  <2>1. /\ n \in Numbers /\ n \in Nat /\ k \in Channels /\ reader[r].to \in {{}, Users} /\ reader[r].jobs[1].part = "event"
    BY <1>1, <1>3, <1>4, TellingJob
  <2>2. \A x \in SUBSET Users : Items(k, Message({n}, x, reader[r].jobs[1].part)) = {i \in ToldBy(r) : i.user \in x}
    BY <1>1, <1>3, <1>4, TellingJob
  <2>3. Users \ to \in SUBSET Users
    OBVIOUS
  <2> QED
    BY <2>1, <2>2, <2>3
<1>6. CarriedTyped /\ Apart /\ Unique /\ failures \in 0..MaxFailures /\ users \in [Channels -> SUBSET Single]
  BY DEF Carried, CarriedTyped, Consistent, ReadersTyped
<1>7. PICK E : E = {[no |-> reader[r].no, user |-> u] : u \in to}
  OBVIOUS
<1>8. \A e \in E : e \in Single /\ e.no = n /\ e.user \in to
  <2> SUFFICES ASSUME NEW e \in E PROVE e \in Single /\ e.no = n /\ e.user \in to
    OBVIOUS
  <2>1. PICK u \in to : e = [no |-> n, user |-> u]
    BY <1>1, <1>7
  <2> QED
    BY <1>5, <2>1 DEF Single
<1>9. \A u \in to : \E e \in E : e.no = n /\ e.user = u
  <2> SUFFICES ASSUME NEW u \in to PROVE \E e \in E : e.no = n /\ e.user = u
    OBVIOUS
  <2>1. PICK e : e = [no |-> n, user |-> u]
    OBVIOUS
  <2>2. e \in E
    BY <1>1, <1>7, <2>1
  <2> QED
    BY <2>1, <2>2
<1>10. AloneOf(k, E) = {i \in ToldBy(r) : i.user \in to}
  <2>1. ASSUME NEW i \in Item PROVE i \in AloneOf(k, E) <=> i \in ToldBy(r) /\ i.user \in to
    BY <1>1, <1>4, <1>5, <1>8, <1>9 DEF AloneOf, AloneIs, ToldBy
  <2>2. AloneOf(k, E) \subseteq Item /\ ToldBy(r) \subseteq Item
    BY DEF AloneOf, ToldBy
  <2> QED
    BY <2>1, <2>2
<1>11. Puts(users, users', k, E) /\ users' \in [Channels -> SUBSET Single]
  <2>1. users' = [users EXCEPT ![k] = users[k] \cup E]
    BY <1>2, <1>7
  <2> QED
    BY <1>5, <1>6, <1>8, <2>1 DEF Puts
<1>12. Alone(users') = Alone(users) \cup {i \in ToldBy(r) : i.user \in to}
  <2>1. PICK f, g : f = users /\ g = users'
    OBVIOUS
  <2>2. Alone(g) = Alone(f) \cup AloneOf(k, E)
    <3>1. Puts(f, g, k, E) /\ k \in Channels
      BY <1>5, <1>11, <2>1
    <3> QED
      BY ONLY <3>1, AlonePut
  <2> QED
    BY <1>10, <2>1, <2>2
<1>13. Pending' = Pending \ ToldBy(r) /\ ToldBy(r) \subseteq Pending /\ Numbers' = Numbers
  BY <1>3, <1>5, GoOn
<1>14. \A i \in ToldBy(r) : i \in Item /\ i.user \in Users
  BY DEF ToldBy, Item
<1>15. /\ Alone(combiner)' = Alone(combiner) /\ Held(messages)' = Held(messages)
       /\ Held(Lists)' = Held(Lists) /\ Held(Sendings)' = Held(Sendings)
  BY <1>3 DEF Alone, Held, Lists, Sendings
<1>16. lost' = lost \cup {i \in ToldBy(r) : i.user \notin to}
  BY <1>2, <1>5, <1>14
<1>17. Apart' /\ Somewhere' = Somewhere
  <2>1. PICK A, B : A = {i \in ToldBy(r) : i.user \in to} /\ B = {i \in ToldBy(r) : i.user \notin to}
    OBVIOUS
  <2>2. ToldBy(r) = A \cup B /\ A \cap B = {}
    BY <2>1
  <2>3. Alone(users') = Alone(users) \cup A /\ lost' = lost \cup B /\ Pending' = Pending \ (A \cup B) /\ A \cup B \subseteq Pending
    BY <1>12, <1>13, <1>16, <2>1, <2>2
  <2>4. told' = told
    BY <1>3
  <2> QED
    BY <1>6, <1>15, <2>2, <2>3, <2>4 DEF Apart, Split8, Somewhere
<1>18. Unique'
  BY <1>3, <1>6 DEF Unique, Messages
<1>19. CarriedTyped'
  BY <1>2, <1>3, <1>6, <1>11, <1>13, <1>14, <1>16 DEF CarriedTyped
<1>20. failures' = 0 => failures = 0 /\ lost' = lost
  <2>1. CASE Works /\ to = Users
    <3>1. lost' = lost
      BY <1>14, <1>16, <2>1
    <3> QED
      BY <1>6, <2>1, <3>1, FailuresCount
  <2>2. CASE Fails
    BY <1>6, <2>2, FailuresCount
  <2> QED
    BY <1>2, <2>1, <2>2
<1> QED
  BY <1>3, <1>5, <1>17, <1>18, <1>19, <1>20, GoingStep

\* A reader that has the action is to tell each user by each kind; without one the
\* event is given up.
LEMMA ActionCarried ==
    ASSUME Consistent, Carried, NEW r \in Readers, GetAction(r)
    PROVE  Carried'
<1>1. PICK n, q : n = reader[r].no /\ q = Consume(r, reader[r].no)
  OBVIOUS
<1>2. /\ reader[r].at = "action"
      /\ \/ Lookup("action") /\ Go(r, {}, q) /\ UNCHANGED unheard
         \/ /\ NoAnswer("action") /\ reader' = [reader EXCEPT ![r] = Free]
            /\ unheard' = unheard \cup {n} /\ UNCHANGED consumed
      /\ UNCHANGED <<events, queue, users, messages, rows, combiner, sender, told, lost>>
  BY <1>1 DEF GetAction, redis, mysql
<1>3. /\ reader \in [Readers -> ReaderType] /\ failures \in 0..MaxFailures /\ n \in Numbers /\ n \in Nat /\ n # 0
      /\ CarriedTyped /\ Apart /\ Unique /\ NumbersApart /\ ReadersReady /\ Known /\ Served /\ Unharmed
  BY <1>1, <1>2 DEF Consistent, ReadersTyped, Carried, Numbers
<1>4. JobsSound(q) /\ q \in Seq(JobType) /\ Led(q) /\ \A k \in Channels : MayTell(n, k) => <<k, "event">> \in Pairs(q)
  <2>1. JobsSound(q) /\ Led(q) /\ \A k \in Channels : MayTell(n, k) => <<k, "event">> \in Pairs(q)
    BY <1>1, ConsumeOnce
  <2> QED
    BY <2>1 DEF JobsSound
<1>5. \A s \in Readers \ {r} : reader[s].no # n
  <2>1. \A s \in Readers : reader[s].at = "idle" => reader[s].no = 0
    BY DEF Consistent, ReadersTyped
  <2> QED
    BY <1>1, <1>2, <1>3, <2>1, ReadersApart
<1>6. n \notin consumed \cup unheard \cup Telling
  <2>1. n \notin consumed \cup unheard
    BY <1>1, <1>2, <1>3 DEF NumbersApart
  <2>2. n \notin Telling
    BY <1>1, <1>2, <1>5 DEF Telling
  <2> QED
    BY <2>1, <2>2
<1>7. Free.at = "idle" /\ Free.no = 0
  BY FreeIs
\* It is left with the jobs, or free.
<1>8. PICK t : /\ \A s \in Readers \ {r} : reader'[s] = reader[s]
               /\ t = << >> => reader'[r].at = "idle" /\ reader'[r].no = 0
               /\ t # << >> => /\ reader'[r].at = "jobs" /\ reader'[r].no = n /\ reader'[r].to = {} /\ reader'[r].jobs = t
                               /\ consumed' = consumed
               /\ \/ t = q /\ unheard' = unheard /\ (q = << >> => consumed' = consumed \cup {n}) /\ Lookup("action")
                  \/ t = << >> /\ unheard' = unheard \cup {n} /\ consumed' = consumed /\ NoAnswer("action")
  <2>1. CASE Lookup("action") /\ Go(r, {}, q) /\ UNCHANGED unheard
    <3>1. PICK to : to = {}
      OBVIOUS
    <3>2. to \in SUBSET Users /\ Go(r, to, q)
      BY <2>1, <3>1
    <3>3. /\ \A s \in Readers \ {r} : reader'[s] = reader[s]
          /\ q = << >> => reader'[r] = Free /\ consumed' = consumed \cup {reader[r].no}
          /\ q # << >> => /\ reader'[r].at = "jobs" /\ reader'[r].no = reader[r].no /\ reader'[r].to = to
                          /\ reader'[r].jobs = q /\ consumed' = consumed
      <4>1. reader \in [Readers -> ReaderType] /\ q \in Seq(JobType)
        BY <1>3, <1>4
      <4> QED
        <5>1. \A s \in Readers \ {r} : reader'[s] = reader[s]
          BY <4>1, <3>2, GoMoves
        <5>2. q = << >> => reader'[r] = Free /\ consumed' = consumed \cup {reader[r].no}
          BY <4>1, <3>2 DEF Go
        <5>3. q # << >> => /\ reader'[r].at = "jobs" /\ reader'[r].no = reader[r].no /\ reader'[r].to = to
                           /\ reader'[r].jobs = q /\ consumed' = consumed
          BY <4>1, <3>2, GoMoves
        <5> QED
          BY <5>1, <5>2, <5>3
    <3> QED
      BY <1>1, <1>7, <2>1, <3>1, <3>3
  <2>2. CASE NoAnswer("action") /\ reader' = [reader EXCEPT ![r] = Free] /\ unheard' = unheard \cup {n} /\ UNCHANGED consumed
    <3>1. reader'[r] = Free /\ \A s \in Readers \ {r} : reader'[s] = reader[s]
      BY <1>3, <2>2
    <3> QED
      BY <1>7, <2>2, <3>1
  <2> QED
    BY <1>2, <2>1, <2>2
<1>9. t = << >> \/ t = q
  BY <1>8
<1>10. Numbers' = Numbers
  BY <1>2 DEF Numbers
<1>11. consumed \subseteq consumed' /\ unheard \subseteq unheard' /\ consumed' \cup unheard' \subseteq consumed \cup unheard \cup {n}
  BY <1>8, <1>9
<1>12. NumbersApart'
  <2>1. consumed' \cup unheard' \subseteq Numbers'
    BY <1>3, <1>10, <1>11 DEF NumbersApart
  <2>2. ASSUME NEW p \in Prios, NEW m \in Range(queue'[p]) PROVE m \notin consumed' \cup unheard' /\ \A s \in Readers : reader'[s].no # m
    <3>1. m \notin consumed \cup unheard /\ \A s \in Readers : reader[s].no # m
      BY <1>2, <1>3, <2>2 DEF NumbersApart
    <3>2. m # 0
      <4>1. queue'[p] \in Seq(Numbers)
        BY <1>2 DEF Consistent, ReadersTyped
      <4>2. m \in Numbers
        BY <2>2, <4>1 DEF Range
      <4> QED
        BY <4>2 DEF Numbers
    <3> QED
      BY <1>1, <1>8, <1>11, <3>1, <3>2
  <2>3. ASSUME NEW s \in Readers, reader'[s].at # "idle" PROVE reader'[s].no \notin consumed' \cup unheard'
    <3>1. CASE s # r
      <4>1. reader'[s] = reader[s] /\ reader[s].no \notin consumed \cup unheard
        BY <1>3, <1>8, <2>3, <3>1 DEF NumbersApart
      <4> QED
        BY <1>5, <1>11, <3>1, <4>1
    <3>2. CASE s = r
      <4>1. t = q /\ q # << >> /\ reader'[r].no = n /\ consumed' = consumed /\ unheard' = unheard
        BY <1>8, <2>3, <3>2
      <4> QED
        BY <1>6, <3>2, <4>1
    <3> QED
      BY <3>1, <3>2
  <2> QED
    BY <2>1, <2>2, <2>3 DEF NumbersApart
<1>13. ReadersReady'
  BY <1>3, <1>4, <1>8, <1>9 DEF ReadersReady
<1>14. /\ Alone(users)' = Alone(users) /\ Alone(combiner)' = Alone(combiner) /\ Held(messages)' = Held(messages)
       /\ Held(Lists)' = Held(Lists) /\ Held(Sendings)' = Held(Sendings)
  BY <1>2 DEF Alone, Held, Lists, Sendings
<1>15. PICK N : N = {i \in Item : i.no = n /\ <<i.kind, i.part>> \in Pairs(t)}
  OBVIOUS
<1>16. Pending' = Pending \cup N
  <2>1. PendingOf(r) = {}
    BY <1>2 DEF PendingOf
  <2>2. PendingOf(r)' = N
    <3>1. Pairs(<< >>) = {}
      BY DEF Pairs
    <3> QED
      BY <1>8, <1>15, <3>1 DEF PendingOf
  <2>3. \A s \in Readers \ {r} : PendingOf(s)' = PendingOf(s)
    BY <1>8 DEF PendingOf
  <2> QED
    BY <1>15, <2>1, <2>2, <2>3 DEF Pending
<1>17. N \cap Somewhere = {}
  BY <1>3, <1>6, <1>15 DEF Known
<1>18. Apart' /\ Somewhere' = Somewhere \cup N
  BY <1>2, <1>3, <1>14, <1>16, <1>17 DEF Apart, Split8, Somewhere
<1>19. Unique'
  BY <1>2, <1>3 DEF Unique, Messages
<1>20. known' \subseteq {"action", "users"}
  BY <1>3, <1>8 DEF Lookup, NoAnswer, CarriedTyped
<1>21. CarriedTyped'
  BY <1>2, <1>3, <1>10, <1>20 DEF CarriedTyped
<1>22. Telling' \subseteq Telling \cup {n} /\ Telling \subseteq Telling' /\ (t # << >> => n \in Telling') /\ (t = << >> => n \in consumed' \cup unheard')
  <2>1. Telling' \subseteq Telling \cup {n}
    BY <1>8 DEF Telling
  <2>2. Telling \subseteq Telling'
    BY <1>2, <1>8 DEF Telling
  <2>3. t # << >> => n \in Telling'
    BY <1>3, <1>8 DEF Telling
  <2>4. t = << >> => n \in consumed' \cup unheard'
    BY <1>8
  <2> QED
    BY <2>1, <2>2, <2>3, <2>4
<1>23. Known'
  <2>1. \A i \in N : i.no = n
    BY <1>15
  <2> QED
    BY <1>3, <1>11, <1>18, <1>22, <2>1 DEF Known
<1>24. Served'
  <2> SUFFICES ASSUME NEW i \in Item, i.no \in consumed' \cup Telling', Due(i)' PROVE i \in Somewhere'
    BY DEF Served
  <2>1. Due(i)
    BY <1>2 DEF Due, MayTell, Event
  <2>2. CASE i.no # n
    <3>1. i.no \in consumed \cup Telling
      <4>1. consumed' \subseteq consumed \cup {n}
        BY <1>8
      <4> QED
        BY <1>22, <2>2, <4>1
    <3> QED
      BY <1>3, <1>18, <2>1, <3>1 DEF Served
  <2>3. CASE i.no = n
    <3>1. i.kind \in Channels /\ i.part = "event" /\ <<i.kind, i.part>> \in Pairs(q)
      BY <1>4, <2>1, <2>3 DEF Due, Item
    <3>2. t = q
      <4>1. CASE t # q
        <5>1. t = << >> /\ consumed' = consumed
          BY <1>8, <4>1
        <5>2. n \notin Telling'
          BY <1>5, <1>8, <5>1 DEF Telling
        <5> QED
          BY <1>6, <2>3, <5>1, <5>2
      <4> QED
        BY <4>1
    <3>3. i \in N
      BY <1>15, <2>3, <3>1, <3>2
    <3> QED
      BY <1>18, <3>3
  <2> QED
    BY <2>2, <2>3
<1>25. Unharmed'
  <2>1. failures' = 0 => failures = 0 /\ Lookup("action")
    BY <1>3, <1>8, FailuresCount DEF Lookup, NoAnswer
  <2>2. Lookup("action") /\ failures' = 0 => t = q /\ unheard' = unheard
    <3>1. NoAnswer("action") => failures' # 0
      BY <1>3, FailuresCount DEF NoAnswer
    <3> QED
      BY <1>8, <3>1
  <2> QED
    BY <1>2, <1>3, <1>4, <1>8, <2>1, <2>2 DEF Unharmed
<1> QED
  BY <1>12, <1>13, <1>18, <1>19, <1>21, <1>23, <1>24, <1>25 DEF Carried

\* What the process has taken off redis is what its combiners and senders have.
LEMMA MemoryIs ==
    ASSUME CarriedTyped
    PROVE  UNION {InMemory(k) : k \in Channels} = Alone(combiner) \cup Held(Lists) \cup Held(Sendings)
<1>1. combiner \in [Channels -> SUBSET Single] /\ sender \in [Channels -> SenderType]
  BY DEF CarriedTyped, SenderType
<1>2. ASSUME NEW k \in Channels, NEW i
      PROVE  i \in InMemory(k) <=> /\ i \in Item /\ i.kind = k
                                   /\ \/ \E d \in combiner[k] : AloneIs(d, i)
                                      \/ \E m \in sender[k].list \cup sender[k].sending : Holds(m, i)
  <2>1. sender[k].list \subseteq MessageType /\ sender[k].sending \subseteq MessageType /\ combiner[k] \subseteq Single
    <3>1. sender[k] \in SenderType
      BY <1>1
    <3> QED
      BY <1>1, <3>1 DEF SenderType
  <2>2. ASSUME NEW m \in MessageType PROVE i \in Items(k, m) <=> i \in Item /\ i.kind = k /\ Holds(m, i)
    <3>1. Items(k, m) = HeldOf(k, {m})
      BY ItemsAre
    <3> QED
      BY <3>1 DEF HeldOf
  <2>3. ASSUME NEW d \in Single PROVE i \in Items(k, Message({d.no}, {d.user}, "event")) <=> i \in Item /\ i.kind = k /\ AloneIs(d, i)
    <3>1. PICK m : m = [nos |-> {d.no}, to |-> {d.user}, part |-> "event"]
      OBVIOUS
    <3>2. m \in MessageType /\ m.nos = {d.no} /\ m.to = {d.user} /\ m.part = "event"
      BY <3>1 DEF MessageType, Single
    <3>3. i \in Items(k, m) <=> i \in Item /\ i.kind = k /\ Holds(m, i)
      BY <2>2, <3>2
    <3>4. Holds(m, i) <=> AloneIs(d, i)
      BY <3>2 DEF Holds, AloneIs
    <3>5. Message({d.no}, {d.user}, "event") = m
      BY <3>1 DEF Message
    <3> QED
      BY <3>3, <3>4, <3>5
  <2>4. i \in InMemory(k) <=> \/ \E d \in combiner[k] : i \in Items(k, Message({d.no}, {d.user}, "event"))
                              \/ \E m \in sender[k].list \cup sender[k].sending : i \in Items(k, m)
    BY Zenon DEF InMemory
  <2> QED
    BY <2>1, <2>2, <2>3, <2>4
<1>3. \A k \in Channels : Lists[k] = sender[k].list /\ Sendings[k] = sender[k].sending
  BY DEF Lists, Sendings
<1>4. ASSUME NEW i PROVE i \in UNION {InMemory(k) : k \in Channels} <=> i \in Alone(combiner) \cup Held(Lists) \cup Held(Sendings)
  <2>1. i \in UNION {InMemory(k) : k \in Channels} <=> \E k \in Channels : i \in InMemory(k)
    BY Zenon
  <2>2. \A x \in Item : x.kind \in Channels
    BY DEF Item
  <2> QED
    BY <1>2, <1>3, <2>1, <2>2 DEF Alone, Held
<1> QED
  BY <1>4

\* When alarm stops, what it has in memory is lost or given up.
LEMMA RestartCarried ==
    ASSUME Consistent, Carried, Restart
    PROVE  Carried'
<1>1. PICK gone : gone = {reader[r].no : r \in {s \in Readers : reader[s].at # "idle"}}
  OBVIOUS
<1>2. /\ Fails /\ unheard' = unheard \cup gone
      /\ lost' = lost \cup UNION {InMemory(k) : k \in Channels}
      /\ reader' = [r \in Readers |-> Free] /\ known' = {}
      /\ combiner' = [k \in Channels |-> {}]
      /\ sender' = [k \in Channels |-> [list |-> {}, sending |-> {}]]
      /\ UNCHANGED <<events, queue, users, messages, rows, told, consumed>>
  BY <1>1 DEF Restart, redis, mysql
<1>3. /\ CarriedTyped /\ Apart /\ Unique /\ NumbersApart /\ Known /\ Served /\ failures \in 0..MaxFailures
      /\ \A r \in Readers : reader[r].at # "idle" => reader[r].no \in Numbers
  BY DEF Carried, Consistent, ReadersTyped
<1>4. lost' = lost \cup Alone(combiner) \cup Held(Lists) \cup Held(Sendings)
  BY <1>2, <1>3, MemoryIs
<1>5. \A r \in Readers : reader'[r].at = "idle" /\ reader'[r].no = 0
  BY <1>2, FreeIs
<1>6. \A k \in Channels : combiner'[k] = {} /\ sender'[k].list = {} /\ sender'[k].sending = {}
  BY <1>2
<1>7. Pending' = {} /\ Telling' = {} /\ Numbers' = Numbers
  BY <1>2, <1>5 DEF Pending, PendingOf, Telling, Numbers
<1>8. Alone(combiner)' = {} /\ Held(Lists)' = {} /\ Held(Sendings)' = {} /\ Alone(users)' = Alone(users) /\ Held(messages)' = Held(messages)
  <2>1. \A x \in Item : x.kind \in Channels
    BY DEF Item
  <2>2. Alone(combiner)' = {}
    BY <1>6, <2>1 DEF Alone
  <2>3. Held(Lists)' = {} /\ Held(Sendings)' = {}
    BY <1>6, <2>1 DEF Held, Lists, Sendings
  <2> QED
    BY <1>2, <2>2, <2>3
<1>9. Apart' /\ Somewhere' = Somewhere \ Pending
  BY <1>2, <1>3, <1>4, <1>7, <1>8 DEF Apart, Split8, Somewhere
<1>10. \A m : m \in gone <=> \E r \in Readers : reader[r].at # "idle" /\ reader[r].no = m
  BY <1>1
<1>11. Telling \subseteq gone /\ gone \subseteq Numbers /\ gone \cap consumed = {}
  BY <1>3, <1>10 DEF Telling, NumbersApart
<1>12. \A i \in Pending : i.no \in gone
  BY <1>10 DEF Pending, PendingOf
<1>13. Known'
  BY <1>2, <1>3, <1>7, <1>9, <1>11 DEF Known
<1>14. Served'
  <2>1. \A i : Due(i)' <=> Due(i)
    BY <1>2 DEF Due, MayTell, Event
  <2> QED
    BY <1>2, <1>3, <1>7, <1>9, <1>11, <1>12, <2>1 DEF Served
<1>15. NumbersApart'
  <2>1. consumed' \cup unheard' \subseteq Numbers'
    BY <1>2, <1>3, <1>7, <1>11 DEF NumbersApart
  <2>2. ASSUME NEW p \in Prios, NEW m \in Range(queue'[p]) PROVE m \notin consumed' \cup unheard' /\ \A s \in Readers : reader'[s].no # m
    <3>1. m \notin consumed \cup unheard /\ \A s \in Readers : reader[s].no # m
      BY <1>2, <1>3, <2>2 DEF NumbersApart
    <3>2. m # 0
      <4>1. queue[p] \in Seq(Numbers)
        BY DEF Consistent, ReadersTyped
      <4>2. m \in Numbers
        BY <1>2, <2>2, <4>1 DEF Range
      <4> QED
        BY <4>2 DEF Numbers
    <3> QED
      BY <1>2, <1>5, <1>10, <3>1, <3>2
  <2> QED
    BY <1>5, <2>1, <2>2 DEF NumbersApart
<1>16. CarriedTyped'
  <2>1. IsFiniteSet({}) /\ Cardinality({}) = 0 /\ \A k \in Channels : Workers[k] \in Nat
    BY FS_EmptySet, AlarmAssumption DEF Channels
  <2>2. \A k \in Channels : IsFiniteSet(sender'[k].sending) /\ Cardinality(sender'[k].sending) <= Workers[k]
    BY <1>6, <2>1, SMTT(30)
  <2>3. lost' \subseteq Item
    BY <1>3, <1>4 DEF CarriedTyped, Alone, Held
  <2> QED
    BY <1>2, <1>3, <1>7, <2>2, <2>3 DEF CarriedTyped
<1>17. ReadersReady'
  BY <1>5 DEF ReadersReady
<1>18. Unique'
  BY <1>2, <1>3, <1>6 DEF Unique, Messages
<1>19. Unharmed'
  <2>1. failures' # 0
    BY <1>2, <1>3, FailuresCount
  <2> QED
    BY <2>1 DEF Unharmed
<1> QED
  BY <1>9, <1>13, <1>14, <1>15, <1>16, <1>17, <1>18, <1>19 DEF Carried

\* Every step of alarm keeps what users are told in one place.
LEMMA CarriedStep == Consistent /\ Carried /\ [Next]_vars => Carried'
<1> SUFFICES ASSUME Consistent, Carried, [Next]_vars PROVE Carried'
  OBVIOUS
<1>1. ASSUME NEW c \in Cases, NEW p \in Prios, NEW s \in {"PROBLEM", "OK", "DDALERT"}, Judge(c, p, s) PROVE Carried'
  BY <1>1, JudgeCarried DEF Statuses
<1>2. ASSUME NEW c \in Cases, Note(c) PROVE Carried'
  BY <1>2, NoteCarried
<1>3. ASSUME NEW r \in Readers, Read(r) PROVE Carried'
  BY <1>3, PopCarried, RecordCarried, ActionCarried, LookCarried, WriteCarried, SplitCarried DEF Read
<1>4. ASSUME NEW k \in Channels, Combine(k) PROVE Carried'
  BY <1>4, PopAllDtoCarried, WriteGroupCarried DEF Combine
<1>5. ASSUME NEW k \in Channels, Send(k) PROVE Carried'
  BY <1>5, PopAllCarried, StartSendCarried, EndSendCarried DEF Send
<1>6. CASE UNCHANGED vars
  <2>1. /\ UNCHANGED <<events, queue, users, messages, reader, rows, known, combiner, sender, told, lost, unheard, consumed, failures>>
    BY <1>6 DEF vars, redis, mysql, history
  <2>2. CarriedTyped' /\ NumbersApart' /\ \A n \in Numbers : MayTell(n, "sms")' <=> MayTell(n, "sms")
    BY <2>1 DEF Carried, CarriedTyped, NumbersApart, Numbers, MayTell, Event
  <2> QED
    BY <2>1, <2>2, UntoldStep
<1> QED
  BY <1>1, <1>2, <1>3, <1>4, <1>5, <1>6, RestartCarried DEF Next

\* A set with one element at most.
LEMMA OneOrNone ==
    ASSUME NEW S, \A x, y \in S : x = y
    PROVE  Cardinality(S) = IF S = {} THEN 0 ELSE 1
<1>1. CASE S = {}
  BY <1>1, FS_EmptySet
<1>2. CASE S # {}
  <2>1. PICK x \in S : S = {x}
    BY <1>2
  <2> QED
    BY <1>2, <2>1, FS_Singleton
<1> QED
  BY <1>1, <1>2

\* An item waits in one place at most, and ended in one way at most.
LEMMA PlacesAre ==
    ASSUME Consistent, Carried, NEW i \in AllItems
    PROVE  /\ Cardinality(Waiting(i)) = IF i \in Alone(users) \cup Alone(combiner) \cup Held(messages) \cup Held(Lists) \cup Held(Sendings)
                                        THEN 1 ELSE 0
           /\ Cardinality(Ended(i)) = IF i \in told \cup lost THEN 1 ELSE 0
           /\ i \in Item
<1>1. i \in Item /\ i.kind \in Channels
  BY DEF AllItems, Item, Numbers
<1>2. PICK k : k = i.kind
  OBVIOUS
<1>3. /\ users[k] \subseteq Single /\ combiner[k] \subseteq Single /\ Apart
      /\ \A m, n \in Messages(k) : Holds(m, i) /\ Holds(n, i) => m = n
      /\ Lists[k] = sender[k].list /\ Sendings[k] = sender[k].sending
  BY <1>1, <1>2 DEF Carried, CarriedTyped, Unique, Lists, Sendings
<1>4. /\ i \in Alone(users) <=> \E d \in users[k] : AloneIs(d, i)
      /\ i \in Alone(combiner) <=> \E d \in combiner[k] : AloneIs(d, i)
      /\ i \in Held(messages) <=> \E m \in messages[k] : Holds(m, i)
      /\ i \in Held(Lists) <=> \E m \in sender[k].list : Holds(m, i)
      /\ i \in Held(Sendings) <=> \E m \in sender[k].sending : Holds(m, i)
  BY <1>1, <1>2, <1>3 DEF Alone, Held
<1>5. \A x : x \in Waiting(i) <=> \/ \E d \in users[k] \cup combiner[k] : AloneIs(d, i) /\ x = <<"alone", d>>
                                  \/ \E m \in Messages(k) : Holds(m, i) /\ x = <<"message", m>>
  BY <1>2 DEF Waiting, AloneIs, Holds, Messages
<1>6. \A x, y \in Waiting(i) : x = y
  <2>1. \A d, e \in users[k] \cup combiner[k] : AloneIs(d, i) /\ AloneIs(e, i) => d = e
    <3>1. \A d, e \in Single : d.no = e.no /\ d.user = e.user => d = e
      BY DEF Single
    <3> QED
      BY <1>3, <3>1 DEF AloneIs
  <2>2. ~(i \in Alone(users) \cup Alone(combiner) /\ i \in Held(messages) \cup Held(Lists) \cup Held(Sendings))
    BY <1>3 DEF Apart, Split8
  <2>3. \A d \in users[k] \cup combiner[k], m \in Messages(k) : ~(AloneIs(d, i) /\ Holds(m, i))
    BY <1>4, <2>2 DEF Messages
  <2> QED
    BY <1>3, <1>5, <2>1, <2>3
<1>7. Waiting(i) # {} <=> i \in Alone(users) \cup Alone(combiner) \cup Held(messages) \cup Held(Lists) \cup Held(Sendings)
  <2>1. Waiting(i) # {} <=> \/ \E d \in users[k] \cup combiner[k] : AloneIs(d, i)
                            \/ \E m \in Messages(k) : Holds(m, i)
    BY <1>5
  <2> QED
    BY <1>4, <2>1 DEF Messages
<1>8. \A x : x \in Ended(i) <=> (x = "told" /\ i \in told) \/ (x = "lost" /\ i \in lost)
  BY DEF Ended
<1>9. \A x, y \in Ended(i) : x = y
  BY <1>3, <1>8 DEF Apart, Split8
<1>10. Ended(i) # {} <=> i \in told \cup lost
  BY <1>8
<1> QED
  BY <1>1, <1>6, <1>7, <1>9, <1>10, OneOrNone

\* With all in one place, that is what the property says.
LEMMA InOnePlace == Consistent /\ Carried => OnePlace
<1> SUFFICES ASSUME Consistent, Carried PROVE OnePlace
  OBVIOUS
<1>1. \A i \in Somewhere : i.no \in Numbers
  BY TellsSent
<1>2. CarriedTyped /\ Apart /\ Served /\ Unharmed
  BY DEF Carried
<1>3. TypeOK
  <2>1. events \in Seq([case : Cases, prio : Prios, status : {"PROBLEM", "OK", "DDALERT"}])
    BY DEF Consistent, ReadersTyped, EventType, Statuses
  <2>2. \A r \in Readers : /\ reader[r].at \in {"idle", "case", "write", "action", "jobs"}
                           /\ reader[r].no \in Numbers \cup {0} /\ reader[r].to \subseteq Users
    <3>1. \A r \in Readers : reader[r] \in ReaderType /\ reader[r].no \in Numbers \cup {0}
      BY DEF Consistent, ReadersTyped
    <3> QED
      BY <3>1 DEF ReaderType
  <2>3. \A c \in Cases : cases[c].no \in Numbers \cup {0} /\ cases[c].closed \in BOOLEAN
    <3>1. \A c \in Cases : cases[c] \in CaseType /\ cases[c].no \in Numbers \cup {0}
      BY DEF Consistent, ReadersTyped
    <3> QED
      BY <3>1 DEF CaseType
  <2>4. ASSUME NEW k \in Channels PROVE users[k] \cup combiner[k] \subseteq [no : Numbers, user : Users]
    <3>1. ASSUME NEW d \in users[k] \cup combiner[k] PROVE d \in [no : Numbers, user : Users]
      <4>1. d \in Single
        BY <1>2, <3>1 DEF CarriedTyped
      <4>2. PICK i : i = [no |-> d.no, user |-> d.user, kind |-> k, part |-> "event"]
        OBVIOUS
      <4>3. i \in Item /\ AloneIs(d, i) /\ i.kind = k /\ i.no = d.no
        BY <4>1, <4>2 DEF Single, Item, AloneIs
      <4>4. i \in Somewhere
        BY <3>1, <4>3 DEF Somewhere, Alone
      <4> QED
        BY <1>1, <4>1, <4>3, <4>4 DEF Single
    <3> QED
      BY <3>1
  <2>5. told \cup lost \subseteq AllItems
    <3>1. ASSUME NEW i \in told \cup lost PROVE i \in AllItems
      <4>1. i \in Item /\ i.no \in Numbers
        BY <1>1, <1>2, <3>1 DEF CarriedTyped, Somewhere
      <4> QED
        BY <4>1 DEF Item, AllItems
    <3> QED
      BY <3>1
  <2>6. queue \in [Prios -> Seq(Numbers)] /\ failures \in 0..MaxFailures
    BY DEF Consistent, ReadersTyped
  <2>7. unheard \cup consumed \subseteq Numbers
    BY TellsSent
  <2> QED
    BY <1>2, <2>1, <2>2, <2>3, <2>4, <2>5, <2>6, <2>7 DEF TypeOK, CarriedTyped
<1>4. ASSUME NEW i \in AllItems
      PROVE  LET places == Cardinality(Waiting(i)) + Cardinality(Ended(i)) IN
             /\ places <= 1
             /\ i.no \in consumed /\ i.part = "event" /\ MayTell(i.no, i.kind) => places = 1
  <2>1. /\ Cardinality(Waiting(i)) = IF i \in Alone(users) \cup Alone(combiner) \cup Held(messages) \cup Held(Lists) \cup Held(Sendings)
                                     THEN 1 ELSE 0
        /\ Cardinality(Ended(i)) = IF i \in told \cup lost THEN 1 ELSE 0
        /\ i \in Item
    BY PlacesAre
  <2>2. i \in Alone(users) \cup Alone(combiner) \cup Held(messages) \cup Held(Lists) \cup Held(Sendings) => i \notin told \cup lost
    BY <1>2 DEF Apart, Split8
  <2>3. ASSUME i.no \in consumed, i.part = "event", MayTell(i.no, i.kind)
        PROVE  i \in Alone(users) \cup Alone(combiner) \cup Held(messages) \cup Held(Lists) \cup Held(Sendings) \cup told \cup lost
    <3>1. i \in Somewhere
      BY <1>2, <2>1, <2>3 DEF Served, Due
    <3>2. i \notin Pending
      BY <2>3 DEF Pending, PendingOf, Carried, NumbersApart
    <3> QED
      BY <3>1, <3>2 DEF Somewhere
  <2> QED
    BY <2>1, <2>2, <2>3
<1> QED
  BY <1>2, <1>3, <1>4 DEF OnePlace, Unharmed

\* src/alarm/cron/event_consumer.go and what follows it: nobody is told of an event
\* twice, and of an event that was consumed everybody is told by every channel, or
\* will be, or a failure lost that.
THEOREM ToldOnce == MCSpec => []OnePlace
<1>1. MCInit => Consistent /\ Carried
  BY ConsistentInit, CarriedInit DEF MCInit
<1>2. Consistent /\ Carried /\ [Next]_vars => (Consistent /\ Carried)'
  BY ConsistentStep, CarriedStep
<1> QED
  BY <1>1, <1>2, InOnePlace, AlarmParts, AlarmSpec, PTL

-----------------------------------------------------------------------------
(* What brings messages to people (FalconMessage)                               *)

PostType  == [kind : Contents, answer : {"ok", "error", "none"}]
TokenType == [good : BOOLEAN, until : Nat]

\* What falcon-message was posted, and what robots are sent of it.
Posted ==
    /\ posts \in Seq(PostType)
    /\ sending \cup taken \cup refused \subseteq (1..Len(posts)) \X Robots

\* A number that was pushed is in one batch, or waits; and what waits are the last ones.
InOrder(b) == \A k \in 1..(Len(b) - 1) : b[k + 1] = b[k] + 1
Queued ==
    /\ pushed \in Nat /\ waiting \in Seq(1..pushed) /\ batches \subseteq Seq(1..pushed)
    /\ \A e \in ended : e.batch \in Seq(1..pushed)
    /\ \A n \in 1..pushed : n \in ToSet(waiting) \/ \E b \in AllBatches : n \in ToSet(b)
    /\ \A b \in AllBatches : InOrder(b) /\ \A n \in ToSet(b) : n \notin ToSet(waiting)
    /\ \A b, c \in AllBatches : \A n \in ToSet(b) : n \in ToSet(c) => b = c
    /\ InOrder(waiting) /\ (waiting # << >> => waiting[Len(waiting)] = pushed)

\* The loop asks for the next token while the last one is good for a while yet, and a
\* token that is found is good for longer than a call takes.
Timely ==
    /\ clock \in 0..MaxTime /\ token \in TokenType /\ trouble \in BOOLEAN
    /\ loop \in [at : {"fetch", "sleep", "pause", "over"}, from : Nat]
    /\ wechat \in [no : Nat, from : Nat, token : TokenType] /\ wechat.no <= Len(posts)
    /\ ~trouble =>
         /\ loop.at \in {"fetch", "sleep"}
         /\ loop.at = "fetch" => clock <= loop.from + FetchTime
         /\ loop.at = "sleep" => clock <= loop.from /\ token.good
         /\ token.good => token.until = loop.from + Ahead
         /\ ~token.good => token.until = 0
         /\ wechat # NoPost => clock <= wechat.from + PostTime /\ wechat.from + PostTime < wechat.token.until

Messaging == Posted /\ Queued /\ Timely

\* At the start the queue is empty and the token is to be fetched.
LEMMA MessagingInit == MessageInit => Messaging
<1> SUFFICES ASSUME MessageInit PROVE Messaging
  OBVIOUS
<1>1. /\ posts = << >> /\ sending = {} /\ taken = {} /\ refused = {}
      /\ pushed = 0 /\ waiting = << >> /\ batches = {} /\ ended = {}
      /\ clock = 0 /\ loop = [at |-> "fetch", from |-> 0] /\ token = NoToken /\ wechat = NoPost /\ trouble = FALSE
  BY DEF MessageInit
<1>2. Posted
  BY <1>1 DEF Posted
<1>3. Queued
  <2>1. AllBatches = {}
    BY <1>1 DEF AllBatches
  <2>2. Len(<< >>) = 0 /\ << >> \in Seq(1..0)
    OBVIOUS
  <2> QED
    BY <1>1, <2>1, <2>2 DEF Queued, InOrder
<1>4. Timely
  <2>1. NoToken \in TokenType /\ NoToken.good = FALSE /\ NoToken.until = 0
    BY DEF NoToken, TokenType
  <2>2. NoPost \in [no : Nat, from : Nat, token : TokenType] /\ NoPost.no = 0
    BY <2>1 DEF NoPost
  <2>3. Len(posts) = 0 /\ MaxTime \in Nat /\ FetchTime \in Nat
    BY <1>1, MessageAssumption
  <2>4. /\ loop.at = "fetch" /\ loop.from = 0
        /\ loop \in [at : {"fetch", "sleep", "pause", "over"}, from : Nat]
    BY <1>1
  <2>5. clock \in 0..MaxTime /\ clock <= 0 + FetchTime /\ trouble \in BOOLEAN
    <3>1. clock = 0
      BY <1>1
    <3>2. clock \in 0..MaxTime /\ clock <= 0 + FetchTime
      BY ONLY <2>3, <3>1
    <3>3. trouble \in BOOLEAN
      BY <1>1
    <3> QED
      BY ONLY <3>2, <3>3
  <2>6. /\ token.good = FALSE /\ token.until = 0 /\ token \in TokenType
        /\ wechat.no <= Len(posts) /\ wechat \in [no : Nat, from : Nat, token : TokenType]
    BY <1>1, <2>1, <2>2, <2>3
  <2> QED
    BY ONLY <1>1, <2>4, <2>5, <2>6 DEF Timely
<1> QED
  BY <1>2, <1>3, <1>4 DEF Messaging

\* A message that is posted.
LEMMA PostedMore ==
    ASSUME Posted, NEW m \in Contents, NEW a \in {"ok", "error", "none"}, Answered(m, a)
    PROVE  posts' \in Seq(PostType) /\ Len(posts') = Len(posts) + 1 /\ Len(posts) \in Nat
<1>1. [kind |-> m, answer |-> a] \in PostType /\ posts \in Seq(PostType)
  BY DEF PostType, Posted
<1> QED
  BY <1>1 DEF Answered

\* What waits goes on as it was when nothing of the queue changes; and so for the clock.
LEMMA QueueRests == Queued /\ UNCHANGED queuevars => Queued'
BY DEF Queued, queuevars, AllBatches, InOrder, ToSet

\* Posts do not touch the token.
LEMMA ClockRests ==
    ASSUME Timely, UNCHANGED <<tokenvars, wechat>>, Len(posts') \in Nat, Len(posts) \in Nat, Len(posts) <= Len(posts')
    PROVE  Timely'
<1>1. UNCHANGED <<clock, loop, token, trouble, wechat>>
  BY DEF tokenvars
<1> QED
  BY <1>1 DEF Timely

\* A message whose content is bad, and one that is sent to robots.
LEMMA DingStep ==
    ASSUME Messaging, DingNext \/ DingSenders
    PROVE  Messaging'
<1>1. Posted /\ Queued /\ Timely
  BY DEF Messaging
<1>2. ASSUME NEW m \in Contents, PostBad(m) PROVE Messaging'
  <2>1. /\ Answered(m, "error") /\ UNCHANGED <<sending, taken, refused>> /\ UNCHANGED queuevars /\ UNCHANGED <<tokenvars, wechat>>
    BY <1>2 DEF PostBad, dingvars
  <2>2. posts' \in Seq(PostType) /\ Len(posts') = Len(posts) + 1 /\ Len(posts) \in Nat
    BY <1>1, <2>1, PostedMore
  <2>3. Posted'
    BY <1>1, <2>1, <2>2 DEF Posted
  <2> QED
    BY <1>1, <2>1, <2>2, <2>3, QueueRests, ClockRests DEF Messaging
<1>3. ASSUME NEW m \in Contents, PostDing(m) PROVE Messaging'
  <2>1. /\ Answered(m, "ok") /\ UNCHANGED <<taken, refused>> /\ UNCHANGED queuevars /\ UNCHANGED <<tokenvars, wechat>>
    BY <1>3 DEF PostDing
  <2>2. posts' \in Seq(PostType) /\ Len(posts') = Len(posts) + 1 /\ Len(posts) \in Nat
    BY <1>1, <2>1, PostedMore
  <2>3. PICK to \in SUBSET Robots : sending' = sending \cup {<<Len(posts) + 1, r>> : r \in to}
    BY <1>3 DEF PostDing
  <2>4. Posted'
    <3>1. {<<Len(posts) + 1, r>> : r \in to} \subseteq (1..Len(posts')) \X Robots
      BY <2>2
    <3>2. (1..Len(posts)) \X Robots \subseteq (1..Len(posts')) \X Robots
      BY <2>2
    <3> QED
      BY <1>1, <2>1, <2>2, <2>3, <3>1, <3>2 DEF Posted
  <2> QED
    BY <1>1, <2>1, <2>2, <2>4, QueueRests, ClockRests DEF Messaging
<1>4. ASSUME NEW s \in sending, DingSend(s) PROVE Messaging'
  <2>1. /\ UNCHANGED posts /\ UNCHANGED queuevars /\ UNCHANGED <<tokenvars, wechat>>
        /\ sending' \cup taken' \cup refused' \subseteq sending \cup taken \cup refused
    BY <1>4 DEF DingSend
  <2>2. Len(posts) \in Nat
    BY <1>1 DEF Posted
  <2> QED
    BY <1>1, <2>1, <2>2, QueueRests, ClockRests DEF Messaging, Posted
<1> QED
  BY <1>2, <1>3, <1>4 DEF DingNext, DingSenders, PostBad, PostDing, Post

\* A sequence that gets another element at its end.
LEMMA AppendedSet ==
    ASSUME NEW S, NEW s \in Seq(S), NEW x
    PROVE  /\ ToSet(Append(s, x)) = ToSet(s) \cup {x} /\ Len(Append(s, x)) = Len(s) + 1
           /\ Append(s, x)[Len(s) + 1] = x /\ \A i \in 1..Len(s) : Append(s, x)[i] = s[i]
<1> DEFINE t == Append(s, x)
<1>1. DOMAIN s = 1..Len(s) /\ Len(s) \in Nat
  OBVIOUS
<1>2. DOMAIN t = 1..Len(s) + 1 /\ Len(t) = Len(s) + 1 /\ t[Len(s) + 1] = x /\ \A i \in 1..Len(s) : t[i] = s[i]
  OBVIOUS
<1> HIDE DEF t
<1>3. Len(s) + 1 \in DOMAIN t /\ \A i \in DOMAIN t : i \in DOMAIN s \/ i = Len(s) + 1
  BY <1>1, <1>2
<1>4. \A i \in DOMAIN s : i \in DOMAIN t
  BY <1>1, <1>2
<1>5. ToSet(t) = ToSet(s) \cup {x}
  BY <1>1, <1>2, <1>3, <1>4 DEF ToSet
<1> QED
  BY <1>2, <1>5 DEF t

\* Messages are pushed, and all that wait are sent as a batch.
LEMMA QueueStep ==
    ASSUME Messaging, QueueNext
    PROVE  Messaging'
<1>1. Queued /\ Posted /\ Timely
  BY DEF Messaging
<1>2. UNCHANGED <<posts, dingvars, tokenvars, wechat>>
  BY DEF QueueNext, Push, SendQueueMessage, BatchEnds
<1>3. Posted' /\ Timely'
  <2>1. Len(posts) \in Nat
    BY <1>1 DEF Posted
  <2>2. Posted'
    BY <1>1, <1>2 DEF Posted, dingvars
  <2> QED
    BY <1>1, <1>2, <2>1, <2>2, ClockRests
<1>4. CASE Push
  <2>1. PICK N : N = pushed + 1
    OBVIOUS
  <2>2. /\ pushed' = N /\ waiting' = Append(waiting, N) /\ UNCHANGED <<batches, ended>> /\ AllBatches' = AllBatches
    BY <1>4, <2>1 DEF Push, AllBatches
  <2>3. pushed \in Nat /\ N \in Nat /\ waiting \in Seq(1..pushed) /\ 1..pushed \subseteq 1..N /\ N \in 1..N
    BY <1>1, <2>1 DEF Queued
  <2>4. /\ ToSet(waiting') = ToSet(waiting) \cup {N} /\ Len(waiting') = Len(waiting) + 1
        /\ waiting'[Len(waiting) + 1] = N /\ \A i \in 1..Len(waiting) : waiting'[i] = waiting[i]
    BY <2>2, <2>3, AppendedSet
  <2>5. Seq(1..pushed) \subseteq Seq(1..N) /\ waiting' \in Seq(1..N)
    <3>1. ASSUME NEW s \in Seq(1..pushed) PROVE s \in Seq(1..N)
      BY <2>3
    <3> QED
      BY <2>2, <2>3, <3>1
  <2>6. \A b \in AllBatches : b \in Seq(1..pushed)
    BY <1>1 DEF Queued, AllBatches
  <2>7. \A b \in AllBatches : \A n \in ToSet(b) : n \in 1..pushed
    <3>1. ASSUME NEW b \in AllBatches, NEW n \in ToSet(b) PROVE n \in 1..pushed
      <4>1. b \in Seq(1..pushed)
        BY <2>6
      <4>2. PICK i \in DOMAIN b : n = b[i]
        BY DEF ToSet
      <4>3. DOMAIN b = 1..Len(b)
        BY <4>1
      <4>4. \A S : \A s \in Seq(S) : \A k \in 1..Len(s) : s[k] \in S
        OBVIOUS
      <4> QED
        BY ONLY <4>1, <4>2, <4>3, <4>4
    <3> QED
      BY <3>1
  <2>8. \A b \in AllBatches : \A n \in ToSet(b) : n \notin ToSet(waiting')
    <3>1. N \notin 1..pushed
      BY <2>1, <2>3
    <3> QED
      BY <1>1, <2>4, <2>7, <3>1 DEF Queued
  <2>9. InOrder(waiting')
    <3>1. ASSUME NEW k \in 1..(Len(waiting') - 1) PROVE waiting'[k + 1] = waiting'[k] + 1
      <4>1. Len(waiting) \in Nat /\ k \in 1..Len(waiting) /\ (k = Len(waiting) \/ (k \in 1..(Len(waiting) - 1) /\ k + 1 \in 1..Len(waiting)))
        BY <2>3, <2>4
      <4>2. CASE k = Len(waiting)
        <5>1. waiting # << >> /\ waiting[k] = pushed
          BY <1>1, <2>3, <4>1, <4>2 DEF Queued
        <5> QED
          BY <2>1, <2>4, <4>1, <4>2, <5>1
      <4>3. CASE k \in 1..(Len(waiting) - 1) /\ k + 1 \in 1..Len(waiting)
        BY <1>1, <2>4, <4>1, <4>3 DEF Queued, InOrder
      <4> QED
        BY <4>1, <4>2, <4>3
    <3> QED
      BY <3>1 DEF InOrder
  <2>10. \A n \in 1..N : n \in ToSet(waiting') \/ \E b \in AllBatches : n \in ToSet(b)
    <3>1. \A n \in 1..N : n \in 1..pushed \/ n = N
      BY <2>1, <2>3
    <3> QED
      BY <1>1, <2>4, <3>1 DEF Queued
  <2>11. waiting'[Len(waiting')] = N
    BY <2>4
  <2>12. Queued'
    BY <1>1, <2>2, <2>3, <2>5, <2>8, <2>9, <2>10, <2>11 DEF Queued
  <2> QED
    BY <1>3, <2>12 DEF Messaging
<1>5. CASE SendQueueMessage
  <2>1. waiting' = << >> /\ AllBatches' = AllBatches \cup {waiting} /\ batches' = batches \cup {waiting} /\ UNCHANGED <<pushed, ended>>
    BY <1>5 DEF SendQueueMessage, Popped, AllBatches
  <2>2. ToSet(waiting') = {} /\ InOrder(waiting') /\ waiting' \in Seq(1..pushed)
    BY <2>1 DEF ToSet, InOrder
  <2>3. \A b, c \in AllBatches' : \A n \in ToSet(b) : n \in ToSet(c) => b = c
    <3>1. \A b, c \in AllBatches : \A n \in ToSet(b) : n \in ToSet(c) => b = c
      BY <1>1 DEF Queued
    <3>2. \A b \in AllBatches : \A n \in ToSet(b) : n \notin ToSet(waiting)
      BY <1>1 DEF Queued
    <3> QED
      BY <2>1, <3>1, <3>2
  <2>4. Queued'
    BY <1>1, <2>1, <2>2, <2>3 DEF Queued
  <2> QED
    BY <1>3, <2>4 DEF Messaging
<1>6. ASSUME NEW b \in batches, BatchEnds(b) PROVE Messaging'
  <2>1. PICK how : batches' = batches \ {b} /\ ended' = ended \cup {[batch |-> b, how |-> how]} /\ UNCHANGED <<pushed, waiting>>
    BY <1>6 DEF BatchEnds
  <2>2. PICK e : e = [batch |-> b, how |-> how]
    OBVIOUS
  <2>3. e.batch = b /\ ended' = ended \cup {e}
    BY <2>1, <2>2
  <2>4. AllBatches' = AllBatches
    BY <2>1, <2>3 DEF AllBatches
  <2>5. \A x \in ended' : x.batch \in Seq(1..pushed)
    BY <1>1, <2>3 DEF Queued
  <2>6. Queued'
    BY <1>1, <2>1, <2>4, <2>5 DEF Queued
  <2> QED
    BY <1>3, <2>6 DEF Messaging
<1> QED
  BY <1>4, <1>5, <1>6 DEF QueueNext

\* What the loop caches, and its sleep: the token is good for Ahead when the loop wakes.
LEMMA FetchStep ==
    ASSUME Messaging, GetAccessToken
    PROVE  Messaging'
<1>1. Queued /\ Posted /\ Timely
  BY DEF Messaging
<1>2. UNCHANGED <<posts, dingvars, queuevars, clock, wechat>>
  BY DEF GetAccessToken, FetchOk, FetchRefused, CacheRefused, FetchFails, Wake
<1>3. Posted' /\ Queued'
  BY <1>1, <1>2, QueueRests DEF Posted, dingvars
<1>4. /\ clock \in Nat /\ clock \in 0..MaxTime /\ Len(posts) \in Nat
      /\ Expires \in Nat /\ Ahead \in Nat /\ Expires > Ahead /\ Default \in Nat /\ FetchTime \in Nat
      /\ wechat \in [no : Nat, from : Nat, token : TokenType] /\ wechat.no <= Len(posts)
  BY <1>1, MessageAssumption DEF Timely, Posted
<1>5. SUFFICES Timely'
  BY <1>3 DEF Messaging
<1>6. CASE FetchOk
  <2>1. token' = [good |-> TRUE, until |-> clock + Expires] /\ loop' = [at |-> "sleep", from |-> clock + (Expires - Ahead)]
        /\ trouble' = trouble
    BY <1>4, <1>6 DEF FetchOk, SleepUntil
  <2>2. token' \in TokenType /\ token'.good = TRUE /\ token'.until = clock + Expires
    BY <1>4, <2>1 DEF TokenType
  <2>3. /\ loop' \in [at : {"fetch", "sleep", "pause", "over"}, from : Nat]
        /\ loop'.at = "sleep" /\ loop'.from = clock + (Expires - Ahead)
    BY <1>4, <2>1
  <2>4. token'.until = loop'.from + Ahead /\ clock <= loop'.from
    BY <1>4, <2>2, <2>3
  <2> QED
    BY <1>1, <1>2, <1>4, <2>1, <2>2, <2>3, <2>4 DEF Timely
<1>7. CASE FetchRefused \/ FetchFails
  <2>1. token' = token /\ trouble' = TRUE
        /\ (loop' = [at |-> "pause", from |-> clock + 1] \/ loop' = [at |-> "over", from |-> clock])
    BY <1>7 DEF FetchRefused, FetchFails
  <2>2. loop' \in [at : {"fetch", "sleep", "pause", "over"}, from : Nat]
    BY <1>4, <2>1
  <2> QED
    BY <1>1, <1>2, <1>4, <2>1, <2>2 DEF Timely
<1>8. CASE CacheRefused
  <2>1. token' = [good |-> FALSE, until |-> clock + Default] /\ loop' = [at |-> "sleep", from |-> clock]
        /\ trouble' = trouble /\ loop.at = "pause"
    BY <1>4, <1>8 DEF CacheRefused, SleepUntil
  <2>2. token' \in TokenType /\ loop' \in [at : {"fetch", "sleep", "pause", "over"}, from : Nat]
    BY <1>4, <2>1 DEF TokenType
  <2>3. trouble
    BY <1>1, <2>1 DEF Timely
  <2>4. trouble' \in BOOLEAN
    BY <1>1, <2>1 DEF Timely
  <2> QED
    BY <1>2, <1>4, <2>1, <2>2, <2>3, <2>4 DEF Timely
<1>9. CASE Wake
  <2>1. token' = token /\ loop' = [at |-> "fetch", from |-> clock] /\ trouble' = trouble /\ loop.at = "sleep" /\ clock >= loop.from
    BY <1>9 DEF Wake
  <2>2. /\ loop' \in [at : {"fetch", "sleep", "pause", "over"}, from : Nat]
        /\ loop'.at = "fetch" /\ loop'.from = clock
    BY <1>4, <2>1
  <2>3. ~trouble => clock <= loop.from /\ token.good /\ token.until = loop.from + Ahead
    BY <1>1, <2>1 DEF Timely
  <2>4. loop.from \in Nat
    BY <1>1 DEF Timely
  <2>5. ~trouble => token.good /\ token.until = loop'.from + Ahead /\ clock <= loop'.from + FetchTime
    BY <1>4, <2>1, <2>2, <2>3, <2>4
  <2> QED
    BY <1>1, <1>2, <1>4, <2>1, <2>2, <2>5 DEF Timely
<1> QED
  BY <1>6, <1>7, <1>8, <1>9 DEF GetAccessToken

\* Time passes, while no call takes longer than it may and the loop wakes in time.
LEMMA PassStep ==
    ASSUME Messaging, Pass
    PROVE  Messaging'
<1>1. Queued /\ Posted /\ Timely
  BY DEF Messaging
<1>2. UNCHANGED <<posts, dingvars, queuevars, loop, token, trouble, wechat>> /\ clock' = clock + 1
  BY DEF Pass
<1>3. Posted' /\ Queued'
  BY <1>1, <1>2, QueueRests DEF Posted, dingvars
<1>4. clock' \in 0..MaxTime /\ clock \in Nat
  BY <1>1, <1>2, MessageAssumption DEF Pass, Timely
<1>5. /\ loop.at = "fetch" => clock' <= loop.from + FetchTime
      /\ loop.at = "sleep" => clock' <= loop.from
      /\ wechat # NoPost => clock' <= wechat.from + PostTime
  <2>1. /\ loop.at = "fetch" => clock < loop.from + FetchTime
        /\ loop.at = "sleep" => clock < loop.from
        /\ wechat # NoPost => clock < wechat.from + PostTime
    BY DEF Pass
  <2>2. loop.from \in Nat /\ wechat.from \in Nat /\ FetchTime \in Nat /\ PostTime \in Nat
    BY <1>1, MessageAssumption DEF Timely
  <2> QED
    BY <1>2, <1>4, <2>1, <2>2
<1>6. Timely'
  BY <1>1, <1>2, <1>4, <1>5 DEF Timely
<1> QED
  BY <1>3, <1>6 DEF Messaging

\* A message for wechat takes along the token it finds.
LEMMA PostWechatStep ==
    ASSUME Messaging, NEW m \in Contents, PostWechat(m)
    PROVE  Messaging'
<1>1. Queued /\ Posted /\ Timely
  BY DEF Messaging
<1>2. UNCHANGED <<dingvars, queuevars, tokenvars>>
  BY DEF PostWechat
<1>3. PICK a \in {"ok", "error", "none"} : Answered(m, a)
  BY DEF PostWechat
<1>4. posts' \in Seq(PostType) /\ Len(posts') = Len(posts) + 1 /\ Len(posts) \in Nat
  BY <1>1, <1>3, PostedMore
<1>5. Posted'
  <2>1. (1..Len(posts)) \X Robots \subseteq (1..Len(posts')) \X Robots
    BY <1>4
  <2> QED
    BY <1>1, <1>2, <1>4, <2>1 DEF Posted, dingvars
<1>6. Queued'
  BY <1>1, <1>2, QueueRests
<1>7. UNCHANGED <<clock, loop, token, trouble>>
  BY <1>2 DEF tokenvars
<1>8. Timely'
  <2>1. CASE ~Found
    <3>1. UNCHANGED wechat
      BY <2>1 DEF PostWechat
    <3> QED
      BY <1>1, <1>2, <1>4, <3>1, ClockRests
  <2>2. CASE Found
    <3>1. wechat' = [no |-> Len(posts) + 1, from |-> clock, token |-> token]
      BY <2>2 DEF PostWechat
    <3>2. clock \in Nat /\ token \in TokenType /\ token.until \in Nat /\ token.good \in BOOLEAN
      BY <1>1 DEF Timely, TokenType
    <3>3. /\ wechat' \in [no : Nat, from : Nat, token : TokenType] /\ wechat'.no <= Len(posts')
          /\ wechat'.from = clock /\ wechat'.token = token
      BY <1>4, <3>1, <3>2
    <3>4. ~trouble => clock + PostTime < token.until
      <4>1. SUFFICES ASSUME ~trouble PROVE clock + PostTime < token.until
        OBVIOUS
      <4>2. token.until > clock
        BY <2>2 DEF Found
      <4>3. token.good /\ token.until = loop.from + Ahead
        BY <1>1, <3>2, <4>1, <4>2 DEF Timely
      <4>4. clock <= loop.from + FetchTime
        <5>1. loop.at \in {"fetch", "sleep"} /\ (loop.at = "fetch" => clock <= loop.from + FetchTime) /\ (loop.at = "sleep" => clock <= loop.from)
          BY <1>1, <4>1 DEF Timely
        <5>2. loop.from \in Nat /\ FetchTime \in Nat
          BY <1>1, MessageAssumption DEF Timely
        <5> QED
          BY ONLY <3>2, <5>1, <5>2
      <4>5. loop.from \in Nat /\ FetchTime \in Nat /\ PostTime \in Nat /\ Ahead \in Nat /\ FetchTime + PostTime < Ahead
        BY <1>1, MessageAssumption DEF Timely
      <4> QED
        BY ONLY <3>2, <4>3, <4>4, <4>5
    <3>5. PostTime \in Nat
      BY MessageAssumption
    <3>6. clock <= clock + PostTime
      BY ONLY <3>2, <3>5
    <3> QED
      BY <1>1, <1>7, <3>3, <3>4, <3>6 DEF Timely
  <2> QED
    BY <2>1, <2>2
<1> QED
  BY <1>5, <1>6, <1>8 DEF Messaging

\* wechat's answer becomes that of the post it is for.
LEMMA WechatAnswersStep ==
    ASSUME Messaging, WechatAnswers
    PROVE  Messaging'
<1>1. Queued /\ Posted /\ Timely
  BY DEF Messaging
<1>2. UNCHANGED <<dingvars, queuevars, tokenvars>> /\ wechat' = NoPost
  BY DEF WechatAnswers
<1>3. PICK a \in {"ok", "error"} : posts' = [posts EXCEPT ![wechat.no].answer = a]
  BY DEF WechatAnswers
<1>4. posts \in Seq(PostType) /\ Len(posts) \in Nat /\ DOMAIN posts = 1..Len(posts)
  BY <1>1 DEF Posted
<1>5. PICK n : n = wechat.no
  OBVIOUS
<1>6. posts' = [posts EXCEPT ![n] = [posts[n] EXCEPT !.answer = a]]
  BY <1>3, <1>5
<1>7. posts' \in Seq(PostType) /\ Len(posts') = Len(posts)
  <2>1. CASE n \in DOMAIN posts
    <3>1. posts[n] \in PostType
      BY <1>4, <2>1
    <3>2. PICK p : p = [posts[n] EXCEPT !.answer = a]
      OBVIOUS
    <3>3. p \in PostType
      BY <3>1, <3>2 DEF PostType
    <3> QED
      BY ONLY <1>4, <1>6, <2>1, <3>2, <3>3
  <2>2. CASE n \notin DOMAIN posts
    <3>1. posts' = posts
      BY <1>4, <1>6, <2>2
    <3> QED
      BY ONLY <1>4, <3>1
  <2> QED
    BY <2>1, <2>2
<1>8. Posted'
  BY <1>1, <1>2, <1>7 DEF Posted, dingvars
<1>9. Timely'
  <2>1. UNCHANGED <<clock, loop, token, trouble>>
    BY <1>2 DEF tokenvars
  <2>2. wechat' \in [no : Nat, from : Nat, token : TokenType] /\ wechat'.no = 0
    BY <1>2 DEF NoPost, NoToken, TokenType
  <2>3. wechat'.no <= Len(posts')
    BY <1>4, <1>7, <2>2
  <2> QED
    BY <1>1, <1>2, <2>1, <2>2, <2>3 DEF Timely
<1> QED
  BY <1>1, <1>2, <1>8, <1>9, QueueRests DEF Messaging

\* What the messages are carried by goes on in every step.
LEMMA MessagingStep == Messaging /\ [MCNext]_<<vars, mvars, part>> => Messaging'
<1> SUFFICES ASSUME Messaging, [MCNext]_<<vars, mvars, part>> PROVE Messaging'
  OBVIOUS
<1>1. CASE DingNext \/ DingSenders
  BY <1>1, DingStep
<1>2. CASE WechatNext
  BY <1>2, FetchStep, PassStep, PostWechatStep DEF WechatNext, PostWechat, Post
<1>3. CASE WechatAnswers
  BY <1>3, WechatAnswersStep
<1>4. CASE QueueNext
  BY <1>4, QueueStep
<1>5. CASE UNCHANGED mvars
  <2>1. UNCHANGED <<posts, dingvars, queuevars, tokenvars, wechat>>
    BY <1>5 DEF mvars
  <2>2. Posted /\ Queued /\ Timely /\ Len(posts) \in Nat
    BY DEF Messaging, Posted
  <2>3. Posted'
    BY <2>1, <2>2 DEF Posted, dingvars
  <2> QED
    BY <2>1, <2>2, <2>3, QueueRests, ClockRests DEF Messaging
<1> QED
  BY <1>1, <1>2, <1>3, <1>4, <1>5 DEF MCNext

\* A set that has one element and no other.
LEMMA OneOnly ==
    ASSUME NEW S, NEW x \in S, \A y \in S : y = x
    PROVE  Cardinality(S) = 1
<1>1. S = {x}
  OBVIOUS
<1> QED
  BY <1>1, FS_Singleton

\* What is kept says that the messages are where they should be.
LEMMA MessagesAreSound == Messaging => MessagesSound
<1> SUFFICES ASSUME Messaging PROVE MessagesSound
  OBVIOUS
<1>1. Posted /\ Queued /\ Timely
  BY DEF Messaging
<1>2. MessageTypeOK
  <2>1. posts \in Seq(PostType) /\ DOMAIN posts = 1..Len(posts) /\ Len(posts) \in Nat
    BY <1>1 DEF Posted
  <2>2. \A n \in DOMAIN posts : posts[n].kind \in Contents /\ posts[n].answer \in {"ok", "error", "none"}
    <3>1. ASSUME NEW n \in DOMAIN posts PROVE posts[n].kind \in Contents /\ posts[n].answer \in {"ok", "error", "none"}
      <4>1. posts[n] \in PostType
        BY <2>1
      <4> QED
        BY <4>1 DEF PostType
    <3> QED
      BY <3>1
  <2>3. sending \cup taken \cup refused \subseteq (DOMAIN posts) \X Robots
    BY <1>1, <2>1 DEF Posted
  <2>4. waiting \in Seq(1..pushed) /\ batches \subseteq Seq(1..pushed)
    BY <1>1 DEF Queued
  <2>5. clock \in 0..MaxTime /\ token \in TokenType /\ wechat.no \in Nat /\ wechat.no <= Len(posts) /\ trouble \in BOOLEAN
    BY <1>1 DEF Timely
  <2>6. token.good \in BOOLEAN
    BY <2>5 DEF TokenType
  <2>7. wechat.no \in 0..Len(posts)
    BY ONLY <2>1, <2>5
  <2> QED
    BY <2>2, <2>3, <2>4, <2>5, <2>6, <2>7 DEF MessageTypeOK
<1>3. QueueWhole
  <2>1. ASSUME NEW n \in 1..pushed
        PROVE  Cardinality({b \in AllBatches \cup {waiting} : n \in ToSet(b)}) = 1
    <3> DEFINE In == {b \in AllBatches \cup {waiting} : n \in ToSet(b)}
    <3>1. /\ \A b \in AllBatches : n \in ToSet(b) => n \notin ToSet(waiting)
          /\ \A b, c \in AllBatches : n \in ToSet(b) /\ n \in ToSet(c) => b = c
          /\ n \in ToSet(waiting) \/ \E b \in AllBatches : n \in ToSet(b)
      BY <1>1 DEF Queued
    <3>2. PICK x \in In : \A y \in In : y = x
      BY <3>1
    <3> QED
      BY <3>2, OneOnly
  <2>2. \A b \in AllBatches : \A k \in 1..(Len(b) - 1) : b[k + 1] = b[k] + 1
    BY <1>1 DEF Queued, InOrder
  <2> QED
    BY <2>1, <2>2 DEF QueueWhole
<1>4. TokenInTime
  <2>1. /\ clock \in Nat /\ token.until \in Nat /\ loop.from \in Nat
        /\ wechat.from \in Nat /\ wechat.token.until \in Nat
        /\ FetchTime \in Nat /\ PostTime \in Nat /\ Ahead \in Nat /\ FetchTime + PostTime < Ahead
    <3>1. token \in TokenType /\ wechat.token \in TokenType
      BY <1>1 DEF Timely
    <3>2. token.until \in Nat /\ wechat.token.until \in Nat
      BY <3>1 DEF TokenType
    <3> QED
      BY <1>1, <3>2, MessageAssumption DEF Timely
  <2>2. ~trouble =>
         /\ loop.at \in {"fetch", "sleep"}
         /\ loop.at = "fetch" => clock <= loop.from + FetchTime
         /\ loop.at = "sleep" => clock <= loop.from
         /\ token.good => token.until = loop.from + Ahead
         /\ wechat # NoPost => clock <= wechat.from + PostTime /\ wechat.from + PostTime < wechat.token.until
    BY <1>1 DEF Timely
  <2>3. ~trouble => (token.good => token.until > clock)
    BY ONLY <2>1, <2>2
  <2>4. ~trouble => (wechat # NoPost => wechat.token.until > clock)
    BY ONLY <2>1, <2>2
  <2> QED
    BY <2>3, <2>4 DEF TokenInTime
<1> QED
  BY <1>2, <1>3, <1>4 DEF MessagesSound

\* Of what is pushed on dinghook's queue, nothing is lost, repeated or taken out of
\* order by the batches that overlap; and falcon-message sends wechat no token that
\* has ended as long as wechat gives one when it is asked, though nothing keeps its
\* handlers and the loop apart.
THEOREM MessagesStaySound == MCSpec => []MessagesSound
<1>1. MCInit => Messaging
  BY MessagingInit DEF MCInit
<1> QED
  BY <1>1, MessagingStep, MessagesAreSound, AlarmSpec, PTL
=============================================================================
