--------------------------- MODULE SyntheticProofs ---------------------------
(* Proofs about nodata and the aggregator (MCSynthetic): which rule of a series  *)
(* is in force, that a mock never shuts a source out, that no worker of the      *)
(* aggregator is left over, and that a worker adds up both sides of its quotient *)
(* over the same hosts.                                                          *)
EXTENDS MCSynthetic, FiniteSetTheorems, WellFoundedInduction, TLAPS

-----------------------------------------------------------------------------
(* Numbers                                                                       *)

\* A set of natural numbers has a least one.
LEMMA LeastNumber ==
    ASSUME NEW T, T \subseteq Nat, T # {}
    PROVE  Min(T) \in T /\ \A y \in T : Min(T) <= y
<1> DEFINE R == OpToRel(<, Nat)
<1>1. IsWellFoundedOn(R, Nat)
  BY NatLessThanWellFounded, Zenon
<1> HIDE DEF R
<1>2. PICK x \in T : \A y \in T : ~ (<<y, x>> \in R)
  BY <1>1, WFMin
<1>3. \A y, z \in Nat : y < z => <<y, z>> \in R
  BY DEF R, OpToRel
<1>4. \A y \in T : x \in Nat /\ y \in Nat /\ ~(y < x)
  BY <1>2, <1>3
<1>5. \A y \in T : x <= y
  BY ONLY <1>4
<1> QED
  BY <1>2, <1>5 DEF Min

\* A set that has 0, and with a number the next, has every number.
LEMMA EveryNumber ==
    ASSUME NEW S, 0 \in S, \A n \in Nat : n \in S => n + 1 \in S
    PROVE  \A n \in Nat : n \in S
<1> DEFINE T == Nat \ S
<1>1. SUFFICES ASSUME T # {} PROVE FALSE
  OBVIOUS
<1>2. Min(T) \in T /\ \A y \in T : Min(T) <= y
  BY <1>1, LeastNumber
<1>3. PICK x \in T : \A y \in T : x <= y
  BY <1>2
<1>4. x # 0 /\ x \in Nat
  BY <1>3
<1>5. x - 1 \in Nat /\ x - 1 \notin T
  BY <1>3, <1>4
<1> QED
  BY <1>3, <1>4, <1>5

-----------------------------------------------------------------------------
(* The rules of nodata                                                           *)

\* Rows have ids that were given.
ConfigTyped == rows \in Nat /\ DOMAIN mockcfg \subseteq 1..rows

\* The rows of ids held against each other up to id n, the first being m.
Holding(ids, m, kept, k) ==
    IF k = m THEN mockcfg[k]
    ELSE IF k \in ids /\ ~IsSpuer(kept[k - 1], mockcfg[k]) THEN mockcfg[k]
    ELSE kept[k - 1]
Holds(ids, m, kept, n) == kept = [k \in m..n |-> Holding(ids, m, kept, k)]

\* Holding rows against each other comes to an end, from any first row.
LEMMA HoldingIs ==
    ASSUME NEW ids, NEW m \in Nat
    PROVE  \A d \in Nat : \E kept : Holds(ids, m, kept, m + d)
<1> DEFINE S == {d \in Nat : \E kept : Holds(ids, m, kept, m + d)}
<1>1. 0 \in S
  <2>1. PICK kept : kept = [k \in m..m |-> mockcfg[k]]
    OBVIOUS
  <2>2. Holds(ids, m, kept, m + 0)
    BY <2>1 DEF Holds, Holding
  <2> QED
    BY <2>2
<1>2. ASSUME NEW d \in Nat, d \in S PROVE d + 1 \in S
  <2>1. PICK kept : Holds(ids, m, kept, m + d)
    BY <1>2
  <2>2. PICK n : n = m + d /\ n \in Nat /\ m <= n /\ m + (d + 1) = n + 1
    OBVIOUS
  <2>3. PICK new : new = Holding(ids, m, kept, n + 1)
    OBVIOUS
  <2>4. PICK next : next = [k \in m..n + 1 |-> IF k <= n THEN kept[k] ELSE new]
    OBVIOUS
  <2>9. Holds(ids, m, kept, n)
    BY <2>1, <2>2
  <2>5. \A k \in m..n : next[k] = kept[k] /\ kept[k] = Holding(ids, m, kept, k)
    <3>1. \A k \in m..n : k \in m..n + 1 /\ k <= n
      BY <2>2
    <3>2. \A k \in m..n : next[k] = kept[k]
      BY ONLY <3>1, <2>4
    <3> QED
      BY <3>2, <2>9 DEF Holds
  <2>6. next[n + 1] = new /\ next[n] = kept[n]
    BY <2>2, <2>4
  <2>7. ASSUME NEW k \in m..n + 1 PROVE next[k] = Holding(ids, m, next, k)
    <3>1. CASE k = m
      BY <3>1, <2>2, <2>5 DEF Holding
    <3>2. CASE k \in m..n /\ k # m
      <4>1. k - 1 \in m..n
        BY <3>2, <2>2
      <4>2. next[k - 1] = kept[k - 1]
        BY <4>1, <2>5
      <4> QED
        BY <4>2, <3>2, <2>5 DEF Holding
    <3>3. CASE k = n + 1
      <4>1. k - 1 = n /\ k # m
        BY <3>3, <2>2
      <4> QED
        BY <4>1, <3>3, <2>3, <2>6 DEF Holding
    <3>4. k = m \/ (k \in m..n /\ k # m) \/ k = n + 1
      BY <2>2
    <3> QED
      BY <3>1, <3>2, <3>3, <3>4
  <2>8. Holds(ids, m, next, n + 1)
    BY <2>4, <2>7 DEF Holds
  <2> QED
    BY <2>2, <2>8
<1> HIDE DEF S
<1>3. \A d \in Nat : d \in S
  BY <1>1, <1>2, EveryNumber
<1> QED
  BY <1>3 DEF S

\* Where a row names a host the row that is kept is not a group's.
LEMMA HostIsKept ==
    ASSUME ConfigTyped, NEW ids, ids \subseteq DOMAIN mockcfg, NEW h \in ids, mockcfg[h].objType = "host"
    PROVE  Kept(ids).objType # "group"
<1>1. PICK m : m = Min(ids)
  OBVIOUS
<1>2. m \in ids /\ m <= h /\ ids \subseteq 1..rows /\ rows \in Nat
  <2>1. ids \subseteq 1..rows /\ rows \in Nat
    BY DEF ConfigTyped
  <2>2. ids \subseteq Nat /\ ids # {}
    BY <2>1
  <2> QED
    BY <2>1, <2>2, <1>1, LeastNumber
<1>3. m \in Nat /\ m <= rows /\ h \in m..rows
  BY <1>2
<1> DEFINE the == CHOOSE kept : Holds(ids, m, kept, rows)
<1>4. Kept(ids) = the[rows]
  BY <1>1 DEF Kept, Holds, Holding
<1>5. Holds(ids, m, the, rows)
  <2>1. rows - m \in Nat /\ m + (rows - m) = rows
    BY <1>2, <1>3
  <2> QED
    BY <1>3, <2>1, HoldingIs
<1>6. PICK kept : kept = the
  OBVIOUS
<1>7. \A k \in m..rows : kept[k] = Holding(ids, m, kept, k)
  BY <1>5, <1>6 DEF Holds
<1> DEFINE S == {d \in Nat : m + d \in m..rows /\ h <= m + d => kept[m + d].objType # "group"}
<1>8. 0 \in S
  <2>1. ASSUME h <= m + 0, m + 0 \in m..rows PROVE kept[m + 0].objType # "group"
    <3>1. m + 0 = m /\ h = m /\ m \in m..rows
      BY <2>1, <1>2, <1>3
    <3> QED
      BY <3>1, <1>7 DEF Holding
  <2> QED
    BY <2>1
<1>9. ASSUME NEW d \in Nat, d \in S PROVE d + 1 \in S
  <2>1. ASSUME m + (d + 1) \in m..rows, h <= m + (d + 1) PROVE kept[m + (d + 1)].objType # "group"
    <3>1. PICK k : k = m + d
      OBVIOUS
    <3>5. k \in m..rows /\ k + 1 \in m..rows /\ k + 1 # m /\ k + 1 - 1 = k /\ m + (d + 1) = k + 1
      BY <1>2, <1>3, <2>1, <3>1
    <3>2. kept[k + 1] = IF k + 1 \in ids /\ ~IsSpuer(kept[k], mockcfg[k + 1]) THEN mockcfg[k + 1] ELSE kept[k]
      BY <1>7, <3>5 DEF Holding
    <3>6. PICK a, b : a = kept[k] /\ b = mockcfg[k + 1]
      OBVIOUS
    <3>3. CASE h = k + 1
      <4>1. b.objType = "host" /\ k + 1 \in ids
        BY <3>3, <3>6
      <4>2. IsSpuer(a, b) => a.objType # "group"
        BY <4>1 DEF IsSpuer
      <4> QED
        BY <3>2, <3>5, <3>6, <4>1, <4>2
    <3>4. CASE h # k + 1
      <4>1. h <= k
        BY <2>1, <3>1, <3>4, <1>3
      <4>2. kept[k].objType # "group"
        BY <4>1, <3>1, <3>5, <1>9
      <4>3. IsSpuer(a, b)
        BY <4>2, <3>6 DEF IsSpuer
      <4> QED
        BY <4>2, <4>3, <3>2, <3>5, <3>6
    <3> QED
      BY <3>3, <3>4
  <2> QED
    BY <2>1
<1>10. rows - m \in S
  <2> HIDE DEF S
  <2>1. \A d \in Nat : d \in S
    BY <1>8, <1>9, EveryNumber
  <2> QED
    BY <2>1, <1>2, <1>3
<1>11. m + (rows - m) = rows /\ h <= rows /\ rows \in m..rows
  BY <1>2, <1>3
<1>12. kept[rows].objType # "group"
  BY <1>10, <1>11
<1> QED
  BY <1>12, <1>4, <1>6

\* So after any synchronisation.
LEMMA HostPreferred ==
    ASSUME ConfigTyped, NEW lost, NEW key \in DOMAIN GetMockCfgFromDB(lost),
           GetMockCfgFromDB(lost)[key].objType = "group",
           NEW id \in DOMAIN mockcfg, mockcfg[id].objType = "host", key[1] \in mockcfg[id].obj,
           key[2] \in mockcfg[id].counters, CheckMockCfg(mockcfg[id])
    PROVE  FALSE
<1>1. key \in Series /\ GetMockCfgFromDB(lost)[key] = Kept(RowsFor(key, lost))
  BY DEF GetMockCfgFromDB
<1>2. key[1] \in Endpoints
  BY <1>1 DEF Series
<1>3. id \in RowsFor(key, lost)
  BY <1>2 DEF RowsFor, GetEndpoint
<1>4. PICK ids : ids = RowsFor(key, lost)
  OBVIOUS
<1>5. ids \subseteq DOMAIN mockcfg
  BY <1>4 DEF RowsFor
<1>6. Kept(ids).objType # "group"
  BY <1>3, <1>4, <1>5, HostIsKept
<1> QED
  BY <1>1, <1>4, <1>6

\* Ids are given in order.
LEMMA ConfigStep == ConfigTyped /\ [MCNext]_<<nvars, tvars, avars, part, sample>> => ConfigTyped'
<1> SUFFICES ASSUME ConfigTyped, [MCNext]_<<nvars, tvars, avars, part, sample>> PROVE ConfigTyped'
  OBVIOUS
<1>1. ASSUME NEW rule, CreateNoData(rule) PROVE ConfigTyped'
  <2>1. rows' = rows + 1 /\ DOMAIN mockcfg' = DOMAIN mockcfg \cup {rows'}
    BY <1>1 DEF CreateNoData
  <2> QED
    BY <2>1 DEF ConfigTyped
<1>2. ASSUME NEW rule, NEW id \in DOMAIN mockcfg, UpdateNoData(id, rule) PROVE ConfigTyped'
  BY <1>2 DEF ConfigTyped, UpdateNoData
<1>3. ASSUME NEW id, DeleteNoData(id) PROVE ConfigTyped'
  BY <1>3 DEF ConfigTyped, DeleteNoData
<1>4. CASE UNCHANGED <<rows, mockcfg>>
  BY <1>4 DEF ConfigTyped
<1>5. CASE NodataConfigNext
  BY <1>1, <1>2, <1>3, <1>4, <1>5 DEF NodataConfigNext, Maintain, SyncNdConfig, SyncNdConfigFails
<1>6. CASE NodataNext
  <2>1. UNCHANGED <<rows, mockcfg>>
    BY <1>6 DEF NodataNext, Report, CollectDataOnce, FetchItemsAndStore, QueryLastPointsFails, Judge, SendMockOnce,
          SendMockPage, ClearMocks, SendItemsToTransfer, SendItemsFails, Configure, ConfigLost, Restart, Tick,
          SyncNdConfig, SyncNdConfigFails, nvars
  <2> QED
    BY <1>4, <2>1
<1> QED
  BY <1>1, <1>4, <1>5, <1>6 DEF MCNext, nvars

\* A step that puts new rules in force prefers the hosts'.
LEMMA RulesStep ==
    ConfigTyped /\ [MCNext]_<<nvars, tvars, avars, part, sample>> =>
        [NdConfigMap' # NdConfigMap =>
            \A key \in DOMAIN NdConfigMap' :
                NdConfigMap'[key].objType = "group" =>
                    \A id \in DOMAIN mockcfg :
                        ~ (/\ mockcfg[id].objType = "host" /\ key[1] \in mockcfg[id].obj
                           /\ key[2] \in mockcfg[id].counters /\ CheckMockCfg(mockcfg[id]))]_nvars
<1> SUFFICES ASSUME ConfigTyped, [MCNext]_<<nvars, tvars, avars, part, sample>>, NdConfigMap' # NdConfigMap,
                    NEW key \in DOMAIN NdConfigMap', NdConfigMap'[key].objType = "group",
                    NEW id \in DOMAIN mockcfg, mockcfg[id].objType = "host", key[1] \in mockcfg[id].obj,
                    key[2] \in mockcfg[id].counters, CheckMockCfg(mockcfg[id])
             PROVE  FALSE
  OBVIOUS
<1>1. NdConfigMap' = << >> \/ \E lost : NdConfigMap' = GetMockCfgFromDB(lost)
  <2>1. CASE NodataConfigNext
    BY <2>1 DEF NodataConfigNext, CreateNoData, UpdateNoData, DeleteNoData, Maintain, SyncNdConfig, SyncNdConfigFails
  <2>2. CASE NodataNext
    BY <2>2 DEF NodataNext, Report, CollectDataOnce, FetchItemsAndStore, QueryLastPointsFails, Judge, SendMockOnce,
          SendMockPage, ClearMocks, SendItemsToTransfer, SendItemsFails, Configure, ConfigLost, Restart, Tick,
          SyncNdConfig, SyncNdConfigFails, nvars
  <2>3. CASE UNCHANGED nvars
    BY <2>3 DEF nvars
  <2>4. ASSUME CreateNoData(MCRow) PROVE FALSE
    BY <2>4 DEF CreateNoData
  <2> QED
    BY <2>1, <2>2, <2>3, <2>4 DEF MCNext
<1>2. NdConfigMap' # << >>
  OBVIOUS
<1>3. PICK lost : NdConfigMap' = GetMockCfgFromDB(lost)
  BY <1>1, <1>2
<1> QED
  BY <1>3, HostPreferred

\* The specification as an invariant's proof takes it.
LEMMA SyntheticSpec == Spec => MCInit /\ [][MCNext]_<<nvars, tvars, avars, part, sample>>
BY PTL DEF Spec

\* src/nodata/config/service/mockcfg.go: after any synchronisation no series has a
\* group's rule while a valid row names its endpoint as a host, for any rules, groups
\* and failing queries.
THEOREM HostsRuleFirst == Spec => HostRuleWins
<1>1. MCInit => ConfigTyped
  BY DEF MCInit, NodataConfigInit, ConfigTyped
<1> QED
  BY <1>1, ConfigStep, RulesStep, SyntheticSpec, PTL DEF HostRuleWins

-----------------------------------------------------------------------------
(* The mocks of nodata                                                           *)

\* A time at which a period of a series begins.
Aligned(x) == \E q \in Int : x = q * Step

\* A step is a number of units.
LEMMA StepIs == Step \in Nat /\ Step > 0
BY UnitsAreThirds

\* A time is less than a period after the beginning of its period.
LEMMA AlignedNow ==
    ASSUME NEW x \in Int
    PROVE  /\ x % Step \in Int /\ x - (x % Step) \in Int
           /\ x - (x % Step) <= x /\ x - (x % Step) > x - Step /\ Aligned(x - (x % Step))
           /\ Aligned(x - (x % Step) - 2 * Step)
<1>1. Step \in Int /\ Step > 0
  BY StepIs
<1>2. x % Step \in Int /\ 0 <= x % Step /\ x % Step < Step /\ x \div Step \in Int /\ x = Step * (x \div Step) + (x % Step)
  BY <1>1
<1>3. PICK q, r : q \in Int /\ r \in Int /\ q = x \div Step /\ r = x % Step /\ x = Step * q + r /\ 0 <= r /\ r < Step
  BY <1>2
<1>4. x - r = q * Step /\ x - r - 2 * Step = (q - 2) * Step
  BY ONLY <1>1, <1>3
<1>5. Aligned(x - r) /\ Aligned(x - r - 2 * Step)
  BY <1>3, <1>4 DEF Aligned
<1> QED
  BY <1>1, <1>3, <1>5

\* Two periods begin a period apart.
LEMMA AlignedApart ==
    ASSUME NEW a, NEW b, Aligned(a), Aligned(b), a < b
    PROVE  a + Step <= b
<1>1. Step \in Int /\ Step > 0
  BY StepIs
<1>2. PICK p, q : p \in Int /\ q \in Int /\ a = p * Step /\ b = q * Step
  BY DEF Aligned
<1>3. p < q
  <2>1. SUFFICES ASSUME q <= p PROVE FALSE
    BY <1>2
  <2>2. q * Step <= p * Step
    BY ONLY <1>1, <1>2, <2>1
  <2> QED
    BY <1>1, <1>2, <2>2
<1>4. PICK d : d \in Nat /\ q = p + 1 + d
  <2>1. q - p - 1 \in Nat /\ q = p + 1 + (q - p - 1)
    BY ONLY <1>2, <1>3
  <2> QED
    BY <2>1
<1>5. q * Step = p * Step + Step + d * Step /\ d * Step >= 0
  BY ONLY <1>1, <1>2, <1>4
<1> QED
  BY ONLY <1>1, <1>2, <1>4, <1>5

\* Mocks are of the beginning of a period two periods ago.
MockTime(ts) == ts \in Int /\ Aligned(ts) /\ ts + 2 * Step <= now
Point == [ts : Int, value : {"none", "mock", "data"}, by : {"none", "source", "nodata"}]
Mocks ==
    /\ now \in Nat
    /\ reported \in [Series -> Nat] /\ newest \in [Series -> Point]
    /\ \A k \in Series : Aligned(reported[k]) /\ reported[k] <= newest[k].ts
    /\ \A k \in DOMAIN MockMap : MockTime(MockMap[k])
    /\ send = [at |-> send.at, mocks |-> send.mocks]
    /\ \A k \in DOMAIN send.mocks : MockTime(send.mocks[k])
    /\ \A k \in Series : newest[k].by = "nodata" => reported[k] < newest[k].ts /\ MockTime(newest[k].ts)

\* At the start nothing was reported or mocked.
LEMMA MocksInit == NodataInit => Mocks
<1> SUFFICES ASSUME NodataInit PROVE Mocks
  OBVIOUS
<1>1. Aligned(0)
  <2>1. 0 = 0 * Step
    BY StepIs
  <2> QED
    BY <2>1 DEF Aligned
<1>2. now \in Nat /\ reported \in [Series -> Nat] /\ newest \in [Series -> Point]
  BY StepIs DEF NodataInit, NoPoint, Point
<1>3. MockMap = << >> /\ send = [at |-> "idle", mocks |-> << >>] /\ DOMAIN << >> = {}
  BY DEF NodataInit, Idle
<1>4. \A k \in Series : reported[k] = 0 /\ newest[k] = [ts |-> 0, value |-> "none", by |-> "none"]
  BY DEF NodataInit, NoPoint
<1>5. DOMAIN MockMap = {} /\ DOMAIN send.mocks = {} /\ send = [at |-> send.at, mocks |-> send.mocks]
  BY <1>3
<1> QED
  BY <1>1, <1>2, <1>4, <1>5 DEF Mocks

\* Nothing of the mocks changes, or time goes on.
LEMMA MocksRest ==
    ASSUME Mocks, now' \in Nat, now' >= now, UNCHANGED <<reported, newest, MockMap, send>>
    PROVE  Mocks'
<1>1. \A ts : MockTime(ts) => MockTime(ts)'
  BY StepIs DEF MockTime, Mocks
<1> QED
  BY <1>1 DEF Mocks

\* A source's point is later than any mock.
LEMMA ReportStep ==
    ASSUME Mocks, NEW k \in Sources, NEW value \in {"mock", "data"}, Report(k, value)
    PROVE  Mocks'
<1>1. k \in Series
  BY UnitsAreThirds
<1>2. PICK ts : ts = now - (now % Step)
  OBVIOUS
<1>3. /\ ts > reported[k] /\ reported' = [reported EXCEPT ![k] = ts]
      /\ TakePoint(k, ts, value, "source")
      /\ UNCHANGED <<now, MockMap, send>>
  BY <1>2 DEF Report
<1>4. now \in Nat /\ reported[k] \in Nat /\ newest[k] \in Point /\ newest[k].ts \in Int
  BY <1>1 DEF Mocks, Point
<1>5. ts \in Int /\ ts <= now /\ ts > now - Step /\ Aligned(ts)
  <2>1. now \in Int
    BY <1>4
  <2> QED
    BY <2>1, <1>2, AlignedNow
<1>6. ts \in Nat
  BY <1>3, <1>4, <1>5
<1>7. PICK p : p = (IF ts > newest[k].ts THEN [ts |-> ts, value |-> value, by |-> "source"] ELSE newest[k])
  OBVIOUS
<1>8. newest' = [newest EXCEPT ![k] = p]
  BY <1>3, <1>7 DEF TakePoint
<1>9. p \in Point /\ p.ts >= ts /\ p.by # "nodata"
  <2>1. CASE ts > newest[k].ts
    <3>1. p = [ts |-> ts, value |-> value, by |-> "source"]
      BY <1>7, <2>1
    <3> QED
      BY <3>1, <1>5 DEF Point
  <2>2. CASE ~(ts > newest[k].ts)
    <3>1. p = newest[k]
      BY <1>7, <2>2
    <3>2. newest[k].by # "nodata"
      <4>1. SUFFICES ASSUME newest[k].by = "nodata" PROVE FALSE
        OBVIOUS
      <4>2. newest[k].ts + 2 * Step <= now
        BY <4>1, <1>1 DEF Mocks, MockTime
      <4>3. Step \in Int /\ Step > 0
        BY StepIs
      <4> QED
        BY ONLY <4>2, <4>3, <1>4, <1>5, <2>2
    <3> QED
      BY <3>1, <3>2, <1>4, <1>5, <2>2
  <2> QED
    BY <2>1, <2>2
<1>10. /\ reported' \in [Series -> Nat] /\ reported'[k] = ts
       /\ \A s \in Series : s # k => reported'[s] = reported[s]
  BY <1>1, <1>3, <1>6 DEF Mocks
<1>11. /\ newest' \in [Series -> Point] /\ newest'[k] = p
       /\ \A s \in Series : s # k => newest'[s] = newest[s]
  BY <1>1, <1>8, <1>9 DEF Mocks
<1>12. \A t : MockTime(t) <=> MockTime(t)'
  BY <1>3 DEF MockTime
<1> QED
  BY <1>3, <1>4, <1>5, <1>9, <1>10, <1>11, <1>12 DEF Mocks

\* A judgement makes mocks of two periods ago.
LEMMA JudgeStep == ASSUME Mocks, Judge PROVE Mocks'
<1>1. UNCHANGED <<now, reported, newest, send>>
  BY DEF Judge
<1>2. PICK turns : turns = TurnsNodata
  OBVIOUS
<1>3. MockMap' = [k \in DOMAIN MockMap \cup turns |-> IF k \in turns THEN GenTs ELSE MockMap[k]]
  BY <1>2 DEF Judge
<1>4. MockTime(GenTs)
  <2>1. now \in Int
    BY DEF Mocks
  <2>2. now % Step \in Int /\ now - (now % Step) <= now /\ Aligned(now - (now % Step) - 2 * Step)
    BY <2>1, AlignedNow
  <2>3. Step \in Int
    BY StepIs
  <2>4. GenTs \in Int /\ GenTs + 2 * Step <= now
    BY <2>1, <2>2, <2>3 DEF GenTs
  <2> QED
    BY <2>2, <2>4 DEF MockTime, GenTs
<1>6. \A k \in DOMAIN MockMap' : MockTime(MockMap'[k])
  <2>1. \A k \in DOMAIN MockMap' : MockMap'[k] = GenTs \/ (k \in DOMAIN MockMap /\ MockMap'[k] = MockMap[k])
    BY <1>3
  <2> QED
    BY <2>1, <1>4 DEF Mocks
<1> QED
  BY <1>1, <1>6 DEF Mocks, MockTime

\* Mocks are taken out of the map to be sent, or thrown away.
LEMMA SendStep ==
    ASSUME Mocks, SendMockOnce \/ SendMockPage \/ ClearMocks \/ SendItemsFails \/ Restart
    PROVE  Mocks'
<1>1. UNCHANGED <<now, reported, newest>>
  BY DEF SendMockOnce, SendMockPage, ClearMocks, SendItemsFails, Restart
<1>3. send = [at |-> send.at, mocks |-> send.mocks]
  BY DEF Mocks
<1>4. DOMAIN << >> = {}
  OBVIOUS
<1>5. MockMap' = MockMap \/ MockMap' = << >>
  BY DEF SendMockOnce, SendMockPage, ClearMocks, SendItemsFails, Restart
<1>6. send' = send \/ send' = Idle \/ SendMock \/ send' = [send EXCEPT !.at = "post"]
  BY DEF SendMockOnce, SendMockPage, ClearMocks, SendItemsFails, Restart
<1>7. /\ send' = [at |-> send'.at, mocks |-> send'.mocks]
      /\ send'.mocks = send.mocks \/ send'.mocks = << >> \/ send'.mocks = MockMap
  <2>1. CASE send' = send
    BY <2>1, <1>3
  <2>2. CASE send' = Idle
    BY <2>2 DEF Idle
  <2>3. CASE SendMock
    BY <2>3 DEF SendMock
  <2>4. CASE send' = [send EXCEPT !.at = "post"]
    <3>1. send' = [at |-> "post", mocks |-> send.mocks]
      BY <2>4, <1>3
    <3> QED
      BY <3>1
  <2> QED
    BY <1>6, <2>1, <2>2, <2>3, <2>4
<1>8. \A k \in DOMAIN MockMap' : MockTime(MockMap'[k])
  BY <1>4, <1>5 DEF Mocks
<1>9. \A k \in DOMAIN send'.mocks : MockTime(send'.mocks[k])
  BY <1>4, <1>7 DEF Mocks
<1> QED
  BY <1>1, <1>7, <1>8, <1>9 DEF Mocks, MockTime

\* Graph takes a mock that is newer than the point it has.
LEMMA PostStep == ASSUME Mocks, SendItemsToTransfer PROVE Mocks'
<1>1. UNCHANGED <<now, reported, MockMap>> /\ send' = Idle
  BY DEF SendItemsToTransfer
<1>3. send' = [at |-> send'.at, mocks |-> send'.mocks] /\ DOMAIN send'.mocks = {}
  <2>1. send' = [at |-> "idle", mocks |-> << >>] /\ DOMAIN << >> = {}
    BY <1>1 DEF Idle
  <2> QED
    BY <2>1
<1>4. /\ newest' \in [Series -> Point]
      /\ \A k \in Series : \/ newest'[k] = newest[k]
                           \/ /\ newest'[k].by = "nodata" /\ MockTime(newest'[k].ts)
                              /\ newest'[k].ts > newest[k].ts
  <2>1. newest' = [k \in Series |->
                    IF k \in DOMAIN send.mocks /\ send.mocks[k] > newest[k].ts
                    THEN [ts |-> send.mocks[k], value |-> "mock", by |-> "nodata"] ELSE newest[k]]
    BY DEF SendItemsToTransfer
  <2>2. ASSUME NEW k \in Series
        PROVE  /\ newest'[k] \in Point
               /\ \/ newest'[k] = newest[k]
                  \/ /\ newest'[k].by = "nodata" /\ MockTime(newest'[k].ts)
                     /\ newest'[k].ts > newest[k].ts
    <3>1. CASE k \in DOMAIN send.mocks /\ send.mocks[k] > newest[k].ts
      <4>1. newest'[k] = [ts |-> send.mocks[k], value |-> "mock", by |-> "nodata"]
        BY <2>1, <3>1
      <4>2. MockTime(send.mocks[k]) /\ send.mocks[k] \in Int
        BY <3>1 DEF Mocks, MockTime
      <4> QED
        BY <3>1, <4>1, <4>2 DEF Point
    <3>2. CASE ~(k \in DOMAIN send.mocks /\ send.mocks[k] > newest[k].ts)
      <4>1. newest'[k] = newest[k]
        BY <2>1, <3>2
      <4> QED
        BY <4>1 DEF Mocks
    <3> QED
      BY <3>1, <3>2
  <2> QED
    BY <2>1, <2>2
<1>5. ASSUME NEW k \in Series
      PROVE  /\ Aligned(reported'[k]) /\ reported'[k] <= newest'[k].ts
             /\ newest'[k].by = "nodata" => reported'[k] < newest'[k].ts /\ MockTime(newest'[k].ts)
  <2>1. CASE newest'[k] = newest[k]
    BY <1>1, <2>1 DEF Mocks
  <2>2. CASE newest'[k].by = "nodata" /\ MockTime(newest'[k].ts) /\ newest'[k].ts > newest[k].ts
    <3>1. reported[k] <= newest[k].ts /\ reported[k] \in Int /\ newest[k].ts \in Int /\ newest'[k].ts \in Int
      BY <2>2 DEF Mocks, Point, MockTime
    <3>2. reported[k] < newest'[k].ts
      BY <2>2, <3>1
    <3> QED
      BY <1>1, <2>2, <3>1, <3>2 DEF Mocks
  <2> QED
    BY <1>4, <2>1, <2>2
<1> QED
  BY <1>1, <1>3, <1>4, <1>5 DEF Mocks, MockTime

\* Every step keeps mocks two periods back.
LEMMA MocksStep == Mocks /\ [MCNext]_<<nvars, tvars, avars, part, sample>> => Mocks'
<1> SUFFICES ASSUME Mocks, [MCNext]_<<nvars, tvars, avars, part, sample>> PROVE Mocks'
  OBVIOUS
<1>0. now \in Nat
  BY DEF Mocks
<1>1. CASE UNCHANGED tvars
  BY <1>0, <1>1, MocksRest DEF tvars
<1>2. CASE NodataNext
  <2>1. ASSUME NEW k \in Sources, NEW value \in {"mock", "data"}, Report(k, value) PROVE Mocks'
    BY <2>1, ReportStep
  <2>2. ASSUME NEW c \in Collectors, CollectDataOnce(c) \/ FetchItemsAndStore(c) \/ QueryLastPointsFails(c)
        PROVE  Mocks'
    <3>1. UNCHANGED <<now, reported, newest, MockMap, send>>
      BY <2>2 DEF CollectDataOnce, FetchItemsAndStore, QueryLastPointsFails
    <3> QED
      BY <3>1, <1>0, MocksRest
  <2>3. CASE Configure \/ ConfigLost
    <3>1. UNCHANGED <<now, reported, newest, MockMap, send>>
      BY <2>3 DEF Configure, ConfigLost, tvars
    <3> QED
      BY <3>1, <1>0, MocksRest
  <2>4. CASE Tick
    <3>1. UNCHANGED <<reported, newest, MockMap, send>> /\ now' = now + 1
      BY <2>4 DEF Tick
    <3> QED
      BY <3>1, <1>0, MocksRest
  <2> QED
    BY <1>2, <2>1, <2>2, <2>3, <2>4, JudgeStep, SendStep, PostStep DEF NodataNext
<1> QED
  BY <1>1, <1>2 DEF MCNext

\* src/nodata/judge/judge_cron.go: graph's newest point of a series is a mock only when
\* its source has missed two whole periods, whatever was collected late, judged late,
\* sent twice or lost, for any step, series, rules and failures.
THEOREM MocksFillSilence == Spec => []MockFillsSilence
<1>1. MCInit => Mocks
  BY MocksInit DEF MCInit
<1>2. Mocks => MockFillsSilence
  <2> SUFFICES ASSUME Mocks, NEW k \in Series, newest[k].by = "nodata"
               PROVE  reported[k] < newest[k].ts /\ reported[k] + 3 * Step <= now
    BY DEF MockFillsSilence
  <2>1. /\ reported[k] \in Nat /\ newest[k].ts \in Int /\ now \in Nat
        /\ reported[k] < newest[k].ts /\ newest[k].ts + 2 * Step <= now
        /\ Aligned(reported[k]) /\ Aligned(newest[k].ts)
    BY DEF Mocks, MockTime, Point
  <2>2. reported[k] + Step <= newest[k].ts
    BY <2>1, AlignedApart
  <2>3. Step \in Int
    BY StepIs
  <2> QED
    BY ONLY <2>1, <2>2, <2>3
<1> QED
  BY <1>1, <1>2, MocksStep, SyntheticSpec, PTL

-----------------------------------------------------------------------------
(* The workers of the aggregator                                                 *)

\* Workers are numbered from one; one that is gone was told to quit.
WorkersTyped ==
    /\ aggs \in Nat /\ DOMAIN cluster \subseteq 1..aggs
    /\ IsFiniteSet(Started) /\ Started \subseteq 1..Cardinality(Started) /\ IsFiniteSet(DOMAIN Workers)
    /\ \A w \in Started :
        /\ work[w] = [item |-> work[w].item, at |-> work[w].at, tick |-> work[w].tick, quit |-> work[w].quit]
        /\ work[w].quit \in BOOLEAN /\ (work[w].at = "gone" => work[w].quit)

\* The table has each worker that was not told to quit, once.
WorkersListed ==
    /\ \A key \in DOMAIN Workers : Workers[key] \in Started /\ ~work[Workers[key]].quit
    /\ \A key, other \in DOMAIN Workers : Workers[key] = Workers[other] => key = other
    /\ \A w \in Started : work[w].quit \/ \E key \in DOMAIN Workers : Workers[key] = w

\* And a worker computes the row of its key.
WorkersCurrent ==
    \A key \in DOMAIN Workers :
        /\ key[1] \in 1..aggs /\ work[Workers[key]].item.id = key[1]
        /\ key[1] \in DOMAIN cluster /\ Key(key[1]) = key /\ ~unlucky => work[Workers[key]].item = Item(key[1])
Working == WorkersTyped /\ WorkersListed /\ WorkersCurrent

\* At the start no worker runs.
LEMMA WorkingInit == AggregatorInit => Working
<1> SUFFICES ASSUME AggregatorInit PROVE Working
  OBVIOUS
<1>1. DOMAIN cluster = {} /\ DOMAIN Workers = {} /\ DOMAIN work = {} /\ aggs = 0
  <2>1. DOMAIN << >> = {}
    OBVIOUS
  <2> QED
    BY <2>1 DEF AggregatorInit
<1> QED
  BY <1>1, FS_EmptySet DEF Working, WorkersTyped, WorkersListed, WorkersCurrent, Started

\* The api writes a row, or time goes on.
LEMMA RowStep ==
    ASSUME Working,
           \/ \E step \in {0, 60} : CreateAggregator(step) \/ \E id \in DOMAIN cluster : UpdateAggregator(id, step)
           \/ \E id \in DOMAIN cluster : DeleteAggregator(id)
           \/ PassSecond
    PROVE  Working'
<1>1. UNCHANGED <<Workers, work, Started>>
  BY DEF CreateAggregator, UpdateAggregator, DeleteAggregator, PassSecond, Started
<1>2. WorkersListed'
  BY <1>1 DEF Working, WorkersListed
<1>3. ASSUME NEW step, CreateAggregator(step) PROVE WorkersTyped' /\ WorkersCurrent'
  <2>1. /\ aggs' = aggs + 1 /\ unlucky' = unlucky
        /\ DOMAIN cluster' = DOMAIN cluster \cup {aggs'}
        /\ \A id \in DOMAIN cluster : id # aggs' => cluster'[id] = cluster[id]
    BY <1>3 DEF CreateAggregator
  <2>2. aggs \in Nat /\ \A i \in 1..aggs : i # aggs' /\ i \in 1..aggs'
    BY <2>1 DEF Working, WorkersTyped
  <2>3. WorkersTyped'
    BY <1>1, <2>1, <2>2 DEF Working, WorkersTyped
  <2>4. ASSUME NEW key \in DOMAIN Workers
        PROVE  /\ key[1] \in 1..aggs' /\ key[1] \in 1..aggs
               /\ key[1] \in DOMAIN cluster' => key[1] \in DOMAIN cluster /\ cluster'[key[1]] = cluster[key[1]]
    BY <2>1, <2>2 DEF Working, WorkersCurrent
  <2>5. WorkersCurrent'
    BY <1>1, <2>1, <2>4, ZenonT(40) DEF Working, WorkersCurrent, Key, Item
  <2> QED
    BY <2>3, <2>5
<1>4. ASSUME NEW step, NEW id \in DOMAIN cluster, UpdateAggregator(id, step) PROVE WorkersTyped' /\ WorkersCurrent'
  <2>1. /\ aggs' = aggs /\ DOMAIN cluster' = DOMAIN cluster
        /\ \A i \in DOMAIN cluster : i # id => cluster'[i] = cluster[i]
        /\ cluster'[id].last_update = second
        /\ unlucky' = (unlucky \/ <<id, second>> \in DOMAIN Workers)
    BY <1>4 DEF UpdateAggregator
  <2>2. WorkersTyped'
    BY <1>1, <2>1 DEF Working, WorkersTyped
  <2>3. ASSUME NEW key \in DOMAIN Workers, key[1] \in DOMAIN cluster, Key(key[1])' = key, ~unlucky'
        PROVE  work[Workers[key]].item = Item(key[1])'
    <3>1. CASE key[1] = id
      BY <2>1, <2>3, <3>1 DEF Key
    <3>2. CASE key[1] # id
      BY <2>1, <2>3, <3>2 DEF Key, Item, Working, WorkersCurrent
    <3> QED
      BY <3>1, <3>2
  <2>4. WorkersCurrent'
    BY <1>1, <2>1, <2>3 DEF Working, WorkersCurrent
  <2> QED
    BY <2>2, <2>4
<1>5. ASSUME NEW id, DeleteAggregator(id) PROVE WorkersTyped' /\ WorkersCurrent'
  <2>1. /\ UNCHANGED <<aggs, unlucky>> /\ cluster' = [i \in DOMAIN cluster \ {id} |-> cluster[i]]
    BY <1>5 DEF DeleteAggregator
  <2>2. WorkersTyped'
    BY <1>1, <2>1 DEF Working, WorkersTyped
  <2>3. WorkersCurrent'
    BY <1>1, <2>1 DEF Working, WorkersCurrent, Key, Item
  <2> QED
    BY <2>2, <2>3
<1>6. CASE PassSecond
  <2>1. UNCHANGED <<aggs, cluster, unlucky>>
    BY <1>6 DEF PassSecond
  <2> QED
    BY <1>1, <1>2, <2>1 DEF Working, WorkersTyped, WorkersCurrent, Key, Item
<1> QED
  BY <1>2, <1>3, <1>4, <1>5, <1>6 DEF Working

\* There are numbers for new workers.
LEMMA NumbersAre ==
    ASSUME NEW new, IsFiniteSet(new), NEW n \in Nat
    PROVE  /\ Cardinality(new) \in Nat
           /\ \E f \in [new -> n + 1 .. n + Cardinality(new)] : \A x, y \in new : x # y => f[x] # f[y]
<1>1. PICK c : c = Cardinality(new) /\ c \in Nat
  BY FS_CardinalityType
<1>2. n + 1 \in Int /\ n + c \in Int
  BY <1>1
<1>3. IsFiniteSet(n + 1 .. n + c) /\ Cardinality(n + 1 .. n + c) = IF n + 1 > n + c THEN 0 ELSE (n + c) - (n + 1) + 1
  BY <1>2, FS_Interval
<1>4. Cardinality(n + 1 .. n + c) = c
  BY <1>1, <1>3
<1>5. ExistsBijection(new, n + 1 .. n + c)
  BY <1>1, <1>3, <1>4, FS_SameCardinalityBij
<1>6. PICK f \in Bijection(new, n + 1 .. n + c) : TRUE
  BY <1>5 DEF ExistsBijection
<1>7. f \in [new -> n + 1 .. n + c] /\ \A x, y \in new : f[x] = f[y] => x = y
  BY <1>6 DEF Bijection, Injection, IsInjective
<1> QED
  BY <1>1, <1>7

\* As many numbers as workers.
LEMMA NumbersCount ==
    ASSUME NEW new, IsFiniteSet(new), NEW f, \A x, y \in new : x # y => f[x] # f[y],
           NEW range, range = {f[x] : x \in new}
    PROVE  IsFiniteSet(range) /\ Cardinality(range) = Cardinality(new)
<1>1. PICK g : g = [x \in new |-> f[x]]
  OBVIOUS
<1>2. g \in Bijection(new, range)
  <2>1. g \in [new -> range]
    BY <1>1
  <2>2. \A x, y \in new : g[x] = g[y] => x = y
    BY <1>1
  <2>3. \A y \in range : \E x \in new : g[x] = y
    BY <1>1
  <2> QED
    BY <2>1, <2>2, <2>3 DEF Bijection, Injection, Surjection, IsInjective
<1> QED
  BY <1>2, FS_Bijection DEF ExistsBijection

\* The workers whose rows are gone are told to quit and the new rows get workers.
LEMMA UpdateStep ==
    ASSUME Working, NEW ids, ids \subseteq DOMAIN cluster, UpdateItems(ReadClusterMonitorItems(ids)),
           UNCHANGED <<cluster, aggs, unlucky>>
    PROVE  Working'
<1>1. PICK m : m = ReadClusterMonitorItems(ids)
  OBVIOUS
<1>2. PICK new : new = ToCreate(m)
  OBVIOUS
<1>3. PICK n : n = Cardinality(Started) /\ n \in Nat
  BY FS_CardinalityType DEF Working, WorkersTyped
<1>4. /\ \A key \in DOMAIN m : key[1] \in DOMAIN cluster /\ m[key] = Item(key[1])
      /\ IsFiniteSet(DOMAIN m)
  <2>1. DOMAIN m = {Key(id) : id \in ids} /\ \A key \in DOMAIN m : m[key] = Item(key[1])
    BY <1>1 DEF ReadClusterMonitorItems
  <2>2. \A id \in ids : Key(id)[1] = id
    BY DEF Key
  <2>3. IsFiniteSet(ids)
    <3>1. DOMAIN cluster \subseteq Nat /\ \A id \in DOMAIN cluster : id <= aggs
      BY DEF Working, WorkersTyped
    <3>2. IsFiniteSet(DOMAIN cluster)
      BY <3>1, FS_BoundedSetOfNaturals DEF Working, WorkersTyped
    <3> QED
      BY <3>2, FS_Subset
  <2>4. IsFiniteSet(DOMAIN m)
    <3>1. PICK g : g = [id \in ids |-> Key(id)]
      OBVIOUS
    <3>2. g \in [ids -> DOMAIN m] /\ \A y \in DOMAIN m : \E x \in ids : g[x] = y
      BY <2>1, <3>1
    <3>3. g \in Surjection(ids, DOMAIN m)
      BY <3>2 DEF Surjection
    <3> QED
      BY <2>3, <3>3, FS_Surjection
  <2> QED
    BY <2>1, <2>2, <2>4
<1>5. new \subseteq DOMAIN m /\ (\A key \in new : key \notin DOMAIN Workers) /\ IsFiniteSet(new)
  <2>1. new \subseteq DOMAIN m /\ (\A key \in new : key \notin DOMAIN Workers)
    BY <1>2 DEF ToCreate
  <2> QED
    BY <2>1, <1>4, FS_Subset
<1>6. PICK c : c = Cardinality(new) /\ c \in Nat
  BY <1>5, FS_CardinalityType
<1> DEFINE the == CHOOSE f \in [new -> n + 1 .. n + c] : \A x, y \in new : x # y => f[x] # f[y]
<1>7. the \in [new -> n + 1 .. n + c] /\ \A x, y \in new : x # y => the[x] # the[y]
  <2>1. \E f \in [new -> n + 1 .. n + c] : \A x, y \in new : x # y => f[x] # f[y]
    BY <1>3, <1>5, <1>6, NumbersAre
  <2> QED
    BY ONLY <2>1
<1>8. PICK Number : Number = the
  OBVIOUS
<1>9. \A key \in new : Number[key] \in Nat /\ Number[key] > n /\ Number[key] <= n + c
  BY <1>3, <1>6, <1>7, <1>8
<1>10. \A x, y \in new : x # y => Number[x] # Number[y]
  BY <1>7, <1>8
<1> DEFINE kept == DOMAIN Workers \cap DOMAIN m
<1>11. Workers' = [key \in kept \cup new |-> IF key \in new THEN Number[key] ELSE Workers[key]]
  <2>1. Workers' = [key \in DOMAIN DeleteNoUseWorker(m) \cup new |-> IF key \in new THEN the[key] ELSE DeleteNoUseWorker(m)[key]]
    BY <1>1, <1>2, <1>3, <1>6 DEF UpdateItems
  <2>2. DOMAIN DeleteNoUseWorker(m) = kept /\ \A key \in kept : DeleteNoUseWorker(m)[key] = Workers[key]
    BY DEF DeleteNoUseWorker
  <2> QED
    BY <2>1, <2>2, <1>8
<1>12. PICK numbers : numbers = {Number[key] : key \in new}
  OBVIOUS
<1>13. work' = [w \in Started \cup numbers |->
                      IF w \notin Started
                      THEN NewWorker(m[CHOOSE key \in new : Number[key] = w])
                      ELSE [work[w] EXCEPT !.quit = @ \/ \E key \in DOMAIN Workers \ DOMAIN m : Workers[key] = w]]
  BY <1>1, <1>2, <1>3, <1>6, <1>8, <1>12 DEF UpdateItems
<1>14. \A w \in Started : w \in 1..n /\ w <= n
  BY <1>3 DEF Working, WorkersTyped
<1>15. \A key \in new : Number[key] \notin Started
  BY <1>3, <1>9, <1>14
<1>16. /\ Started' = Started \cup numbers
       /\ \A key \in new : work'[Number[key]] = [item |-> m[key], at |-> "wait", tick |-> FALSE, quit |-> FALSE]
  <2>1. Started' = Started \cup numbers
    BY <1>13 DEF Started
  <2>2. ASSUME NEW key \in new
        PROVE  work'[Number[key]] = [item |-> m[key], at |-> "wait", tick |-> FALSE, quit |-> FALSE]
    <3>1. (CHOOSE k \in new : Number[k] = Number[key]) = key
      BY <1>10
    <3>2. Number[key] \in numbers /\ Number[key] \notin Started
      BY <1>12, <1>15
    <3>3. work'[Number[key]] = NewWorker(m[CHOOSE k \in new : Number[k] = Number[key]])
      BY <1>13, <3>2
    <3> QED
      BY <3>1, <3>3 DEF NewWorker
  <2> QED
    BY <2>1, <2>2
<1>17. ASSUME NEW w \in Started
       PROVE  /\ w \in Started'
              /\ work'[w] = [item |-> work'[w].item, at |-> work'[w].at, tick |-> work'[w].tick, quit |-> work'[w].quit]
              /\ work'[w].item = work[w].item /\ work'[w].at = work[w].at
              /\ work'[w].quit \in BOOLEAN
              /\ work'[w].quit <=> (work[w].quit \/ \E key \in DOMAIN Workers \ DOMAIN m : Workers[key] = w)
  <2>1. PICK gone : gone = (\E key \in DOMAIN Workers \ DOMAIN m : Workers[key] = w)
    OBVIOUS
  <2>2. gone \in BOOLEAN
    BY <2>1
  <2>3. PICK r : r = work[w] /\ r = [item |-> r.item, at |-> r.at, tick |-> r.tick, quit |-> r.quit] /\ r.quit \in BOOLEAN
    BY DEF Working, WorkersTyped
  <2>4. work'[w] = [r EXCEPT !.quit = @ \/ gone]
    BY <1>13, <2>1, <2>3
  <2>5. work'[w] = [item |-> r.item, at |-> r.at, tick |-> r.tick, quit |-> (r.quit \/ gone)]
    BY ONLY <2>3, <2>4
  <2>6. /\ work'[w].item = r.item /\ work'[w].at = r.at /\ work'[w].tick = r.tick
        /\ work'[w].quit = (r.quit \/ gone)
    BY ONLY <2>5
  <2> QED
    BY <1>16, <2>1, <2>2, <2>3, <2>5, <2>6
<1>18. WorkersTyped'
  <2>1. IsFiniteSet(numbers) /\ Cardinality(numbers) = c
    BY <1>5, <1>6, <1>10, <1>12, NumbersCount
  <2>2. Started \cap numbers = {}
    BY <1>12, <1>15
  <2>3. IsFiniteSet(Started') /\ Cardinality(Started') = n + c
    <3>1. IsFiniteSet(Started)
      BY DEF Working, WorkersTyped
    <3>2. Cardinality(Started \cap numbers) = 0
      BY <2>2, FS_EmptySet
    <3>3. IsFiniteSet(Started \cup numbers) /\ Cardinality(Started \cup numbers) = n + c - 0
      BY <3>1, <3>2, <2>1, <1>3, FS_Union
    <3> QED
      BY <3>3, <1>3, <1>6, <1>16
  <2>4. Started' \subseteq 1..n + c
    <3>1. ASSUME NEW w \in Started' PROVE w \in 1..n + c
      <4>1. CASE w \in Started
        BY <4>1, <1>3, <1>6, <1>14
      <4>2. CASE w \in numbers
        BY <4>2, <1>3, <1>6, <1>9, <1>12
      <4> QED
        BY <3>1, <4>1, <4>2, <1>16
    <3> QED
      BY <3>1
  <2>5. IsFiniteSet(DOMAIN Workers')
    <3>1. IsFiniteSet(kept)
      BY <1>4, FS_Subset
    <3>2. IsFiniteSet(kept \cup new)
      BY <3>1, <1>5, FS_Union
    <3> QED
      BY <3>2, <1>11
  <2>6. ASSUME NEW w \in Started'
        PROVE  /\ work'[w] = [item |-> work'[w].item, at |-> work'[w].at, tick |-> work'[w].tick, quit |-> work'[w].quit]
               /\ work'[w].quit \in BOOLEAN /\ (work'[w].at = "gone" => work'[w].quit)
    <3>1. CASE w \in Started
      <4>1. work[w].at = "gone" => work[w].quit
        BY <3>1 DEF Working, WorkersTyped
      <4> QED
        BY <3>1, <4>1, <1>17
    <3>2. CASE w \in numbers
      <4>1. PICK key \in new : w = Number[key]
        BY <3>2, <1>12
      <4>2. work'[w] = [item |-> m[key], at |-> "wait", tick |-> FALSE, quit |-> FALSE]
        BY <4>1, <1>16
      <4> QED
        BY <4>2
    <3> QED
      BY <2>6, <3>1, <3>2, <1>16
  <2> QED
    BY <2>3, <2>4, <2>5, <2>6 DEF Working, WorkersTyped
<1>19. \A key \in DOMAIN Workers' :
          \/ key \in new /\ Workers'[key] = Number[key]
          \/ key \in kept /\ key \notin new /\ Workers'[key] = Workers[key] /\ Workers[key] \in Started
  BY <1>5, <1>11 DEF Working, WorkersListed
<1>20. WorkersListed'
  <2>1. ASSUME NEW key \in DOMAIN Workers' PROVE Workers'[key] \in Started' /\ ~work'[Workers'[key]].quit
    <3>1. CASE key \in new /\ Workers'[key] = Number[key]
      <4>1. Number[key] \in Started' /\ work'[Number[key]] = [item |-> m[key], at |-> "wait", tick |-> FALSE, quit |-> FALSE]
        BY <3>1, <1>12, <1>16
      <4> QED
        BY <3>1, <4>1
    <3>2. CASE key \in kept /\ key \notin new /\ Workers'[key] = Workers[key] /\ Workers[key] \in Started
      <4>1. PICK w : w = Workers[key] /\ w \in Started
        BY <3>2
      <4>2. ~work[w].quit
        BY <3>2, <4>1 DEF Working, WorkersListed
      <4>3. ~\E k \in DOMAIN Workers \ DOMAIN m : Workers[k] = w
        BY <3>2, <4>1 DEF Working, WorkersListed
      <4> QED
        BY <3>2, <4>1, <4>2, <4>3, <1>17
    <3> QED
      BY <2>1, <3>1, <3>2, <1>19
  <2>2. ASSUME NEW key \in DOMAIN Workers', NEW other \in DOMAIN Workers', Workers'[key] = Workers'[other] PROVE key = other
    BY <2>2, <1>10, <1>15, <1>19 DEF Working, WorkersListed
  <2>3. ASSUME NEW w \in Started', ~work'[w].quit PROVE \E key \in DOMAIN Workers' : Workers'[key] = w
    <3>1. CASE w \in Started
      <4>1. ~work[w].quit /\ ~\E key \in DOMAIN Workers \ DOMAIN m : Workers[key] = w
        BY <2>3, <3>1, <1>17
      <4>2. PICK key \in DOMAIN Workers : Workers[key] = w
        BY <3>1, <4>1 DEF Working, WorkersListed
      <4>3. key \in kept /\ key \notin new
        BY <4>1, <4>2, <1>5
      <4> QED
        BY <4>2, <4>3, <1>11
    <3>2. CASE w \in numbers
      <4>1. PICK key \in new : w = Number[key]
        BY <3>2, <1>12
      <4> QED
        BY <4>1, <1>11
    <3> QED
      BY <2>3, <3>1, <3>2, <1>16
  <2>4. \A w \in Started' : work'[w].quit \/ \E key \in DOMAIN Workers' : Workers'[key] = w
    BY <2>3
  <2> QED
    BY <2>1, <2>2, <2>4 DEF WorkersListed
<1>21. WorkersCurrent'
  <2>1. ASSUME NEW key \in DOMAIN Workers'
        PROVE  /\ key[1] \in 1..aggs /\ work'[Workers'[key]].item.id = key[1]
               /\ key[1] \in DOMAIN cluster /\ Key(key[1]) = key /\ ~unlucky => work'[Workers'[key]].item = Item(key[1])
    <3>1. CASE key \in new /\ Workers'[key] = Number[key]
      <4>3. PICK i : i = m[key]
        OBVIOUS
      <4>4. work'[Number[key]] = [item |-> i, at |-> "wait", tick |-> FALSE, quit |-> FALSE]
        BY <3>1, <1>16, <4>3
      <4>5. work'[Number[key]].item = i
        BY ONLY <4>4
      <4>1. work'[Number[key]].item = Item(key[1]) /\ key[1] \in DOMAIN cluster
        BY <3>1, <1>4, <1>5, <4>3, <4>5
      <4>2. Item(key[1]).id = key[1] /\ key[1] \in 1..aggs
        BY <4>1 DEF Item, Working, WorkersTyped
      <4> QED
        BY <3>1, <4>1, <4>2
    <3>2. CASE key \in kept /\ key \notin new /\ Workers'[key] = Workers[key] /\ Workers[key] \in Started
      <4>1. PICK w : w = Workers[key] /\ w \in Started
        BY <3>2
      <4>2. work'[w].item = work[w].item
        BY <4>1, <1>17
      <4> QED
        BY <3>2, <4>1, <4>2 DEF Working, WorkersCurrent
    <3> QED
      BY <2>1, <3>1, <3>2, <1>19
  <2> QED
    BY <2>1 DEF WorkersCurrent, Key, Item
<1> QED
  BY <1>18, <1>20, <1>21 DEF Working

\* A goroutine keeps its row and whether it was told to quit.
LEMMA KeepsRow ==
    ASSUME NEW r, r = [item |-> r.item, at |-> r.at, tick |-> r.tick, quit |-> r.quit], NEW b, NEW at
    PROVE  /\ [r EXCEPT !.tick = b] = [item |-> r.item, at |-> r.at, tick |-> b, quit |-> r.quit]
           /\ [r EXCEPT !.at = at] = [item |-> r.item, at |-> at, tick |-> r.tick, quit |-> r.quit]
           /\ [r EXCEPT !.tick = b, !.at = at] = [item |-> r.item, at |-> at, tick |-> b, quit |-> r.quit]
<1>1. PICK i, a, t, q : i = r.item /\ a = r.at /\ t = r.tick /\ q = r.quit
  OBVIOUS
<1>2. r = [item |-> i, at |-> a, tick |-> t, quit |-> q]
  BY <1>1
<1>3. [r EXCEPT !.tick = b] = [item |-> i, at |-> a, tick |-> b, quit |-> q]
  BY ONLY <1>2
<1>4. [r EXCEPT !.at = at] = [item |-> i, at |-> at, tick |-> t, quit |-> q]
  BY ONLY <1>2
<1>5. [r EXCEPT !.tick = b, !.at = at] = [item |-> i, at |-> at, tick |-> b, quit |-> q]
  <2>1. PICK s : s = [r EXCEPT !.tick = b]
    OBVIOUS
  <2>2. s = [item |-> i, at |-> a, tick |-> b, quit |-> q]
    BY <1>3, <2>1
  <2>3. [s EXCEPT !.at = at] = [item |-> i, at |-> at, tick |-> b, quit |-> q]
    BY ONLY <2>2
  <2>4. [r EXCEPT !.tick = b, !.at = at] = [s EXCEPT !.at = at]
    BY ONLY <2>1, Zenon
  <2> QED
    BY <2>3, <2>4
<1> QED
  BY <1>1, <1>3, <1>4, <1>5

\* A goroutine goes on, and is gone only when it was told to quit.
LEMMA GoroutineStep ==
    ASSUME Working, NEW w \in Started, Ticks(w) \/ RunBegins(w) \/ RunEnds(w) \/ Quits(w)
    PROVE  Working'
<1>1. PICK r : r = work[w] /\ r = [item |-> r.item, at |-> r.at, tick |-> r.tick, quit |-> r.quit]
               /\ r.quit \in BOOLEAN /\ (r.at = "gone" => r.quit)
  BY DEF Working, WorkersTyped
<1>0. r = [item |-> r.item, at |-> r.at, tick |-> r.tick, quit |-> r.quit]
  BY <1>1
<1>2. UNCHANGED <<cluster, aggs, second, aggEdits, aggFaults, Workers, unlucky>>
  BY DEF Ticks, RunBegins, RunEnds, Quits, Goroutine
<1>3. \E to : /\ work' = [work EXCEPT ![w] = to] /\ to = [item |-> r.item, at |-> to.at, tick |-> to.tick, quit |-> r.quit]
              /\ to.at = "gone" => r.quit
  <2>1. CASE Ticks(w)
    <3>1. work' = [work EXCEPT ![w] = [r EXCEPT !.tick = TRUE]]
      BY <1>1, <2>1 DEF Ticks, Goroutine
    <3>2. [r EXCEPT !.tick = TRUE] = [item |-> r.item, at |-> r.at, tick |-> TRUE, quit |-> r.quit]
      BY ONLY <1>0, KeepsRow, ZenonT(40)
    <3> QED
      BY <1>1, <3>1, <3>2
  <2>2. CASE RunBegins(w)
    <3>1. work' = [work EXCEPT ![w] = [r EXCEPT !.tick = FALSE, !.at = "run"]]
      BY <1>1, <2>2 DEF RunBegins, Goroutine
    <3>2. [r EXCEPT !.tick = FALSE, !.at = "run"] = [item |-> r.item, at |-> "run", tick |-> FALSE, quit |-> r.quit]
      BY ONLY <1>0, KeepsRow, ZenonT(40)
    <3> QED
      BY <3>1, <3>2
  <2>3. CASE RunEnds(w)
    <3>1. work' = [work EXCEPT ![w] = [r EXCEPT !.at = "wait"]]
      BY <1>1, <2>3 DEF RunEnds, Goroutine
    <3>2. [r EXCEPT !.at = "wait"] = [item |-> r.item, at |-> "wait", tick |-> r.tick, quit |-> r.quit]
      BY ONLY <1>0, KeepsRow, ZenonT(40)
    <3> QED
      BY <3>1, <3>2
  <2>4. CASE Quits(w)
    <3>1. work' = [work EXCEPT ![w] = [r EXCEPT !.tick = FALSE, !.at = "gone"]] /\ r.quit
      BY <1>1, <2>4 DEF Quits, Goroutine
    <3>2. [r EXCEPT !.tick = FALSE, !.at = "gone"] = [item |-> r.item, at |-> "gone", tick |-> FALSE, quit |-> r.quit]
      BY ONLY <1>0, KeepsRow, ZenonT(40)
    <3> QED
      BY <3>1, <3>2
  <2> QED
    BY <2>1, <2>2, <2>3, <2>4
<1>4. PICK to : /\ work' = [work EXCEPT ![w] = to] /\ to = [item |-> r.item, at |-> to.at, tick |-> to.tick, quit |-> r.quit]
                /\ to.at = "gone" => r.quit
  BY <1>3
<1>5. /\ Started' = Started /\ work'[w] = to
      /\ \A v \in Started : v # w => work'[v] = work[v]
  BY <1>4 DEF Started
<1>6. to.item = r.item /\ to.quit = r.quit
  BY ONLY <1>4
<1>7. \A v \in Started : work'[v].item = work[v].item /\ work'[v].quit = work[v].quit
  BY <1>1, <1>5, <1>6
<1>8. WorkersTyped'
  BY <1>1, <1>2, <1>4, <1>5, <1>6 DEF Working, WorkersTyped
<1>9. WorkersListed'
  BY <1>2, <1>5, <1>7 DEF Working, WorkersListed
<1>10. WorkersCurrent'
  BY <1>2, <1>7, ZenonT(40) DEF Working, WorkersListed, WorkersCurrent, Key, Item
<1> QED
  BY <1>8, <1>9, <1>10 DEF Working

\* Every step keeps the table and the workers together.
LEMMA WorkingStep == Working /\ [MCNext]_<<nvars, tvars, avars, part, sample>> => Working'
<1> SUFFICES ASSUME Working, [MCNext]_<<nvars, tvars, avars, part, sample>> PROVE Working'
  OBVIOUS
<1>1. CASE UNCHANGED avars
  BY <1>1 DEF avars, Working, WorkersTyped, WorkersListed, WorkersCurrent, Started, Key, Item
<1>2. CASE AggregatorNext
  <2>1. ASSUME NEW ids, ids \subseteq DOMAIN cluster, (ReadAll /\ ids = DOMAIN cluster) \/ ReadCut(ids) PROVE Working'
    <3>1. UpdateItems(ReadClusterMonitorItems(ids)) /\ UNCHANGED <<cluster, aggs, unlucky>>
      BY <2>1 DEF ReadAll, ReadCut
    <3> QED
      BY <2>1, <3>1, UpdateStep
  <2> QED
    BY <1>2, <2>1, RowStep, GoroutineStep DEF AggregatorNext
<1> QED
  BY <1>1, <1>2 DEF MCNext

\* src/aggregator/cron/worker.go, updater.go: every goroutine that was not told to quit
\* is in the table of workers, once and under the key of its row, and computes that row
\* as it is unless the row changed twice in a second, for any rows and readings.
THEOREM WorkersNeverLeak == Spec => []NoWorkerLeaks
<1>1. MCInit => Working
  BY WorkingInit DEF MCInit
<1>2. Working => NoWorkerLeaks
  <2> SUFFICES ASSUME Working PROVE NoWorkerLeaks
    OBVIOUS
  <2>1. PICK going : going = {w \in Started : work[w].at # "gone" /\ ~work[w].quit}
    OBVIOUS
  <2>2. \A w \in Started : work[w].at = "gone" => work[w].quit
    BY DEF Working, WorkersTyped
  <2>3. going = {Workers[key] : key \in DOMAIN Workers}
    BY <2>1, <2>2 DEF Working, WorkersListed
  <2>4. Cardinality(going) = Cardinality(DOMAIN Workers)
    <3>1. IsFiniteSet(DOMAIN Workers) /\ \A x, y \in DOMAIN Workers : x # y => Workers[x] # Workers[y]
      BY DEF Working, WorkersTyped, WorkersListed
    <3> QED
      BY <2>3, <3>1, NumbersCount
  <2> QED
    BY <2>1, <2>3, <2>4 DEF NoWorkerLeaks, Working, WorkersCurrent
<1> QED
  BY <1>1, <1>2, WorkingStep, SyntheticSpec, PTL

-----------------------------------------------------------------------------
(* The rule of a silent series                                                   *)

\* A minute begins: units are thirds of one.
Third(x) == \E q \in Int : x = 3 * q

\* Steps are whole minutes.
LEMMA StepIsThird == Step \in Int /\ Step >= 3 /\ Third(Step) /\ Delay \in {0, 1} /\ GetTimeout = 3 * Step
<1>1. Step \in Int /\ Step >= 3 /\ Step % 3 = 0 /\ Delay \in {0, 1}
  BY UnitsAreThirds
<1>2. Step \div 3 \in Int /\ Step = 3 * (Step \div 3) + (Step % 3)
  BY <1>1
<1>3. Third(Step)
  BY <1>1, <1>2 DEF Third
<1>4. GetTimeout = 3 * Step
  BY <1>1 DEF GetTimeout
<1> QED
  BY <1>1, <1>3, <1>4

\* So a period begins with a minute.
LEMMA AlignedIsThird == ASSUME NEW x, Aligned(x) PROVE Third(x)
<1>1. PICK q : q \in Int /\ x = q * Step
  BY DEF Aligned
<1>2. PICK b : b \in Int /\ Step = 3 * b
  BY StepIsThird DEF Third
<1>3. q * b \in Int /\ x = 3 * (q * b)
  BY ONLY <1>1, <1>2
<1> QED
  BY <1>3 DEF Third

\* Whole minutes are three units apart.
LEMMA ThirdsApart ==
    ASSUME NEW a, NEW b, Third(a), Third(b), a < b
    PROVE  a \in Int /\ b \in Int /\ a + 3 <= b
<1>1. PICK p, q : p \in Int /\ q \in Int /\ a = 3 * p /\ b = 3 * q
  BY DEF Third
<1> QED
  BY ONLY <1>1, a < b

\* Minutes are minutes apart.
LEMMA ThirdSums ==
    ASSUME NEW a, NEW b, Third(a), Third(b)
    PROVE  Third(a + b) /\ Third(a - b) /\ a \in Int /\ b \in Int
<1>1. PICK p, q : p \in Int /\ q \in Int /\ a = 3 * p /\ b = 3 * q
  BY DEF Third
<1>2. a + b = 3 * (p + q) /\ a - b = 3 * (p - q) /\ p + q \in Int /\ p - q \in Int
  BY ONLY <1>1
<1>3. (\E m \in Int : a + b = 3 * m) /\ (\E m \in Int : a - b = 3 * m)
  BY <1>2
<1>4. a \in Int /\ b \in Int
  BY <1>1
<1> QED
  BY <1>3, <1>4 DEF Third

\* When every minute up to now but one was judged, an answer older than a step is
\* followed by another: at n the last judgement with an answer, t, is of a minute that
\* is not a step and a minute before.
LEMMA JudgedSoon ==
    ASSUME NEW n \in Nat, NEW d \in Nat, NEW t \in Nat, NEW j \in Nat,
           j = 0 \/ (Third(j) /\ j <= n /\ n <= j + Delay),
           n >= d + 5 * Step,
           \A m \in Int : Third(m) /\ m <= n /\ (j > 0 => m < j) /\ m > d + 3 * Step => t + Step > m
    PROVE  \E x \in Int : Third(x) /\ t + Step > x /\ n <= x + 3 + Delay /\ x >= d + 5 * Step - 4
<1>1. Step \in Int /\ Step >= 3 /\ Delay \in {0, 1}
  BY StepIsThird
<1>2. \E x \in Int : Third(x) /\ x <= n /\ (j > 0 => x < j) /\ n <= x + 3 + Delay
  <2>1. CASE j = 0
    <3>1. PICK q, r : q \in Int /\ r \in Int /\ n = 3 * q + r /\ 0 <= r /\ r < 3
      <4>1. n \div 3 \in Int /\ n % 3 \in Int /\ n = 3 * (n \div 3) + (n % 3) /\ 0 <= n % 3 /\ n % 3 < 3
        OBVIOUS
      <4> QED
        BY <4>1
    <3>2. Third(3 * q) /\ 3 * q \in Int
      BY <3>1 DEF Third
    <3>3. 3 * q <= n /\ n <= 3 * q + 3 + Delay
      BY ONLY <3>1, <1>1
    <3> QED
      BY <2>1, <3>2, <3>3
  <2>2. CASE Third(j) /\ j <= n /\ n <= j + Delay
    <3>1. PICK q : q \in Int /\ j = 3 * q
      BY <2>2 DEF Third
    <3>2. j - 3 \in Int /\ j - 3 = 3 * (q - 1) /\ q - 1 \in Int
      BY <3>1
    <3>3. Third(j - 3)
      BY <3>2 DEF Third
    <3>4. j - 3 <= n /\ j - 3 < j /\ n <= (j - 3) + 3 + Delay
      BY <1>1, <2>2, <3>2
    <3> QED
      BY <3>2, <3>3, <3>4
  <2> QED
    BY <2>1, <2>2
<1>3. PICK x : x \in Int /\ Third(x) /\ x <= n /\ (j > 0 => x < j) /\ n <= x + 3 + Delay
  BY <1>2
<1>4. x >= d + 5 * Step - 4
  BY ONLY <1>1, <1>3, n \in Nat, d \in Nat, n >= d + 5 * Step
<1>5. x > d + 3 * Step
  BY ONLY <1>1, <1>3, <1>4, d \in Nat
<1>6. t + Step > x
  BY <1>3, <1>5
<1> QED
  BY <1>3, <1>4, <1>6

\* The mock of time t.
GenOf(t) == t - (t % Step) - 2 * Step

\* And then the mock of t is recent, and t is no answer to a point of d or before.
LEMMA MockIsRecent ==
    ASSUME NEW n \in Nat, NEW d \in Nat, NEW t \in Nat, NEW x \in Int,
           Third(x), t + Step > x, n <= x + 3 + Delay, x >= d + 5 * Step - 4, n >= d + 5 * Step
    PROVE  /\ t > d /\ GenOf(t) > d /\ GenOf(t) \in Int /\ n - GenOf(t) <= 4 * Step + Delay
           /\ t # 0 /\ ~\E e \in Int : Third(e) /\ e <= d /\ t <= e + 3 * Step
<1>1. Step \in Int /\ Step >= 3 /\ Delay \in {0, 1} /\ Third(Step)
  BY StepIsThird
<1>2. PICK b : b = t - (t % Step)
  OBVIOUS
<1>3. b \in Int /\ b <= t /\ b > t - Step /\ Third(b) /\ GenOf(t) = b - 2 * Step
  BY <1>2, AlignedNow, AlignedIsThird DEF GenOf
<1>4. t \in Int /\ t >= x - Step + 1
  BY <1>1
<1>5. t > d /\ b - 2 * Step > d /\ t # 0
  BY ONLY <1>1, <1>3, <1>4, d \in Nat, x \in Int, x >= d + 5 * Step - 4
<1>6. n - (b - 2 * Step) <= 4 * Step + Delay
  <2>1. PICK p, q, s : p \in Int /\ q \in Int /\ s \in Int /\ x = 3 * p /\ b = 3 * q /\ Step = 3 * s
    BY <1>1, <1>3 DEF Third
  <2>2. x - b <= 2 * Step - 2
    BY ONLY <1>1, <1>3, t \in Nat, x \in Int, t + Step > x
  <2>3. 3 * (p - q - 2 * s) <= -2
    BY ONLY <2>1, <2>2
  <2>4. p - q - 2 * s <= -1
    BY ONLY <2>1, <2>3
  <2>5. x - b <= 2 * Step - 3
    BY ONLY <2>1, <2>4
  <2> QED
    BY ONLY <2>5, <1>1, <1>3, n \in Nat, x \in Int, n <= x + 3 + Delay
<1>7. ASSUME NEW e \in Int, Third(e), e <= d, t <= e + 3 * Step PROVE FALSE
  <2>1. PICK p, q, s : p \in Int /\ q \in Int /\ s \in Int /\ x = 3 * p /\ e = 3 * q /\ Step = 3 * s
    BY <1>1, <1>7 DEF Third
  <2>2. x <= e + 4 * Step - 1
    BY ONLY <1>1, <1>7, t \in Nat, x \in Int, t + Step > x
  <2>3. 3 * (p - q - 4 * s) <= -1
    BY ONLY <2>1, <2>2
  <2>4. p - q - 4 * s <= -1
    BY ONLY <2>1, <2>3
  <2>5. x <= e + 4 * Step - 3
    BY ONLY <2>1, <2>4
  <2>6. x <= d + 4 * Step - 3
    BY ONLY <2>5, <1>1, <1>7, d \in Nat, x \in Int
  <2>7. Delay \in Int /\ Delay <= 1
    BY <1>1
  <2>8. n <= d + 4 * Step + 1
    BY ONLY <2>6, <2>7, <1>1, n \in Nat, d \in Nat, x \in Int, n <= x + 3 + Delay
  <2> QED
    BY ONLY <2>8, <1>1, n \in Nat, d \in Nat, n >= d + 5 * Step
<1>8. PICK g : g = GenOf(t)
  OBVIOUS
<1>9. g = b - 2 * Step /\ g \in Int
  <2>1. b - 2 * Step \in Int
    BY <1>1, <1>3
  <2> QED
    BY <1>3, <1>8, <2>1
<1>10. g > d /\ n - g <= 4 * Step + Delay
  BY <1>5, <1>6, <1>9
<1> QED
  BY <1>5, <1>7, <1>8, <1>9, <1>10

\* The unit in which a series was disturbed last.
Since(k) == now - calm[k]

\* An item is a mock or a point the source sent before.
Past(item, since) == item.value = "mock" \/ (Third(item.ts) /\ item.ts <= since)
Noted(k) ==
    /\ newest[k].by = "nodata" => newest[k].value = "mock"
    /\ newest[k].by # "nodata" => Third(newest[k].ts) /\ newest[k].ts <= Since(k)
    /\ Past(ItemMap[k], Since(k))
    /\ \A c \in Collectors : k \in DOMAIN pend[c] =>
          pend[c][k] \in Point /\ Past(pend[c][k], Since(k)) /\ newest[k].ts > 0
    /\ ItemMap[k].fts > 0 \/ k \in DOMAIN MockMap \/ k \in DOMAIN send.mocks => newest[k].ts > 0

\* The item of an undisturbed series was collected in this unit or the one before.
Collected(k) ==
    newest[k].ts > 0 =>
        /\ calm[k] > 0 => collectAt = now \/ k \in DOMAIN pend["cron"] \/ ItemMap[k].fts = now
        /\ calm[k] > 1 => ItemMap[k].fts >= now - 1

\* A mock is on its way.
Waits(k) == asked /\ k \in DOMAIN MockMap /\ MockMap[k] = GenOf(LastTs(k))
Leaves(k) == send.at # "idle" /\ k \in DOMAIN send.mocks /\ send.mocks[k] = GenOf(LastTs(k))

\* What was judged of an undisturbed series: after the timeout each judgement finds
\* it answered within a step, and the answer's mock is in graph or on its way.
MinuteJudged(m) == Third(m) /\ m <= now /\ (judgeAt > 0 => m < judgeAt)
Answered(k) ==
    /\ StatusMap[k].status = "none" => LastTs(k) = 0
    /\ StatusMap[k].status = "OK" => \E e \in Int : Third(e) /\ e <= Since(k) /\ LastTs(k) <= e + 3 * Step
    /\ newest[k].ts > 0 =>
          \A m \in Int : MinuteJudged(m) /\ m > Since(k) + 3 * Step => LastTs(k) + Step > m
    /\ StatusMap[k].status = "NODATA" /\ LastTs(k) > Since(k) =>
          Waits(k) \/ Leaves(k) \/ newest[k].ts >= GenOf(LastTs(k))
Shown(k) ==
    newest[k].ts > 0 /\ calm[k] >= 5 * Step =>
        newest[k].by = "nodata" /\ now - newest[k].ts <= 4 * Step + Delay

Collects == [ts : Int, value : {"none", "mock", "data"}, fts : Nat]
Status == [status : {"none", "OK", "NODATA"}, ts : Nat]
SilenceTyped ==
    /\ calm \in [Series -> Nat] /\ ItemMap \in [Series -> Collects] /\ StatusMap \in [Series -> Status]
    /\ DOMAIN pend = Collectors
    /\ \A k \in Series : calm[k] <= now /\ LastTs(k) <= now
    /\ judgeAt \in Nat /\ (judgeAt = 0 \/ (Third(judgeAt) /\ judgeAt <= now /\ now <= judgeAt + Delay))
    /\ \A k \in Series : calm[k] > 0 => k \in Keys /\ part # "rules"
Silence ==
    /\ Mocks /\ SilenceTyped
    /\ \A k \in Series : Noted(k) /\ Collected(k) /\ Answered(k) /\ Shown(k)

\* At the start no series has a point.
LEMMA SilenceInit == NodataInit => Silence
<1> SUFFICES ASSUME NodataInit PROVE Silence
  OBVIOUS
<1>1. Mocks
  BY MocksInit
<1>2. SilenceTyped
  <2>1. calm \in [Series -> Nat] /\ \A k \in Series : calm[k] = 0
    BY DEF NodataInit
  <2>2. ItemMap \in [Series -> Collects]
    BY DEF NodataInit, NoItem, Collects
  <2>3. StatusMap \in [Series -> Status] /\ \A k \in Series : LastTs(k) = 0
    BY DEF NodataInit, Status, LastTs
  <2>4. DOMAIN pend = Collectors /\ judgeAt = 0
    BY DEF NodataInit
  <2>5. now \in Nat
    BY <1>1 DEF Mocks
  <2>6. ASSUME NEW k \in Series PROVE calm[k] <= now /\ LastTs(k) <= now /\ ~(calm[k] > 0)
    BY <2>1, <2>3, <2>5
  <2>7. \A k \in Series : calm[k] > 0 => k \in Keys /\ part # "rules"
    BY <2>6
  <2>8. judgeAt \in Nat /\ (judgeAt = 0 \/ (Third(judgeAt) /\ judgeAt <= now /\ now <= judgeAt + Delay))
    <3>1. judgeAt = 0
      BY <2>4
    <3>2. judgeAt \in Nat
      BY ONLY <3>1
    <3> QED
      BY ONLY <3>1, <3>2, Zenon
  <2>9. \A k \in Series : calm[k] <= now /\ LastTs(k) <= now
    BY <2>6
  <2> QED
    BY <2>1, <2>2, <2>3, <2>4, <2>7, <2>8, <2>9 DEF SilenceTyped
<1>3. ASSUME NEW k \in Series PROVE Noted(k) /\ Collected(k) /\ Answered(k) /\ Shown(k)
  <2>1. newest[k] = [ts |-> 0, value |-> "none", by |-> "none"]
    BY DEF NodataInit, NoPoint
  <2>2. ItemMap[k] = [ts |-> 0, value |-> "none", fts |-> 0]
    BY DEF NodataInit, NoItem
  <2>3. StatusMap[k].status = "none" /\ LastTs(k) = 0 /\ calm[k] = 0
    BY DEF NodataInit, LastTs
  <2>4. DOMAIN MockMap = {} /\ DOMAIN send.mocks = {} /\ \A c \in Collectors : DOMAIN pend[c] = {}
    <3>1. DOMAIN << >> = {}
      OBVIOUS
    <3>2. send = [at |-> "idle", mocks |-> << >>] /\ MockMap = << >>
      BY DEF NodataInit, Idle
    <3> QED
      BY <3>1, <3>2 DEF NodataInit
  <2>5. Third(0) /\ 0 <= Since(k)
    <3>1. Third(0)
      BY DEF Third
    <3> QED
      BY <3>1, <2>3, StepIsThird DEF Since, NodataInit
  <2>6. newest[k].ts = 0 /\ newest[k].by = "none" /\ ItemMap[k].ts = 0 /\ ItemMap[k].fts = 0
    BY <2>1, <2>2
  <2>7. Noted(k)
    BY <2>4, <2>5, <2>6 DEF Noted, Past
  <2> QED
    BY <2>3, <2>6, <2>7 DEF Collected, Answered, Shown
<1> QED
  BY <1>1, <1>2, <1>3 DEF Silence

\* What a series has, as numbers.
LEMMA SilenceNumbers ==
    ASSUME Silence, NEW k \in Series
    PROVE  /\ now \in Nat /\ calm[k] \in Nat /\ calm[k] <= now /\ Since(k) \in Nat /\ Since(k) <= now
           /\ newest[k].ts \in Int /\ LastTs(k) \in Nat /\ LastTs(k) <= now
           /\ StatusMap[k].status \in {"none", "OK", "NODATA"} /\ judgeAt \in Nat
<1>1. now \in Nat /\ newest[k] \in Point
  BY DEF Silence, Mocks
<1>2. calm[k] \in Nat /\ calm[k] <= now /\ StatusMap[k] \in Status /\ LastTs(k) <= now /\ judgeAt \in Nat
  BY DEF Silence, SilenceTyped
<1> QED
  BY <1>1, <1>2 DEF Point, Status, Since, LastTs

\* Graph's newest point of a series and what is on its way to it, when nothing was judged.
LEMMA AnswersRest ==
    ASSUME Silence, NEW k \in Series, Mocks',
           UNCHANGED <<now, judgeAt, StatusMap[k]>>,
           calm'[k] = calm[k] \/ calm'[k] = 0,
           \/ newest'[k] = newest[k] \/ calm'[k] = 0
           \/ (newest'[k].by = "nodata" /\ newest'[k].ts > newest[k].ts /\ newest[k].ts > 0),
           calm'[k] # 0 /\ Waits(k) => Waits(k)' \/ Leaves(k)' \/ newest'[k].ts >= GenOf(LastTs(k)),
           calm'[k] # 0 /\ Leaves(k) => Leaves(k)' \/ newest'[k].ts >= GenOf(LastTs(k))
    PROVE  Answered(k)' /\ Shown(k)'
<1>1. /\ now \in Nat /\ calm[k] \in Nat /\ calm[k] <= now /\ Since(k) \in Nat /\ Since(k) <= now
      /\ newest[k].ts \in Int /\ LastTs(k) \in Nat /\ LastTs(k) <= now
  BY SilenceNumbers
<1>2. newest'[k].ts \in Int
  BY DEF Mocks, Point
<1>3. LastTs(k)' = LastTs(k) /\ StatusMap'[k].status = StatusMap[k].status
  BY DEF LastTs
<1>4. Since(k)' \in Nat /\ Since(k)' >= Since(k) /\ Since(k)' <= now
  BY <1>1 DEF Since
<1>5. Step \in Int /\ Step >= 3
  BY StepIsThird
<1>6. CASE calm'[k] = 0
  <2>1. Since(k)' = now
    BY <1>1, <1>6 DEF Since
  <2>2. StatusMap'[k].status = "OK" => \E e \in Int : Third(e) /\ e <= Since(k)' /\ LastTs(k)' <= e + 3 * Step
    BY <1>1, <1>3, <1>4 DEF Silence, Answered
  <2>3. StatusMap'[k].status = "none" => LastTs(k)' = 0
    BY <1>3 DEF Silence, Answered
  <2>4. ~(LastTs(k)' > Since(k)') /\ \A m \in Int : MinuteJudged(m)' => ~(m > Since(k)' + 3 * Step)
    BY <1>1, <1>3, <1>5, <2>1 DEF MinuteJudged
  <2>5. Shown(k)'
    BY <1>5, <1>6 DEF Shown
  <2> QED
    BY <2>2, <2>3, <2>4, <2>5 DEF Answered
<1>7. CASE calm'[k] # 0
  <2>1. calm'[k] = calm[k] /\ Since(k)' = Since(k)
    BY <1>7 DEF Since
  <2>2. \A m : MinuteJudged(m)' <=> MinuteJudged(m)
    BY DEF MinuteJudged
  <2>3. newest'[k].ts >= newest[k].ts /\ (newest'[k].ts > 0 => newest[k].ts > 0)
    BY <1>1, <1>2, <1>7
  <2>4. GenOf(LastTs(k)) \in Int
    <3>1. PICK t : t = LastTs(k) /\ t \in Int
      BY <1>1
    <3>2. t % Step \in Int
      BY <3>1, AlignedNow
    <3>3. t - (t % Step) - 2 * Step \in Int
      BY ONLY <3>1, <3>2, <1>5
    <3> QED
      BY <3>1, <3>3 DEF GenOf
  <2>5. newest[k].ts >= GenOf(LastTs(k)) => newest'[k].ts >= GenOf(LastTs(k))
    BY <1>1, <1>2, <2>3, <2>4
  <2>6. Answered(k)'
    BY <1>3, <1>7, <2>1, <2>2, <2>3, <2>5 DEF Silence, Answered
  <2>7. Shown(k)'
    <3>1. SUFFICES ASSUME newest'[k].ts > 0, calm'[k] >= 5 * Step
                   PROVE  newest'[k].by = "nodata" /\ now - newest'[k].ts <= 4 * Step + Delay
      BY DEF Shown
    <3>2. newest[k].by = "nodata" /\ now - newest[k].ts <= 4 * Step + Delay
      BY <2>1, <2>3, <3>1 DEF Silence, Shown
    <3>3. newest'[k].by = "nodata"
      BY <1>7, <3>2
    <3> QED
      BY <1>1, <1>2, <1>5, <2>3, <3>2, <3>3, StepIsThird
  <2> QED
    BY <2>6, <2>7
<1> QED
  BY <1>6, <1>7

\* A series was disturbed no earlier than it was.
LEMMA SinceGrows ==
    ASSUME Silence, NEW k \in Series,
           \/ now' = now /\ (calm'[k] = calm[k] \/ calm'[k] = 0)
           \/ now' = now + 1 /\ (calm'[k] = calm[k] + 1 \/ calm'[k] = 0)
    PROVE  Since(k)' \in Nat /\ Since(k) \in Nat /\ Since(k)' >= Since(k) /\ Since(k)' <= now'
<1>1. now \in Nat /\ calm[k] \in Nat /\ calm[k] <= now
  BY SilenceNumbers
<1> QED
  BY <1>1 DEF Since

\* What was sent before is sent before.
LEMMA PastLater ==
    ASSUME NEW item, NEW s \in Int, NEW t \in Int, s <= t, Past(item, s)
    PROVE  Past(item, t)
<1>1. ASSUME Third(item.ts), item.ts <= s PROVE item.ts <= t
  BY <1>1 DEF Third
<1> QED
  BY <1>1 DEF Past

\* Points and items of a series stay, and what is on its way to them was.
LEMMA NotedRest ==
    ASSUME Silence, NEW k \in Series, Since(k)' \in Nat, Since(k) \in Nat, Since(k)' >= Since(k),
           UNCHANGED <<newest[k], ItemMap[k]>>,
           \A c \in Collectors : k \in DOMAIN pend'[c] => k \in DOMAIN pend[c] /\ pend'[c][k] = pend[c][k],
           k \in DOMAIN MockMap' \/ k \in DOMAIN send'.mocks => k \in DOMAIN MockMap \/ k \in DOMAIN send.mocks
    PROVE  Noted(k)'
<1>1. Noted(k)
  BY DEF Silence
<1>2. newest'[k].by # "nodata" => Third(newest'[k].ts) /\ newest'[k].ts <= Since(k)'
  <2>1. ASSUME Third(newest[k].ts), newest[k].ts <= Since(k) PROVE newest[k].ts <= Since(k)'
    BY <2>1 DEF Third
  <2> QED
    BY <1>1, <2>1 DEF Noted
<1>3. Past(ItemMap'[k], Since(k)')
  <2>1. Past(ItemMap[k], Since(k))
    BY <1>1 DEF Noted
  <2> QED
    BY <2>1, PastLater
<1>4. ASSUME NEW c \in Collectors, k \in DOMAIN pend'[c]
      PROVE  pend'[c][k] \in Point /\ Past(pend'[c][k], Since(k)') /\ newest'[k].ts > 0
  <2>1. pend[c][k] \in Point /\ Past(pend[c][k], Since(k)) /\ newest[k].ts > 0 /\ pend'[c][k] = pend[c][k]
    BY <1>1, <1>4 DEF Noted
  <2> QED
    BY <2>1, PastLater
<1>5. ItemMap'[k].fts > 0 \/ k \in DOMAIN MockMap' \/ k \in DOMAIN send'.mocks => newest'[k].ts > 0
  BY <1>1 DEF Noted
<1>6. newest'[k].by = "nodata" => newest'[k].value = "mock"
  BY <1>1 DEF Noted
<1> QED
  BY <1>2, <1>3, <1>4, <1>5, <1>6 DEF Noted

\* The item of a series stays, and its collection waits.
LEMMA CollectedRest ==
    ASSUME Silence, NEW k \in Series,
           UNCHANGED <<now, ItemMap[k], collectAt>>, calm'[k] = calm[k] \/ calm'[k] = 0,
           calm'[k] = 0 \/ (newest'[k].ts > 0 => newest[k].ts > 0),
           calm'[k] = 0 \/ pend'["cron"] = pend["cron"]
    PROVE  Collected(k)'
<1>1. Collected(k)
  BY DEF Silence
<1>2. CASE calm'[k] = 0
  BY <1>2 DEF Collected
<1>3. CASE calm'[k] # 0
  BY <1>1, <1>3 DEF Collected
<1> QED
  BY <1>2, <1>3

\* The rule of a silent series is kept up when nothing is judged and no time passes.
LEMMA SilenceRest ==
    ASSUME Silence, Mocks', UNCHANGED <<now, judgeAt, StatusMap, part>>,
           calm' \in [Series -> Nat], ItemMap' \in [Series -> Collects], DOMAIN pend' = Collectors,
           \A k \in Series : calm'[k] = calm[k] \/ calm'[k] = 0,
           \A k \in Series : k \in Keys => k \in Keys' \/ calm'[k] = 0,
           \A k \in Series : Noted(k)' /\ Collected(k)',
           \A k \in Series :
               \/ newest'[k] = newest[k] \/ calm'[k] = 0
               \/ (newest'[k].by = "nodata" /\ newest'[k].ts > newest[k].ts /\ newest[k].ts > 0),
           \A k \in Series :
               calm'[k] # 0 /\ Waits(k) => Waits(k)' \/ Leaves(k)' \/ newest'[k].ts >= GenOf(LastTs(k)),
           \A k \in Series : calm'[k] # 0 /\ Leaves(k) => Leaves(k)' \/ newest'[k].ts >= GenOf(LastTs(k))
    PROVE  Silence'
<1>1. ASSUME NEW k \in Series PROVE Answered(k)' /\ Shown(k)'
  BY <1>1, AnswersRest
<1>2. SilenceTyped
  BY DEF Silence
<1>3. ASSUME NEW k \in Series
      PROVE  calm'[k] <= now' /\ LastTs(k)' <= now' /\ (calm'[k] > 0 => k \in Keys' /\ part' # "rules")
  <2>1. calm[k] <= now /\ LastTs(k) <= now /\ (calm[k] > 0 => k \in Keys /\ part # "rules") /\ now \in Nat /\ 0 <= now
    BY <1>2 DEF SilenceTyped, Silence, Mocks
  <2>2. LastTs(k)' = LastTs(k)
    BY DEF LastTs
  <2>3. CASE calm'[k] = 0
    BY <2>1, <2>2, <2>3
  <2>4. CASE calm'[k] # 0
    BY <2>1, <2>2, <2>4
  <2> QED
    BY <2>3, <2>4
<1>4. StatusMap' \in [Series -> Status]
      /\ judgeAt' \in Nat /\ (judgeAt' = 0 \/ (Third(judgeAt') /\ judgeAt' <= now' /\ now' <= judgeAt' + Delay))
  BY <1>2 DEF SilenceTyped
<1>5. SilenceTyped'
  BY <1>3, <1>4 DEF SilenceTyped
<1> QED
  BY <1>1, <1>5 DEF Silence

\* The types of what a step leaves alone.
LEMMA SilenceTypes ==
    ASSUME Silence
    PROVE  /\ now \in Nat /\ newest \in [Series -> Point] /\ calm \in [Series -> Nat]
           /\ ItemMap \in [Series -> Collects] /\ DOMAIN pend = Collectors
           /\ send = [at |-> send.at, mocks |-> send.mocks]
BY DEF Silence, Mocks, SilenceTyped

\* A source sends its point, and disturbs the silence.
LEMMA ReportSilence ==
    ASSUME Silence, NEW s \in Sources, NEW value \in {"mock", "data"}, Report(s, value), UNCHANGED part
    PROVE  Silence'
<1>1. Mocks' /\ s \in Series
  BY ReportStep, UnitsAreThirds DEF Silence
<1>2. PICK ts : ts = now - (now % Step)
  OBVIOUS
<1>3. /\ newest' = [newest EXCEPT ![s] = IF ts > @.ts THEN [ts |-> ts, value |-> value, by |-> "source"] ELSE @]
      /\ calm' = [calm EXCEPT ![s] = 0]
      /\ UNCHANGED <<now, ItemMap, pend, collectAt, judgeAt, StatusMap, MockMap, asked, send, NdConfigMap>>
  BY <1>2 DEF Report, TakePoint, Disturbed, nvars
<1>4. /\ now \in Nat /\ newest \in [Series -> Point] /\ calm \in [Series -> Nat]
      /\ ItemMap \in [Series -> Collects] /\ DOMAIN pend = Collectors
  BY SilenceTypes
<1>5. /\ calm' \in [Series -> Nat] /\ calm'[s] = 0
      /\ \A k \in Series : k # s => calm'[k] = calm[k] /\ newest'[k] = newest[k]
  BY <1>1, <1>3, <1>4
<1>6. newest'[s] = IF ts > newest[s].ts THEN [ts |-> ts, value |-> value, by |-> "source"] ELSE newest[s]
  BY <1>1, <1>3, <1>4
<1>7. ts \in Int /\ ts <= now /\ Third(ts)
  BY <1>2, <1>4, AlignedNow, AlignedIsThird
<1>8. ASSUME NEW k \in Series PROVE Noted(k)'
  <2>1. Since(k)' \in Nat /\ Since(k) \in Nat /\ Since(k)' >= Since(k)
    BY <1>3, <1>5, SinceGrows
  <2>2. CASE newest'[k] = newest[k]
    BY <1>3, <2>1, <2>2, NotedRest
  <2>3. CASE newest'[k] # newest[k]
    <3>1. k = s /\ ts > newest[s].ts /\ newest'[k] = [ts |-> ts, value |-> value, by |-> "source"]
      BY <1>5, <1>6, <2>3
    <3>2. newest'[k].ts = ts /\ newest'[k].by = "source"
      BY <3>1
    <3>3. Since(k)' = now
      BY <1>3, <1>4, <1>5, <3>1 DEF Since
    <3>4. newest[k].ts > 0 => newest'[k].ts > 0
      <4>1. newest[k].ts \in Int
        BY <1>4 DEF Point
      <4> QED
        BY <1>7, <3>1, <3>2, <4>1
    <3>5. Past(ItemMap'[k], Since(k)')
      BY <1>3, <2>1, PastLater DEF Silence, Noted
    <3>6. ASSUME NEW c \in Collectors, k \in DOMAIN pend'[c]
          PROVE  pend'[c][k] \in Point /\ Past(pend'[c][k], Since(k)') /\ newest'[k].ts > 0
      <4>1. pend[c][k] \in Point /\ Past(pend[c][k], Since(k)) /\ newest[k].ts > 0 /\ pend'[c][k] = pend[c][k]
        BY <1>3, <3>6 DEF Silence, Noted
      <4> QED
        BY <2>1, <3>4, <4>1, PastLater
    <3>7. ItemMap'[k].fts > 0 \/ k \in DOMAIN MockMap' \/ k \in DOMAIN send'.mocks => newest'[k].ts > 0
      BY <1>3, <3>4 DEF Silence, Noted
    <3>8. /\ newest'[k].by = "nodata" => newest'[k].value = "mock"
          /\ newest'[k].by # "nodata" => Third(newest'[k].ts) /\ newest'[k].ts <= Since(k)'
      BY <1>7, <3>2, <3>3
    <3> QED
      BY <3>5, <3>6, <3>7, <3>8 DEF Noted
  <2> QED
    BY <2>2, <2>3
<1>9. ASSUME NEW k \in Series PROVE Collected(k)'
  <2>1. k = s \/ newest'[k] = newest[k]
    BY <1>5
  <2>2. calm'[k] = calm[k] \/ calm'[k] = 0
    BY <1>5
  <2> QED
    BY <1>3, <1>5, <2>1, <2>2, CollectedRest
<1>10. ASSUME NEW k \in Series PROVE (Waits(k)' <=> Waits(k)) /\ (Leaves(k)' <=> Leaves(k))
  BY <1>3 DEF Waits, Leaves, LastTs
<1> QED
  BY <1>1, <1>3, <1>4, <1>5, <1>8, <1>9, <1>10, SilenceRest DEF Keys

\* The collector asks.
LEMMA CollectSilence ==
    ASSUME Silence, NEW c \in Collectors, CollectDataOnce(c), UNCHANGED part
    PROVE  Silence'
<1>1. /\ UNCHANGED <<now, reported, newest, ItemMap, judgeAt, StatusMap, MockMap, asked, send, calm, NdConfigMap>>
      /\ pend' = [pend EXCEPT ![c] = [k \in {k \in Keys : newest[k].ts > 0} |-> newest[k]]]
      /\ c = "cron" => collectAt = now
      /\ collectAt' = IF c = "cron" THEN 0 ELSE collectAt
  BY DEF CollectDataOnce
<1>2. Mocks'
  BY <1>1, SilenceTypes, MocksRest DEF Silence
<1>3. /\ now \in Nat /\ newest \in [Series -> Point] /\ calm \in [Series -> Nat]
      /\ ItemMap \in [Series -> Collects] /\ DOMAIN pend = Collectors
  BY SilenceTypes
<1>4. /\ DOMAIN pend' = Collectors /\ pend'[c] = [k \in {k \in Keys : newest[k].ts > 0} |-> newest[k]]
      /\ \A d \in Collectors : d # c => pend'[d] = pend[d]
  BY <1>1, <1>3
<1>5. ASSUME NEW k \in Series PROVE Noted(k)'
  <2>1. Noted(k) /\ Since(k)' = Since(k) /\ newest[k] \in Point
    BY <1>1, <1>3 DEF Silence, Since
  <2>2. ASSUME NEW d \in Collectors, k \in DOMAIN pend'[d]
        PROVE  pend'[d][k] \in Point /\ Past(pend'[d][k], Since(k)) /\ newest[k].ts > 0
    <3>1. CASE d # c
      BY <1>4, <2>1, <2>2, <3>1 DEF Noted
    <3>2. CASE d = c
      <4>1. pend'[c][k] = newest[k] /\ newest[k].ts > 0
        BY <1>4, <2>2, <3>2
      <4>2. Past(newest[k], Since(k))
        BY <2>1 DEF Noted, Past
      <4> QED
        BY <2>1, <3>2, <4>1, <4>2
    <3> QED
      BY <3>1, <3>2
  <2> QED
    BY <1>1, <2>1, <2>2 DEF Noted
<1>6. ASSUME NEW k \in Series PROVE Collected(k)'
  <2>1. Collected(k) /\ (calm[k] > 0 => k \in Keys)
    BY DEF Silence, SilenceTyped
  <2>2. CASE c # "cron"
    BY <1>1, <1>4, <2>1, <2>2 DEF Collected, Collectors
  <2>3. CASE c = "cron"
    <3>1. newest[k].ts > 0 /\ calm[k] > 0 => k \in DOMAIN pend'["cron"]
      BY <1>4, <2>1, <2>3
    <3> QED
      BY <1>1, <2>1, <3>1 DEF Collected
  <2> QED
    BY <2>2, <2>3
<1>7. ASSUME NEW k \in Series PROVE (Waits(k)' <=> Waits(k)) /\ (Leaves(k)' <=> Leaves(k))
  BY <1>1 DEF Waits, Leaves, LastTs
<1> QED
  BY <1>1, <1>2, <1>3, <1>4, <1>5, <1>6, <1>7, SilenceRest DEF Keys

\* And stores what it got, the time it came with it.
LEMMA StoreSilence ==
    ASSUME Silence, NEW c \in Collectors, FetchItemsAndStore(c), UNCHANGED part
    PROVE  Silence'
<1>1. /\ UNCHANGED <<now, reported, newest, collectAt, judgeAt, StatusMap, MockMap, asked, send, calm, NdConfigMap>>
      /\ ItemMap' = [k \in Series |->
                       IF k \in DOMAIN pend[c]
                       THEN [ts |-> pend[c][k].ts, value |-> pend[c][k].value, fts |-> now]
                       ELSE ItemMap[k]]
      /\ pend' = [pend EXCEPT ![c] = << >>]
  BY DEF FetchItemsAndStore, nvars
<1>2. Mocks'
  BY <1>1, SilenceTypes, MocksRest DEF Silence
<1>3. /\ now \in Nat /\ newest \in [Series -> Point] /\ calm \in [Series -> Nat]
      /\ ItemMap \in [Series -> Collects] /\ DOMAIN pend = Collectors
  BY SilenceTypes
<1>4. /\ DOMAIN pend' = Collectors /\ pend'[c] = << >> /\ DOMAIN << >> = {}
      /\ \A d \in Collectors : d # c => pend'[d] = pend[d]
  BY <1>1, <1>3
<1>5. ASSUME NEW k \in Series, k \in DOMAIN pend[c]
      PROVE  /\ pend[c][k] \in Point /\ Past(pend[c][k], Since(k)) /\ newest[k].ts > 0
             /\ ItemMap'[k] = [ts |-> pend[c][k].ts, value |-> pend[c][k].value, fts |-> now]
             /\ ItemMap'[k].ts = pend[c][k].ts /\ ItemMap'[k].value = pend[c][k].value /\ ItemMap'[k].fts = now
             /\ ItemMap'[k] \in Collects
  <2>1. pend[c][k] \in Point /\ Past(pend[c][k], Since(k)) /\ newest[k].ts > 0
    BY <1>5 DEF Silence, Noted
  <2>2. pend[c][k].ts \in Int /\ pend[c][k].value \in {"none", "mock", "data"}
    BY <2>1 DEF Point
  <2>3. ItemMap'[k] = [ts |-> pend[c][k].ts, value |-> pend[c][k].value, fts |-> now]
    BY <1>1, <1>5
  <2>4. ItemMap'[k] \in Collects
    BY <1>3, <2>2, <2>3 DEF Collects
  <2>5. PICK t, v : t = pend[c][k].ts /\ v = pend[c][k].value
    OBVIOUS
  <2>6. ItemMap'[k] = [ts |-> t, value |-> v, fts |-> now]
    BY <2>3, <2>5
  <2>7. ItemMap'[k].ts = t /\ ItemMap'[k].value = v /\ ItemMap'[k].fts = now
    BY ONLY <2>6
  <2> QED
    BY <2>1, <2>3, <2>4, <2>5, <2>7
<1>6. ASSUME NEW k \in Series, k \notin DOMAIN pend[c] PROVE ItemMap'[k] = ItemMap[k]
  BY <1>1, <1>6
<1>7. ItemMap' \in [Series -> Collects]
  <2>1. ASSUME NEW k \in Series PROVE ItemMap'[k] \in Collects
    BY <1>3, <1>5, <1>6
  <2>2. \E f : ItemMap' = [k \in Series |-> f[k]]
    <3>1. ItemMap' = [k \in Series |-> ItemMap'[k]]
      BY <1>1
    <3> QED
      BY <3>1
  <2> QED
    BY <2>1, <2>2
<1>8. ASSUME NEW k \in Series PROVE Noted(k)'
  <2>1. Noted(k) /\ Since(k)' = Since(k)
    BY <1>1 DEF Silence, Since
  <2>2. ASSUME NEW d \in Collectors, k \in DOMAIN pend'[d]
        PROVE  pend'[d][k] \in Point /\ Past(pend'[d][k], Since(k)) /\ newest[k].ts > 0
    BY <1>4, <2>1, <2>2 DEF Noted
  <2>3. Past(ItemMap'[k], Since(k)) /\ (ItemMap'[k].fts > 0 => newest[k].ts > 0)
    <3>1. CASE k \in DOMAIN pend[c]
      <4> QED
        BY <1>5, <3>1 DEF Past
    <3>2. CASE k \notin DOMAIN pend[c]
      BY <1>6, <2>1, <3>2 DEF Noted
    <3> QED
      BY <3>1, <3>2
  <2> QED
    BY <1>1, <2>1, <2>2, <2>3 DEF Noted
<1>9. ASSUME NEW k \in Series PROVE Collected(k)'
  <2>1. Collected(k) /\ now \in Nat
    BY <1>3 DEF Silence
  <2>2. CASE k \in DOMAIN pend[c]
    <3>1. ItemMap'[k].fts = now
      BY <1>5, <2>2
    <3>2. ItemMap'[k].fts >= now - 1
      BY <2>1, <3>1
    <3> QED
      BY <1>1, <3>1, <3>2 DEF Collected
  <2>3. CASE k \notin DOMAIN pend[c]
    <3>1. ItemMap'[k] = ItemMap[k]
      BY <1>6, <2>3
    <3>2. k \in DOMAIN pend["cron"] => k \in DOMAIN pend'["cron"]
      BY <1>4, <2>3 DEF Collectors
    <3> QED
      BY <1>1, <2>1, <3>1, <3>2 DEF Collected
  <2> QED
    BY <2>2, <2>3
<1>10. ASSUME NEW k \in Series PROVE (Waits(k)' <=> Waits(k)) /\ (Leaves(k)' <=> Leaves(k))
  BY <1>1 DEF Waits, Leaves, LastTs
<1> QED
  BY <1>1, <1>2, <1>3, <1>4, <1>7, <1>8, <1>9, <1>10, SilenceRest DEF Keys

\* What disturbs every series, and adds nothing, leaves nothing to keep up.
LEMMA DisturbedSilence ==
    ASSUME Silence, Mocks', AllDisturbed, UNCHANGED <<now, newest, ItemMap, collectAt, judgeAt, StatusMap, MockMap, part>>,
           DOMAIN pend' = Collectors, \A c \in Collectors : pend'[c] = pend[c] \/ pend'[c] = << >>,
           send' = send \/ send' = Idle
    PROVE  Silence'
<1>1. /\ now \in Nat /\ newest \in [Series -> Point] /\ calm \in [Series -> Nat]
      /\ ItemMap \in [Series -> Collects] /\ DOMAIN pend = Collectors
  BY SilenceTypes
<1>2. calm' \in [Series -> Nat] /\ \A k \in Series : calm'[k] = 0
  BY DEF AllDisturbed
<1>3. DOMAIN << >> = {}
  OBVIOUS
<1>4. send'.mocks = send.mocks \/ send'.mocks = << >>
  BY DEF Idle
<1>5. ASSUME NEW k \in Series PROVE Noted(k)'
  <2>1. Since(k)' \in Nat /\ Since(k) \in Nat /\ Since(k)' >= Since(k)
    BY <1>2, SinceGrows
  <2>2. \A c \in Collectors : k \in DOMAIN pend'[c] => k \in DOMAIN pend[c] /\ pend'[c][k] = pend[c][k]
    BY <1>3
  <2>3. k \in DOMAIN MockMap' \/ k \in DOMAIN send'.mocks => k \in DOMAIN MockMap \/ k \in DOMAIN send.mocks
    BY <1>3, <1>4
  <2> QED
    BY <2>1, <2>2, <2>3, NotedRest
<1>6. ASSUME NEW k \in Series PROVE Collected(k)'
  BY <1>2, CollectedRest
<1> QED
  BY <1>1, <1>2, <1>5, <1>6, SilenceRest

\* A collection fails.
LEMMA QuerySilence ==
    ASSUME Silence, NEW c \in Collectors, QueryLastPointsFails(c), UNCHANGED part
    PROVE  Silence'
<1>1. /\ UNCHANGED <<now, reported, newest, ItemMap, collectAt, judgeAt, StatusMap, MockMap, asked, send>>
      /\ pend' = [pend EXCEPT ![c] = << >>] /\ AllDisturbed
  BY DEF QueryLastPointsFails
<1>2. Mocks'
  BY <1>1, SilenceTypes, MocksRest DEF Silence
<1>3. DOMAIN pend' = Collectors /\ \A d \in Collectors : pend'[d] = pend[d] \/ pend'[d] = << >>
  BY <1>1, SilenceTypes
<1> QED
  BY <1>1, <1>2, <1>3, DisturbedSilence

\* A sending begins.
LEMMA TakeSilence ==
    ASSUME Silence, SendMockOnce \/ SendMockPage, UNCHANGED part
    PROVE  Silence'
<1>1. Mocks'
  BY SendStep DEF Silence
<1>2. UNCHANGED <<now, newest, ItemMap, pend, collectAt, judgeAt, StatusMap, MockMap, NdConfigMap>>
  BY DEF SendMockOnce, SendMockPage, nvars
<1>3. CASE send.at # "idle"
  BY <1>1, <1>2, <1>3, SilenceTypes, DisturbedSilence DEF SendMockOnce, SendMockPage
<1>4. CASE send.at = "idle"
  <2>1. calm' = calm /\ send' = [at |-> "clear", mocks |-> MockMap]
    BY <1>4 DEF SendMockOnce, SendMockPage, SendMock
  <2>2. send'.at = "clear" /\ send'.mocks = MockMap
    BY <2>1
  <2>3. ASSUME NEW k \in Series PROVE Noted(k)'
    <3>1. Since(k)' \in Nat /\ Since(k) \in Nat /\ Since(k)' >= Since(k)
      BY <1>2, <2>1, SinceGrows
    <3> QED
      BY <1>2, <2>2, <3>1, NotedRest
  <2>4. ASSUME NEW k \in Series PROVE Collected(k)'
    BY <1>2, <2>1, CollectedRest
  <2>5. ASSUME NEW k \in Series PROVE (Waits(k) => Leaves(k)') /\ ~Leaves(k)
    BY <1>2, <1>4, <2>2 DEF Waits, Leaves, LastTs
  <2> QED
    BY <1>1, <1>2, <2>1, <2>3, <2>4, <2>5, SilenceTypes, SilenceRest DEF Keys
<1> QED
  BY <1>3, <1>4

\* The map is cleared: a mock that is lost with it disturbs its series.
LEMMA ClearSilence == ASSUME Silence, ClearMocks, UNCHANGED part PROVE Silence'
<1>1. Mocks'
  BY SendStep DEF Silence
<1>2. /\ UNCHANGED <<now, newest, ItemMap, pend, collectAt, judgeAt, StatusMap, asked, NdConfigMap>>
      /\ send.at = "clear" /\ send' = [send EXCEPT !.at = "post"] /\ MockMap' = << >>
      /\ calm' = [k \in Series |->
                    IF k \in DOMAIN MockMap /\ (k \notin DOMAIN send.mocks \/ send.mocks[k] # MockMap[k])
                    THEN 0 ELSE calm[k]]
  BY DEF ClearMocks, nvars
<1>3. /\ now \in Nat /\ newest \in [Series -> Point] /\ calm \in [Series -> Nat]
      /\ ItemMap \in [Series -> Collects] /\ DOMAIN pend = Collectors
      /\ send = [at |-> send.at, mocks |-> send.mocks]
  BY SilenceTypes
<1>4. send' = [at |-> "post", mocks |-> send.mocks]
  BY <1>2, <1>3
<1>5. send'.at = "post" /\ send'.mocks = send.mocks /\ DOMAIN MockMap' = {}
  <2>1. DOMAIN << >> = {}
    OBVIOUS
  <2> QED
    BY <1>2, <1>4, <2>1
<1>6. calm' \in [Series -> Nat] /\ \A k \in Series : calm'[k] = calm[k] \/ calm'[k] = 0
  <2>1. 0 \in Nat
    OBVIOUS
  <2> QED
    BY <1>2, <1>3, <2>1
<1>7. ASSUME NEW k \in Series PROVE Noted(k)'
  <2>1. Since(k)' \in Nat /\ Since(k) \in Nat /\ Since(k)' >= Since(k)
    BY <1>2, <1>6, SinceGrows
  <2> QED
    BY <1>2, <1>5, <2>1, NotedRest
<1>8. ASSUME NEW k \in Series PROVE Collected(k)'
  BY <1>2, <1>6, CollectedRest
<1>9. ASSUME NEW k \in Series, calm'[k] # 0 PROVE (Waits(k) => Leaves(k)') /\ (Leaves(k) => Leaves(k)')
  <2>1. k \in DOMAIN MockMap => k \in DOMAIN send.mocks /\ send.mocks[k] = MockMap[k]
    BY <1>2, <1>9
  <2> QED
    BY <1>2, <1>5, <2>1 DEF Waits, Leaves, LastTs
<1> QED
  BY <1>1, <1>2, <1>3, <1>6, <1>7, <1>8, <1>9, SilenceRest DEF Keys

\* The mocks that leave reach graph.
LEMMA PostSilence == ASSUME Silence, SendItemsToTransfer, UNCHANGED part PROVE Silence'
<1>1. Mocks'
  BY PostStep DEF Silence
<1>2. /\ UNCHANGED <<now, ItemMap, pend, collectAt, judgeAt, StatusMap, MockMap, asked, calm, NdConfigMap>>
      /\ send.at = "post" /\ send' = Idle
      /\ newest' = [k \in Series |->
                      IF k \in DOMAIN send.mocks /\ send.mocks[k] > newest[k].ts
                      THEN [ts |-> send.mocks[k], value |-> "mock", by |-> "nodata"] ELSE newest[k]]
  BY DEF SendItemsToTransfer, nvars
<1>3. /\ now \in Nat /\ newest \in [Series -> Point] /\ calm \in [Series -> Nat]
      /\ ItemMap \in [Series -> Collects] /\ DOMAIN pend = Collectors
  BY SilenceTypes
<1>4. DOMAIN send'.mocks = {}
  <2>1. send' = [at |-> "idle", mocks |-> << >>] /\ DOMAIN << >> = {}
    BY <1>2 DEF Idle
  <2> QED
    BY <2>1
<1>5. ASSUME NEW k \in Series
      PROVE  /\ \/ newest'[k] = newest[k]
                \/ /\ newest'[k].by = "nodata" /\ newest'[k].value = "mock"
                   /\ newest'[k].ts > newest[k].ts /\ newest[k].ts > 0
             /\ newest[k].ts \in Int /\ newest'[k].ts \in Int
             /\ k \in DOMAIN send.mocks => newest'[k].ts >= send.mocks[k]
  <2>1. newest[k].ts \in Int /\ newest'[k].ts \in Int
    BY <1>1, <1>3 DEF Mocks, Point
  <2>2. k \in DOMAIN send.mocks => send.mocks[k] \in Int /\ newest[k].ts > 0
    BY DEF Silence, Mocks, MockTime, Noted
  <2>3. CASE k \in DOMAIN send.mocks /\ send.mocks[k] > newest[k].ts
    <3>1. PICK t : t = send.mocks[k]
      OBVIOUS
    <3>2. newest'[k] = [ts |-> t, value |-> "mock", by |-> "nodata"]
      BY <1>2, <2>3, <3>1
    <3>3. newest'[k].ts = t /\ newest'[k].value = "mock" /\ newest'[k].by = "nodata"
      BY ONLY <3>2
    <3> QED
      BY <2>1, <2>2, <2>3, <3>1, <3>3
  <2>4. CASE ~(k \in DOMAIN send.mocks /\ send.mocks[k] > newest[k].ts)
    <3>1. newest'[k] = newest[k]
      BY <1>2, <2>4
    <3> QED
      BY <2>1, <2>2, <2>4, <3>1
  <2> QED
    BY <2>3, <2>4
<1>6. ASSUME NEW k \in Series PROVE Noted(k)'
  <2>1. Since(k)' \in Nat /\ Since(k) \in Nat /\ Since(k)' >= Since(k) /\ Since(k)' = Since(k)
    BY <1>2, SinceGrows DEF Since
  <2>2. CASE newest'[k] = newest[k]
    <3>1. k \in DOMAIN MockMap' \/ k \in DOMAIN send'.mocks => k \in DOMAIN MockMap \/ k \in DOMAIN send.mocks
      BY <1>2, <1>4
    <3> QED
      BY <1>2, <2>1, <2>2, <3>1, NotedRest
  <2>3. CASE newest'[k] # newest[k]
    <3>1. newest'[k].by = "nodata" /\ newest'[k].value = "mock" /\ newest'[k].ts > 0
      BY <1>5, <2>3
    <3>2. Past(ItemMap'[k], Since(k)')
      BY <1>2, <2>1 DEF Silence, Noted
    <3>3. ASSUME NEW c \in Collectors, k \in DOMAIN pend'[c]
          PROVE  pend'[c][k] \in Point /\ Past(pend'[c][k], Since(k)')
      BY <1>2, <2>1, <3>3 DEF Silence, Noted
    <3> QED
      BY <3>1, <3>2, <3>3 DEF Noted
  <2> QED
    BY <2>2, <2>3
<1>7. ASSUME NEW k \in Series PROVE Collected(k)'
  <2>1. newest'[k].ts > 0 => newest[k].ts > 0
    BY <1>5
  <2> QED
    BY <1>2, <2>1, CollectedRest
<1>8. ASSUME NEW k \in Series
      PROVE  (Waits(k) => Waits(k)') /\ (Leaves(k) => newest'[k].ts >= GenOf(LastTs(k)))
  <2>1. Waits(k) => Waits(k)'
    BY <1>2 DEF Waits, LastTs
  <2>2. Leaves(k) => newest'[k].ts >= GenOf(LastTs(k))
    BY <1>5 DEF Leaves
  <2> QED
    BY <2>1, <2>2
<1>9. ASSUME NEW k \in Series
      PROVE  \/ newest'[k] = newest[k]
             \/ (newest'[k].by = "nodata" /\ newest'[k].ts > newest[k].ts /\ newest[k].ts > 0)
  BY <1>5
<1> QED
  BY <1>1, <1>2, <1>3, <1>6, <1>7, <1>8, <1>9, SilenceRest DEF Keys

\* Or none does.
LEMMA UnsentSilence == ASSUME Silence, SendItemsFails, UNCHANGED part PROVE Silence'
<1>1. Mocks'
  BY SendStep DEF Silence
<1>2. /\ UNCHANGED <<now, newest, ItemMap, pend, collectAt, judgeAt, StatusMap, MockMap>>
      /\ send' = Idle /\ AllDisturbed
  BY DEF SendItemsFails
<1> QED
  BY <1>1, <1>2, SilenceTypes, DisturbedSilence

\* Rules change.
LEMMA RulesSilence == ASSUME Silence, Configure \/ ConfigLost, UNCHANGED part PROVE Silence'
<1>1. UNCHANGED <<now, reported, newest, ItemMap, pend, collectAt, judgeAt, StatusMap, MockMap, asked, send>>
  BY DEF Configure, ConfigLost, tvars
<1>2. Mocks'
  BY <1>1, SilenceTypes, MocksRest DEF Silence
<1>3. AllDisturbed
  <2>1. CASE ConfigLost
    BY <2>1 DEF ConfigLost
  <2>2. CASE Configure
    <3>1. Keys = {} /\ calm' = calm
      BY <2>2 DEF Configure, Keys, tvars
    <3>2. \A k \in Series : calm[k] = 0
      BY <3>1 DEF Silence, SilenceTyped
    <3>3. calm = [k \in Series |-> calm[k]]
      BY SilenceTypes
    <3>4. calm = [k \in Series |-> 0]
      BY <3>2, <3>3
    <3> QED
      BY <3>1, <3>4 DEF AllDisturbed
  <2> QED
    BY <2>1, <2>2
<1> QED
  BY <1>1, <1>2, <1>3, SilenceTypes, DisturbedSilence

\* nodata starts again, with nothing in its maps.
LEMMA RestartSilence == ASSUME Silence, Restart, UNCHANGED part PROVE Silence'
<1>1. Mocks'
  BY SendStep DEF Silence
<1>2. /\ UNCHANGED <<now, newest, collectAt, judgeAt>>
      /\ ItemMap' = [k \in Series |-> NoItem] /\ pend' = [c \in Collectors |-> << >>]
      /\ StatusMap' = [k \in Series |-> [status |-> "none", ts |-> 0]]
      /\ MockMap' = << >> /\ send' = Idle /\ calm' = [k \in Series |-> 0]
  BY DEF Restart, AllDisturbed
<1>3. now \in Nat /\ SilenceTyped
  BY SilenceTypes DEF Silence
<1>4. DOMAIN MockMap' = {} /\ DOMAIN send'.mocks = {} /\ \A c \in Collectors : DOMAIN pend'[c] = {}
  <2>1. DOMAIN << >> = {} /\ Idle = [at |-> "idle", mocks |-> << >>]
    BY DEF Idle
  <2> QED
    BY <1>2, <2>1
<1>5. ASSUME NEW k \in Series
      PROVE  /\ calm'[k] = 0 /\ ItemMap'[k].ts = 0 /\ ItemMap'[k].fts = 0 /\ Since(k)' = now
             /\ StatusMap'[k].status = "none" /\ LastTs(k)' = 0
  BY <1>2, <1>3 DEF NoItem, LastTs, Since
<1>6. ASSUME NEW k \in Series PROVE Noted(k)' /\ Collected(k)'
  <2>1. Since(k)' \in Nat /\ Since(k) \in Nat /\ Since(k)' >= Since(k)
    BY <1>2, <1>5, SinceGrows
  <2>2. newest'[k].by # "nodata" => Third(newest'[k].ts) /\ newest'[k].ts <= Since(k)'
    <3>1. Noted(k) /\ newest'[k] = newest[k]
      BY <1>2 DEF Silence
    <3>2. ASSUME Third(newest[k].ts), newest[k].ts <= Since(k) PROVE newest[k].ts <= Since(k)'
      BY <2>1, <3>2 DEF Third
    <3> QED
      BY <3>1, <3>2 DEF Noted
  <2>3. newest'[k].by = "nodata" => newest'[k].value = "mock"
    BY <1>2 DEF Silence, Noted
  <2>4. Third(0)
    <3>1. 0 \in Int /\ 0 = 3 * 0
      OBVIOUS
    <3> QED
      BY <3>1 DEF Third
  <2>5. Past(ItemMap'[k], Since(k)')
    BY <1>5, <2>1, <2>4 DEF Past
  <2>6. Noted(k)'
    BY <1>4, <1>5, <2>2, <2>3, <2>5 DEF Noted
  <2> QED
    BY <1>5, <2>6 DEF Collected
<1>7. ASSUME NEW k \in Series PROVE Answered(k)' /\ Shown(k)'
  <2>1. Step \in Int /\ Step >= 3
    BY StepIsThird
  <2>2. ASSUME NEW m \in Int, MinuteJudged(m)' PROVE ~(m > Since(k)' + 3 * Step)
    BY <1>2, <1>3, <1>5, <2>1, <2>2 DEF MinuteJudged
  <2>3. Answered(k)'
    BY <1>5, <2>2 DEF Answered
  <2>4. Shown(k)'
    BY <1>5, <2>1 DEF Shown
  <2> QED
    BY <2>3, <2>4
<1>8. SilenceTyped'
  <2>1. ItemMap' \in [Series -> Collects] /\ StatusMap' \in [Series -> Status] /\ calm' \in [Series -> Nat] /\ DOMAIN pend' = Collectors
    BY <1>2 DEF NoItem, Collects, Status
  <2>2. ASSUME NEW k \in Series
        PROVE  calm'[k] <= now' /\ LastTs(k)' <= now' /\ ~(calm'[k] > 0)
    BY <1>2, <1>3, <1>5
  <2>3. judgeAt' \in Nat /\ (judgeAt' = 0 \/ (Third(judgeAt') /\ judgeAt' <= now' /\ now' <= judgeAt' + Delay))
    BY <1>2, <1>3 DEF SilenceTyped
  <2> QED
    BY <2>1, <2>2, <2>3 DEF SilenceTyped
<1> QED
  BY <1>1, <1>6, <1>7, <1>8 DEF Silence

\* A minute is judged: what was collected is answered, silence by a mock.
LEMMA JudgeSilence == ASSUME Silence, Judge, UNCHANGED part PROVE Silence'
<1>1. Mocks'
  BY JudgeStep DEF Silence
<1>2. PICK N, O : N = TurnsNodata /\ O = TurnsOk
  OBVIOUS
<1>3. /\ UNCHANGED <<now, newest, ItemMap, pend, collectAt, send, calm, NdConfigMap>>
      /\ judgeAt' = 0 /\ asked' = TRUE
      /\ StatusMap' = [k \in Series |->
                         CASE k \in N -> [status |-> "NODATA", ts |-> now]
                           [] k \in O -> [status |-> "OK", ts |-> now]
                           [] OTHER   -> StatusMap[k]]
      /\ MockMap' = [k \in DOMAIN MockMap \cup N |-> IF k \in N THEN GenTs ELSE MockMap[k]]
  BY <1>2 DEF Judge, nvars
<1>4. now \in Nat /\ SilenceTyped /\ Step \in Int /\ Step >= 3 /\ GetTimeout = 3 * Step
  BY SilenceTypes, StepIsThird DEF Silence
<1>5. \A k \in O : k \notin N
  BY <1>2 DEF TurnsNodata, TurnsOk
<1>6. ASSUME NEW k \in Series
      PROVE  /\ k \in N => StatusMap'[k] = [status |-> "NODATA", ts |-> now]
             /\ k \in O => StatusMap'[k] = [status |-> "OK", ts |-> now]
             /\ k \notin N \cup O => StatusMap'[k] = StatusMap[k]
  BY <1>3, <1>5
<1>7. ASSUME NEW k \in Series
      PROVE  /\ k \in N => StatusMap'[k].status = "NODATA" /\ LastTs(k)' = now
             /\ k \in O => StatusMap'[k].status = "OK" /\ LastTs(k)' = now
             /\ k \notin N \cup O => StatusMap'[k].status = StatusMap[k].status /\ LastTs(k)' = LastTs(k)
             /\ StatusMap'[k] \in Status
  <2>1. StatusMap[k] \in Status
    BY <1>4 DEF SilenceTyped
  <2>2. CASE k \in N
    BY <1>4, <1>5, <1>6, <2>2 DEF LastTs, Status
  <2>3. CASE k \in O
    BY <1>4, <1>5, <1>6, <2>3 DEF LastTs, Status
  <2>4. CASE k \notin N \cup O
    BY <1>6, <2>1, <2>4 DEF LastTs
  <2> QED
    BY <2>2, <2>3, <2>4
<1>8. SilenceTyped'
  <2>1. StatusMap' \in [Series -> Status]
    <3>1. \E f : StatusMap' = [k \in Series |-> f[k]]
      <4>1. StatusMap' = [k \in Series |-> StatusMap'[k]]
        BY <1>3
      <4> QED
        BY <4>1
    <3> QED
      BY <1>7, <3>1
  <2>2. ASSUME NEW k \in Series PROVE LastTs(k)' <= now'
    BY <1>3, <1>4, <1>7 DEF SilenceTyped
  <2>3. judgeAt' \in Nat /\ (judgeAt' = 0 \/ (Third(judgeAt') /\ judgeAt' <= now' /\ now' <= judgeAt' + Delay))
    <3>1. judgeAt' \in Nat
      BY <1>3
    <3> QED
      BY ONLY <3>1, <1>3, Zenon
  <2> QED
    BY <1>3, <1>4, <2>1, <2>2, <2>3 DEF SilenceTyped, Keys
<1>9. ASSUME NEW k \in Series PROVE Noted(k)' /\ Collected(k)' /\ Shown(k)'
  <2>1. Noted(k) /\ Shown(k) /\ Since(k)' = Since(k)
    BY <1>3 DEF Silence, Since
  <2>2. k \in N => ItemMap[k].fts > 0
    BY <1>2 DEF TurnsNodata, Judged, Fetched
  <2>3. k \in DOMAIN MockMap' => k \in DOMAIN MockMap \/ k \in N
    BY <1>3
  <2>4. Noted(k)'
    BY <1>3, <2>1, <2>2, <2>3 DEF Noted
  <2>5. Shown(k)'
    BY <1>3, <2>1 DEF Shown
  <2> QED
    BY <1>3, <2>4, <2>5, CollectedRest
<1>10. ASSUME NEW k \in Series PROVE Answered(k)'
  <2>1. /\ Since(k) \in Nat /\ Since(k) <= now /\ calm[k] \in Nat /\ Since(k) = now - calm[k]
        /\ LastTs(k) \in Nat /\ LastTs(k) <= now /\ Since(k)' = Since(k)
    BY <1>3, SilenceNumbers DEF Since
  <2>2. Answered(k) /\ Noted(k) /\ Collected(k)
    BY DEF Silence
  <2>3. StatusMap'[k].status = "none" => LastTs(k)' = 0
    BY <1>7, <2>2 DEF Answered
  <2>4. StatusMap'[k].status = "OK" => \E e \in Int : Third(e) /\ e <= Since(k)' /\ LastTs(k)' <= e + 3 * Step
    <3>1. CASE k \in O
      <4>1. ItemMap[k].value # "mock" /\ ~(ItemMap[k].ts < now - GetTimeout)
        BY <1>2, <3>1 DEF TurnsOk, Silent
      <4>2. Third(ItemMap[k].ts) /\ ItemMap[k].ts <= Since(k)
        BY <2>2, <4>1 DEF Noted, Past
      <4>3. ItemMap[k].ts \in Int
        BY <4>2 DEF Third
      <4>4. now <= ItemMap[k].ts + 3 * Step
        BY <1>4, <4>1, <4>3
      <4> QED
        BY <1>7, <2>1, <3>1, <4>2, <4>3, <4>4
    <3>2. CASE k \in N
      BY <1>7, <3>2
    <3>3. CASE k \notin N \cup O
      BY <1>7, <2>1, <2>2, <3>3 DEF Answered
    <3> QED
      BY <3>1, <3>2, <3>3
  <2>5. ASSUME newest'[k].ts > 0, NEW m \in Int, MinuteJudged(m)', m > Since(k)' + 3 * Step
        PROVE  LastTs(k)' + Step > m
    <3>1. m <= now /\ newest[k].ts > 0
      BY <1>3, <2>5 DEF MinuteJudged
    <3>2. CASE k \in N \cup O
      BY <1>4, <1>7, <3>1, <3>2
    <3>3. CASE k \notin N \cup O
      <4>1. calm[k] > 1 /\ now > 3 * Step
        BY <1>4, <2>1, <2>5, <3>1
      <4>2. ItemMap[k].fts >= now - 1 /\ ItemMap[k].fts \in Nat /\ k \in Keys
        BY <1>4, <2>1, <2>2, <3>1, <4>1 DEF Collected, SilenceTyped, Collects
      <4>3. k \in Judged
        BY <1>4, <4>1, <4>2 DEF Judged, Fetched
      <4>4. Silent(k) /\ ~(LastTs(k) + Step <= now)
        BY <1>2, <3>3, <4>3 DEF TurnsNodata, TurnsOk
      <4> QED
        BY <1>4, <1>7, <2>1, <3>1, <3>3, <4>4
    <3> QED
      BY <3>2, <3>3
  <2>6. ASSUME StatusMap'[k].status = "NODATA", LastTs(k)' > Since(k)'
        PROVE  Waits(k)' \/ Leaves(k)' \/ newest'[k].ts >= GenOf(LastTs(k)')
    <3>1. CASE k \in N
      <4>1. k \in DOMAIN MockMap' /\ MockMap'[k] = GenTs
        BY <1>3, <3>1
      <4>2. GenTs = GenOf(now)
        BY DEF GenTs, GenOf
      <4> QED
        BY <1>3, <1>7, <3>1, <4>1, <4>2 DEF Waits
    <3>2. CASE k \in O
      BY <1>7, <2>6, <3>2
    <3>3. CASE k \notin N \cup O
      <4>1. Waits(k) \/ Leaves(k) \/ newest[k].ts >= GenOf(LastTs(k))
        BY <1>7, <2>1, <2>2, <2>6, <3>3 DEF Answered
      <4>2. Waits(k) => Waits(k)'
        <5>1. ASSUME k \in DOMAIN MockMap PROVE k \in DOMAIN MockMap' /\ MockMap'[k] = MockMap[k]
          BY <1>3, <3>3, <5>1
        <5> QED
          BY <1>3, <1>7, <3>3, <5>1 DEF Waits
      <4>3. Leaves(k) => Leaves(k)'
        BY <1>3, <1>7, <3>3 DEF Leaves
      <4> QED
        BY <1>3, <1>7, <3>3, <4>1, <4>2, <4>3
    <3> QED
      BY <3>1, <3>2, <3>3
  <2> QED
    BY <2>3, <2>4, <2>5, <2>6 DEF Answered
<1> QED
  BY <1>1, <1>8, <1>9, <1>10 DEF Silence

\* Thirds are what the clock takes for minutes.
LEMMA ThirdIsMinute == ASSUME NEW x, Third(x) PROVE x % 3 = 0
<1>1. PICK q : q \in Int /\ x = 3 * q
  BY DEF Third
<1>2. x \in Int /\ x % 3 \in Int /\ x \div 3 \in Int /\ 0 <= x % 3 /\ x % 3 < 3 /\ x = 3 * (x \div 3) + (x % 3)
  BY <1>1
<1>3. PICK a, r : a = x \div 3 /\ r = x % 3
  OBVIOUS
<1>4. a \in Int /\ r \in Int /\ 0 <= r /\ r < 3 /\ 3 * q = 3 * a + r
  BY <1>1, <1>2, <1>3
<1>5. 3 * (q - a) = r
  BY ONLY <1>1, <1>4
<1>6. r = 0
  BY ONLY <1>1, <1>4, <1>5
<1> QED
  BY <1>3, <1>6

\* The minutes judged before a unit begins are those judged once it has begun.
LEMMA MinutesTick ==
    ASSUME Silence, Tick, NEW m \in Int, MinuteJudged(m)'
    PROVE  MinuteJudged(m)
<1>1. /\ now \in Nat /\ judgeAt \in Nat /\ now' = now + 1 /\ (judgeAt > 0 => now < judgeAt + Delay)
      /\ judgeAt' = (IF now' % 3 = 0 THEN now' ELSE judgeAt)
      /\ judgeAt = 0 \/ (Third(judgeAt) /\ judgeAt <= now)
  BY SilenceTypes DEF Tick, Silence, SilenceTyped
<1>2. Third(m) /\ m <= now + 1 /\ (judgeAt' > 0 => m < judgeAt')
  BY <1>1 DEF MinuteJudged
<1>3. PICK q : q \in Int /\ m = 3 * q
  BY <1>2 DEF Third
<1>4. CASE now' % 3 = 0
  <2>1. m <= now
    BY <1>1, <1>2, <1>4
  <2>2. judgeAt = 0
    <3>1. SUFFICES ASSUME judgeAt # 0 PROVE FALSE
      OBVIOUS
    <3>2. Delay \in {0, 1}
      BY StepIsThird
    <3>3. judgeAt = now /\ Third(judgeAt)
      BY ONLY <1>1, <3>1, <3>2
    <3>4. PICK p : p \in Int /\ now = 3 * p
      BY <3>3 DEF Third
    <3>5. (now + 1) % 3 = 1
      BY ONLY <3>4
    <3> QED
      BY <1>1, <1>4, <3>5
  <2> QED
    BY <1>2, <2>1, <2>2 DEF MinuteJudged
<1>5. CASE now' % 3 # 0
  <2>1. m # now + 1
    <3>1. SUFFICES ASSUME m = now + 1 PROVE FALSE
      OBVIOUS
    <3>2. now' % 3 = 0
      BY <1>1, <1>2, <3>1, ThirdIsMinute
    <3> QED
      BY <1>1, <1>3, <1>5, <3>1, <3>2
  <2>2. m <= now
    BY ONLY <1>1, <1>2, <2>1, m \in Int
  <2> QED
    BY <1>1, <1>2, <1>5, <2>2 DEF MinuteJudged
<1> QED
  BY <1>4, <1>5

\* A unit of time passes once what was due is done.
LEMMA TickSilence == ASSUME Silence, Tick, part # "rules", UNCHANGED part PROVE Silence'
<1>1. /\ UNCHANGED <<reported, newest, ItemMap, pend, StatusMap, MockMap, asked, send, NdConfigMap>>
      /\ now' = now + 1 /\ collectAt = 0 /\ collectAt' = now' /\ ~asked /\ send.at = "idle"
      /\ \A c \in Collectors : pend[c] = << >>
      /\ judgeAt > 0 => now < judgeAt + Delay
      /\ judgeAt' = (IF now' % 3 = 0 THEN now' ELSE judgeAt)
      /\ calm' = [k \in Series |-> IF k \in Keys THEN calm[k] + 1 ELSE 0]
  BY DEF Tick, nvars
<1>2. /\ now \in Nat /\ newest \in [Series -> Point] /\ calm \in [Series -> Nat]
      /\ ItemMap \in [Series -> Collects] /\ DOMAIN pend = Collectors /\ SilenceTyped
      /\ Step \in Int /\ Step >= 3 /\ Delay \in {0, 1}
  BY SilenceTypes, StepIsThird DEF Silence
<1>3. Mocks'
  <2>1. now' \in Nat /\ now' >= now
    BY <1>1, <1>2
  <2> QED
    BY <1>1, <2>1, MocksRest DEF Silence
<1>4. calm' \in [Series -> Nat] /\ \A k \in Series : calm'[k] = (IF k \in Keys THEN calm[k] + 1 ELSE 0)
  BY <1>1, <1>2
<1>5. SilenceTyped'
  <2>1. judgeAt' \in Nat /\ (judgeAt' = 0 \/ (Third(judgeAt') /\ judgeAt' <= now' /\ now' <= judgeAt' + Delay))
    <3>1. CASE now' % 3 = 0
      <4>1. PICK q : q \in Int /\ now' = 3 * q
        <5>1. now' \div 3 \in Int /\ now' = 3 * (now' \div 3)
          BY <1>1, <1>2, <3>1
        <5> QED
          BY <5>1
      <4>2. Third(now')
        BY <4>1 DEF Third
      <4>3. now' \in Nat /\ now' <= now' /\ now' <= now' + Delay
        BY <1>1, <1>2
      <4> QED
        BY <1>1, <3>1, <4>2, <4>3
    <3>2. CASE now' % 3 # 0
      <4>1. judgeAt \in Nat /\ (judgeAt = 0 \/ (Third(judgeAt) /\ judgeAt <= now)) /\ judgeAt' = judgeAt
        BY <1>1, <1>2, <3>2 DEF SilenceTyped
      <4>2. judgeAt > 0 => now' <= judgeAt + Delay
        BY <1>1, <1>2, <4>1
      <4>3. judgeAt <= now => judgeAt <= now'
        BY <1>1, <1>2, <4>1
      <4> QED
        BY <4>1, <4>2, <4>3
    <3> QED
      BY <3>1, <3>2
  <2>2. ASSUME NEW k \in Series
        PROVE  calm'[k] <= now' /\ LastTs(k)' <= now' /\ (calm'[k] > 0 => k \in Keys')
    <3>1. calm[k] \in Nat /\ calm[k] <= now /\ LastTs(k) \in Nat /\ LastTs(k) <= now /\ LastTs(k)' = LastTs(k)
      BY <1>1, SilenceNumbers DEF LastTs
    <3> QED
      BY <1>1, <1>2, <1>4, <3>1 DEF Keys
  <2> QED
    BY <1>1, <1>2, <1>4, <2>1, <2>2 DEF SilenceTyped
<1>6. ASSUME NEW k \in Series PROVE Noted(k)'
  <2>1. Since(k)' \in Nat /\ Since(k) \in Nat /\ Since(k)' >= Since(k)
    BY <1>1, <1>4, SinceGrows
  <2> QED
    BY <1>1, <2>1, NotedRest
<1>7. ASSUME NEW k \in Series PROVE Collected(k)'
  <2>1. Collected(k) /\ calm[k] \in Nat /\ calm[k] <= now
    BY SilenceNumbers DEF Silence
  <2>2. ASSUME newest[k].ts > 0, calm'[k] > 1 PROVE ItemMap[k].fts >= now' - 1
    <3>1. calm[k] > 0 /\ now # 0
      BY <1>2, <1>4, <2>1, <2>2
    <3>2. k \notin DOMAIN pend["cron"]
      <4>1. DOMAIN << >> = {}
        OBVIOUS
      <4> QED
        BY <1>1, <4>1 DEF Collectors
    <3>3. ItemMap[k].fts = now
      BY <1>1, <2>1, <2>2, <3>1, <3>2 DEF Collected
    <3> QED
      BY <1>1, <1>2, <3>3
  <2> QED
    BY <1>1, <2>2 DEF Collected
<1>8. ASSUME NEW k \in Series PROVE Answered(k)'
  <2>1. /\ Since(k) \in Nat /\ Since(k) <= now /\ LastTs(k) \in Nat /\ LastTs(k) <= now /\ calm[k] \in Nat
        /\ LastTs(k)' = LastTs(k) /\ StatusMap'[k].status = StatusMap[k].status
    BY <1>1, SilenceNumbers DEF LastTs
  <2>2. Since(k)' \in Nat /\ Since(k)' >= Since(k)
    BY <1>1, <1>4, SinceGrows
  <2>3. Answered(k)
    BY DEF Silence
  <2>4. StatusMap'[k].status = "OK" => \E e \in Int : Third(e) /\ e <= Since(k)' /\ LastTs(k)' <= e + 3 * Step
    BY <2>1, <2>2, <2>3 DEF Answered
  <2>5. ASSUME newest'[k].ts > 0, NEW m \in Int, MinuteJudged(m)', m > Since(k)' + 3 * Step
        PROVE  LastTs(k)' + Step > m
    <3>1. MinuteJudged(m)
      BY <2>5, MinutesTick
    <3>2. m > Since(k) + 3 * Step
      BY <1>2, <2>1, <2>2, <2>5
    <3> QED
      BY <1>1, <2>1, <2>3, <2>5, <3>1, <3>2 DEF Answered
  <2>6. ASSUME StatusMap'[k].status = "NODATA", LastTs(k)' > Since(k)'
        PROVE  newest'[k].ts >= GenOf(LastTs(k)')
    <3>1. LastTs(k) > Since(k)
      BY <2>1, <2>2, <2>6
    <3>2. ~Waits(k) /\ ~Leaves(k)
      BY <1>1 DEF Waits, Leaves
    <3> QED
      BY <1>1, <2>1, <2>3, <2>6, <3>1, <3>2 DEF Answered
  <2> QED
    BY <2>1, <2>3, <2>4, <2>5, <2>6 DEF Answered
<1>9. ASSUME NEW k \in Series PROVE Shown(k)'
  <2>1. SUFFICES ASSUME newest[k].ts > 0, calm'[k] >= 5 * Step
                 PROVE  newest[k].by = "nodata" /\ now' - newest[k].ts <= 4 * Step + Delay
    BY <1>1 DEF Shown
  <2>2. PICK n, d, t, j : n = now' /\ d = Since(k)' /\ t = LastTs(k)' /\ j = judgeAt'
    OBVIOUS
  <2>3. n \in Nat /\ d \in Nat /\ n - d = calm'[k] /\ t \in Nat /\ newest[k].ts \in Int
    <3>1. LastTs(k)' = LastTs(k) /\ LastTs(k) \in Nat /\ newest[k].ts \in Int /\ calm[k] \in Nat /\ calm[k] <= now
      BY <1>1, SilenceNumbers DEF LastTs
    <3>2. Since(k)' \in Nat
      BY <1>1, <1>4, SinceGrows
    <3>3. calm'[k] \in Nat /\ Since(k)' = now' - calm'[k]
      BY <1>4 DEF Since
    <3> QED
      BY <1>1, <1>2, <2>2, <3>1, <3>2, <3>3
  <2>4. n >= d + 5 * Step
    BY ONLY <1>2, <2>1, <2>3
  <2>5. j \in Nat /\ (j = 0 \/ (Third(j) /\ j <= n /\ n <= j + Delay))
    BY <1>5, <2>2 DEF SilenceTyped
  <2>6. \A m \in Int : Third(m) /\ m <= n /\ (j > 0 => m < j) /\ m > d + 3 * Step => t + Step > m
    BY <1>1, <1>8, <2>1, <2>2 DEF Answered, MinuteJudged
  <2>7. PICK x \in Int : Third(x) /\ t + Step > x /\ n <= x + 3 + Delay /\ x >= d + 5 * Step - 4
    BY <2>3, <2>4, <2>5, <2>6, JudgedSoon
  <2>8. /\ t > d /\ GenOf(t) > d /\ GenOf(t) \in Int /\ n - GenOf(t) <= 4 * Step + Delay
        /\ t # 0 /\ ~\E e \in Int : Third(e) /\ e <= d /\ t <= e + 3 * Step
    BY <2>3, <2>4, <2>7, MockIsRecent
  <2>9. PICK g : g = GenOf(t)
    OBVIOUS
  <2>10. newest[k].ts >= g
    <3>1. StatusMap'[k].status # "none" /\ StatusMap'[k].status # "OK"
      BY <1>8, <2>2, <2>8 DEF Answered
    <3>2. StatusMap'[k].status \in {"none", "OK", "NODATA"}
      BY <1>5 DEF SilenceTyped, Status
    <3>3. StatusMap'[k].status = "NODATA"
      BY <3>1, <3>2
    <3>4. ~Waits(k)' /\ ~Leaves(k)'
      BY <1>1 DEF Waits, Leaves
    <3> QED
      BY <1>1, <1>8, <2>2, <2>8, <2>9, <3>3, <3>4 DEF Answered
  <2>11. newest[k].by = "nodata"
    <3>1. newest[k].by # "nodata" => newest[k].ts <= d
      BY <1>1, <1>6, <2>2 DEF Noted
    <3> QED
      BY <2>3, <2>8, <2>9, <2>10, <3>1
  <2> QED
    BY <1>2, <2>2, <2>3, <2>8, <2>9, <2>10, <2>11
<1> QED
  BY <1>3, <1>5, <1>6, <1>7, <1>8, <1>9 DEF Silence

\* Every step keeps it up.
LEMMA SilenceStep == Silence /\ [MCNext]_<<nvars, tvars, avars, part, sample>> => Silence'
<1> SUFFICES ASSUME Silence, [MCNext]_<<nvars, tvars, avars, part, sample>> PROVE Silence'
  OBVIOUS
<1>1. UNCHANGED part
  BY DEF MCNext
<1>2. CASE UNCHANGED tvars /\ (UNCHANGED NdConfigMap \/ part = "rules")
  <2>1. UNCHANGED <<now, reported, newest, ItemMap, pend, collectAt, judgeAt, StatusMap, MockMap, asked, send, calm>>
    BY <1>2 DEF tvars
  <2>2. Mocks'
    BY <2>1, SilenceTypes, MocksRest DEF Silence
  <2>3. ASSUME NEW k \in Series, calm'[k] > 0 PROVE k \in Keys' /\ part' # "rules"
    <3>1. k \in Keys /\ part # "rules"
      BY <2>1, <2>3 DEF Silence, SilenceTyped
    <3> QED
      BY <1>1, <1>2, <3>1 DEF Keys
  <2>4. ASSUME NEW k \in Series PROVE LastTs(k)' = LastTs(k) /\ Since(k)' = Since(k)
    BY <2>1 DEF LastTs, Since
  <2>5. SilenceTyped'
    BY <2>1, <2>3, <2>4 DEF Silence, SilenceTyped
  <2>6. ASSUME NEW k \in Series PROVE Noted(k)' /\ Collected(k)' /\ Answered(k)' /\ Shown(k)'
    <3>1. Noted(k) /\ Collected(k) /\ Answered(k) /\ Shown(k)
      BY DEF Silence
    <3>2. Noted(k)' /\ Collected(k)' /\ Shown(k)'
      BY <2>1, <2>4, <3>1 DEF Noted, Collected, Shown
    <3>3. (Waits(k)' <=> Waits(k)) /\ (Leaves(k)' <=> Leaves(k)) /\ \A m : MinuteJudged(m)' <=> MinuteJudged(m)
      BY <2>1, <2>4 DEF Waits, Leaves, MinuteJudged
    <3>4. Answered(k)'
      BY <2>1, <2>4, <3>1, <3>3 DEF Answered
    <3> QED
      BY <3>2, <3>4
  <2> QED
    BY <2>2, <2>5, <2>6 DEF Silence
<1>3. CASE part # "rules" /\ NodataNext
  BY <1>1, <1>3, ReportSilence, CollectSilence, StoreSilence, QuerySilence, JudgeSilence, TakeSilence, ClearSilence,
     PostSilence, UnsentSilence, RulesSilence, RestartSilence, TickSilence DEF NodataNext
<1>4. \/ UNCHANGED tvars /\ (UNCHANGED NdConfigMap \/ part = "rules")
      \/ part # "rules" /\ NodataNext
  <2>1. CASE MCNext
    <3>1. CASE part \in {"pages", "faults"} /\ CreateNoData(MCRow) /\ UNCHANGED <<tvars, avars>>
      BY <3>1 DEF CreateNoData
    <3>2. CASE part = "workers" /\ UNCHANGED <<nvars, tvars>>
      BY <3>2 DEF nvars
    <3> QED
      BY <2>1, <3>1, <3>2 DEF MCNext
  <2>2. CASE UNCHANGED <<nvars, tvars, avars, part, sample>>
    BY <2>2 DEF nvars
  <2> QED
    BY <2>1, <2>2
<1> QED
  BY <1>2, <1>3, <1>4

\* src/nodata/judge/judge_cron.go and src/nodata/sender/sender.go: when nothing has
\* disturbed a series for the timeout and two steps (no point of its source, no failure,
\* no restart, no mock cleared unsent), graph's newest point of it is a mock that is at
\* most four steps and the delay of a judgement old, for any step of whole minutes, any
\* series and rules, and any pages called meanwhile.
THEOREM SilentRulesShow == Spec => []SilenceShows
<1>1. MCInit => Silence
  BY SilenceInit DEF MCInit
<1>2. Silence => SilenceShows
  <2>1. GetTimeout + 2 * Step = 5 * Step
    BY StepIsThird
  <2> QED
    BY <2>1 DEF Silence, Shown, SilenceShows
<1> QED
  BY <1>1, <1>2, SilenceStep, SyntheticSpec, PTL

-----------------------------------------------------------------------------
(* Sums over sets                                                                *)

\* A finite set can be folded: step[<<x, a>>] is what an element makes of a result.
Folded(g, base, step, S) ==
    \A s \in SUBSET S : g[s] = IF s = {} THEN base
                               ELSE step[<<CHOOSE x \in s : TRUE, g[s \ {CHOOSE x \in s : TRUE}]>>]

LEMMA FoldIs ==
    ASSUME NEW S, IsFiniteSet(S), NEW A, NEW base \in A, NEW step,
           \A x \in S, a \in A : step[<<x, a>>] \in A
    PROVE  \E g \in [SUBSET S -> A] : Folded(g, base, step, S)
<1> DEFINE Small(n) == {s \in SUBSET S : Cardinality(s) <= n}
           Next1(g, s) == IF s = {} THEN base ELSE step[<<CHOOSE x \in s : TRUE, g[s \ {CHOOSE x \in s : TRUE}]>>]
           N == {n \in Nat : \E g \in [SUBSET S -> A] : \A s \in Small(n) : g[s] = Next1(g, s)}
<1>1. \A s \in SUBSET S : IsFiniteSet(s) /\ Cardinality(s) \in Nat
  BY FS_Subset, FS_CardinalityType
<1>2. 0 \in N
  <2>1. PICK g : g = [s \in SUBSET S |-> base]
    OBVIOUS
  <2>2. \A s \in Small(0) : s = {}
    BY <1>1, FS_EmptySet
  <2>3. g \in [SUBSET S -> A] /\ \A s \in Small(0) : g[s] = Next1(g, s)
    BY <2>1, <2>2
  <2> QED
    BY <2>3
<1>3. ASSUME NEW n \in Nat, n \in N PROVE n + 1 \in N
  <2>1. PICK g \in [SUBSET S -> A] : \A s \in Small(n) : g[s] = Next1(g, s)
    BY <1>3
  <2>2. PICK f : f = [s \in SUBSET S |-> IF s \in Small(n) THEN g[s] ELSE Next1(g, s)]
    OBVIOUS
  <2>3. \A s \in SUBSET S : f[s] = Next1(g, s) /\ f[s] \in A
    <3>1. ASSUME NEW s \in SUBSET S PROVE f[s] = Next1(g, s)
      <4> HIDE DEF Next1, Small
      <4> QED
        BY <2>1, <2>2
    <3>2. ASSUME NEW s \in SUBSET S PROVE Next1(g, s) \in A
      <4>1. CASE s = {}
        BY <4>1
      <4>2. CASE s # {}
        <5>1. PICK x : x = CHOOSE y \in s : TRUE
          OBVIOUS
        <5>2. x \in S /\ g[s \ {x}] \in A
          BY <4>2, <5>1, <2>1
        <5> QED
          BY <4>2, <5>1, <5>2
      <4> QED
        BY <4>1, <4>2
    <3> HIDE DEF Next1
    <3> QED
      BY <3>1, <3>2
  <2>4. f \in [SUBSET S -> A]
    <3> HIDE DEF Next1, Small
    <3> QED
      BY <2>2, <2>3
  <2>5. ASSUME NEW s \in Small(n + 1) PROVE f[s] = Next1(f, s)
    <3>1. CASE s = {}
      BY <3>1, <2>3
    <3>2. CASE s # {}
      <4>1. PICK x : x = CHOOSE y \in s : TRUE
        OBVIOUS
      <4>2. x \in s
        BY <3>2, <4>1
      <4>3. s \ {x} \in Small(n)
        <5>1. Cardinality(s \ {x}) = Cardinality(s) - 1
          BY <1>1, <4>2, FS_RemoveElement
        <5> QED
          BY <1>1, <5>1
      <4>4. f[s \ {x}] = g[s \ {x}]
        <5>1. s \ {x} \in SUBSET S
          OBVIOUS
        <5> HIDE DEF Small, Next1
        <5> QED
          BY <5>1, <4>3, <2>2
      <4>5. f[s] = Next1(g, s)
        BY <2>3
      <4> QED
        BY <3>2, <4>1, <4>4, <4>5
    <3> QED
      BY <3>1, <3>2
  <2> HIDE DEF Next1, Small
  <2> QED
    BY <2>4, <2>5
<1> HIDE DEF N
<1>4. \A n \in Nat : n \in N
  BY <1>2, <1>3, EveryNumber
<1>5. Cardinality(S) \in N
  BY <1>1, <1>4
<1>6. PICK g \in [SUBSET S -> A] : \A s \in Small(Cardinality(S)) : g[s] = Next1(g, s)
  BY <1>5 DEF N
<1>7. \A s \in SUBSET S : s \in Small(Cardinality(S))
  BY FS_Subset
<1>8. Folded(g, base, step, S)
  BY <1>6, <1>7 DEF Folded
<1> QED
  BY <1>8

\* The sum of F over the subsets of S, one element after the other.
Sums(g, F, S) ==
    g = [s \in SUBSET S |-> IF s = {} THEN 0
                            ELSE F[CHOOSE x \in s : TRUE] + g[s \ {CHOOSE x \in s : TRUE}]]

\* There is such a sum.
LEMMA SumIs ==
    ASSUME NEW S, IsFiniteSet(S), NEW F, \A x \in S : F[x] \in Int
    PROVE  \E g \in [SUBSET S -> Int] : Sums(g, F, S)
<1>1. PICK step : step = [p \in S \X Int |-> F[p[1]] + p[2]]
  OBVIOUS
<1>2. \A x \in S, a \in Int : step[<<x, a>>] = F[x] + a /\ step[<<x, a>>] \in Int
  BY <1>1
<1>3. PICK g \in [SUBSET S -> Int] : Folded(g, 0, step, S)
  <2>1. PICK A : A = Int
    OBVIOUS
  <2>2. 0 \in A /\ \A x \in S, a \in A : step[<<x, a>>] \in A
    BY <1>2, <2>1
  <2>3. \E g \in [SUBSET S -> A] : Folded(g, 0, step, S)
    BY ONLY <2>2, IsFiniteSet(S), FoldIs
  <2> QED
    BY <2>1, <2>3
<1>4. ASSUME NEW s \in SUBSET S, s # {}
      PROVE  g[s] = F[CHOOSE x \in s : TRUE] + g[s \ {CHOOSE x \in s : TRUE}]
  <2>1. PICK x : x = CHOOSE y \in s : TRUE
    OBVIOUS
  <2>2. x \in S /\ s \ {x} \in SUBSET S
    BY <1>4, <2>1
  <2>3. g[s] = step[<<x, g[s \ {x}]>>]
    BY <1>3, <1>4, <2>1 DEF Folded
  <2>4. g[s] = F[x] + g[s \ {x}]
    BY <1>2, <2>2, <2>3
  <2> QED
    BY <2>1, <2>4
<1>5. g[{}] = 0
  BY <1>3 DEF Folded
<1>6. \A s \in SUBSET S : g[s] = IF s = {} THEN 0
                            ELSE F[CHOOSE x \in s : TRUE] + g[s \ {CHOOSE x \in s : TRUE}]
  BY <1>4, <1>5
<1>7. Sums(g, F, S)
  BY <1>6, Zenon DEF Sums
<1> QED
  BY <1>7

\* What holds of the empty set and, with a set less the element chosen, of the set, holds.
LEMMA EverySubset ==
    ASSUME NEW S, IsFiniteSet(S), NEW T, {} \in T,
           \A s \in SUBSET S : s # {} /\ (\A x \in s : s \ {x} \in T) => s \in T
    PROVE  \A s \in SUBSET S : s \in T
<1> DEFINE N == {n \in Nat : \A s \in SUBSET S : Cardinality(s) <= n => s \in T}
<1>1. \A s \in SUBSET S : IsFiniteSet(s) /\ Cardinality(s) \in Nat
  BY FS_Subset, FS_CardinalityType
<1>2. 0 \in N
  <2>1. ASSUME NEW s \in SUBSET S, Cardinality(s) <= 0 PROVE s = {}
    BY <1>1, <2>1, FS_EmptySet
  <2> QED
    BY <2>1
<1>3. ASSUME NEW n \in Nat, n \in N PROVE n + 1 \in N
  <2>1. ASSUME NEW s \in SUBSET S, Cardinality(s) <= n + 1, s # {} PROVE s \in T
    <3>1. ASSUME NEW x \in s PROVE s \ {x} \in T
      <4>1. Cardinality(s \ {x}) = Cardinality(s) - 1
        BY <1>1, <3>1, FS_RemoveElement
      <4>2. s \ {x} \in SUBSET S /\ Cardinality(s \ {x}) <= n
        BY <1>1, <2>1, <4>1
      <4> QED
        BY <4>2, <1>3
    <3> QED
      BY <2>1, <3>1
  <2>2. \A s \in SUBSET S : Cardinality(s) <= n + 1 => s \in T
    BY <2>1
  <2> QED
    BY <2>2
<1> HIDE DEF N
<1>4. \A n \in Nat : n \in N
  BY <1>2, <1>3, EveryNumber
<1> QED
  BY <1>1, <1>4 DEF N

\* Any sum of integers is one, and any element may be taken first.
LEMMA SumTakes ==
    ASSUME NEW S, IsFiniteSet(S), NEW F, \A x \in S : F[x] \in Int, NEW g, Sums(g, F, S)
    PROVE  /\ g[{}] = 0
           /\ \A s \in SUBSET S : g[s] \in Int /\ \A x \in s : g[s] = F[x] + g[s \ {x}]
<1>0. \A s \in SUBSET S : g[s] = IF s = {} THEN 0
                            ELSE F[CHOOSE x \in s : TRUE] + g[s \ {CHOOSE x \in s : TRUE}]
  BY Zenon DEF Sums
<1>1. g[{}] = 0
  BY <1>0
<1>2. ASSUME NEW s \in SUBSET S, s # {} PROVE \E p \in s : g[s] = F[p] + g[s \ {p}]
  <2>1. PICK p : p = CHOOSE y \in s : TRUE
    OBVIOUS
  <2>2. p \in s
    BY <1>2, <2>1
  <2>3. g[s] = F[p] + g[s \ {p}]
    BY <1>0, <1>2, <2>1
  <2> QED
    BY <2>2, <2>3
<1>5. \A s \in SUBSET S : g[s] \in Int
  <2> DEFINE I == {s \in SUBSET S : g[s] \in Int}
  <2>1. {} \in I
    BY <1>1
  <2>2. ASSUME NEW s \in SUBSET S, s # {}, \A x \in s : s \ {x} \in I PROVE s \in I
    <3>1. PICK p \in s : g[s] = F[p] + g[s \ {p}]
      BY <1>2, <2>2
    <3>2. g[s \ {p}] \in Int /\ F[p] \in Int
      BY <2>2, <3>1
    <3> QED
      BY <3>1, <3>2
  <2> HIDE DEF I
  <2>3. \A s \in SUBSET S : s \in I
    BY <2>1, <2>2, EverySubset
  <2> QED
    BY <2>3 DEF I
<1> DEFINE T == {s \in SUBSET S : \A x \in s : g[s] = F[x] + g[s \ {x}]}
<1>3. {} \in T
  OBVIOUS
<1>4. ASSUME NEW s \in SUBSET S, s # {}, \A x \in s : s \ {x} \in T PROVE s \in T
  <2>1. PICK p \in s : g[s] = F[p] + g[s \ {p}]
    BY <1>2, <1>4
  <2>2. \A x \in s : g[s \ {x}] \in Int /\ F[x] \in Int
    BY <1>5
  <2>4. ASSUME NEW x \in s, x # p PROVE g[s] = F[x] + g[s \ {x}]
    <3>1. (s \ {p}) \ {x} = (s \ {x}) \ {p}
      OBVIOUS
    <3>2. g[s \ {p}] = F[x] + g[(s \ {p}) \ {x}]
      BY <1>4, <2>4
    <3>3. g[s \ {x}] = F[p] + g[(s \ {x}) \ {p}]
      BY <1>4, <2>4
    <3>4. g[(s \ {p}) \ {x}] \in Int
      BY <1>5
    <3>5. PICK a, b, k : a = F[p] /\ b = F[x] /\ k = g[(s \ {p}) \ {x}]
      OBVIOUS
    <3>6. a \in Int /\ b \in Int /\ k \in Int
      BY <2>2, <3>4, <3>5
    <3>7. g[s] = a + (b + k) /\ g[s \ {x}] = a + k
      BY <2>1, <3>1, <3>2, <3>3, <3>5
    <3>8. a + (b + k) = b + (a + k)
      BY ONLY <3>6
    <3> QED
      BY <3>5, <3>7, <3>8
  <2> QED
    BY <2>1, <2>4
<1> HIDE DEF T
<1>6. \A s \in SUBSET S : s \in T
  BY <1>3, <1>4, EverySubset
<1> QED
  BY <1>1, <1>5, <1>6 DEF T

\* Two sums of the same are the same.
LEMMA SumsAgree ==
    ASSUME NEW S, IsFiniteSet(S), NEW F, \A x \in S : F[x] \in Int,
           NEW g, Sums(g, F, S), NEW f, Sums(f, F, S)
    PROVE  \A s \in SUBSET S : f[s] = g[s]
<1> DEFINE T == {s \in SUBSET S : f[s] = g[s]}
<1>3. f[{}] = 0 /\ \A s \in SUBSET S : \A x \in s : f[s] = F[x] + f[s \ {x}]
  BY ONLY IsFiniteSet(S), \A x \in S : F[x] \in Int, Sums(f, F, S), SumTakes
<1>4. g[{}] = 0 /\ \A s \in SUBSET S : \A x \in s : g[s] = F[x] + g[s \ {x}]
  BY ONLY IsFiniteSet(S), \A x \in S : F[x] \in Int, Sums(g, F, S), SumTakes
<1>1. {} \in T
  BY <1>3, <1>4
<1>2. ASSUME NEW s \in SUBSET S, s # {}, \A x \in s : s \ {x} \in T PROVE s \in T
  <2>1. PICK x \in s : TRUE
    BY <1>2
  <2>2. f[s] = F[x] + f[s \ {x}]
    BY <1>3
  <2>3. g[s] = F[x] + g[s \ {x}]
    BY <1>4
  <2>4. f[s \ {x}] = g[s \ {x}]
    BY <1>2
  <2> QED
    BY <2>2, <2>3, <2>4
<1> HIDE DEF T
<1>5. \A s \in SUBSET S : s \in T
  BY <1>1, <1>2, EverySubset
<1> QED
  BY <1>5 DEF T

\* A sum of ones and noughts counts.
LEMMA SumCounts ==
    ASSUME NEW S, IsFiniteSet(S), NEW F, \A x \in S : F[x] \in {0, 1}, NEW g, Sums(g, F, S)
    PROVE  \A s \in SUBSET S : g[s] = Cardinality({x \in s : F[x] = 1})
<1>0. \A x \in S : F[x] \in Int
  OBVIOUS
<1> DEFINE Ones(s) == {x \in s : F[x] = 1}
           T == {s \in SUBSET S : g[s] = Cardinality(Ones(s))}
<1>1. {} \in T
  <2>1. Ones({}) = {}
    OBVIOUS
  <2> QED
    BY <1>0, <2>1, SumTakes, FS_EmptySet
<1>2. ASSUME NEW s \in SUBSET S, s # {}, \A x \in s : s \ {x} \in T PROVE s \in T
  <2>1. PICK x \in s : TRUE
    BY <1>2
  <2>2. g[s] = F[x] + g[s \ {x}]
    BY <1>0, SumTakes
  <2>3. g[s \ {x}] = Cardinality(Ones(s \ {x}))
    BY <1>2
  <2>4. CASE F[x] = 1
    <3>1. Ones(s) = Ones(s \ {x}) \cup {x} /\ x \notin Ones(s \ {x})
      BY <2>4
    <3>2. IsFiniteSet(Ones(s \ {x}))
      BY FS_Subset
    <3>3. Cardinality(Ones(s)) = Cardinality(Ones(s \ {x})) + 1 /\ Cardinality(Ones(s \ {x})) \in Nat
      <4> HIDE DEF Ones
      <4> QED
        BY <3>1, <3>2, FS_AddElement, FS_CardinalityType
    <3> QED
      BY <2>2, <2>3, <2>4, <3>3
  <2>5. CASE F[x] = 0
    <3>1. Ones(s) = Ones(s \ {x})
      BY <2>5
    <3>2. Cardinality(Ones(s \ {x})) \in Nat
      <4>1. IsFiniteSet(Ones(s \ {x}))
        BY FS_Subset
      <4> QED
        BY <4>1, FS_CardinalityType
    <3>3. PICK k \in Nat : k = Cardinality(Ones(s \ {x}))
      BY <3>2
    <3>4. g[s] = 0 + k /\ Cardinality(Ones(s)) = k
      <4> HIDE DEF Ones
      <4> QED
        BY <2>2, <2>3, <2>5, <3>1, <3>3
    <3> QED
      BY <3>4
  <2>6. F[x] = 1 \/ F[x] = 0
    OBVIOUS
  <2> QED
    BY <2>4, <2>5, <2>6
<1> HIDE DEF T
<1>3. \A s \in SUBSET S : s \in T
  BY <1>1, <1>2, EverySubset
<1> QED
  BY <1>3 DEF T

-----------------------------------------------------------------------------
(* One run of a worker                                                           *)

\* The value of a sum of counters of a host.
ValueIs(side, points) ==
    MapThenSumSet(LAMBDA i : side.terms[i].sign * points[side.terms[i].counter].value, 1..Len(side.terms))

\* Signs and values are numbers.
SideTyped(side, points) ==
    /\ Len(side.terms) \in Nat /\ DOMAIN side.terms = 1..Len(side.terms)
    /\ \A i \in 1..Len(side.terms) :
          side.terms[i].sign \in Int /\ points[side.terms[i].counter].value \in Int

LEMMA ValueIsNumber ==
    ASSUME NEW side, NEW points, SideTyped(side, points)
    PROVE  ValueIs(side, points) \in Int
<1> DEFINE S == 1..Len(side.terms)
<1>1. PICK F : F = [i \in S |-> side.terms[i].sign * points[side.terms[i].counter].value]
  OBVIOUS
<1>2. \A i \in S : F[i] = side.terms[i].sign * points[side.terms[i].counter].value /\ F[i] \in Int
  BY <1>1 DEF SideTyped
<1>3. IsFiniteSet(S)
  BY FS_Interval DEF SideTyped
<1> DEFINE Iter(g) == g = [s \in SUBSET S |->
                           IF s = {} THEN 0
                           ELSE side.terms[CHOOSE x \in s : TRUE].sign * points[side.terms[CHOOSE x \in s : TRUE].counter].value
                                + g[s \ {CHOOSE x \in s : TRUE}]]
<1>4. ValueIs(side, points) = (CHOOSE g : Iter(g))[S]
  BY DEF ValueIs, MapThenSumSet, MapThenFoldSet
<1> HIDE DEF S
<1>5. \A g : Iter(g) <=> Sums(g, F, S)
  <2>1. \A s \in SUBSET S : s # {} => F[CHOOSE x \in s : TRUE] = side.terms[CHOOSE x \in s : TRUE].sign * points[side.terms[CHOOSE x \in s : TRUE].counter].value
    BY <1>2
  <2> QED
    BY <2>1 DEF Sums
<1> HIDE DEF Iter
<1>6. \E g : Iter(g)
  <2>1. \A i \in S : F[i] \in Int
    BY <1>2
  <2>2. \E g : Sums(g, F, S)
    BY <2>1, <1>3, SumIs
  <2> QED
    BY <2>2, <1>5
<1>7. PICK g : Sums(g, F, S) /\ g = CHOOSE h : Iter(h)
  BY <1>5, <1>6
<1>8. g[S] \in Int
  BY <1>2, <1>3, <1>7, SumTakes
<1> QED
  BY <1>4, <1>7, <1>8

\* Every counter of a side has a value.
AllFresh(side, points, t, per) == \A i \in 1..Len(side.terms) : Fresh(points[side.terms[i].counter], t, per)

\* What a host adds to a side.
Adds(side, points) ==
    IF side.cmp.mode = "" THEN ValueIs(side, points)
    ELSE IF CompareSum(ValueIs(side, points), side.cmp) THEN 1 ELSE 0

\* What Compute returns.
LEMMA ComputeIs ==
    ASSUME NEW side, NEW points, NEW t, NEW per
    PROVE  Compute(side, points, t, per) =
             IF AllFresh(side, points, t, per) THEN [err |-> FALSE, val |-> Adds(side, points)]
             ELSE [err |-> TRUE, val |-> 0]
<1>1. PICK vals : vals = Operands(side, points, t, per)
  OBVIOUS
<1>2. AllFresh(side, points, t, per) <=> vals = 1..Len(side.terms)
  BY <1>1 DEF Operands, AllFresh
<1>3. Compute(side, points, t, per) =
         LET sum == MapThenSumSet(LAMBDA i : side.terms[i].sign * points[side.terms[i].counter].value, vals)
         IN  IF vals # 1..Len(side.terms) THEN [err |-> TRUE, val |-> 0]
             ELSE [err |-> FALSE,
                   val |-> IF side.cmp.mode = "" THEN sum ELSE IF CompareSum(sum, side.cmp) THEN 1 ELSE 0]
  BY <1>1 DEF Compute
<1> QED
  BY <1>2, <1>3 DEF ValueIs, Adds

\* A run over finitely many hosts, whose sides are sums of numbers.
SampleTyped(c) ==
    /\ IsFiniteSet(DOMAIN c.points)
    /\ {c.numerator.kind, c.denominator.kind} \subseteq {"count", "number", "sum"}
    /\ \A h \in DOMAIN c.points : SideTyped(c.numerator, c.points[h]) /\ SideTyped(c.denominator, c.points[h])

\* The counters that are asked for, the hosts that have them all, and what they add.
Asked(side) == IF side.kind = "sum" THEN {term.counter : term \in ToSet(side.terms)} ELSE {}
Good(c) ==
    {h \in DOMAIN c.points \ c.away :
        \A x \in Asked(c.numerator) \cup Asked(c.denominator) : Fresh(c.points[h][x], c.now, c.step)}
Val(c, side, h) == Compute(side, c.points[h], c.now, c.step).val

LEMMA AskedFresh ==
    ASSUME NEW side, NEW points, NEW t, NEW per, SideTyped(side, points), side.kind = "sum"
    PROVE  AllFresh(side, points, t, per) <=> \A x \in Asked(side) : Fresh(points[x], t, per)
<1>1. Asked(side) = {side.terms[i].counter : i \in 1..Len(side.terms)}
  BY DEF Asked, ToSet, SideTyped
<1> QED
  BY <1>1 DEF AllFresh

\* What a host adds is a number.
LEMMA ValIs ==
    ASSUME NEW c, NEW side, NEW h, SideTyped(side, c.points[h])
    PROVE  Val(c, side, h) \in Int
<1>1. Adds(side, c.points[h]) \in Int
  <2>1. PICK p : p = c.points[h]
    OBVIOUS
  <2>2. PICK v : v = ValueIs(side, p)
    OBVIOUS
  <2>3. v \in Int
    BY <2>1, <2>2, ValueIsNumber
  <2>4. Adds(side, p) = IF side.cmp.mode = "" THEN v ELSE IF CompareSum(v, side.cmp) THEN 1 ELSE 0
    BY <2>2 DEF Adds
  <2>5. 1 \in Int /\ 0 \in Int
    OBVIOUS
  <2>6. Adds(side, p) \in Int
    BY ONLY <2>3, <2>4, <2>5, Zenon
  <2> QED
    BY <2>1, <2>6
<1> QED
  BY <1>1, ComputeIs DEF Val

\* A host that has them all is added, any other is not.
LEMMA AddHostIs ==
    ASSUME NEW c, SampleTyped(c), NEW h \in HostnamesByID(c), NEW acc
    PROVE  AddHost(c, h, acc) =
             IF h \in Good(c)
             THEN [n |-> acc.n + Val(c, c.numerator, h), d |-> acc.d + Val(c, c.denominator, h), valid |-> acc.valid + 1]
             ELSE acc
<1>1. SideTyped(c.numerator, c.points[h]) /\ SideTyped(c.denominator, c.points[h])
  BY DEF SampleTyped, HostnamesByID
<1>2. ASSUME NEW side, SideTyped(side, c.points[h])
      PROVE  (side.kind = "sum" /\ Compute(side, c.points[h], c.now, c.step).err)
             <=> ~\A x \in Asked(side) : Fresh(c.points[h][x], c.now, c.step)
  <2>1. CASE side.kind = "sum"
    <3>1. AllFresh(side, c.points[h], c.now, c.step) <=> \A x \in Asked(side) : Fresh(c.points[h][x], c.now, c.step)
      BY <1>2, <2>1, AskedFresh
    <3> QED
      BY <2>1, <3>1, ComputeIs
  <2>2. CASE side.kind # "sum"
    BY <2>2 DEF Asked
  <2> QED
    BY <2>1, <2>2
<1>3. h \in Good(c) <=> ~(\/ c.numerator.kind = "sum" /\ Compute(c.numerator, c.points[h], c.now, c.step).err
                          \/ c.denominator.kind = "sum" /\ Compute(c.denominator, c.points[h], c.now, c.step).err)
  <2>1. h \in Good(c) <=> /\ \A x \in Asked(c.numerator) : Fresh(c.points[h][x], c.now, c.step)
                          /\ \A x \in Asked(c.denominator) : Fresh(c.points[h][x], c.now, c.step)
    BY DEF Good, HostnamesByID
  <2> QED
    BY <2>1, <1>1, <1>2
<1> QED
  BY <1>3 DEF AddHost, Val

\* Any element of a sum may be taken first.
Takes(g, F, S) ==
    g[{}] = 0 /\ \A s \in SUBSET S : g[s] \in Int /\ \A x \in s : g[s] = F[x] + g[s \ {x}]

\* The hosts that are good, and the sums over them.
LEMMA RunAdds ==
    ASSUME NEW c, SampleTyped(c),
           NEW N, N = [h \in Good(c) |-> Val(c, c.numerator, h)], NEW D, D = [h \in Good(c) |-> Val(c, c.denominator, h)],
           NEW gN, Sums(gN, N, Good(c)), NEW gD, Sums(gD, D, Good(c))
    PROVE  FoldSet(LAMBDA host, a : AddHost(c, host, a), [n |-> 0, d |-> 0, valid |-> 0], HostnamesByID(c)) =
             [n |-> gN[Good(c)], d |-> gD[Good(c)], valid |-> Cardinality(Good(c))]
<1> DEFINE H == HostnamesByID(c)
           G == Good(c)
           base == [n |-> 0, d |-> 0, valid |-> 0]
           A == [n : Int, d : Int, valid : Int]
           Iter(g) == g = [s \in SUBSET H |-> IF s = {} THEN base
                                              ELSE AddHost(c, CHOOSE x \in s : TRUE, g[s \ {CHOOSE x \in s : TRUE}])]
<1>1. FoldSet(LAMBDA host, a : AddHost(c, host, a), base, H) = (CHOOSE g : Iter(g))[H]
  BY DEF FoldSet, MapThenFoldSet
<1>2. IsFiniteSet(H) /\ IsFiniteSet(G) /\ G \subseteq H
  <2>1. H \subseteq DOMAIN c.points /\ G \subseteq H
    BY DEF HostnamesByID, Good
  <2> HIDE DEF H, G
  <2> QED
    BY <2>1, FS_Subset DEF SampleTyped
<1>3. \A h \in H : Val(c, c.numerator, h) \in Int /\ Val(c, c.denominator, h) \in Int
  BY ValIs DEF SampleTyped, HostnamesByID
<1>4. /\ \A h \in G : N[h] = Val(c, c.numerator, h) /\ N[h] \in Int
      /\ \A h \in G : D[h] = Val(c, c.denominator, h) /\ D[h] \in Int
  BY <1>2, <1>3
<1> HIDE DEF H, G
<1>5. \A h \in H : \A a : AddHost(c, h, a) =
          IF h \in G THEN [n |-> a.n + Val(c, c.numerator, h), d |-> a.d + Val(c, c.denominator, h), valid |-> a.valid + 1] ELSE a
  BY AddHostIs DEF H, G
<1>6. PICK step : step = [p \in H \X A |-> AddHost(c, p[1], p[2])]
  OBVIOUS
<1>7. ASSUME NEW x \in H, NEW a \in A PROVE AddHost(c, x, a) \in A
  <2>1. a.n \in Int /\ a.d \in Int /\ a.valid \in Int
    OBVIOUS
  <2> HIDE DEF A
  <2>2. CASE x \in G
    <3>1. PICK p \in Int, q \in Int : p = Val(c, c.numerator, x) /\ q = Val(c, c.denominator, x)
      BY <1>3
    <3>2. AddHost(c, x, a) = [n |-> a.n + p, d |-> a.d + q, valid |-> a.valid + 1]
      BY <1>5, <2>2, <3>1
    <3>3. a.n + p \in Int /\ a.d + q \in Int /\ a.valid + 1 \in Int
      BY <2>1, <3>1
    <3> QED
      BY <3>2, <3>3 DEF A
  <2>3. CASE x \notin G
    BY <1>5, <2>3
  <2> QED
    BY <2>2, <2>3
<1> HIDE DEF A
<1>8. \A x \in H, a \in A : step[<<x, a>>] = AddHost(c, x, a) /\ step[<<x, a>>] \in A
  BY <1>6, <1>7
<1>9. base \in A
  BY DEF A
<1> HIDE DEF base
<1>10. PICK f \in [SUBSET H -> A] : Folded(f, base, step, H)
  BY <1>2, <1>8, <1>9, FoldIs
<1>11. \E g : Iter(g)
  <2>1. ASSUME NEW s \in SUBSET H PROVE f[s] = IF s = {} THEN base ELSE AddHost(c, CHOOSE x \in s : TRUE, f[s \ {CHOOSE x \in s : TRUE}])
    <3>1. CASE s = {}
      BY <3>1, <1>10 DEF Folded
    <3>2. CASE s # {}
      <4>1. PICK x : x = CHOOSE y \in s : TRUE
        OBVIOUS
      <4>2. x \in H /\ s \ {x} \in SUBSET H
        BY <3>2, <4>1
      <4>3. f[s] = step[<<x, f[s \ {x}]>>]
        BY <1>10, <3>2, <4>1 DEF Folded
      <4>4. f[s] = AddHost(c, x, f[s \ {x}])
        BY <1>8, <1>10, <4>2, <4>3
      <4> QED
        BY <3>2, <4>1, <4>4
    <3> QED
      BY <3>1, <3>2
  <2>2. Iter(f)
    BY <1>10, <2>1
  <2> HIDE DEF Iter
  <2> QED
    BY <2>2
<1>12. PICK g : Iter(g) /\ g = CHOOSE h : Iter(h)
  <2> HIDE DEF Iter
  <2> QED
    BY <1>11
<1>13. \A s \in SUBSET H : g[s] = IF s = {} THEN base ELSE AddHost(c, CHOOSE x \in s : TRUE, g[s \ {CHOOSE x \in s : TRUE}])
  BY <1>12
<1>14. ASSUME NEW s \in SUBSET H, s # {} PROVE \E x \in s : g[s] = AddHost(c, x, g[s \ {x}])
  <2>1. PICK x : x = CHOOSE y \in s : TRUE
    OBVIOUS
  <2>2. x \in s /\ g[s] = AddHost(c, x, g[s \ {x}])
    BY <1>13, <1>14, <2>1
  <2> QED
    BY <2>2
<1>15. Takes(gN, N, G) /\ Takes(gD, D, G)
  <2>1. Sums(gN, N, G) /\ Sums(gD, D, G)
    BY DEF G
  <2>2. ASSUME NEW F, \A x \in G : F[x] \in Int, NEW e, Sums(e, F, G) PROVE Takes(e, F, G)
    BY <1>2, <2>2, SumTakes DEF Takes
  <2>3. (\A x \in G : N[x] \in Int) /\ (\A x \in G : D[x] \in Int)
    BY <1>4
  <2> QED
    BY <2>1, <2>2, <2>3
<1> DEFINE Result(s) == [n |-> gN[s \cap G], d |-> gD[s \cap G], valid |-> Cardinality(s \cap G)]
           T == {s \in SUBSET H : g[s] = Result(s)}
<1>16. {} \in T
  <2>1. {} \cap G = {} /\ Cardinality({}) = 0
    BY FS_EmptySet
  <2>2. Result({}) = [n |-> 0, d |-> 0, valid |-> 0]
    BY <2>1, <1>15 DEF Takes
  <2> QED
    BY <2>2, <1>13 DEF base
<1>17. ASSUME NEW s \in SUBSET H, s # {}, \A x \in s : s \ {x} \in T PROVE s \in T
  <2>1. PICK x \in s : g[s] = AddHost(c, x, g[s \ {x}])
    BY <1>14, <1>17
  <2>2. PICK r : r = s \ {x}
    OBVIOUS
  <2>3. g[r] = Result(r)
    BY <1>17, <2>2
  <2>4. CASE x \notin G
    <3>1. r \cap G = s \cap G
      BY <2>2, <2>4
    <3>2. Result(r) = Result(s)
      BY <3>1
    <3>3. g[s] = g[r]
      BY <1>5, <2>1, <2>2, <2>4
    <3> QED
      BY <2>3, <3>2, <3>3
  <2>5. CASE x \in G
    <3>1. PICK q : q = r \cap G
      OBVIOUS
    <3>2. q \in SUBSET G /\ s \cap G \in SUBSET G /\ x \in s \cap G /\ (s \cap G) \ {x} = q /\ x \notin q /\ s \cap G = q \cup {x}
      BY <2>2, <2>5, <3>1
    <3>3. gN[s \cap G] = N[x] + gN[q] /\ gD[s \cap G] = D[x] + gD[q] /\ gN[q] \in Int /\ gD[q] \in Int
      <4>1. PICK e : e = s \cap G
        OBVIOUS
      <4>2. e \in SUBSET G /\ x \in e /\ e \ {x} = q
        BY <3>2, <4>1
      <4>3. gN[e] = N[x] + gN[q] /\ gD[e] = D[x] + gD[q]
        <5>1. ASSUME NEW k, NEW F, Takes(k, F, G) PROVE k[e] = F[x] + k[e \ {x}]
          BY <4>2, <5>1 DEF Takes
        <5> QED
          BY <5>1, <1>15, <4>2
      <4>4. gN[q] \in Int /\ gD[q] \in Int
        BY <1>15, <3>2 DEF Takes
      <4> QED
        BY <4>1, <4>3, <4>4
    <3>4. Cardinality(s \cap G) = Cardinality(q) + 1
      <4>1. IsFiniteSet(q)
        BY <1>2, <3>2, FS_Subset
      <4> QED
        BY <3>2, <4>1, FS_AddElement
    <3>5. g[r].n = gN[q] /\ g[r].d = gD[q] /\ g[r].valid = Cardinality(q)
      BY <2>3, <3>1
    <3>6. g[s] = [n |-> g[r].n + Val(c, c.numerator, x), d |-> g[r].d + Val(c, c.denominator, x), valid |-> g[r].valid + 1]
      BY <1>5, <2>1, <2>2, <2>5
    <3>7. N[x] = Val(c, c.numerator, x) /\ D[x] = Val(c, c.denominator, x) /\ N[x] \in Int /\ D[x] \in Int
      BY <1>4, <2>5
    <3>8. g[s] = [n |-> gN[q] + N[x], d |-> gD[q] + D[x], valid |-> Cardinality(q) + 1]
      BY <3>5, <3>6, <3>7
    <3>9. gN[q] + N[x] = gN[s \cap G] /\ gD[q] + D[x] = gD[s \cap G]
      BY <3>3, <3>7
    <3> QED
      BY <3>4, <3>8, <3>9
  <2> QED
    BY <2>4, <2>5
<1> HIDE DEF T
<1>18. \A s \in SUBSET H : s \in T
  BY <1>2, <1>16, <1>17, EverySubset
<1>19. g[H] = [n |-> gN[G], d |-> gD[G], valid |-> Cardinality(G)]
  <2>1. H \cap G = G
    BY <1>2
  <2>2. g[H] = Result(H)
    BY <1>18 DEF T
  <2> QED
    BY <2>1, <2>2
<1> QED
  BY <1>1, <1>12, <1>19 DEF H, G, base

\* What the good hosts add to a side that is a sum is the sum over them.
LEMMA SideSum ==
    ASSUME NEW c, SampleTyped(c), NEW side, side.kind = "sum",
           \A h \in DOMAIN c.points : SideTyped(side, c.points[h]),
           \A h \in Good(c) : \A x \in Asked(side) : Fresh(c.points[h][x], c.now, c.step),
           NEW N, N = [h \in Good(c) |-> Val(c, side, h)], NEW gN, Sums(gN, N, Good(c))
    PROVE  SumOver(side, Good(c), c.points) = gN[Good(c)]
<1> DEFINE Worth(h) == ValueIs(side, c.points[h])
<1>1. PICK G : G = Good(c)
  OBVIOUS
<1>2. IsFiniteSet(G) /\ G \subseteq DOMAIN c.points
  <2>1. G \subseteq DOMAIN c.points
    BY <1>1 DEF Good
  <2> QED
    BY <2>1, FS_Subset DEF SampleTyped
<1>3. \A h \in G : Worth(h) \in Int
  <2>1. ASSUME NEW h \in G PROVE Worth(h) \in Int
    <3>1. PICK p : p = c.points[h]
      OBVIOUS
    <3>2. ValueIs(side, p) \in Int
      BY <1>2, <3>1, ValueIsNumber
    <3> QED
      BY <3>1, <3>2
  <2> QED
    BY <2>1
<1>4. ASSUME NEW h \in G
      PROVE  N[h] = IF side.cmp.mode = "" THEN Worth(h) ELSE IF CompareSum(Worth(h), side.cmp) THEN 1 ELSE 0
  <2>1. PICK p : p = c.points[h]
    OBVIOUS
  <2>2. AllFresh(side, p, c.now, c.step)
    BY <1>1, <1>2, <2>1, AskedFresh
  <2>3. Compute(side, p, c.now, c.step).val = Adds(side, p)
    BY <2>2, ComputeIs
  <2>4. N[h] = Adds(side, p)
    BY <1>1, <2>1, <2>3 DEF Val
  <2> QED
    BY <2>1, <2>4 DEF Adds
<1>5. SumOver(side, G, c.points) =
         IF side.cmp.mode = "" THEN MapThenSumSet(Worth, G) ELSE Cardinality({h \in G : CompareSum(Worth(h), side.cmp)})
  BY DEF SumOver, ValueIs
<1>6. CASE side.cmp.mode = ""
  <2> DEFINE Iter(g) == g = [s \in SUBSET G |-> IF s = {} THEN 0
                                               ELSE Worth(CHOOSE x \in s : TRUE) + g[s \ {CHOOSE x \in s : TRUE}]]
  <2>1. MapThenSumSet(Worth, G) = (CHOOSE g : Iter(g))[G]
    BY DEF MapThenSumSet, MapThenFoldSet
  <2>2. \A g : Iter(g) <=> Sums(g, N, G)
    <3>1. \A s \in SUBSET G : s # {} => N[CHOOSE x \in s : TRUE] = Worth(CHOOSE x \in s : TRUE)
      BY <1>4, <1>6
    <3>2. ASSUME NEW g PROVE Iter(g) <=> Sums(g, N, G)
      <4>1. PICK a : a = [s \in SUBSET G |-> IF s = {} THEN 0 ELSE Worth(CHOOSE x \in s : TRUE) + g[s \ {CHOOSE x \in s : TRUE}]]
        OBVIOUS
      <4>2. PICK b : b = [s \in SUBSET G |-> IF s = {} THEN 0 ELSE N[CHOOSE x \in s : TRUE] + g[s \ {CHOOSE x \in s : TRUE}]]
        OBVIOUS
      <4>3. \A s \in SUBSET G : a[s] = IF s = {} THEN 0 ELSE Worth(CHOOSE x \in s : TRUE) + g[s \ {CHOOSE x \in s : TRUE}]
        BY <4>1, Zenon
      <4>4. \A s \in SUBSET G : b[s] = IF s = {} THEN 0 ELSE N[CHOOSE x \in s : TRUE] + g[s \ {CHOOSE x \in s : TRUE}]
        BY <4>2, Zenon
      <4>5. \A s \in SUBSET G : a[s] = b[s]
        <5>1. ASSUME NEW s \in SUBSET G PROVE a[s] = b[s]
          <6>1. a[s] = IF s = {} THEN 0 ELSE Worth(CHOOSE x \in s : TRUE) + g[s \ {CHOOSE x \in s : TRUE}]
            BY <4>3, Zenon
          <6>2. b[s] = IF s = {} THEN 0 ELSE N[CHOOSE x \in s : TRUE] + g[s \ {CHOOSE x \in s : TRUE}]
            BY <4>4, Zenon
          <6>3. CASE s # {}
            <7>1. PICK x : x = CHOOSE y \in s : TRUE
              OBVIOUS
            <7>2. N[x] = Worth(x)
              BY <3>1, <6>3, <7>1
            <7> HIDE DEF Worth
            <7> QED
              BY <6>1, <6>2, <6>3, <7>1, <7>2
          <6>4. CASE s = {}
            BY <6>1, <6>2, <6>4
          <6> QED
            BY <6>3, <6>4
        <5> QED
          BY <5>1, Zenon
      <4>6. a = [s \in SUBSET G |-> a[s]] /\ b = [s \in SUBSET G |-> b[s]]
        <5> HIDE DEF Worth
        <5>1. a = [s \in SUBSET G |-> a[s]]
          BY ONLY <4>1
        <5>2. b = [s \in SUBSET G |-> b[s]]
          BY ONLY <4>2
        <5> QED
          BY <5>1, <5>2
      <4>7. a = b
        BY <4>5, <4>6
      <4>8. Iter(g) <=> g = a
        BY ONLY <4>1, Zenon DEF Iter
      <4>9. Sums(g, N, G) <=> g = b
        BY ONLY <4>2, Zenon DEF Sums
      <4> QED
        BY <4>7, <4>8, <4>9
    <3> QED
      BY <3>2
  <2> HIDE DEF Iter
  <2>3. Iter(CHOOSE g : Iter(g))
    <3>1. Iter(gN)
      BY <1>1, <2>2
    <3> QED
      BY <3>1
  <2>4. PICK g : Sums(g, N, G) /\ g = CHOOSE e : Iter(e)
    BY <2>2, <2>3
  <2>5. \A h \in G : N[h] \in Int
    <3> HIDE DEF Worth
    <3> QED
      BY <1>3, <1>4, <1>6
  <2>6. g[G] = gN[G]
    BY <1>1, <1>2, <2>4, <2>5, SumsAgree
  <2>7. MapThenSumSet(Worth, G) = gN[G]
    BY <2>1, <2>4, <2>6
  <2> QED
    BY <1>1, <1>5, <1>6, <2>7
<1>7. CASE side.cmp.mode # ""
  <2> HIDE DEF Worth
  <2>1. \A h \in G : N[h] = IF CompareSum(Worth(h), side.cmp) THEN 1 ELSE 0
    BY <1>4, <1>7
  <2>2. \A h \in G : N[h] \in {0, 1} /\ (N[h] = 1 <=> CompareSum(Worth(h), side.cmp))
    BY <2>1
  <2>3. gN[G] = Cardinality({h \in G : N[h] = 1})
    BY <1>1, <1>2, <2>2, SumCounts
  <2>4. {h \in G : N[h] = 1} = {h \in G : CompareSum(Worth(h), side.cmp)}
    BY <2>2
  <2> QED
    BY <1>1, <1>5, <1>7, <2>3, <2>4
<1> QED
  BY <1>6, <1>7

\* src/aggregator/cron/run.go, for any hosts, terms, numbers and points of a run: what a
\* worker pushes is a quotient of two sums over the same hosts, those outside maintenance
\* with a fresh value of every counter of both.
THEOREM RunIsSound ==
    ASSUME NEW c, SampleTyped(c)
    PROVE  SumsOverSameHosts(c)
<1>1. PICK G : G = Good(c)
  OBVIOUS
<1>2. IsFiniteSet(G)
  <2>1. G \subseteq DOMAIN c.points
    BY <1>1 DEF Good
  <2> QED
    BY <2>1, FS_Subset DEF SampleTyped
<1>3. PICK N, D : N = [h \in Good(c) |-> Val(c, c.numerator, h)] /\ D = [h \in Good(c) |-> Val(c, c.denominator, h)]
  OBVIOUS
<1>4. \A h \in G : N[h] \in Int /\ D[h] \in Int
  BY <1>1, <1>3, ValIs DEF SampleTyped, Good
<1>5. PICK gN, gD : Sums(gN, N, Good(c)) /\ Sums(gD, D, Good(c))
  <2>1. \E g : Sums(g, N, G)
    BY <1>2, <1>4, SumIs
  <2>2. \E g : Sums(g, D, G)
    BY <1>2, <1>4, SumIs
  <2> QED
    BY <1>1, <2>1, <2>2
<1> DEFINE acc == FoldSet(LAMBDA host, a : AddHost(c, host, a), [n |-> 0, d |-> 0, valid |-> 0], HostnamesByID(c))
<1>6. acc = [n |-> gN[G], d |-> gD[G], valid |-> Cardinality(G)]
  BY <1>1, <1>3, <1>5, RunAdds
<1>13. WorkerRun(c) =
          LET n == IF c.numerator.kind = "sum" THEN acc.n ELSE Constant(c.numerator, acc.valid)
              d == IF c.denominator.kind = "sum" THEN acc.d ELSE Constant(c.denominator, acc.valid)
          IN  IF (c.numerator.kind # "sum" /\ c.denominator.kind # "sum") \/ d = 0 \/ acc.valid = 0
              THEN << >> ELSE <<n, d>>
  BY DEF WorkerRun, FoldSet, MapThenFoldSet
<1> HIDE DEF acc
<1> DEFINE num == SumOver(c.numerator, G, c.points)
           den == SumOver(c.denominator, G, c.points)
<1>7. num = IF c.numerator.kind = "sum" THEN gN[G] ELSE Constant(c.numerator, Cardinality(G))
  <2>1. CASE c.numerator.kind = "sum"
    <3>1. PICK side : side = c.numerator
      OBVIOUS
    <3>2. \A h \in Good(c) : \A x \in Asked(side) : Fresh(c.points[h][x], c.now, c.step)
      BY <3>1 DEF Good
    <3>3. \A h \in DOMAIN c.points : SideTyped(side, c.points[h])
      BY <3>1 DEF SampleTyped
    <3>4. N = [h \in Good(c) |-> Val(c, side, h)] /\ Sums(gN, N, Good(c)) /\ side.kind = "sum"
      BY <1>3, <1>5, <2>1, <3>1
    <3>5. SumOver(side, Good(c), c.points) = gN[Good(c)]
      BY <3>2, <3>3, <3>4, SideSum
    <3>6. c.numerator.kind = "sum"
      BY <2>1
    <3>7. SumOver(c.numerator, G, c.points) = gN[G]
      BY ONLY <1>1, <3>1, <3>5
    <3> QED
      BY ONLY <3>6, <3>7
  <2>2. CASE c.numerator.kind # "sum"
    BY <2>2 DEF SumOver, Constant, SampleTyped
  <2> QED
    BY <2>1, <2>2
<1>8. den = IF c.denominator.kind = "sum" THEN gD[G] ELSE Constant(c.denominator, Cardinality(G))
  <2>1. CASE c.denominator.kind = "sum"
    <3>1. PICK side : side = c.denominator
      OBVIOUS
    <3>2. \A h \in Good(c) : \A x \in Asked(side) : Fresh(c.points[h][x], c.now, c.step)
      BY <3>1 DEF Good
    <3>3. \A h \in DOMAIN c.points : SideTyped(side, c.points[h])
      BY <3>1 DEF SampleTyped
    <3>4. D = [h \in Good(c) |-> Val(c, side, h)] /\ Sums(gD, D, Good(c)) /\ side.kind = "sum"
      BY <1>3, <1>5, <2>1, <3>1
    <3>5. SumOver(side, Good(c), c.points) = gD[Good(c)]
      BY <3>2, <3>3, <3>4, SideSum
    <3>6. c.denominator.kind = "sum"
      BY <2>1
    <3>7. SumOver(c.denominator, G, c.points) = gD[G]
      BY ONLY <1>1, <3>1, <3>5
    <3> QED
      BY ONLY <3>6, <3>7
  <2>2. CASE c.denominator.kind # "sum"
    BY <2>2 DEF SumOver, Constant, SampleTyped
  <2> QED
    BY <2>1, <2>2
<1> HIDE DEF num, den
<1>9. WorkerRun(c) = IF (c.numerator.kind # "sum" /\ c.denominator.kind # "sum") \/ den = 0 \/ Cardinality(G) = 0
                     THEN << >> ELSE <<num, den>>
  BY <1>6, <1>7, <1>8, <1>13
<1>10. Cardinality(G) = 0 => G = {}
  BY <1>2, FS_EmptySet
<1>11. c.numerator.kind # "sum" /\ c.denominator.kind # "sum" => Asked(c.numerator) \cup Asked(c.denominator) = {}
  BY DEF Asked
<1>12. <<num, den>> # << >>
  OBVIOUS
<1> QED
  BY <1>1, <1>9, <1>10, <1>11, <1>12 DEF SumsOverSameHosts, Good, Asked, num, den

\* The runs that are looked at.
LEMMA SamplesTyped == \A c \in Samples : SampleTyped(c)
<1>1. \A s \in Sides : /\ s.kind \in {"count", "number", "sum"} /\ Len(s.terms) \in Nat /\ DOMAIN s.terms = 1..Len(s.terms)
                       /\ \A i \in 1..Len(s.terms) : s.terms[i].sign \in Int /\ s.terms[i].counter \in {"x", "y"}
  BY DEF Sides, Sum, Term
<1>2. \A p \in Points : p.value \in Int
  BY DEF Points
<1>3. IsFiniteSet({"h1", "h2"})
  <2>1. IsFiniteSet({"h1"} \cup {"h2"}) /\ {"h1"} \cup {"h2"} = {"h1", "h2"}
    BY FS_Singleton, FS_Union
  <2> QED
    BY <2>1
<1>4. ASSUME NEW c \in Samples PROVE SampleTyped(c)
  <2>1. c.numerator \in Sides /\ c.denominator \in Sides /\ c.points \in [{"h1", "h2"} -> [{"x", "y"} -> Points]]
    BY DEF Samples
  <2> QED
    BY <1>1, <1>2, <1>3, <2>1 DEF SampleTyped, SideTyped
<1> QED
  BY <1>4

\* src/aggregator/cron/run.go: what a worker pushes is a quotient of two sums over one
\* set of hosts, those outside maintenance that have a fresh value of every counter of
\* both sides, and nothing is pushed only when no host counts or the divisor is nought.
THEOREM AggregatesAreSound == Spec => []AggregateSound
<1> DEFINE I == part = "run" => SampleTyped(sample)
<1>1. MCInit => I
  BY SamplesTyped DEF MCInit
<1>2. I /\ [MCNext]_<<nvars, tvars, avars, part, sample>> => I'
  <2>1. [MCNext]_<<nvars, tvars, avars, part, sample>> => UNCHANGED <<part, sample>>
    BY DEF MCNext
  <2> QED
    BY <2>1 DEF SampleTyped, SideTyped
<1>3. I => AggregateSound
  BY RunIsSound DEF AggregateSound
<1> QED
  BY <1>1, <1>2, <1>3, SyntheticSpec, PTL
=============================================================================
