----------------------------- MODULE PortalProofs -----------------------------
(* Proofs about what the api keeps in MySQL: the users, sessions and teams       *)
(* (UicAccounts) and the portal's tables (PortalTables); and about what hbs      *)
(* answers from its copies of them (HbsCache).                                   *)
EXTENDS MCPortal, FiniteSetTheorems, WellFoundedInduction, TLAPS

-----------------------------------------------------------------------------
(* Numbers and tables                                                            *)

\* A set of natural numbers has a least one.
LEMMA LeastNumber ==
    ASSUME NEW T, T \subseteq Nat, T # {}
    PROVE  Min(T) \in T /\ \A y \in T : Min(T) <= y
<1> DEFINE R == OpToRel(<, Nat)
<1>1. IsWellFoundedOn(R, Nat)
  BY NatLessThanWellFounded, Zenon
<1> HIDE DEF R
<1>2. \E x \in T : \A y \in T : ~ (<<y, x>> \in R)
  BY <1>1, WFMin
<1>3. \A x, y \in Nat : y < x => <<y, x>> \in R
  BY DEF R, OpToRel
<1>4. \E x \in T : \A y \in T : x <= y
  <2>1. PICK x \in T : \A y \in T : ~(y < x)
    BY <1>2, <1>3
  <2>2. \A y \in T : x \in Nat /\ y \in Nat
    OBVIOUS
  <2>3. \A y \in T : x <= y
    BY ONLY <2>1, <2>2
  <2> QED
    BY <2>1, <2>3
<1> QED
  BY <1>4 DEF Min

\* A set with one element at most.
LEMMA OneOrNone ==
    ASSUME NEW S, \A x, y \in S : x = y
    PROVE  Cardinality(S) <= 1
<1>1. CASE S = {}
  BY <1>1, FS_EmptySet
<1>2. CASE S # {}
  <2>1. PICK x \in S : S = {x}
    BY <1>2
  <2> QED
    BY <1>2, <2>1, FS_Singleton
<1> QED
  BY <1>1, <1>2

-----------------------------------------------------------------------------
(* Users and their sessions                                                      *)

\* Ids count up, and users and sessions have ids that were given out.
Ids == {"user", "session", "team", "member"}
UserIds == 1..lastId["user"]
UsersTyped ==
    /\ lastId \in [Ids -> Nat] /\ calls \in Nat
    /\ DOMAIN user \subseteq UserIds
    /\ DOMAIN session \subseteq 1..lastId["session"] /\ \A s \in DOMAIN session : session[s] \in UserIds
    /\ \A r \in pending : r.op \in {"session", "save"} => r.uid \in UserIds

\* A token is of a session that is gone or its user's.
OwnTokens ==
    \A t \in tokens : t.sig \in 1..lastId["session"] /\ (t.sig \in DOMAIN session => session[t.sig] = t.uid)

\* Of users with no logins that overlapped, one session at most is there or about to be.
OneSession ==
    \A u \in UserIds : u \notin doubled =>
        /\ \A s, t \in Sessions(u) : s = t
        /\ \A r, q \in pending : r.op = "session" /\ q.op = "session" /\ r.uid = u /\ q.uid = u => r = q
        /\ \A r \in pending : r.op = "session" /\ r.uid = u => Sessions(u) = {}

Kept(u) ==
    \/ u \in crossed
    \/ u \in DOMAIN user /\ u \in DOMAIN want /\ user[u] = want[u]
    \/ u \notin DOMAIN user /\ u \notin DOMAIN want
Accounts == UsersTyped /\ OwnTokens /\ OneSession /\ WritesStay

\* The next id of a table.
LEMMA NewIdIs ==
    ASSUME lastId \in [Ids -> Nat], NEW t \in Ids, NEW max, NewId(t, max)
    PROVE  /\ lastId' \in [Ids -> Nat] /\ lastId'[t] = lastId[t] + 1 /\ lastId[t] \in Nat
           /\ \A o \in Ids : o # t => lastId'[o] = lastId[o]
BY DEF NewId

\* The first user of a name is one.
LEMMA NamedIs ==
    ASSUME UsersTyped, NEW name, Named(name) # 0
    PROVE  Named(name) \in DOMAIN user /\ Named(name) \in UserIds
<1> DEFINE ids == {u \in DOMAIN user : user[u].name = name}
<1>1. ids # {} /\ Named(name) = Min(ids)
  BY DEF Named
<1>2. ids \subseteq Nat /\ DOMAIN user \subseteq UserIds
  BY DEF UsersTyped, UserIds
<1>3. Min(ids) \in ids
  BY <1>1, <1>2, LeastNumber
<1> QED
  BY <1>1, <1>2, <1>3

\* At the start there are no rows.
LEMMA AccountsInit == UicInit => Accounts
<1> SUFFICES ASSUME UicInit PROVE Accounts
  OBVIOUS
<1>1. PICK s \in UicStart : user = s.user /\ session = s.session /\ lastId = s.last
  BY DEF UicInit
<1>2. /\ s.last \in [Ids -> Nat]
      /\ DOMAIN s.user \subseteq 1..s.last["user"] /\ DOMAIN s.session \subseteq 1..s.last["session"]
      /\ \A i \in DOMAIN s.session : s.session[i] \in DOMAIN s.user
      /\ \A i, j \in DOMAIN s.session : s.session[i] = s.session[j] => i = j
  BY UicAssumption DEF Ids
<1>3. /\ pending = {} /\ calls = 0 /\ want = user /\ crossed = {} /\ doubled = {}
      /\ tokens = {[name |-> user[session[i]].name, sig |-> i, uid |-> session[i]] : i \in DOMAIN session}
  BY DEF UicInit
<1>4. UsersTyped
  BY <1>1, <1>2, <1>3 DEF UsersTyped, UserIds
<1>5. OwnTokens
  <2>1. ASSUME NEW t \in tokens
        PROVE  t.sig \in 1..lastId["session"] /\ (t.sig \in DOMAIN session => session[t.sig] = t.uid)
    <3>1. PICK i \in DOMAIN session : t = [name |-> user[session[i]].name, sig |-> i, uid |-> session[i]]
      BY <1>3, <2>1
    <3>2. t.sig = i /\ t.uid = session[i]
      BY <3>1
    <3> QED
      BY <1>1, <1>2, <3>2
  <2> QED
    BY <2>1 DEF OwnTokens
<1>6. OneSession
  BY <1>1, <1>2, <1>3 DEF OneSession, Sessions
<1>7. WritesStay
  BY <1>3 DEF WritesStay
<1> QED
  BY <1>4, <1>5, <1>6, <1>7 DEF Accounts

\* Requests of users and sessions that are still at work.
AccountRequests == {r \in pending : r.op \in {"session", "save"}}

\* A step of the teams leaves users and sessions as they are.
LEMMA AccountsRest ==
    ASSUME Accounts, UNCHANGED <<user, session, tokens, want, crossed, doubled>>,
           lastId' \in [Ids -> Nat], calls' \in Nat,
           lastId'["user"] = lastId["user"], lastId'["session"] = lastId["session"],
           AccountRequests' = AccountRequests
    PROVE  Accounts'
<1>1. \A r : r.op \in {"session", "save"} => (r \in pending' <=> r \in pending)
  BY DEF AccountRequests
<1>2. UserIds' = UserIds /\ \A u : Sessions(u)' = Sessions(u)
  BY DEF UserIds, Sessions
<1>3. UsersTyped'
  BY <1>1, <1>2 DEF Accounts, UsersTyped
<1>4. OwnTokens'
  BY DEF Accounts, OwnTokens
<1>5. OneSession'
  BY <1>1, <1>2 DEF Accounts, OneSession
<1>6. WritesStay'
  BY DEF Accounts, WritesStay
<1> QED
  BY <1>3, <1>4, <1>5, <1>6 DEF Accounts

\* A session is looked for, and asked for when there is none.
LEMMA SessionForStep ==
    ASSUME Accounts, NEW u \in UserIds, SessionFor(u), calls' \in Nat
    PROVE  Accounts'
<1>1. UsersTyped /\ OwnTokens /\ OneSession /\ WritesStay
  BY DEF Accounts
<1>2. CASE Sessions(u) # {}
  <2>1. PICK m : m = Min(Sessions(u))
    OBVIOUS
  <2>2. Sessions(u) \subseteq Nat
    BY <1>1 DEF Sessions, UsersTyped
  <2>3. m \in DOMAIN session /\ session[m] = u
    <3>1. m \in Sessions(u)
      BY <1>2, <2>1, <2>2, LeastNumber
    <3> QED
      BY <3>1 DEF Sessions
  <2>4. tokens' = tokens \cup {[name |-> user[u].name, sig |-> m, uid |-> u]}
        /\ UNCHANGED <<rows, pending, want, crossed, doubled>>
    BY <1>2, <2>1 DEF SessionFor, GiveToken
  <2>5. UNCHANGED <<user, session, lastId>>
    BY <2>4 DEF rows
  <2>6. OwnTokens'
    BY <1>1, <2>3, <2>4, <2>5 DEF OwnTokens, UsersTyped
  <2> QED
    BY <1>1, <2>4, <2>5, <2>6 DEF Accounts, UsersTyped, UserIds, OneSession, Sessions, WritesStay
<1>3. CASE Sessions(u) = {}
  <2>1. PICK q : q = [op |-> "session", n |-> calls, uid |-> u]
    OBVIOUS
  <2>2. q.op = "session" /\ q.uid = u
    BY <2>1
  <2>3. /\ pending' = pending \cup {q} /\ UNCHANGED <<rows, tokens, want, crossed>>
        /\ doubled' = IF \E r \in pending : r.op = "session" /\ r.uid = u THEN doubled \cup {u} ELSE doubled
    BY <1>3, <2>1 DEF SessionFor, Flying
  <2>4. UNCHANGED <<user, session, lastId>> /\ UserIds' = UserIds /\ \A x : Sessions(x)' = Sessions(x)
    BY <2>3 DEF rows, UserIds, Sessions
  <2>5. UsersTyped'
    BY <1>1, <2>2, <2>3, <2>4 DEF UsersTyped
  <2>6. OneSession'
    <3>1. SUFFICES ASSUME NEW x \in UserIds, x \notin doubled'
                   PROVE  /\ \A s, t \in Sessions(x) : s = t
                          /\ \A r, p \in pending' : r.op = "session" /\ p.op = "session" /\ r.uid = x /\ p.uid = x => r = p
                          /\ \A r \in pending' : r.op = "session" /\ r.uid = x => Sessions(x) = {}
      BY <2>4 DEF OneSession
    <3>2. x \notin doubled
      BY <2>3, <3>1
    <3>3. CASE x = u
      <4>1. \A r \in pending : ~(r.op = "session" /\ r.uid = u)
        BY <2>3, <3>1, <3>3
      <4> QED
        BY <1>1, <1>3, <2>2, <2>3, <3>2, <3>3, <4>1 DEF OneSession
    <3>4. CASE x # u
      BY <1>1, <2>2, <2>3, <3>2, <3>4 DEF OneSession
    <3> QED
      BY <3>3, <3>4
  <2> QED
    BY <1>1, <2>3, <2>4, <2>5, <2>6 DEF Accounts, OwnTokens, WritesStay
<1> QED
  BY <1>2, <1>3

\* A session is inserted, also of a user that is gone meanwhile.
LEMMA CreateSessionStep ==
    ASSUME Accounts, NEW r \in pending, CreateSession(r)
    PROVE  Accounts'
<1>1. UsersTyped /\ OwnTokens /\ OneSession /\ WritesStay
  BY DEF Accounts
<1>2. PICK i : i = lastId["session"] + 1
  OBVIOUS
<1>3. /\ r.op = "session" /\ session' = With(session, i, r.uid) /\ pending' = pending \ {r}
      /\ UNCHANGED <<user, calls, want, crossed, doubled>>
      /\ tokens' \in {tokens, tokens \cup {[name |-> user[r.uid].name, sig |-> i, uid |-> r.uid]}}
  BY <1>2 DEF CreateSession, GiveToken
<1>4. /\ lastId' \in [Ids -> Nat] /\ lastId'["session"] = i /\ lastId["session"] \in Nat /\ lastId'["user"] = lastId["user"]
  BY <1>1, <1>2, NewIdIs DEF CreateSession, UsersTyped, Ids
<1>5. UserIds' = UserIds /\ r.uid \in UserIds
  BY <1>1, <1>3, <1>4 DEF UserIds, UsersTyped
<1>6. i \in Nat /\ i \in 1..i /\ i \notin 1..lastId["session"] /\ 1..lastId["session"] \subseteq 1..i
  BY <1>2, <1>4
<1>7. i \notin DOMAIN session /\ DOMAIN session' = DOMAIN session \cup {i} /\ session'[i] = r.uid
      /\ \A s \in DOMAIN session : session'[s] = session[s]
  <2>1. i \notin DOMAIN session
    BY <1>1, <1>6 DEF UsersTyped
  <2>2. PICK u : u = r.uid
    OBVIOUS
  <2>3. session' = [s \in DOMAIN session \cup {i} |-> IF s = i THEN u ELSE session[s]]
    BY <1>3, <2>2 DEF With
  <2> QED
    BY <2>1, <2>2, <2>3
<1>8. UsersTyped'
  <2>1. DOMAIN session' \subseteq 1..i
    BY <1>1, <1>6, <1>7 DEF UsersTyped
  <2>2. \A s \in DOMAIN session' : session'[s] \in UserIds
    BY <1>1, <1>5, <1>7 DEF UsersTyped
  <2> QED
    BY <1>1, <1>3, <1>4, <1>5, <2>1, <2>2 DEF UsersTyped
<1>9. OwnTokens'
  <2>1. ASSUME NEW t \in tokens PROVE t.sig \in 1..i /\ (t.sig \in DOMAIN session' => session'[t.sig] = t.uid)
    <3>1. t.sig \in 1..lastId["session"] /\ (t.sig \in DOMAIN session => session[t.sig] = t.uid)
      BY <1>1 DEF OwnTokens
    <3> QED
      BY <1>6, <1>7, <3>1
  <2>2. ASSUME NEW t, t = [name |-> user[r.uid].name, sig |-> i, uid |-> r.uid]
        PROVE  t.sig \in 1..i /\ (t.sig \in DOMAIN session' => session'[t.sig] = t.uid)
    <3>1. t.sig = i /\ t.uid = r.uid
      BY <2>2
    <3> QED
      BY <1>6, <1>7, <3>1
  <2>3. \A t \in tokens' : t.sig \in 1..i /\ (t.sig \in DOMAIN session' => session'[t.sig] = t.uid)
    BY <1>3, <2>1, <2>2
  <2> QED
    BY <1>4, <2>3 DEF OwnTokens
<1>10. OneSession'
  <2>1. SUFFICES ASSUME NEW x \in UserIds, x \notin doubled
                 PROVE  /\ \A s, t \in Sessions(x)' : s = t
                        /\ \A q, p \in pending' : q.op = "session" /\ p.op = "session" /\ q.uid = x /\ p.uid = x => q = p
                        /\ \A q \in pending' : q.op = "session" /\ q.uid = x => Sessions(x)' = {}
    BY <1>3, <1>5 DEF OneSession
  <2>2. /\ \A s, t \in Sessions(x) : s = t
        /\ \A q, p \in pending : q.op = "session" /\ p.op = "session" /\ q.uid = x /\ p.uid = x => q = p
        /\ \A q \in pending : q.op = "session" /\ q.uid = x => Sessions(x) = {}
    BY <1>1, <2>1 DEF OneSession
  <2>3. CASE x = r.uid
    <3>1. Sessions(x)' = {i}
      BY <1>3, <1>7, <2>2, <2>3 DEF Sessions
    <3>2. \A q \in pending' : ~(q.op = "session" /\ q.uid = x)
      BY <1>3, <2>2, <2>3
    <3> QED
      BY <3>1, <3>2
  <2>4. CASE x # r.uid
    <3>1. Sessions(x)' = Sessions(x)
      BY <1>7, <2>4 DEF Sessions
    <3> QED
      BY <1>3, <2>2, <3>1
  <2> QED
    BY <2>3, <2>4
<1>11. WritesStay'
  BY <1>1, <1>3, <1>4 DEF WritesStay
<1> QED
  BY <1>8, <1>9, <1>10, <1>11 DEF Accounts

\* A session ends.
LEMMA LogoutStep ==
    ASSUME Accounts, NEW t \in tokens, Logout(t)
    PROVE  Accounts'
<1>1. /\ session' = Less(session, {t.sig}) /\ calls' = calls + 1
      /\ UNCHANGED <<user, lastId, pending, tokens, want, crossed, doubled>>
  BY DEF Logout, NewCall, history
<1>2. DOMAIN session' \subseteq DOMAIN session /\ \A s \in DOMAIN session' : session'[s] = session[s]
  <2>1. PICK S : S = {t.sig}
    OBVIOUS
  <2>2. session' = [s \in DOMAIN session \ S |-> session[s]]
    BY <1>1, <2>1 DEF Less, Restrict
  <2> QED
    BY <2>2
<1>3. \A u : Sessions(u)' \subseteq Sessions(u)
  BY <1>2 DEF Sessions
<1>4. UsersTyped'
  <2>1. UsersTyped
    BY DEF Accounts
  <2>2. UserIds' = UserIds /\ calls' \in Nat
    BY <1>1, <2>1 DEF UserIds, UsersTyped
  <2>3. \A s \in DOMAIN session' : session'[s] \in UserIds
    BY <1>2, <2>1 DEF UsersTyped
  <2> QED
    BY <1>1, <1>2, <2>1, <2>2, <2>3 DEF UsersTyped
<1>5. OwnTokens' /\ WritesStay'
  BY <1>1, <1>2 DEF Accounts, OwnTokens, WritesStay
<1>6. OneSession'
  BY <1>1, <1>3 DEF Accounts, OneSession, UserIds
<1> QED
  BY <1>4, <1>5, <1>6 DEF Accounts

\* A row of user that is new, with a session to come or without.
LEMMA NewUser ==
    ASSUME Accounts, NEW new, NewId("user", MaxUser),
           user' = With(user, lastId["user"] + 1, new), want' = With(want, lastId["user"] + 1, new),
           UNCHANGED <<session, tokens, crossed, doubled>>, calls' \in Nat,
           \A r \in pending' : \/ r \in pending
                               \/ r.op = "session" /\ r.uid = lastId["user"] + 1,
           \A r, q \in pending' : r.op = "session" /\ q.op = "session" /\ r \notin pending /\ q \notin pending => r = q
    PROVE  Accounts'
<1>1. UsersTyped /\ OwnTokens /\ OneSession /\ WritesStay
  BY DEF Accounts
<1>2. PICK i : i = lastId["user"] + 1
  OBVIOUS
<1>3. /\ lastId' \in [Ids -> Nat] /\ lastId'["user"] = i /\ lastId["user"] \in Nat /\ lastId'["session"] = lastId["session"]
  BY <1>1, <1>2, NewIdIs DEF UsersTyped, Ids
<1>4. /\ i \in Nat /\ UserIds' = 1..i /\ i \in UserIds' /\ i \notin UserIds /\ UserIds \subseteq UserIds'
      /\ \A u \in UserIds' : u # i => u \in UserIds
  BY <1>2, <1>3 DEF UserIds
<1>5. user' = With(user, i, new) /\ want' = With(want, i, new)
  BY <1>2
<1>6. /\ DOMAIN user' = DOMAIN user \cup {i} /\ user'[i] = new /\ \A u \in DOMAIN user : u # i => user'[u] = user[u]
      /\ DOMAIN want' = DOMAIN want \cup {i} /\ want'[i] = new /\ \A u \in DOMAIN want : u # i => want'[u] = want[u]
  <2>1. /\ user' = [u \in DOMAIN user \cup {i} |-> IF u = i THEN new ELSE user[u]]
        /\ want' = [u \in DOMAIN want \cup {i} |-> IF u = i THEN new ELSE want[u]]
    BY <1>5 DEF With
  <2> QED
    BY <2>1
<1>7. \A r \in pending' : r \in pending \/ (r.op = "session" /\ r.uid = i)
  BY <1>2
<1>8. UsersTyped'
  <2>1. DOMAIN user' \subseteq UserIds' /\ \A s \in DOMAIN session' : session'[s] \in UserIds'
    BY <1>1, <1>4, <1>6 DEF UsersTyped
  <2>2. \A r \in pending' : r.op \in {"session", "save"} => r.uid \in UserIds'
    BY <1>1, <1>4, <1>7 DEF UsersTyped
  <2> QED
    BY <1>1, <1>3, <2>1, <2>2 DEF UsersTyped
<1>9. OwnTokens'
  BY <1>1, <1>3 DEF OwnTokens
<1>10. OneSession'
  <2>1. SUFFICES ASSUME NEW x \in UserIds', x \notin doubled
                 PROVE  /\ \A s, t \in Sessions(x) : s = t
                        /\ \A q, p \in pending' : q.op = "session" /\ p.op = "session" /\ q.uid = x /\ p.uid = x => q = p
                        /\ \A q \in pending' : q.op = "session" /\ q.uid = x => Sessions(x) = {}
    BY DEF OneSession, Sessions
  <2>2. CASE x = i
    <3>1. Sessions(x) = {} /\ \A r \in pending : ~(r.op = "session" /\ r.uid = i)
      BY <1>1, <1>4, <2>2 DEF UsersTyped, Sessions
    <3> QED
      BY <2>2, <3>1
  <2>3. CASE x # i
    <3>1. x \in UserIds
      BY <1>4, <2>1, <2>3
    <3> QED
      BY <1>1, <1>7, <2>1, <2>3, <3>1 DEF OneSession
  <2> QED
    BY <2>2, <2>3
<1>11. WritesStay'
  <2>1. \A u \in UserIds : Kept(u)
    BY <1>1 DEF WritesStay, Kept, UserIds
  <2>2. ASSUME NEW u \in UserIds' PROVE Kept(u)'
    <3>1. CASE u = i
      BY <1>6, <3>1 DEF Kept
    <3>2. CASE u # i
      BY <1>4, <1>6, <2>1, <3>2 DEF Kept
    <3> QED
      BY <3>1, <3>2
  <2> QED
    BY <2>2 DEF WritesStay, Kept, UserIds
<1> QED
  BY <1>8, <1>9, <1>10, <1>11 DEF Accounts

\* What is written of the users in one statement, or by a Save, while the sessions
\* stay and no request for one is added.
LEMMA UsersWritten ==
    ASSUME Accounts, UNCHANGED <<session, lastId, tokens, doubled>>, calls' \in Nat,
           DOMAIN user' \subseteq UserIds, \A u \in UserIds : Kept(u)',
           \A r \in pending' : r \in pending \/ (r.op = "save" /\ r.uid \in UserIds)
    PROVE  Accounts'
<1>1. UsersTyped /\ OwnTokens /\ OneSession /\ WritesStay
  BY DEF Accounts
<1>2. UserIds' = UserIds /\ \A x : Sessions(x)' = Sessions(x)
  BY DEF UserIds, Sessions
<1>3. UsersTyped'
  BY <1>1, <1>2 DEF UsersTyped
<1>4. OwnTokens'
  BY <1>1 DEF OwnTokens
<1>5. OneSession'
  <2>1. \A r \in pending' : r.op = "session" => r \in pending
    OBVIOUS
  <2> QED
    BY <1>1, <1>2, <2>1 DEF OneSession
<1>6. WritesStay'
  BY <1>2 DEF WritesStay, Kept, UserIds
<1> QED
  BY <1>3, <1>4, <1>5, <1>6 DEF Accounts

\* A row is read that Save will write.
LEMMA FindStep ==
    ASSUME Accounts, NEW u, NEW column, NEW value, Find(u, column, value)
    PROVE  Accounts'
<1>1. UsersTyped /\ WritesStay
  BY DEF Accounts
<1>2. PICK q : q = [op |-> "save", uid |-> u, row |-> user[u], column |-> column, value |-> value]
  OBVIOUS
<1>3. q.op = "save" /\ q.uid = u
  BY <1>2
<1>4. pending' = pending \cup {q} /\ u \in DOMAIN user /\ calls' = calls + 1 /\ UNCHANGED <<rows, history>>
  BY <1>2 DEF Find, Flying, NewCall
<1>5. UNCHANGED <<user, session, lastId, tokens, want, crossed, doubled>>
  BY <1>4 DEF rows, history
<1>6. u \in UserIds /\ calls' \in Nat /\ DOMAIN user' \subseteq UserIds
  BY <1>1, <1>4, <1>5 DEF UsersTyped
<1>7. \A x \in UserIds : Kept(x)'
  BY <1>1, <1>5 DEF WritesStay, Kept, UserIds
<1> QED
  BY <1>3, <1>4, <1>5, <1>6, <1>7, UsersWritten

\* The profile is set, or the row deleted.
LEMMA UserStatement ==
    ASSUME Accounts, NEW u \in 1..MaxUser,
           (\E value \in Values : UpdateUser(u, value)) \/ \E a \in Authenticated : AdminUserDelete(a, u)
    PROVE  Accounts'
<1>1. UsersTyped /\ WritesStay
  BY DEF Accounts
<1>2. \A x \in UserIds : Kept(x)
  BY <1>1 DEF WritesStay, Kept, UserIds
<1>3. UNCHANGED <<session, lastId, pending, tokens, crossed, doubled>> /\ calls' = calls + 1 /\ calls' \in Nat
  BY <1>1 DEF UpdateUser, AdminUserDelete, NewCall, UsersTyped
<1>4. ASSUME NEW value \in Values, UpdateUser(u, value) PROVE Accounts'
  <2>1. /\ u \in DOMAIN user /\ user' = [user EXCEPT ![u].profile = value]
        /\ want' = IF u \in DOMAIN want THEN [want EXCEPT ![u].profile = value] ELSE want
    BY <1>4 DEF UpdateUser
  <2>2. DOMAIN user' = DOMAIN user /\ \A x \in DOMAIN user : user'[x] = IF x = u THEN [user[u] EXCEPT !.profile = value] ELSE user[x]
    BY <2>1
  <2>3. DOMAIN want' = DOMAIN want /\ \A x \in DOMAIN want : want'[x] = IF x = u THEN [want[u] EXCEPT !.profile = value] ELSE want[x]
    BY <2>1
  <2>4. \A x \in UserIds : Kept(x)'
    BY <1>2, <1>3, <2>2, <2>3 DEF Kept
  <2> QED
    BY <1>1, <1>3, <2>2, <2>4, UsersWritten DEF UsersTyped
<1>5. ASSUME NEW a \in Authenticated, AdminUserDelete(a, u) PROVE Accounts'
  <2>1. PICK S : S = {u}
    OBVIOUS
  <2>2. user' = Less(user, S) /\ want' = Less(want, S)
    BY <1>5, <2>1 DEF AdminUserDelete
  <2>3. /\ DOMAIN user' = DOMAIN user \ S /\ \A x \in DOMAIN user \ S : user'[x] = user[x]
        /\ DOMAIN want' = DOMAIN want \ S /\ \A x \in DOMAIN want \ S : want'[x] = want[x]
    BY <2>2 DEF Less, Restrict
  <2>4. \A x \in UserIds : Kept(x)'
    BY <1>2, <1>3, <2>3 DEF Kept
  <2> QED
    BY <1>1, <1>3, <2>3, <2>4, UsersWritten DEF UsersTyped
<1> QED
  BY <1>4, <1>5

\* Save writes the row as it was read, and one column as it was asked to.
LEMMA SaveStep ==
    ASSUME Accounts, NEW r \in pending, Save(r)
    PROVE  Accounts'
<1>1. UsersTyped /\ WritesStay
  BY DEF Accounts
<1>2. PICK u : u = r.uid
  OBVIOUS
<1>3. u \in UserIds /\ pending' = pending \ {r} /\ UNCHANGED <<session, lastId, calls, tokens, doubled>> /\ calls' \in Nat
  BY <1>1, <1>2 DEF UsersTyped, Save
<1>4. /\ crossed' = IF u \in DOMAIN user /\ user[u] = r.row THEN crossed ELSE crossed \cup {u}
      /\ (u \in DOMAIN user => user' = [user EXCEPT ![u] = Saved(r)])
      /\ (u \notin DOMAIN user => user' \in {user, With(user, u, Saved(r))})
      /\ want' = IF u \in DOMAIN want THEN [want EXCEPT ![u][r.column] = r.value] ELSE want
  BY <1>2 DEF Save
<1>5. /\ DOMAIN user' \subseteq UserIds /\ \A x \in UserIds : x # u => /\ (x \in DOMAIN user' <=> x \in DOMAIN user)
                                                                        /\ (x \in DOMAIN user => user'[x] = user[x])
  <2>1. CASE u \in DOMAIN user
    BY <1>1, <1>4, <2>1 DEF UsersTyped
  <2>2. CASE user' = user
    BY <1>1, <2>2 DEF UsersTyped
  <2>3. CASE user' = With(user, u, Saved(r))
    <3>1. PICK v : v = Saved(r)
      OBVIOUS
    <3>2. DOMAIN user' = DOMAIN user \cup {u} /\ \A x \in DOMAIN user : x # u => user'[x] = user[x]
      <4>1. user' = [x \in DOMAIN user \cup {u} |-> IF x = u THEN v ELSE user[x]]
        BY <2>3, <3>1 DEF With
      <4> QED
        BY <4>1
    <3> QED
      BY <1>1, <1>3, <3>2 DEF UsersTyped
  <2> QED
    BY <1>4, <2>1, <2>2, <2>3
<1>6. DOMAIN want' = DOMAIN want /\ \A x \in DOMAIN want : want'[x] = IF x = u THEN [want[u] EXCEPT ![r.column] = r.value] ELSE want[x]
  BY <1>4
<1>7. ASSUME NEW x \in UserIds PROVE Kept(x)'
  <2>1. Kept(x)
    BY <1>1 DEF WritesStay, Kept, UserIds
  <2>2. CASE x # u
    BY <1>4, <1>5, <1>6, <2>1, <2>2 DEF Kept
  <2>3. CASE x = u /\ u \in DOMAIN user /\ user[u] = r.row
    <3>1. user'[u] = [user[u] EXCEPT ![r.column] = r.value] /\ DOMAIN user' = DOMAIN user
      BY <1>4, <2>3 DEF Saved
    <3> QED
      BY <1>4, <1>6, <2>1, <2>3, <3>1 DEF Kept
  <2>4. CASE x = u /\ ~(u \in DOMAIN user /\ user[u] = r.row)
    BY <1>4, <2>4 DEF Kept
  <2> QED
    BY <2>2, <2>3, <2>4
<1> QED
  BY <1>3, <1>5, <1>7, UsersWritten

-----------------------------------------------------------------------------
(* Teams and their members                                                       *)

\* Requests for teams, and ids of teams and members, are as they were given out.
TeamIds == 1..lastId["team"]
FillType == [op : {"fill"}, n : Nat, tid : TeamIds, add : SUBSET Nat, seen : SUBSET Nat]
BindType == [op : {"bind"}, n : Nat, tid : TeamIds, add : SUBSET Nat, seen : SUBSET Nat, drop : SUBSET Nat]
Fills(r) == r.op \in {"fill", "bind"}
TeamsTyped ==
    /\ \A r \in pending : \/ r.op \in {"session", "save", "create", "deleted"}
                          \/ r \in FillType \/ r \in BindType
    /\ DOMAIN team \subseteq TeamIds
    /\ \A m \in DOMAIN member : member[m] \in [tid : TeamIds, uid : Nat] /\ m \in 1..lastId["member"]

\* Users that a request is about to insert without looking again.
Awaited(r) == IF r.op = "fill" THEN r.add ELSE r.seen
IsIn(t, u) == \E m \in DOMAIN member : member[m].tid = t /\ member[m].uid = u

\* A request that fills a team is the only one that does, its team is there, and whom
\* it inserts next is no member.
Filling ==
    \A r \in pending : Fills(r) /\ r.tid \notin mingled =>
        /\ r.tid \in DOMAIN team
        /\ \A q \in pending : Fills(q) /\ q.tid = r.tid => q = r
        /\ \A u \in Awaited(r) : ~IsIn(r.tid, u)

Belonging ==
    \A m \in DOMAIN member : member[m].tid \notin mingled =>
        /\ member[m].tid \in DOMAIN team \/ [op |-> "deleted", tid |-> member[m].tid] \in pending
        /\ \A o \in DOMAIN member \ {m} : member[o] # member[m]

Teamed == TeamsTyped /\ Filling /\ Belonging

\* At first every member has a team and nothing is under way.
LEMMA TeamedInit == UicInit => Teamed
<1> SUFFICES ASSUME UicInit PROVE Teamed
  OBVIOUS
<1>1. PICK s \in UicStart : team = s.team /\ member = s.member /\ lastId = s.last
  BY DEF UicInit
<1>2. /\ DOMAIN s.team \subseteq 1..s.last["team"] /\ DOMAIN s.member \subseteq 1..s.last["member"]
      /\ \A m \in DOMAIN s.member : s.member[m] \in [tid : DOMAIN s.team, uid : Nat]
      /\ \A m, o \in DOMAIN s.member : s.member[m] = s.member[o] => m = o
  BY UicAssumption
<1>3. pending = {}
  BY DEF UicInit
<1>4. TeamsTyped
  <2>1. \A m \in DOMAIN member : member[m] \in [tid : TeamIds, uid : Nat]
    BY <1>1, <1>2 DEF TeamIds
  <2> QED
    BY <1>1, <1>2, <1>3, <2>1 DEF TeamsTyped, TeamIds
<1>5. Filling
  BY <1>3 DEF Filling
<1>6. Belonging
  BY <1>1, <1>2 DEF Belonging
<1> QED
  BY <1>4, <1>5, <1>6 DEF Teamed

\* A type of requests keeps its requests when more teams have ids.
LEMMA TypesGrow ==
    ASSUME TeamIds \subseteq TeamIds'
    PROVE  FillType \subseteq FillType' /\ BindType \subseteq BindType'
BY DEF FillType, BindType

\* Requests of teams that are still at work.
TeamRequests == {r \in pending : r.op \in {"fill", "bind", "deleted"}}

\* Requests of users and sessions leave the teams as they are.
LEMMA TeamsRest ==
    ASSUME Teamed, UNCHANGED <<team, member, mingled>>,
           lastId'["team"] = lastId["team"], lastId'["member"] = lastId["member"],
           TeamRequests' = TeamRequests,
           \A r \in pending' : r \in pending \/ r.op \in {"session", "save", "create"}
    PROVE  Teamed'
<1>1. \A r : r.op \in {"fill", "bind", "deleted"} => (r \in pending' <=> r \in pending)
  BY DEF TeamRequests
<1>2. TeamIds' = TeamIds /\ FillType' = FillType /\ BindType' = BindType
  BY DEF TeamIds, FillType, BindType
<1>3. TeamsTyped'
  BY <1>2 DEF Teamed, TeamsTyped
<1>4. Filling'
  BY <1>1 DEF Teamed, Filling, Fills, Awaited, IsIn
<1>5. Belonging'
  <2>1. \A t : [op |-> "deleted", tid |-> t].op = "deleted"
    OBVIOUS
  <2> QED
    BY <1>1, <2>1 DEF Teamed, Belonging
<1> QED
  BY <1>3, <1>4, <1>5 DEF Teamed

\* A team is created, whose members are to be inserted.
LEMMA CreateTeamStep ==
    ASSUME Accounts, Teamed, NEW u, NEW us \in SUBSET DOMAIN user, CreateTeam(u, us)
    PROVE  Teamed' /\ Accounts'
<1>1. UsersTyped /\ TeamsTyped /\ Filling /\ Belonging
  BY DEF Accounts, Teamed
<1>2. PICK t : t = lastId["team"] + 1
  OBVIOUS
<1>3. PICK q : q = [op |-> "fill", n |-> calls, tid |-> t, add |-> us, seen |-> {}]
  OBVIOUS
<1>4. q.op = "fill" /\ q.tid = t /\ q.add = us
  BY <1>3
<1>5. /\ team' = With(team, t, u) /\ pending' = pending \cup {q} /\ calls' = calls + 1
      /\ UNCHANGED <<user, session, member, history>>
  BY <1>2, <1>3 DEF CreateTeam, Flying, NewCall
<1>6. /\ lastId' \in [Ids -> Nat] /\ lastId'["team"] = t /\ lastId["team"] \in Nat
      /\ lastId'["user"] = lastId["user"] /\ lastId'["session"] = lastId["session"] /\ lastId'["member"] = lastId["member"]
  BY <1>1, <1>2, NewIdIs DEF CreateTeam, UsersTyped, Ids
<1>7. UNCHANGED <<tokens, want, crossed, doubled, mingled>>
  BY <1>5 DEF history
<1>8. Accounts'
  <2>1. AccountRequests' = AccountRequests
    BY <1>4, <1>5 DEF AccountRequests
  <2>2. calls' \in Nat
    BY <1>1, <1>5 DEF UsersTyped
  <2> QED
    BY <1>5, <1>6, <1>7, <2>1, <2>2, AccountsRest
<1>9. t \in TeamIds' /\ t \notin TeamIds /\ TeamIds \subseteq TeamIds'
  BY <1>2, <1>6 DEF TeamIds
<1>10. DOMAIN team' = DOMAIN team \cup {t}
  BY <1>5 DEF With
<1>11. \A r \in pending : Fills(r) => r.tid \in TeamIds
  BY <1>1 DEF TeamsTyped, Fills, FillType, BindType
<1>12. TeamsTyped'
  <2>1. q \in FillType'
    <3>1. us \subseteq Nat /\ calls \in Nat
      BY <1>1 DEF UsersTyped, UserIds
    <3> QED
      BY <1>3, <1>9, <3>1 DEF FillType
  <2>2. \A m \in DOMAIN member' : member'[m] \in [tid : TeamIds', uid : Nat] /\ m \in 1..lastId'["member"]
    BY <1>1, <1>5, <1>6, <1>9 DEF TeamsTyped
  <2> QED
    BY <1>1, <1>5, <1>9, <1>10, <2>1, <2>2, TypesGrow DEF TeamsTyped
<1>13. Filling'
  <2>1. \A x, y : IsIn(x, y)' = IsIn(x, y)
    BY <1>5 DEF IsIn
  <2>2. \A x : ~IsIn(t, x)
    BY <1>1, <1>9 DEF IsIn, TeamsTyped
  <2> QED
    BY <1>1, <1>4, <1>5, <1>7, <1>9, <1>10, <1>11, <2>1, <2>2 DEF Filling, Fills, Awaited
<1>14. Belonging'
  BY <1>1, <1>5, <1>7, <1>10 DEF Belonging
<1> QED
  BY <1>8, <1>12, <1>13, <1>14 DEF Teamed

\* What a request for users of a team leaves: users and sessions are as they were.
LEMMA AccountsKept ==
    ASSUME Accounts, UNCHANGED <<user, session, tokens, want, crossed, doubled>>, calls' \in {calls, calls + 1},
           lastId' = lastId, NEW old, NEW new, pending' = (pending \ old) \cup new,
           \A r \in old \cup new : r.op \notin {"session", "save"}
    PROVE  Accounts'
<1>1. AccountRequests' = AccountRequests
  BY DEF AccountRequests
<1>2. lastId \in [Ids -> Nat] /\ calls' \in Nat
  BY DEF Accounts, UsersTyped
<1> QED
  BY <1>1, <1>2, AccountsRest

\* Members are to be bound to a team that is there.
LEMMA BindStep ==
    ASSUME Accounts, Teamed, NEW u, NEW t \in 1..MaxTeam, NEW us \in SUBSET DOMAIN user,
           UpdateTeam(u, t, us) \/ AddTeamUsers(u, t, us)
    PROVE  Teamed' /\ Accounts'
<1>1. UsersTyped /\ TeamsTyped /\ Filling /\ Belonging
  BY DEF Accounts, Teamed
<1>2. PICK add \in SUBSET us, drop \in SUBSET DOMAIN member :
        pending' = pending \cup {[op |-> "bind", n |-> calls, tid |-> t, add |-> add, seen |-> {}, drop |-> drop]}
  <2>1. Unwanted(t, us) \subseteq DOMAIN member
    BY DEF Unwanted, MembersOf
  <2> QED
    BY <2>1 DEF UpdateTeam, AddTeamUsers, Flying
<1>3. PICK q : q = [op |-> "bind", n |-> calls, tid |-> t, add |-> add, seen |-> {}, drop |-> drop]
  OBVIOUS
<1>4. q.op = "bind" /\ q.tid = t /\ q.seen = {} /\ pending' = pending \cup {q}
  BY <1>2, <1>3
<1>5. t \in DOMAIN team /\ Mingle(t) /\ UNCHANGED <<rows, tokens, want, crossed, doubled>> /\ calls' = calls + 1
  BY DEF UpdateTeam, AddTeamUsers, MayManage, NewCall
<1>6. UNCHANGED <<user, session, team, member, lastId>>
  BY <1>5 DEF rows
<1>7. /\ mingled \subseteq mingled'
      /\ t \notin mingled' => \A r \in pending : ~(Fills(r) /\ r.tid = t)
  BY <1>5 DEF Mingle, Changing, Fills
<1>8. Accounts'
  <2>1. PICK new : new = {q}
    OBVIOUS
  <2>2. pending' = (pending \ {}) \cup new /\ \A r \in {} \cup new : r.op \notin {"session", "save"}
    BY <1>4, <2>1
  <2> QED
    BY <1>5, <1>6, <2>2, AccountsKept
<1>9. TeamsTyped'
  <2>1. q \in BindType
    <3>1. us \subseteq Nat /\ calls \in Nat /\ DOMAIN member \subseteq Nat /\ t \in TeamIds
      BY <1>1, <1>5 DEF UsersTyped, UserIds, TeamsTyped
    <3> QED
      BY <1>3, <3>1 DEF BindType
  <2>2. FillType' = FillType /\ BindType' = BindType /\ TeamIds' = TeamIds
    BY <1>6 DEF FillType, BindType, TeamIds
  <2> QED
    BY <1>1, <1>4, <1>6, <2>1, <2>2 DEF TeamsTyped
<1>10. Filling'
  <2>1. \A x, y : IsIn(x, y)' = IsIn(x, y)
    BY <1>6 DEF IsIn
  <2> QED
    BY <1>1, <1>4, <1>5, <1>6, <1>7, <2>1 DEF Filling, Fills, Awaited
<1>11. Belonging'
  BY <1>1, <1>4, <1>6, <1>7 DEF Belonging
<1> QED
  BY <1>8, <1>9, <1>10, <1>11 DEF Teamed

\* A request goes on or ends, and members may go.
LEMMA FillGoesOn ==
    ASSUME Accounts, Teamed, NEW r \in pending, Fills(r), NEW next, pending' = (pending \ {r}) \cup next,
           \A q \in next : /\ q.op = r.op /\ q.tid = r.tid /\ q \in FillType \cup BindType
                           /\ \A u \in Awaited(q) : u \in Awaited(r) \/ ~IsIn(r.tid, u),
           \A p, q \in next : p = q,
           UNCHANGED <<user, session, team, lastId, calls, history>>,
           DOMAIN member' \subseteq DOMAIN member, \A m \in DOMAIN member' : member'[m] = member[m]
    PROVE  Teamed' /\ Accounts'
<1>1. UsersTyped /\ TeamsTyped /\ Filling /\ Belonging
  BY DEF Accounts, Teamed
<1>2. UNCHANGED <<tokens, want, crossed, doubled, mingled>>
  BY DEF history
<1>3. Accounts'
  <2>1. PICK old : old = {r}
    OBVIOUS
  <2>2. pending' = (pending \ old) \cup next /\ \A q \in old \cup next : q.op \notin {"session", "save"}
    BY <2>1 DEF Fills
  <2>3. \A q \in old \cup next : q.op \notin {"session", "save"}
    BY <2>2
  <2> QED
    BY <1>2, <2>2, <2>3, AccountsKept
<1>4. FillType' = FillType /\ BindType' = BindType /\ TeamIds' = TeamIds
  BY DEF FillType, BindType, TeamIds
<1>5. TeamsTyped'
  BY <1>1, <1>4 DEF TeamsTyped
<1>6. Filling'
  <2>1. \A x, y : IsIn(x, y)' => IsIn(x, y)
    BY DEF IsIn
  <2>2. SUFFICES ASSUME NEW q \in pending', Fills(q), q.tid \notin mingled
                 PROVE  /\ q.tid \in DOMAIN team
                        /\ \A p \in pending' : Fills(p) /\ p.tid = q.tid => p = q
                        /\ \A u \in Awaited(q) : ~IsIn(q.tid, u)'
    BY <1>2 DEF Filling, Fills, Awaited
  <2>3. CASE q \in next
    <3>1. q.tid = r.tid
      BY <2>3
    <3>2. /\ r.tid \in DOMAIN team /\ \A p \in pending : Fills(p) /\ p.tid = r.tid => p = r
          /\ \A u \in Awaited(r) : ~IsIn(r.tid, u)
      BY <1>1, <2>2, <3>1 DEF Filling
    <3>3. \A p \in pending' : Fills(p) /\ p.tid = q.tid => p = q
      BY <2>3, <3>1, <3>2
    <3> QED
      BY <2>1, <2>3, <3>1, <3>2, <3>3
  <2>4. CASE q \in pending /\ q # r
    <3>1. /\ q.tid \in DOMAIN team /\ \A p \in pending : Fills(p) /\ p.tid = q.tid => p = q
          /\ \A u \in Awaited(q) : ~IsIn(q.tid, u)
      BY <1>1, <2>2, <2>4 DEF Filling
    <3>2. r.tid # q.tid
      BY <2>4, <3>1
    <3> QED
      BY <2>1, <2>4, <3>1, <3>2
  <2> QED
    BY <2>3, <2>4
<1>7. Belonging'
  <2>1. \A t : [op |-> "deleted", tid |-> t] # r
    BY DEF Fills
  <2> QED
    BY <1>1, <1>2, <2>1 DEF Belonging
<1> QED
  BY <1>3, <1>5, <1>6, <1>7 DEF Teamed

\* Members go, whom the request does not name; or it failed at that.
LEMMA UnbindStep ==
    ASSUME Accounts, Teamed, NEW r \in pending, Unbind(r)
    PROVE  Teamed' /\ Accounts'
<1>1. Fills(r) /\ r.op = "bind" /\ UNCHANGED <<user, session, team, lastId, calls, history>>
  BY DEF Unbind, Fills
<1>2. r \in BindType
  BY <1>1 DEF Teamed, TeamsTyped, FillType
<1>3. PICK S : member' = Less(member, S)
  BY DEF Unbind
<1>4. DOMAIN member' \subseteq DOMAIN member /\ \A m \in DOMAIN member' : member'[m] = member[m]
  BY <1>3 DEF Less, Restrict
<1>5. PICK q : q = [r EXCEPT !.drop = {}]
  OBVIOUS
<1>6. q \in BindType /\ q.op = r.op /\ q.tid = r.tid /\ q.seen = r.seen
  BY <1>2, <1>5 DEF BindType
<1>7. PICK next \in {{}, {q}} : pending' = (pending \ {r}) \cup next
  BY <1>5 DEF Unbind, Goes
<1>8. \A p \in next : /\ p.op = r.op /\ p.tid = r.tid /\ p \in FillType \cup BindType
                      /\ \A u \in Awaited(p) : u \in Awaited(r) \/ ~IsIn(r.tid, u)
  BY <1>1, <1>6 DEF Awaited
<1>9. \A p, s \in next : p = s
  OBVIOUS
<1> QED
  BY <1>1, <1>4, <1>7, <1>8, <1>9, FillGoesOn

\* One that is to be added is looked for.
LEMMA LookStep ==
    ASSUME Accounts, Teamed, NEW r \in pending, LookForMember(r)
    PROVE  Teamed' /\ Accounts'
<1>1. Fills(r) /\ r.op = "bind" /\ UNCHANGED <<user, session, team, member, lastId, calls, history>>
  BY DEF LookForMember, Fills, rows
<1>2. r \in BindType
  BY <1>1 DEF Teamed, TeamsTyped, FillType
<1>3. PICK u \in r.add : Goes(r, {[r EXCEPT !.add = @ \ {u}, !.seen = IF Look(r, u) = {} THEN {u} ELSE {}]})
  BY DEF LookForMember
<1>4. PICK seen : seen = IF Look(r, u) = {} THEN {u} ELSE {}
  OBVIOUS
<1>5. PICK q : q = [r EXCEPT !.add = @ \ {u}, !.seen = seen]
  OBVIOUS
<1>6. u \in Nat /\ seen \subseteq Nat
  BY <1>2, <1>4 DEF BindType
<1>7. q \in BindType /\ q.op = r.op /\ q.tid = r.tid /\ q.seen = seen
  BY <1>2, <1>5, <1>6 DEF BindType
<1>8. PICK next : next = {q}
  OBVIOUS
<1>9. pending' = (pending \ {r}) \cup next
  BY <1>3, <1>4, <1>5, <1>8 DEF Goes
<1>10. \A x \in seen : ~IsIn(r.tid, x)
  BY <1>4 DEF Look, MembersOf, IsIn
<1>11. \A p \in next : /\ p.op = r.op /\ p.tid = r.tid /\ p \in FillType \cup BindType
                       /\ \A x \in Awaited(p) : x \in Awaited(r) \/ ~IsIn(r.tid, x)
  BY <1>1, <1>7, <1>8, <1>10 DEF Awaited
<1>12. \A p, s \in next : p = s
  BY <1>8
<1> QED
  BY <1>1, <1>9, <1>11, <1>12, FillGoesOn

\* Nothing is left to do.
LEMMA LeaveStep ==
    ASSUME Accounts, Teamed, NEW r \in pending, Leave(r)
    PROVE  Teamed' /\ Accounts'
<1>1. Fills(r) /\ UNCHANGED <<user, session, team, member, lastId, calls, history>>
  BY DEF Leave, Fills, rows
<1>2. PICK next : next = {}
  OBVIOUS
<1>3. pending' = (pending \ {r}) \cup next
  BY <1>2 DEF Leave, Goes
<1> QED
  BY <1>1, <1>2, <1>3, FillGoesOn

\* A member is inserted.
LEMMA InsertStep ==
    ASSUME Accounts, Teamed, NEW r \in pending, Fills(r), NEW u \in Awaited(r), NEW q, NEW next, next = {q},
           Insert(r, u, next), q \in FillType \cup BindType, q.op = r.op, q.tid = r.tid, Awaited(q) \subseteq Awaited(r) \ {u}
    PROVE  Teamed' /\ Accounts'
<1>1. UsersTyped /\ TeamsTyped /\ Filling /\ Belonging
  BY DEF Accounts, Teamed
<1>2. PICK i, t : i = lastId["member"] + 1 /\ t = r.tid
  OBVIOUS
<1>3. PICK row : row = [tid |-> t, uid |-> u]
  OBVIOUS
<1>4. /\ member' = With(member, i, row) /\ pending' = (pending \ {r}) \cup {q}
      /\ UNCHANGED <<user, session, team, calls, tokens, want, crossed, doubled, mingled>>
  BY <1>2, <1>3 DEF Insert, Goes
<1>5. /\ lastId' \in [Ids -> Nat] /\ lastId'["member"] = i /\ lastId["member"] \in Nat
      /\ lastId'["user"] = lastId["user"] /\ lastId'["session"] = lastId["session"] /\ lastId'["team"] = lastId["team"]
  BY <1>1, <1>2, NewIdIs DEF Insert, UsersTyped, Ids
<1>6. r \in FillType \cup BindType
  BY <1>1 DEF TeamsTyped, Fills
<1>7. row.tid = t /\ row.uid = u /\ row \in [tid : TeamIds, uid : Nat]
  <2>1. t \in TeamIds /\ u \in Nat
    BY <1>2, <1>6 DEF FillType, BindType, Awaited
  <2> QED
    BY <1>3, <2>1
<1>8. i \notin DOMAIN member /\ i \in 1..i /\ 1..lastId["member"] \subseteq 1..i
  BY <1>1, <1>2, <1>5 DEF TeamsTyped
<1>9. DOMAIN member' = DOMAIN member \cup {i} /\ member'[i] = row /\ \A m \in DOMAIN member : member'[m] = member[m]
  BY <1>4, <1>8 DEF With
<1>10. Accounts'
  <2>1. AccountRequests' = AccountRequests
    BY <1>4 DEF AccountRequests, Fills
  <2>2. calls' \in Nat
    BY <1>1, <1>4 DEF UsersTyped
  <2> QED
    BY <1>4, <1>5, <2>1, <2>2, AccountsRest
<1>11. FillType' = FillType /\ BindType' = BindType /\ TeamIds' = TeamIds
  BY <1>5 DEF FillType, BindType, TeamIds
<1>12. TeamsTyped'
  <2>1. \A m \in DOMAIN member' : member'[m] \in [tid : TeamIds, uid : Nat] /\ m \in 1..i
    BY <1>1, <1>7, <1>8, <1>9 DEF TeamsTyped
  <2>2. \A p \in pending' : p.op \in {"session", "save", "create", "deleted"} \/ p \in FillType \/ p \in BindType
    BY <1>1, <1>4 DEF TeamsTyped
  <2> QED
    BY <1>1, <1>4, <1>5, <1>11, <2>1, <2>2 DEF TeamsTyped
<1>13. t \notin mingled => /\ t \in DOMAIN team /\ \A p \in pending : Fills(p) /\ p.tid = t => p = r
                           /\ \A x \in Awaited(r) : ~IsIn(t, x)
  BY <1>1, <1>2 DEF Filling
<1>14. \A x, y : IsIn(x, y)' => IsIn(x, y) \/ (x = t /\ y = u)
  BY <1>7, <1>9 DEF IsIn
<1>15. Filling'
  <2>1. SUFFICES ASSUME NEW p \in pending', Fills(p), p.tid \notin mingled
                 PROVE  /\ p.tid \in DOMAIN team
                        /\ \A s \in pending' : Fills(s) /\ s.tid = p.tid => s = p
                        /\ \A x \in Awaited(p) : ~IsIn(p.tid, x)'
    BY <1>4 DEF Filling, Fills, Awaited
  <2>2. CASE p = q
    BY <1>2, <1>4, <1>13, <1>14, <2>1, <2>2
  <2>3. CASE p \in pending /\ p # r
    <3>1. /\ p.tid \in DOMAIN team /\ \A s \in pending : Fills(s) /\ s.tid = p.tid => s = p
          /\ \A x \in Awaited(p) : ~IsIn(p.tid, x)
      BY <1>1, <2>1, <2>3 DEF Filling
    <3>2. p.tid # t
      BY <1>2, <2>3, <3>1
    <3> QED
      BY <1>2, <1>4, <1>14, <3>1, <3>2
  <2> QED
    BY <1>4, <2>2, <2>3
<1>16. Belonging'
  <2>1. \A x : [op |-> "deleted", tid |-> x] # r
    BY DEF Fills
  <2>2. \A x : [op |-> "deleted", tid |-> x] \in pending => [op |-> "deleted", tid |-> x] \in pending'
    BY <1>4, <2>1
  <2>3. t \notin mingled => \A m \in DOMAIN member : member[m] # row
    BY <1>7, <1>13 DEF IsIn
  <2>4. SUFFICES ASSUME NEW m \in DOMAIN member', member'[m].tid \notin mingled
                 PROVE  /\ member'[m].tid \in DOMAIN team \/ [op |-> "deleted", tid |-> member'[m].tid] \in pending'
                        /\ \A o \in DOMAIN member' \ {m} : member'[o] # member'[m]
    BY <1>4 DEF Belonging
  <2>5. CASE m = i
    BY <1>7, <1>9, <1>13, <2>3, <2>4, <2>5
  <2>6. CASE m \in DOMAIN member
    <3>1. /\ member[m].tid \in DOMAIN team \/ [op |-> "deleted", tid |-> member[m].tid] \in pending
          /\ \A o \in DOMAIN member \ {m} : member[o] # member[m]
      BY <1>1, <1>9, <2>4, <2>6 DEF Belonging
    <3>2. row # member[m]
      BY <1>7, <1>9, <2>3, <2>4, <2>6
    <3> QED
      BY <1>9, <2>2, <2>6, <3>1, <3>2
  <2> QED
    BY <1>9, <2>5, <2>6
<1> QED
  BY <1>10, <1>12, <1>15, <1>16 DEF Teamed

\* The next of a request's members is inserted.
LEMMA MemberStep ==
    ASSUME Accounts, Teamed, NEW r \in pending, InsertMember(r) \/ FillTeam(r)
    PROVE  Teamed' /\ Accounts'
<1>1. CASE InsertMember(r)
  <2>1. Fills(r) /\ r.op = "bind"
    BY <1>1 DEF InsertMember, Fills
  <2>2. r \in BindType
    BY <2>1 DEF Teamed, TeamsTyped, FillType
  <2>3. PICK u \in r.seen : Insert(r, u, {[r EXCEPT !.seen = {}]})
    BY <1>1 DEF InsertMember
  <2>4. PICK q : q = [r EXCEPT !.seen = {}]
    OBVIOUS
  <2>5. q \in BindType /\ q.op = r.op /\ q.tid = r.tid /\ q.seen = {}
    BY <2>2, <2>4 DEF BindType
  <2>6. PICK next : next = {q}
    OBVIOUS
  <2>7. Insert(r, u, next)
    BY <2>3, <2>4, <2>6
  <2>8. u \in Awaited(r) /\ Awaited(q) \subseteq Awaited(r) \ {u} /\ q \in FillType \cup BindType
    BY <2>1, <2>5 DEF Awaited
  <2> QED
    BY <2>1, <2>5, <2>6, <2>7, <2>8, InsertStep
<1>2. CASE FillTeam(r)
  <2>1. Fills(r) /\ r.op = "fill"
    BY <1>2 DEF FillTeam, Fills
  <2>2. r \in FillType
    BY <2>1 DEF Teamed, TeamsTyped, BindType
  <2>3. PICK u \in r.add : Insert(r, u, {[r EXCEPT !.add = @ \ {u}]})
    BY <1>2 DEF FillTeam
  <2>4. PICK q : q = [r EXCEPT !.add = @ \ {u}]
    OBVIOUS
  <2>5. q \in FillType /\ q.op = r.op /\ q.tid = r.tid /\ q.add = r.add \ {u}
    BY <2>2, <2>4 DEF FillType
  <2>6. PICK next : next = {q}
    OBVIOUS
  <2>7. Insert(r, u, next)
    BY <2>3, <2>4, <2>6
  <2>8. u \in Awaited(r) /\ Awaited(q) \subseteq Awaited(r) \ {u} /\ q \in FillType \cup BindType
    BY <2>1, <2>5 DEF Awaited
  <2> QED
    BY <2>1, <2>5, <2>6, <2>7, <2>8, InsertStep
<1> QED
  BY <1>1, <1>2

\* A team is deleted, and then its members.
LEMMA DeleteTeamStep ==
    ASSUME Accounts, Teamed, NEW u, NEW t, DeleteTeam(u, t)
    PROVE  Teamed' /\ Accounts'
<1>1. UsersTyped /\ TeamsTyped /\ Filling /\ Belonging
  BY DEF Accounts, Teamed
<1>2. PICK q : q = [op |-> "deleted", tid |-> t]
  OBVIOUS
<1>3. q.op = "deleted" /\ q.tid = t
  BY <1>2
<1>4. /\ team' = Less(team, {t}) /\ pending' = pending \cup {q} /\ calls' = calls + 1 /\ Mingle(t)
      /\ UNCHANGED <<user, session, member, lastId, tokens, want, crossed, doubled>>
  BY <1>2 DEF DeleteTeam, Flying, NewCall
<1>5. DOMAIN team' = DOMAIN team \ {t}
  BY <1>4 DEF Less, Restrict
<1>6. /\ mingled \subseteq mingled'
      /\ t \notin mingled' => \A r \in pending : ~(Fills(r) /\ r.tid = t)
  BY <1>4 DEF Mingle, Changing, Fills
<1>7. Accounts'
  <2>1. PICK new : new = {q}
    OBVIOUS
  <2>2. pending' = (pending \ {}) \cup new /\ \A r \in {} \cup new : r.op \notin {"session", "save"}
    BY <1>3, <1>4, <2>1
  <2> QED
    BY <1>4, <2>2, AccountsKept
<1>8. TeamsTyped'
  <2>1. FillType' = FillType /\ BindType' = BindType /\ TeamIds' = TeamIds
    BY <1>4 DEF FillType, BindType, TeamIds
  <2> QED
    BY <1>1, <1>3, <1>4, <1>5, <2>1 DEF TeamsTyped
<1>9. Filling'
  <2>1. \A x, y : IsIn(x, y)' = IsIn(x, y)
    BY <1>4 DEF IsIn
  <2>2. \A r \in pending' : Fills(r) => r \in pending
    BY <1>3, <1>4 DEF Fills
  <2> QED
    BY <1>1, <1>5, <1>6, <2>1, <2>2 DEF Filling, Fills, Awaited
<1>10. Belonging'
  <2>1. q \in pending' /\ pending \subseteq pending'
    BY <1>4
  <2> QED
    BY <1>1, <1>2, <1>4, <1>5, <1>6, <2>1 DEF Belonging
<1> QED
  BY <1>7, <1>8, <1>9, <1>10 DEF Teamed

\* The second half of deleting a team takes its members along.
LEMMA DeleteMembersStep ==
    ASSUME Accounts, Teamed, NEW r \in pending, DeleteMembers(r)
    PROVE  Teamed' /\ Accounts'
<1>1. UsersTyped /\ TeamsTyped /\ Filling /\ Belonging
  BY DEF Accounts, Teamed
<1>2. /\ r.op = "deleted" /\ pending' = pending \ {r} /\ member' = Less(member, MembersOf(r.tid))
      /\ UNCHANGED <<user, session, team, lastId, calls, tokens, want, crossed, doubled, mingled>>
  BY DEF DeleteMembers, Goes, history
<1>3. /\ \A m \in DOMAIN member' : m \in DOMAIN member /\ member'[m] = member[m] /\ member[m].tid # r.tid
  BY <1>2 DEF Less, Restrict, MembersOf
<1>4. Accounts'
  <2>1. PICK old : old = {r}
    OBVIOUS
  <2>2. pending' = (pending \ old) \cup {} /\ \A q \in old \cup {} : q.op \notin {"session", "save"}
    BY <1>2, <2>1
  <2> QED
    BY <1>2, <2>2, AccountsKept
<1>5. TeamsTyped'
  <2>1. FillType' = FillType /\ BindType' = BindType /\ TeamIds' = TeamIds
    BY <1>2 DEF FillType, BindType, TeamIds
  <2> QED
    BY <1>1, <1>2, <1>3, <2>1 DEF TeamsTyped
<1>6. Filling'
  <2>1. \A x, y : IsIn(x, y)' => IsIn(x, y)
    BY <1>3 DEF IsIn
  <2> QED
    BY <1>1, <1>2, <2>1 DEF Filling, Fills, Awaited
<1>7. Belonging'
  <2>1. \A x : [op |-> "deleted", tid |-> x].tid = x
    OBVIOUS
  <2>2. ASSUME NEW x, [op |-> "deleted", tid |-> x] \in pending, x # r.tid PROVE [op |-> "deleted", tid |-> x] \in pending'
    BY <1>2, <2>1, <2>2
  <2> QED
    BY <1>1, <1>2, <1>3, <2>2 DEF Belonging
<1> QED
  BY <1>4, <1>5, <1>6, <1>7 DEF Teamed

\* What the teams' requests do keeps all of it.
LEMMA TeamStep ==
    ASSUME Accounts, Teamed, TeamNext
    PROVE  Teamed' /\ Accounts'
BY CreateTeamStep, BindStep, DeleteTeamStep, UnbindStep, LookStep, MemberStep, LeaveStep, DeleteMembersStep DEF TeamNext

\* What the requests of sessions and users do, too.
LEMMA UserStep ==
    ASSUME Accounts, SessionNext \/ UserNext
    PROVE  Accounts'
<1>1. UsersTyped
  BY DEF Accounts
<1>2. ASSUME NEW name, (Login(name) \/ \E a \in Authenticated : AdminLogin(a, name)) PROVE Accounts'
  <2>1. Named(name) # 0 /\ SessionFor(Named(name)) /\ calls' = calls + 1
    BY <1>2 DEF Login, AdminLogin, NewCall
  <2>2. PICK u : u = Named(name)
    OBVIOUS
  <2>3. u \in UserIds /\ SessionFor(u) /\ calls' \in Nat
    BY <1>1, <2>1, <2>2, NamedIs DEF UsersTyped
  <2> QED
    BY <2>3, SessionForStep
<1>3. ASSUME NEW name, CreateUser(name) PROVE Accounts'
  <2>1. PICK q : q = [op |-> "create", n |-> calls, name |-> name]
    OBVIOUS
  <2>2. q.op = "create" /\ pending' = pending \cup {q} /\ UNCHANGED <<rows, history>> /\ calls' = calls + 1
    BY <1>3, <2>1 DEF CreateUser, Flying, NewCall
  <2>3. PICK new : new = {q}
    OBVIOUS
  <2>4. pending' = (pending \ {}) \cup new /\ \A r \in {} \cup new : r.op \notin {"session", "save"}
    BY <2>2, <2>3
  <2>5. UNCHANGED <<user, session, tokens, want, crossed, doubled, lastId>> /\ calls' \in {calls, calls + 1}
    BY <2>2 DEF rows, history
  <2> QED
    BY <2>4, <2>5, AccountsKept
<1>4. ASSUME NEW r \in pending, CreateRow(r) PROVE Accounts'
  <2>1. PICK new : user' = With(user, lastId["user"] + 1, new) /\ want' = With(want, lastId["user"] + 1, new)
    BY <1>4 DEF CreateRow
  <2>2. PICK q : q = [op |-> "session", n |-> r.n, uid |-> lastId["user"] + 1]
    OBVIOUS
  <2>3. q.op = "session" /\ q.uid = lastId["user"] + 1 /\ pending' = (pending \ {r}) \cup {q}
    BY <1>4, <2>2 DEF CreateRow
  <2>4. NewId("user", MaxUser) /\ UNCHANGED <<session, calls, tokens, crossed, doubled>>
    BY <1>4 DEF CreateRow
  <2>5. calls' \in Nat
    BY <1>1, <2>4 DEF UsersTyped
  <2>6. \A s \in pending' : s \in pending \/ s = q
    BY ONLY <2>3
  <2>7. \A s \in pending' : s \in pending \/ (s.op = "session" /\ s.uid = lastId["user"] + 1)
    BY <2>3, <2>6
  <2>8. \A s, p \in pending' : s.op = "session" /\ p.op = "session" /\ s \notin pending /\ p \notin pending => s = p
    BY <2>6
  <2> QED
    BY <2>1, <2>4, <2>5, <2>7, <2>8, NewUser
<1>5. ASSUME NEW a, NEW u, NEW role, ChangeRoleOfUser(a, u, role) PROVE Accounts'
  <2>1. CASE Find(u, "role", role)
    BY <2>1, FindStep
  <2>2. CASE ~Find(u, "role", role)
    <3>1. PICK new : user' = With(user, lastId["user"] + 1, new) /\ want' = With(want, lastId["user"] + 1, new)
      BY <1>5, <2>2 DEF ChangeRoleOfUser
    <3>2. NewId("user", MaxUser) /\ UNCHANGED <<session, pending, tokens, crossed, doubled>> /\ calls' = calls + 1
      BY <1>5, <2>2 DEF ChangeRoleOfUser, NewCall
    <3>3. calls' \in Nat
      BY <1>1, <3>2 DEF UsersTyped
    <3> QED
      BY <3>1, <3>2, <3>3, NewUser
  <2> QED
    BY <2>1, <2>2
<1> QED
  BY <1>2, <1>3, <1>4, <1>5, LogoutStep, CreateSessionStep, UserStatement, FindStep, SaveStep
     DEF SessionNext, UserNext, AdminChangePassword, ChangePassword

\* They leave the teams alone.
LEMMA UserTeams ==
    ASSUME Accounts, Teamed, SessionNext \/ UserNext
    PROVE  Teamed'
<1>1. UNCHANGED <<team, member, mingled>>
  BY DEF SessionNext, UserNext, Login, AdminLogin, SessionFor, CreateSession, Logout, CreateUser, CreateRow, UpdateUser,
         AdminChangePassword, ChangePassword, ChangeRoleOfUser, Find, Save, AdminUserDelete, rows, history
<1>2. lastId'["team"] = lastId["team"] /\ lastId'["member"] = lastId["member"]
  <2>1. lastId' = lastId \/ NewId("user", MaxUser) \/ NewId("session", MaxSession)
    BY DEF SessionNext, UserNext, Login, AdminLogin, SessionFor, CreateSession, Logout, CreateUser, CreateRow, UpdateUser,
         AdminChangePassword, ChangePassword, ChangeRoleOfUser, Find, Save, AdminUserDelete, rows
  <2> QED
    BY <2>1, NewIdIs DEF Accounts, UsersTyped, Ids
<1>3. PICK old, new : /\ pending' = (pending \ old) \cup new
                      /\ \A r \in old \cup new : r.op \in {"session", "save", "create"}
  <2> DEFINE Moves(old, new) == /\ pending' = (pending \ old) \cup new
                                /\ \A r \in old \cup new : r.op \in {"session", "save", "create"}
  <2>1. ASSUME NEW u, SessionFor(u) PROVE \E old, new : Moves(old, new)
    <3>1. CASE UNCHANGED pending
      <4>1. Moves({}, {})
        BY <3>1
      <4> QED
        BY <4>1
    <3>2. CASE ~UNCHANGED pending
      <4>1. PICK new : new = {[op |-> "session", n |-> calls, uid |-> u]}
        OBVIOUS
      <4>2. Moves({}, new)
        BY <2>1, <3>2, <4>1 DEF SessionFor, Flying
      <4> QED
        BY <4>2
    <3> QED
      BY <3>1, <3>2
  <2>2. ASSUME NEW r \in pending, CreateSession(r) \/ Save(r) PROVE \E old, new : Moves(old, new)
    <3>1. PICK old : old = {r}
      OBVIOUS
    <3>2. Moves(old, {}) /\ old \subseteq pending
      BY <2>2, <3>1 DEF CreateSession, Save
    <3> QED
      BY <3>2
  <2>3. ASSUME NEW r \in pending, CreateRow(r) PROVE \E old, new : Moves(old, new)
    <3>1. PICK old, new : old = {r} /\ new = {[op |-> "session", n |-> r.n, uid |-> lastId["user"] + 1]}
      OBVIOUS
    <3>2. Moves(old, new) /\ old \subseteq pending
      BY <2>3, <3>1 DEF CreateRow
    <3> QED
      BY <3>2
  <2>4. ASSUME NEW name, CreateUser(name) PROVE \E old, new : Moves(old, new)
    <3>1. PICK new : new = {[op |-> "create", n |-> calls, name |-> name]}
      OBVIOUS
    <3>2. Moves({}, new)
      BY <2>4, <3>1 DEF CreateUser, Flying
    <3> QED
      BY <3>2
  <2>5. ASSUME NEW u, NEW column, NEW value, Find(u, column, value) PROVE \E old, new : Moves(old, new)
    <3>1. PICK new : new = {[op |-> "save", uid |-> u, row |-> user[u], column |-> column, value |-> value]}
      OBVIOUS
    <3>2. Moves({}, new)
      BY <2>5, <3>1 DEF Find, Flying
    <3> QED
      BY <3>2
  <2>6. ASSUME UNCHANGED pending PROVE \E old, new : Moves(old, new)
    <3>1. Moves({}, {})
      BY <2>6
    <3> QED
      BY <3>1
  <2> HIDE DEF Moves
  <2>7. \E old, new : Moves(old, new)
    BY <2>1, <2>2, <2>3, <2>4, <2>5, <2>6
       DEF SessionNext, UserNext, Login, AdminLogin, Logout, UpdateUser, AdminChangePassword, ChangePassword,
           ChangeRoleOfUser, AdminUserDelete
  <2> QED
    BY <2>7 DEF Moves
<1>4. TeamRequests' = TeamRequests
  BY <1>3 DEF TeamRequests
<1>5. \A r \in pending' : r \in pending \/ r.op \in {"session", "save", "create"}
  BY <1>3
<1> QED
  BY <1>1, <1>2, <1>4, <1>5, TeamsRest

\* Users, sessions and teams go on in every step.
LEMMA UicStep == Accounts /\ Teamed /\ [UicNext]_uvars => (Accounts /\ Teamed)'
<1> SUFFICES ASSUME Accounts, Teamed, [UicNext]_uvars PROVE Accounts' /\ Teamed'
  OBVIOUS
<1>1. CASE SessionNext \/ UserNext
  BY <1>1, UserStep, UserTeams
<1>2. CASE TeamNext
  BY <1>2, TeamStep
<1>3. CASE UNCHANGED uvars
  <2>1. UNCHANGED <<user, session, team, member, lastId, pending, calls, tokens, want, crossed, doubled, mingled>>
    BY <1>3 DEF uvars, rows, history
  <2>2. AccountRequests' = AccountRequests /\ TeamRequests' = TeamRequests
    BY <2>1 DEF AccountRequests, TeamRequests
  <2>3. lastId' \in [Ids -> Nat] /\ calls' \in Nat
    BY <2>1 DEF Accounts, UsersTyped
  <2> QED
    BY <2>1, <2>2, <2>3, AccountsRest, TeamsRest
<1> QED
  BY <1>1, <1>2, <1>3 DEF UicNext

\* What is kept says that a token is of its user.
LEMMA TokensOwn == Accounts => TokenIsOwn
<1> SUFFICES ASSUME Accounts PROVE TokenIsOwn
  OBVIOUS
<1>1. ASSUME NEW t \in tokens, SessionChecking(t) PROVE Named(t.name) = t.uid
  BY <1>1 DEF SessionChecking, Accounts, OwnTokens
<1>2. ASSUME NEW u \in UserIds, u \notin doubled PROVE Cardinality(Sessions(u)) <= 1
  <2>1. \A s, t \in Sessions(u) : s = t
    BY <1>2 DEF Accounts, OneSession
  <2> QED
    BY <2>1, OneOrNone
<1> QED
  BY <1>1, <1>2 DEF TokenIsOwn, UserIds

\* And that the pages of teams and users agree.
LEMMA MembersAre == Teamed => MembersSound
<1> SUFFICES ASSUME Teamed PROVE MembersSound
  OBVIOUS
<1>1. \A m \in DOMAIN member :
        LET t == member[m].tid
        IN  \/ t \in mingled
            \/ /\ t \in DOMAIN team \/ [op |-> "deleted", tid |-> t] \in pending
               /\ \A o \in DOMAIN member \ {m} : member[o] # member[m]
  BY DEF Teamed, Belonging
<1>2. ASSUME NEW u \in DOMAIN user, NEW t \in DOMAIN team
      PROVE  /\ (u \in GetTeam(t)) = IsUserInTeams(u, t) /\ IsUserInTeams(u, t) = (t \in GetUserTeams(u))
             /\ MayManage(u, t) => t \in Teams(u)
  <2>1. u \in GetTeam(t) <=> IsIn(t, u)
    BY <1>2 DEF GetTeam, MembersOf, IsIn
  <2>2. IsUserInTeams(u, t) <=> IsIn(t, u)
    BY <1>2 DEF IsUserInTeams, MembersOf, IsIn
  <2>3. t \in GetUserTeams(u) <=> IsIn(t, u)
    BY <1>2 DEF GetUserTeams, IsIn
  <2>4. (u \in GetTeam(t)) = IsUserInTeams(u, t)
    BY <2>1, <2>2 DEF IsUserInTeams
  <2>5. IsUserInTeams(u, t) = (t \in GetUserTeams(u))
    BY <2>2, <2>3 DEF IsUserInTeams
  <2>6. MayManage(u, t) => t \in Teams(u)
    BY <1>2, <2>3 DEF MayManage, Teams, MembersOf, IsIn
  <2> QED
    BY <2>4, <2>5, <2>6
<1> QED
  BY <1>1, <1>2 DEF MembersSound

\* Users and the portal's tables each keep to their own steps.
LEMMA PortalSpec == MCSpec => MCInit /\ [][MCNext]_<<hvars, uvars, part>>
BY PTL DEF MCSpec

\* The portal's tables and the users share no state: a step is of the one or of the other.
LEMMA PortalParts == [MCNext]_<<hvars, uvars, part>> => [HNext]_hvars /\ [UicNext]_uvars
BY DEF MCNext

\* Users and teams are kept in every step of the whole.
LEMMA UicKept == MCSpec => [](Accounts /\ Teamed)
<1>1. MCInit => Accounts /\ Teamed
  BY AccountsInit, TeamedInit DEF MCInit
<1> QED
  BY <1>1, UicStep, PortalParts, PortalSpec, PTL

\* src/api/app/utils/auth_middle.go, session_controller.go: a token speaks for the user
\* it was given to, also when the name has a new owner, and a user whose logins did not
\* overlap has one session, for any users, sessions and requests in flight.
THEOREM TokensAreOwn == MCSpec => []TokenIsOwn
BY UicKept, TokensOwn, PTL

\* src/api/app/controller/uic/user_controller.go: what a request was told it wrote is
\* in the row, and a deleted user stays deleted, unless the row changed between the
\* reading and the writing of a Save.
THEOREM WritesAreKept == MCSpec => []WritesStay
<1>1. Accounts => WritesStay
  BY DEF Accounts
<1> QED
  BY <1>1, UicKept, PTL

\* src/api/app/controller/uic/team_controller.go: members belong to a team that is there
\* or about to take them along, once, unless two changes of the team overlapped, and the
\* pages agree about them.
THEOREM MembersStaySound == MCSpec => []MembersSound
BY UicKept, MembersAre, PTL

\* A set that has 0, and with a number the next, has every number.
LEMMA EveryNumber ==
    ASSUME NEW S, 0 \in S, \A n \in Nat : n \in S => n + 1 \in S
    PROVE  \A n \in Nat : n \in S
<1> DEFINE T == Nat \ S
<1>1. SUFFICES ASSUME T # {} PROVE FALSE
  OBVIOUS
<1>2. Min(T) \in T /\ \A y \in T : Min(T) <= y
  BY <1>1, LeastNumber
<1>3. PICK x \in T : \A y \in T : x <= y
  BY <1>2
<1>4. x # 0 /\ x \in Nat
  BY <1>3
<1>5. x - 1 \in Nat /\ x - 1 \notin T
  BY <1>3, <1>4
<1> QED
  BY <1>3, <1>4, <1>5

-----------------------------------------------------------------------------
(* The portal's tables                                                           *)

Columns == {"grp", "tpl", "strategy", "action", "expression", "plugin", "cluster"}
BindingRow == [grp : Nat, tpl : Nat, user : Users]

\* Rows name groups that were given out, hosts that are there and users.
TablesTyped ==
    /\ last \in [Columns -> Nat] /\ asked \in 0..MaxRequests
    /\ DOMAIN grp \subseteq 1..last["grp"] /\ \A g \in DOMAIN grp : grp[g] \in Users
    /\ grpHost \subseteq (1..last["grp"]) \X DOMAIN host
    /\ grpTpl \in Seq(BindingRow)
    /\ \A s \in DOMAIN strategy : strategy[s] \in [tpl : Nat, key : Keys]

FlightTyped ==
    /\ IsFiniteSet(flight) /\ Cardinality(flight) <= MaxFlight
    /\ \A r \in flight :
        /\ r.op = "bindTpl" => r.grp \in Nat /\ r.tpl \in Nat /\ r.user \in Users
        /\ r.op # "bindTpl" => r.grp \in 1..last["grp"]

\* Templates and expressions have actions that are there, each its own.
ActionsApart ==
    /\ action \subseteq 1..last["action"]
    /\ \A t \in DOMAIN tpl : tpl[t] \in [user : Users, parent : Nat, action : action \cup {0}]
    /\ \A e \in DOMAIN expression : expression[e] \in [user : Users, action : action, pause : BOOLEAN]
    /\ \A t, u \in DOMAIN tpl : tpl[t].action = tpl[u].action => t = u \/ tpl[t].action = 0
    /\ \A e, f \in DOMAIN expression : expression[e].action = expression[f].action => e = f
    /\ \A t \in DOMAIN tpl, e \in DOMAIN expression : tpl[t].action # expression[e].action

\* A row that names what is gone came too late.
LateRows ==
    /\ \A r \in grpHost : r[1] \in Groups \/ <<"grpHost", r>> \in late
    /\ \A p \in DOMAIN plugin : plugin[p].grp \in Groups \/ <<"plugin", p>> \in late
    /\ \A c \in DOMAIN cluster : cluster[c].grp \in Groups \/ <<"cluster", c>> \in late
    /\ \A s \in DOMAIN strategy : strategy[s].tpl \in Tpls \/ <<"strategy", s>> \in late
    /\ \A i \in DOMAIN grpTpl : grpTpl[i].tpl \in Tpls \/ <<"tpl", grpTpl[i].tpl>> \in late

\* For a pair whose requests did not overlap one request at most is on its way,
\* and only while there is no binding.
Alone(r) ==
    /\ \A q \in flight : q.op = "bindTpl" /\ q.grp = r.grp /\ q.tpl = r.tpl => q = r
    /\ Bound(r.grp, r.tpl) = {}
OnlyOnce ==
    /\ BoundOnce
    /\ \A r \in flight : r.op = "bindTpl" => Alone(r) \/ <<r.grp, r.tpl>> \in twice

Portal == TablesTyped /\ FlightTyped /\ ActionsApart /\ LateRows /\ OnlyOnce

\* The next id of a column.
LEMMA NextIdIs ==
    ASSUME last \in [Columns -> Nat], NEW c \in Columns, NEW max, NextId(c, max)
    PROVE  /\ last' \in [Columns -> Nat] /\ last'[c] = last[c] + 1 /\ last[c] \in Nat
           /\ \A o \in Columns : o # c => last'[o] = last[o]
BY DEF NextId

\* Requests are counted.
LEMMA AskIs == ASSUME asked \in 0..MaxRequests, Ask PROVE asked' \in 0..MaxRequests
BY UsersAssumption DEF Ask

\* The tables begin whole.
LEMMA PortalInit == Init => Portal
<1> SUFFICES ASSUME Init PROVE Portal
  OBVIOUS
<1>1. PICK s \in Start : /\ grp = s.grp /\ host = s.host /\ grpHost = s.grpHost /\ grpTpl = s.grpTpl
        /\ tpl = s.tpl /\ strategy = s.strategy /\ action = s.action
        /\ expression = s.expression /\ plugin = s.plugin /\ cluster = s.cluster
        /\ last = s.last
  BY DEF Init
<1>2. flight = {} /\ asked = 0 /\ late = {} /\ twice = {}
  BY DEF Init
<1>3. /\ last \in [Columns -> Nat]
      /\ DOMAIN grp \subseteq 1..last["grp"] /\ \A g \in DOMAIN grp : grp[g] \in Users
      /\ grpHost \subseteq (DOMAIN grp) \X (DOMAIN host)
      /\ grpTpl \in Seq([grp : DOMAIN grp, tpl : DOMAIN tpl, user : Users])
      /\ DOMAIN tpl \subseteq 1..last["tpl"] /\ action \subseteq 1..last["action"]
  BY <1>1, StartAssumption DEF Columns
<1>4. /\ \A t \in DOMAIN tpl : tpl[t] \in [user : Users, parent : Nat, action : action \cup {0}]
      /\ \A e \in DOMAIN expression : expression[e] \in [user : Users, action : action, pause : BOOLEAN]
      /\ \A x \in DOMAIN strategy : strategy[x] \in [tpl : DOMAIN tpl, key : Keys]
      /\ \A p \in DOMAIN plugin : plugin[p].grp \in DOMAIN grp
      /\ \A c \in DOMAIN cluster : cluster[c].grp \in DOMAIN grp
  BY <1>1, StartAssumption
<1>5. /\ \A i, j \in DOMAIN grpTpl : grpTpl[i].grp = grpTpl[j].grp /\ grpTpl[i].tpl = grpTpl[j].tpl => i = j
      /\ \A t, u \in DOMAIN tpl : tpl[t].action = tpl[u].action => t = u \/ tpl[t].action = 0
      /\ \A e, f \in DOMAIN expression : expression[e].action = expression[f].action => e = f
      /\ \A t \in DOMAIN tpl, e \in DOMAIN expression : tpl[t].action # expression[e].action
  <2>1. /\ \A i, j \in DOMAIN s.grpTpl :
              s.grpTpl[i].grp = s.grpTpl[j].grp /\ s.grpTpl[i].tpl = s.grpTpl[j].tpl => i = j
        /\ \A t, u \in DOMAIN s.tpl : s.tpl[t].action = s.tpl[u].action => t = u \/ s.tpl[t].action = 0
        /\ \A e, f \in DOMAIN s.expression : s.expression[e].action = s.expression[f].action => e = f
        /\ \A t \in DOMAIN s.tpl, e \in DOMAIN s.expression : s.tpl[t].action # s.expression[e].action
    BY StartAssumption, Zenon
  <2> QED
    BY ONLY <1>1, <2>1, Zenon
<1>6. \A i \in DOMAIN grpTpl : grpTpl[i] \in BindingRow /\ grpTpl[i].tpl \in DOMAIN tpl
  <2>0. PICK R : R = [grp : DOMAIN grp, tpl : DOMAIN tpl, user : Users]
    OBVIOUS
  <2>3. grpTpl \in Seq(R)
    BY <1>3, <2>0
  <2>1. \A i \in DOMAIN grpTpl : grpTpl[i] \in R
    BY ONLY <2>3
  <2>2. DOMAIN grp \subseteq Nat /\ DOMAIN tpl \subseteq Nat
    BY <1>3
  <2> QED
    BY <2>0, <2>1, <2>2 DEF BindingRow
<1>7. TablesTyped
  <2>1. grpTpl \in Seq(BindingRow)
    BY <1>3, <1>6
  <2>2. asked \in 0..MaxRequests
    BY <1>2, UsersAssumption
  <2>3. grpHost \subseteq (1..last["grp"]) \X DOMAIN host
    BY <1>3
  <2>4. \A x \in DOMAIN strategy : strategy[x] \in [tpl : Nat, key : Keys]
    BY <1>3, <1>4
  <2> QED
    BY <1>3, <2>1, <2>2, <2>3, <2>4 DEF TablesTyped
<1>8. FlightTyped
  BY <1>2, FS_EmptySet, UsersAssumption DEF FlightTyped
<1>9. ActionsApart
  BY <1>3, <1>4, <1>5 DEF ActionsApart
<1>10. LateRows
  <2>1. \A r \in grpHost : r[1] \in Groups
    BY <1>3 DEF Groups
  <2> QED
    BY <2>1, <1>4, <1>6 DEF LateRows, Groups, Tpls
<1>11. OnlyOnce
  BY <1>2, <1>5 DEF OnlyOnce, BoundOnce
<1> QED
  BY <1>7, <1>8, <1>9, <1>10, <1>11 DEF Portal

\* Nothing happens to the actions.
LEMMA ApartRests ==
    ASSUME ActionsApart, UNCHANGED <<tpl, action, expression>>,
           last["action"] \in Nat, last'["action"] \in Nat, last'["action"] >= last["action"]
    PROVE  ActionsApart'
<1>1. action' \subseteq 1..last'["action"]
  BY DEF ActionsApart
<1> QED
  BY <1>1 DEF ActionsApart

\* Nothing is asked for, or a request ends.
LEMMA FlightFewer ==
    ASSUME FlightTyped, flight' \subseteq flight,
           last["grp"] \in Nat, last'["grp"] \in Nat, last'["grp"] >= last["grp"]
    PROVE  FlightTyped'
<1>1. IsFiniteSet(flight') /\ Cardinality(flight') <= Cardinality(flight)
  BY FS_Subset DEF FlightTyped
<1>2. Cardinality(flight) \in Nat /\ Cardinality(flight') \in Nat
  BY <1>1, FS_CardinalityType DEF FlightTyped
<1>3. Cardinality(flight') <= MaxFlight
  BY <1>1, <1>2, UsersAssumption DEF FlightTyped
<1>4. \A g \in 1..last["grp"] : g \in 1..last'["grp"]
  OBVIOUS
<1> QED
  BY <1>1, <1>3, <1>4 DEF FlightTyped

\* A request begins.
LEMMA FlightMore ==
    ASSUME FlightTyped, NEW r, Begin(r), last' = last,
           r.op = "bindTpl" => r.grp \in Nat /\ r.tpl \in Nat /\ r.user \in Users,
           r.op # "bindTpl" => r.grp \in 1..last["grp"]
    PROVE  FlightTyped'
<1>1. flight' = flight \cup {r} /\ Cardinality(flight) < MaxFlight
  BY DEF Begin
<1>2. Cardinality(flight) \in Nat
  BY FS_CardinalityType DEF FlightTyped
<1>3. IsFiniteSet(flight') /\ (Cardinality(flight') = Cardinality(flight) \/ Cardinality(flight') = Cardinality(flight) + 1)
  BY <1>1, FS_AddElement DEF FlightTyped
<1>4. Cardinality(flight') <= MaxFlight
  BY <1>1, <1>2, <1>3, UsersAssumption
<1> QED
  BY <1>1, <1>3, <1>4 DEF FlightTyped

\* Nothing happens to the bindings.
LEMMA OnceRests ==
    ASSUME OnlyOnce, UNCHANGED <<grpTpl, twice>>,
           \A r \in flight' : r.op = "bindTpl" => r \in flight
    PROVE  OnlyOnce'
<1>1. \A g, t : Bound(g, t)' = Bound(g, t)
  BY DEF Bound
<1>2. \A r \in flight' : r.op = "bindTpl" /\ Alone(r) => Alone(r)'
  BY <1>1 DEF Alone
<1> QED
  BY <1>2 DEF OnlyOnce, BoundOnce

\* Nothing happens to what rows name.
LEMMA LateRests ==
    ASSUME LateRows, UNCHANGED <<grp, grpHost, plugin, cluster, strategy, tpl, grpTpl>>, late' = late
    PROVE  LateRows'
BY DEF LateRows, Groups, Tpls

\* A request is taken down, and the tables stay.
LEMMA OnlyAsked ==
    ASSUME Portal, NEW r, Begin(r), UNCHANGED <<tables, late, twice>>,
           r.op # "bindTpl", r.grp \in 1..last["grp"]
    PROVE  Portal'
<1>1. UNCHANGED <<grp, host, grpHost, grpTpl, tpl, strategy, action, expression, plugin, cluster, last, late, twice>>
  BY DEF tables
<1>2. TablesTyped'
  <2>1. asked' \in 0..MaxRequests
    BY AskIs DEF Portal, TablesTyped, Begin
  <2> QED
    BY <1>1, <2>1 DEF Portal, TablesTyped
<1>3. FlightTyped'
  BY <1>1, FlightMore DEF Portal
<1>4. ActionsApart'
  BY <1>1, ApartRests DEF Portal, TablesTyped, Columns
<1>5. LateRows'
  BY <1>1, LateRests DEF Portal
<1>6. OnlyOnce'
  BY <1>1, OnceRests DEF Portal, Begin
<1> QED
  BY <1>2, <1>3, <1>4, <1>5, <1>6 DEF Portal

\* What is left of the bindings after each place.
Lefts(left, places, n) ==
    left = [k \in 0..n |-> IF k = 0 THEN <<>>
                           ELSE IF k \in places THEN left[k - 1] ELSE Append(left[k - 1], grpTpl[k])]

\* The rows of a table can be gone through one by one, up to any row.
LEMMA LeftIs == ASSUME NEW places PROVE \A n \in Nat : \E left : Lefts(left, places, n)
<1> DEFINE S == {n \in Nat : \E left : Lefts(left, places, n)}
<1>1. 0 \in S
  <2>1. PICK left : left = [k \in 0..0 |-> <<>>]
    OBVIOUS
  <2>2. Lefts(left, places, 0)
    BY <2>1 DEF Lefts
  <2> QED
    BY <2>2
<1>2. ASSUME NEW n \in Nat, n \in S PROVE n + 1 \in S
  <2>1. PICK left : Lefts(left, places, n)
    BY <1>2
  <2>2. PICK new : new = IF n + 1 \in places THEN left[n] ELSE Append(left[n], grpTpl[n + 1])
    OBVIOUS
  <2>3. PICK next : next = [k \in 0..n + 1 |-> IF k <= n THEN left[k] ELSE new]
    OBVIOUS
  <2>4. \A k \in 0..n : next[k] = left[k]
    BY <2>3
  <2>5. next[n + 1] = new
    BY <2>3
  <2>6. \A k \in 0..n : left[k] = IF k = 0 THEN <<>>
                           ELSE IF k \in places THEN left[k - 1] ELSE Append(left[k - 1], grpTpl[k])
    BY <2>1 DEF Lefts
  <2>7. ASSUME NEW k \in 0..n + 1
        PROVE  next[k] = IF k = 0 THEN <<>>
                         ELSE IF k \in places THEN next[k - 1] ELSE Append(next[k - 1], grpTpl[k])
    <3>1. CASE k = 0
      BY <3>1, <2>4, <2>6
    <3>2. CASE k \in 1..n
      <4>1. next[k] = left[k] /\ next[k - 1] = left[k - 1] /\ k # 0
        BY <3>2, <2>4
      <4>2. left[k] = IF k \in places THEN left[k - 1] ELSE Append(left[k - 1], grpTpl[k])
        BY <3>2, <2>6
      <4> QED
        BY <4>1, <4>2
    <3>3. CASE k = n + 1
      <4>1. next[k] = new /\ next[k - 1] = left[n] /\ k # 0
        BY <3>3, <2>4, <2>5
      <4> QED
        BY <4>1, <2>2, <3>3
    <3>4. k = 0 \/ k \in 1..n \/ k = n + 1
      OBVIOUS
    <3> QED
      BY <3>1, <3>2, <3>3, <3>4
  <2>8. Lefts(next, places, n + 1)
    BY <2>3, <2>7 DEF Lefts
  <2> QED
    BY <2>8
<1> HIDE DEF S
<1>3. \A n \in Nat : n \in S
  BY <1>1, <1>2, EveryNumber
<1> QED
  BY <1>3 DEF S

\* The bindings that are left are bindings of before in other places, each once.
LEMMA BindingsButIs ==
    ASSUME grpTpl \in Seq(BindingRow), NEW places
    PROVE  /\ BindingsBut(places) \in Seq(BindingRow)
           /\ \E from \in [DOMAIN BindingsBut(places) -> DOMAIN grpTpl \ places] :
                /\ \A i, j \in DOMAIN from : from[i] = from[j] => i = j
                /\ \A i \in DOMAIN from : BindingsBut(places)[i] = grpTpl[from[i]]
<1>0. Len(grpTpl) \in Nat /\ DOMAIN grpTpl = 1..Len(grpTpl)
  OBVIOUS
<1> DEFINE the == CHOOSE left : Lefts(left, places, Len(grpTpl))
<1>1. BindingsBut(places) = the[Len(grpTpl)]
  BY DEF BindingsBut, Lefts
<1>2. Lefts(the, places, Len(grpTpl))
  BY <1>0, LeftIs
<1>3. PICK left : left = the
  OBVIOUS
<1>4. \A k \in 0..Len(grpTpl) : left[k] = IF k = 0 THEN <<>>
                           ELSE IF k \in places THEN left[k - 1] ELSE Append(left[k - 1], grpTpl[k])
  BY <1>2, <1>3 DEF Lefts
<1> DEFINE Comes(from, n) ==
                /\ from \in [1..Len(left[n]) -> 1..n \ places]
                /\ \A i, j \in 1..Len(left[n]) : from[i] = from[j] => i = j
                /\ \A i \in 1..Len(left[n]) : left[n][i] = grpTpl[from[i]]
           Good(n) == n <= Len(grpTpl) => left[n] \in Seq(BindingRow) /\ \E from : Comes(from, n)
           S == {n \in Nat : Good(n)}
<1>5. 0 \in S
  <2>1. left[0] = <<>>
    BY <1>0, <1>4
  <2>2. PICK from : from = [i \in 1..0 |-> i]
    OBVIOUS
  <2>3. Comes(from, 0) /\ left[0] \in Seq(BindingRow)
    BY <2>1, <2>2
  <2> QED
    BY <2>3
<1>6. ASSUME NEW n \in Nat, n \in S PROVE n + 1 \in S
  <2>1. CASE n + 1 > Len(grpTpl)
    <3>1. ~(n + 1 <= Len(grpTpl))
      BY <2>1, <1>0
    <3> QED
      BY <3>1
  <2>2. CASE n + 1 <= Len(grpTpl)
    <3>1. Good(n)
      BY <1>6
    <3>2. n <= Len(grpTpl) /\ n \in 0..Len(grpTpl) /\ n + 1 \in 0..Len(grpTpl) /\ n + 1 # 0 /\ n + 1 - 1 = n
      BY <2>2, <1>0
    <3>3. left[n] \in Seq(BindingRow) /\ \E from : Comes(from, n)
      BY <3>1, <3>2
    <3>4. PICK from : Comes(from, n)
      BY <3>3
    <3>5. left[n + 1] = IF n + 1 \in places THEN left[n] ELSE Append(left[n], grpTpl[n + 1])
      BY <1>4, <3>2
    <3>6. CASE n + 1 \in places
      <4>1. left[n + 1] = left[n]
        BY <3>5, <3>6
      <4>2. 1..n \ places \subseteq 1..n + 1 \ places
        OBVIOUS
      <4>3. Comes(from, n + 1)
        BY <3>4, <4>1, <4>2
      <4>4. \E f : Comes(f, n + 1)
        <5> HIDE DEF Comes
        <5> QED
          BY <4>3
      <4>5. left[n + 1] \in Seq(BindingRow)
        BY <4>1, <3>3
      <4> HIDE DEF Comes
      <4> QED
        BY <4>4, <4>5
    <3>7. CASE n + 1 \notin places
      <4>1. PICK q : q = left[n]
        OBVIOUS
      <4>2. PICK row : row = grpTpl[n + 1] /\ row \in BindingRow
        BY <3>2
      <4>3. left[n + 1] = Append(q, row)
        BY <3>5, <3>7, <4>1, <4>2
      <4>4. q \in Seq(BindingRow)
        BY <3>3, <4>1
      <4>5. /\ Append(q, row) \in Seq(BindingRow) /\ Len(Append(q, row)) = Len(q) + 1 /\ Len(q) \in Nat
            /\ \A i \in 1..Len(q) : Append(q, row)[i] = q[i]
            /\ Append(q, row)[Len(q) + 1] = row
        BY ONLY <4>2, <4>4
      <4>6. PICK more : more = [i \in 1..Len(q) + 1 |-> IF i <= Len(q) THEN from[i] ELSE n + 1]
        OBVIOUS
      <4>16. from \in [1..Len(q) -> 1..n \ places]
        BY <3>4, <4>1
      <4>17. \A i \in 1..Len(q) : i \in 1..Len(q) + 1 /\ i <= Len(q)
        BY <4>5
      <4>7. \A i \in 1..Len(q) : more[i] = from[i] /\ from[i] \in 1..n \ places
        BY ONLY <4>6, <4>16, <4>17
      <4>8. more[Len(q) + 1] = n + 1
        BY <4>6, <4>5
      <4>9. \A i \in 1..Len(q) + 1 : i \in 1..Len(q) \/ i = Len(q) + 1
        BY <4>5
      <4>10. more \in [1..Len(q) + 1 -> 1..n + 1 \ places]
        <5>1. \A i \in 1..Len(q) + 1 : more[i] \in 1..n + 1 \ places
          <6>1. \A x \in 1..n : x \in 1..n + 1
            OBVIOUS
          <6>2. n + 1 \in 1..n + 1
            OBVIOUS
          <6> QED
            BY ONLY <4>7, <4>8, <4>9, <3>7, <6>1, <6>2
        <5>2. more = [i \in 1..Len(q) + 1 |-> more[i]]
          BY ONLY <4>6
        <5> QED
          BY ONLY <5>1, <5>2
      <4>11. \A i, j \in 1..Len(q) + 1 : more[i] = more[j] => i = j
        BY <4>7, <4>8, <4>9, <3>4, <4>1
      <4>12. \A i \in 1..Len(q) + 1 : Append(q, row)[i] = grpTpl[more[i]]
        BY <4>2, <4>5, <4>7, <4>8, <4>9, <3>4, <4>1
      <4>13. Comes(more, n + 1)
        BY <4>3, <4>5, <4>10, <4>11, <4>12
      <4>14. \E f : Comes(f, n + 1)
        <5> HIDE DEF Comes
        <5> QED
          BY <4>13
      <4>15. left[n + 1] \in Seq(BindingRow)
        BY <4>3, <4>5
      <4> HIDE DEF Comes
      <4> QED
        BY <4>14, <4>15
    <3> QED
      BY <3>6, <3>7
  <2> QED
    BY <2>1, <2>2, <1>0
<1>7. Len(grpTpl) \in S
  <2> HIDE DEF S
  <2>1. \A n \in Nat : n \in S
    BY <1>5, <1>6, EveryNumber
  <2> QED
    BY <2>1, <1>0
<1>8. PICK from : left[Len(grpTpl)] \in Seq(BindingRow) /\ Comes(from, Len(grpTpl))
  BY <1>7, <1>0
<1>9. BindingsBut(places) = left[Len(grpTpl)]
  BY <1>1, <1>3
<1>10. DOMAIN left[Len(grpTpl)] = 1..Len(left[Len(grpTpl)])
  BY <1>8
<1>11. PICK q : q = left[Len(grpTpl)]
  OBVIOUS
<1>12. /\ q \in Seq(BindingRow) /\ from \in [1..Len(q) -> 1..Len(grpTpl) \ places]
       /\ \A i, j \in 1..Len(q) : from[i] = from[j] => i = j
       /\ \A i \in 1..Len(q) : q[i] = grpTpl[from[i]]
  BY <1>8, <1>11
<1>13. DOMAIN q = 1..Len(q) /\ DOMAIN from = 1..Len(q) /\ BindingsBut(places) = q
  BY <1>12, <1>9, <1>11
<1>14. from \in [DOMAIN q -> DOMAIN grpTpl \ places]
  BY ONLY <1>12, <1>13, <1>0
<1>15. (\A i, j \in DOMAIN from : from[i] = from[j] => i = j) /\ (\A i \in DOMAIN from : q[i] = grpTpl[from[i]])
  BY ONLY <1>12, <1>13
<1>16. \E f \in [DOMAIN q -> DOMAIN grpTpl \ places] :
            (\A i, j \in DOMAIN f : f[i] = f[j] => i = j) /\ (\A i \in DOMAIN f : q[i] = grpTpl[f[i]])
  BY ONLY <1>14, <1>15
<1>17. BindingsBut(places) = q /\ q \in Seq(BindingRow)
  BY ONLY <1>12, <1>13
<1> QED
  BY ONLY <1>16, <1>17

\* Bindings go, and with them nothing but those in these places.
LEMMA BindingsGo ==
    ASSUME grpTpl \in Seq(BindingRow), NEW places, grpTpl' = BindingsBut(places)
    PROVE  /\ grpTpl' \in Seq(BindingRow)
           /\ \A i \in DOMAIN grpTpl' : \E k \in DOMAIN grpTpl \ places : grpTpl'[i] = grpTpl[k]
           /\ OnlyOnce /\ twice' = twice /\ flight' = flight => OnlyOnce'
<1>0. PICK new : new = BindingsBut(places)
  OBVIOUS
<1>1. PICK from \in [DOMAIN new -> DOMAIN grpTpl \ places] :
        /\ \A i, j \in DOMAIN from : from[i] = from[j] => i = j
        /\ \A i \in DOMAIN from : new[i] = grpTpl[from[i]]
  <2>1. /\ \E from \in [DOMAIN BindingsBut(places) -> DOMAIN grpTpl \ places] :
                /\ \A i, j \in DOMAIN from : from[i] = from[j] => i = j
                /\ \A i \in DOMAIN from : BindingsBut(places)[i] = grpTpl[from[i]]
    BY BindingsButIs
  <2> QED
    BY ONLY <1>0, <2>1
<1>2. new \in Seq(BindingRow) /\ grpTpl' = new
  BY <1>0, BindingsButIs
<1>3. \A i \in DOMAIN new : from[i] \in DOMAIN grpTpl /\ from[i] \notin places /\ new[i] = grpTpl[from[i]]
  BY <1>1
<1>4. ASSUME OnlyOnce, twice' = twice, flight' = flight PROVE OnlyOnce'
  <2>1. BoundOnce'
    <3>1. ASSUME NEW i \in DOMAIN new, NEW j \in DOMAIN new, i # j, new[i].grp = new[j].grp, new[i].tpl = new[j].tpl
          PROVE  <<new[i].grp, new[i].tpl>> \in twice
      <4>1. from[i] # from[j]
        BY <1>1, <3>1
      <4> QED
        BY <4>1, <1>3, <3>1, <1>4 DEF OnlyOnce, BoundOnce
    <3> QED
      BY <3>1, <1>2, <1>4 DEF BoundOnce
  <2>2. \A g, t : Bound(g, t) = {} => Bound(g, t)' = {}
    BY <1>2, <1>3 DEF Bound
  <2>3. \A r : Alone(r) => Alone(r)'
    BY <2>2, <1>4 DEF Alone
  <2> QED
    BY <2>1, <2>3, <1>4 DEF OnlyOnce
<1> QED
  BY <1>2, <1>3, <1>4

\* A group begins with nothing.
LEMMA CreateGroupStep == ASSUME Portal, NEW u \in Users, CreateHostGroup(u) PROVE Portal'
<1>0. UNCHANGED <<host, grpHost, grpTpl, tpl, strategy, action, expression, plugin, cluster, flight, late, twice>>
  BY DEF CreateHostGroup
<1>1. /\ last' \in [Columns -> Nat] /\ last'["grp"] = last["grp"] + 1 /\ last["grp"] \in Nat
      /\ last'["action"] = last["action"] /\ last["action"] \in Nat
  BY NextIdIs DEF CreateHostGroup, Portal, TablesTyped, Columns
<1>2. PICK g : g = last["grp"] + 1 /\ g \in 1..last'["grp"]
  BY <1>1
<1>3. grp' = [x \in DOMAIN grp \cup {g} |-> IF x = g THEN u ELSE grp[x]]
  BY <1>2 DEF CreateHostGroup, Put
<1>4. 1..last["grp"] \subseteq 1..last'["grp"]
  BY <1>1
<1>5. TablesTyped'
  <2>1. asked' \in 0..MaxRequests
    BY AskIs DEF Portal, TablesTyped, CreateHostGroup
  <2>2. DOMAIN grp' \subseteq 1..last'["grp"] /\ \A x \in DOMAIN grp' : grp'[x] \in Users
    BY <1>2, <1>3, <1>4 DEF Portal, TablesTyped
  <2>3. grpHost' \subseteq (1..last'["grp"]) \X DOMAIN host'
    BY <1>0, <1>4 DEF Portal, TablesTyped
  <2> QED
    BY <1>0, <1>1, <2>1, <2>2, <2>3 DEF Portal, TablesTyped
<1>6. FlightTyped'
  BY <1>0, <1>1, FlightFewer DEF Portal
<1>7. ActionsApart'
  BY <1>0, <1>1, ApartRests DEF Portal
<1>8. LateRows'
  <2>1. Groups \subseteq Groups'
    BY <1>3 DEF Groups
  <2> QED
    BY <1>0, <2>1 DEF Portal, LateRows, Tpls
<1>9. OnlyOnce'
  BY <1>0, OnceRests DEF Portal
<1> QED
  BY <1>5, <1>6, <1>7, <1>8, <1>9 DEF Portal

\* A group goes with its memberships, plugins and aggregators.
LEMMA DeleteGroupStep == ASSUME Portal, NEW u \in Users, NEW g, DeleteHostGroup(u, g) PROVE Portal'
<1>0. UNCHANGED <<host, grpTpl, tpl, strategy, action, expression, last, flight, late, twice>>
  BY DEF DeleteHostGroup
<1>1. last["grp"] \in Nat /\ last["action"] \in Nat
  BY DEF Portal, TablesTyped, Columns
<1>2. /\ grp' = [x \in DOMAIN grp \ {g} |-> grp[x]]
      /\ plugin' = [x \in DOMAIN plugin \ OfGroup(plugin, g) |-> plugin[x]]
      /\ cluster' = [x \in DOMAIN cluster \ OfGroup(cluster, g) |-> cluster[x]]
      /\ grpHost' = {r \in grpHost : r[1] # g}
  BY DEF DeleteHostGroup, Without, Restrict
<1>5. TablesTyped'
  <2>1. asked' \in 0..MaxRequests
    BY AskIs DEF Portal, TablesTyped, DeleteHostGroup
  <2>2. DOMAIN grp' \subseteq DOMAIN grp /\ \A x \in DOMAIN grp' : grp'[x] = grp[x]
    BY <1>2
  <2> QED
    BY <1>0, <1>2, <2>1, <2>2 DEF Portal, TablesTyped
<1>6. FlightTyped'
  BY <1>0, <1>1, FlightFewer DEF Portal
<1>7. ActionsApart'
  BY <1>0, <1>1, ApartRests DEF Portal
<1>8. LateRows'
  <2>1. \A x \in Groups : x # g => x \in Groups'
    BY <1>2 DEF Groups
  <2>2. \A p \in DOMAIN plugin' : p \in DOMAIN plugin /\ plugin'[p] = plugin[p] /\ plugin[p].grp # g
    BY <1>2 DEF OfGroup
  <2>3. \A p \in DOMAIN cluster' : p \in DOMAIN cluster /\ cluster'[p] = cluster[p] /\ cluster[p].grp # g
    BY <1>2 DEF OfGroup
  <2> QED
    BY <1>0, <1>2, <2>1, <2>2, <2>3 DEF Portal, LateRows, Tpls
<1>9. OnlyOnce'
  BY <1>0, OnceRests DEF Portal
<1> QED
  BY <1>5, <1>6, <1>7, <1>8, <1>9 DEF Portal

\* Hosts are bound to a group by a request that found it.
LEMMA HostsBound ==
    ASSUME Portal, NEW r \in flight, r.op # "bindTpl",
           grpHost' \subseteq grpHost \cup ({r.grp} \X r.hosts),
           host' = NewHosts(r.hosts),
           LateIn({<<"grpHost", <<r.grp, h>>>> : h \in r.hosts}, r.grp \notin Groups),
           flight' = flight \ {r},
           UNCHANGED <<grp, grpTpl, tpl, strategy, action, expression, plugin, cluster, last, asked, twice>>
    PROVE  Portal'
<1>1. last["grp"] \in Nat /\ last["action"] \in Nat
  BY DEF Portal, TablesTyped, Columns
<1>2. r.grp \in 1..last["grp"]
  BY DEF Portal, FlightTyped
<1>3. DOMAIN host' = DOMAIN host \cup r.hosts
  BY DEF NewHosts
<1>4. PICK g, hs : g = r.grp /\ hs = r.hosts
  OBVIOUS
<1>5. TablesTyped'
  <2>1. grpHost' \subseteq (1..last["grp"]) \X DOMAIN host'
    <3>1. ASSUME NEW x \in grpHost' PROVE x \in (1..last["grp"]) \X DOMAIN host'
      <4>1. CASE x \in grpHost
        BY <4>1, <1>3 DEF Portal, TablesTyped
      <4>2. CASE x \in {g} \X hs
        <5>1. PICK h \in hs : x = <<g, h>>
          BY <4>2
        <5> QED
          BY <5>1, <1>2, <1>3, <1>4
      <4> QED
        BY <3>1, <4>1, <4>2, <1>4
    <3> QED
      BY <3>1
  <2> QED
    BY <2>1 DEF Portal, TablesTyped
<1>6. FlightTyped'
  BY <1>1, FlightFewer DEF Portal
<1>7. ActionsApart'
  BY <1>1, ApartRests DEF Portal
<1>8. LateRows'
  <2>1. late \subseteq late'
    BY DEF LateIn
  <2>2. ASSUME NEW x \in grpHost' PROVE x[1] \in Groups' \/ <<"grpHost", x>> \in late'
    <3>1. CASE x \in grpHost
      BY <2>1, <3>1 DEF Portal, LateRows, Groups
    <3>2. CASE x \in {g} \X hs
      <4>1. PICK h \in hs : x = <<g, h>>
        BY <3>2
      <4>2. CASE g \in Groups
        BY <4>1, <4>2 DEF Groups
      <4>3. CASE g \notin Groups
        <5>1. late' = late \cup {<<"grpHost", <<g, k>>>> : k \in hs}
          BY <4>3, <1>4 DEF LateIn
        <5> QED
          BY <4>1, <5>1
      <4> QED
        BY <4>2, <4>3
    <3> QED
      BY <2>2, <3>1, <3>2, <1>4
  <2> QED
    BY <2>1, <2>2 DEF Portal, LateRows, Groups, Tpls
<1>9. OnlyOnce'
  BY OnceRests DEF Portal
<1> QED
  BY <1>5, <1>6, <1>7, <1>8, <1>9 DEF Portal

\* Hosts leave a group.
LEMMA HostsLeave ==
    ASSUME Portal, grpHost' \subseteq grpHost, flight' \subseteq flight, asked' \in 0..MaxRequests,
           UNCHANGED <<grp, host, grpTpl, tpl, strategy, action, expression, plugin, cluster, last, late, twice>>
    PROVE  Portal'
<1>1. last["grp"] \in Nat /\ last["action"] \in Nat
  BY DEF Portal, TablesTyped, Columns
<1>2. TablesTyped'
  BY DEF Portal, TablesTyped
<1>3. FlightTyped'
  BY <1>1, FlightFewer DEF Portal
<1>4. ActionsApart'
  BY <1>1, ApartRests DEF Portal
<1>5. LateRows'
  BY DEF Portal, LateRows, Groups, Tpls
<1>6. OnlyOnce'
  BY OnceRests DEF Portal
<1> QED
  BY <1>2, <1>3, <1>4, <1>5, <1>6 DEF Portal

\* Requests about the hosts of a group.
LEMMA HostsStep ==
    ASSUME Portal, NEW u \in Users,
           \/ \E g \in AnyGroup, hs \in SUBSET Hosts \ {{}} :
                BindHostToHostGroup(u, g, hs) \/ \E op \in {"add", "remove"} : PatchHostGroupHost(u, g, hs, op)
           \/ \E g \in AnyGroup, h \in Hosts : UnBindAHostToHostGroup(u, g, h)
    PROVE  Portal'
<1>1. ASSUME NEW g, NEW hs, BindHostToHostGroup(u, g, hs) PROVE Portal'
  <2>1. PICK r : r = [op |-> "bind", grp |-> g, hosts |-> hs]
    OBVIOUS
  <2>2. r.op # "bindTpl" /\ r.grp = g
    BY <2>1
  <2>3. g \in 1..last["grp"]
    BY <1>1 DEF Portal, TablesTyped, BindHostToHostGroup, Groups
  <2>4. Begin(r) /\ UNCHANGED <<tables, late, twice>>
    BY <1>1, <2>1 DEF BindHostToHostGroup
  <2> QED
    BY <2>2, <2>3, <2>4, OnlyAsked
<1>2. ASSUME NEW g, NEW hs, NEW op \in {"add", "remove"}, PatchHostGroupHost(u, g, hs, op) PROVE Portal'
  <2>1. PICK r : r = [op |-> op, grp |-> g, hosts |->
              IF op = "add" THEN {h \in hs : <<g, h>> \notin grpHost} ELSE hs \cap DOMAIN host]
    OBVIOUS
  <2>2. r.op # "bindTpl" /\ r.grp = g
    BY <2>1
  <2>3. g \in 1..last["grp"]
    BY <1>2 DEF Portal, TablesTyped, PatchHostGroupHost, Groups
  <2>4. Begin(r) /\ UNCHANGED <<tables, late, twice>>
    BY <1>2, <2>1 DEF PatchHostGroupHost
  <2> QED
    BY <2>2, <2>3, <2>4, OnlyAsked
<1>3. ASSUME NEW g, NEW h, UnBindAHostToHostGroup(u, g, h) PROVE Portal'
  <2>1. asked' \in 0..MaxRequests
    BY <1>3, AskIs DEF Portal, TablesTyped, UnBindAHostToHostGroup
  <2> QED
    BY <1>3, <2>1, HostsLeave DEF UnBindAHostToHostGroup
<1> QED
  BY <1>1, <1>2, <1>3

\* A request about the hosts of a group ends.
LEMMA HostsEnd ==
    ASSUME Portal, NEW r \in flight,
           ReplaceHosts(r) \/ Rollback(r) \/ bindHostToHostGroup(r) \/ unbindHostToHostGroup(r)
    PROVE  Portal'
<1>0. asked \in 0..MaxRequests
  BY DEF Portal, TablesTyped
<1>1. CASE ReplaceHosts(r)
  BY <1>1, HostsBound DEF ReplaceHosts
<1>2. CASE bindHostToHostGroup(r)
  BY <1>2, HostsBound DEF bindHostToHostGroup
<1>3. CASE Rollback(r)
  BY <1>0, <1>3, HostsLeave DEF Rollback, tables
<1>4. CASE unbindHostToHostGroup(r)
  BY <1>0, <1>4, HostsLeave DEF unbindHostToHostGroup
<1> QED
  BY <1>1, <1>2, <1>3, <1>4

\* A binding is looked for, and not found.
LEMMA BindTemplateStep ==
    ASSUME Portal, NEW u \in Users, NEW g \in AnyGroup, NEW t \in AnyTpl, BindTemplateToGroup(u, g, t)
    PROVE  Portal'
<1>0. UNCHANGED <<grp, host, grpHost, grpTpl, tpl, strategy, action, expression, plugin, cluster, last, late>>
  BY DEF BindTemplateToGroup, tables
<1>1. last["grp"] \in Nat /\ last["action"] \in Nat /\ g \in Nat /\ t \in Nat
  BY DEF Portal, TablesTyped, Columns, AnyGroup, AnyTpl
<1>2. PICK r : r = [op |-> "bindTpl", grp |-> g, tpl |-> t, user |-> u]
  OBVIOUS
<1>3. r.op = "bindTpl" /\ r.grp = g /\ r.tpl = t /\ r.user = u
  BY <1>2
<1>4. Begin(r) /\ flight' = flight \cup {r}
  BY <1>2 DEF BindTemplateToGroup, Begin
<1>5. TablesTyped'
  <2>1. asked' \in 0..MaxRequests
    BY <1>4, AskIs DEF Portal, TablesTyped, Begin
  <2> QED
    BY <1>0, <2>1 DEF Portal, TablesTyped
<1>6. FlightTyped'
  BY <1>0, <1>1, <1>3, <1>4, FlightMore DEF Portal
<1>7. ActionsApart'
  BY <1>0, <1>1, ApartRests DEF Portal
<1>8. LateRows'
  BY <1>0, LateRests DEF Portal
<1>9. OnlyOnce'
  <2>1. \A x, y : Bound(x, y)' = Bound(x, y)
    BY <1>0 DEF Bound
  <2>2. twice \subseteq twice' /\ Bound(g, t) = {}
    BY DEF BindTemplateToGroup, Overlap
  <2>3. CASE \E q \in flight : q.op = "bindTpl" /\ q.grp = g /\ q.tpl = t
    <3>1. <<g, t>> \in twice'
      BY <2>3 DEF BindTemplateToGroup, Overlap
    <3>2. ASSUME NEW q \in flight', q.op = "bindTpl" PROVE Alone(q)' \/ <<q.grp, q.tpl>> \in twice'
      <4>1. CASE q.grp = g /\ q.tpl = t
        BY <4>1, <3>1
      <4>2. CASE ~(q.grp = g /\ q.tpl = t)
        <5>1. q \in flight
          BY <1>3, <1>4, <3>2, <4>2
        <5>2. Alone(q) => Alone(q)'
          BY <1>3, <1>4, <2>1, <4>2 DEF Alone
        <5> QED
          BY <5>1, <5>2, <2>2, <3>2 DEF Portal, OnlyOnce
      <4> QED
        BY <4>1, <4>2
    <3> QED
      BY <1>0, <2>2, <3>2 DEF Portal, OnlyOnce, BoundOnce
  <2>4. CASE ~\E q \in flight : q.op = "bindTpl" /\ q.grp = g /\ q.tpl = t
    <3>1. ASSUME NEW q \in flight', q.op = "bindTpl" PROVE Alone(q)' \/ <<q.grp, q.tpl>> \in twice'
      <4>1. CASE q = r
        BY <1>3, <1>4, <2>1, <2>2, <2>4, <4>1 DEF Alone
      <4>2. CASE q # r
        <5>1. q \in flight /\ ~(q.grp = g /\ q.tpl = t)
          BY <1>4, <2>4, <3>1, <4>2
        <5>2. Alone(q) => Alone(q)'
          BY <1>3, <1>4, <2>1, <5>1 DEF Alone
        <5> QED
          BY <5>1, <5>2, <2>2, <3>1 DEF Portal, OnlyOnce
      <4> QED
        BY <4>1, <4>2
    <3> QED
      BY <1>0, <2>2, <3>1 DEF Portal, OnlyOnce, BoundOnce
  <2> QED
    BY <2>3, <2>4
<1> QED
  BY <1>5, <1>6, <1>7, <1>8, <1>9 DEF Portal

\* And is saved.
LEMMA SaveBindingStep == ASSUME Portal, NEW r \in flight, SaveBinding(r) PROVE Portal'
<1>0. /\ UNCHANGED <<grp, host, grpHost, tpl, strategy, action, expression, plugin, cluster, last, asked, twice>>
      /\ r.op = "bindTpl" /\ flight' = flight \ {r}
  BY DEF SaveBinding
<1>1. last["grp"] \in Nat /\ last["action"] \in Nat
  BY DEF Portal, TablesTyped, Columns
<1>2. PICK row : row = [grp |-> r.grp, tpl |-> r.tpl, user |-> r.user]
  OBVIOUS
<1>3. row \in BindingRow /\ row.grp = r.grp /\ row.tpl = r.tpl
  BY <1>0, <1>2 DEF BindingRow, Portal, FlightTyped
<1>4. PICK n : n = Len(grpTpl) /\ n \in Nat
  BY DEF Portal, TablesTyped
<1>5. /\ grpTpl' \in Seq(BindingRow) /\ DOMAIN grpTpl = 1..n /\ DOMAIN grpTpl' = 1..n + 1
      /\ \A i \in 1..n : grpTpl'[i] = grpTpl[i]
      /\ grpTpl'[n + 1] = row
  <2>1. grpTpl' = Append(grpTpl, row) /\ grpTpl \in Seq(BindingRow)
    BY <1>2 DEF SaveBinding, Portal, TablesTyped
  <2> QED
    BY ONLY <2>1, <1>3, <1>4
<1>6. \A i \in DOMAIN grpTpl' : (i \in DOMAIN grpTpl /\ grpTpl'[i] = grpTpl[i]) \/ (i = n + 1 /\ grpTpl'[i] = row)
  <2>1. \A i \in 1..n + 1 : i \in 1..n \/ i = n + 1
    BY <1>4
  <2> QED
    BY ONLY <1>5, <2>1
<1>7. TablesTyped'
  BY <1>0, <1>5 DEF Portal, TablesTyped
<1>8. FlightTyped'
  BY <1>0, <1>1, FlightFewer DEF Portal
<1>9. ActionsApart'
  BY <1>0, <1>1, ApartRests DEF Portal
<1>10. LateRows'
  <2>1. late \subseteq late' /\ (r.tpl \notin Tpls => <<"tpl", r.tpl>> \in late')
    BY DEF SaveBinding, LateIn
  <2>2. \A i \in DOMAIN grpTpl' : grpTpl'[i].tpl \in Tpls \/ <<"tpl", grpTpl'[i].tpl>> \in late'
    BY <1>3, <1>6, <2>1 DEF Portal, LateRows
  <2> QED
    BY <1>0, <2>1, <2>2 DEF Portal, LateRows, Groups, Tpls
<1>11. OnlyOnce'
  <2>1. Alone(r) \/ <<r.grp, r.tpl>> \in twice
    BY <1>0 DEF Portal, OnlyOnce
  <2>2. BoundOnce'
    <3>1. ASSUME NEW i \in DOMAIN grpTpl', NEW j \in DOMAIN grpTpl', i # j,
                 grpTpl'[i].grp = grpTpl'[j].grp, grpTpl'[i].tpl = grpTpl'[j].tpl
          PROVE  <<grpTpl'[i].grp, grpTpl'[i].tpl>> \in twice
      <4>1. CASE i \in DOMAIN grpTpl /\ grpTpl'[i] = grpTpl[i] /\ j \in DOMAIN grpTpl /\ grpTpl'[j] = grpTpl[j]
        BY <3>1, <4>1 DEF Portal, OnlyOnce, BoundOnce
      <4>2. CASE i = n + 1 /\ grpTpl'[i] = row /\ j \in DOMAIN grpTpl /\ grpTpl'[j] = grpTpl[j]
        <5>1. Bound(r.grp, r.tpl) # {}
          BY <1>3, <3>1, <4>2 DEF Bound
        <5> QED
          BY <5>1, <2>1, <1>3, <4>2 DEF Alone
      <4>3. CASE j = n + 1 /\ grpTpl'[j] = row /\ i \in DOMAIN grpTpl /\ grpTpl'[i] = grpTpl[i]
        <5>1. Bound(r.grp, r.tpl) # {}
          BY <1>3, <3>1, <4>3 DEF Bound
        <5> QED
          BY <5>1, <2>1, <1>3, <3>1, <4>3 DEF Alone
      <4> QED
        BY <1>6, <3>1, <4>1, <4>2, <4>3
    <3> QED
      BY <3>1, <1>0 DEF BoundOnce
  <2>3. ASSUME NEW q \in flight', q.op = "bindTpl" PROVE Alone(q)' \/ <<q.grp, q.tpl>> \in twice'
    <3>1. q \in flight /\ q # r
      BY <1>0, <2>3
    <3>2. CASE q.grp = r.grp /\ q.tpl = r.tpl
      BY <1>0, <2>1, <2>3, <3>1, <3>2 DEF Alone
    <3>3. CASE ~(q.grp = r.grp /\ q.tpl = r.tpl)
      <4>1. Bound(q.grp, q.tpl) = {} => Bound(q.grp, q.tpl)' = {}
        BY <1>3, <1>6, <3>3 DEF Bound
      <4>2. Alone(q) => Alone(q)'
        BY <1>0, <4>1 DEF Alone
      <4> QED
        BY <1>0, <2>3, <3>1, <4>2 DEF Portal, OnlyOnce
    <3> QED
      BY <3>2, <3>3
  <2> QED
    BY <2>2, <2>3 DEF OnlyOnce
<1> QED
  BY <1>7, <1>8, <1>9, <1>10, <1>11 DEF Portal

\* Or taken away.
LEMMA UnBindStep ==
    ASSUME Portal, NEW u, NEW g, NEW t, UnBindTemplateToGroup(u, g, t)
    PROVE  Portal'
<1>0. UNCHANGED <<grp, host, grpHost, tpl, strategy, action, expression, plugin, cluster, last, flight, late, twice>>
  BY DEF UnBindTemplateToGroup
<1>1. last["grp"] \in Nat /\ last["action"] \in Nat
  BY DEF Portal, TablesTyped, Columns
<1>2. PICK places : places = Bound(g, t)
  OBVIOUS
<1>3. /\ grpTpl' \in Seq(BindingRow)
      /\ \A i \in DOMAIN grpTpl' : \E k \in DOMAIN grpTpl \ places : grpTpl'[i] = grpTpl[k]
      /\ OnlyOnce /\ twice' = twice /\ flight' = flight => OnlyOnce'
  <2>1. grpTpl' = BindingsBut(places) /\ grpTpl \in Seq(BindingRow)
    BY <1>2 DEF UnBindTemplateToGroup, Portal, TablesTyped
  <2> QED
    BY <2>1, BindingsGo
<1>4. TablesTyped'
  <2>1. asked' \in 0..MaxRequests
    BY AskIs DEF Portal, TablesTyped, UnBindTemplateToGroup
  <2> QED
    BY <1>0, <1>3, <2>1 DEF Portal, TablesTyped
<1>5. FlightTyped'
  BY <1>0, <1>1, FlightFewer DEF Portal
<1>6. ActionsApart'
  BY <1>0, <1>1, ApartRests DEF Portal
<1>7. LateRows'
  BY <1>0, <1>3 DEF Portal, LateRows, Groups, Tpls
<1>8. OnlyOnce'
  BY <1>0, <1>3 DEF Portal
<1> QED
  BY <1>4, <1>5, <1>6, <1>7, <1>8 DEF Portal

\* Plugins and aggregators come and go with the rows of their groups, and hosts go
\* under maintenance: nothing else is touched.
LEMMA OthersStep ==
    ASSUME Portal, DOMAIN host' = DOMAIN host, asked' \in 0..MaxRequests,
           UNCHANGED <<grp, grpHost, grpTpl, tpl, strategy, action, expression, flight, twice>>,
           last' \in [Columns -> Nat], last'["grp"] = last["grp"], last'["action"] = last["action"],
           late \subseteq late',
           \A p \in DOMAIN plugin' : (p \in DOMAIN plugin /\ plugin'[p] = plugin[p])
                                      \/ plugin'[p].grp \in Groups \/ <<"plugin", p>> \in late',
           \A c \in DOMAIN cluster' : (c \in DOMAIN cluster /\ cluster'[c] = cluster[c])
                                       \/ cluster'[c].grp \in Groups \/ <<"cluster", c>> \in late'
    PROVE  Portal'
<1>1. last'["grp"] \in Nat /\ last'["action"] \in Nat
  BY DEF Columns
<1>2. TablesTyped'
  BY DEF Portal, TablesTyped
<1>3. FlightTyped'
  BY <1>1, FlightFewer DEF Portal
<1>4. ActionsApart'
  BY <1>1, ApartRests DEF Portal
<1>5. LateRows'
  <2>1. UNCHANGED <<Groups, Tpls>>
    BY DEF Groups, Tpls
  <2>2. \A p \in DOMAIN plugin' : plugin'[p].grp \in Groups' \/ <<"plugin", p>> \in late'
    BY <2>1 DEF Portal, LateRows
  <2>3. \A c \in DOMAIN cluster' : cluster'[c].grp \in Groups' \/ <<"cluster", c>> \in late'
    BY <2>1 DEF Portal, LateRows
  <2> QED
    BY <2>1, <2>2, <2>3 DEF Portal, LateRows
<1>6. OnlyOnce'
  BY OnceRests DEF Portal
<1> QED
  BY <1>2, <1>3, <1>4, <1>5, <1>6 DEF Portal

\* A plugin of a group that is gone is counted as late.
LEMMA CreatePluginStep == ASSUME Portal, NEW u, NEW g, CreatePlugin(u, g) PROVE Portal'
<1>1. /\ last' \in [Columns -> Nat] /\ last'["grp"] = last["grp"] /\ last'["action"] = last["action"]
      /\ asked' \in 0..MaxRequests
  BY NextIdIs, AskIs DEF CreatePlugin, Portal, TablesTyped, Columns
<1>2. PICK k, row : k = last["plugin"] + 1 /\ row = [grp |-> g, user |-> u]
  OBVIOUS
<1>3. plugin' = [x \in DOMAIN plugin \cup {k} |-> IF x = k THEN row ELSE plugin[x]]
  BY <1>2 DEF CreatePlugin, Put
<1>4. late \subseteq late' /\ (g \in Groups \/ <<"plugin", k>> \in late') /\ row.grp = g
  BY <1>2 DEF CreatePlugin, LateIn
<1>5. \A p \in DOMAIN plugin' : (p \in DOMAIN plugin /\ plugin'[p] = plugin[p])
                                      \/ plugin'[p].grp \in Groups \/ <<"plugin", p>> \in late'
  BY <1>3, <1>4
<1>6. UNCHANGED <<grp, host, grpHost, grpTpl, tpl, strategy, action, expression, cluster, flight, twice>>
  BY DEF CreatePlugin
<1> QED
  BY <1>1, <1>4, <1>5, <1>6, OthersStep

\* So is an aggregator.
LEMMA CreateAggregatorStep == ASSUME Portal, NEW u, NEW g, CreateAggregator(u, g) PROVE Portal'
<1>1. /\ last' \in [Columns -> Nat] /\ last'["grp"] = last["grp"] /\ last'["action"] = last["action"]
      /\ asked' \in 0..MaxRequests
  BY NextIdIs, AskIs DEF CreateAggregator, Portal, TablesTyped, Columns
<1>2. PICK k, row : k = last["cluster"] + 1 /\ row = [grp |-> g, user |-> u]
  OBVIOUS
<1>3. cluster' = [x \in DOMAIN cluster \cup {k} |-> IF x = k THEN row ELSE cluster[x]]
  BY <1>2 DEF CreateAggregator, Put
<1>4. late \subseteq late' /\ (g \in Groups \/ <<"cluster", k>> \in late') /\ row.grp = g
  BY <1>2 DEF CreateAggregator, LateIn
<1>5. \A c \in DOMAIN cluster' : (c \in DOMAIN cluster /\ cluster'[c] = cluster[c])
                                       \/ cluster'[c].grp \in Groups \/ <<"cluster", c>> \in late'
  BY <1>3, <1>4
<1>6. UNCHANGED <<grp, host, grpHost, grpTpl, tpl, strategy, action, expression, plugin, flight, twice>>
  BY DEF CreateAggregator
<1> QED
  BY <1>1, <1>4, <1>5, <1>6, OthersStep

\* Plugins and aggregators go one by one.
LEMMA RowGoesStep ==
    ASSUME Portal, NEW u, (\E p \in DOMAIN plugin : DeletePlugin(u, p)) \/ (\E c \in DOMAIN cluster : DeleteAggregator(u, c))
    PROVE  Portal'
<1>1. ASSUME NEW p, DeletePlugin(u, p) PROVE Portal'
  <2>1. plugin' = [x \in DOMAIN plugin \ {p} |-> plugin[x]]
    BY <1>1 DEF DeletePlugin, Without, Restrict
  <2>2. asked' \in 0..MaxRequests /\ last \in [Columns -> Nat]
    BY <1>1, AskIs DEF Portal, TablesTyped, DeletePlugin
  <2>3. UNCHANGED <<grp, host, grpHost, grpTpl, tpl, strategy, action, expression, cluster, last, flight, late, twice>>
    BY <1>1 DEF DeletePlugin
  <2> QED
    BY <2>1, <2>2, <2>3, OthersStep
<1>2. ASSUME NEW c, DeleteAggregator(u, c) PROVE Portal'
  <2>1. cluster' = [x \in DOMAIN cluster \ {c} |-> cluster[x]]
    BY <1>2 DEF DeleteAggregator, Without, Restrict
  <2>2. asked' \in 0..MaxRequests /\ last \in [Columns -> Nat]
    BY <1>2, AskIs DEF Portal, TablesTyped, DeleteAggregator
  <2>3. UNCHANGED <<grp, host, grpHost, grpTpl, tpl, strategy, action, expression, plugin, last, flight, late, twice>>
    BY <1>2 DEF DeleteAggregator
  <2> QED
    BY <2>1, <2>2, <2>3, OthersStep
<1> QED
  BY <1>1, <1>2

\* Maintenance changes the row of a host only.
LEMMA MaintainStep == ASSUME Portal, Maintain PROVE Portal'
<1>1. PICK hs, on : SetMaintain(hs, on)
  BY DEF Maintain
<1>2. asked' \in 0..MaxRequests /\ last \in [Columns -> Nat] /\ DOMAIN host' = DOMAIN host
  BY <1>1, AskIs DEF Portal, TablesTyped, SetMaintain
<1>3. UNCHANGED <<grp, grpHost, grpTpl, tpl, strategy, action, expression, plugin, cluster, last, flight, late, twice>>
  BY <1>1 DEF SetMaintain
<1> QED
  BY <1>2, <1>3, OthersStep

\* Templates, strategies and expressions change, and groups do not.
LEMMA GroupsRest ==
    ASSUME Portal, UNCHANGED <<grp, host, grpHost, plugin, cluster, flight, twice>>, asked' \in 0..MaxRequests,
           last' \in [Columns -> Nat], last'["grp"] = last["grp"], late \subseteq late', ActionsApart',
           grpTpl' = grpTpl \/ (grpTpl' \in Seq(BindingRow) /\ OnlyOnce'),
           \A s \in DOMAIN strategy' : strategy'[s] \in [tpl : Nat, key : Keys],
           \A s \in DOMAIN strategy' : strategy'[s].tpl \in Tpls' \/ <<"strategy", s>> \in late',
           \A i \in DOMAIN grpTpl' : grpTpl'[i].tpl \in Tpls' \/ <<"tpl", grpTpl'[i].tpl>> \in late'
    PROVE  Portal'
<1>1. last'["grp"] \in Nat
  BY DEF Columns
<1>2. TablesTyped'
  BY DEF Portal, TablesTyped
<1>3. FlightTyped'
  BY <1>1, FlightFewer DEF Portal
<1>4. LateRows'
  BY DEF Portal, LateRows, Groups
<1>5. OnlyOnce'
  BY OnceRests DEF Portal
<1> QED
  BY <1>2, <1>3, <1>4, <1>5 DEF Portal

\* A template begins without an action, below any parent.
LEMMA CreateTemplateStep ==
    ASSUME Portal, NEW u \in Users, NEW parent \in AnyTpl \cup {0}, CreateTemplate(u, parent)
    PROVE  Portal'
<1>0. UNCHANGED <<grp, host, grpHost, grpTpl, strategy, action, expression, plugin, cluster, flight, late, twice>>
  BY DEF CreateTemplate
<1>1. /\ last' \in [Columns -> Nat] /\ last'["grp"] = last["grp"] /\ last'["action"] = last["action"]
      /\ asked' \in 0..MaxRequests
  BY NextIdIs, AskIs DEF CreateTemplate, Portal, TablesTyped, Columns
<1>2. PICK k, row : k = last["tpl"] + 1 /\ row = [user |-> u, parent |-> parent, action |-> 0]
  OBVIOUS
<1>3. tpl' = [x \in DOMAIN tpl \cup {k} |-> IF x = k THEN row ELSE tpl[x]]
  BY <1>2 DEF CreateTemplate, Put
<1>4. /\ row \in [user : Users, parent : Nat, action : action \cup {0}] /\ row.action = 0
  <2>1. parent \in Nat
    BY DEF AnyTpl
  <2> QED
    BY <1>2, <2>1
<1>5. ActionsApart'
  <2>1. \A t \in DOMAIN tpl' : (t \in DOMAIN tpl /\ tpl'[t] = tpl[t]) \/ (t = k /\ tpl'[t] = row)
    BY <1>3
  <2>2. \A t \in DOMAIN tpl' : tpl'[t] \in [user : Users, parent : Nat, action : action \cup {0}]
    BY <1>4, <2>1 DEF Portal, ActionsApart
  <2>3. \A e \in DOMAIN expression : expression[e].action # 0
    BY DEF Portal, ActionsApart, TablesTyped, Columns
  <2>4. \A t, v \in DOMAIN tpl' : tpl'[t].action = tpl'[v].action => t = v \/ tpl'[t].action = 0
    BY <1>4, <2>1 DEF Portal, ActionsApart
  <2>5. \A t \in DOMAIN tpl', e \in DOMAIN expression : tpl'[t].action # expression[e].action
    BY <1>4, <2>1, <2>3 DEF Portal, ActionsApart
  <2> QED
    BY <1>0, <1>1, <2>2, <2>4, <2>5 DEF Portal, ActionsApart
<1>6. Tpls \subseteq Tpls'
  BY <1>3 DEF Tpls
<1> QED
  BY <1>0, <1>1, <1>5, <1>6, GroupsRest DEF Portal, LateRows, TablesTyped

\* A template is put below another.
LEMMA UpdateTemplateStep ==
    ASSUME Portal, NEW u \in Users, NEW parent \in AnyTpl \cup {0}, NEW t \in Tpls, UpdateTemplate(u, t, parent)
    PROVE  Portal'
<1>0. UNCHANGED <<grp, host, grpHost, grpTpl, strategy, action, expression, plugin, cluster, last, flight, late, twice>>
  BY DEF UpdateTemplate
<1>1. last \in [Columns -> Nat] /\ asked' \in 0..MaxRequests
  BY AskIs DEF UpdateTemplate, Portal, TablesTyped
<1>2. parent \in Nat /\ tpl[t] \in [user : Users, parent : Nat, action : action \cup {0}]
  BY DEF AnyTpl, Portal, ActionsApart, Tpls
<1>3. PICK row : row = [tpl[t] EXCEPT !.parent = parent]
  OBVIOUS
<1>4. tpl' = [tpl EXCEPT ![t] = row] /\ row \in [user : Users, parent : Nat, action : action \cup {0}] /\ row.action = tpl[t].action
  BY <1>2, <1>3 DEF UpdateTemplate
<1>5. DOMAIN tpl' = DOMAIN tpl /\ \A v \in DOMAIN tpl' : tpl'[v].action = tpl[v].action
          /\ tpl'[v] \in [user : Users, parent : Nat, action : action \cup {0}]
  BY <1>4 DEF Portal, ActionsApart
<1>6. ActionsApart'
  BY <1>0, <1>5 DEF Portal, ActionsApart
<1>7. Tpls' = Tpls
  BY <1>5 DEF Tpls
<1> QED
  BY <1>0, <1>1, <1>6, <1>7, GroupsRest DEF Portal, LateRows, TablesTyped

\* A template goes, and its action, strategies and bindings with it.
LEMMA DeleteTemplateStep == ASSUME Portal, NEW t, DeleteTemplate(t) PROVE Portal'
<1>0. UNCHANGED <<grp, host, grpHost, expression, plugin, cluster, last, flight, late, twice>>
  BY DEF DeleteTemplate
<1>1. last \in [Columns -> Nat] /\ asked' \in 0..MaxRequests
  BY AskIs DEF DeleteTemplate, Portal, TablesTyped
<1>2. PICK places : places = {i \in DOMAIN grpTpl : grpTpl[i].tpl = t}
  OBVIOUS
<1>3. /\ grpTpl' \in Seq(BindingRow)
      /\ \A i \in DOMAIN grpTpl' : \E k \in DOMAIN grpTpl \ places : grpTpl'[i] = grpTpl[k]
      /\ OnlyOnce'
  <2>1. grpTpl' = BindingsBut(places) /\ grpTpl \in Seq(BindingRow)
    BY <1>2 DEF DeleteTemplate, Portal, TablesTyped
  <2> QED
    BY <2>1, <1>0, BindingsGo DEF Portal
<1>4. /\ tpl' = [x \in DOMAIN tpl \ {t} |-> tpl[x]]
      /\ action' = action \ {tpl[t].action} /\ t \in DOMAIN tpl
      /\ strategy' = [x \in DOMAIN strategy \ {s \in DOMAIN strategy : strategy[s].tpl = t} |-> strategy[x]]
  BY DEF DeleteTemplate, Without, Restrict, ActionOf, Tpls
<1>5. ActionsApart'
  <2>1. \A v \in DOMAIN tpl' : v \in DOMAIN tpl /\ v # t /\ tpl'[v] = tpl[v]
    BY <1>4
  <2>2. ASSUME NEW v \in DOMAIN tpl' PROVE tpl'[v] \in [user : Users, parent : Nat, action : action' \cup {0}]
    <3>1. tpl[v] \in [user : Users, parent : Nat, action : action \cup {0}]
      BY <2>1 DEF Portal, ActionsApart
    <3>2. tpl[v].action \in action' \cup {0}
      BY <1>4, <2>1, <3>1 DEF Portal, ActionsApart
    <3> QED
      BY <2>1, <3>1, <3>2
  <2>3. ASSUME NEW e \in DOMAIN expression PROVE expression[e] \in [user : Users, action : action', pause : BOOLEAN]
    <3>1. expression[e] \in [user : Users, action : action, pause : BOOLEAN]
      BY DEF Portal, ActionsApart
    <3>2. expression[e].action \in action'
      BY <1>4, <3>1 DEF Portal, ActionsApart
    <3> QED
      BY <3>1, <3>2
  <2>4. action' \subseteq 1..last["action"]
    BY <1>4 DEF Portal, ActionsApart
  <2> QED
    BY <1>0, <2>1, <2>2, <2>3, <2>4 DEF Portal, ActionsApart
<1>6. \A x \in Tpls : x # t => x \in Tpls'
  BY <1>4 DEF Tpls
<1>7. \A s \in DOMAIN strategy' : s \in DOMAIN strategy /\ strategy'[s] = strategy[s] /\ strategy[s].tpl # t
  BY <1>4
<1>8. \A i \in DOMAIN grpTpl' : grpTpl'[i].tpl \in Tpls' \/ <<"tpl", grpTpl'[i].tpl>> \in late'
  BY <1>0, <1>2, <1>3, <1>6 DEF Portal, LateRows
<1>9. \A s \in DOMAIN strategy' : strategy'[s].tpl \in Tpls' \/ <<"strategy", s>> \in late'
  BY <1>0, <1>6, <1>7 DEF Portal, LateRows
<1>10. \A s \in DOMAIN strategy' : strategy'[s] \in [tpl : Nat, key : Keys]
  BY <1>7 DEF Portal, TablesTyped
<1> QED
  BY <1>0, <1>1, <1>3, <1>5, <1>8, <1>9, <1>10, GroupsRest

\* A template is given an action of its own.
LEMMA CreateActionStep == ASSUME Portal, NEW t, CreateActionToTmplate(t) PROVE Portal'
<1>0. UNCHANGED <<grp, host, grpHost, grpTpl, strategy, expression, plugin, cluster, flight, late, twice>>
  BY DEF CreateActionToTmplate
<1>1. /\ last' \in [Columns -> Nat] /\ last'["grp"] = last["grp"] /\ last'["action"] = last["action"] + 1
      /\ last["action"] \in Nat /\ asked' \in 0..MaxRequests
  BY NextIdIs, AskIs DEF CreateActionToTmplate, Portal, TablesTyped, Columns
<1>2. PICK a : a = last["action"] + 1 /\ a \in Nat /\ a # 0
  BY <1>1
<1>3. a \notin action /\ action' = action \cup {a} /\ action' \subseteq 1..last'["action"]
  BY <1>1, <1>2 DEF CreateActionToTmplate, Portal, ActionsApart
<1>4. t \in DOMAIN tpl /\ tpl[t] \in [user : Users, parent : Nat, action : action \cup {0}]
  BY DEF CreateActionToTmplate, Portal, ActionsApart, Tpls
<1>5. PICK row : row = [tpl[t] EXCEPT !.action = a]
  OBVIOUS
<1>6. row \in [user : Users, parent : Nat, action : action' \cup {0}] /\ row.action = a
  BY <1>3, <1>4, <1>5
<1>7. tpl' = [tpl EXCEPT ![t] = row]
  BY <1>2, <1>5 DEF CreateActionToTmplate
<1>8. /\ DOMAIN tpl' = DOMAIN tpl /\ tpl'[t] = row
      /\ \A v \in DOMAIN tpl : v # t => tpl'[v] = tpl[v]
  BY <1>4, <1>7
<1>9. ActionsApart'
  <2>1. ASSUME NEW v \in DOMAIN tpl' PROVE tpl'[v] \in [user : Users, parent : Nat, action : action' \cup {0}]
    <3>1. CASE v = t
      BY <1>6, <1>8, <3>1
    <3>2. CASE v # t
      BY <1>3, <1>8, <3>2 DEF Portal, ActionsApart
    <3> QED
      BY <3>1, <3>2
  <2>2. \A e \in DOMAIN expression : expression[e] \in [user : Users, action : action', pause : BOOLEAN]
    BY <1>3 DEF Portal, ActionsApart
  <2>3. \A v \in DOMAIN tpl : tpl[v].action # a
    BY <1>2, <1>3 DEF Portal, ActionsApart
  <2>4. \A e \in DOMAIN expression : expression[e].action # a
    BY <1>2, <1>3 DEF Portal, ActionsApart
  <2>5. \A v, w \in DOMAIN tpl' : tpl'[v].action = tpl'[w].action => v = w \/ tpl'[v].action = 0
    BY <1>6, <1>8, <2>3 DEF Portal, ActionsApart
  <2>6. \A v \in DOMAIN tpl', e \in DOMAIN expression : tpl'[v].action # expression[e].action
    BY <1>6, <1>8, <2>4 DEF Portal, ActionsApart
  <2> QED
    BY <1>0, <1>3, <2>1, <2>2, <2>5, <2>6 DEF Portal, ActionsApart
<1>10. Tpls' = Tpls
  BY <1>8 DEF Tpls
<1> QED
  BY <1>0, <1>1, <1>9, <1>10, GroupsRest DEF Portal, LateRows, TablesTyped

\* A strategy is made, changed or deleted.
LEMMA CreateStrategyStep ==
    ASSUME Portal, NEW t \in AnyTpl, NEW k \in Keys, CreateStrategy(t, k)
    PROVE  Portal'
<1>0. UNCHANGED <<grp, host, grpHost, grpTpl, tpl, action, expression, plugin, cluster, flight, twice>>
  BY DEF CreateStrategy
<1>1. /\ last' \in [Columns -> Nat] /\ last'["grp"] = last["grp"] /\ last'["action"] = last["action"]
      /\ last["action"] \in Nat /\ asked' \in 0..MaxRequests
  BY NextIdIs, AskIs DEF CreateStrategy, Portal, TablesTyped, Columns
<1>2. PICK n, row : n = last["strategy"] + 1 /\ row = [tpl |-> t, key |-> k]
  OBVIOUS
<1>3. row \in [tpl : Nat, key : Keys] /\ row.tpl = t
  BY <1>2 DEF AnyTpl
<1>4. strategy' = [x \in DOMAIN strategy \cup {n} |-> IF x = n THEN row ELSE strategy[x]]
  BY <1>2 DEF CreateStrategy, Put
<1>5. late \subseteq late' /\ (t \in Tpls \/ <<"strategy", n>> \in late')
  BY <1>2 DEF CreateStrategy, LateIn
<1>6. \A s \in DOMAIN strategy' : (s \in DOMAIN strategy /\ strategy'[s] = strategy[s]) \/ (s = n /\ strategy'[s] = row)
  BY <1>4
<1>7. \A s \in DOMAIN strategy' : strategy'[s] \in [tpl : Nat, key : Keys]
  BY <1>3, <1>6 DEF Portal, TablesTyped
<1>8. Tpls' = Tpls
  BY <1>0 DEF Tpls
<1>9. \A s \in DOMAIN strategy' : strategy'[s].tpl \in Tpls' \/ <<"strategy", s>> \in late'
  BY <1>3, <1>5, <1>6, <1>8 DEF Portal, LateRows
<1>10. ActionsApart'
  BY <1>0, <1>1, ApartRests DEF Portal
<1>11. \A i \in DOMAIN grpTpl' : grpTpl'[i].tpl \in Tpls' \/ <<"tpl", grpTpl'[i].tpl>> \in late'
  BY <1>0, <1>5, <1>8 DEF Portal, LateRows
<1> QED
  BY <1>0, <1>1, <1>5, <1>7, <1>9, <1>10, <1>11, GroupsRest

\* Strategies are changed and go one by one.
LEMMA StrategyRowStep ==
    ASSUME Portal, NEW s \in DOMAIN strategy, DeleteStrategy(s) \/ \E k \in Keys : UpdateStrategy(s, k)
    PROVE  Portal'
<1>0. UNCHANGED <<grp, host, grpHost, grpTpl, tpl, action, expression, plugin, cluster, last, flight, late, twice>>
  BY DEF DeleteStrategy, UpdateStrategy
<1>1. last \in [Columns -> Nat] /\ asked' \in 0..MaxRequests /\ last["action"] \in Nat
  BY AskIs DEF DeleteStrategy, UpdateStrategy, Portal, TablesTyped, Columns
<1>2. \A x \in DOMAIN strategy' : /\ x \in DOMAIN strategy /\ strategy'[x].tpl = strategy[x].tpl
                                  /\ strategy'[x] \in [tpl : Nat, key : Keys]
  <2>1. CASE DeleteStrategy(s)
    <3>1. strategy' = [x \in DOMAIN strategy \ {s} |-> strategy[x]]
      BY <2>1 DEF DeleteStrategy, Without, Restrict
    <3> QED
      BY <3>1 DEF Portal, TablesTyped
  <2>2. ASSUME NEW k \in Keys, UpdateStrategy(s, k)
        PROVE  \A x \in DOMAIN strategy' : /\ x \in DOMAIN strategy /\ strategy'[x].tpl = strategy[x].tpl
                                           /\ strategy'[x] \in [tpl : Nat, key : Keys]
    <3>1. strategy[s] \in [tpl : Nat, key : Keys]
      BY DEF Portal, TablesTyped
    <3>2. PICK row : row = [strategy[s] EXCEPT !.key = k]
      OBVIOUS
    <3>3. row \in [tpl : Nat, key : Keys] /\ row.tpl = strategy[s].tpl
      BY <3>1, <3>2
    <3>4. strategy' = [strategy EXCEPT ![s] = row]
      BY <2>2, <3>2 DEF UpdateStrategy
    <3> QED
      BY <3>3, <3>4 DEF Portal, TablesTyped
  <2> QED
    BY <2>1, <2>2
<1>3. ActionsApart'
  BY <1>0, <1>1, ApartRests DEF Portal
<1>4. Tpls' = Tpls
  BY <1>0 DEF Tpls
<1> QED
  BY <1>0, <1>1, <1>2, <1>3, <1>4, GroupsRest DEF Portal, LateRows

\* An expression is made with its action, changed, or deleted.
LEMMA CreateExpressionStep ==
    ASSUME Portal, NEW u \in Users, NEW pause \in BOOLEAN, CreateExrpession(u, pause)
    PROVE  Portal'
<1>0. UNCHANGED <<grp, host, grpHost, grpTpl, tpl, strategy, plugin, cluster, flight, late, twice>>
  BY DEF CreateExrpession
<1>1. last \in [Columns -> Nat] /\ asked' \in 0..MaxRequests /\ last["action"] \in Nat
  BY AskIs DEF CreateExrpession, Portal, TablesTyped, Columns
<1>2. last' \in [Columns -> Nat] /\ last'["grp"] = last["grp"] /\ last'["action"] = last["action"] + 1
  BY <1>1 DEF CreateExrpession, Columns
<1>3. PICK a : a = last["action"] + 1 /\ a \in Nat /\ a # 0
  BY <1>1
<1>4. a \notin action /\ action' = action \cup {a} /\ action' \subseteq 1..last'["action"]
  <2>1. action' = action \cup {a}
    BY <1>3 DEF CreateExrpession
  <2>2. action \subseteq 1..last["action"]
    BY DEF Portal, ActionsApart
  <2>3. action' \subseteq 1..last'["action"]
    <3>1. PICK m, k : m = last["action"] /\ k = last'["action"]
      OBVIOUS
    <3>2. m \in Nat /\ k = m + 1 /\ a = m + 1
      BY <1>1, <1>2, <1>3, <3>1
    <3>3. 1..m \cup {a} \subseteq 1..k
      BY ONLY <3>2
    <3> QED
      BY <2>1, <2>2, <3>1, <3>3
  <2> QED
    BY <2>1, <2>2, <2>3, <1>1, <1>3
<1>5. PICK n, row : n = last["expression"] + 1 /\ row = [user |-> u, action |-> a, pause |-> pause]
  OBVIOUS
<1>6. row \in [user : Users, action : action', pause : BOOLEAN] /\ row.action = a
  BY <1>4, <1>5
<1>7. expression' = [x \in DOMAIN expression \cup {n} |-> IF x = n THEN row ELSE expression[x]]
  BY <1>3, <1>5 DEF CreateExrpession, Put
<1>8. \A e \in DOMAIN expression' : (e # n /\ e \in DOMAIN expression /\ expression'[e] = expression[e])
                                    \/ (e = n /\ expression'[e] = row)
  BY <1>7
<1>9. ActionsApart'
  <2>1. \A v \in DOMAIN tpl : tpl[v] \in [user : Users, parent : Nat, action : action' \cup {0}]
    BY <1>4 DEF Portal, ActionsApart
  <2>2. \A e \in DOMAIN expression' : expression'[e] \in [user : Users, action : action', pause : BOOLEAN]
    BY <1>4, <1>6, <1>8 DEF Portal, ActionsApart
  <2>3. \A v \in DOMAIN tpl : tpl[v].action # a
    BY <1>3, <1>4 DEF Portal, ActionsApart
  <2>4. \A e \in DOMAIN expression : expression[e].action # a
    BY <1>3, <1>4 DEF Portal, ActionsApart
  <2>5. \A e, f \in DOMAIN expression' : expression'[e].action = expression'[f].action => e = f
    BY <1>6, <1>8, <2>4 DEF Portal, ActionsApart
  <2>6. \A v \in DOMAIN tpl, e \in DOMAIN expression' : tpl[v].action # expression'[e].action
    BY <1>6, <1>8, <2>3 DEF Portal, ActionsApart
  <2> QED
    BY <1>0, <1>4, <2>1, <2>2, <2>5, <2>6 DEF Portal, ActionsApart
<1>10. Tpls' = Tpls
  BY <1>0 DEF Tpls
<1> QED
  BY <1>0, <1>1, <1>2, <1>9, <1>10, GroupsRest DEF Portal, LateRows, TablesTyped

\* So are expressions, with their actions.
LEMMA ExpressionRowStep ==
    ASSUME Portal, NEW u \in Users, NEW e \in DOMAIN expression,
           DeleteExpression(u, e) \/ \E pause \in BOOLEAN : UpdateExrpession(u, e, pause)
    PROVE  Portal'
<1>0. UNCHANGED <<grp, host, grpHost, grpTpl, tpl, strategy, plugin, cluster, last, flight, late, twice>>
  BY DEF DeleteExpression, UpdateExrpession
<1>1. last \in [Columns -> Nat] /\ asked' \in 0..MaxRequests /\ last["action"] \in Nat
  BY AskIs DEF DeleteExpression, UpdateExrpession, Portal, TablesTyped, Columns
<1>2. expression[e] \in [user : Users, action : action, pause : BOOLEAN]
  BY DEF Portal, ActionsApart
<1>3. ActionsApart'
  <2>1. CASE DeleteExpression(u, e)
    <3>1. expression' = [x \in DOMAIN expression \ {e} |-> expression[x]]
      BY <2>1 DEF DeleteExpression, Without, Restrict
    <3>2. PICK a : a = (IF u \in Admins THEN 0 ELSE expression[e].action)
      OBVIOUS
    <3>3. action' = action \ {a} /\ (a = 0 \/ a = expression[e].action)
      BY <2>1, <3>2 DEF DeleteExpression
    <3>4. \A f \in DOMAIN expression' : f \in DOMAIN expression /\ f # e /\ expression'[f] = expression[f]
      BY <3>1
    <3>5. ASSUME NEW f \in DOMAIN expression' PROVE expression'[f] \in [user : Users, action : action', pause : BOOLEAN]
      <4>1. expression[f] \in [user : Users, action : action, pause : BOOLEAN] /\ expression[f].action # expression[e].action
        BY <3>4 DEF Portal, ActionsApart
      <4>2. expression[f].action # 0
        BY <1>1, <4>1 DEF Portal, ActionsApart
      <4>3. expression[f].action \in action'
        BY <3>3, <4>1, <4>2
      <4> QED
        BY <3>4, <4>1, <4>3
    <3>6. ASSUME NEW t \in DOMAIN tpl PROVE tpl[t] \in [user : Users, parent : Nat, action : action' \cup {0}]
      <4>1. tpl[t] \in [user : Users, parent : Nat, action : action \cup {0}] /\ tpl[t].action # expression[e].action
        BY DEF Portal, ActionsApart
      <4>2. tpl[t].action \in action' \cup {0}
        BY <3>3, <4>1
      <4> QED
        BY <4>1, <4>2
    <3>7. action' \subseteq 1..last["action"]
      BY <3>3 DEF Portal, ActionsApart
    <3> QED
      BY <1>0, <3>4, <3>5, <3>6, <3>7 DEF Portal, ActionsApart
  <2>2. ASSUME NEW pause \in BOOLEAN, UpdateExrpession(u, e, pause) PROVE ActionsApart'
    <3>1. PICK row : row = [expression[e] EXCEPT !.pause = pause]
      OBVIOUS
    <3>2. row \in [user : Users, action : action, pause : BOOLEAN] /\ row.action = expression[e].action
      BY <1>2, <3>1
    <3>3. expression' = [expression EXCEPT ![e] = row] /\ action' = action
      BY <2>2, <3>1 DEF UpdateExrpession
    <3>4. DOMAIN expression' = DOMAIN expression /\ \A f \in DOMAIN expression :
            /\ expression'[f].action = expression[f].action
            /\ expression'[f] \in [user : Users, action : action, pause : BOOLEAN]
      BY <3>2, <3>3 DEF Portal, ActionsApart
    <3> QED
      BY <1>0, <3>3, <3>4 DEF Portal, ActionsApart
  <2> QED
    BY <2>1, <2>2
<1>4. Tpls' = Tpls
  BY <1>0 DEF Tpls
<1> QED
  BY <1>0, <1>1, <1>3, <1>4, GroupsRest DEF Portal, LateRows, TablesTyped

\* A step of the portal's requests keeps the tables.
LEMMA RequestStep == ASSUME Portal, Next PROVE Portal'
<1>1. ASSUME NEW u \in Users, GroupRequest(u) PROVE Portal'
  <2>1. ASSUME NEW g \in AnyGroup, NEW t \in AnyTpl, UnBindTemplateToGroup(u, g, t) PROVE Portal'
    BY <2>1, UnBindStep
  <2>2. ASSUME NEW g \in AnyGroup, NEW t \in AnyTpl, BindTemplateToGroup(u, g, t) PROVE Portal'
    BY <2>2, <1>1, BindTemplateStep
  <2>3. ASSUME NEW g \in AnyGroup, DeleteHostGroup(u, g) \/ CreatePlugin(u, g) \/ CreateAggregator(u, g) PROVE Portal'
    BY <2>3, <1>1, DeleteGroupStep, CreatePluginStep, CreateAggregatorStep
  <2>4. CASE CreateHostGroup(u)
    BY <2>4, <1>1, CreateGroupStep
  <2>5. CASE \/ \E g \in AnyGroup, hs \in SUBSET Hosts \ {{}} :
                  BindHostToHostGroup(u, g, hs) \/ \E op \in {"add", "remove"} : PatchHostGroupHost(u, g, hs, op)
             \/ \E g \in AnyGroup, h \in Hosts : UnBindAHostToHostGroup(u, g, h)
    BY <2>5, <1>1, HostsStep
  <2>6. CASE (\E p \in DOMAIN plugin : DeletePlugin(u, p)) \/ (\E c \in DOMAIN cluster : DeleteAggregator(u, c))
    BY <2>6, <1>1, RowGoesStep
  <2> QED
    BY <1>1, <2>1, <2>2, <2>3, <2>4, <2>5, <2>6 DEF GroupRequest
<1>2. ASSUME NEW u \in Users, TemplateRequest(u) PROVE Portal'
  <2>1. ASSUME NEW parent \in AnyTpl \cup {0},
               CreateTemplate(u, parent) \/ \E t \in Tpls : UpdateTemplate(u, t, parent)
        PROVE  Portal'
    BY <2>1, <1>2, CreateTemplateStep, UpdateTemplateStep
  <2>2. ASSUME NEW t \in AnyTpl, DeleteTemplate(t) \/ CreateActionToTmplate(t) PROVE Portal'
    BY <2>2, DeleteTemplateStep, CreateActionStep
  <2>3. ASSUME NEW k \in Keys, NEW t \in AnyTpl, CreateStrategy(t, k) PROVE Portal'
    BY <2>3, CreateStrategyStep
  <2>4. ASSUME NEW s \in DOMAIN strategy, DeleteStrategy(s) \/ \E k \in Keys : UpdateStrategy(s, k) PROVE Portal'
    BY <2>4, StrategyRowStep
  <2>5. ASSUME NEW pause \in BOOLEAN, CreateExrpession(u, pause) PROVE Portal'
    BY <2>5, <1>2, CreateExpressionStep
  <2>6. ASSUME NEW e \in DOMAIN expression,
               DeleteExpression(u, e) \/ \E pause \in BOOLEAN : UpdateExrpession(u, e, pause)
        PROVE  Portal'
    BY <2>6, <1>2, ExpressionRowStep
  <2> QED
    BY <1>2, <2>1, <2>2, <2>3, <2>4, <2>5, <2>6 DEF TemplateRequest
<1>3. ASSUME NEW r \in flight, Finish(r) PROVE Portal'
  BY <1>3, HostsEnd, SaveBindingStep DEF Finish
<1> QED
  BY <1>1, <1>2, <1>3, MaintainStep DEF Next

\* And so does everything hbs does, which reads them only.
LEMMA PortalStep == Portal /\ [HNext]_hvars => Portal'
<1> SUFFICES ASSUME Portal, [HNext]_hvars PROVE Portal'
  OBVIOUS
<1>1. CASE Request
  BY <1>1, RequestStep DEF Request
<1>2. CASE UNCHANGED vars
  <2>1. UNCHANGED <<grp, host, grpHost, grpTpl, tpl, strategy, action, expression, plugin, cluster, last,
                    flight, asked, late, twice>>
    BY <1>2 DEF vars, tables
  <2>2. TablesTyped' /\ FlightTyped' /\ ActionsApart'
    BY <2>1 DEF Portal, TablesTyped, FlightTyped, ActionsApart
  <2>3. LateRows'
    BY <2>1, LateRests DEF Portal
  <2>4. OnlyOnce'
    BY <2>1, OnceRests DEF Portal
  <2> QED
    BY <2>2, <2>3, <2>4 DEF Portal
<1> QED
  BY <1>1, <1>2 DEF HNext, Reload, ReloadFails, Advance, hvars

\* What is kept says that the tables are sound.
LEMMA TablesAre == Portal => TablesSound
<1> SUFFICES ASSUME Portal PROVE TablesSound
  OBVIOUS
<1>1. last["action"] \in Nat /\ last["grp"] \in Nat
  BY DEF Portal, TablesTyped, Columns
<1>2. TypeOK
  <2>1. \A i \in DOMAIN grpTpl : grpTpl[i].user \in Users
    <3>1. grpTpl \in Seq(BindingRow)
      BY DEF Portal, TablesTyped
    <3>2. \A i \in DOMAIN grpTpl : grpTpl[i] \in BindingRow
      BY ONLY <3>1
    <3> QED
      BY <3>2 DEF BindingRow
  <2>2. \A t \in Tpls : tpl[t].action \in 0..last["action"]
    <3>1. \A t \in Tpls : tpl[t].action \in action \cup {0}
      BY DEF Portal, ActionsApart, Tpls
    <3>2. action \cup {0} \subseteq 0..last["action"]
      BY <1>1 DEF Portal, ActionsApart
    <3> QED
      BY <3>1, <3>2
  <2> QED
    BY <2>1, <2>2 DEF TypeOK, Portal, TablesTyped, FlightTyped, ActionsApart, Groups
<1>3. CascadesWhole
  <2>1. ASSUME NEW r \in grpHost, NEW i \in DOMAIN grpTpl, grpTpl[i].grp = r[1]
        PROVE  \/ grpTpl[i].tpl \in RelatedTpl(r[2])
               \/ {<<"grpHost", r>>, <<"tpl", grpTpl[i].tpl>>} \cap late # {}
    <3>1. r[1] \in Groups \/ <<"grpHost", r>> \in late
      BY DEF Portal, LateRows
    <3>2. grpTpl[i].tpl \in Tpls \/ <<"tpl", grpTpl[i].tpl>> \in late
      BY DEF Portal, LateRows
    <3>3. r = <<r[1], r[2]>>
      BY DEF Portal, TablesTyped
    <3>4. r[1] \in Groups => grpTpl[i].grp \in RelatedGrp(r[2])
      BY <2>1, <3>3 DEF RelatedGrp
    <3> QED
      BY <3>1, <3>2, <3>4 DEF RelatedTpl
  <2> QED
    BY <2>1 DEF CascadesWhole, Portal, LateRows
<1>4. BoundOnce
  BY DEF Portal, OnlyOnce
<1>5. PagesOpen
  <2>1. \A t \in Tpls : GetATemplate(t)
    BY DEF GetATemplate, Portal, ActionsApart, Tpls
  <2>2. \A e \in DOMAIN expression : GetExpression(e)
    BY DEF GetExpression, Portal, ActionsApart
  <2>3. \A t \in Tpls, u \in Tpls : t # u /\ tpl[t].action # 0 => tpl[t].action # tpl[u].action
    BY DEF Portal, ActionsApart, Tpls
  <2>4. \A t \in Tpls, e \in DOMAIN expression : tpl[t].action # expression[e].action
    BY DEF Portal, ActionsApart, Tpls
  <2>5. \A g \in AnyGroup : GetAggregatorListOfGrp(g)
        \/ \E c \in DOMAIN cluster : cluster[c].grp = g /\ <<"cluster", c>> \in late
    BY DEF GetAggregatorListOfGrp, Portal, LateRows
  <2> QED
    BY <2>1, <2>2, <2>3, <2>4, <2>5 DEF PagesOpen
<1> QED
  BY <1>2, <1>3, <1>4, <1>5 DEF TablesSound

\* src/api/app/controller: deleting a group or a template leaves no row that names it
\* but those of requests that came too late, a template is bound to a group once unless
\* two requests overlapped, no page is refused for a row that is missing, and no two
\* templates or expressions share an action, for any tables that begin whole, any users
\* and any number of requests in flight.
THEOREM TablesStaySound == MCSpec => []TablesSound
<1>1. MCInit => Portal
  BY PortalInit DEF MCInit, HInit
<1> QED
  BY <1>1, PortalStep, TablesAre, PortalParts, PortalSpec, PTL

-----------------------------------------------------------------------------
(* What hbs answers                                                              *)

\* A template and the parents of parents the templates name, up to a depth.
Ancestry(anc, tpls, t, n) ==
    anc = [i \in 0..n |-> IF i = 0 THEN t
                          ELSE IF anc[i - 1] \in DOMAIN tpls THEN tpls[anc[i - 1]] ELSE 0]

\* Parents can be followed to any depth.
LEMMA AncestryIs == ASSUME NEW tpls, NEW t PROVE \A n \in Nat : \E anc : Ancestry(anc, tpls, t, n)
<1> DEFINE S == {n \in Nat : \E anc : Ancestry(anc, tpls, t, n)}
<1>1. 0 \in S
  <2>1. PICK anc : anc = [i \in 0..0 |-> t]
    OBVIOUS
  <2>2. Ancestry(anc, tpls, t, 0)
    BY <2>1 DEF Ancestry
  <2> QED
    BY <2>2
<1>2. ASSUME NEW n \in Nat, n \in S PROVE n + 1 \in S
  <2>1. PICK anc : Ancestry(anc, tpls, t, n)
    BY <1>2
  <2>2. PICK new : new = IF anc[n] \in DOMAIN tpls THEN tpls[anc[n]] ELSE 0
    OBVIOUS
  <2>3. PICK next : next = [i \in 0..n + 1 |-> IF i <= n THEN anc[i] ELSE new]
    OBVIOUS
  <2>4. (\A i \in 0..n : next[i] = anc[i]) /\ next[n + 1] = new
    BY <2>3
  <2>5. \A i \in 0..n : anc[i] = IF i = 0 THEN t
                           ELSE IF anc[i - 1] \in DOMAIN tpls THEN tpls[anc[i - 1]] ELSE 0
    BY <2>1 DEF Ancestry
  <2>6. ASSUME NEW i \in 0..n + 1
        PROVE  next[i] = IF i = 0 THEN t
                         ELSE IF next[i - 1] \in DOMAIN tpls THEN tpls[next[i - 1]] ELSE 0
    <3>1. CASE i = 0
      BY <3>1, <2>4, <2>5
    <3>2. CASE i \in 1..n
      <4>1. next[i] = anc[i] /\ next[i - 1] = anc[i - 1] /\ i # 0
        BY <3>2, <2>4
      <4>2. anc[i] = IF anc[i - 1] \in DOMAIN tpls THEN tpls[anc[i - 1]] ELSE 0
        BY <3>2, <2>5
      <4> QED
        BY <4>1, <4>2
    <3>3. CASE i = n + 1
      <4>1. next[i] = new /\ next[i - 1] = anc[n] /\ i # 0
        BY <3>3, <2>4
      <4> QED
        BY <4>1, <2>2
    <3>4. i = 0 \/ i \in 1..n \/ i = n + 1
      OBVIOUS
    <3> QED
      BY <3>1, <3>2, <3>3, <3>4
  <2>7. Ancestry(next, tpls, t, n + 1)
    BY <2>3, <2>6 DEF Ancestry
  <2> QED
    BY <2>7
<1> HIDE DEF S
<1>3. \A n \in Nat : n \in S
  BY <1>1, <1>2, EveryNumber
<1> QED
  BY <1>3 DEF S

\* Of the places of a chain those before the first that names no template do name one.
Reaches(anc, tpls, n) ==
    /\ n \in 0..MaxDepth
    /\ \A i \in 0..(MaxDepth - 1) : anc[i] \in DOMAIN tpls <=> i < n

\* A chain that ends once has ended.
LEMMA ReachIs ==
    ASSUME NEW tpls, 0 \notin DOMAIN tpls, NEW t, NEW anc, Ancestry(anc, tpls, t, MaxDepth)
    PROVE  \E n : Reaches(anc, tpls, n)
<1>0. MaxDepth \in Nat /\ MaxDepth > 0
  BY HbsAssumption
<1>1. \A i \in 1..MaxDepth : anc[i] = IF anc[i - 1] \in DOMAIN tpls THEN tpls[anc[i - 1]] ELSE 0
  BY <1>0 DEF Ancestry
<1> DEFINE E == {i \in Nat : i = MaxDepth \/ (i < MaxDepth /\ anc[i] \notin DOMAIN tpls)}
<1>2. PICK n \in E : \A y \in E : n <= y
  <2>1. E # {} /\ E \subseteq Nat
    BY <1>0
  <2> HIDE DEF E
  <2> QED
    BY <2>1, LeastNumber
<1>3. n \in 0..MaxDepth
  BY <1>0, <1>2
<1>4. \A i \in 0..(MaxDepth - 1) : i < n => anc[i] \in DOMAIN tpls
  <2>1. ASSUME NEW i \in 0..(MaxDepth - 1), i < n, anc[i] \notin DOMAIN tpls PROVE FALSE
    <3>1. i \in E
      BY <1>0, <2>1
    <3> QED
      BY <3>1, <1>2, <1>3, <2>1, <1>0
  <2> QED
    BY <2>1
<1> DEFINE S == {k \in Nat : n + k < MaxDepth => anc[n + k] \notin DOMAIN tpls}
<1>5. 0 \in S
  BY <1>0, <1>2
<1>6. ASSUME NEW k \in Nat, k \in S PROVE k + 1 \in S
  <2>1. SUFFICES ASSUME n + (k + 1) < MaxDepth PROVE anc[n + (k + 1)] \notin DOMAIN tpls
    OBVIOUS
  <2>2. n + (k + 1) \in 1..MaxDepth /\ (n + (k + 1)) - 1 = n + k
    BY <1>0, <1>3, <2>1
  <2>3. anc[n + k] \notin DOMAIN tpls
    BY <1>0, <1>3, <1>6, <2>1
  <2>4. anc[n + (k + 1)] = 0
    BY <1>1, <2>2, <2>3
  <2> QED
    BY <2>4
<1> HIDE DEF S
<1>7. \A k \in Nat : k \in S
  BY <1>5, <1>6, EveryNumber
<1>8. \A i \in 0..(MaxDepth - 1) : ~(i < n) => anc[i] \notin DOMAIN tpls
  <2>1. ASSUME NEW i \in 0..(MaxDepth - 1), ~(i < n) PROVE anc[i] \notin DOMAIN tpls
    <3>1. i - n \in Nat /\ n + (i - n) = i
      BY <1>0, <1>3, <2>1
    <3>2. i - n \in S
      BY <3>1, <1>7
    <3>3. i < MaxDepth
      BY <1>0
    <3> QED
      BY <3>1, <3>2, <3>3 DEF S
  <2> QED
    BY <2>1
<1>9. Reaches(anc, tpls, n)
  BY <1>3, <1>4, <1>8 DEF Reaches
<1> QED
  BY <1>9

\* ParentIds is the chain of a template, oldest first, or nothing when it is too long.
LEMMA ParentIdsAre ==
    ASSUME NEW tpls, 0 \notin DOMAIN tpls, NEW t
    PROVE  \E anc, n : /\ Ancestry(anc, tpls, t, MaxDepth) /\ Reaches(anc, tpls, n)
                       /\ ParentIds(tpls, t) = IF n = MaxDepth THEN <<>> ELSE [i \in 1..n |-> anc[n - i]]
<1>0. MaxDepth \in Nat /\ MaxDepth > 0
  BY HbsAssumption
<1> DEFINE the == CHOOSE anc : Ancestry(anc, tpls, t, MaxDepth)
           size == Cardinality({i \in 0..(MaxDepth - 1) : the[i] \in DOMAIN tpls})
<1>1. Ancestry(the, tpls, t, MaxDepth)
  BY <1>0, AncestryIs
<1>2. PICK n : Reaches(the, tpls, n)
  <2> HIDE DEF the
  <2> QED
    BY <1>1, ReachIs
<1>3. ParentIds(tpls, t) = IF size = MaxDepth THEN <<>> ELSE [i \in 1..size |-> the[size - i]]
  BY DEF ParentIds, Ancestry
<1> HIDE DEF the
<1>4. {i \in 0..(MaxDepth - 1) : the[i] \in DOMAIN tpls} = 0..(n - 1)
  <2>1. n \in Nat /\ n <= MaxDepth
    BY <1>0, <1>2 DEF Reaches
  <2>2. \A i \in 0..(MaxDepth - 1) : the[i] \in DOMAIN tpls <=> i < n
    BY <1>2 DEF Reaches
  <2>3. \A i : i \in 0..(n - 1) <=> i \in 0..(MaxDepth - 1) /\ i < n
    BY <2>1, <1>0
  <2> QED
    BY <2>2, <2>3
<1>5. size = n
  <2>1. n \in Nat
    BY <1>0, <1>2 DEF Reaches
  <2>2. Cardinality(0..(n - 1)) = n
    BY <2>1, FS_Interval
  <2> QED
    BY <1>4, <2>2
<1> HIDE DEF size
<1>6. ParentIds(tpls, t) = IF n = MaxDepth THEN <<>> ELSE [i \in 1..n |-> the[n - i]]
  BY <1>3, <1>5, Zenon
<1> QED
  BY <1>1, <1>2, <1>6

\* A chain that is not nothing ends with its template, and all in it are templates.
LEMMA ChainEnds ==
    ASSUME NEW tpls, 0 \notin DOMAIN tpls, NEW t, ParentIds(tpls, t) # <<>>
    PROVE  /\ ParentIds(tpls, t) \in Seq(DOMAIN tpls) /\ Len(ParentIds(tpls, t)) > 0
           /\ ParentIds(tpls, t)[Len(ParentIds(tpls, t))] = t
           /\ t \in ToSet(ParentIds(tpls, t)) /\ t \in DOMAIN tpls
           /\ ToSet(ParentIds(tpls, t)) \subseteq DOMAIN tpls
<1>0. MaxDepth \in Nat /\ MaxDepth > 0
  BY HbsAssumption
<1>1. PICK anc, n : /\ Ancestry(anc, tpls, t, MaxDepth) /\ Reaches(anc, tpls, n)
                    /\ ParentIds(tpls, t) = IF n = MaxDepth THEN <<>> ELSE [i \in 1..n |-> anc[n - i]]
  BY ParentIdsAre
<1>2. PICK c : c = ParentIds(tpls, t)
  OBVIOUS
<1>3. n \in Nat /\ n < MaxDepth /\ c = [i \in 1..n |-> anc[n - i]]
  BY <1>0, <1>1, <1>2 DEF Reaches
<1>4. \A i \in 1..n : n - i \in 0..(MaxDepth - 1) /\ n - i < n
  BY <1>0, <1>3
<1>5. \A i \in 1..n : c[i] = anc[n - i] /\ c[i] \in DOMAIN tpls
  BY <1>1, <1>3, <1>4 DEF Reaches
<1>6. c \in Seq(DOMAIN tpls) /\ Len(c) = n /\ DOMAIN c = 1..n
  BY <1>3, <1>5
<1>7. n > 0
  <2>1. n = 0 => c = <<>>
    BY <1>6
  <2> QED
    BY <2>1, <1>2, <1>3
<1>8. c[n] = t
  <2>1. anc[0] = t
    BY <1>0, <1>1 DEF Ancestry
  <2>2. n \in 1..n /\ n - n = 0
    BY <1>3, <1>7
  <2> QED
    BY <2>1, <2>2, <1>5
<1>9. c[n] \in ToSet(c) /\ ToSet(c) \subseteq DOMAIN tpls
  <2>1. ToSet(c) = {c[i] : i \in 1..n}
    BY <1>6 DEF ToSet
  <2>2. n \in 1..n
    BY <1>3, <1>7
  <2> QED
    BY <2>1, <2>2, <1>5
<1> QED
  BY <1>2, <1>6, <1>7, <1>8, <1>9

\* The ancestors of an ancestor are ancestors.
LEMMA ChainOfChain ==
    ASSUME NEW tpls, 0 \notin DOMAIN tpls, NEW t, NEW u \in ToSet(ParentIds(tpls, t))
    PROVE  ParentIds(tpls, u) # <<>> /\ ToSet(ParentIds(tpls, u)) \subseteq ToSet(ParentIds(tpls, t))
<1>0. MaxDepth \in Nat /\ MaxDepth > 0
  BY HbsAssumption
<1>1. PICK a, n : /\ Ancestry(a, tpls, t, MaxDepth) /\ Reaches(a, tpls, n)
                  /\ ParentIds(tpls, t) = IF n = MaxDepth THEN <<>> ELSE [i \in 1..n |-> a[n - i]]
  BY ParentIdsAre
<1>2. PICK b, m : /\ Ancestry(b, tpls, u, MaxDepth) /\ Reaches(b, tpls, m)
                  /\ ParentIds(tpls, u) = IF m = MaxDepth THEN <<>> ELSE [i \in 1..m |-> b[m - i]]
  BY ParentIdsAre
<1>3. n \in Nat /\ n < MaxDepth /\ ParentIds(tpls, t) = [i \in 1..n |-> a[n - i]]
  <2>1. ParentIds(tpls, t) # <<>>
    BY DEF ToSet
  <2> QED
    BY <2>1, <1>0, <1>1 DEF Reaches
<1>4. ToSet(ParentIds(tpls, t)) = {a[i] : i \in 0..(n - 1)}
  <2>1. ToSet(ParentIds(tpls, t)) = {a[n - i] : i \in 1..n}
    <3>1. PICK c : c = [i \in 1..n |-> a[n - i]]
      OBVIOUS
    <3>2. DOMAIN c = 1..n /\ \A i \in 1..n : c[i] = a[n - i]
      BY <3>1
    <3>3. ToSet(c) = {a[n - i] : i \in 1..n}
      BY <3>2 DEF ToSet
    <3> QED
      BY <3>1, <3>3, <1>3
  <2>2. \A i \in 1..n : n - i \in 0..(n - 1)
    BY <1>3
  <2>3. \A i \in 0..(n - 1) : n - i \in 1..n /\ n - (n - i) = i
    BY <1>3
  <2> QED
    BY <2>1, <2>2, <2>3
<1>5. PICK k \in 0..(n - 1) : u = a[k]
  BY <1>4
<1> DEFINE S == {j \in Nat : k + j <= MaxDepth => b[j] = a[k + j]}
<1>6. 0 \in S
  <2>1. b[0] = u /\ k + 0 = k
    BY <1>0, <1>2, <1>3 DEF Ancestry
  <2> QED
    BY <2>1, <1>5
<1>7. ASSUME NEW j \in Nat, j \in S PROVE j + 1 \in S
  <2>1. SUFFICES ASSUME k + (j + 1) <= MaxDepth PROVE b[j + 1] = a[k + (j + 1)]
    OBVIOUS
  <2>2. /\ j + 1 \in 1..MaxDepth /\ (j + 1) - 1 = j
        /\ k + (j + 1) \in 1..MaxDepth /\ (k + (j + 1)) - 1 = k + j
    BY <2>1, <1>0, <1>3
  <2>3. b[j] = a[k + j]
    BY <1>7, <2>1, <1>0, <1>3
  <2>4. b[j + 1] = IF b[j] \in DOMAIN tpls THEN tpls[b[j]] ELSE 0
    BY <2>2, <1>0, <1>2 DEF Ancestry
  <2>5. a[k + (j + 1)] = IF a[k + j] \in DOMAIN tpls THEN tpls[a[k + j]] ELSE 0
    BY <2>2, <1>0, <1>1 DEF Ancestry
  <2> QED
    BY <2>3, <2>4, <2>5
<1> HIDE DEF S
<1>8. \A j \in Nat : j \in S
  BY <1>6, <1>7, EveryNumber
<1>9. \A j \in 0..(MaxDepth - k) : b[j] = a[k + j]
  <2>1. \A j \in 0..(MaxDepth - k) : j \in Nat /\ k + j <= MaxDepth
    BY <1>0, <1>3
  <2> QED
    BY <2>1, <1>8 DEF S
<1>10. m = n - k
  <2>1. n - k \in 0..(MaxDepth - 1) /\ n - k \in 0..(MaxDepth - k) /\ k + (n - k) = n /\ n \in 0..(MaxDepth - 1)
    BY <1>0, <1>3
  <2>2. b[n - k] = a[n] /\ a[n] \notin DOMAIN tpls
    <3>1. ~(n < n)
      BY <1>3
    <3> QED
      BY <2>1, <1>9, <1>1, <3>1 DEF Reaches
  <2>3. ~(n - k < m)
    BY <2>1, <2>2, <1>2 DEF Reaches
  <2>4. ASSUME m < n - k PROVE FALSE
    <3>1. m \in 0..(MaxDepth - 1) /\ m \in 0..(MaxDepth - k) /\ k + m \in 0..(MaxDepth - 1) /\ k + m < n
      BY <1>0, <1>2, <1>3, <2>4 DEF Reaches
    <3>2. b[m] = a[k + m] /\ a[k + m] \in DOMAIN tpls
      BY <3>1, <1>1, <1>9 DEF Reaches
    <3>3. ~(m < m)
      BY <3>1
    <3> QED
      BY <3>1, <3>2, <3>3, <1>2 DEF Reaches
  <2>5. m \in Nat
    BY <1>0, <1>2 DEF Reaches
  <2> QED
    BY <2>1, <2>3, <2>4, <2>5
<1>11. m \in 1..n /\ m < MaxDepth /\ ParentIds(tpls, u) = [i \in 1..m |-> b[m - i]]
  <2>1. m \in 1..n /\ m < MaxDepth /\ m # MaxDepth
    BY <1>0, <1>3, <1>10
  <2> QED
    BY <2>1, <1>2
<1>12. ParentIds(tpls, u) # <<>>
  <2>1. DOMAIN ParentIds(tpls, u) = 1..m /\ 1 \in 1..m
    BY <1>11, <1>3
  <2>2. ASSUME ParentIds(tpls, u) = <<>> PROVE FALSE
    <3>1. DOMAIN ParentIds(tpls, u) = {}
      BY <2>2
    <3> QED
      BY <2>1, <3>1
  <2> QED
    BY <2>2
<1>13. ASSUME NEW i \in 1..m PROVE b[m - i] \in {a[x] : x \in 0..(n - 1)}
  <2>1. m - i \in 0..(MaxDepth - k) /\ k + (m - i) \in 0..(n - 1)
    BY <1>0, <1>3, <1>10, <1>11
  <2>2. b[m - i] = a[k + (m - i)]
    BY <2>1, <1>9
  <2> QED
    BY <2>1, <2>2
<1>14. ToSet(ParentIds(tpls, u)) = {b[m - i] : i \in 1..m}
  <2>1. PICK c : c = [i \in 1..m |-> b[m - i]]
    OBVIOUS
  <2>2. DOMAIN c = 1..m /\ \A i \in 1..m : c[i] = b[m - i]
    BY <2>1
  <2>3. ToSet(c) = {b[m - i] : i \in 1..m}
    BY <2>2 DEF ToSet
  <2> QED
    BY <2>1, <2>3, <1>11
<1> QED
  BY <1>4, <1>12, <1>13, <1>14

\* What the caches hold: bindings of templates by their places, templates from 1 on.
CachesTyped ==
    /\ cache = [c \in Caches |-> cache[c]] /\ reload \in 1..9
    /\ 0 \notin Tpls /\ 0 \notin DOMAIN cache["TemplateCache"]
    /\ \A h \in DOMAIN cache["HostTemplateIds"] : DOMAIN cache["HostTemplateIds"][h] \subseteq Nat

\* The names of the caches, one by one.
LEMMA LoopIs ==
    /\ Len(Loop) = 9 /\ DOMAIN Loop = 1..9
    /\ Caches = {"GroupPlugins", "GroupTemplates", "HostGroupsMap", "HostMap", "TemplateCache",
                 "Strategies", "HostTemplateIds", "ExpressionCache", "MonitoredHosts"}
    /\ \A i \in 1..9 : Loop[i] \in Caches
<1>1. Len(Loop) = 9 /\ DOMAIN Loop = 1..9
  BY DEF Loop
<1>2. \A i \in 1..9 : i = 1 \/ i = 2 \/ i = 3 \/ i = 4 \/ i = 5 \/ i = 6 \/ i = 7 \/ i = 8 \/ i = 9
  OBVIOUS
<1>3. /\ Loop[1] = "GroupPlugins" /\ Loop[2] = "GroupTemplates" /\ Loop[3] = "HostGroupsMap"
      /\ Loop[4] = "HostMap" /\ Loop[5] = "TemplateCache" /\ Loop[6] = "Strategies"
      /\ Loop[7] = "HostTemplateIds" /\ Loop[8] = "ExpressionCache" /\ Loop[9] = "MonitoredHosts"
  BY DEF Loop
<1>4. Caches = {Loop[i] : i \in 1..9}
  BY <1>1 DEF Caches, ToSet
<1>5. ASSUME NEW x PROVE x \in Caches <=> x \in {"GroupPlugins", "GroupTemplates", "HostGroupsMap", "HostMap", "TemplateCache",
                 "Strategies", "HostTemplateIds", "ExpressionCache", "MonitoredHosts"}
  <2>1. x \in Caches => \E i \in 1..9 : x = Loop[i]
    BY <1>4
  <2>2. \A i \in 1..9 : Loop[i] \in Caches
    BY <1>4
  <2> QED
    BY <2>1, <2>2, <1>2, <1>3
<1> QED
  BY <1>1, <1>4, <1>5

\* What a query finds for the caches that are looked into here.
LEMMA QueryIs ==
    ASSUME NEW tpls
    PROVE  /\ Query("TemplateCache", tpls) = QueryTemplates
           /\ Query("HostTemplateIds", tpls) = QueryHostTemplateIds
           /\ Query("Strategies", tpls) = QueryStrategies(tpls)
           /\ Query("MonitoredHosts", tpls) = QueryMonitoredHosts
BY DEF Query

\* The places of the bindings of a host are places of the table.
LEMMA PlacesAre ==
    ASSUME Portal
    PROVE  \A h \in DOMAIN QueryHostTemplateIds : DOMAIN QueryHostTemplateIds[h] \subseteq Nat
<1>1. DOMAIN grpTpl \subseteq Nat
  <2>1. grpTpl \in Seq(BindingRow)
    BY DEF Portal, TablesTyped
  <2> QED
    BY ONLY <2>1
<1> QED
  BY <1>1 DEF QueryHostTemplateIds

\* Templates are numbered from 1 on.
LEMMA TplsStart == ASSUME Init PROVE 0 \notin Tpls
<1>1. PICK s \in Start : tpl = s.tpl
  BY DEF Init
<1>2. DOMAIN s.tpl \subseteq 1..s.last["tpl"] /\ s.last["tpl"] \in Nat
  BY StartAssumption
<1> QED
  BY <1>1, <1>2 DEF Tpls

\* The caches begin as the tables are.
LEMMA CachesInit == HInit => CachesTyped
<1> SUFFICES ASSUME HInit PROVE CachesTyped
  OBVIOUS
<1>1. Portal /\ 0 \notin Tpls
  BY PortalInit, TplsStart DEF HInit
<1>2. cache = [c \in Caches |-> Query(c, QueryTemplates)]
  BY DEF HInit
<1>3. cache["TemplateCache"] = QueryTemplates /\ cache["HostTemplateIds"] = QueryHostTemplateIds
  BY <1>2, LoopIs, QueryIs
<1>4. DOMAIN QueryTemplates = Tpls
  BY DEF QueryTemplates
<1>5. reload \in 1..9
  BY DEF HInit
<1>6. cache = [c \in Caches |-> cache[c]]
  BY <1>2
<1> QED
  BY <1>1, <1>3, <1>4, <1>5, <1>6, PlacesAre DEF CachesTyped

\* A new template has a number of its own, an old one keeps it.
LEMMA TplsStep ==
    ASSUME Portal, 0 \notin Tpls, Next
    PROVE  0 \notin Tpls'
<1>1. last["tpl"] + 1 # 0
  BY DEF Portal, TablesTyped, Columns
<1>2. ASSUME NEW u, NEW p, CreateTemplate(u, p) PROVE DOMAIN tpl' \subseteq DOMAIN tpl \cup {last["tpl"] + 1}
  BY <1>2 DEF CreateTemplate, Put
<1>3. ASSUME NEW u, NEW t, NEW p, UpdateTemplate(u, t, p) PROVE DOMAIN tpl' \subseteq DOMAIN tpl
  BY <1>3 DEF UpdateTemplate
<1>4. ASSUME NEW t, DeleteTemplate(t) PROVE DOMAIN tpl' \subseteq DOMAIN tpl
  BY <1>4 DEF DeleteTemplate, Without, Restrict
<1>5. ASSUME NEW t, CreateActionToTmplate(t) PROVE DOMAIN tpl' \subseteq DOMAIN tpl
  BY <1>5 DEF CreateActionToTmplate
<1>6. ASSUME NEW u, GroupRequest(u) PROVE tpl' = tpl
  BY <1>6 DEF GroupRequest, CreateHostGroup, DeleteHostGroup, CreatePlugin, CreateAggregator, BindHostToHostGroup,
              PatchHostGroupHost, UnBindAHostToHostGroup, BindTemplateToGroup, UnBindTemplateToGroup, DeletePlugin,
              DeleteAggregator, tables
<1>7. ASSUME NEW u, TemplateRequest(u) PROVE 0 \notin Tpls'
  <2>1. ASSUME NEW parent \in AnyTpl \cup {0}, CreateTemplate(u, parent) \/ \E t \in Tpls : UpdateTemplate(u, t, parent)
        PROVE  0 \notin Tpls'
    BY <2>1, <1>1, <1>2, <1>3 DEF Tpls
  <2>2. ASSUME NEW t \in AnyTpl, DeleteTemplate(t) \/ CreateActionToTmplate(t) PROVE 0 \notin Tpls'
    BY <2>2, <1>4, <1>5 DEF Tpls
  <2>3. ASSUME NEW k \in Keys, NEW t \in AnyTpl, CreateStrategy(t, k) PROVE tpl' = tpl
    BY <2>3 DEF CreateStrategy
  <2>4. ASSUME NEW s \in DOMAIN strategy, DeleteStrategy(s) \/ \E k \in Keys : UpdateStrategy(s, k) PROVE tpl' = tpl
    BY <2>4 DEF DeleteStrategy, UpdateStrategy
  <2>5. ASSUME NEW pause \in BOOLEAN, CreateExrpession(u, pause) PROVE tpl' = tpl
    BY <2>5 DEF CreateExrpession
  <2>6. ASSUME NEW e \in DOMAIN expression,
               DeleteExpression(u, e) \/ \E pause \in BOOLEAN : UpdateExrpession(u, e, pause)
        PROVE  tpl' = tpl
    BY <2>6 DEF DeleteExpression, UpdateExrpession
  <2>7. tpl' = tpl => 0 \notin Tpls'
    BY DEF Tpls
  <2> QED
    BY <1>7, <2>1, <2>2, <2>3, <2>4, <2>5, <2>6, <2>7 DEF TemplateRequest
<1>8. ASSUME NEW r, Finish(r) PROVE tpl' = tpl
  BY <1>8 DEF Finish, ReplaceHosts, Rollback, bindHostToHostGroup, unbindHostToHostGroup, SaveBinding, tables
<1>9. Maintain => tpl' = tpl
  BY DEF Maintain, SetMaintain
<1>10. tpl' = tpl => 0 \notin Tpls'
  BY DEF Tpls
<1> QED
  BY <1>6, <1>7, <1>8, <1>9, <1>10 DEF Next

\* The caches stay what they are of: a reload puts in what the tables hold.
LEMMA CachesStep == Portal /\ CachesTyped /\ [HNext]_hvars => CachesTyped'
<1> SUFFICES ASSUME Portal, CachesTyped, [HNext]_hvars PROVE CachesTyped'
  OBVIOUS
<1>1. CASE Request
  <2>1. Next /\ cache' = cache /\ reload' = reload
    BY <1>1 DEF Request
  <2>2. 0 \notin Tpls'
    BY <2>1, TplsStep DEF CachesTyped
  <2> QED
    BY <2>1, <2>2 DEF CachesTyped
<1>2. ASSUME Advance PROVE reload' \in 1..9 /\ Tpls' = Tpls
  <2>1. reload' = (reload % 9) + 1 /\ tpl' = tpl
    BY <1>2, LoopIs DEF Advance, vars, tables
  <2> QED
    BY <2>1 DEF CachesTyped, Tpls
<1>3. CASE ReloadFails
  BY <1>2, <1>3 DEF ReloadFails, CachesTyped
<1>4. CASE Reload
  <2>1. PICK c : c = Loop[reload]
    OBVIOUS
  <2>2. PICK new : new = Query(c, cache["TemplateCache"])
    OBVIOUS
  <2>3. Advance /\ cache' = [cache EXCEPT ![c] = new]
    BY <1>4, <2>1, <2>2 DEF Reload
  <2>4. c \in Caches /\ cache = [x \in Caches |-> cache[x]]
    BY <2>1, LoopIs DEF CachesTyped
  <2>5. /\ cache' = [x \in Caches |-> cache'[x]]
        /\ cache'[c] = new /\ \A x \in Caches : x # c => cache'[x] = cache[x]
    BY <2>3, <2>4
  <2>6. "TemplateCache" \in Caches /\ "HostTemplateIds" \in Caches
    BY LoopIs
  <2>7. 0 \notin DOMAIN cache'["TemplateCache"]
    <3>1. CASE c = "TemplateCache"
      <4>1. new = QueryTemplates
        BY <2>2, <3>1, QueryIs
      <4> QED
        BY <4>1, <3>1, <2>5 DEF QueryTemplates, CachesTyped
    <3>2. CASE c # "TemplateCache"
      BY <3>2, <2>5, <2>6 DEF CachesTyped
    <3> QED
      BY <3>1, <3>2
  <2>8. \A h \in DOMAIN cache'["HostTemplateIds"] : DOMAIN cache'["HostTemplateIds"][h] \subseteq Nat
    <3>1. CASE c = "HostTemplateIds"
      <4>1. new = QueryHostTemplateIds
        BY <2>2, <3>1, QueryIs
      <4> QED
        BY <4>1, <3>1, <2>5, PlacesAre
    <3>2. CASE c # "HostTemplateIds"
      BY <3>2, <2>5, <2>6 DEF CachesTyped
    <3> QED
      BY <3>1, <3>2
  <2>9. reload' \in 1..9 /\ 0 \notin Tpls'
    BY <1>2, <2>3 DEF CachesTyped
  <2> QED
    BY <2>5, <2>7, <2>8, <2>9 DEF CachesTyped
<1>5. CASE UNCHANGED hvars
  BY <1>5 DEF hvars, vars, tables, CachesTyped, Tpls
<1> QED
  BY <1>1, <1>3, <1>4, <1>5 DEF HNext

\* The chain of the template of a binding, and the bindings whose chain it is part of.
Chain(tids, i) == ParentIds(cache["TemplateCache"], tids[i])
Covers(tids, i) ==
    {j \in DOMAIN tids \ {i} : Chain(tids, i) # <<>> /\ slice_int_lt(Chain(tids, i), Chain(tids, j))}

\* A chain is left as it is or nothing is left of it.
LEMMA BucketsAre ==
    ASSUME NEW tids, DOMAIN tids \subseteq Nat, NEW i \in DOMAIN tids
    PROVE  /\ DOMAIN UniqueBuckets(tids) = DOMAIN tids
           /\ UniqueBuckets(tids)[i] = IF Covers(tids, i) = {} \/ Chain(tids, Min(Covers(tids, i))) = Chain(tids, i)
                                       THEN Chain(tids, i) ELSE <<>>
<1> DEFINE bs == [x \in DOMAIN tids |-> ParentIds(cache["TemplateCache"], tids[x])]
           hits(x) == {j \in DOMAIN bs \ {x} : bs[x] # <<>> /\ slice_int_lt(bs[x], bs[j])}
<1>1. UniqueBuckets(tids) = [x \in DOMAIN bs |-> IF hits(x) = {} \/ bs[Min(hits(x))] = bs[x] THEN bs[x] ELSE <<>>]
  BY DEF UniqueBuckets
<1>2. DOMAIN bs = DOMAIN tids /\ \A x \in DOMAIN tids : bs[x] = Chain(tids, x)
  BY DEF Chain
<1> HIDE DEF bs
<1>3. \A x \in DOMAIN tids : hits(x) = Covers(tids, x)
  BY <1>2 DEF Covers
<1>4. UniqueBuckets(tids)[i] = IF Covers(tids, i) = {} \/ bs[Min(Covers(tids, i))] = Chain(tids, i)
                               THEN Chain(tids, i) ELSE <<>>
  BY <1>1, <1>2, <1>3
<1>5. CASE Covers(tids, i) # {}
  <2>1. Min(Covers(tids, i)) \in Covers(tids, i)
    <3>1. Covers(tids, i) \subseteq Nat
      BY <1>5 DEF Covers
    <3> QED
      BY <3>1, <1>5, LeastNumber
  <2> QED
    BY <1>1, <1>2, <1>4, <2>1 DEF Covers
<1> QED
  BY <1>1, <1>2, <1>4, <1>5

\* A strategy that is answered is of a chain that is left, with the template it ends with.
LEMMA AnswerFrom ==
    ASSUME CachesTyped, NEW tids, DOMAIN tids \subseteq Nat, NEW s \in DOMAIN CalcInheritStrategies(tids)
    PROVE  \E i \in DOMAIN tids :
              /\ CalcInheritStrategies(tids)[s] = tids[i] /\ s \in DOMAIN cache["Strategies"]
              /\ UniqueBuckets(tids)[i] = Chain(tids, i) /\ Chain(tids, i) # <<>>
              /\ s \in Winners(cache["Strategies"], Chain(tids, i))
<1> DEFINE bs == UniqueBuckets(tids)
           has(x) == {i \in DOMAIN bs : x \in Winners(cache["Strategies"], bs[i])}
<1>1. CalcInheritStrategies(tids) = [x \in {y \in DOMAIN cache["Strategies"] : has(y) # {}} |->
                                        bs[Min(has(x))][Len(bs[Min(has(x))])]]
  BY DEF CalcInheritStrategies
<1>2. PICK i : i = Min(has(s))
  OBVIOUS
<1>3. /\ s \in DOMAIN cache["Strategies"] /\ has(s) # {}
      /\ CalcInheritStrategies(tids)[s] = bs[i][Len(bs[i])]
  <2> HIDE DEF bs, has
  <2> QED
    BY <1>1, <1>2
<1>4. DOMAIN bs \subseteq Nat
  <2>1. DOMAIN bs = DOMAIN tids
    BY DEF UniqueBuckets
  <2> QED
    BY <2>1
<1>5. i \in DOMAIN bs /\ s \in Winners(cache["Strategies"], bs[i])
  <2>1. i \in has(s)
    BY <1>2, <1>3, <1>4, LeastNumber
  <2> QED
    BY <2>1
<1>6. i \in DOMAIN tids
  BY <1>5 DEF UniqueBuckets
<1>7. bs[i] # <<>>
  BY <1>5 DEF Winners
<1> HIDE DEF bs
<1>8. bs[i] = Chain(tids, i)
  BY <1>6, <1>7, BucketsAre DEF bs
<1>9. Chain(tids, i)[Len(Chain(tids, i))] = tids[i]
  BY <1>7, <1>8, ChainEnds DEF CachesTyped, Chain
<1> QED
  BY <1>3, <1>5, <1>6, <1>7, <1>8, <1>9 DEF bs

\* The winners of a chain are of templates in it.
LEMMA WinnersAre ==
    ASSUME NEW strategies, NEW bucket, NEW s \in Winners(strategies, bucket)
    PROVE  s \in DOMAIN strategies /\ strategies[s].tpl \in ToSet(bucket)
BY DEF Winners, ToSet

\* What is answered holds together, whatever moments the caches are from.
LEMMA AnswersHold == CachesTyped => AnswerHoldsTogether
<1> SUFFICES ASSUME CachesTyped, NEW h \in Hosts, NEW s \in DOMAIN GetStrategies(h)
             PROVE  /\ GetStrategies(h)[s] \in ToSet(cache["HostTemplateIds"][h])
                    /\ cache["Strategies"][s].tpl \in ToSet(ParentIds(cache["TemplateCache"], GetStrategies(h)[s]))
  BY Zenon DEF AnswerHoldsTogether
<1>1. PICK tids : tids = cache["HostTemplateIds"][h]
  OBVIOUS
<1>2. h \in Answered /\ GetStrategies(h) = CalcInheritStrategies(tids)
  <2>1. h \notin Answered => GetStrategies(h) = <<>>
    BY DEF GetStrategies
  <2> QED
    BY <1>1, <2>1 DEF GetStrategies
<1>3. DOMAIN tids \subseteq Nat
  BY <1>1, <1>2 DEF Answered, CachesTyped
<1>4. PICK i \in DOMAIN tids :
              /\ GetStrategies(h)[s] = tids[i] /\ s \in Winners(cache["Strategies"], Chain(tids, i))
  BY <1>2, <1>3, AnswerFrom
<1> QED
  BY <1>1, <1>4, WinnersAre DEF Chain, ToSet

\* Of the strategies of chains of known templates those hbs has are all.
LEMMA WinnersKnown ==
    ASSUME NEW tpls, NEW bucket, ToSet(bucket) \subseteq DOMAIN tpls
    PROVE  Winners(QueryStrategies(tpls), bucket) = Winners(strategy, bucket)
<1>1. PICK known : known = QueryStrategies(tpls)
  OBVIOUS
<1>2. DOMAIN known = {s \in DOMAIN strategy : strategy[s].tpl \in DOMAIN tpls}
  BY <1>1 DEF QueryStrategies, Restrict
<1>3. \A s \in DOMAIN known : known[s] = strategy[s]
  BY <1>1 DEF QueryStrategies, Restrict
<1>4. \A i \in DOMAIN bucket : bucket[i] \in DOMAIN tpls
  BY DEF ToSet
<1>5. \A s \in DOMAIN strategy, i \in DOMAIN bucket : bucket[i] = strategy[s].tpl => s \in DOMAIN known
  BY <1>2, <1>4
<1>6. ASSUME NEW s \in Winners(known, bucket) PROVE s \in Winners(strategy, bucket)
  <2>1. PICK i \in DOMAIN bucket :
            /\ bucket[i] = known[s].tpl
            /\ \A j \in DOMAIN bucket, o \in DOMAIN known :
                j > i /\ known[o].tpl = bucket[j] => known[o].key # known[s].key
    BY <1>6 DEF Winners
  <2>2. s \in DOMAIN known /\ s \in DOMAIN strategy /\ known[s] = strategy[s]
    BY <1>2, <1>3, <1>6 DEF Winners
  <2>3. \A j \in DOMAIN bucket, o \in DOMAIN strategy :
            j > i /\ strategy[o].tpl = bucket[j] => strategy[o].key # strategy[s].key
    BY <1>3, <1>5, <2>1, <2>2
  <2> QED
    BY <2>1, <2>2, <2>3 DEF Winners
<1>7. ASSUME NEW s \in Winners(strategy, bucket) PROVE s \in Winners(known, bucket)
  <2>1. PICK i \in DOMAIN bucket :
            /\ bucket[i] = strategy[s].tpl
            /\ \A j \in DOMAIN bucket, o \in DOMAIN strategy :
                j > i /\ strategy[o].tpl = bucket[j] => strategy[o].key # strategy[s].key
    BY <1>7 DEF Winners
  <2>2. s \in DOMAIN known /\ known[s] = strategy[s]
    BY <1>3, <1>5, <1>7, <2>1 DEF Winners
  <2>3. \A j \in DOMAIN bucket, o \in DOMAIN known :
            j > i /\ known[o].tpl = bucket[j] => known[o].key # known[s].key
    BY <1>2, <1>3, <2>1, <2>2
  <2> QED
    BY <2>1, <2>2, <2>3 DEF Winners
<1> QED
  BY <1>1, <1>6, <1>7

\* With caches as the tables are, the bindings of a host are those of its groups.
LEMMA BindingsOf ==
    ASSUME Portal, NEW h, NEW t
    PROVE  t \in Bindings(h) <=>
              t \in Tpls /\ h \in DOMAIN QueryHostTemplateIds /\ t \in ToSet(QueryHostTemplateIds[h])
<1> DEFINE its == {x \in DOMAIN grpTpl : <<grpTpl[x].grp, h>> \in grpHost}
<1>1. h \in DOMAIN QueryHostTemplateIds <=> its # {}
  <2>1. \A r \in grpHost : r = <<r[1], r[2]>>
    BY DEF Portal, TablesTyped
  <2>2. h \in DOMAIN QueryHostTemplateIds <=> \E r \in grpHost, i \in DOMAIN grpTpl : r[2] = h /\ grpTpl[i].grp = r[1]
    BY DEF QueryHostTemplateIds
  <2>3. ASSUME NEW r \in grpHost, NEW i \in DOMAIN grpTpl, r[2] = h, grpTpl[i].grp = r[1] PROVE i \in its
    BY <2>1, <2>3
  <2>4. ASSUME NEW i \in its PROVE \E r \in grpHost : r[2] = h /\ grpTpl[i].grp = r[1]
    <3>1. <<grpTpl[i].grp, h>> \in grpHost
      OBVIOUS
    <3> QED
      BY <3>1
  <2> QED
    BY <2>2, <2>3, <2>4
<1>2. h \in DOMAIN QueryHostTemplateIds => ToSet(QueryHostTemplateIds[h]) = {grpTpl[i].tpl : i \in its}
  <2>1. h \in DOMAIN QueryHostTemplateIds => QueryHostTemplateIds[h] = [i \in its |-> grpTpl[i].tpl]
    BY DEF QueryHostTemplateIds
  <2> HIDE DEF its
  <2>2. PICK tids : tids = [i \in its |-> grpTpl[i].tpl]
    OBVIOUS
  <2>3. ToSet(tids) = {grpTpl[i].tpl : i \in its}
    BY <2>2 DEF ToSet
  <2> QED
    BY <2>1, <2>2, <2>3
<1>3. \A i \in its : grpTpl[i].grp \in AnyGroup
  BY DEF Portal, TablesTyped, AnyGroup
<1>4. t \in Bindings(h) <=> t \in Tpls /\ \E i \in its : grpTpl[i].tpl = t
  <2>1. t \in Bindings(h) <=> t \in Tpls /\ \E g \in AnyGroup : <<g, h>> \in grpHost /\ Bound(g, t) # {}
    BY DEF Bindings
  <2>2. \A g : Bound(g, t) # {} <=> \E i \in DOMAIN grpTpl : grpTpl[i].grp = g /\ grpTpl[i].tpl = t
    BY DEF Bound
  <2> QED
    BY <1>3, <2>1, <2>2
<1> HIDE DEF its
<1> QED
  BY <1>1, <1>2, <1>4

\* What hbs holds when its caches are as the tables are.
Mirrors ==
    /\ cache["TemplateCache"] = QueryTemplates /\ DOMAIN cache["TemplateCache"] = Tpls
    /\ cache["HostTemplateIds"] = QueryHostTemplateIds /\ cache["MonitoredHosts"] = QueryMonitoredHosts
    /\ Tpls # {} => cache["Strategies"] = QueryStrategies(QueryTemplates)

LEMMA FreshIs == CachesTyped /\ Fresh => Mirrors
<1> SUFFICES ASSUME CachesTyped, Fresh PROVE Mirrors
  OBVIOUS
<1>1. \A c \in Caches : Loads(c) => cache[c] = Query(c, cache["TemplateCache"])
  BY DEF Fresh
<1>2. /\ "TemplateCache" \in Caches /\ "HostTemplateIds" \in Caches
      /\ "MonitoredHosts" \in Caches /\ "Strategies" \in Caches
  BY LoopIs
<1>3. Loads("TemplateCache") /\ Loads("HostTemplateIds") /\ Loads("MonitoredHosts")
  BY DEF Loads
<1>4. cache["TemplateCache"] = QueryTemplates
  BY <1>1, <1>2, <1>3, QueryIs
<1>5. DOMAIN QueryTemplates = Tpls
  BY DEF QueryTemplates
<1>6. Tpls # {} => Loads("Strategies")
  BY <1>4, <1>5 DEF Loads
<1> QED
  BY <1>1, <1>2, <1>3, <1>4, <1>5, <1>6, QueryIs DEF Mirrors

\* A template that is the youngest of its kind keeps its chain.
LEMMA YoungestStays ==
    ASSUME Portal, CachesTyped, Mirrors, NEW h, h \in DOMAIN QueryHostTemplateIds,
           NEW i \in DOMAIN QueryHostTemplateIds[h], QueryHostTemplateIds[h][i] \in Youngest(h)
    PROVE  UniqueBuckets(QueryHostTemplateIds[h])[i] = Chain(QueryHostTemplateIds[h], i)
<1>1. PICK tids : tids = QueryHostTemplateIds[h]
  OBVIOUS
<1>2. DOMAIN tids \subseteq Nat
  BY <1>1, PlacesAre
<1>3. 0 \notin DOMAIN QueryTemplates /\ cache["TemplateCache"] = QueryTemplates
  BY DEF Mirrors, CachesTyped
<1>4. ASSUME NEW j \in Covers(tids, i) PROVE Chain(tids, j) = Chain(tids, i)
  <2>1. /\ j \in DOMAIN tids /\ Chain(tids, i) # <<>>
        /\ ToSet(Chain(tids, i)) \subseteq ToSet(Chain(tids, j))
    BY <1>4 DEF Covers, slice_int_lt
  <2>2. tids[i] \in ToSet(Chain(tids, j))
    BY <2>1, <1>3, ChainEnds DEF Chain
  <2>3. Chain(tids, j) # <<>>
    BY <2>2 DEF ToSet
  <2>4. tids[j] \in Tpls
    BY <2>3, <1>3, ChainEnds DEF Chain, Mirrors
  <2>5. tids[j] \in Bindings(h)
    BY <2>1, <2>4, <1>1, BindingsOf DEF ToSet
  <2>6. tids[i] \in Above(tids[j])
    BY <2>2, <1>3 DEF Above, Chain
  <2>7. tids[j] = tids[i]
    BY <2>5, <2>6, <1>1 DEF Youngest
  <2> QED
    BY <2>7 DEF Chain
<1>5. Covers(tids, i) # {} => Min(Covers(tids, i)) \in Covers(tids, i)
  <2>1. Covers(tids, i) \subseteq Nat
    BY <1>2 DEF Covers
  <2> QED
    BY <2>1, LeastNumber
<1> QED
  BY <1>1, <1>2, <1>4, <1>5, BucketsAre

\* Where no template reaches the host twice, a chain that is left is of a youngest one.
LEMMA StaysYoungest ==
    ASSUME Portal, CachesTyped, Mirrors, NEW h, h \in DOMAIN QueryHostTemplateIds, ~BoundTwice(h),
           NEW i \in DOMAIN QueryHostTemplateIds[h], Chain(QueryHostTemplateIds[h], i) # <<>>,
           UniqueBuckets(QueryHostTemplateIds[h])[i] = Chain(QueryHostTemplateIds[h], i)
    PROVE  QueryHostTemplateIds[h][i] \in Youngest(h)
<1>1. PICK tids : tids = QueryHostTemplateIds[h]
  OBVIOUS
<1>2. DOMAIN tids \subseteq Nat
  BY <1>1, PlacesAre
<1>3. 0 \notin DOMAIN QueryTemplates /\ cache["TemplateCache"] = QueryTemplates
  BY DEF Mirrors, CachesTyped
<1>4. tids = [x \in {y \in DOMAIN grpTpl : <<grpTpl[y].grp, h>> \in grpHost} |-> grpTpl[x].tpl]
  BY <1>1 DEF QueryHostTemplateIds
<1>5. \A j \in DOMAIN tids : j # i => tids[j] # tids[i]
  BY <1>1, <1>4 DEF BoundTwice
<1>6. tids[i] \in Bindings(h)
  <2>1. tids[i] \in Tpls
    BY <1>1, <1>3, ChainEnds DEF Chain, Mirrors
  <2> QED
    BY <2>1, <1>1, BindingsOf DEF ToSet
<1>7. ASSUME Covers(tids, i) # {} PROVE FALSE
  <2>1. PICK j : j = Min(Covers(tids, i))
    OBVIOUS
  <2>2. j \in DOMAIN tids /\ j # i
    <3>1. Covers(tids, i) \subseteq Nat
      BY <1>2 DEF Covers
    <3> QED
      BY <2>1, <3>1, <1>7, LeastNumber DEF Covers
  <2>3. Chain(tids, j) = Chain(tids, i)
    BY <1>1, <1>2, <1>7, <2>1, BucketsAre
  <2>4. tids[j] = tids[i]
    BY <1>1, <1>3, <2>3, ChainEnds DEF Chain
  <2> QED
    BY <2>2, <2>4, <1>5
<1>8. ASSUME NEW u \in Bindings(h), u # tids[i], tids[i] \in Above(u) PROVE FALSE
  <2>1. PICK j \in DOMAIN tids : tids[j] = u
    BY <1>1, BindingsOf DEF ToSet
  <2>2. j # i
    BY <1>8, <2>1
  <2>3. tids[i] \in ToSet(ParentIds(QueryTemplates, u))
    BY <1>8 DEF Above
  <2>4. ToSet(ParentIds(QueryTemplates, tids[i])) \subseteq ToSet(ParentIds(QueryTemplates, u))
    BY <2>3, <1>3, ChainOfChain
  <2>5. j \in Covers(tids, i)
    BY <1>1, <1>3, <2>1, <2>2, <2>4 DEF Covers, Chain, slice_int_lt
  <2> QED
    BY <1>7, <2>5
<1> QED
  BY <1>1, <1>6, <1>8 DEF Youngest

\* What counts for a host is answered.
LEMMA JudgedAnswered ==
    ASSUME Portal, CachesTyped, Mirrors, NEW h, NEW s \in Judged(h)
    PROVE  s \in DOMAIN GetStrategies(h)
<1>1. PICK t \in Youngest(h) : s \in Winners(strategy, ParentIds(QueryTemplates, t))
  BY DEF Judged
<1>2. h \in QueryMonitoredHosts
  BY DEF Judged
<1>3. PICK tids : tids = QueryHostTemplateIds[h]
  OBVIOUS
<1>4. t \in Tpls /\ h \in DOMAIN QueryHostTemplateIds /\ t \in ToSet(tids)
  BY <1>1, <1>3, BindingsOf DEF Youngest
<1>5. PICK i \in DOMAIN tids : tids[i] = t
  BY <1>4 DEF ToSet
<1>6. UniqueBuckets(tids)[i] = ParentIds(QueryTemplates, t)
  BY <1>1, <1>3, <1>4, <1>5, YoungestStays DEF Chain, Mirrors
<1>7. ParentIds(QueryTemplates, t) # <<>>
  BY <1>1 DEF Winners
<1>8. s \in Winners(cache["Strategies"], ParentIds(QueryTemplates, t))
  <2>1. cache["Strategies"] = QueryStrategies(QueryTemplates)
    BY <1>4 DEF Mirrors
  <2>2. ToSet(ParentIds(QueryTemplates, t)) \subseteq DOMAIN QueryTemplates
    BY <1>7, ChainEnds DEF Mirrors, CachesTyped
  <2> QED
    BY <2>1, <2>2, <1>1, WinnersKnown
<1>9. i \in DOMAIN UniqueBuckets(tids)
  BY <1>5 DEF UniqueBuckets
<1>10. s \in DOMAIN CalcInheritStrategies(tids)
  <2>1. s \in DOMAIN cache["Strategies"]
    BY <1>8, WinnersAre
  <2> QED
    BY <2>1, <1>6, <1>8, <1>9 DEF CalcInheritStrategies
<1>11. h \in Answered
  BY <1>2, <1>4 DEF Answered, Mirrors
<1> QED
  BY <1>3, <1>10, <1>11 DEF GetStrategies, Mirrors

\* What is answered for a host is of its templates, and counts where none reaches it twice.
LEMMA AnsweredJudged ==
    ASSUME Portal, CachesTyped, Mirrors, NEW h, NEW s \in DOMAIN GetStrategies(h)
    PROVE  /\ \E t \in Bindings(h) : strategy[s].tpl \in Above(t)
           /\ ~BoundTwice(h) => s \in Judged(h)
<1>1. PICK tids : tids = QueryHostTemplateIds[h]
  OBVIOUS
<1>2. h \in Answered /\ GetStrategies(h) = CalcInheritStrategies(tids)
  <2>1. h \notin Answered => GetStrategies(h) = <<>>
    BY DEF GetStrategies
  <2> QED
    BY <1>1, <2>1 DEF GetStrategies, Mirrors
<1>3. h \in DOMAIN QueryHostTemplateIds /\ h \in QueryMonitoredHosts /\ Tpls # {}
  BY <1>2 DEF Answered, Mirrors
<1>4. PICK i \in DOMAIN tids :
              /\ UniqueBuckets(tids)[i] = Chain(tids, i) /\ Chain(tids, i) # <<>>
              /\ s \in Winners(cache["Strategies"], Chain(tids, i))
  <2>1. DOMAIN tids \subseteq Nat
    BY <1>1, <1>3, PlacesAre
  <2> QED
    BY <2>1, <1>2, AnswerFrom
<1>5. Chain(tids, i) = ParentIds(QueryTemplates, tids[i]) /\ 0 \notin DOMAIN QueryTemplates
  BY DEF Chain, Mirrors, CachesTyped
<1>6. tids[i] \in Tpls /\ ToSet(Chain(tids, i)) \subseteq DOMAIN QueryTemplates
  BY <1>4, <1>5, ChainEnds DEF Mirrors
<1>7. s \in Winners(strategy, Chain(tids, i))
  BY <1>3, <1>4, <1>6, WinnersKnown DEF Mirrors
<1>8. tids[i] \in Bindings(h)
  BY <1>1, <1>3, <1>6, BindingsOf DEF ToSet
<1>9. strategy[s].tpl \in Above(tids[i])
  BY <1>5, <1>7, WinnersAre DEF Above
<1>10. ASSUME ~BoundTwice(h) PROVE s \in Judged(h)
  <2>1. tids[i] \in Youngest(h)
    BY <1>1, <1>3, <1>4, <1>10, StaysYoungest
  <2> QED
    BY <2>1, <1>3, <1>5, <1>7 DEF Judged
<1> QED
  BY <1>8, <1>9, <1>10

\* What is answered from caches as the tables are is what the tables say.
LEMMA AnswersFollow == Portal /\ CachesTyped => JudgedByTables
<1> SUFFICES ASSUME Portal, CachesTyped, Fresh, NEW h \in Hosts
             PROVE  /\ Judged(h) \subseteq DOMAIN GetStrategies(h)
                    /\ \A s \in DOMAIN GetStrategies(h) : \E t \in Bindings(h) : strategy[s].tpl \in Above(t)
                    /\ ~BoundTwice(h) => DOMAIN GetStrategies(h) = Judged(h)
  BY DEF JudgedByTables
<1>1. Mirrors
  BY FreshIs
<1> QED
  BY <1>1, JudgedAnswered, AnsweredJudged

\* src/hbs/cache/strategies.go and templates.go: whatever moments the caches are from,
\* judge is given no strategy of a template hbs does not know and the template it is
\* given is one bound to the host that inherits the strategy; and when the caches are as
\* the tables, it is told of every strategy that counts and of those of the host's
\* templates and their ancestors only, and where no template reaches the host twice of
\* none that is overridden, for any tables that begin whole and any depth of templates.
THEOREM AnswersStaySound == MCSpec => []AnswersSound
<1>1. MCInit => Portal /\ CachesTyped
  BY PortalInit, CachesInit DEF MCInit, HInit
<1>2. Portal /\ CachesTyped /\ [HNext]_hvars => (Portal /\ CachesTyped)'
  BY PortalStep, CachesStep
<1>3. Portal /\ CachesTyped => AnswersSound
  BY AnswersHold, AnswersFollow DEF AnswersSound
<1> QED
  BY <1>1, <1>2, <1>3, PortalParts, PortalSpec, PTL
=============================================================================
