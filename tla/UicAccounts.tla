---------------------------- MODULE UicAccounts ----------------------------
(* Users, sessions and teams of the api. No handler uses a transaction: what  *)
(* it reads and what it writes are statements of their own, and a request     *)
(* between two of them is in flight.                                           *)
EXTENDS Naturals, FiniteSets, Functions, FiniteSetsExt

CONSTANTS
    Names,        \* names of users
    Values,       \* passwords, and contents of a profile
    MaxUser, MaxSession, MaxTeam, MaxMember, \* ids that may be used
    MaxPending,    \* requests in flight at the same time
    MaxCalls,  \* requests in all
    UicStart         \* contents of the tables a behaviour may begin with

\* Ids count up; a session is a user's, who has no other, and a member a team's, once.
ASSUME UicAssumption ==
    /\ MaxUser \in Nat /\ MaxTeam \in Nat
    /\ \A s \in UicStart :
        /\ s.last \in [{"user", "session", "team", "member"} -> Nat]
        /\ DOMAIN s.user \subseteq 1..s.last["user"] /\ DOMAIN s.session \subseteq 1..s.last["session"]
        /\ DOMAIN s.team \subseteq 1..s.last["team"] /\ DOMAIN s.member \subseteq 1..s.last["member"]
        /\ \A i \in DOMAIN s.session : s.session[i] \in DOMAIN s.user
        /\ \A i, j \in DOMAIN s.session : s.session[i] = s.session[j] => i = j
        /\ \A m \in DOMAIN s.member : s.member[m] \in [tid : DOMAIN s.team, uid : Nat]
        /\ \A m, o \in DOMAIN s.member : s.member[m] = s.member[o] => m = o

VARIABLES
    user,         \* user[id]: name, passwd, profile and role; 1 and 2 are admins
    session,      \* session[id]: uid; the sig is as unique as the id
    team,         \* team[id]: creator
    member,       \* rel_team_user[id]: tid and uid
    lastId,         \* the last id given out for each of them
    pending,       \* requests in flight, n being the place of each among all
    calls,
    tokens,       \* name, sig and uid of the answers to logins
    want,         \* what the writes that were answered made of each user
    crossed,      \* users whose row changed between the reading and writing of a Save
    doubled,      \* users two of whose logins overlapped
    mingled       \* teams two of whose changes overlapped

rows    == <<user, session, team, member, lastId>>
history == <<tokens, want, crossed, doubled, mingled>>
uvars   == <<rows, pending, calls, history>>

AdminRoles == {2, 1}
IsAdmin(u) == user[u].role \in AdminRoles
With(f, k, v) == [x \in DOMAIN f \cup {k} |-> IF x = k THEN v ELSE f[x]]
Less(f, S) == Restrict(f, DOMAIN f \ S)
NewId(table, max) == lastId[table] < max /\ lastId' = [lastId EXCEPT ![table] = @ + 1]

\* The first row with the name; 0 when there is none.
Named(name) ==
    LET ids == {u \in DOMAIN user : user[u].name = name}
    IN  IF ids = {} THEN 0 ELSE Min(ids)

\* Mutant: the session is not compared with the user.
SessionCheckingSig(token) == Named(token.name) # 0 /\ token.sig \in DOMAIN session

SessionChecking(token) ==
    /\ Named(token.name) # 0 /\ token.sig \in DOMAIN session
    /\ session[token.sig] = Named(token.name)

\* The user a request is made by.
ByUser(u) == \E token \in tokens : SessionChecking(token) /\ Named(token.name) = u
Authenticated == {u \in DOMAIN user : ByUser(u)}

NewCall == calls < MaxCalls /\ calls' = calls + 1
Flying(r) == Cardinality(pending) < MaxPending /\ pending' = pending \cup {r}

UicInit ==
    /\ \E s \in UicStart :
        /\ user = s.user /\ session = s.session /\ team = s.team /\ member = s.member
        /\ lastId = s.last
    /\ pending = {} /\ calls = 0
    /\ tokens = {[name |-> user[session[s]].name, sig |-> s, uid |-> session[s]] : s \in DOMAIN session}
    /\ want = user
    /\ crossed = {} /\ doubled = {} /\ mingled = {}

(******************************* sessions *******************************)
GiveToken(u, sig) == tokens' = tokens \cup {[name |-> user[u].name, sig |-> sig, uid |-> u]}
Sessions(u) == {s \in DOMAIN session : session[s] = u}

\* A session there is already is given out again.
SessionFor(u) ==
    IF Sessions(u) # {}
    THEN /\ GiveToken(u, Min(Sessions(u)))
         /\ UNCHANGED <<rows, pending, want, crossed, doubled, mingled>>
    ELSE /\ Flying([op |-> "session", n |-> calls, uid |-> u])
         /\ doubled' = IF \E r \in pending : r.op = "session" /\ r.uid = u
                       THEN doubled \cup {u} ELSE doubled
         /\ UNCHANGED <<rows, tokens, want, crossed, mingled>>

Login(name) == NewCall /\ Named(name) # 0 /\ SessionFor(Named(name))
AdminLogin(a, name) ==
    /\ NewCall /\ Named(name) # 0 /\ user[Named(name)].role < user[a].role
    /\ SessionFor(Named(name))

CreateSession(r) ==
    /\ r.op = "session" /\ NewId("session", MaxSession)
    /\ session' = With(session, lastId["session"] + 1, r.uid)
    /\ r.uid \in DOMAIN user => GiveToken(r.uid, lastId["session"] + 1)
    /\ r.uid \notin DOMAIN user => UNCHANGED tokens
    /\ pending' = pending \ {r}
    /\ UNCHANGED <<user, team, member, calls, want, crossed, doubled, mingled>>

Logout(token) ==
    /\ NewCall /\ SessionChecking(token)
    /\ session' = Less(session, {token.sig})
    /\ UNCHANGED <<user, team, member, lastId, pending, history>>

(********************************* users *********************************)
\* The name is looked for, then the row is inserted, then the session.
CreateUser(name) ==
    /\ NewCall /\ Named(name) = 0 /\ Flying([op |-> "create", n |-> calls, name |-> name])
    /\ UNCHANGED <<rows, history>>
CreateRow(r) ==
    /\ r.op = "create" /\ NewId("user", MaxUser)
    /\ LET u == lastId["user"] + 1
           new == [name |-> r.name, passwd |-> Min(Values), profile |-> Min(Values), role |-> 0]
       IN  /\ user' = With(user, u, new) /\ want' = With(want, u, new)
           /\ pending' = (pending \ {r}) \cup {[op |-> "session", n |-> r.n, uid |-> u]}
    /\ UNCHANGED <<session, team, member, calls, tokens, crossed, doubled, mingled>>

\* The columns of the profile are set by one statement: UpdateCurrentUser,
\* UpdateUser and AdminChangeUserProfile.
UpdateUser(u, value) ==
    /\ NewCall /\ u \in DOMAIN user
    /\ user' = [user EXCEPT ![u].profile = value]
    /\ want' = IF u \in DOMAIN want THEN [want EXCEPT ![u].profile = value] ELSE want
    /\ UNCHANGED <<session, team, member, lastId, pending, tokens, crossed, doubled, mingled>>

\* The row is found; Save will write all of its columns.
Find(u, column, value) ==
    /\ NewCall /\ u \in DOMAIN user
    /\ Flying([op |-> "save", uid |-> u, row |-> user[u], column |-> column, value |-> value])
    /\ UNCHANGED <<rows, history>>
ChangePassword(u, value) == Find(u, "passwd", value)
AdminChangePassword(a, u, value) == IsAdmin(a) /\ Find(u, "passwd", value)
\* Of an id that is not found the empty user is saved: a row is inserted.
ChangeRoleOfUser(a, u, value) ==
    /\ IsAdmin(a)
    /\ \/ Find(u, "role", value)
       \/ /\ u \notin DOMAIN user /\ NewCall /\ NewId("user", MaxUser)
          /\ LET new == [name |-> "", passwd |-> Min(Values), profile |-> Min(Values), role |-> value]
             IN  /\ user' = With(user, lastId["user"] + 1, new)
                 /\ want' = With(want, lastId["user"] + 1, new)
          /\ UNCHANGED <<session, team, member, pending, tokens, crossed, doubled, mingled>>

\* Mutant: the row is saved with the role of a new user.
SavedAnew(r) == [[r.row EXCEPT !.role = 0] EXCEPT ![r.column] = r.value]

Saved(r) == [r.row EXCEPT ![r.column] = r.value]

\* Whether Save of a row that is gone inserts it again is gorm's affair.
Save(r) ==
    /\ r.op = "save" /\ pending' = pending \ {r}
    /\ crossed' = IF r.uid \in DOMAIN user /\ user[r.uid] = r.row THEN crossed
                  ELSE crossed \cup {r.uid}
    /\ IF r.uid \in DOMAIN user
       THEN user' = [user EXCEPT ![r.uid] = Saved(r)]
       ELSE user' \in {user, With(user, r.uid, Saved(r))}
    /\ want' = IF r.uid \in DOMAIN want THEN [want EXCEPT ![r.uid][r.column] = r.value] ELSE want
    /\ UNCHANGED <<session, team, member, lastId, calls, tokens, doubled, mingled>>

\* Sessions and memberships of the user stay.
AdminUserDelete(a, u) ==
    /\ NewCall /\ IsAdmin(a) /\ u \in DOMAIN user /\ user[u].role <= user[a].role
    /\ user' = Less(user, {u}) /\ want' = Less(want, {u})
    /\ UNCHANGED <<session, team, member, lastId, pending, tokens, crossed, doubled, mingled>>

(********************************* teams *********************************)
MembersOf(t) == {m \in DOMAIN member : member[m].tid = t}
MayManage(u, t) ==
    /\ t \in DOMAIN team
    /\ IsAdmin(u) \/ team[t] = u \/ \E m \in MembersOf(t) : member[m].uid = u

\* Requests that change the members of a team, and whether others are at it.
Changing(t) == {r \in pending : r.op \in {"fill", "bind", "deleted"} /\ r.tid = t}
Mingle(t) == mingled' = IF Changing(t) # {} THEN mingled \cup {t} ELSE mingled

CreateTeam(u, us) ==
    /\ NewCall /\ NewId("team", MaxTeam)
    /\ team' = With(team, lastId["team"] + 1, u)
    /\ Flying([op |-> "fill", n |-> calls, tid |-> lastId["team"] + 1, add |-> us, seen |-> {}])
    /\ UNCHANGED <<user, session, member, history>>

\* With no users at all the condition of the deletion is never true.
Unwanted(t, us) == IF us = {} THEN {} ELSE {m \in MembersOf(t) : member[m].uid \notin us}

\* The team is found and updated; bindUsers deletes the members that are not named
\* and looks for each of the others before it inserts it.
UpdateTeam(u, t, us) ==
    /\ NewCall /\ MayManage(u, t)
    /\ Flying([op |-> "bind", n |-> calls, tid |-> t, add |-> us, seen |-> {}, drop |-> Unwanted(t, us)])
    /\ Mingle(t) /\ UNCHANGED <<rows, tokens, want, crossed, doubled>>
AddTeamUsers(u, t, us) ==
    /\ NewCall /\ MayManage(u, t) /\ us \cap DOMAIN user # {}
    /\ Flying([op |-> "bind", n |-> calls, tid |-> t, add |-> us \cap DOMAIN user, seen |-> {}, drop |-> {}])
    /\ Mingle(t) /\ UNCHANGED <<rows, tokens, want, crossed, doubled>>

Goes(r, next) == pending' = (pending \ {r}) \cup next
\* Each row by a statement of its own: some may fail, which ends the request.
Unbind(r) ==
    /\ r.op = "bind" /\ r.drop # {} /\ UNCHANGED <<user, session, team, lastId, calls, history>>
    /\ \/ member' = Less(member, r.drop) /\ Goes(r, {[r EXCEPT !.drop = {}]})
       \/ Goes(r, {}) /\ \E done \in SUBSET r.drop : member' = Less(member, done)

\* Mutant: the two columns of a member are mixed up.
LookAtTeams(r, u) == {m \in MembersOf(u) : member[m].uid = r.tid}

Look(r, u) == {m \in MembersOf(r.tid) : member[m].uid = u}
LookForMember(r) ==
    /\ r.op = "bind" /\ r.drop = {} /\ r.seen = {}
    /\ \E u \in r.add :
        Goes(r, {[r EXCEPT !.add = @ \ {u}, !.seen = IF Look(r, u) = {} THEN {u} ELSE {}]})
    /\ UNCHANGED <<rows, calls, history>>

Insert(r, u, next) ==
    /\ NewId("member", MaxMember) /\ Goes(r, next)
    /\ member' = With(member, lastId["member"] + 1, [tid |-> r.tid, uid |-> u])
    /\ UNCHANGED <<user, session, team, calls, tokens, want, crossed, doubled, mingled>>
InsertMember(r) == r.op = "bind" /\ \E u \in r.seen : Insert(r, u, {[r EXCEPT !.seen = {}]})
\* CreateTeam inserts without looking.
FillTeam(r) == r.op = "fill" /\ \E u \in r.add : Insert(r, u, {[r EXCEPT !.add = @ \ {u}]})
\* Nothing is left to do, or a statement failed.
Leave(r) ==
    /\ r.op \in {"fill", "bind"} /\ Goes(r, {})
    /\ UNCHANGED <<rows, calls, history>>

\* The team and then its members; an admin's request does not look for the team.
DeleteTeam(u, t) ==
    /\ NewCall /\ (IsAdmin(u) \/ (t \in DOMAIN team /\ team[t] = u))
    /\ team' = Less(team, {t})
    /\ Flying([op |-> "deleted", tid |-> t])
    /\ Mingle(t) /\ UNCHANGED <<user, session, member, lastId, tokens, want, crossed, doubled>>
DeleteMembers(r) ==
    /\ r.op = "deleted" /\ Goes(r, {})
    /\ member' = Less(member, MembersOf(r.tid))
    /\ UNCHANGED <<user, session, team, lastId, calls, history>>

\* Who is in a team, asked of the user, of the team and of the lists.
IsUserInTeams(u, t) == t \in DOMAIN team /\ \E m \in MembersOf(t) : member[m].uid = u
GetUserTeams(u) == {member[m].tid : m \in {x \in DOMAIN member : member[x].uid = u}} \cap DOMAIN team
GetTeam(t) == {member[m].uid : m \in MembersOf(t)} \cap DOMAIN user
Teams(u) == {t \in DOMAIN team : IsAdmin(u) \/ team[t] = u} \cup GetUserTeams(u)

SessionNext ==
    \/ \E name \in Names : Login(name) \/ CreateUser(name)
                           \/ \E a \in Authenticated : AdminLogin(a, name)
    \/ \E token \in tokens : Logout(token)
    \/ \E r \in pending : CreateSession(r) \/ CreateRow(r)
UserNext ==
    \/ \E a \in Authenticated, u \in 1..MaxUser :
        \/ \E value \in Values : UpdateUser(u, value) \/ AdminChangePassword(a, u, value)
        \/ \E role \in 0..1 : ChangeRoleOfUser(a, u, role)
        \/ AdminUserDelete(a, u)
    \/ \E u \in Authenticated, value \in Values : ChangePassword(u, value)
    \/ \E r \in pending : Save(r)
TeamNext ==
    \/ \E u \in Authenticated, us \in SUBSET DOMAIN user :
        \/ CreateTeam(u, us)
        \/ \E t \in 1..MaxTeam : UpdateTeam(u, t, us) \/ AddTeamUsers(u, t, us)
    \/ \E u \in Authenticated, t \in 1..MaxTeam : DeleteTeam(u, t)
    \/ \E r \in pending : Unbind(r) \/ LookForMember(r) \/ InsertMember(r) \/ FillTeam(r)
                         \/ Leave(r) \/ DeleteMembers(r)

UicNext == SessionNext \/ UserNext \/ TeamNext

UicSpec == UicInit /\ [][UicNext]_uvars

-----------------------------------------------------------------------------
\* A token never speaks for another user than the one it was given to, also when the
\* name has a new owner; and a user has one session, unless two logins overlapped.
TokenIsOwn ==
    /\ \A token \in tokens : SessionChecking(token) => Named(token.name) = token.uid
    /\ \A u \in 1..lastId["user"] : Cardinality(Sessions(u)) <= 1 \/ u \in doubled

\* What a request was told it changed stays so, and a deleted user stays deleted,
\* unless the row changed while a Save was under way.
WritesStay ==
    \A u \in 1..lastId["user"] :
        \/ u \in crossed
        \/ u \in DOMAIN user /\ u \in DOMAIN want /\ user[u] = want[u]
        \/ u \notin DOMAIN user /\ u \notin DOMAIN want

\* Members belong to a team that is there or about to be taken along, and are in it
\* once, unless two changes of the team overlapped. The pages of teams and of users
\* agree on who is in a team, and who may manage one finds it in the list.
MembersSound ==
    /\ \A m \in DOMAIN member :
        LET t == member[m].tid
        IN  \/ t \in mingled
            \/ /\ t \in DOMAIN team \/ [op |-> "deleted", tid |-> t] \in pending
               /\ \A o \in DOMAIN member \ {m} : member[o] # member[m]
    /\ \A u \in DOMAIN user, t \in DOMAIN team :
        /\ (u \in GetTeam(t)) = IsUserInTeams(u, t) /\ IsUserInTeams(u, t) = (t \in GetUserTeams(u))
        /\ MayManage(u, t) => t \in Teams(u)
=============================================================================
