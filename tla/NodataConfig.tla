---------------------------- MODULE NodataConfig ----------------------------
(* The rules of nodata: the table mockcfg, which the api's handlers write, and  *)
(* the map of rules by series that nodata builds from it (src/nodata/config,    *)
(* src/api/app/controller/mockcfg).  A series is an endpoint and a counter; a   *)
(* rule names endpoints, or groups of hosts, and the counters of its tag sets.  *)
EXTENDS Integers, FiniteSets, FiniteSetsExt, SequencesExt

CONSTANTS
    Endpoints,     \* hosts and other endpoints
    Groups,        \* host groups
    GroupHosts,    \* [Groups -> SUBSET Endpoints]: the hosts of each group
    Counters,      \* a metric with its tags
    Rules,         \* the contents of a row that the api's callers write
    MaxRows,       \* bound: rows ever created
    MaxEdits,      \* bound: changes of the table and of maintenance
    MaxFaults      \* bound: calls that fail

ASSUME RulesAreRows ==
    Rules \subseteq [objType : {"host", "group", "other"}, obj : SUBSET (Endpoints \cup Groups),
                     counters : (SUBSET Counters) \ {{}}, type : {"GAUGE", "COUNTER"}, step : Int]

Series == Endpoints \X Counters

VARIABLES
    mockcfg,       \* the table: id -> row
    rows,          \* ids given so far
    away,          \* hosts in maintenance
    NdConfigMap,   \* series -> the rule in force
    edits, faults
nvars == <<mockcfg, rows, away, NdConfigMap, edits, faults>>

NodataConfigTypeOK ==
    /\ rows \in 0..MaxRows
    /\ DOMAIN mockcfg \subseteq 1..rows
    /\ away \subseteq Endpoints
    /\ DOMAIN NdConfigMap \subseteq Series

Edit == edits < MaxEdits /\ edits' = edits + 1
Fault == faults < MaxFaults /\ faults' = faults + 1

----------------------------------------------------------------------------
\* The api.  Names are unique and the type of objects is checked; the type of the
\* series and the step are not.
CreateNoData(rule) ==
    /\ Edit
    /\ rows < MaxRows
    /\ rows' = rows + 1
    /\ mockcfg' = [id \in DOMAIN mockcfg \cup {rows'} |-> IF id = rows' THEN rule ELSE mockcfg[id]]
    /\ UNCHANGED <<away, NdConfigMap, faults>>

UpdateNoData(id, rule) ==
    /\ Edit
    /\ mockcfg' = [mockcfg EXCEPT ![id] = rule]
    /\ UNCHANGED <<rows, away, NdConfigMap, faults>>

DeleteNoData(id) ==
    /\ Edit
    /\ mockcfg' = [i \in DOMAIN mockcfg \ {id} |-> mockcfg[i]]
    /\ UNCHANGED <<rows, away, NdConfigMap, faults>>

Maintain(h) ==
    /\ Edit
    /\ away' = IF h \in away THEN away \ {h} ELSE away \cup {h}
    /\ UNCHANGED <<mockcfg, rows, NdConfigMap, faults>>

----------------------------------------------------------------------------
\* service/mockcfg.go: which rows count, the endpoints they name, and which of two
\* rows for one series is kept.
CheckMockCfg(row) == row.type = "GAUGE" /\ row.step >= 1

GetHostsFromGroup(g, lost) == IF g \in lost THEN {} ELSE GroupHosts[g] \ away

GetEndpoint(row, lost) ==
    IF row.objType = "group"
    THEN UNION {GetHostsFromGroup(g, lost) : g \in row.obj \cap Groups}
    ELSE row.obj \cap Endpoints

\* Mutant: the other way about.
IsSpuerGroup(a, b) == ~(a.objType = "host" /\ b.objType = "group")
IsSpuer(a, b) == ~(a.objType = "group" /\ b.objType = "host")

RowsFor(key, lost) ==
    {id \in DOMAIN mockcfg : /\ CheckMockCfg(mockcfg[id])
                             /\ key[1] \in GetEndpoint(mockcfg[id], lost)
                             /\ key[2] \in mockcfg[id].counters}

\* The rows are read in the order of their ids and each is held against the one
\* kept so far.
Kept(ids) ==
    LET kept[n \in Min(ids)..rows] ==
            IF n = Min(ids) THEN mockcfg[n]
            ELSE IF n \in ids /\ ~IsSpuer(kept[n - 1], mockcfg[n]) THEN mockcfg[n]
            ELSE kept[n - 1]
    IN  kept[rows]

GetMockCfgFromDB(lost) ==
    [key \in {k \in Series : RowsFor(k, lost) # {}} |-> Kept(RowsFor(key, lost))]

\* Every two minutes the whole map is built anew.  When MySQL does not answer the
\* map is empty; when the query for the hosts of a group fails, the group is.
SyncNdConfig ==
    /\ NdConfigMap' = GetMockCfgFromDB({})
    /\ UNCHANGED <<mockcfg, rows, away, edits, faults>>

SyncNdConfigFails(lost) ==
    /\ Fault
    /\ NdConfigMap' = IF lost = {} THEN << >> ELSE GetMockCfgFromDB(lost)
    /\ UNCHANGED <<mockcfg, rows, away, edits>>

----------------------------------------------------------------------------
NodataConfigInit ==
    /\ mockcfg = << >>
    /\ rows = 0
    /\ away = {}
    /\ NdConfigMap = << >>
    /\ edits = 0
    /\ faults = 0

NodataConfigNext ==
    \/ \E rule \in Rules : CreateNoData(rule) \/ \E id \in DOMAIN mockcfg : UpdateNoData(id, rule)
    \/ \E id \in DOMAIN mockcfg : DeleteNoData(id)
    \/ \E h \in Endpoints : Maintain(h)
    \/ SyncNdConfig
    \/ \E lost \in SUBSET Groups : SyncNdConfigFails(lost)

----------------------------------------------------------------------------
\* "When what a group expands to and a host conflict, the host is preferred"
\* (service/mockcfg.go:59): after a synchronisation no series has a group's rule
\* while a valid row names its endpoint as a host, in whatever order the rows were
\* written and whichever queries failed.
HostRuleWins ==
    [][NdConfigMap' # NdConfigMap =>
        \A key \in DOMAIN NdConfigMap' :
            NdConfigMap'[key].objType = "group" =>
                \A id \in DOMAIN mockcfg :
                    ~ (/\ mockcfg[id].objType = "host" /\ key[1] \in mockcfg[id].obj
                       /\ key[2] \in mockcfg[id].counters /\ CheckMockCfg(mockcfg[id]))]_nvars
=============================================================================
