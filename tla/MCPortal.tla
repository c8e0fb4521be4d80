------------------------------- MODULE MCPortal -------------------------------
(* What the api keeps in MySQL, on small tables: two groups, a host in the     *)
(* first and a template with a child, with hbs or without; and an administrator *)
(* and a user with a team of her own, and their sessions.  A behaviour is about *)
(* the portal's tables or about the users'.                                    *)
EXTENDS HbsCache, UicAccounts, TLC

CONSTANTS root, ann

VARIABLE part

MCStart ==
    {[grp |-> <<ann, root>>, host |-> "a" :> FALSE, grpHost |-> {<<1, "a">>, <<2, "a">>},
      grpTpl |-> <<[grp |-> 1, tpl |-> 2, user |-> ann]>>,
      tpl |-> <<[user |-> ann, parent |-> 0, action |-> 1],
                [user |-> root, parent |-> 1, action |-> 0]>>,
      strategy |-> <<[tpl |-> 1, key |-> "cpu"], [tpl |-> 2, key |-> "cpu"]>>,
      action |-> {1, 2}, expression |-> <<[user |-> ann, action |-> 2, pause |-> FALSE]>>,
      plugin |-> <<[grp |-> 1, user |-> root]>>, cluster |-> <<[grp |-> 1, user |-> ann]>>,
      last |-> [grp |-> 2, tpl |-> 2, strategy |-> 2, action |-> 2, expression |-> 1,
                plugin |-> 1, cluster |-> 1]]}
MCUicStart ==
    {[user |-> <<[name |-> "root", passwd |-> 1, profile |-> 1, role |-> 2],
                 [name |-> "ann", passwd |-> 1, profile |-> 1, role |-> 0]>>,
      session |-> <<1, 2>>, team |-> <<2>>, member |-> <<[tid |-> 1, uid |-> 2]>>,
      last |-> [user |-> 2, session |-> 2, team |-> 1, member |-> 1]]}

MCInit == HInit /\ UicInit /\ part \in {"portal", "uic"} /\ (up => part = "portal")
MCNext ==
    /\ UNCHANGED part
    /\ \/ part = "portal" /\ UNCHANGED uvars /\ HNext
       \/ part = "uic" /\ UNCHANGED hvars /\ UicNext

\* LoopInit comes round.
MCSpec ==
    /\ MCInit /\ [][MCNext]_<<hvars, uvars, part>>
    /\ WF_hvars(part = "portal" /\ (Reload \/ ReloadFails))

\* Rows name what is there, none is bound twice, and every page opens.
TablesSound == TypeOK /\ CascadesWhole /\ BoundOnce /\ PagesOpen

\* What judge is told makes sense at any moment, and is what the tables say when the
\* caches are as they are.
AnswersSound == AnswerHoldsTogether /\ JudgedByTables
=============================================================================
