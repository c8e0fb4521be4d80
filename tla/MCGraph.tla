-------------------------------- MODULE MCGraph --------------------------------
(* Small instances of GraphCache and GraphIndex: the points of a series and its *)
(* index.  A behaviour shows one of them.                                      *)
EXTENDS GraphCache, GraphIndex

CONSTANTS w1, w2

VARIABLE part

MCInit == Init /\ IndexInit /\ part \in {"points", "index"}
MCNext ==
  /\ UNCHANGED part
  /\ \/ part = "points" /\ Next /\ UNCHANGED ivars
     \/ part = "index" /\ IndexNext /\ UNCHANGED vars

\* Every goroutine goes on; sweeps are not slow every time; and of the calls of
\* GetRrd, if there are ever more and the old node has the file, some succeed.
RebalanceFair ==
  /\ WF_vars(part = "points" /\ HandleItems)
  /\ WF_vars(part = "points" /\ SyncDisk)
  /\ WF_vars(part = "points" /\ Shutdown)
  /\ WF_vars(part = "points" /\ \E q \in sends : Handle(q))
  /\ \A w \in Workers :
       /\ WF_vars(part = "points" /\ NetTask(w))
       /\ SF_vars(part = "points" /\ TakePull(w, FALSE))
       /\ SF_vars(part = "points" /\ FetchOk(w))

\* Points keep coming in, and every goroutine of the index goes on.
IndexFair ==
  /\ WF_ivars(part = "index" /\ Receive)
  /\ WF_ivars(part = "index" /\ IncrTask)
  /\ \A s \in Permits : WF_ivars(part = "index" /\ Writer(s))
  /\ WF_ivars(part = "index" /\ AllTask)
  /\ WF_ivars(part = "index" /\ Removal)
  /\ WF_ivars(part = "index" /\ Deletion)

MCSpec == MCInit /\ [][MCNext]_<<vars, ivars, part>> /\ RebalanceFair /\ IndexFair

\* The caches of points and of the index hold what they may.
CachesSound == ListSound /\ IndexTypeOK

\* While points of a series come in, queries come to find it under the type and step
\* of these points, after any changes, failures, deletions, restarts and panics.
IndexFollows == <>[](part = "index" => IndexCurrent)
=============================================================================
