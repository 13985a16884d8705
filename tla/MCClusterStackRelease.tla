------------------------ MODULE MCClusterStackRelease ------------------------
(* Small instances of ClusterStackRelease for TLC.                         *)
EXTENDS ClusterStackRelease

CONSTANTS c1, c2, x, y

(* Two versions of one cluster stack: they share the image x.              *)
SharedNeeds == [c \in Clusters |-> IF c = c1 THEN <<x>> ELSE <<x, y>>]

(* Every release needs both node images.                                   *)
BothNeeds == [c \in Clusters |-> <<x, y>>]

(* What only deletions and restarts can do to owners: no call fails.       *)
NoCallFails == faults' # faults => UNCHANGED workerVars

(* No node image release becomes ready: owner references do not depend on  *)
(* it.                                                                     *)
NoneReady == \A i \in NodeImages : ~nirs'[i].ready

(* Nobody looks at the queue while the worker is busy: what does nothing   *)
(* but enqueue may as well come when it is idle.  The resync comes when    *)
(* there is nothing else to do.                                            *)
LateEnqueues ==
  queued' # queued /\ feed' = feed /\ faults' = faults =>
    pc = "idle" /\ (delayed' = delayed /\ queued = {} => delayed = {})
=============================================================================
