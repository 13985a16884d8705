------------------------------- MODULE MCCspo -------------------------------
(* Small instances of Cspo for TLC.                                        *)
EXTENDS Cspo

CONSTANT x

(* Every release needs the one node image, and that the one image.         *)
OneNeed  == [c \in Clusters |-> <<x>>]
OneImage == [i \in NodeImages |-> x]

(* The program while nobody deletes imported images: a specification and   *)
(* no action constraint, because TLC checks an invariant in the states a   *)
(* constraint cuts off too.  Only steps of Glance need to be told.         *)
KeptNext == \/ ClusterWorker \/ ClusterRuntime \/ NodeWorker \/ NodeRuntime
            \/ Deletion \/ Restart
            \/ (Glance /\ ImportedStay)

KeptSpec == Init /\ [][KeptNext]_vars

(* Of the faults only those that concern both controllers: a restart, with *)
(* a new container, and node image releases of ready releases deleted.     *)
SharedFaults ==
  faults' # faults =>
    /\ cPc' \in {"idle", cPc} /\ nPc' \in {"idle", nPc}
    /\ \/ Restart /\ \A c \in Clusters : dirs'[c] = "none"
       \/ Deletion /\ \A c \in Clusters : cStored[c].ready

(* Nobody looks at a queue while its worker is busy: what does nothing but *)
(* enqueue may as well come when it is idle.  The resync comes when there  *)
(* is nothing else to do.                                                  *)
Quiet == /\ cPc = "idle" /\ nPc = "idle"
         /\ cQueued \cup cDelayed = {} /\ nQueued \cup nDelayed = {}

LateEnqueues ==
  faults' = faults =>
    /\ cQueued' # cQueued /\ cFeed' = cFeed =>
         cPc = "idle" /\ (cDelayed' = cDelayed /\ cQueued = {} => Quiet)
    /\ nQueued' # nQueued /\ nirFeed' = nirFeed =>
         nPc = "idle" /\ (nDelayed' = nDelayed /\ nQueued = {} => Quiet)
=============================================================================
