-------------------------------- MODULE Cspo --------------------------------
(***************************************************************************)
(* The program as a whole: one manager process that runs both controllers, *)
(* each with a worker, a queue and timers of its own, over one API server, *)
(* one cache of each kind of object, and one Glance.                       *)
(*                                                                         *)
(* The node image releases are shared: the cluster stack release           *)
(* controller creates them and adds owners, the node image release         *)
(* controller patches their status, people and the garbage collector       *)
(* delete them.  What one of them writes makes the copies the others hold  *)
(* stale and their optimistic locks fail.  One watch fills the cache both  *)
(* read, but only the node image release controller is woken by it.        *)
(*                                                                         *)
(* Bounds: those of the two controllers, with one budget of faults.        *)
(***************************************************************************)
EXTENDS Integers, Sequences, FiniteSets

CONSTANTS
  Clusters, NodeImages, Needs,      (* See module ClusterStackRelease.     *)
  Names, ImageOf, MaxImages,        (* See module NodeImageRelease.        *)
  MaxFaults, MaxLag

ASSUME CspoAssumption ==
  /\ Clusters # {} /\ NodeImages # {} /\ Names # {}
  /\ Needs \in [Clusters -> Seq(NodeImages)]
  /\ ImageOf \in [NodeImages -> Names]
  /\ MaxImages \in Nat /\ MaxFaults \in Nat /\ MaxLag \in Nat \ {0}

VARIABLES
  (* The cluster stack release controller and its objects.                 *)
  cStored, cFeed, cCache, cQueued, cDelayed, cPc, cCur, cBefore, cObj, cResult,
  dirs, todo,
  (* The node image releases.                                              *)
  nirs, nirFeed, nirCache,
  (* The node image release controller and Glance.                         *)
  nQueued, nDelayed, nPc, nCur, nBefore, nObj, nResult, imageID, images,
  faults

clusterVars == <<cStored, cFeed, cCache, cQueued, cDelayed, cPc, cCur, cBefore,
                 cObj, cResult, dirs, todo>>
sharedVars  == <<nirs, nirFeed, nirCache>>
nodeVars    == <<nQueued, nDelayed, nPc, nCur, nBefore, nObj, nResult, imageID,
                 images>>
vars        == <<clusterVars, sharedVars, nodeVars, faults>>

(* ImageImportProofs extends NodeImageRelease and OwnersProofs extends      *)
(* ClusterStackRelease with what is proved of them: N!L and C!L are then   *)
(* their lemmas, of the controllers as they are put together here.         *)
N == INSTANCE ImageImportProofs WITH
       Releases <- NodeImages, Hidden <- {}, Unusable <- {},
       Owners <- [Clusters -> Nat], NoOwners <- [c \in Clusters |-> 0],
       ImageImportTimeout <- 0, MaxTime <- 0, now <- 0,
       stored <- nirs, feed <- nirFeed, cache <- nirCache,
       queued <- nQueued, delayed <- nDelayed, pc <- nPc, cur <- nCur,
       before <- nBefore, obj <- nObj, result <- nResult

C == INSTANCE OwnersProofs WITH
       NodeConds <- [N!Types -> N!Condition], NewNodeConds <- N!NoConditions,
       MaxEvents <- MaxLag, now <- 0,
       stored <- cStored, feed <- cFeed, cache <- cCache,
       queued <- cQueued, delayed <- cDelayed, pc <- cPc, cur <- cCur,
       before <- cBefore, obj <- cObj, result <- cResult

Init == C!Init /\ N!Init

-----------------------------------------------------------------------------
ClusterWorker  == C!Worker /\ UNCHANGED nodeVars
ClusterRuntime == C!Runtime /\ UNCHANGED nodeVars

(* Delivering an event of a node image release fills the cache for both    *)
(* controllers and enqueues it for its own.                                *)
NodeWorker  == N!Worker /\ UNCHANGED clusterVars
NodeRuntime == N!Runtime /\ UNCHANGED clusterVars

Deletion ==
  /\ \E i \in NodeImages : C!DeleteNodeImageRelease(i) \/ C!CollectGarbage(i)
  /\ UNCHANGED <<clusterVars, nodeVars>>

Glance == N!Glance /\ UNCHANGED clusterVars

(* Both controllers start again with the process.                          *)
Restart == C!Restart /\ N!Restart

Next == \/ ClusterWorker \/ ClusterRuntime \/ NodeWorker \/ NodeRuntime
        \/ Deletion \/ Glance \/ Restart

Spec == Init /\ [][Next]_vars

-----------------------------------------------------------------------------
(* Properties.                                                             *)

(* Glance has the image with its data: it is active, or has been.          *)
HasBeenActive(i) ==
  \E k \in 1..MaxImages :
    images[k].name = ImageOf[i] /\ images[k].status \in {"active", "deactivated"}

(* Nobody has an image deleted that has been imported.  That no image is   *)
(* expunged stands for Glance not using an ID again, as the model does.    *)
ImportedStay ==
  \A k \in 1..MaxImages :
    /\ images[k].status # "none" => images'[k].status # "none"
    /\ images[k].status \in {"active", "deactivated"}
         => images'[k].status \in {"active", "deactivated"}

(* A release reported ready has had all the images it needs active, unless *)
(* somebody has had one of them deleted since: what is true of Glance is   *)
(* passed on by two status patches, two caches and two reconciles working  *)
(* on copies, through restarts of the process and with node image releases *)
(* deleted, made again, and patched by a reconcile of the deleted one.     *)
ReadyMeansImported ==
  \A c \in Clusters :
    cStored[c].ready => \A i \in C!Needed(c) : HasBeenActive(i)
=============================================================================
