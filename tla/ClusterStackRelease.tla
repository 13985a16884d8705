------------------------- MODULE ClusterStackRelease -------------------------
(***************************************************************************)
(* The OpenStackClusterStackRelease controller: it downloads the assets of *)
(* a cluster stack release, makes sure that a node image release exists    *)
(* and is owned for every node image the assets list, and reports ready    *)
(* once the ones it owns are ready.  Node image releases may be shared by  *)
(* several cluster stack releases.  A release may be deleted and created   *)
(* again under its name: owner references name it, and carry a UID that    *)
(* only the garbage collector compares.                                    *)
(*                                                                         *)
(* This controller watches only its own kind: it reads node image releases *)
(* from the manager's cache, whose watch may lag, and no change of them    *)
(* brings a cluster stack release back into the work queue.                *)
(*                                                                         *)
(* Bounds: MaxEvents (undelivered events of one node image release), and   *)
(* those of module Reconciler.                                             *)
(***************************************************************************)
EXTENDS Integers, Sequences, FiniteSets

CONSTANTS
  Clusters,     (* OpenStackClusterStackRelease objects.                   *)
  NodeImages,   (* OpenStackNodeImageRelease objects, by osnirName.        *)
  Needs,        (* The list of node images in a release's node-images.yaml.*)
  NodeConds,    (* Conditions of node image releases, not looked at here;  *)
  NewNodeConds, (* those of a new one.                                     *)
  MaxEvents, MaxFaults, MaxLag

ASSUME ClustersAssumption ==
  /\ Clusters # {} /\ NodeImages # {}
  /\ Needs \in [Clusters -> Seq(NodeImages)]
  /\ NewNodeConds \in NodeConds
  /\ MaxFaults \in Nat /\ MaxEvents \in Nat \ {0} /\ MaxLag \in Nat \ {0}

Kinds == <<"AssetsClientAPIAvailable", "ClusterStackReleaseAssetsReady",
           "OpenStackNodeImageReleasesReady">>

Errors == {"IssueWithReleaseAssets", "FailedCreateAssetsClient"}

InfosForgotten == {"ReleaseAssetsNotDownloadedYet"}   \* mutant: a reason missing

Infos == {"ReleaseAssetsNotDownloadedYet", "ProcessOngoing"}

VARIABLES
  stored, feed, cache, queued, delayed, pc, cur, before, obj, result, now,
  faults,    (* See module Reconciler.                                     *)
  nirs,      (* The node image releases as the API server has them.        *)
  nirFeed,   (* Their versions the watch has not delivered yet.            *)
  nirCache,  (* The node image releases as the manager's cache has them.   *)
  dirs,      (* What is in the release directory of every release.         *)
  todo       (* Node images this Reconcile has not ensured yet, in order.  *)

(* The metadata of a cluster stack release is its UID, counted from 1.     *)
INSTANCE Reconciler WITH Objects <- Clusters, Metadata <- Nat, NoMetadata <- 0,
                         Timed <- {}

nirVars     == <<nirs, nirFeed, nirCache>>
runtimeVars == <<stored, feed, cache, queued, delayed, pc, cur, before, obj, result>>
ownVars     == <<nirVars, dirs, todo>>
vars        == <<runtimeVars, ownVars, now, faults>>

-----------------------------------------------------------------------------
(* Owner references: by name, the UID, or 0 for none.                      *)
OwnerReferences == [Clusters -> Nat]

NoOwners == [c \in Clusters |-> 0]

NodeImageRelease == [exists : BOOLEAN, meta : OwnerReferences, ready : BOOLEAN,
                     conds : NodeConds]

NoNodeImageRelease == [exists |-> FALSE, meta |-> NoOwners, ready |-> FALSE,
                       conds |-> NewNodeConds]

(* A directory left behind without metadata.yaml or without                *)
(* node-images.yaml, or with everything in it.                             *)
Dirs == {"none", "no metadata", "no list", "complete"}

PCs == {"idle", "new", "client", "download", "nodes", "ensure", "list",
        "conditions", "status"}

TypeOK ==
  /\ ReconcilerTypeOK
  /\ pc \in PCs
  /\ nirs \in [NodeImages -> NodeImageRelease]
  /\ nirCache \in [NodeImages -> NodeImageRelease]
  /\ nirFeed \in [NodeImages -> Seq(NodeImageRelease)]
  /\ dirs \in [Clusters -> Dirs]
  /\ todo \in Seq(NodeImages)

Init ==
  /\ ReconcilerInit
  /\ nirs = [i \in NodeImages |-> NoNodeImageRelease]
  /\ nirCache = nirs /\ nirFeed = [i \in NodeImages |-> <<>>]
  /\ dirs = [c \in Clusters |-> "none"]
  /\ todo = <<>>

-----------------------------------------------------------------------------
(* Reconcile: the release assets.                                          *)

DirIs(contents) == dirs[cur] \in contents

(* release.New finds no directory for the release.                         *)
AssetsMissing ==
  /\ pc = "new" /\ DirIs({"none"})
  /\ Goto("client", False(obj, "ClusterStackReleaseAssetsReady",
                          "ReleaseAssetsNotDownloadedYet"))
  /\ NoFault /\ UNCHANGED ownVars

AssetsPresent ==
  /\ pc = "new" /\ DirIs({"no list", "complete"})
  /\ Goto("nodes", True(obj, "ClusterStackReleaseAssetsReady"))
  /\ NoFault /\ UNCHANGED ownVars

(* The metadata is missing, or the directory cannot be examined.           *)
AssetsUnusable ==
  /\ pc = "new"
  /\ \/ NoFault /\ DirIs({"no metadata"})
     \/ Fault
  /\ Return(False(obj, "ClusterStackReleaseAssetsReady", "IssueWithReleaseAssets"),
            "after")
  /\ UNCHANGED ownVars

NewAssetsClient ==
  /\ pc = "client"
  /\ Goto("download", True(obj, "AssetsClientAPIAvailable"))
  /\ NoFault /\ UNCHANGED ownVars

NewAssetsClientFails ==
  /\ pc = "client" /\ Fault
  /\ Return(False(obj, "AssetsClientAPIAvailable", "FailedCreateAssetsClient"),
            "done")
  /\ UNCHANGED ownVars

DirBecomes(contents) ==
  /\ \E d \in contents : dirs' = [dirs EXCEPT ![cur] = d]
  /\ UNCHANGED <<nirVars, todo>>

Download ==
  /\ pc = "download"
  /\ DirBecomes({"complete"})
  /\ Return(obj, "requeue") /\ NoFault

(* The directory is removed again, if that succeeds.                       *)
DownloadFails ==
  /\ pc = "download" /\ Fault
  /\ DirBecomes(Dirs)
  /\ Return(obj, "after")

-----------------------------------------------------------------------------
(* Reconcile: the node image releases.                                     *)

GetNodeImages ==
  /\ pc = "nodes" /\ DirIs({"complete"})
  /\ todo' = Needs[cur]
  /\ Goto(IF Needs[cur] = <<>> THEN "list" ELSE "ensure", obj)
  /\ NoFault /\ UNCHANGED <<nirVars, dirs>>

GetNodeImagesFails ==
  /\ pc = "nodes" /\ DirIs({"no list"})
  /\ Return(obj, "error")
  /\ NoFault /\ UNCHANGED ownVars

WriteNodeImageRelease(i, n) ==
  /\ UNCHANGED nirCache
  /\ IF n = nirs[i] THEN UNCHANGED <<nirs, nirFeed>>
     ELSE /\ Len(nirFeed[i]) < MaxEvents
          /\ nirs' = [nirs EXCEPT ![i] = n]
          /\ nirFeed' = [nirFeed EXCEPT ![i] = Append(@, n)]

LockHoldsAlways(i) == TRUE   \* mutant: Update without a resourceVersion

(* The cached object is the stored one: Update's resourceVersion matches.  *)
LockHolds(i) == nirFeed[i] = <<>>

(* EnsureOwnerRef on the cached object, which replaces a reference of that *)
(* name, then Update under the lock.                                       *)
EnsureOwner(i) ==
  /\ nirCache[i].exists /\ LockHolds(i) /\ nirs[i].exists
  /\ WriteNodeImageRelease(i,
       [nirs[i] EXCEPT !.meta = [nirCache[i].meta EXCEPT ![cur] = obj.meta]])

CreateUnowned(i) ==   \* mutant: SetOwnerReferences is left to the next reconcile
  /\ ~nirCache[i].exists /\ ~nirs[i].exists
  /\ WriteNodeImageRelease(i, [NoNodeImageRelease EXCEPT !.exists = TRUE])

CreateNodeImageRelease(i) ==
  /\ ~nirCache[i].exists /\ ~nirs[i].exists
  /\ WriteNodeImageRelease(i, [NoNodeImageRelease EXCEPT
                                 !.exists = TRUE, !.meta[cur] = obj.meta])

Ensured(i) == EnsureOwner(i) \/ CreateNodeImageRelease(i)

CreateOrUpdateOne ==   \* mutant: the loop ends after its first node image
  /\ pc = "ensure" /\ Ensured(Head(todo))
  /\ todo' = <<>>
  /\ Goto("list", obj)
  /\ NoFault /\ UNCHANGED dirs

CreateOrUpdate ==
  /\ pc = "ensure" /\ Ensured(Head(todo))
  /\ todo' = Tail(todo)
  /\ Goto(IF todo' = <<>> THEN "list" ELSE "ensure", obj)
  /\ NoFault /\ UNCHANGED dirs

(* Update conflicts or finds no object, Create finds one, or the call      *)
(* fails, having written or not: the nodes left are not looked at.         *)
CreateOrUpdateFails ==
  /\ pc = "ensure"
  /\ LET i == Head(todo) IN
       \/ /\ IF nirCache[i].exists THEN ~LockHolds(i) ELSE nirs[i].exists
          /\ NoFault /\ UNCHANGED nirVars
       \/ Fault /\ UNCHANGED nirVars
       \/ Fault /\ Ensured(i)
  /\ Return(obj, "error")
  /\ todo' = <<>> /\ UNCHANGED dirs

(* getOwnedOpenStackNodeImageReleases, from the cache, by name.            *)
Owned == {i \in NodeImages : nirCache[i].exists /\ nirCache[i].meta[cur] # 0}

NotReadyYetKept ==   \* mutant: status.ready is not reset
  /\ pc = "list"
  /\ Owned = {} \/ \E i \in Owned : ~nirCache[i].ready
  /\ Return(False(obj, "OpenStackNodeImageReleasesReady", "ProcessOngoing"), "after")
  /\ NoFault /\ UNCHANGED ownVars

NotReadyYet ==
  /\ pc = "list"
  /\ Owned = {} \/ \E i \in Owned : ~nirCache[i].ready
  /\ Return([False(obj, "OpenStackNodeImageReleasesReady", "ProcessOngoing")
             EXCEPT !.ready = FALSE], "after")
  /\ NoFault /\ UNCHANGED ownVars

AllReadySilent ==   \* mutant: status.ready is not set
  /\ pc = "list"
  /\ Owned # {} /\ \A i \in Owned : nirCache[i].ready
  /\ Return(True(obj, "OpenStackNodeImageReleasesReady"), "done")
  /\ NoFault /\ UNCHANGED ownVars

AllReadyEvenNone ==   \* mutant: no owned node image release is enough
  /\ pc = "list"
  /\ \A i \in Owned : nirCache[i].ready
  /\ Return([True(obj, "OpenStackNodeImageReleasesReady") EXCEPT !.ready = TRUE],
            "done")
  /\ NoFault /\ UNCHANGED ownVars

AllReady ==
  /\ pc = "list"
  /\ Owned # {} /\ \A i \in Owned : nirCache[i].ready
  /\ Return([True(obj, "OpenStackNodeImageReleasesReady") EXCEPT !.ready = TRUE],
            "done")
  /\ NoFault /\ UNCHANGED ownVars

-----------------------------------------------------------------------------
(* The node image releases live on: their own controller sets status.ready,*)
(* people or the garbage collector delete them, and the watch reports it.  *)
(* The collector looks at the stored objects and compares UIDs.            *)

BecomesReady(i) ==
  /\ nirs[i].exists /\ ~nirs[i].ready
  /\ WriteNodeImageRelease(i, [nirs[i] EXCEPT !.ready = TRUE])
  /\ NoFault

BecomesNotReady(i) ==
  /\ nirs[i].exists /\ nirs[i].ready
  /\ WriteNodeImageRelease(i, [nirs[i] EXCEPT !.ready = FALSE])
  /\ Fault

DeleteNodeImageRelease(i) ==
  /\ nirs[i].exists
  /\ WriteNodeImageRelease(i, NoNodeImageRelease)
  /\ Fault

Solid(i) == {c \in Clusters : /\ stored[c].exists
                              /\ nirs[i].meta[c] = stored[c].meta}

Dangling(i) == {c \in Clusters : nirs[i].meta[c] # 0} \ Solid(i)

CollectGarbage(i) ==
  /\ nirs[i].exists /\ Dangling(i) # {}
  /\ WriteNodeImageRelease(i,
       IF Solid(i) = {} THEN NoNodeImageRelease
       ELSE [nirs[i] EXCEPT !.meta = [c \in Clusters |->
                                        IF c \in Solid(i) THEN @[c] ELSE 0]])
  /\ NoFault

DeliverNodeImageRelease(i) ==
  /\ nirFeed[i] # <<>>
  /\ nirCache' = [nirCache EXCEPT ![i] = Head(nirFeed[i])]
  /\ nirFeed' = [nirFeed EXCEPT ![i] = Tail(@)]
  /\ NoFault /\ UNCHANGED nirs

Elsewhere == UNCHANGED <<runtimeVars, dirs, todo, now>>

NodeImageReleases ==
  /\ \E i \in NodeImages :
       \/ BecomesReady(i) \/ BecomesNotReady(i) \/ DeleteNodeImageRelease(i)
       \/ CollectGarbage(i) \/ DeliverNodeImageRelease(i)
  /\ Elsewhere

-----------------------------------------------------------------------------
Calls ==
  \/ AssetsMissing \/ AssetsPresent \/ AssetsUnusable
  \/ NewAssetsClient \/ NewAssetsClientFails \/ Download \/ DownloadFails
  \/ GetNodeImages \/ GetNodeImagesFails
  \/ CreateOrUpdate \/ CreateOrUpdateFails
  \/ NotReadyYet \/ AllReady

Worker ==
  \/ Calls
  \/ Patch /\ UNCHANGED ownVars

Runtime ==
  /\ \/ \E c \in Clusters :
          \/ Deliver(c) \/ TimerFires(c)
          \/ ReconcileMissing(c) \/ ReconcileStart(c, "new")
          \/ CreateObject(c, stored[c].meta + 1) \/ DeleteObject(c)
     \/ Resync
  /\ UNCHANGED ownVars

(* A restart loses --release-dir (a new container), or keeps it (a mounted *)
(* one), with what an interrupted download had got to.                     *)
Restart ==
  /\ StartAgain
  /\ nirCache' = nirs /\ nirFeed' = [i \in NodeImages |-> <<>>]
  /\ UNCHANGED nirs
  /\ todo' = <<>>
  /\ \/ dirs' = [c \in Clusters |-> "none"]
     \/ UNCHANGED dirs
     \/ pc = "download" /\ \E d \in Dirs : dirs' = [dirs EXCEPT ![cur] = d]

Next == Worker \/ Runtime \/ (Fault /\ Restart) \/ NodeImageReleases

Spec == Init /\ [][Next]_vars

(* As for NodeImageRelease; node image releases need not become ready.     *)
(* The garbage collector gets around to every object.                      *)
Fairness ==
  /\ WF_vars(Worker)
  /\ WF_vars(Resync /\ UNCHANGED ownVars)
  /\ WF_vars((\E i \in NodeImages : DeliverNodeImageRelease(i)) /\ Elsewhere)
  /\ WF_vars((\E i \in NodeImages : CollectGarbage(i)) /\ Elsewhere)
  /\ \A c \in Clusters :
       /\ WF_vars(Deliver(c) /\ UNCHANGED ownVars)
       /\ WF_vars(TimerFires(c) /\ UNCHANGED ownVars)
       /\ SF_vars(/\ ReconcileMissing(c) \/ ReconcileStart(c, "new")
                  /\ UNCHANGED ownVars)

FairSpec == Spec /\ Fairness

-----------------------------------------------------------------------------
(* Properties.                                                             *)

(* While it exists, a node image release loses no reference to an owner    *)
(* that lives, neither by being dropped nor to an earlier release of that  *)
(* name.  Reconcile computes the references from a cached copy, and its    *)
(* own UID from another: meanwhile another release may have been added, or *)
(* its own been deleted and created again.  The garbage collector would    *)
(* take the image away from under the owner that is lost.                  *)
OwnersAreKept ==
  [][\A i \in NodeImages : nirs[i].exists /\ nirs'[i].exists
       => \A c \in Solid(i) : nirs'[i].meta[c] = nirs[i].meta[c]]_vars

(* What follows holds for releases that stay, and that no failed download  *)
(* or restart has left with a part of their assets: that is never repaired.*)
Stays(c) == stored[c].exists /\ dirs[c] \in {"none", "complete"}

Needed(c) == {Needs[c][k] : k \in DOMAIN Needs[c]}

NeedsAreReady(c) == Needed(c) # {} /\ \A i \in Needed(c) : nirs[i].ready

ReportsReady(c) ==
  stored[c].ready /\ IsTrue(stored[c].conds, "OpenStackNodeImageReleasesReady")

(* Once all node image releases a release needs stay ready, the release    *)
(* becomes ready for good.                                                 *)
ReadyNodeImagesMakeReady ==
  \A c \in Clusters : <>[](Stays(c) /\ NeedsAreReady(c)) => <>[]ReportsReady(c)

(* A release one of whose node images stays unready, or keeps missing,     *)
(* ends up not ready, though no event tells this controller so.            *)
UnreadyNodeImageMakesNotReady ==
  \A c \in Clusters :
    <>[](Stays(c) /\ \E i \in Needed(c) : ~nirs[i].ready) => <>[](~stored[c].ready)

(* All node images of a release end up owned by it, by its own UID, and    *)
(* stay: a lost download, a failed call, a deleted node image release or   *)
(* the garbage of an earlier release of that name is made good by a later  *)
(* reconcile, though nothing but the resync may bring it about.            *)
NodeImagesAreOwned ==
  \A c \in Clusters :
    <>[]Stays(c) => <>[](\A i \in Needed(c) : nirs[i].exists /\ c \in Solid(i))

(* Once all its owners are gone for good a node image release is deleted:  *)
(* a reconcile still under way for one of them, or one that failed half    *)
(* way, leaves none behind that nobody owns.                               *)
NothingIsLeaked ==
  <>[](\A c \in Clusters : ~stored[c].exists)
    => <>[](\A i \in NodeImages : ~nirs[i].exists)

(* A release reported ready has all its node image releases ready.         *)
ReadyHasAllNodeImages ==
  \A c \in Clusters : stored[c].ready => \A i \in Needed(c) : nirs[i].ready
=============================================================================
