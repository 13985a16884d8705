----------------------------- MODULE CspoProofs -----------------------------
(* Proofs about the program as a whole, for every value of its constants.  *)
(* Both controllers' lemmas are used as they are: a step of the program is *)
(* one of theirs, and one that is the other's leaves them their variables, *)
(* or is among the steps of others their lemmas allow for.                 *)
EXTENDS Cspo, SequenceTheorems, TLAPS

-----------------------------------------------------------------------------
(* Types.                                                                  *)

(* What the two controllers take of their constants.                       *)
LEMMA ConstantsTyped ==
  /\ NodeImages # {} /\ Names # {} /\ Clusters # {}
  /\ ImageOf \in [NodeImages -> Names]
  /\ Needs \in [Clusters -> Seq(NodeImages)]
  /\ {} \subseteq Names /\ {} \subseteq NodeImages
  /\ [c \in Clusters |-> 0] \in [Clusters -> Nat]
  /\ 0 \in Int /\ 0 \in Nat /\ MaxImages \in Nat /\ MaxFaults \in Nat
  /\ MaxLag \in Nat \ {0}
  /\ N!NoConditions \in [N!Types -> N!Condition]
BY CspoAssumption DEF N!NoConditions, N!Condition, N!Absent, N!States

(* Both controllers mean the same by a node image release.                 *)
LEMMA SameObjects == C!NodeImageRelease = N!Object
BY DEF C!NodeImageRelease, C!OwnerReferences, N!Object

WholeType == C!TypeInv /\ N!TypeOK

(* Whichever controller's variables are left alone stay well typed.        *)
LEMMA NodeTypeStays ==
  ASSUME N!TypeOK, C!TypeInv', UNCHANGED nodeVars
  PROVE  N!TypeOK'
<1>1. /\ nirs' \in [NodeImages -> N!Object]
      /\ nirFeed' \in [NodeImages -> Seq(N!Object)]
      /\ nirCache' \in [NodeImages -> N!Object]
      /\ faults' \in Nat
  BY SameObjects DEF C!TypeInv, C!TypeOK, C!ReconcilerTypeOK
<1> QED
  BY <1>1 DEF N!TypeOK, N!ReconcilerTypeOK, nodeVars

LEMMA ClusterTypeStays ==
  ASSUME C!TypeInv, N!TypeOK', UNCHANGED clusterVars
  PROVE  C!TypeInv'
<1>1. /\ nirs' \in [NodeImages -> C!NodeImageRelease]
      /\ nirFeed' \in [NodeImages -> Seq(C!NodeImageRelease)]
      /\ nirCache' \in [NodeImages -> C!NodeImageRelease]
      /\ faults' \in Nat
  BY SameObjects DEF N!TypeOK, N!ReconcilerTypeOK
<1> QED
  BY <1>1 DEF C!TypeInv, C!TypeOK, C!ReconcilerTypeOK, clusterVars

LEMMA DeletionIs ==
  ASSUME Deletion
  PROVE  C!NodeImageReleases
BY DEF Deletion, C!NodeImageReleases, C!Elsewhere, C!runtimeVars, clusterVars

LEMMA WholeTypeStep ==
  ASSUME WholeType, [Next]_vars
  PROVE  WholeType'
<1> USE DEF WholeType
<1>1. CASE ClusterWorker \/ ClusterRuntime
  <2>1. C!TypeInv'
    BY <1>1, ConstantsTyped, C!ReconcileType, C!PatchType, C!RuntimeType
       DEF ClusterWorker, ClusterRuntime, C!Worker
  <2> QED
    BY <1>1, <2>1, NodeTypeStays DEF ClusterWorker, ClusterRuntime
<1>2. CASE NodeWorker \/ NodeRuntime \/ Glance
  <2>1. N!TypeOK'
    BY <1>2, ConstantsTyped, N!ReconcileType, N!PatchType, N!RuntimeType,
       N!GlanceType DEF NodeWorker, NodeRuntime, Glance, N!Worker
  <2> QED
    BY <1>2, <2>1, ClusterTypeStays DEF NodeWorker, NodeRuntime, Glance
<1>3. CASE Deletion
  <2>1. C!TypeInv'
    BY <1>3, ConstantsTyped, DeletionIs, C!NodeImageReleasesType
  <2> QED
    BY <1>3, <2>1, NodeTypeStays DEF Deletion
<1>4. CASE Restart
  <2>1. N!TypeOK'
    BY <1>4, ConstantsTyped, N!RuntimeType DEF Restart
  <2>2. C!Fault \/ C!NoFault
    BY <1>4 DEF Restart, N!Restart, N!Crash, N!EndPanic, N!Fault, N!NoFault,
                C!Fault, C!NoFault
  <2>3. C!TypeInv'
    BY <1>4, <2>2, ConstantsTyped, C!RestartType DEF Restart
  <2> QED
    BY <2>1, <2>3
<1>5. CASE UNCHANGED vars
  <2>1. UNCHANGED clusterVars /\ UNCHANGED nodeVars /\ UNCHANGED sharedVars
        /\ UNCHANGED faults
    BY <1>5 DEF vars
  <2> QED
    BY <2>1 DEF clusterVars, nodeVars, sharedVars, C!TypeInv, C!TypeOK,
       C!ReconcilerTypeOK, N!TypeOK, N!ReconcilerTypeOK
<1> QED
  BY <1>1, <1>2, <1>3, <1>4, <1>5 DEF Next

LEMMA WholeTypeInvariant == Spec => []WholeType
<1>1. Init => WholeType
  BY ConstantsTyped, C!TypeInit, N!TypeInit DEF Init, WholeType
<1> QED
  BY <1>1, WholeTypeStep, PTL DEF Spec

-----------------------------------------------------------------------------
(* The images.                                                             *)

(* A step of the program is a step of NodeImageRelease, or does nothing to *)
(* Glance and to where its controller is, but for ending a reconcile.      *)
LEMMA NodeSteps ==
  ASSUME [Next]_vars
  PROVE  \/ N!Next
         \/ UNCHANGED images /\ (UNCHANGED <<nPc, nCur, imageID>> \/ nPc' = "idle")
<1>1. CASE NodeWorker \/ NodeRuntime \/ Glance
  BY <1>1 DEF NodeWorker, NodeRuntime, Glance, N!Next
<1>2. CASE ClusterWorker \/ ClusterRuntime \/ Deletion
  BY <1>2 DEF ClusterWorker, ClusterRuntime, Deletion, nodeVars
<1>3. CASE Restart
  BY <1>3 DEF Restart, N!Restart, N!Crash, N!EndPanic, N!StartAgain
<1>4. CASE UNCHANGED vars
  BY <1>4 DEF vars, nodeVars
<1> QED
  BY <1>1, <1>2, <1>3, <1>4 DEF Next

ImagesInv == N!UniqueInv /\ N!ImportIsFirst

LEMMA ImagesStep ==
  ASSUME ImagesInv, WholeType', [Next]_vars
  PROVE  ImagesInv' /\ [N!Promise!Next]_(N!Made)
<1>1. CASE N!Next
  <2>1. N!AtMostOneOwnImage' /\ N!CreateIsSafe'
    BY <1>1, ConstantsTyped, N!UniqueStep DEF ImagesInv
  <2>2. N!ImportIsFirst'
    BY <1>1, ConstantsTyped, N!FirstStep DEF ImagesInv, N!UniqueInv
  <2>3. [N!Promise!Next]_(N!Made)
    BY <1>1, ConstantsTyped, N!PromiseStep DEF ImagesInv
  <2> QED
    BY <2>1, <2>2, <2>3 DEF ImagesInv, N!UniqueInv, WholeType
<1>2. CASE /\ UNCHANGED images
           /\ UNCHANGED <<nPc, nCur, imageID>> \/ nPc' = "idle"
  <2>1. N!AtMostOneOwnImage' /\ N!CreateIsSafe'
    BY <1>2, ConstantsTyped, N!ImagesUnchanged DEF ImagesInv
  <2>2. N!ImportIsFirst'
    BY <1>2 DEF ImagesInv, N!ImportIsFirst
  <2>3. UNCHANGED N!Made
    BY <1>2 DEF N!Made, N!AsMade, N!NotMade, N!Phase
  <2> QED
    BY <2>1, <2>2, <2>3 DEF ImagesInv, N!UniqueInv, WholeType
<1> QED
  BY <1>1, <1>2, NodeSteps

LEMMA ImagesInit ==
  ASSUME Init
  PROVE  ImagesInv /\ N!Promise!Init
BY ConstantsTyped, N!UniqueInit, N!PromiseInit DEF Init, ImagesInv

(* Whatever the other controller, the garbage collector, people and the    *)
(* caches do to the node image releases, the program has at most one live  *)
(* image of a name in the project, and creates one only while there is     *)
(* none of it.                                                             *)
THEOREM OneImageInTheProgram ==
  Spec => [](N!AtMostOneOwnImage /\ N!CreateIsSafe)
<1>1. ImagesInv /\ WholeType' /\ [Next]_vars => ImagesInv'
  BY ImagesStep
<1>2. ImagesInv => N!AtMostOneOwnImage /\ N!CreateIsSafe
  BY DEF ImagesInv, N!UniqueInv
<1> QED
  BY <1>1, <1>2, ImagesInit, WholeTypeInvariant, PTL DEF Spec

(* The program as a whole implements ImageImport: it makes one image of a  *)
(* name at most, and requests no import of an image a second time.         *)
THEOREM ProgramKeepsPromise == Spec => N!KeepsPromise
<1>1. ImagesInv /\ WholeType' /\ [Next]_vars
        => ImagesInv' /\ [N!Promise!Next]_(N!Made)
  BY ImagesStep
<1> QED
  BY <1>1, ImagesInit, WholeTypeInvariant, PTL
     DEF Spec, N!KeepsPromise, N!Promise!Spec

-----------------------------------------------------------------------------
(* The owner references.  The node image release controller carries them   *)
(* along with what it patches: the conditions go into the cached object    *)
(* under a lock that makes it the stored one, status.ready into the stored *)
(* one, so it drops and changes none.                                      *)

LEMMA NodeWritesDrop ==
  ASSUME WholeType, C!CacheFollows, NodeWorker, ~UNCHANGED sharedVars
  PROVE  \E i \in NodeImages : C!Drops(i)
<1>1. nCur \in NodeImages /\ N!TypeOK
  BY DEF WholeType, N!TypeOK, N!ReconcilerTypeOK
<1>2. PICK n \in N!Object : N!Write(nCur, n) /\ n.meta = nirs[nCur].meta
  <2>1. ~N!Calls
    BY DEF sharedVars, N!Calls, N!GetCloudFromSecret, N!GetCloudFromSecretFails,
       N!NewImageClient, N!AuthenticateFails, N!NewImageClientFails,
       N!ClientPanics, N!GetImageIDFound, N!GetImageIDNone, N!GetImageIDFails,
       N!CreateImage, N!CreateImageFails, N!ImportImage, N!ImportImageFails,
       N!GetImageFails, N!ImageTimedOut, N!ImageActive, N!ImageUnexpected,
       N!ImageAwaited, N!Goto, N!Return, N!apiVars
  <2>2. (N!CanPatch /\ N!Write(nCur, N!Merged)) \/ N!WriteReady
    BY <2>1 DEF NodeWorker, N!Worker, N!Patch, N!PatchConditionsZero,
       N!PatchConditions, N!PatchConditionsFails, N!PatchStatusZero,
       N!PatchStatus, N!PatchStatusFails, N!apiVars, sharedVars
  <2>3. N!CanPatch => nirCache[nCur] = nirs[nCur]
    BY <1>1 DEF N!CanPatch, C!CacheFollows
  <2> QED
    BY <1>1, <2>2, <2>3, ConstantsTyped, N!PatchWrites
<1>3. C!WriteNodeImageRelease(nCur, n)
  BY <1>2 DEF N!Write, C!WriteNodeImageRelease
<1> QED
  BY <1>1, <1>2, <1>3, SameObjects DEF C!Drops

(* To the cluster stack release controller every step of the program is    *)
(* one its own lemmas allow for.                                           *)
LEMMA NextIsOpen ==
  ASSUME WholeType, C!CacheFollows, [Next]_vars
  PROVE  C!OpenNext
<1> DEFINE Away == UNCHANGED <<C!runtimeVars, dirs, todo, 0>>
<1>1. CASE ClusterWorker \/ ClusterRuntime \/ Restart
  BY <1>1 DEF ClusterWorker, ClusterRuntime, Restart, C!OpenNext
<1>2. CASE Deletion
  BY <1>2, ConstantsTyped, DeletionIs, C!NodeImageReleasesDrop
     DEF WholeType, C!NodeImageReleases, C!Elsewhere, C!OpenNext, C!Others
<1>3. UNCHANGED clusterVars => Away
  BY DEF clusterVars, C!runtimeVars
<1>4. CASE NodeWorker
  BY <1>3, <1>4, NodeWritesDrop DEF NodeWorker, sharedVars, C!nirVars,
     C!OpenNext, C!Others
<1>5. CASE NodeRuntime
  <2>1. \/ UNCHANGED sharedVars
        \/ \E i \in NodeImages : N!Deliver(i)
    BY <1>5 DEF NodeRuntime, N!Runtime, N!TimerFires, N!ReconcileMissing,
       N!ReconcileStart, N!Resync, N!apiVars, sharedVars
  <2>2. \A i \in NodeImages : N!Deliver(i) => C!DeliverNodeImageRelease(i)
    BY DEF N!Deliver, C!DeliverNodeImageRelease, C!NoFault
  <2> QED
    BY <1>3, <1>5, <2>1, <2>2 DEF NodeRuntime, sharedVars, C!nirVars,
       C!OpenNext, C!Others
<1>6. CASE Glance \/ UNCHANGED vars
  <2>1. UNCHANGED sharedVars /\ UNCHANGED clusterVars
    BY <1>6 DEF Glance, N!Glance, N!ImportProceeds, N!ImportAborts,
       N!Deactivate, N!DeleteImage, N!Becomes, N!Expunge, N!ForeignUpload,
       N!runtimeVars, sharedVars, vars
  <2> QED
    BY <1>3, <2>1 DEF sharedVars, C!nirVars, C!OpenNext, C!Others
<1> QED
  BY <1>1, <1>2, <1>4, <1>5, <1>6 DEF Next

LEMMA ProgramOwnersStep ==
  ASSUME WholeType, WholeType', C!OwnersInv, [Next]_vars
  PROVE  /\ C!OwnersInv'
         /\ \A i \in NodeImages : nirs[i].exists /\ nirs'[i].exists
              => \A c \in C!Solid(i) : nirs'[i].meta[c] = nirs[i].meta[c]
<1>1. C!TypeInv /\ C!TypeInv' /\ C!OpenNext
  BY NextIsOpen DEF WholeType, C!OwnersInv
<1>2. C!OwnersInv'
  BY <1>1, ConstantsTyped, C!OwnersStep
<1>3. ASSUME NEW i \in NodeImages, nirs[i].exists, nirs'[i].exists,
             NEW c \in C!Solid(i)
      PROVE  nirs'[i].meta[c] = nirs[i].meta[c]
  BY <1>1, <1>3, ConstantsTyped, C!ReferencesStay
<1> QED
  BY <1>2, <1>3

LEMMA OwnersInvariant == Spec => []C!OwnersInv
<1>1. Init => C!OwnersInv
  BY ConstantsTyped, C!OwnersInit DEF Init
<1>2. WholeType /\ WholeType' /\ C!OwnersInv /\ [Next]_vars => C!OwnersInv'
  BY ProgramOwnersStep
<1> QED
  BY <1>1, <1>2, WholeTypeInvariant, PTL DEF Spec

(* With both controllers at work on the same node image releases none of   *)
(* them loses a reference to an owner that lives.                          *)
THEOREM OwnersKeptInTheProgram == Spec => C!OwnersAreKept
<1>1. WholeType /\ WholeType' /\ C!OwnersInv /\ [Next]_vars
        => [\A i \in NodeImages : nirs[i].exists /\ nirs'[i].exists
              => \A c \in C!Solid(i) : nirs'[i].meta[c] = nirs[i].meta[c]]_(C!vars)
  BY ProgramOwnersStep
<1> QED
  BY <1>1, WholeTypeInvariant, OwnersInvariant, PTL DEF Spec, C!OwnersAreKept

-----------------------------------------------------------------------------
(* What a ready release says of Glance.  It is true of every version of    *)
(* every object, not only of those stored: whoever reads an old one passes *)
(* on what was true then, and stays true while the images stay.            *)

(* A release reported ready has had one at least of the images it needs    *)
(* active.  That is all that holds of a release that needs several: it may *)
(* be reported ready by a reconcile that sees one of them only.            *)
SomeImported(c) == \E i \in C!Needed(c) : HasBeenActive(i)

(* What a version of a node image release, and of a cluster stack release, *)
(* may say.                                                                *)
GoodNode(i) ==
  {n \in N!Object : /\ n.ready => HasBeenActive(i)
                    /\ \A c \in Clusters : n.meta[c] # 0 => i \in C!Needed(c)}

GoodCluster(c) == {o \in C!Object : o.ready => SomeImported(c)}

NodeVersionsGood    == \A i \in NodeImages : N!VersionsIn(i, GoodNode(i))
ClusterVersionsGood == \A c \in Clusters : C!VersionsIn(c, GoodCluster(c))

(* So do the copies the two workers change.                                *)
CopiesGood == /\ nObj.ready => HasBeenActive(nCur)
              /\ cObj.ready => SomeImported(cCur)

(* The image Reconcile asks for is one of the release's name.              *)
AskedIsNamed ==
  nPc = "get" => /\ imageID \in 1..MaxImages
                 /\ images[imageID].status # "none"
                 /\ images[imageID].name = ImageOf[nCur]

(* The node images Reconcile makes sure of are ones the release needs.     *)
EnsuresNeeded == cPc = "ensure" => todo \in Seq(C!Needed(cCur))

ImportInv == /\ NodeVersionsGood /\ ClusterVersionsGood /\ CopiesGood
             /\ AskedIsNamed /\ EnsuresNeeded

-----------------------------------------------------------------------------
(* What is true of the images stays true.                                  *)

LEMMA NamedStays ==
  ASSUME WholeType, ImportedStay, [Next]_vars,
         NEW k \in 1..MaxImages, images[k].status # "none"
  PROVE  images'[k].status # "none" /\ images'[k].name = images[k].name
<1>1. images'[k].status # "none"
  BY DEF ImportedStay
<1>2. CASE N!Next
  BY <1>1, <1>2, ConstantsTyped, N!NamesStay
     DEF WholeType, N!Free, N!ImageIDs
<1> QED
  BY <1>1, <1>2, NodeSteps

LEMMA ActiveStays ==
  ASSUME WholeType, ImportedStay, [Next]_vars
  PROVE  /\ \A i \in NodeImages : HasBeenActive(i) => HasBeenActive(i)'
         /\ \A c \in Clusters : SomeImported(c) => SomeImported(c)'
<1>1. ASSUME NEW i \in NodeImages, HasBeenActive(i)
      PROVE  HasBeenActive(i)'
  <2>1. PICK k \in 1..MaxImages :
          /\ images[k].name = ImageOf[i]
          /\ images[k].status \in {"active", "deactivated"}
    BY <1>1 DEF HasBeenActive
  <2>2. /\ images'[k].status \in {"active", "deactivated"}
        /\ images'[k].name = images[k].name
    BY <2>1, NamedStays DEF ImportedStay
  <2> QED
    BY <2>1, <2>2 DEF HasBeenActive
<1>2. ASSUME NEW c \in Clusters, SomeImported(c)
      PROVE  SomeImported(c)'
  <2>1. C!Needed(c) \subseteq NodeImages
    BY ConstantsTyped, ElementOfSeq DEF C!Needed
  <2> QED
    BY <1>1, <1>2, <2>1 DEF SomeImported
<1> QED
  BY <1>1, <1>2

LEMMA GoodStays ==
  ASSUME WholeType, ImportedStay, [Next]_vars
  PROVE  /\ \A i \in NodeImages : GoodNode(i) \subseteq GoodNode(i)'
         /\ \A c \in Clusters : GoodCluster(c) \subseteq GoodCluster(c)'
BY ActiveStays DEF GoodNode, GoodCluster

(* getImageID's answer.                                                    *)
LEMMA AskedIsNamedStep ==
  ASSUME WholeType, ImportInv, ImportedStay, [Next]_vars
  PROVE  AskedIsNamed'
<1>1. CASE N!GetImageIDFound
  <2>1. PICK k \in N!Listed(ImageOf[nCur]) : imageID' = k
    BY <1>1 DEF N!GetImageIDFound, N!Found
  <2>2. UNCHANGED <<images, nCur>>
    BY <1>1 DEF N!GetImageIDFound, N!Goto
  <2> QED
    BY <2>1, <2>2 DEF N!Listed, N!ImageIDs, N!Live, AskedIsNamed
<1>2. CASE UNCHANGED <<nPc, nCur, imageID>>
  BY <1>2, NamedStays DEF AskedIsNamed, ImportInv
<1>3. CASE ~N!GetImageIDFound /\ ~UNCHANGED <<nPc, nCur, imageID>>
  <2>1. nPc' # "get"
    BY <1>3, NodeSteps DEF N!Next, N!Worker, N!Calls, N!GetCloudFromSecret,
       N!GetCloudFromSecretFails, N!NewImageClient, N!AuthenticateFails,
       N!NewImageClientFails, N!ClientPanics, N!GetImageIDNone,
       N!GetImageIDFails, N!CreateImage, N!CreateImageFails, N!ImportImage,
       N!ImportImageFails, N!GetImageFails, N!ImageTimedOut, N!ImageActive,
       N!ImageUnexpected, N!ImageAwaited, N!Goto, N!Return,
       N!Patch, N!PatchConditionsZero, N!PatchConditions,
       N!PatchConditionsFails, N!PatchStatusZero, N!PatchStatus,
       N!PatchStatusFails, N!ConditionsDone, N!Finish,
       N!Runtime, N!Deliver, N!TimerFires, N!ReconcileMissing,
       N!ReconcileStart, N!Resync, N!Ownership, N!CreateObject,
       N!ChangeMetadata, N!DeleteObject, N!Restart, N!Crash, N!EndPanic,
       N!StartAgain, N!Tick, N!Glance, N!ImportProceeds, N!ImportAborts,
       N!Deactivate, N!DeleteImage, N!Becomes, N!Expunge, N!ForeignUpload,
       N!ownVars, N!runtimeVars, N!workerVars
  <2> QED
    BY <2>1 DEF AskedIsNamed
<1> QED
  BY <1>1, <1>2, <1>3

(* The loop over the node images of the assets.                            *)
LEMMA EnsuresNeededStep ==
  ASSUME WholeType, ImportInv, [Next]_vars
  PROVE  EnsuresNeeded'
<1>1. CASE UNCHANGED <<cPc, cCur, todo>>
  BY <1>1 DEF EnsuresNeeded, ImportInv
<1>2. CASE C!GetNodeImages
  <2>1. todo' = Needs[cCur] /\ cCur' = cCur /\ cCur \in Clusters
    BY <1>2 DEF C!GetNodeImages, C!Goto, WholeType, C!TypeInv, C!TypeOK,
       C!ReconcilerTypeOK
  <2>2. Needs[cCur] \in Seq(NodeImages)
    BY <2>1, ConstantsTyped
  <2>3. Needs[cCur] \in Seq(C!Needed(cCur))
    <3> DEFINE s == Needs[cCur]
    <3>1. /\ Len(s) \in Nat /\ DOMAIN s = 1..Len(s)
          /\ s = [k \in 1..Len(s) |-> s[k]]
      BY <2>2, LenProperties
    <3>2. C!Needed(cCur) = {s[k] : k \in DOMAIN s}
      BY DEF C!Needed
    <3> HIDE DEF s
    <3>3. s \in [1..Len(s) -> C!Needed(cCur)]
      BY <3>1, <3>2
    <3> QED
      BY <3>1, <3>3 DEF s
  <2> QED
    BY <2>1, <2>3 DEF EnsuresNeeded
<1>3. CASE C!CreateOrUpdate
  <2>1. /\ cPc = "ensure" /\ todo' = Tail(todo) /\ cCur' = cCur
        /\ todo # <<>>
    BY <1>3 DEF C!CreateOrUpdate, C!Goto, WholeType, C!TypeInv
  <2>2. Tail(todo) \in Seq(C!Needed(cCur))
    BY <2>1, HeadTailProperties DEF ImportInv, EnsuresNeeded
  <2> QED
    BY <2>1, <2>2 DEF EnsuresNeeded
<1>4. CASE ~(\/ UNCHANGED <<cPc, cCur, todo>> \/ C!GetNodeImages
             \/ C!CreateOrUpdate)
  <2>1. cPc' # "ensure"
    <3>1. CASE ClusterWorker
      BY <1>4, <3>1 DEF ClusterWorker, C!Worker, C!Calls, C!AssetsMissing,
         C!AssetsPresent, C!AssetsUnusable, C!NewAssetsClient,
         C!NewAssetsClientFails, C!Download, C!DownloadFails,
         C!GetNodeImagesFails, C!CreateOrUpdateFails, C!NotReadyYet,
         C!AllReady, C!Goto, C!Return, C!Patch, C!PatchConditionsZero,
         C!PatchConditions, C!PatchConditionsFails, C!PatchStatusZero,
         C!PatchStatus, C!PatchStatusFails, C!ConditionsDone, C!Finish
    <3>2. CASE ClusterRuntime
      BY <1>4, <3>2 DEF ClusterRuntime, C!Runtime, C!Deliver, C!TimerFires,
         C!ReconcileMissing, C!ReconcileStart, C!CreateObject,
         C!DeleteObject, C!Resync, C!ownVars, C!workerVars
    <3>3. CASE Restart
      BY <3>3 DEF Restart, C!Restart, C!StartAgain
    <3>4. CASE NodeWorker \/ NodeRuntime \/ Deletion \/ Glance \/ UNCHANGED vars
      BY <1>4, <3>4 DEF NodeWorker, NodeRuntime, Deletion, Glance, vars,
         clusterVars
    <3> QED
      BY <3>1, <3>2, <3>3, <3>4 DEF Next
  <2> QED
    BY <2>1 DEF EnsuresNeeded
<1> QED
  BY <1>1, <1>2, <1>3, <1>4

-----------------------------------------------------------------------------
(* The versions of the node image releases.                                *)

(* What the cluster stack release controller, people and the garbage       *)
(* collector write: nobody but the node image release controller sets      *)
(* status.ready, and nobody refers to a release that does not need it.     *)
LEMMA OthersWriteGood ==
  ASSUME WholeType, ImportInv,
         NEW i \in NodeImages,
         \/ cPc = "ensure" /\ i \in C!Needed(cCur) /\ C!Ensured(i)
         \/ C!DeleteNodeImageRelease(i) \/ C!CollectGarbage(i)
  PROVE  \E n \in GoodNode(i) : N!Write(i, n)
<1>1. /\ nirs[i] \in GoodNode(i) /\ nirCache[i] \in GoodNode(i)
      /\ nirs[i] \in C!NodeImageRelease /\ nirCache[i] \in C!NodeImageRelease
  BY SameObjects DEF ImportInv, NodeVersionsGood, N!VersionsIn, GoodNode
<1>2. \A n : C!WriteNodeImageRelease(i, n) => N!Write(i, n)
  BY DEF C!WriteNodeImageRelease, N!Write
<1>3. /\ C!NoNodeImageRelease \in C!NodeImageRelease
      /\ ~C!NoNodeImageRelease.ready
      /\ \A c \in Clusters : C!NoNodeImageRelease.meta[c] = 0
  BY ConstantsTyped, C!NodeImageReleaseTypes
     DEF C!NoNodeImageRelease, C!NoOwners
<1>4. \A n \in C!NodeImageRelease :
        /\ n.ready => HasBeenActive(i)
        /\ \A c \in Clusters : n.meta[c] # 0 => i \in C!Needed(c)
        => n \in GoodNode(i)
  BY SameObjects DEF GoodNode
<1>5. cCur \in Clusters /\ cObj.meta \in Nat
  BY ConstantsTyped, C!ObjectsTyped DEF WholeType
<1>6. ASSUME i \in C!Needed(cCur), C!EnsureOwner(i)
      PROVE  \E n \in GoodNode(i) : N!Write(i, n)
  <2> DEFINE kept == [nirCache[i].meta EXCEPT ![cCur] = cObj.meta]
             n    == [nirs[i] EXCEPT !.meta = kept]
  <2>1. /\ kept \in C!OwnerReferences
        /\ \A c \in Clusters : c # cCur => kept[c] = nirCache[i].meta[c]
    BY <1>1, <1>5 DEF C!NodeImageRelease, C!OwnerReferences
  <2>2. \A c \in Clusters : kept[c] # 0 => i \in C!Needed(c)
    BY <1>1, <1>6, <2>1 DEF GoodNode
  <2>3. C!WriteNodeImageRelease(i, n)
    BY <1>6 DEF C!EnsureOwner
  <2> HIDE DEF kept
  <2>4. n \in C!NodeImageRelease /\ n.meta = kept /\ n.ready = nirs[i].ready
    BY <1>1, <2>1 DEF C!NodeImageRelease
  <2>5. nirs[i].ready => HasBeenActive(i)
    BY <1>1 DEF GoodNode
  <2> HIDE DEF n
  <2> QED
    BY <1>2, <1>4, <2>2, <2>3, <2>4, <2>5
<1>7. ASSUME i \in C!Needed(cCur), C!CreateNodeImageRelease(i)
      PROVE  \E n \in GoodNode(i) : N!Write(i, n)
  <2> DEFINE fresh == [C!NoNodeImageRelease.meta EXCEPT ![cCur] = cObj.meta]
             n     == [C!NoNodeImageRelease EXCEPT
                         !.exists = TRUE, !.meta[cCur] = cObj.meta]
  <2>1. /\ fresh \in C!OwnerReferences
        /\ \A c \in Clusters : c # cCur => fresh[c] = 0
    BY <1>3, <1>5 DEF C!NodeImageRelease, C!OwnerReferences
  <2>2. \A c \in Clusters : fresh[c] # 0 => i \in C!Needed(c)
    BY <1>7, <2>1
  <2>3. C!WriteNodeImageRelease(i, n)
    BY <1>7 DEF C!CreateNodeImageRelease
  <2>4. n = [C!NoNodeImageRelease EXCEPT !.exists = TRUE, !.meta = fresh]
    OBVIOUS
  <2> HIDE DEF fresh, n
  <2>5. n \in C!NodeImageRelease /\ n.meta = fresh /\ ~n.ready
    BY <1>3, <2>1, <2>4 DEF C!NodeImageRelease
  <2> QED
    BY <1>2, <1>4, <2>2, <2>3, <2>5
<1>8. ASSUME C!WriteNodeImageRelease(i, C!NoNodeImageRelease)
      PROVE  \E n \in GoodNode(i) : N!Write(i, n)
  BY <1>2, <1>3, <1>4, <1>8
<1>9. CASE C!CollectGarbage(i)
  <2> DEFINE left == [c \in Clusters |-> IF c \in C!Solid(i)
                                         THEN nirs[i].meta[c] ELSE 0]
             n    == [nirs[i] EXCEPT !.meta = left]
  <2>1. left \in C!OwnerReferences
    BY <1>1 DEF C!NodeImageRelease, C!OwnerReferences
  <2>2. \A c \in Clusters : left[c] # 0 => i \in C!Needed(c)
    BY <1>1 DEF GoodNode
  <2>3. \/ C!WriteNodeImageRelease(i, C!NoNodeImageRelease)
        \/ C!WriteNodeImageRelease(i, n)
    BY <1>9 DEF C!CollectGarbage
  <2> HIDE DEF left
  <2>4. n \in C!NodeImageRelease /\ n.meta = left /\ n.ready = nirs[i].ready
    BY <1>1, <2>1 DEF C!NodeImageRelease
  <2>5. nirs[i].ready => HasBeenActive(i)
    BY <1>1 DEF GoodNode
  <2> HIDE DEF n
  <2> QED
    BY <1>2, <1>4, <1>8, <2>2, <2>3, <2>4, <2>5
<1> QED
  BY <1>6, <1>7, <1>8, <1>9 DEF C!Ensured, C!DeleteNodeImageRelease

(* What the node image release controller writes.                          *)
LEMMA NodeWritesGood ==
  ASSUME WholeType, ImportInv, NEW i \in NodeImages, nCur = i
  PROVE  /\ N!Merged \in GoodNode(i)
         /\ [nirs[i] EXCEPT !.ready = nObj.ready] \in GoodNode(i)
<1>1. /\ nirs[i] \in GoodNode(i) /\ nirCache[i] \in GoodNode(i)
      /\ nirs[i] \in N!Object
  BY DEF ImportInv, NodeVersionsGood, N!VersionsIn, GoodNode
<1>2. /\ N!Merged \in N!Object /\ N!Merged.meta = nirCache[i].meta
      /\ N!Merged.ready = nirCache[i].ready
  BY ConstantsTyped, N!PatchWrites DEF WholeType
<1>3. /\ nObj.ready \in BOOLEAN
      /\ nObj.ready => HasBeenActive(i)
  BY DEF WholeType, N!TypeOK, N!ReconcilerTypeOK, N!Object, ImportInv, CopiesGood
<1>4. /\ [nirs[i] EXCEPT !.ready = nObj.ready] \in N!Object
      /\ [nirs[i] EXCEPT !.ready = nObj.ready].meta = nirs[i].meta
      /\ [nirs[i] EXCEPT !.ready = nObj.ready].ready = nObj.ready
  BY <1>1, <1>3 DEF N!Object
<1> QED
  BY <1>1, <1>2, <1>3, <1>4 DEF GoodNode

LEMMA NodeVersionsStep ==
  ASSUME WholeType, ImportInv, ImportedStay, [Next]_vars
  PROVE  NodeVersionsGood'
<1> SUFFICES ASSUME NEW i \in NodeImages
             PROVE  N!VersionsIn(i, GoodNode(i))'
  BY DEF NodeVersionsGood
<1>1. PICK S : S = GoodNode(i)'
  OBVIOUS
<1>2. N!VersionsIn(i, S) /\ GoodNode(i) \subseteq S
  <2>1. PICK R : R = GoodNode(i)
    OBVIOUS
  <2>2. R \subseteq S /\ N!VersionsIn(i, R)
    BY <1>1, <2>1, GoodStays DEF ImportInv, NodeVersionsGood
  <2> QED
    BY <2>1, <2>2, ConstantsTyped, N!VersionsInMore
<1> SUFFICES N!VersionsIn(i, S)'
  BY <1>1 DEF N!VersionsIn
<1>3. CASE UNCHANGED sharedVars
  BY <1>2, <1>3 DEF sharedVars, N!VersionsIn
<1>4. ASSUME NEW j \in NodeImages, NEW n \in GoodNode(j), N!Write(j, n)
      PROVE  N!VersionsIn(i, S)'
  BY <1>2, <1>4, ConstantsTyped, N!WriteVersions DEF WholeType
<1>5. CASE ClusterWorker
  <2>1. CASE C!CreateOrUpdate \/ C!CreateOrUpdateFails
    <3>1. cPc = "ensure" /\ todo # <<>>
      BY <2>1 DEF C!CreateOrUpdate, C!CreateOrUpdateFails, WholeType, C!TypeInv
    <3>2. Head(todo) \in C!Needed(cCur)
      BY <3>1, HeadTailProperties DEF ImportInv, EnsuresNeeded
    <3>3. Head(todo) \in NodeImages
      BY <3>1, HeadTailProperties DEF WholeType, C!TypeInv, C!TypeOK
    <3>4. UNCHANGED sharedVars \/ C!Ensured(Head(todo))
      BY <2>1 DEF C!CreateOrUpdate, C!CreateOrUpdateFails, C!nirVars, sharedVars
    <3> QED
      BY <1>3, <1>4, <3>1, <3>2, <3>3, <3>4, OthersWriteGood
  <2>2. CASE ~(C!CreateOrUpdate \/ C!CreateOrUpdateFails)
    BY <1>3, <1>5, <2>2 DEF ClusterWorker, C!Worker, C!Calls, C!AssetsMissing,
       C!AssetsPresent, C!AssetsUnusable, C!NewAssetsClient,
       C!NewAssetsClientFails, C!Download, C!DownloadFails, C!DirBecomes,
       C!GetNodeImages, C!GetNodeImagesFails, C!NotReadyYet, C!AllReady,
       C!ownVars, C!nirVars, sharedVars
  <2> QED
    BY <2>1, <2>2
<1>6. CASE Deletion
  BY <1>4, <1>6, OthersWriteGood DEF Deletion
<1>7. CASE NodeWorker
  <2>1. CASE N!Calls
    BY <1>3, <2>1 DEF sharedVars, N!Calls, N!GetCloudFromSecret,
       N!GetCloudFromSecretFails, N!NewImageClient, N!AuthenticateFails,
       N!NewImageClientFails, N!ClientPanics, N!GetImageIDFound,
       N!GetImageIDNone, N!GetImageIDFails, N!CreateImage, N!CreateImageFails,
       N!ImportImage, N!ImportImageFails, N!GetImageFails, N!ImageTimedOut,
       N!ImageActive, N!ImageUnexpected, N!ImageAwaited, N!Goto, N!Return,
       N!apiVars
  <2>2. CASE N!Patch
    <3>1. nCur = i => /\ N!Merged \in S
                      /\ [nirs[i] EXCEPT !.ready = nObj.ready] \in S
      BY <1>2, NodeWritesGood
    <3> QED
      BY <1>2, <2>2, <3>1, ConstantsTyped, N!PatchVersions DEF WholeType
  <2> QED
    BY <1>7, <2>1, <2>2 DEF NodeWorker, N!Worker
<1>8. CASE NodeRuntime
  <2>1. \/ UNCHANGED sharedVars
        \/ \E j \in NodeImages : N!Deliver(j)
    BY <1>8 DEF NodeRuntime, N!Runtime, N!TimerFires, N!ReconcileMissing,
       N!ReconcileStart, N!Resync, N!apiVars, sharedVars
  <2> QED
    BY <1>2, <1>3, <2>1, ConstantsTyped, N!DeliverVersions DEF WholeType
<1>9. CASE Restart
  BY <1>2, <1>9, ConstantsTyped, N!RestartVersions
     DEF WholeType, Restart, N!Restart, N!Crash, N!EndPanic
<1>10. CASE ClusterRuntime \/ Glance \/ UNCHANGED vars
  BY <1>3, <1>10 DEF ClusterRuntime, C!Runtime, C!ownVars, C!nirVars, Glance,
     N!Glance, N!ImportProceeds, N!ImportAborts, N!Deactivate, N!DeleteImage,
     N!Becomes, N!Expunge, N!ForeignUpload, N!runtimeVars, sharedVars, vars
<1> QED
  BY <1>5, <1>6, <1>7, <1>8, <1>9, <1>10 DEF Next

-----------------------------------------------------------------------------
(* The versions of the cluster stack releases.                             *)

LEMMA ClusterWritesGood ==
  ASSUME WholeType, ImportInv, NEW c \in Clusters, cCur = c
  PROVE  /\ C!Merged \in GoodCluster(c)
         /\ [cStored[c] EXCEPT !.ready = cObj.ready] \in GoodCluster(c)
<1>1. /\ cStored[c] \in C!Object /\ cCache[c] \in GoodCluster(c)
  BY DEF ImportInv, ClusterVersionsGood, C!VersionsIn, GoodCluster
<1>2. C!Merged \in C!Object /\ C!Merged.ready = cCache[c].ready
  BY ConstantsTyped, C!PatchWrites DEF WholeType, C!TypeInv
<1>3. /\ cObj.ready \in BOOLEAN
      /\ cObj.ready => SomeImported(c)
  BY DEF WholeType, C!TypeInv, C!TypeOK, C!ReconcilerTypeOK, C!Object, ImportInv,
     CopiesGood
<1>4. /\ [cStored[c] EXCEPT !.ready = cObj.ready] \in C!Object
      /\ [cStored[c] EXCEPT !.ready = cObj.ready].ready = cObj.ready
  BY <1>1, <1>3 DEF C!Object
<1> QED
  BY <1>1, <1>2, <1>3, <1>4 DEF GoodCluster

LEMMA ClusterVersionsStep ==
  ASSUME WholeType, ImportInv, ImportedStay, [Next]_vars
  PROVE  ClusterVersionsGood'
<1> SUFFICES ASSUME NEW c \in Clusters
             PROVE  C!VersionsIn(c, GoodCluster(c))'
  BY DEF ClusterVersionsGood
<1>1. PICK S : S = GoodCluster(c)'
  OBVIOUS
<1>2. C!VersionsIn(c, S) /\ GoodCluster(c) \subseteq S
  <2>1. PICK R : R = GoodCluster(c)
    OBVIOUS
  <2>2. R \subseteq S /\ C!VersionsIn(c, R)
    BY <1>1, <2>1, GoodStays DEF ImportInv, ClusterVersionsGood
  <2> QED
    BY <2>1, <2>2, ConstantsTyped, C!VersionsInMore
<1> SUFFICES C!VersionsIn(c, S)'
  BY <1>1 DEF C!VersionsIn
<1>3. CASE UNCHANGED <<cStored, cFeed, cCache>>
  BY <1>2, <1>3 DEF C!VersionsIn
<1>4. CASE ClusterWorker
  <2>1. CASE C!Calls
    BY <1>3, <2>1 DEF C!Calls, C!AssetsMissing,
       C!AssetsPresent, C!AssetsUnusable, C!NewAssetsClient,
       C!NewAssetsClientFails, C!Download, C!DownloadFails,
       C!GetNodeImages, C!GetNodeImagesFails, C!CreateOrUpdate,
       C!CreateOrUpdateFails, C!NotReadyYet, C!AllReady, C!Goto, C!Return,
       C!apiVars
  <2>2. CASE C!Patch
    <3>1. cCur = c => /\ C!Merged \in S
                      /\ [cStored[c] EXCEPT !.ready = cObj.ready] \in S
      BY <1>2, ClusterWritesGood
    <3> QED
      BY <1>2, <2>2, <3>1, ConstantsTyped, C!PatchVersions
         DEF WholeType, C!TypeInv
  <2> QED
    BY <1>4, <2>1, <2>2 DEF ClusterWorker, C!Worker
<1>5. CASE ClusterRuntime
  <2>1. \A b \in BOOLEAN, m \in Nat : C!Blank(b, m) \in S
    <3>1. \A b \in BOOLEAN, m \in Nat :
            C!Blank(b, m) \in C!Object /\ ~C!Blank(b, m).ready
      BY ConstantsTyped, C!ObjectTypes DEF C!Blank
    <3> QED
      BY <1>2, <3>1 DEF GoodCluster
  <2> QED
    BY <1>2, <1>5, <2>1, ConstantsTyped, C!RuntimeVersions
       DEF WholeType, C!TypeInv, ClusterRuntime
<1>6. CASE Restart
  BY <1>2, <1>6, ConstantsTyped, C!RestartVersions
     DEF WholeType, C!TypeInv, Restart, C!Restart
<1>7. CASE NodeWorker \/ NodeRuntime \/ Deletion \/ Glance \/ UNCHANGED vars
  BY <1>3, <1>7 DEF NodeWorker, NodeRuntime, Deletion, Glance, vars, clusterVars
<1> QED
  BY <1>4, <1>5, <1>6, <1>7 DEF Next

-----------------------------------------------------------------------------
(* The copies.                                                             *)

LEMMA NodeCopyStep ==
  ASSUME WholeType, ImportInv, ImportedStay, [Next]_vars, nObj'.ready
  PROVE  HasBeenActive(nCur)'
<1>1. nCur \in NodeImages
  BY DEF WholeType, N!TypeOK, N!ReconcilerTypeOK
<1>2. CASE nCur' = nCur /\ (nObj.ready \/ HasBeenActive(nCur))
  <2>1. HasBeenActive(nCur)
    BY <1>2 DEF ImportInv, CopiesGood
  <2>2. PICK i \in NodeImages : i = nCur
    BY <1>1
  <2>3. HasBeenActive(i)'
    BY <2>1, <2>2, ActiveStays
  <2> QED
    BY <1>2, <2>2, <2>3 DEF HasBeenActive
<1>3. CASE NodeWorker
  <2>1. CASE N!Calls
    <3>1. N!Got({"active"}) => HasBeenActive(nCur)
      BY DEF N!Got, N!Status, ImportInv, AskedIsNamed, HasBeenActive
    <3> QED
      BY <1>2, <2>1, <3>1, ConstantsTyped, N!ReadyCopy DEF WholeType
  <2>2. CASE N!Patch
    BY <1>2, <2>2 DEF N!Patch, N!PatchConditionsZero,
       N!PatchConditions, N!PatchConditionsFails, N!PatchStatusZero,
       N!PatchStatus, N!PatchStatusFails, N!ConditionsDone, N!Finish, N!Forget,
       N!NoObject, N!Blank
  <2> QED
    BY <1>3, <2>1, <2>2 DEF NodeWorker, N!Worker
<1>4. CASE NodeRuntime
  <2>1. CASE \E r \in NodeImages : N!ReconcileStart(r, "secret")
    <3>1. PICK r \in NodeImages : N!ReconcileStart(r, "secret")
      BY <2>1
    <3>2. nObj' = nirCache[r] /\ nCur' = r
      BY <3>1 DEF N!ReconcileStart
    <3>3. HasBeenActive(r)
      BY <3>2 DEF ImportInv, NodeVersionsGood, N!VersionsIn, GoodNode
    <3>4. HasBeenActive(r)'
      BY <3>3, ActiveStays
    <3> QED
      BY <3>2, <3>4 DEF HasBeenActive
  <2>2. CASE ~\E r \in NodeImages : N!ReconcileStart(r, "secret")
    <3>1. UNCHANGED <<nObj, nCur>>
      BY <1>4, <2>2 DEF NodeRuntime, N!Runtime, N!Deliver, N!TimerFires,
         N!ReconcileMissing, N!Resync, N!workerVars
    <3> QED
      BY <1>2, <3>1
  <2> QED
    BY <2>1, <2>2
<1>5. CASE Restart
  BY <1>5 DEF Restart, N!Restart, N!Crash, N!EndPanic, N!StartAgain, N!Forget,
     N!NoObject, N!Blank
<1>6. CASE ClusterWorker \/ ClusterRuntime \/ Deletion \/ Glance \/ UNCHANGED vars
  <2>1. UNCHANGED <<nObj, nCur>>
    BY <1>6 DEF ClusterWorker, ClusterRuntime, Deletion, Glance, vars, nodeVars,
       N!Glance, N!ImportProceeds, N!ImportAborts, N!Deactivate,
       N!DeleteImage, N!Becomes, N!Expunge, N!ForeignUpload, N!runtimeVars
  <2> QED
    BY <1>2, <2>1
<1> QED
  BY <1>3, <1>4, <1>5, <1>6 DEF Next

LEMMA ClusterCopyStep ==
  ASSUME WholeType, ImportInv, ImportedStay, [Next]_vars, cObj'.ready
  PROVE  SomeImported(cCur)'
<1>1. cCur \in Clusters
  BY DEF WholeType, C!TypeInv, C!TypeOK, C!ReconcilerTypeOK
<1>2. CASE cCur' = cCur /\ (cObj.ready \/ SomeImported(cCur))
  <2>1. SomeImported(cCur)
    BY <1>2 DEF ImportInv, CopiesGood
  <2>2. PICK c \in Clusters : c = cCur
    BY <1>1
  <2>3. SomeImported(c)'
    BY <2>1, <2>2, ActiveStays
  <2> QED
    BY <1>2, <2>2, <2>3 DEF SomeImported, HasBeenActive, C!Needed
<1>3. CASE ClusterWorker
  <2>1. CASE C!Calls
    <3>1. ASSUME C!Owned # {}, \A i \in C!Owned : nirCache[i].ready
          PROVE  SomeImported(cCur)
      <4>1. PICK i \in NodeImages : /\ nirCache[i].meta[cCur] # 0
                                    /\ nirCache[i].ready
        BY <3>1 DEF C!Owned
      <4>2. i \in C!Needed(cCur) /\ HasBeenActive(i)
        BY <1>1, <4>1 DEF ImportInv, NodeVersionsGood, N!VersionsIn, GoodNode
      <4> QED
        BY <4>2 DEF SomeImported
    <3> QED
      BY <1>2, <2>1, <3>1, ConstantsTyped, C!ReadyCopy DEF WholeType
  <2>2. CASE C!Patch
    BY <1>2, <2>2 DEF C!Patch, C!PatchConditionsZero,
       C!PatchConditions, C!PatchConditionsFails, C!PatchStatusZero,
       C!PatchStatus, C!PatchStatusFails, C!ConditionsDone, C!Finish, C!Forget,
       C!NoObject, C!Blank
  <2> QED
    BY <1>3, <2>1, <2>2 DEF ClusterWorker, C!Worker
<1>4. CASE ClusterRuntime
  <2>1. CASE \E r \in Clusters : C!ReconcileStart(r, "new")
    <3>1. PICK r \in Clusters : C!ReconcileStart(r, "new")
      BY <2>1
    <3>2. cObj' = cCache[r] /\ cCur' = r
      BY <3>1 DEF C!ReconcileStart
    <3>3. SomeImported(r)
      BY <3>2 DEF ImportInv, ClusterVersionsGood, C!VersionsIn, GoodCluster
    <3>4. SomeImported(r)'
      BY <3>3, ActiveStays
    <3> QED
      BY <3>2, <3>4 DEF SomeImported, HasBeenActive, C!Needed
  <2>2. CASE ~\E r \in Clusters : C!ReconcileStart(r, "new")
    <3>1. UNCHANGED <<cObj, cCur>>
      BY <1>4, <2>2 DEF ClusterRuntime, C!Runtime, C!Deliver, C!TimerFires,
         C!ReconcileMissing, C!CreateObject, C!DeleteObject, C!Resync,
         C!workerVars
    <3> QED
      BY <1>2, <3>1
  <2> QED
    BY <2>1, <2>2
<1>5. CASE Restart
  BY <1>5 DEF Restart, C!Restart, C!StartAgain, C!Forget, C!NoObject, C!Blank
<1>6. CASE NodeWorker \/ NodeRuntime \/ Deletion \/ Glance \/ UNCHANGED vars
  <2>1. UNCHANGED <<cObj, cCur>>
    BY <1>6 DEF NodeWorker, NodeRuntime, Deletion, Glance, vars, clusterVars
  <2> QED
    BY <1>2, <2>1
<1> QED
  BY <1>3, <1>4, <1>5, <1>6 DEF Next

-----------------------------------------------------------------------------
LEMMA ImportStep ==
  ASSUME WholeType, ImportInv, ImportedStay, [Next]_vars
  PROVE  ImportInv'
BY NodeVersionsStep, ClusterVersionsStep, NodeCopyStep, ClusterCopyStep,
   AskedIsNamedStep, EnsuresNeededStep DEF ImportInv, CopiesGood

LEMMA ImportInit ==
  ASSUME Init
  PROVE  ImportInv
<1>1. N!NoObject \in N!Object /\ C!NoObject \in C!Object
  BY ConstantsTyped, N!ObjectTypes, C!ObjectTypes
<1>2. /\ ~N!NoObject.ready /\ ~C!NoObject.ready
      /\ \A c \in Clusters : N!NoObject.meta[c] = 0
  BY DEF N!NoObject, N!Blank, C!NoObject, C!Blank
<1>3. NodeVersionsGood
  BY <1>1, <1>2, EmptySeq DEF Init, N!Init, N!ReconcilerInit, NodeVersionsGood,
     N!VersionsIn, GoodNode
<1>4. ClusterVersionsGood
  BY <1>1, <1>2, EmptySeq DEF Init, C!Init, C!ReconcilerInit,
     ClusterVersionsGood, C!VersionsIn, GoodCluster
<1>5. CopiesGood /\ AskedIsNamed /\ EnsuresNeeded
  BY <1>2 DEF Init, N!Init, N!ReconcilerInit, C!Init, C!ReconcilerInit,
     CopiesGood, AskedIsNamed, EnsuresNeeded
<1> QED
  BY <1>3, <1>4, <1>5 DEF ImportInv

LEMMA ImportInvariant == Spec /\ [][ImportedStay]_vars => []ImportInv
<1>1. WholeType /\ ImportInv /\ [Next]_vars /\ [ImportedStay]_vars => ImportInv'
  <2> SUFFICES ASSUME WholeType, ImportInv, [Next]_vars, [ImportedStay]_vars
               PROVE  ImportInv'
    OBVIOUS
  <2>1. CASE UNCHANGED vars
    <3>1. ImportedStay
      BY <2>1 DEF vars, nodeVars, ImportedStay
    <3> QED
      BY <3>1, ImportStep
  <2> QED
    BY <2>1, ImportStep
<1> QED
  BY <1>1, ImportInit, WholeTypeInvariant, PTL DEF Spec

(* Unless people delete imported images, a release that is reported ready  *)
(* has had one at least of its images active: no restart, no stale cache,  *)
(* no failed lock and no node image release deleted and made again has it  *)
(* reported ready with nothing imported.                                   *)
THEOREM ReadyHasAnImage ==
  Spec /\ [][ImportedStay]_vars
    => [](\A c \in Clusters : cStored[c].ready => SomeImported(c))
<1>1. ImportInv => \A c \in Clusters : cStored[c].ready => SomeImported(c)
  BY DEF ImportInv, ClusterVersionsGood, C!VersionsIn, GoodCluster
<1> QED
  BY <1>1, ImportInvariant, PTL

(* So a release that needs one node image has it imported when it is       *)
(* reported ready.                                                         *)
THEOREM ReadyIsImported ==
  ASSUME \A c \in Clusters : \A i, j \in C!Needed(c) : i = j
  PROVE  Spec /\ [][ImportedStay]_vars => []ReadyMeansImported
<1>1. (\A c \in Clusters : cStored[c].ready => SomeImported(c))
        => ReadyMeansImported
  BY DEF SomeImported, ReadyMeansImported
<1> QED
  BY <1>1, ReadyHasAnImage, PTL
=============================================================================
