---------------------- MODULE ClusterStackReleaseProofs ----------------------
(* Proofs about ClusterStackRelease, for every value of its constants.     *)
EXTENDS ClusterStackRelease, SequenceTheorems, TLAPS

-----------------------------------------------------------------------------
(* The condition operators stay within the type of conditions.             *)

Conds == [Types -> Condition]

(* The condition types of a cluster stack release, spelled out.            *)
LEMMA TypesAre ==
  Types = {"AssetsClientAPIAvailable", "ClusterStackReleaseAssetsReady",
           "OpenStackNodeImageReleasesReady", "Ready"}
<1>1. DOMAIN Kinds = {1, 2, 3}
  BY DEF Kinds
<1> QED
  BY <1>1 DEF Types, Kinds

(* A non-empty group of conditions has a first member.                     *)
LEMMA FirstInGroup ==
  ASSUME NEW S \in SUBSET {1, 2, 3}, S # {}
  PROVE  First(S) \in S
<1>1. \E i \in S : \A j \in S : i <= j
  <2>1. CASE 1 \in S
    BY <2>1
  <2>2. CASE 1 \notin S /\ 2 \in S
    BY <2>2
  <2>3. CASE 1 \notin S /\ 2 \notin S
    <3>1. 3 \in S /\ \A j \in S : j = 3
      BY <2>3
    <3> QED
      BY <3>1
  <2> QED
    BY <2>1, <2>2, <2>3
<1> QED
  BY <1>1 DEF First

LEMMA SetType ==
  ASSUME NEW c \in Conds, NEW t \in Types, NEW s \in States, NEW n \in Int
  PROVE  Set(c, t, s, n) \in Conds
BY DEF Set, Conds, Condition

LEMMA SetSummaryType ==
  ASSUME NEW c \in Conds, NEW n \in Int
  PROVE  SetSummary(c, n) \in Conds
<1>1. DOMAIN Kinds = {1, 2, 3} /\ \A i \in {1, 2, 3} : Kinds[i] \in Types
  BY TypesAre DEF Kinds
<1>2. ASSUME NEW G, InGroup(c, G) # {}
      PROVE  c[Kinds[First(InGroup(c, G))]].state \in States
  <2>1. InGroup(c, G) \in SUBSET {1, 2, 3}
    BY <1>1 DEF InGroup
  <2>2. First(InGroup(c, G)) \in {1, 2, 3}
    BY <1>2, <2>1, FirstInGroup
  <2> QED
    BY <1>1, <2>2 DEF Conds, Condition
<1>3. "Ready" \in Types /\ "True" \in States
  BY DEF Types, States
<1>4. SummaryState(c) \in States
  BY <1>2, <1>3 DEF SummaryState, Conds, Condition
<1> QED
  BY <1>3, <1>4, SetType DEF SetSummary

LEMMA ApplyType ==
  ASSUME NEW l \in Conds, NEW b \in Conds, NEW a \in Conds, NEW n \in Int
  PROVE  Apply(l, b, a, n) \in Conds
BY DEF Apply, Conds, Condition

-----------------------------------------------------------------------------
(* Lemmas on what the actions share.                                       *)

LEMMA ObjectTypes ==
  /\ NoObject \in Object
  /\ \A b \in BOOLEAN, m \in Nat : Blank(b, m) \in Object
  /\ Object = [exists : BOOLEAN, meta : Nat, ready : BOOLEAN, conds : Conds]
<1>1. NoConditions \in Conds
  BY DEF Conds, NoConditions, Absent, Condition, States
<1> QED
  BY <1>1 DEF Object, NoObject, Blank, Conds

(* Setting a condition gives a well-typed object, and keeps the UID.       *)
LEMMA MarkTypes ==
  ASSUME TypeOK, NEW o \in Object, NEW t \in Types
  PROVE  /\ True(o, t) \in Object /\ True(o, t).meta = o.meta
         /\ \A s \in States : /\ False(o, t, s) \in Object
                              /\ False(o, t, s).meta = o.meta
<1>1. o.conds \in Conds /\ now \in Int
  BY ObjectTypes DEF TypeOK, ReconcilerTypeOK
<1>2. MarkTrue(o.conds, t, now) \in Conds
  BY <1>1, SetType DEF MarkTrue, States
<1>3. \A s \in States : MarkFalse(o.conds, t, s, now) \in Conds
  BY <1>1, SetType DEF MarkFalse
<1> QED
  BY <1>2, <1>3, ObjectTypes DEF True, False

(* What Reconcile makes of its copy of the object.                         *)
LEMMA CopyType ==
  ASSUME TypeOK, NEW o \in Object, o.meta = obj.meta,
         \/ \E res \in Results : Return(o, res)
         \/ \E label \in PCs : Goto(label, o)
  PROVE  obj' \in Object /\ obj'.meta = obj.meta
<1>1. SetSummary(o.conds, now) \in Conds
  BY SetSummaryType, ObjectTypes DEF TypeOK, ReconcilerTypeOK
<1>2. [o EXCEPT !.conds = SetSummary(@, now)] \in Object
  BY <1>1, ObjectTypes
<1>3. [o EXCEPT !.conds = SetSummary(@, now)].meta = o.meta
  BY ObjectTypes
<1> QED
  BY <1>2, <1>3 DEF Return, Goto

LEMMA WriteType ==
  ASSUME TypeOK, NEW c \in Clusters, NEW o \in Object, Write(c, o)
  PROVE  /\ stored' \in [Clusters -> Object]
         /\ feed' \in [Clusters -> Seq(Object)]
         /\ cache' \in [Clusters -> Object]
<1>1. Append(feed[c], o) \in Seq(Object)
  BY AppendProperties DEF TypeOK, ReconcilerTypeOK
<1> QED
  BY <1>1 DEF Write, TypeOK, ReconcilerTypeOK

LEMMA NodeImageReleaseTypes ==
  /\ NoNodeImageRelease \in NodeImageRelease
  /\ NoOwners \in OwnerReferences
BY ClustersAssumption DEF NoNodeImageRelease, NodeImageRelease, OwnerReferences,
                          NoOwners

LEMMA WriteNodeImageReleaseType ==
  ASSUME TypeOK, NEW i \in NodeImages, NEW n \in NodeImageRelease,
         WriteNodeImageRelease(i, n)
  PROVE  /\ nirs' \in [NodeImages -> NodeImageRelease]
         /\ nirFeed' \in [NodeImages -> Seq(NodeImageRelease)]
         /\ nirCache' \in [NodeImages -> NodeImageRelease]
<1>1. Append(nirFeed[i], n) \in Seq(NodeImageRelease)
  BY AppendProperties DEF TypeOK
<1> QED
  BY <1>1 DEF WriteNodeImageRelease, TypeOK

-----------------------------------------------------------------------------
(* Type correctness.  This controller does not panic, and it looks for the *)
(* next node image only while there is one.                                *)
TypeInv == TypeOK /\ result # "panic" /\ (pc = "ensure" => todo # <<>>)

Answers == Results \ {"panic"}

NodeImageReleasesTyped ==
  /\ nirs \in [NodeImages -> NodeImageRelease]
  /\ nirFeed \in [NodeImages -> Seq(NodeImageRelease)]
  /\ nirCache \in [NodeImages -> NodeImageRelease]

(* A step of Reconcile before the deferred patch is type correct if it     *)
(* leaves its own variables so.                                            *)
LEMMA LocalStepType ==
  ASSUME TypeInv, NEW o \in Object, o.meta = obj.meta,
         \/ \E res \in Answers : Return(o, res)
         \/ \E label \in PCs : Goto(label, o) /\ (label = "ensure" => todo' # <<>>),
         NodeImageReleasesTyped', dirs' \in [Clusters -> Dirs],
         todo' \in Seq(NodeImages), Fault \/ NoFault
  PROVE  TypeInv' /\ obj'.meta = obj.meta
<1>1. obj' \in Object /\ obj'.meta = obj.meta
  BY CopyType DEF TypeInv, Answers
<1>2. faults' \in Nat
  BY DEF Fault, NoFault, TypeInv, TypeOK, ReconcilerTypeOK
<1>3. /\ pc' \in PCs /\ result' \in Answers
      /\ pc' = "ensure" => todo' # <<>>
  BY DEF Return, Goto, TypeInv, TypeOK, ReconcilerTypeOK, PCs, Answers
<1>4. UNCHANGED <<stored, feed, cache, queued, delayed, cur, before, now>>
  BY DEF Return, Goto, apiVars, queueVars
<1> QED
  BY <1>1, <1>2, <1>3, <1>4 DEF TypeInv, TypeOK, ReconcilerTypeOK,
     NodeImageReleasesTyped, Answers

(* Making sure of a node image release is type correct.                    *)
LEMMA EnsuredType ==
  ASSUME TypeOK, NEW i \in NodeImages, Ensured(i)
  PROVE  NodeImageReleasesTyped'
<1>1. cur \in Clusters /\ obj.meta \in Nat
  BY ObjectTypes DEF TypeOK, ReconcilerTypeOK
<1>2. CASE EnsureOwner(i)
  <2>1. [nirCache[i].meta EXCEPT ![cur] = obj.meta] \in OwnerReferences
    BY <1>1 DEF TypeOK, NodeImageRelease, OwnerReferences
  <2>2. [nirs[i] EXCEPT !.meta = [nirCache[i].meta EXCEPT ![cur] = obj.meta]]
          \in NodeImageRelease
    BY <2>1 DEF TypeOK, NodeImageRelease
  <2> QED
    BY <1>2, <2>2, WriteNodeImageReleaseType DEF EnsureOwner, NodeImageReleasesTyped
<1>3. CASE CreateNodeImageRelease(i)
  <2>1. [NoNodeImageRelease EXCEPT !.exists = TRUE, !.meta[cur] = obj.meta]
          \in NodeImageRelease
    <3>1. [NoOwners EXCEPT ![cur] = obj.meta] \in OwnerReferences
      BY <1>1 DEF NoOwners, OwnerReferences
    <3> QED
      BY <3>1, ClustersAssumption DEF NoNodeImageRelease, NodeImageRelease
  <2> QED
    BY <1>3, <2>1, WriteNodeImageReleaseType
       DEF CreateNodeImageRelease, NodeImageReleasesTyped
<1> QED
  BY <1>2, <1>3 DEF Ensured

(* The states this controller gives to conditions are known ones.          *)
LEMMA ReasonsKnown ==
  {"True", "ReleaseAssetsNotDownloadedYet", "IssueWithReleaseAssets",
   "FailedCreateAssetsClient", "ProcessOngoing"} \subseteq States
BY DEF States, Errors, Infos

(* Every step of Reconcile before the deferred patch is type correct, and  *)
(* keeps the UID of its copy.                                              *)
LEMMA ReconcileType ==
  ASSUME TypeInv, Calls
  PROVE  TypeInv' /\ obj'.meta = obj.meta
<1>1. /\ obj \in Object /\ NodeImageReleasesTyped /\ cur \in Clusters
      /\ dirs \in [Clusters -> Dirs] /\ todo \in Seq(NodeImages)
  BY DEF TypeInv, TypeOK, ReconcilerTypeOK, NodeImageReleasesTyped
<1>2. \A t \in Types : /\ True(obj, t) \in Object /\ True(obj, t).meta = obj.meta
                       /\ \A s \in States : /\ False(obj, t, s) \in Object
                                            /\ False(obj, t, s).meta = obj.meta
  BY <1>1, MarkTypes DEF TypeInv
<1>3. \A o \in Object, b \in BOOLEAN :
        [o EXCEPT !.ready = b] \in Object /\ [o EXCEPT !.ready = b].meta = o.meta
  BY DEF Object
<1>4. {"done", "requeue", "after", "error"} \subseteq Answers
  BY DEF Answers, Results
<1>5. UNCHANGED nirVars => NodeImageReleasesTyped'
  BY <1>1 DEF nirVars, NodeImageReleasesTyped
<1>6. \A S \in SUBSET Dirs : DirBecomes(S) => /\ dirs' \in [Clusters -> Dirs]
                                             /\ UNCHANGED <<nirVars, todo>>
  BY <1>1 DEF DirBecomes
<1>7. CASE \/ AssetsMissing \/ AssetsPresent \/ NewAssetsClient
  BY <1>7, <1>1, <1>2, <1>5, TypesAre, ReasonsKnown, LocalStepType
     DEF AssetsMissing, AssetsPresent, NewAssetsClient, ownVars, PCs
<1>8. CASE AssetsUnusable \/ NewAssetsClientFails \/ GetNodeImagesFails
  BY <1>8, <1>1, <1>2, <1>4, <1>5, TypesAre, ReasonsKnown, LocalStepType
     DEF AssetsUnusable, NewAssetsClientFails, GetNodeImagesFails, ownVars
<1>9. CASE Download
  <2>1. {"complete"} \in SUBSET Dirs
    BY DEF Dirs
  <2> QED
    BY <1>9, <1>1, <1>4, <1>5, <1>6, <2>1, LocalStepType DEF Download
<1>10. CASE DownloadFails
  BY <1>10, <1>1, <1>4, <1>5, <1>6, LocalStepType DEF DownloadFails
<1>11. CASE GetNodeImages
  <2>1. Needs[cur] \in Seq(NodeImages)
    BY <1>1, ClustersAssumption
  <2> QED
    BY <1>11, <1>1, <1>5, <2>1, LocalStepType DEF GetNodeImages, PCs
<1>12. CASE CreateOrUpdate
  <2>1. todo # <<>>
    BY <1>12 DEF CreateOrUpdate, TypeInv
  <2>2. Head(todo) \in NodeImages /\ Tail(todo) \in Seq(NodeImages)
    BY <1>1, <2>1, HeadTailProperties
  <2>3. NodeImageReleasesTyped'
    BY <1>12, <2>2, EnsuredType DEF CreateOrUpdate, TypeInv
  <2> QED
    BY <1>12, <1>1, <2>2, <2>3, LocalStepType DEF CreateOrUpdate, PCs
<1>13. CASE CreateOrUpdateFails
  <2>1. Head(todo) \in NodeImages
    BY <1>13, <1>1, HeadTailProperties DEF CreateOrUpdateFails, TypeInv
  <2>2. NodeImageReleasesTyped' /\ (Fault \/ NoFault)
    BY <1>13, <1>5, <2>1, EnsuredType DEF CreateOrUpdateFails, TypeInv
  <2>3. <<>> \in Seq(NodeImages)
    BY EmptySeq
  <2> QED
    BY <1>13, <1>1, <1>4, <2>2, <2>3, LocalStepType DEF CreateOrUpdateFails
<1>14. CASE NotReadyYet \/ AllReady
  BY <1>14, <1>1, <1>2, <1>3, <1>4, <1>5, TypesAre, ReasonsKnown, LocalStepType
     DEF NotReadyYet, AllReady, ownVars
<1> QED
  BY <1>7, <1>8, <1>9, <1>10, <1>11, <1>12, <1>13, <1>14 DEF Calls

LEMMA FinishType ==
  ASSUME TypeInv, NEW res, Finish(res)
  PROVE  /\ delayed' \subseteq Clusters /\ queued' \subseteq Clusters
         /\ pc' = "idle" /\ cur' \in Clusters /\ before' \in Object
         /\ obj' \in Object /\ result' = "done" /\ now' \in Nat
BY ObjectTypes DEF TypeInv, TypeOK, ReconcilerTypeOK, Finish, Forget

(* What the deferred patch may write; it keeps the UID.                    *)
LEMMA PatchWrites ==
  ASSUME TypeOK
  PROVE  /\ Merged \in Object /\ Merged.meta = cache[cur].meta
         /\ Merged.ready = cache[cur].ready
         /\ WriteReady => \E o \in Object : /\ Write(cur, o)
                                           /\ o.meta = stored[cur].meta
<1>1. cur \in Clusters /\ cache[cur] \in Object /\ stored[cur] \in Object
      /\ obj \in Object /\ before \in Object /\ now \in Int
  BY DEF TypeOK, ReconcilerTypeOK
<1>2. /\ Merged \in Object /\ Merged.meta = cache[cur].meta
      /\ Merged.ready = cache[cur].ready
  <2>1. Apply(cache[cur].conds, before.conds, obj.conds, now) \in Conds
    BY <1>1, ApplyType, ObjectTypes
  <2> QED
    BY <1>1, <2>1, ObjectTypes DEF Merged
<1>3. /\ [stored[cur] EXCEPT !.ready = obj.ready] \in Object
      /\ [stored[cur] EXCEPT !.ready = obj.ready].meta = stored[cur].meta
  BY <1>1 DEF Object
<1> QED
  BY <1>1, <1>2, <1>3 DEF WriteReady

LEMMA PatchType ==
  ASSUME TypeInv, Patch, UNCHANGED ownVars
  PROVE  TypeInv'
<1> USE DEF ReconcilerTypeOK
<1>1. cur \in Clusters /\ TypeOK
  BY DEF TypeInv, TypeOK
<1>2. ASSUME UNCHANGED apiVars \/ Write(cur, Merged) \/ WriteReady
      PROVE  /\ stored' \in [Clusters -> Object]
             /\ feed' \in [Clusters -> Seq(Object)]
             /\ cache' \in [Clusters -> Object]
  BY <1>1, <1>2, PatchWrites, WriteType DEF apiVars, TypeOK
<1>3. Fault \/ NoFault => faults' \in Nat
  BY <1>1 DEF TypeOK, Fault, NoFault
<1>4. CASE PatchConditionsZero \/ PatchConditions \/ PatchConditionsFails
  <2>1. ConditionsDone(result) \/ ConditionsDone("error")
    BY <1>4 DEF PatchConditionsZero, PatchConditions, PatchConditionsFails
  <2>2. /\ Fault \/ NoFault
        /\ UNCHANGED apiVars \/ Write(cur, Merged)
    BY <1>4 DEF PatchConditionsZero, PatchConditions, PatchConditionsFails
  <2>3. pc' = "status" /\ result' \in Answers
    BY <2>1 DEF ConditionsDone, TypeInv, TypeOK, Answers, Results
  <2> QED
    BY <1>1, <1>2, <1>3, <2>1, <2>2, <2>3
       DEF TypeInv, TypeOK, ConditionsDone, PCs, queueVars, ownVars, nirVars, Answers
<1>5. CASE PatchStatusZero \/ PatchStatus \/ PatchStatusFails
  <2>1. \E res : Finish(res)
    BY <1>5 DEF PatchStatusZero, PatchStatus, PatchStatusFails
  <2>2. /\ Fault \/ NoFault
        /\ UNCHANGED apiVars \/ WriteReady
    BY <1>5 DEF PatchStatusZero, PatchStatus, PatchStatusFails
  <2> QED
    BY <1>1, <1>2, <1>3, <2>1, <2>2, FinishType
       DEF TypeInv, TypeOK, PCs, Results, ownVars, nirVars
<1> QED
  BY <1>4, <1>5 DEF Patch

(* The watch, timers, resync, and whoever creates and deletes the objects. *)
LEMMA RuntimeType ==
  ASSUME TypeInv, Runtime
  PROVE  TypeInv'
<1>0. UNCHANGED ownVars
  BY DEF Runtime
<1> USE DEF TypeInv, TypeOK, ReconcilerTypeOK, apiVars, queueVars, workerVars,
            NoFault, ownVars, nirVars
<1>1. CASE Resync
  BY <1>0, <1>1 DEF Resync
<1>2. ASSUME NEW c \in Clusters,
             \/ TimerFires(c) \/ ReconcileMissing(c) \/ ReconcileStart(c, "new")
      PROVE  TypeInv'
  BY <1>0, <1>2 DEF TimerFires, ReconcileMissing, ReconcileStart, PCs
<1>3. ASSUME NEW c \in Clusters, Deliver(c)
      PROVE  TypeInv'
  <2>1. Head(feed[c]) \in Object /\ Tail(feed[c]) \in Seq(Object)
    BY <1>3, HeadTailProperties DEF Deliver
  <2> QED
    BY <1>0, <1>3, <2>1 DEF Deliver
<1>4. ASSUME NEW c \in Clusters,
             CreateObject(c, stored[c].meta + 1) \/ DeleteObject(c)
      PROVE  TypeInv'
  <2>1. stored[c].meta \in Nat /\ stored[c].meta + 1 \in Nat
    BY ObjectTypes
  <2>2. \E o \in Object : Write(c, o)
    BY <1>4, <2>1, ObjectTypes DEF CreateObject, DeleteObject, NewObject
  <2>3. /\ stored' \in [Clusters -> Object]
        /\ feed' \in [Clusters -> Seq(Object)]
        /\ cache' \in [Clusters -> Object]
    BY <2>2, WriteType
  <2>4. UNCHANGED <<queueVars, workerVars, now>>
    BY <1>4 DEF CreateObject, DeleteObject
  <2>5. (UNCHANGED faults) \/ Fault
    BY <1>4 DEF CreateObject, DeleteObject
  <2>6. faults' \in Nat
    BY <2>5 DEF Fault
  <2> QED
    BY <1>0, <2>3, <2>4, <2>6
<1> QED
  BY <1>1, <1>2, <1>3, <1>4 DEF Runtime

LEMMA RestartType ==
  ASSUME TypeInv, Fault \/ NoFault, Restart
  PROVE  TypeInv'
<1>1. dirs' \in [Clusters -> Dirs]
  BY DEF Restart, Dirs, TypeInv, TypeOK
<1>2. /\ nirFeed' \in [NodeImages -> Seq(NodeImageRelease)]
      /\ feed' \in [Clusters -> Seq(Object)]
      /\ todo' \in Seq(NodeImages)
  BY EmptySeq DEF Restart, StartAgain
<1> QED
  BY <1>1, <1>2, ObjectTypes DEF Restart, StartAgain, Forget, Fault, NoFault, TypeInv,
     TypeOK, ReconcilerTypeOK, PCs, Results

LEMMA NodeImageReleasesType ==
  ASSUME TypeInv, NodeImageReleases
  PROVE  TypeInv'
<1>1. PICK i \in NodeImages :
        \/ BecomesReady(i) \/ BecomesNotReady(i) \/ DeleteNodeImageRelease(i)
        \/ CollectGarbage(i) \/ DeliverNodeImageRelease(i)
  BY DEF NodeImageReleases
<1>2. nirs[i] \in NodeImageRelease /\ nirs[i].meta \in OwnerReferences
  BY DEF TypeInv, TypeOK, NodeImageRelease
<1> SUFFICES NodeImageReleasesTyped'
  <2>1. UNCHANGED <<runtimeVars, dirs, todo, now>>
    BY DEF NodeImageReleases, Elsewhere
  <2>2. faults' \in Nat
    BY <1>1 DEF BecomesReady, BecomesNotReady, DeleteNodeImageRelease,
                CollectGarbage, DeliverNodeImageRelease, Fault, NoFault,
                TypeInv, TypeOK, ReconcilerTypeOK
  <2> QED
    BY <2>1, <2>2 DEF runtimeVars, NodeImageReleasesTyped, TypeInv, TypeOK,
                      ReconcilerTypeOK
<1>3. CASE ~DeliverNodeImageRelease(i)
  <2>1. \A b \in BOOLEAN : [nirs[i] EXCEPT !.ready = b] \in NodeImageRelease
    BY <1>2 DEF NodeImageRelease
  <2>2. [nirs[i] EXCEPT !.meta = [c \in Clusters |-> IF c \in Solid(i) THEN @[c] ELSE 0]]
          \in NodeImageRelease
    <3>1. [c \in Clusters |-> IF c \in Solid(i) THEN nirs[i].meta[c] ELSE 0]
            \in OwnerReferences
      BY <1>2 DEF OwnerReferences
    <3> QED
      BY <1>2, <3>1 DEF NodeImageRelease
  <2>3. \E n \in NodeImageRelease : WriteNodeImageRelease(i, n)
    BY <1>1, <1>3, <2>1, <2>2, NodeImageReleaseTypes
       DEF BecomesReady, BecomesNotReady, DeleteNodeImageRelease, CollectGarbage
  <2> QED
    BY <2>3, WriteNodeImageReleaseType DEF TypeInv, NodeImageReleasesTyped
<1>4. CASE DeliverNodeImageRelease(i)
  <2>1. /\ Head(nirFeed[i]) \in NodeImageRelease
        /\ Tail(nirFeed[i]) \in Seq(NodeImageRelease)
    BY <1>4, HeadTailProperties DEF DeliverNodeImageRelease, TypeInv, TypeOK
  <2> QED
    BY <1>4, <2>1 DEF DeliverNodeImageRelease, TypeInv, TypeOK,
                      NodeImageReleasesTyped
<1> QED
  BY <1>3, <1>4

LEMMA TypeStep ==
  ASSUME TypeInv, [Next]_vars
  PROVE  TypeInv'
<1>1. CASE Worker
  BY <1>1, ReconcileType, PatchType DEF Worker
<1>2. CASE Runtime
  BY <1>2, RuntimeType
<1>3. CASE Fault /\ Restart
  BY <1>3, RestartType
<1>4. CASE NodeImageReleases
  BY <1>4, NodeImageReleasesType
<1>5. CASE UNCHANGED vars
  BY <1>5 DEF TypeInv, TypeOK, ReconcilerTypeOK, vars, runtimeVars, ownVars, nirVars
<1> QED
  BY <1>1, <1>2, <1>3, <1>4, <1>5 DEF Next

LEMMA TypeInit ==
  ASSUME Init
  PROVE  TypeInv
BY ObjectTypes, NodeImageReleaseTypes, ClustersAssumption, EmptySeq
   DEF Init, ReconcilerInit, TypeInv, TypeOK, ReconcilerTypeOK, PCs, Results, Dirs

LEMMA TypeInvariant == Spec => []TypeInv
BY TypeInit, TypeStep, PTL DEF Spec

(* Every step of the cluster stack release controller, of the node image   *)
(* releases' controller, the garbage collector and people keeps every      *)
(* variable within its type.                                               *)
THEOREM TypeCorrect == Spec => []TypeOK
<1>1. TypeInv => TypeOK
  BY DEF TypeInv
<1> QED
  BY <1>1, TypeInvariant, PTL

-----------------------------------------------------------------------------
(* The versions of a release: what is stored, what the watch has still to  *)
(* deliver, and what the cache holds.                                      *)

VersionsIn(c, S) == stored[c] \in S /\ cache[c] \in S /\ feed[c] \in Seq(S)

LEMMA VersionsInMore ==
  ASSUME NEW c, NEW S, NEW T, VersionsIn(c, S), S \subseteq T
  PROVE  VersionsIn(c, T)
BY SeqMonotonic DEF VersionsIn

(* A write adds one version.                                               *)
LEMMA WriteVersions ==
  ASSUME TypeOK, NEW w \in Clusters, NEW o, Write(w, o),
         NEW c \in Clusters, NEW S, VersionsIn(c, S), w = c => o \in S
  PROVE  VersionsIn(c, S)'
<1>1. w = c => Append(feed[c], o) \in Seq(S)
  BY AppendProperties DEF VersionsIn
<1> QED
  BY <1>1 DEF VersionsIn, Write, TypeOK, ReconcilerTypeOK

(* The deferred patch adds the merged conditions and the changed readiness.*)
LEMMA PatchVersions ==
  ASSUME TypeOK, Patch, NEW c \in Clusters, NEW S, VersionsIn(c, S),
         cur = c => Merged \in S,
         cur = c /\ obj.ready # before.ready =>
           [stored[c] EXCEPT !.ready = obj.ready] \in S
  PROVE  VersionsIn(c, S)'
<1>1. CASE UNCHANGED apiVars
  BY <1>1 DEF apiVars, VersionsIn
<1>2. CASE Write(cur, Merged)
  BY <1>2, WriteVersions DEF TypeOK, ReconcilerTypeOK
<1>3. CASE WriteReady
  <2>1. cur \in Clusters
    BY DEF TypeOK, ReconcilerTypeOK
  <2>2. CASE obj.ready = before.ready
    BY <1>3, <2>1, <2>2, WriteVersions DEF WriteReady, VersionsIn
  <2>3. CASE obj.ready # before.ready
    BY <1>3, <2>1, <2>3, WriteVersions DEF WriteReady
  <2> QED
    BY <2>2, <2>3
<1> QED
  BY <1>1, <1>2, <1>3 DEF Patch, PatchConditionsZero, PatchConditions,
     PatchConditionsFails, PatchStatusZero, PatchStatus, PatchStatusFails

(* Others add new objects and the traces of deleted ones; the watch and a  *)
(* restart of the manager add none.                                        *)
LEMMA RuntimeVersions ==
  ASSUME TypeOK, Runtime, NEW c \in Clusters, NEW S, VersionsIn(c, S),
         \A b \in BOOLEAN, m \in Nat : Blank(b, m) \in S
  PROVE  VersionsIn(c, S)'
<1>1. ASSUME NEW w \in Clusters, Deliver(w)
      PROVE  VersionsIn(c, S)'
  <2>1. feed[c] # <<>> => Head(feed[c]) \in S /\ Tail(feed[c]) \in Seq(S)
    BY HeadTailProperties DEF VersionsIn
  <2> QED
    BY <1>1, <2>1 DEF VersionsIn, Deliver, TypeOK, ReconcilerTypeOK
<1>2. ASSUME NEW w \in Clusters,
             CreateObject(w, stored[w].meta + 1) \/ DeleteObject(w)
      PROVE  VersionsIn(c, S)'
  <2>1. stored[w].meta \in Nat /\ stored[w].meta + 1 \in Nat
    BY ObjectTypes DEF TypeOK, ReconcilerTypeOK
  <2> QED
    BY <1>2, <2>1, WriteVersions DEF CreateObject, NewObject, DeleteObject
<1>3. CASE UNCHANGED apiVars
  BY <1>3 DEF apiVars, VersionsIn
<1> QED
  BY <1>1, <1>2, <1>3 DEF Runtime, TimerFires, ReconcileMissing, ReconcileStart,
     Resync

LEMMA RestartVersions ==
  ASSUME TypeOK, StartAgain, NEW c \in Clusters, NEW S, VersionsIn(c, S)
  PROVE  VersionsIn(c, S)'
BY EmptySeq DEF VersionsIn, StartAgain, TypeOK, ReconcilerTypeOK

(* Reconcile's copy becomes ready on nothing but owned node image releases *)
(* that are all ready in the cache.                                        *)
LEMMA ReadyCopy ==
  ASSUME TypeInv, Calls
  PROVE  /\ UNCHANGED cur
         /\ obj'.ready => \/ obj.ready
                          \/ Owned # {} /\ \A i \in Owned : nirCache[i].ready
<1>1. obj \in Object
  BY DEF TypeInv, TypeOK, ReconcilerTypeOK
<1>2. \A o \in Object, t \in Types :
        /\ True(o, t) \in Object /\ True(o, t).ready = o.ready
        /\ \A s \in States : False(o, t, s) \in Object /\ False(o, t, s).ready = o.ready
  BY MarkTypes, ObjectTypes DEF True, False, TypeInv
<1>3. \A o \in Object, b \in BOOLEAN :
        [o EXCEPT !.ready = b] \in Object /\ [o EXCEPT !.ready = b].ready = b
  BY DEF Object
<1>4. \A o \in Object :
        /\ \A res : Return(o, res) => obj'.ready = o.ready /\ UNCHANGED cur
        /\ \A label : Goto(label, o) => obj'.ready = o.ready /\ UNCHANGED cur
  BY DEF Return, Goto, Object
<1>5. CASE AllReady
  BY <1>1, <1>2, <1>3, <1>4, <1>5, TypesAre, ReasonsKnown DEF AllReady
<1>6. CASE \/ AssetsMissing \/ AssetsPresent \/ AssetsUnusable \/ NewAssetsClient
           \/ NewAssetsClientFails
  <2>1. PICK o \in Object : /\ o.ready = obj.ready
                            /\ \/ \E res : Return(o, res)
                               \/ \E label : Goto(label, o)
    <3>1. CASE AssetsMissing
      <4>1. Goto("client", False(obj, "ClusterStackReleaseAssetsReady",
                                 "ReleaseAssetsNotDownloadedYet"))
        BY <3>1 DEF AssetsMissing
      <4> QED
        BY <1>1, <1>2, <4>1, TypesAre, ReasonsKnown
    <3>2. CASE AssetsPresent
      <4>1. Goto("nodes", True(obj, "ClusterStackReleaseAssetsReady"))
        BY <3>2 DEF AssetsPresent
      <4> QED
        BY <1>1, <1>2, <4>1, TypesAre
    <3>3. CASE AssetsUnusable
      <4>1. Return(False(obj, "ClusterStackReleaseAssetsReady",
                         "IssueWithReleaseAssets"), "after")
        BY <3>3 DEF AssetsUnusable
      <4> QED
        BY <1>1, <1>2, <4>1, TypesAre, ReasonsKnown
    <3>4. CASE NewAssetsClient
      <4>1. Goto("download", True(obj, "AssetsClientAPIAvailable"))
        BY <3>4 DEF NewAssetsClient
      <4> QED
        BY <1>1, <1>2, <4>1, TypesAre
    <3>5. CASE NewAssetsClientFails
      <4>1. Return(False(obj, "AssetsClientAPIAvailable",
                         "FailedCreateAssetsClient"), "done")
        BY <3>5 DEF NewAssetsClientFails
      <4> QED
        BY <1>1, <1>2, <4>1, TypesAre, ReasonsKnown
    <3> QED
      BY <1>6, <3>1, <3>2, <3>3, <3>4, <3>5
  <2> QED
    BY <1>4, <2>1
<1>7. CASE \/ Download \/ DownloadFails \/ GetNodeImages \/ GetNodeImagesFails
           \/ CreateOrUpdate \/ CreateOrUpdateFails
  BY <1>1, <1>4, <1>7
     DEF Download, DownloadFails, GetNodeImages, GetNodeImagesFails,
     CreateOrUpdate, CreateOrUpdateFails
<1>8. CASE NotReadyYet
  BY <1>1, <1>2, <1>3, <1>4, <1>8, TypesAre, ReasonsKnown DEF NotReadyYet
<1> QED
  BY <1>5, <1>6, <1>7, <1>8 DEF Calls
=============================================================================
