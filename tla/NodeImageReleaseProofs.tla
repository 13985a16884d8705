----------------------- MODULE NodeImageReleaseProofs -----------------------
(* Proofs about NodeImageRelease, for every value of its constants.        *)
EXTENDS NodeImageRelease, SequenceTheorems, TLAPS

-----------------------------------------------------------------------------
(* The condition operators stay within the type of conditions.             *)

Conds == [Types -> Condition]

(* The condition types of a node image release, spelled out.               *)
LEMMA TypesAre ==
  Types = {"CloudAvailable", "OpenStackImageReady", "OpenStackImageImportStarted",
           "OpenStackImageServiceClientAvailable", "Ready"}
<1>1. DOMAIN Kinds = {1, 2, 3, 4}
  BY DEF Kinds
<1> QED
  BY <1>1 DEF Types, Kinds

(* A non-empty group of conditions has a first member.                     *)
LEMMA FirstInGroup ==
  ASSUME NEW S \in SUBSET {1, 2, 3, 4}, S # {}
  PROVE  First(S) \in S
<1>1. \E i \in S : \A j \in S : i <= j
  <2>1. CASE 1 \in S
    BY <2>1
  <2>2. CASE 1 \notin S /\ 2 \in S
    BY <2>2
  <2>3. CASE 1 \notin S /\ 2 \notin S /\ 3 \in S
    BY <2>3
  <2>4. CASE 1 \notin S /\ 2 \notin S /\ 3 \notin S
    <3>1. 4 \in S /\ \A j \in S : j = 4
      BY <2>4
    <3> QED
      BY <3>1
  <2> QED
    BY <2>1, <2>2, <2>3, <2>4
<1> QED
  BY <1>1 DEF First

(* Setting a condition of a known type to a known state is well typed.     *)
LEMMA SetType ==
  ASSUME NEW c \in Conds, NEW t \in Types, NEW s \in States, NEW n \in Int
  PROVE  Set(c, t, s, n) \in Conds
BY DEF Set, Conds, Condition

(* The summary of well-typed conditions is a known state.                  *)
LEMMA SummaryStateType ==
  ASSUME NEW c \in Conds
  PROVE  SummaryState(c) \in States
<1>1. DOMAIN Kinds = {1, 2, 3, 4} /\ \A i \in {1, 2, 3, 4} : Kinds[i] \in Types
  BY TypesAre DEF Kinds
<1>2. ASSUME NEW G, InGroup(c, G) # {}
      PROVE  c[Kinds[First(InGroup(c, G))]].state \in States
  <2>1. InGroup(c, G) \in SUBSET {1, 2, 3, 4}
    BY <1>1 DEF InGroup
  <2>2. First(InGroup(c, G)) \in {1, 2, 3, 4}
    BY <1>2, <2>1, FirstInGroup
  <2> QED
    BY <1>1, <2>2 DEF Conds, Condition
<1>3. "Ready" \in Types /\ "True" \in States
  BY DEF Types, States
<1> QED
  BY <1>2, <1>3 DEF SummaryState, Conds, Condition

LEMMA SetSummaryType ==
  ASSUME NEW c \in Conds, NEW n \in Int
  PROVE  SetSummary(c, n) \in Conds
BY SummaryStateType, SetType DEF SetSummary, Types

LEMMA ApplyType ==
  ASSUME NEW l \in Conds, NEW b \in Conds, NEW a \in Conds, NEW n \in Int
  PROVE  Apply(l, b, a, n) \in Conds
BY DEF Apply, Conds, Condition

-----------------------------------------------------------------------------
(* Lemmas on what the actions share.                                       *)

LEMMA ObjectTypes ==
  /\ NoObject \in Object
  /\ \A b \in BOOLEAN, m \in Owners : Blank(b, m) \in Object
  /\ Object = [exists : BOOLEAN, meta : Owners, ready : BOOLEAN, conds : Conds]
<1>1. NoConditions \in Conds
  BY DEF Conds, NoConditions, Absent, Condition, States
<1> QED
  BY <1>1, ConstantsAssumption DEF Object, NoObject, Blank, Conds

LEMMA ImageTypes ==
  /\ NoImage \in Image
  /\ \A r \in Releases : ImageOf[r] \in Names
BY ConstantsAssumption DEF NoImage, Image, Statuses, Waiting

(* True and False give well-typed objects.                                 *)
LEMMA MarkTypes ==
  ASSUME TypeOK, NEW o \in Object, NEW t \in Types
  PROVE  /\ True(o, t) \in Object
         /\ \A s \in States : False(o, t, s) \in Object
<1>1. o.conds \in Conds /\ now \in Int
  BY ObjectTypes DEF TypeOK, ReconcilerTypeOK
<1>2. MarkTrue(o.conds, t, now) \in Conds
  BY <1>1, SetType DEF MarkTrue, States
<1>3. \A s \in States : MarkFalse(o.conds, t, s, now) \in Conds
  BY <1>1, SetType DEF MarkFalse
<1> QED
  BY <1>2, <1>3, ObjectTypes DEF True, False

(* Returning from Reconcile keeps the worker's variables well typed.       *)
LEMMA ReturnType ==
  ASSUME TypeOK, NEW o \in Object, NEW res \in Results, Return(o, res)
  PROVE  obj' \in Object /\ pc' \in PCs /\ result' \in Results
<1>1. SetSummary(o.conds, now) \in Conds
  BY SetSummaryType, ObjectTypes DEF TypeOK, ReconcilerTypeOK
<1> QED
  BY <1>1, ObjectTypes DEF Return, PCs

(* A write leaves objects and undelivered versions well typed.             *)
LEMMA WriteType ==
  ASSUME TypeOK, NEW r \in Releases, NEW o \in Object, Write(r, o)
  PROVE  /\ stored' \in [Releases -> Object]
         /\ feed' \in [Releases -> Seq(Object)]
         /\ cache' \in [Releases -> Object]
<1>1. Append(feed[r], o) \in Seq(Object)
  BY AppendProperties DEF TypeOK, ReconcilerTypeOK
<1> QED
  BY <1>1 DEF Write, TypeOK, ReconcilerTypeOK

-----------------------------------------------------------------------------
(* Type correctness.                                                       *)

(* The states the controller gives to conditions are known ones.           *)
LEMMA ReasonsKnown ==
  {"True", "SecretNotFound", "CloudNotSet", "OpenStackImageServiceClientNotSet",
   "OpenStackImageImportTimeOut", "IssueWithOpenStackImage",
   "OpenStackImageNotCreatedYet", "OpenStackImageImportNotStart",
   "OpenStackImageNotImportedYet"} \subseteq States
BY DEF States, Errors, Infos

(* A step that leaves Reconcile, or goes on to its next call, is type      *)
(* correct if it does no harm to the images.                               *)
LEMMA LocalStepType ==
  ASSUME TypeOK, NEW o \in Object,
         \/ \E res \in Results : Return(o, res)
         \/ \E label \in PCs : Goto(label, o),
         images' \in [ImageIDs -> Image], imageID' \in 0..MaxImages,
         Fault \/ NoFault
  PROVE  TypeOK'
<1>1. obj' \in Object /\ pc' \in PCs /\ result' \in Results
  BY ReturnType DEF Goto, TypeOK, ReconcilerTypeOK
<1>2. faults' \in Nat
  BY DEF Fault, NoFault, TypeOK, ReconcilerTypeOK
<1> QED
  BY <1>1, <1>2 DEF TypeOK, ReconcilerTypeOK, Return, Goto, apiVars, queueVars

(* Creating an image and requesting an import keep the images well typed.  *)
LEMMA ImagesType ==
  ASSUME TypeOK
  PROVE  /\ \A i \in ImageIDs :
              [images EXCEPT ![i] = Created] \in [ImageIDs -> Image]
         /\ RequestImport(imageID) => images' \in [ImageIDs -> Image]
         /\ ImageIDs \subseteq 0..MaxImages
<1>1. Created \in Image
  BY ImageTypes DEF TypeOK, ReconcilerTypeOK, Created, Image, Statuses, Waiting
<1>2. RequestImport(imageID) => images' \in [ImageIDs -> Image]
  <2> SUFFICES ASSUME RequestImport(imageID)
               PROVE  images' \in [ImageIDs -> Image]
    OBVIOUS
  <2>1. CASE imageID \in ImageIDs
    <3>1. [images[imageID] EXCEPT !.status = "importing", !.imported = now] \in Image
      <4>1. images[imageID] \in Image /\ now \in Int /\ "importing" \in Statuses
        BY <2>1 DEF TypeOK, ReconcilerTypeOK, Statuses, Waiting
      <4> QED
        BY <4>1 DEF Image
    <3> QED
      BY <2>1, <3>1 DEF TypeOK, ReconcilerTypeOK, RequestImport
  <2>2. CASE imageID \notin ImageIDs
    BY <2>2 DEF TypeOK, ReconcilerTypeOK, RequestImport
  <2> QED
    BY <2>1, <2>2
<1> QED
  BY <1>1, <1>2, ConstantsAssumption DEF TypeOK, ReconcilerTypeOK, ImageIDs

(* Every step of Reconcile before the deferred patch is type correct.      *)
LEMMA ReconcileType ==
  ASSUME TypeOK, Calls
  PROVE  TypeOK'
<1>1. /\ obj \in Object /\ images \in [ImageIDs -> Image]
      /\ imageID \in 0..MaxImages
  BY DEF TypeOK, ReconcilerTypeOK
<1>2. \A o \in Object, t \in Types :
        /\ True(o, t) \in Object
        /\ \A s \in States : False(o, t, s) \in Object
  BY MarkTypes
<1>3. Issue(obj) \in Object
  BY <1>1, <1>2, TypesAre, ReasonsKnown DEF Issue
<1>4. \A o \in Object, b \in BOOLEAN : [o EXCEPT !.ready = b] \in Object
  BY DEF Object
<1>5. /\ {"secret", "client", "list", "create", "import", "get"} \subseteq PCs
      /\ {"done", "requeue", "after", "error", "panic"} \subseteq Results
  BY DEF PCs, Results
<1>6. CASE GetCloudFromSecret
  BY <1>6, <1>1, <1>2, <1>5, TypesAre, ReasonsKnown, LocalStepType
     DEF GetCloudFromSecret, ownVars
<1>7. CASE GetCloudFromSecretFails
  BY <1>7, <1>1, <1>2, <1>5, TypesAre, ReasonsKnown, LocalStepType
     DEF GetCloudFromSecretFails, ownVars
<1>8. CASE NewImageClient
  BY <1>8, <1>1, <1>2, <1>5, TypesAre, ReasonsKnown, LocalStepType
     DEF NewImageClient, ownVars
<1>9. CASE AuthenticateFails \/ ClientPanics
  BY <1>9, <1>1, <1>5, LocalStepType
     DEF AuthenticateFails, ClientPanics, ownVars
<1>10. CASE NewImageClientFails
  BY <1>10, <1>1, <1>2, <1>5, TypesAre, ReasonsKnown, LocalStepType
     DEF NewImageClientFails, ownVars
<1>11. CASE GetImageIDFound
  BY <1>11, <1>1, <1>5, ImagesType, LocalStepType
     DEF GetImageIDFound, ownVars, Found, Listed
<1>12. CASE GetImageIDNone
  BY <1>12, <1>1, <1>2, <1>4, <1>5, TypesAre, ReasonsKnown, LocalStepType
     DEF GetImageIDNone, ownVars
<1>13. CASE GetImageIDFails
  BY <1>13, <1>1, <1>3, <1>5, LocalStepType
     DEF GetImageIDFails, ownVars
<1>14. CASE CreateImage
  BY <1>14, <1>1, <1>5, ImagesType, LocalStepType
     DEF CreateImage, ownVars
<1>15. CASE CreateImageFails
  BY <1>15, <1>1, <1>3, <1>5, ImagesType, LocalStepType
     DEF CreateImageFails, ownVars
<1>16. CASE ImportImage
  BY <1>16, <1>1, <1>2, <1>5, TypesAre, ReasonsKnown, ImagesType, LocalStepType
     DEF ImportImage, ownVars
<1>17. CASE ImportImageFails
  BY <1>17, <1>1, <1>3, <1>5, ImagesType, LocalStepType
     DEF ImportImageFails, ownVars
<1>18. CASE GetImageFails
  BY <1>18, <1>1, <1>3, <1>5, LocalStepType
     DEF GetImageFails, ownVars
<1>19. CASE ImageTimedOut
  BY <1>19, <1>1, <1>2, <1>5, TypesAre, ReasonsKnown, LocalStepType
     DEF ImageTimedOut, ownVars
<1>20. CASE ImageActive
  BY <1>20, <1>1, <1>2, <1>4, <1>5, TypesAre, ReasonsKnown, LocalStepType
     DEF ImageActive, ownVars
<1>21. CASE ImageUnexpected
  BY <1>21, <1>1, <1>3, <1>4, <1>5, LocalStepType
     DEF ImageUnexpected, ownVars
<1>22. CASE ImageAwaited
  BY <1>22, <1>1, <1>2, <1>4, <1>5, TypesAre, ReasonsKnown, LocalStepType
     DEF ImageAwaited, ownVars
<1> QED
  BY <1>6, <1>7, <1>8, <1>9, <1>10, <1>11, <1>12, <1>13, <1>14, <1>15,
     <1>16, <1>17, <1>18, <1>19, <1>20, <1>21, <1>22 DEF Calls

(* The worker's variables when it is idle again.                           *)
LEMMA FinishType ==
  ASSUME TypeOK, NEW res, Finish(res)
  PROVE  /\ delayed' \subseteq Releases /\ queued' \subseteq Releases
         /\ pc' \in PCs /\ cur' \in Releases /\ before' \in Object
         /\ obj' \in Object /\ result' \in Results /\ now' \in Nat
BY ObjectTypes DEF TypeOK, ReconcilerTypeOK, Finish, Forget, PCs, Results

(* What the deferred patch may write; it keeps the owners.                 *)
LEMMA PatchWrites ==
  ASSUME TypeOK
  PROVE  /\ Merged \in Object /\ Merged.meta = cache[cur].meta
         /\ Merged.ready = cache[cur].ready
         /\ WriteReady => \E o \in Object : /\ Write(cur, o)
                                           /\ o.meta = stored[cur].meta
<1>1. cur \in Releases /\ cache[cur] \in Object /\ stored[cur] \in Object
      /\ obj \in Object /\ before \in Object /\ now \in Int
  BY DEF TypeOK, ReconcilerTypeOK
<1>2. /\ Merged \in Object /\ Merged.meta = cache[cur].meta
      /\ Merged.ready = cache[cur].ready
  <2>1. Apply(cache[cur].conds, before.conds, obj.conds, now) \in Conds
    BY <1>1, ApplyType, ObjectTypes
  <2> QED
    BY <1>1, <2>1, ObjectTypes DEF Merged
<1>3. /\ [stored[cur] EXCEPT !.ready = obj.ready] \in Object
      /\ [stored[cur] EXCEPT !.ready = obj.ready].meta = stored[cur].meta
  BY <1>1 DEF Object
<1> QED
  BY <1>1, <1>2, <1>3 DEF WriteReady

(* Patching conditions and status is type correct.                         *)
LEMMA PatchType ==
  ASSUME TypeOK, Patch, imageID' = 0, UNCHANGED images
  PROVE  TypeOK'
<1> USE DEF ReconcilerTypeOK
<1>1. ASSUME \/ UNCHANGED apiVars
             \/ Write(cur, Merged)
             \/ WriteReady
      PROVE  /\ stored' \in [Releases -> Object]
             /\ feed' \in [Releases -> Seq(Object)]
             /\ cache' \in [Releases -> Object]
  <2>1. cur \in Releases
    BY DEF TypeOK
  <2> QED
    BY <1>1, <2>1, PatchWrites, WriteType DEF apiVars, TypeOK
<1>2. Fault \/ NoFault => faults' \in Nat
  BY DEF TypeOK, Fault, NoFault
<1>3. CASE PatchConditionsZero \/ PatchConditions \/ PatchConditionsFails
  <2>1. ConditionsDone(result) \/ ConditionsDone("error")
    BY <1>3 DEF PatchConditionsZero, PatchConditions, PatchConditionsFails
  <2>2. /\ Fault \/ NoFault
        /\ UNCHANGED apiVars \/ Write(cur, Merged)
    BY <1>3 DEF PatchConditionsZero, PatchConditions, PatchConditionsFails
  <2> QED
    BY <1>1, <1>2, <2>1, <2>2, ConstantsAssumption
       DEF TypeOK, ConditionsDone, PCs, Results, queueVars
<1>4. CASE PatchStatusZero \/ PatchStatus \/ PatchStatusFails
  <2>1. \E res : Finish(res)
    BY <1>4 DEF PatchStatusZero, PatchStatus, PatchStatusFails
  <2>2. /\ Fault \/ NoFault
        /\ UNCHANGED apiVars \/ WriteReady
    BY <1>4 DEF PatchStatusZero, PatchStatus, PatchStatusFails
  <2> QED
    BY <1>1, <1>2, <2>1, <2>2, FinishType, ConstantsAssumption DEF TypeOK
<1> QED
  BY <1>3, <1>4 DEF Patch

(* The watch, timers, resync, a restart and the clock are type correct.    *)
LEMMA RuntimeType ==
  ASSUME TypeOK, Runtime \/ Restart \/ Tick
  PROVE  TypeOK'
<1> USE DEF TypeOK, ReconcilerTypeOK, apiVars, queueVars, workerVars, NoFault
<1>1. CASE Tick
  BY <1>1 DEF Tick, runtimeVars, ownVars
<1>2. CASE Restart
  <2>1. StartAgain /\ (Fault \/ NoFault) /\ imageID' = 0 /\ UNCHANGED images
    BY <1>2 DEF Restart, Crash, EndPanic
  <2> QED
    BY <2>1, ObjectTypes, EmptySeq, ConstantsAssumption
       DEF StartAgain, Forget, Fault, PCs, Results
<1>3. CASE UNCHANGED ownVars /\ Resync
  BY <1>3 DEF Resync, ownVars
<1>4. ASSUME NEW r \in Releases, UNCHANGED ownVars,
             \/ TimerFires(r) \/ ReconcileMissing(r) \/ ReconcileStart(r, "secret")
      PROVE  TypeOK'
  BY <1>4 DEF TimerFires, ReconcileMissing, ReconcileStart, PCs, ownVars
<1>5. ASSUME NEW r \in Releases, UNCHANGED ownVars, Deliver(r)
      PROVE  TypeOK'
  <2>1. Head(feed[r]) \in Object /\ Tail(feed[r]) \in Seq(Object)
    BY <1>5, HeadTailProperties DEF Deliver
  <2> QED
    BY <1>5, <2>1 DEF Deliver, ownVars
<1> QED
  BY <1>1, <1>2, <1>3, <1>4, <1>5 DEF Runtime, ownVars

(* Whoever creates, claims and deletes the objects is type correct.        *)
LEMMA OwnershipType ==
  ASSUME TypeOK, Ownership
  PROVE  TypeOK'
<1>1. PICK r \in Releases : \/ DeleteObject(r)
                            \/ \E m \in Owners : \/ CreateObject(r, m)
                                                 \/ ChangeMetadata(r, m)
  BY DEF Ownership
<1>2. stored[r] \in Object
  BY DEF TypeOK, ReconcilerTypeOK
<1>3. \E o \in Object : Write(r, o)
  <2>1. CASE DeleteObject(r)
    BY <1>2, <2>1, ObjectTypes DEF DeleteObject
  <2>2. ASSUME NEW m \in Owners, CreateObject(r, m)
        PROVE  \E o \in Object : Write(r, o)
    BY <2>2, ObjectTypes DEF CreateObject, NewObject
  <2>3. ASSUME NEW m \in Owners, ChangeMetadata(r, m)
        PROVE  \E o \in Object : Write(r, o)
    <3>1. [stored[r] EXCEPT !.meta = m] \in Object
      BY <1>2 DEF Object
    <3> QED
      BY <2>3, <3>1 DEF ChangeMetadata
  <2> QED
    BY <1>1, <2>1, <2>2, <2>3
<1>4. /\ stored' \in [Releases -> Object]
      /\ feed' \in [Releases -> Seq(Object)]
      /\ cache' \in [Releases -> Object]
  BY <1>3, WriteType
<1>5. /\ UNCHANGED <<queueVars, workerVars, now, ownVars>>
      /\ Fault \/ NoFault
  BY <1>1 DEF DeleteObject, CreateObject, ChangeMetadata, NoFault, Ownership
<1> QED
  BY <1>4, <1>5 DEF TypeOK, ReconcilerTypeOK, queueVars, workerVars, ownVars,
                    Fault, NoFault

(* Glance is type correct.                                                 *)
LEMMA GlanceType ==
  ASSUME TypeOK, Glance
  PROVE  TypeOK'
<1>1. UNCHANGED <<runtimeVars, imageID, now>> /\ (Fault \/ NoFault)
  BY DEF Glance, ImportProceeds, ImportAborts, Deactivate, DeleteImage, Becomes,
         Expunge, ForeignUpload
<1>2. ASSUME NEW i \in ImageIDs, NEW S \in SUBSET Statuses, Becomes(i, S)
      PROVE  images' \in [ImageIDs -> Image]
  BY <1>2 DEF TypeOK, Becomes, Image
<1>3. ASSUME NEW i \in ImageIDs,
             \/ ImportProceeds(i) \/ ImportAborts(i) \/ Deactivate(i)
             \/ DeleteImage(i)
      PROVE  images' \in [ImageIDs -> Image]
  <2>1. {"uploading", "saving", "active", "killed", "queued", "deactivated",
         "pending_delete", "deleted"} \subseteq Statuses
    BY DEF Statuses, Waiting
  <2>2. PICK S \in SUBSET Statuses : Becomes(i, S)
    BY <1>3, <2>1 DEF ImportProceeds, ImportAborts, Deactivate, DeleteImage
  <2> QED
    BY <1>2, <2>2
<1>4. ASSUME NEW i \in ImageIDs, NEW n \in Names, Expunge(i) \/ ForeignUpload(i, n)
      PROVE  images' \in [ImageIDs -> Image]
  <2>1. NoImage \in Image
    BY ImageTypes
  <2>2. [status |-> "active", name |-> n, own |-> FALSE, imported |-> -1] \in Image
    BY DEF Image, Statuses
  <2>3. \E v \in Image : images' = [images EXCEPT ![i] = v]
    BY <1>4, <2>1, <2>2 DEF Expunge, ForeignUpload
  <2> QED
    BY <2>3 DEF TypeOK
<1>5. images' \in [ImageIDs -> Image]
  BY <1>3, <1>4, ConstantsAssumption DEF Glance
<1> QED
  BY <1>1, <1>5 DEF TypeOK, ReconcilerTypeOK, runtimeVars, Fault, NoFault

LEMMA TypeInit ==
  ASSUME Init
  PROVE  TypeOK
BY ObjectTypes, ImageTypes, ConstantsAssumption, EmptySeq
   DEF Init, ReconcilerInit, TypeOK, ReconcilerTypeOK, PCs, Results

(* Every step of the controller and of its environment keeps every         *)
(* variable within its type: objects carry known conditions only, the      *)
(* worker stands at a known call.                                          *)
THEOREM TypeCorrect == Spec => []TypeOK
<1>1. TypeOK /\ [Next]_vars => TypeOK'
  <2> SUFFICES ASSUME TypeOK, [Next]_vars
               PROVE  TypeOK'
    OBVIOUS
  <2>1. CASE Worker
    BY <2>1, ReconcileType, PatchType DEF Worker
  <2>2. CASE Runtime \/ Restart \/ Tick
    BY <2>2, RuntimeType
  <2>3. CASE Glance
    BY <2>3, GlanceType
  <2>4. CASE Ownership
    BY <2>4, OwnershipType
  <2>5. CASE UNCHANGED vars
    BY <2>5 DEF TypeOK, ReconcilerTypeOK, vars, runtimeVars, ownVars
  <2> QED
    BY <2>1, <2>2, <2>3, <2>4, <2>5 DEF Next
<1> QED
  BY <1>1, TypeInit, PTL DEF Spec

-----------------------------------------------------------------------------
(* At most one image per name.                                             *)

OwnLive(i) == images[i].own /\ images[i].status \in Live

(* A step that makes no own image come to life, and renames none, keeps    *)
(* AtMostOneOwnImage.                                                      *)
LEMMA NothingBorn ==
  ASSUME AtMostOneOwnImage,
         \A i \in ImageIDs : OwnLive(i)' => /\ OwnLive(i)
                                            /\ images'[i].name = images[i].name
  PROVE  /\ AtMostOneOwnImage'
         /\ CreateIsSafe /\ UNCHANGED <<pc, cur>> => CreateIsSafe'
BY DEF AtMostOneOwnImage, OwnTwins, OwnLive, CreateIsSafe

UniqueInv == TypeOK /\ AtMostOneOwnImage /\ CreateIsSafe

(* A step that leaves the images alone and does not reach createImage.     *)
LEMMA ImagesUnchanged ==
  ASSUME UniqueInv, UNCHANGED images,
         \/ UNCHANGED <<pc, cur>>
         \/ pc' # "create"
  PROVE  AtMostOneOwnImage' /\ CreateIsSafe'
BY DEF UniqueInv, AtMostOneOwnImage, OwnTwins, CreateIsSafe

(* Creating an image: the lookup found none, and none was made since.      *)
LEMMA CreateStep ==
  ASSUME UniqueInv, CreateImage \/ CreateImageFails
  PROVE  AtMostOneOwnImage' /\ CreateIsSafe'
<1>1. pc = "create" /\ pc' # "create"
  BY DEF CreateImage, CreateImageFails, Goto, Return
<1>2. CASE UNCHANGED images
  BY <1>1, <1>2, ImagesUnchanged
<1>3. ASSUME NEW k \in ImageIDs, images' = [images EXCEPT ![k] = Created]
      PROVE  AtMostOneOwnImage'
  <2> SUFFICES ASSUME NEW i \in ImageIDs, NEW j \in ImageIDs, OwnTwins(i, j)'
               PROVE  FALSE
    BY DEF AtMostOneOwnImage
  <2>1. \A m \in ImageIDs :
          /\ m # k => images'[m] = images[m]
          /\ m = k => images'[m] = Created
    BY <1>3 DEF UniqueInv, TypeOK
  <2>2. \A m \in ImageIDs :
          images[m].own /\ images[m].name = ImageOf[cur]
            => images[m].status \notin Live
    BY <1>1 DEF UniqueInv, CreateIsSafe
  <2>3. CASE i # k /\ j # k
    BY <2>1, <2>3 DEF UniqueInv, AtMostOneOwnImage, OwnTwins
  <2>4. CASE i = k /\ j # k
    BY <2>1, <2>2, <2>4 DEF OwnTwins, Created
  <2>5. CASE i # k /\ j = k
    BY <2>1, <2>2, <2>5 DEF OwnTwins, Created
  <2> QED
    BY <2>3, <2>4, <2>5 DEF OwnTwins
<1>4. UNCHANGED images \/ \E k \in ImageIDs : images' = [images EXCEPT ![k] = Created]
  BY DEF CreateImage, CreateImageFails
<1> QED
  BY <1>1, <1>2, <1>3, <1>4 DEF CreateIsSafe

(* Importing an image, and everything Glance does, brings no own image to  *)
(* life.                                                                   *)
LEMMA ImportStep ==
  ASSUME UniqueInv, ImportImage \/ ImportImageFails
  PROVE  AtMostOneOwnImage' /\ CreateIsSafe'
<1>1. pc' # "create"
  BY DEF ImportImage, ImportImageFails, Return
<1>2. CASE UNCHANGED images
  BY <1>1, <1>2, ImagesUnchanged
<1>3. CASE RequestImport(imageID) /\ images[imageID].status = "queued"
  <2>1. \A i \in ImageIDs :
          OwnLive(i)' => OwnLive(i) /\ images'[i].name = images[i].name
    BY <1>3 DEF UniqueInv, TypeOK, Image, RequestImport, OwnLive, Live, Statuses,
                Waiting
  <2> QED
    BY <1>1, <2>1, NothingBorn DEF UniqueInv, CreateIsSafe
<1> QED
  BY <1>2, <1>3 DEF ImportImage, ImportImageFails

LEMMA GlanceStep ==
  ASSUME UniqueInv, Glance
  PROVE  AtMostOneOwnImage' /\ CreateIsSafe'
<1>1. UNCHANGED <<pc, cur>>
  BY DEF Glance, ImportProceeds, ImportAborts, Deactivate, DeleteImage, Becomes,
         Expunge, ForeignUpload, runtimeVars
<1>2. ASSUME NEW k \in ImageIDs, NEW S, Becomes(k, S),
             images[k].status \in Live
      PROVE  \A i \in ImageIDs :
               OwnLive(i)' => OwnLive(i) /\ images'[i].name = images[i].name
  BY <1>2 DEF UniqueInv, TypeOK, Image, Becomes, OwnLive
<1>3. ASSUME NEW k \in ImageIDs, NEW v \in Image,
             images' = [images EXCEPT ![k] = v], ~v.own
      PROVE  \A i \in ImageIDs :
               OwnLive(i)' => OwnLive(i) /\ images'[i].name = images[i].name
  BY <1>3 DEF UniqueInv, TypeOK, OwnLive
<1>4. ASSUME NEW k \in ImageIDs,
             \/ ImportProceeds(k) \/ ImportAborts(k) \/ Deactivate(k)
             \/ DeleteImage(k)
      PROVE  /\ images[k].status \in Live
             /\ \E S : Becomes(k, S)
  BY <1>4 DEF UniqueInv, TypeOK, Image, ImportProceeds, ImportAborts, Deactivate,
              DeleteImage, Live, Statuses, Waiting
<1>5. ASSUME NEW k \in ImageIDs, NEW n \in Names,
             Expunge(k) \/ ForeignUpload(k, n)
      PROVE  \E v \in Image : images' = [images EXCEPT ![k] = v] /\ ~v.own
  <2>1. NoImage \in Image /\ ~NoImage.own
    BY ImageTypes DEF NoImage
  <2>2. [status |-> "active", name |-> n, own |-> FALSE, imported |-> -1] \in Image
    BY DEF Image, Statuses
  <2> QED
    BY <1>5, <2>1, <2>2 DEF Expunge, ForeignUpload
<1>6. \A i \in ImageIDs :
        OwnLive(i)' => OwnLive(i) /\ images'[i].name = images[i].name
  BY <1>2, <1>3, <1>4, <1>5, ConstantsAssumption DEF Glance
<1> QED
  BY <1>1, <1>6, NothingBorn DEF UniqueInv

(* The lookup that leads to createImage has just found no live image of    *)
(* the name, if getImageID can see the images of that name at all.         *)
LEMMA LookupStep ==
  ASSUME UniqueInv, Hidden = {}, GetImageIDNone
  PROVE  AtMostOneOwnImage' /\ CreateIsSafe'
<1>1. UNCHANGED <<images, cur>> /\ Listed(ImageOf[cur]) = {}
  BY DEF GetImageIDNone, Goto, Found, ownVars
<1>2. ~ \E i \in ImageIDs : /\ images[i].own /\ images[i].name = ImageOf[cur]
                            /\ images[i].status \in Live
  BY <1>1 DEF Listed
<1> QED
  BY <1>1, <1>2 DEF UniqueInv, AtMostOneOwnImage, OwnTwins, CreateIsSafe

(* Neither does any other step.                                            *)
LEMMA UniqueStep ==
  ASSUME UniqueInv, Hidden = {}, [Next]_vars
  PROVE  AtMostOneOwnImage' /\ CreateIsSafe'
<1>1. CASE CreateImage \/ CreateImageFails
  BY <1>1, CreateStep
<1>2. CASE ImportImage \/ ImportImageFails
  BY <1>2, ImportStep
<1>3. CASE GetImageIDNone
  BY <1>3, LookupStep
<1>4. CASE Glance
  BY <1>4, GlanceStep
<1>5. CASE \/ GetCloudFromSecret \/ GetCloudFromSecretFails
           \/ NewImageClient \/ AuthenticateFails \/ NewImageClientFails
           \/ ClientPanics \/ GetImageIDFound \/ GetImageIDFails \/ GetImageFails
           \/ ImageTimedOut \/ ImageActive \/ ImageUnexpected \/ ImageAwaited
  <2>1. UNCHANGED images /\ pc' # "create"
    BY <1>5 DEF GetCloudFromSecret, GetCloudFromSecretFails, NewImageClient,
         AuthenticateFails, NewImageClientFails, ClientPanics, GetImageIDFound,
         GetImageIDFails, GetImageFails, ImageTimedOut, ImageActive,
         ImageUnexpected, ImageAwaited, Goto, Return, ownVars
  <2> QED
    BY <2>1, ImagesUnchanged
<1>6. CASE Patch /\ imageID' = 0 /\ UNCHANGED images
  <2>1. pc' # "create"
    BY <1>6 DEF Patch, PatchConditionsZero, PatchConditions, PatchConditionsFails,
         PatchStatusZero, PatchStatus, PatchStatusFails, ConditionsDone, Finish
  <2> QED
    BY <1>6, <2>1, ImagesUnchanged
<1>7. CASE Runtime \/ Ownership \/ Restart \/ Tick \/ UNCHANGED vars
  <2>1. /\ UNCHANGED images
        /\ UNCHANGED <<pc, cur>> \/ pc' # "create"
    BY <1>7 DEF Runtime, Ownership, Restart, Tick, Crash, EndPanic, StartAgain,
         Deliver, TimerFires, ReconcileMissing, ReconcileStart, Resync,
         CreateObject, ChangeMetadata, DeleteObject,
         vars, runtimeVars, workerVars, ownVars
  <2> QED
    BY <2>1, ImagesUnchanged
<1> QED
  BY <1>1, <1>2, <1>3, <1>4, <1>5, <1>6, <1>7 DEF Next, Worker, Calls

LEMMA UniqueInit ==
  ASSUME Init
  PROVE  UniqueInv
<1>1. AtMostOneOwnImage /\ CreateIsSafe
  BY DEF Init, ReconcilerInit, AtMostOneOwnImage, OwnTwins, CreateIsSafe, NoImage
<1> QED
  BY <1>1, TypeInit DEF UniqueInv

LEMMA UniqueInvariant ==
  ASSUME Hidden = {}
  PROVE  Spec => []UniqueInv
<1>1. UniqueInv /\ [Next]_vars => AtMostOneOwnImage' /\ CreateIsSafe'
  BY UniqueStep
<1> QED
  BY <1>1, UniqueInit, TypeCorrect, PTL DEF Spec, UniqueInv

(* For any set of releases, whether or not they share images, and any      *)
(* number of crashes, lost answers, deleted images and foreign uploads,    *)
(* the controller has at most one live image of a name in the project,     *)
(* provided that the images are not hidden from its own lookup.            *)
THEOREM OneImagePerName ==
  ASSUME Hidden = {}
  PROVE  Spec => []AtMostOneOwnImage
BY UniqueInvariant, PTL DEF UniqueInv

(* Under the same condition nothing comes between getImageID's answer that *)
(* there is no image and the call of createImage that relies on it.        *)
THEOREM LookupStaysTrue ==
  ASSUME Hidden = {}
  PROVE  Spec => []CreateIsSafe
BY UniqueInvariant, PTL DEF UniqueInv

-----------------------------------------------------------------------------
(* The versions of an object: what is stored, what the watch has still to  *)
(* deliver, and what the cache holds.                                      *)

VersionsIn(r, S) == stored[r] \in S /\ cache[r] \in S /\ feed[r] \in Seq(S)

LEMMA VersionsInMore ==
  ASSUME NEW r, NEW S, NEW T, VersionsIn(r, S), S \subseteq T
  PROVE  VersionsIn(r, T)
BY SeqMonotonic DEF VersionsIn

(* A write adds one version.                                               *)
LEMMA WriteVersions ==
  ASSUME TypeOK, NEW w \in Releases, NEW o, Write(w, o),
         NEW r \in Releases, NEW S, VersionsIn(r, S), w = r => o \in S
  PROVE  VersionsIn(r, S)'
<1>1. w = r => Append(feed[r], o) \in Seq(S)
  BY AppendProperties DEF VersionsIn
<1> QED
  BY <1>1 DEF VersionsIn, Write, TypeOK, ReconcilerTypeOK

(* The watch and a restart of the manager add none.                        *)
LEMMA DeliverVersions ==
  ASSUME TypeOK, NEW w \in Releases, Deliver(w),
         NEW r \in Releases, NEW S, VersionsIn(r, S)
  PROVE  VersionsIn(r, S)'
<1>1. feed[r] # <<>> => Head(feed[r]) \in S /\ Tail(feed[r]) \in Seq(S)
  BY HeadTailProperties DEF VersionsIn
<1> QED
  BY <1>1 DEF VersionsIn, Deliver, TypeOK, ReconcilerTypeOK

LEMMA RestartVersions ==
  ASSUME TypeOK, StartAgain, NEW r \in Releases, NEW S, VersionsIn(r, S)
  PROVE  VersionsIn(r, S)'
BY EmptySeq DEF VersionsIn, StartAgain, TypeOK, ReconcilerTypeOK

(* The deferred patch adds the merged conditions and the changed readiness.*)
LEMMA PatchVersions ==
  ASSUME TypeOK, Patch, NEW r \in Releases, NEW S, VersionsIn(r, S),
         pc = "conditions" /\ cur = r => Merged \in S,
         pc = "status" /\ cur = r /\ obj.ready # before.ready =>
           [stored[r] EXCEPT !.ready = obj.ready] \in S
  PROVE  VersionsIn(r, S)'
<1>1. CASE UNCHANGED apiVars
  BY <1>1 DEF apiVars, VersionsIn
<1>2. CASE pc = "conditions" /\ Write(cur, Merged)
  BY <1>2, WriteVersions DEF TypeOK, ReconcilerTypeOK
<1>3. CASE pc = "status" /\ WriteReady
  <2>1. cur \in Releases
    BY DEF TypeOK, ReconcilerTypeOK
  <2>2. CASE obj.ready = before.ready
    BY <1>3, <2>1, <2>2, WriteVersions DEF WriteReady, VersionsIn
  <2>3. CASE obj.ready # before.ready
    BY <1>3, <2>1, <2>3, WriteVersions DEF WriteReady
  <2> QED
    BY <2>2, <2>3
<1> QED
  BY <1>1, <1>2, <1>3 DEF Patch, PatchConditionsZero, PatchConditions,
     PatchConditionsFails, PatchStatusZero, PatchStatus, PatchStatusFails

(* Whoever owns the objects adds new ones, those with other owners and the *)
(* traces of deleted ones.                                                 *)
LEMMA OwnershipVersions ==
  ASSUME TypeOK, Ownership, NEW r \in Releases, NEW S, VersionsIn(r, S),
         \A b \in BOOLEAN, m \in Owners : Blank(b, m) \in S,
         \A m \in Owners : [stored[r] EXCEPT !.meta = m] \in S
  PROVE  VersionsIn(r, S)'
<1>1. PICK w \in Releases : \/ DeleteObject(w)
                            \/ \E m \in Owners : \/ CreateObject(w, m)
                                                 \/ ChangeMetadata(w, m)
  BY DEF Ownership
<1>2. CASE DeleteObject(w)
  <2>1. stored[w].meta \in Owners
    BY ObjectTypes DEF TypeOK, ReconcilerTypeOK
  <2> QED
    BY <1>2, <2>1, WriteVersions DEF DeleteObject
<1>3. ASSUME NEW m \in Owners, CreateObject(w, m)
      PROVE  VersionsIn(r, S)'
  BY <1>3, WriteVersions DEF CreateObject, NewObject
<1>4. ASSUME NEW m \in Owners, ChangeMetadata(w, m)
      PROVE  VersionsIn(r, S)'
  BY <1>4, WriteVersions DEF ChangeMetadata
<1> QED
  BY <1>1, <1>2, <1>3, <1>4

(* No other step adds a version.                                           *)
LEMMA VersionsStep ==
  ASSUME TypeOK, [Next]_vars, NEW r \in Releases, NEW S, VersionsIn(r, S),
         pc = "conditions" /\ cur = r => Merged \in S,
         pc = "status" /\ cur = r /\ obj.ready # before.ready =>
           [stored[r] EXCEPT !.ready = obj.ready] \in S,
         \A b \in BOOLEAN, m \in Owners : Blank(b, m) \in S,
         \A m \in Owners : [stored[r] EXCEPT !.meta = m] \in S
  PROVE  VersionsIn(r, S)'
<1>1. CASE UNCHANGED apiVars
  BY <1>1 DEF apiVars, VersionsIn
<1>2. CASE Calls \/ Glance \/ Tick \/ UNCHANGED vars
  <2>1. UNCHANGED apiVars
    BY <1>2 DEF Calls, GetCloudFromSecret, GetCloudFromSecretFails,
       NewImageClient, AuthenticateFails, NewImageClientFails, ClientPanics,
       GetImageIDFound, GetImageIDNone, GetImageIDFails, CreateImage,
       CreateImageFails, ImportImage, ImportImageFails, GetImageFails,
       ImageTimedOut, ImageActive, ImageUnexpected, ImageAwaited, Goto, Return,
       Glance, ImportProceeds, ImportAborts, Deactivate, DeleteImage, Becomes,
       Expunge, ForeignUpload, Tick, vars, runtimeVars, apiVars
  <2> QED
    BY <1>1, <2>1
<1>3. CASE Patch
  BY <1>3, PatchVersions
<1>4. CASE Runtime
  BY <1>1, <1>4, DeliverVersions DEF Runtime, TimerFires, ReconcileMissing,
     ReconcileStart, Resync
<1>5. CASE Restart
  BY <1>5, RestartVersions DEF Restart, Crash, EndPanic
<1>6. CASE Ownership
  BY <1>6, OwnershipVersions
<1> QED
  BY <1>2, <1>3, <1>4, <1>5, <1>6 DEF Next, Worker

(* Reconcile's copy becomes ready on nothing but an active image.          *)
LEMMA ReadyCopy ==
  ASSUME TypeOK, Calls
  PROVE  UNCHANGED cur /\ (obj'.ready => obj.ready \/ Got({"active"}))
<1>1. obj \in Object
  BY DEF TypeOK, ReconcilerTypeOK
<1>2. \A o \in Object, t \in Types :
        /\ True(o, t) \in Object /\ True(o, t).ready = o.ready
        /\ \A s \in States : False(o, t, s) \in Object /\ False(o, t, s).ready = o.ready
  BY MarkTypes, ObjectTypes DEF True, False
<1>3. Issue(obj) \in Object /\ Issue(obj).ready = obj.ready
  BY <1>1, <1>2, TypesAre, ReasonsKnown DEF Issue
<1>4. \A o \in Object, b \in BOOLEAN : [o EXCEPT !.ready = b].ready = b
  BY DEF Object
<1>5. \A o \in Object :
        /\ \A res : Return(o, res) => obj'.ready = o.ready /\ UNCHANGED cur
        /\ \A label : Goto(label, o) => obj'.ready = o.ready /\ UNCHANGED cur
  BY DEF Return, Goto, Object
<1>6. \A o \in Object, b \in BOOLEAN : [o EXCEPT !.ready = b] \in Object
  BY DEF Object
<1>7. CASE ImageActive
  BY <1>1, <1>2, <1>5, <1>6, <1>7, TypesAre, ReasonsKnown DEF ImageActive
<1>8. CASE \/ GetCloudFromSecret \/ GetCloudFromSecretFails \/ NewImageClient
           \/ NewImageClientFails \/ ImportImage \/ ImageTimedOut
  BY <1>1, <1>2, <1>5, <1>8, TypesAre, ReasonsKnown
     DEF GetCloudFromSecret, GetCloudFromSecretFails, NewImageClient,
     NewImageClientFails, ImportImage, ImageTimedOut
<1>9. CASE \/ AuthenticateFails \/ ClientPanics \/ GetImageIDFound \/ GetImageIDFails
           \/ CreateImage \/ CreateImageFails \/ ImportImageFails \/ GetImageFails
  BY <1>1, <1>3, <1>5, <1>9
     DEF AuthenticateFails, ClientPanics, GetImageIDFound, GetImageIDFails,
     CreateImage, CreateImageFails, ImportImageFails, GetImageFails
<1>10. CASE GetImageIDNone \/ ImageUnexpected \/ ImageAwaited
  BY <1>1, <1>2, <1>3, <1>4, <1>5, <1>6, <1>10, TypesAre, ReasonsKnown
     DEF GetImageIDNone, ImageUnexpected, ImageAwaited
<1> QED
  BY <1>7, <1>8, <1>9, <1>10 DEF Calls

(* While an ID of Glance is in use the image keeps its name.               *)
LEMMA NamesStay ==
  ASSUME TypeOK, [Next]_vars, NEW k \in ImageIDs, ~Free(k),
         images'[k].status # "none"
  PROVE  images'[k].name = images[k].name
<1>1. CASE UNCHANGED images
  BY <1>1
<1>2. ASSUME NEW j \in ImageIDs, NEW s, images' = [images EXCEPT ![j].status = s]
      PROVE  images'[k].name = images[k].name
  BY <1>2 DEF TypeOK, Image
<1>3. ASSUME NEW j \in ImageIDs, NEW v, images' = [images EXCEPT ![j] = v],
             Free(j) \/ v.status = "none"
      PROVE  images'[k].name = images[k].name
  BY <1>3 DEF TypeOK, Free
<1>4. CASE RequestImport(imageID)
  BY <1>4 DEF RequestImport, TypeOK, Image
<1>5. CASE CreateImage \/ CreateImageFails
  BY <1>1, <1>3, <1>5 DEF CreateImage, CreateImageFails
<1>6. CASE Glance
  <2>1. PICK j \in ImageIDs :
          \/ ImportProceeds(j) \/ ImportAborts(j) \/ Deactivate(j)
          \/ DeleteImage(j) \/ Expunge(j)
          \/ \E n \in Names : ForeignUpload(j, n)
    BY <1>6 DEF Glance
  <2>2. NoImage.status = "none"
    BY DEF NoImage
  <2> QED
    BY <1>2, <1>3, <2>1, <2>2 DEF ImportProceeds, ImportAborts, Deactivate,
       DeleteImage, Becomes, Expunge, ForeignUpload
<1>7. CASE ~(CreateImage \/ CreateImageFails \/ Glance)
  BY <1>1, <1>4, <1>7 DEF Next, Worker, Calls, GetCloudFromSecret,
     GetCloudFromSecretFails, NewImageClient, AuthenticateFails,
     NewImageClientFails, ClientPanics, GetImageIDFound, GetImageIDNone,
     GetImageIDFails, ImportImage, ImportImageFails, GetImageFails,
     ImageTimedOut, ImageActive, ImageUnexpected, ImageAwaited, Runtime,
     Ownership, Restart, Tick, ownVars, vars
<1> QED
  BY <1>5, <1>6, <1>7
=============================================================================
