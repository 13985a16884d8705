-------------------------- MODULE ImageImportProofs --------------------------
(* NodeImageRelease implements ImageImport, for every value of its         *)
(* constants.  Beyond the invariants of NodeImageReleaseProofs it takes    *)
(* that the image an import is about to be requested of has had none.      *)
EXTENDS NodeImageReleaseProofs

(* Between createImage and importImage nobody else has the import of the   *)
(* image requested.                                                        *)
ImportIsFirst ==
  pc = "import" =>
    imageID \in ImageIDs /\ (images[imageID].own => images[imageID].imported < 0)

-----------------------------------------------------------------------------
(* ImportIsFirst is an invariant.                                          *)

(* A step before the lookup or after the import has nothing to do with it; *)
(* createImage establishes it.                                             *)
LEMMA CallsKeepFirst ==
  ASSUME TypeOK, Calls \/ (Patch /\ UNCHANGED images)
  PROVE  ImportIsFirst'
<1>1. CASE CreateImage
  <2>1. PICK i \in ImageIDs : images' = [images EXCEPT ![i] = Created] /\ imageID' = i
    BY <1>1 DEF CreateImage
  <2>2. images'[i].imported = -1
    BY <2>1 DEF TypeOK, Created
  <2> QED
    BY <2>1, <2>2 DEF ImportIsFirst
<1>2. CASE Calls /\ ~CreateImage
  <2>1. pc' # "import"
    BY <1>2 DEF Calls, GetCloudFromSecret, GetCloudFromSecretFails,
         NewImageClient, AuthenticateFails, NewImageClientFails, ClientPanics,
         GetImageIDFound, GetImageIDNone, GetImageIDFails, CreateImageFails,
         ImportImage, ImportImageFails, GetImageFails, ImageTimedOut,
         ImageActive, ImageUnexpected, ImageAwaited, Goto, Return
  <2> QED
    BY <2>1 DEF ImportIsFirst
<1>3. CASE Patch
  BY <1>3 DEF ImportIsFirst, Patch, PatchConditionsZero, PatchConditions,
       PatchConditionsFails, PatchStatusZero, PatchStatus, PatchStatusFails,
       ConditionsDone, Finish
<1> QED
  BY <1>1, <1>2, <1>3

(* Glance turns no image into one made here, and keeps its import time.    *)
LEMMA GlanceKeepsFirst ==
  ASSUME TypeOK, ImportIsFirst, Glance
  PROVE  ImportIsFirst'
<1>1. UNCHANGED <<pc, imageID>>
  BY DEF Glance, ImportProceeds, ImportAborts, Deactivate, DeleteImage, Becomes,
         Expunge, ForeignUpload, runtimeVars
<1>2. PICK k \in ImageIDs :
        \/ \E s : images' = [images EXCEPT ![k].status = s]
        \/ images' = [images EXCEPT ![k] = NoImage]
        \/ \E n : images' = [images EXCEPT ![k] =
                               [status |-> "active", name |-> n, own |-> FALSE,
                                imported |-> -1]]
  BY DEF Glance, ImportProceeds, ImportAborts, Deactivate, DeleteImage, Becomes,
         Expunge, ForeignUpload
<1>3. \A i \in ImageIDs : images'[i].own => /\ images[i].own
                                            /\ images'[i].imported = images[i].imported
  <2>1. CASE \E s : images' = [images EXCEPT ![k].status = s]
    BY <2>1 DEF TypeOK, Image
  <2>2. CASE images' = [images EXCEPT ![k] = NoImage]
    BY <2>2 DEF TypeOK, NoImage
  <2>3. CASE \E n : images' = [images EXCEPT ![k] =
                               [status |-> "active", name |-> n, own |-> FALSE,
                                imported |-> -1]]
    BY <2>3 DEF TypeOK
  <2> QED
    BY <1>2, <2>1, <2>2, <2>3
<1> QED
  BY <1>1, <1>3 DEF ImportIsFirst

LEMMA FirstStep ==
  ASSUME TypeOK, ImportIsFirst, [Next]_vars
  PROVE  ImportIsFirst'
<1>1. CASE Worker
  BY <1>1, CallsKeepFirst DEF Worker
<1>2. CASE Glance
  BY <1>2, GlanceKeepsFirst
<1>3. CASE Runtime \/ Ownership \/ Restart \/ Tick \/ UNCHANGED vars
  <2>1. UNCHANGED <<pc, imageID, images>> \/ pc' # "import"
    BY <1>3 DEF Runtime, Ownership, Restart, Tick, Crash, EndPanic, StartAgain,
         Deliver, TimerFires, ReconcileMissing, ReconcileStart, Resync,
         CreateObject, ChangeMetadata, DeleteObject, vars, runtimeVars,
         workerVars, ownVars
  <2> QED
    BY <2>1 DEF ImportIsFirst
<1> QED
  BY <1>1, <1>2, <1>3 DEF Next

-----------------------------------------------------------------------------
(* Steps and the images they make.                                         *)

(* Changing one image changes what is made of it alone.                    *)
LEMMA MadeChanges ==
  ASSUME NEW k \in ImageIDs, NEW v, TypeOK, images' = [images EXCEPT ![k] = v]
  PROVE  Made' = [Made EXCEPT ![k] = AsMade(v)]
BY DEF Made, TypeOK, AsMade, NotMade, Phase

(* An image that is alive and has been made here, and any other.           *)
LEMMA AsMadeOf ==
  ASSUME NEW im
  PROVE  /\ im.own /\ im.status \in Live =>
              AsMade(im) = [phase |-> Phase(im.status), name |-> im.name,
                            requested |-> im.imported >= 0]
         /\ ~(im.own /\ im.status \in Live) => AsMade(im) = NotMade
BY DEF AsMade

LEMMA Phases ==
  /\ Phase("queued") = "queued" /\ Phase("importing") = "importing"
  /\ Phase("uploading") = "importing" /\ Phase("saving") = "importing"
  /\ Phase("active") = "active" /\ Phase("deactivated") = "unusable"
  /\ Phase("killed") = "unusable" /\ Phase("pending_delete") = "deleting"
BY DEF Phase

(* createImage: none of the name was there, so this one may be created.    *)
LEMMA CreatePromised ==
  ASSUME UniqueInv, NEW k \in ImageIDs, pc = "create", Free(k),
         images' = [images EXCEPT ![k] = Created]
  PROVE  Promise!Next
<1>1. Made' = [Made EXCEPT ![k] = AsMade(Created)]
  BY MadeChanges DEF UniqueInv
<1>2. AsMade(Created) = [phase |-> "queued", name |-> ImageOf[cur], requested |-> FALSE]
  <2>1. /\ Created.own /\ Created.status = "queued" /\ Created.name = ImageOf[cur]
        /\ Created.imported = -1 /\ "queued" \in Live
    BY DEF Created, Live, Statuses, Waiting
  <2>2. (Created.imported >= 0) = FALSE
    BY <2>1
  <2> HIDE DEF Created
  <2> QED
    BY <2>1, <2>2, AsMadeOf, Phases
<1>3. Made[k].phase = "gone"
  BY DEF Free, Made, AsMade, NotMade, Live
<1>4. \A j \in ImageIDs : Made[j].name = ImageOf[cur] => Made[j].phase = "gone"
  BY DEF UniqueInv, CreateIsSafe, Made, AsMade, NotMade
<1>5. ImageOf[cur] \in Names
  BY ImageTypes DEF UniqueInv, TypeOK, ReconcilerTypeOK
<1>6. Promise!Create(k, ImageOf[cur])
  BY <1>1, <1>2, <1>3, <1>4 DEF Promise!Create
<1> QED
  BY <1>5, <1>6 DEF Promise!Next

(* importImage: the image has just been created and not been imported.     *)
LEMMA ImportPromised ==
  ASSUME TypeOK, ImportIsFirst, pc = "import",
         images[imageID].status = "queued", RequestImport(imageID)
  PROVE  Promise!Next \/ UNCHANGED Made
<1> DEFINE v == [images[imageID] EXCEPT !.status = "importing", !.imported = now]
<1>1. imageID \in ImageIDs
  BY DEF ImportIsFirst
<1>2. images[imageID] \in Image /\ now \in Nat
  BY <1>1 DEF TypeOK, ReconcilerTypeOK
<1>3. images' = [images EXCEPT ![imageID] = v]
  BY <1>1 DEF RequestImport, TypeOK
<1>4. Made' = [Made EXCEPT ![imageID] = AsMade(v)]
  BY <1>1, <1>3, MadeChanges
<1>5. /\ v.status = "importing" /\ v.imported = now
      /\ v.name = images[imageID].name /\ v.own = images[imageID].own
  BY <1>2 DEF Image
<1> HIDE DEF v
<1>6. CASE images[imageID].own
  <2>1. Made[imageID] = [phase |-> "queued", name |-> images[imageID].name,
                         requested |-> FALSE]
    <3>1. (images[imageID].imported >= 0) = FALSE
      BY <1>2, <1>6 DEF ImportIsFirst, Image
    <3>2. images[imageID].status \in Live
      BY DEF Live, Statuses, Waiting
    <3> QED
      BY <1>1, <1>6, <3>1, <3>2, AsMadeOf, Phases DEF Made
  <2>2. AsMade(v) = [phase |-> "importing", name |-> images[imageID].name,
                     requested |-> TRUE]
    <3>1. (v.imported >= 0) = TRUE
      BY <1>2, <1>5
    <3>2. v.status \in Live
      BY <1>5 DEF Live, Statuses, Waiting
    <3> QED
      BY <1>5, <1>6, <3>1, <3>2, AsMadeOf, Phases
  <2>3. Made[imageID].phase = "queued" /\ ~Made[imageID].requested
        /\ Made[imageID].name = images[imageID].name
    BY <2>1
  <2>4. Promise!Import(imageID)
    BY <1>4, <2>2, <2>3 DEF Promise!Import
  <2> QED
    BY <1>1, <2>4 DEF Promise!Next
<1>7. CASE ~images[imageID].own
  <2>1. AsMade(v) = Made[imageID]
    BY <1>1, <1>5, <1>7 DEF Made, AsMade
  <2> QED
    BY <1>1, <1>4, <2>1 DEF Made
<1> QED
  BY <1>6, <1>7

-----------------------------------------------------------------------------
(* What becomes of an image at Glance.                                     *)

(* A status Glance gives to an image.                                      *)
LEMMA BecomesMade ==
  ASSUME TypeOK, NEW i \in ImageIDs, NEW s,
         images' = [images EXCEPT ![i].status = s]
  PROVE  \/ ~images[i].own /\ UNCHANGED Made
         \/ /\ images[i].own
            /\ s \in Live =>
                 Made' = [Made EXCEPT ![i] =
                            [phase |-> Phase(s), name |-> images[i].name,
                             requested |-> images[i].imported >= 0]]
            /\ s \notin Live => Made' = [Made EXCEPT ![i] = NotMade]
<1> DEFINE v == [images[i] EXCEPT !.status = s]
<1>1. /\ v.status = s /\ v.name = images[i].name /\ v.own = images[i].own
      /\ v.imported = images[i].imported
  BY DEF TypeOK, Image
<1>2. Made' = [Made EXCEPT ![i] = AsMade(v)]
  <2>1. images' = [images EXCEPT ![i] = v]
    OBVIOUS
  <2> HIDE DEF v
  <2> QED
    BY <2>1, MadeChanges
<1> HIDE DEF v
<1>3. CASE images[i].own
  BY <1>1, <1>2, <1>3, AsMadeOf
<1>4. CASE ~images[i].own
  <2>1. AsMade(v) = NotMade /\ Made[i] = NotMade
    BY <1>1, <1>4, AsMadeOf DEF Made
  <2> QED
    BY <1>2, <1>4, <2>1 DEF Made
<1> QED
  BY <1>3, <1>4

(* What is made of an own image that is alive.                             *)
LEMMA MadeIs ==
  ASSUME NEW i \in ImageIDs, images[i].own, images[i].status \in Live
  PROVE  /\ Made[i] = [phase |-> Phase(images[i].status), name |-> images[i].name,
                       requested |-> images[i].imported >= 0]
         /\ Made[i].phase = Phase(images[i].status)
<1> DEFINE q == images[i].imported >= 0
<1>1. Made[i] = [phase |-> Phase(images[i].status), name |-> images[i].name,
                 requested |-> q]
  BY AsMadeOf DEF Made
<1> HIDE DEF q
<1>2. Made[i].phase = Phase(images[i].status)
  BY <1>1
<1> QED
  BY <1>1, <1>2 DEF q

LEMMA TurnMade ==
  ASSUME TypeOK, NEW i \in ImageIDs, NEW s \in Live,
         images[i].own, images[i].status \in Live,
         images' = [images EXCEPT ![i].status = s]
  PROVE  Made' = [Made EXCEPT ![i].phase = Phase(s)]
<1> DEFINE q == images[i].imported >= 0
           n == images[i].name
<1>1. Made' = [Made EXCEPT ![i] = [phase |-> Phase(s), name |-> n, requested |-> q]]
  BY BecomesMade
<1>2. Made[i] = [phase |-> Phase(images[i].status), name |-> n, requested |-> q]
  BY MadeIs
<1> HIDE DEF q, n
<1>3. [Made[i] EXCEPT !.phase = Phase(s)]
        = [phase |-> Phase(s), name |-> n, requested |-> q]
  BY <1>2
<1> QED
  BY <1>1, <1>3

(* Each change of a status, and the abstract step it is.                   *)
LEMMA StatusPromised ==
  ASSUME TypeOK, NEW i \in ImageIDs, NEW s \in Statuses \ {"none"},
         images' = [images EXCEPT ![i].status = s],
         \/ images[i].status = "importing" /\ s \in {"uploading", "saving"}
         \/ images[i].status \in {"uploading", "saving"} /\ s = "active"
         \/ /\ images[i].status \in {"importing", "uploading", "saving"}
            /\ s \in {"killed", "queued"}
         \/ images[i].status = "active" /\ s = "deactivated"
         \/ images[i].status \in Live /\ s \in {"pending_delete", "deleted"}
  PROVE  Promise!Next \/ UNCHANGED Made
<1>1. images[i].status \in Live
  BY DEF Live, Statuses, Waiting
<1> SUFFICES ASSUME images[i].own
             PROVE  Promise!Next \/ UNCHANGED Made
  BY BecomesMade
<1>2. Made[i].phase = Phase(images[i].status)
  BY <1>1, MadeIs
<1>3. s \in Live => Made' = [Made EXCEPT ![i].phase = Phase(s)]
  BY <1>1, TurnMade
<1>4. CASE images[i].status = "importing" /\ s \in {"uploading", "saving"}
  <2>1. s \in Live
    BY <1>4 DEF Live, Statuses, Waiting
  <2>2. Made' = [Made EXCEPT ![i] = [phase |-> Phase(s), name |-> images[i].name,
                                     requested |-> images[i].imported >= 0]]
    BY <2>1, BecomesMade
  <2>3. Phase(s) = Phase(images[i].status)
    BY <1>4, Phases
  <2>4. Made' = [Made EXCEPT ![i] = Made[i]]
    BY <1>1, <2>2, <2>3, MadeIs
  <2> QED
    BY <2>4 DEF Made
<1>5. CASE images[i].status \in {"uploading", "saving"} /\ s = "active"
  <2>1. Made[i].phase = "importing" /\ Made' = [Made EXCEPT ![i].phase = "active"]
    BY <1>2, <1>3, <1>5, Phases DEF Live, Statuses
  <2>2. Promise!Arrives(i)
    BY <2>1 DEF Promise!Arrives, Promise!Turns
  <2> QED
    BY <2>2 DEF Promise!Next
<1>6. CASE /\ images[i].status \in {"importing", "uploading", "saving"}
           /\ s \in {"killed", "queued"}
  <2>1. /\ Made[i].phase = "importing"
        /\ Made' = [Made EXCEPT ![i].phase = Phase(s)]
        /\ Phase(s) \in {"queued", "unusable"}
    BY <1>2, <1>3, <1>6, Phases DEF Live, Statuses, Waiting
  <2>2. Promise!Fails(i)
    BY <2>1 DEF Promise!Fails, Promise!Turns
  <2> QED
    BY <2>2 DEF Promise!Next
<1>7. CASE images[i].status = "active" /\ s = "deactivated"
  <2>1. Made[i].phase = "active" /\ Made' = [Made EXCEPT ![i].phase = "unusable"]
    BY <1>2, <1>3, <1>7, Phases DEF Live, Statuses
  <2>2. Promise!Deactivated(i)
    BY <2>1 DEF Promise!Deactivated, Promise!Turns
  <2> QED
    BY <2>2 DEF Promise!Next
<1>8. CASE s \in {"pending_delete", "deleted"}
  <2>1. Made[i].phase \in Promise!Phases \ {"gone"}
    BY <1>1, <1>2, Phases DEF Live, Statuses, Waiting, Promise!Phases
  <2>2. CASE s = "pending_delete"
    <3>1. Made' = [Made EXCEPT ![i].phase = "deleting"]
      BY <1>3, <2>2, Phases DEF Live, Statuses, Waiting
    <3>2. Promise!Deleted(i)
      BY <2>1, <3>1 DEF Promise!Deleted, Promise!Turns
    <3> QED
      BY <3>2 DEF Promise!Next
  <2>3. CASE s = "deleted"
    <3>1. Made' = [Made EXCEPT ![i] = NotMade]
      BY <2>3, BecomesMade DEF Live
    <3>2. Promise!Vanishes(i)
      BY <2>1, <3>1 DEF Promise!Vanishes, Promise!Gone, NotMade
    <3> QED
      BY <3>2 DEF Promise!Next
  <2> QED
    BY <1>8, <2>2, <2>3
<1> QED
  BY <1>4, <1>5, <1>6, <1>7, <1>8

LEMMA GlancePromised ==
  ASSUME TypeOK, Glance
  PROVE  Promise!Next \/ UNCHANGED Made
<1>1. PICK i \in ImageIDs :
        \/ ImportProceeds(i) \/ ImportAborts(i) \/ Deactivate(i) \/ DeleteImage(i)
        \/ Expunge(i) \/ \E n \in Names : ForeignUpload(i, n)
  BY DEF Glance
<1>2. images[i] \in Image
  BY DEF TypeOK
<1>3. CASE ImportProceeds(i) \/ ImportAborts(i) \/ Deactivate(i) \/ DeleteImage(i)
  <2>1. PICK s \in Statuses \ {"none"} :
          /\ images' = [images EXCEPT ![i].status = s]
          /\ \/ images[i].status = "importing" /\ s \in {"uploading", "saving"}
             \/ images[i].status \in {"uploading", "saving"} /\ s = "active"
             \/ /\ images[i].status \in {"importing", "uploading", "saving"}
                /\ s \in {"killed", "queued"}
             \/ images[i].status = "active" /\ s = "deactivated"
             \/ images[i].status \in Live /\ s \in {"pending_delete", "deleted"}
    <3>1. {"uploading", "saving", "active", "killed", "queued", "deactivated",
           "pending_delete", "deleted"} \subseteq Statuses \ {"none"}
      BY DEF Statuses, Waiting
    <3> QED
      BY <1>3, <3>1 DEF ImportProceeds, ImportAborts, Deactivate, DeleteImage, Becomes
  <2> QED
    BY <2>1, StatusPromised
<1>4. CASE Expunge(i)
  <2>1. Made' = [Made EXCEPT ![i] = NotMade]
    <3>1. images' = [images EXCEPT ![i] = NoImage] /\ AsMade(NoImage) = NotMade
      BY <1>4 DEF Expunge, AsMade, NoImage
    <3> QED
      BY <3>1, MadeChanges
  <2>2. CASE images[i].own /\ images[i].status = "pending_delete"
    <3>1. images[i].status \in Live
      BY <2>2 DEF Live, Statuses, Waiting
    <3>2. Made[i].phase = "deleting"
      BY <2>2, <3>1, MadeIs, Phases
    <3>3. Promise!Vanishes(i)
      BY <2>1, <3>2 DEF Promise!Vanishes, Promise!Gone, NotMade
    <3> QED
      BY <3>3 DEF Promise!Next
  <2>3. CASE ~(images[i].own /\ images[i].status = "pending_delete")
    <3>1. ~(images[i].own /\ images[i].status \in Live)
      BY <1>4, <2>3 DEF Expunge, Live
    <3>2. Made[i] = NotMade
      BY <3>1, AsMadeOf DEF Made
    <3> QED
      BY <2>1, <3>2 DEF Made
  <2> QED
    BY <2>2, <2>3
<1>5. ASSUME NEW n \in Names, ForeignUpload(i, n)
      PROVE  UNCHANGED Made
  <2> DEFINE v == [status |-> "active", name |-> n, own |-> FALSE, imported |-> -1]
  <2>1. images' = [images EXCEPT ![i] = v] /\ images[i].status \notin Live
    BY <1>5 DEF ForeignUpload, Free, Live
  <2>2. AsMade(v) = NotMade
    BY DEF AsMade
  <2> HIDE DEF v
  <2>3. Made' = [Made EXCEPT ![i] = NotMade]
    BY <2>1, <2>2, MadeChanges
  <2>4. Made[i] = NotMade
    BY <2>1, AsMadeOf DEF Made
  <2> QED
    BY <2>3, <2>4 DEF Made
<1> QED
  BY <1>1, <1>3, <1>4, <1>5

-----------------------------------------------------------------------------
(* Every step is one of ImageImport, or none.                              *)
LEMMA PromiseStep ==
  ASSUME UniqueInv, ImportIsFirst, [Next]_vars
  PROVE  [Promise!Next]_Made
<1>1. CASE UNCHANGED images
  BY <1>1 DEF Made
<1>2. CASE Glance
  BY <1>2, GlancePromised DEF UniqueInv
<1>3. CASE (CreateImage \/ CreateImageFails) /\ ~UNCHANGED images
  <2>1. PICK k \in ImageIDs : Free(k) /\ images' = [images EXCEPT ![k] = Created]
    BY <1>3 DEF CreateImage, CreateImageFails
  <2> QED
    BY <1>3, <2>1, CreatePromised DEF CreateImage, CreateImageFails
<1>4. CASE (ImportImage \/ ImportImageFails) /\ ~UNCHANGED images
  BY <1>4, ImportPromised DEF UniqueInv, ImportImage, ImportImageFails
<1>5. CASE Worker /\ ~(\/ CreateImage \/ CreateImageFails
                       \/ ImportImage \/ ImportImageFails)
  <2>1. UNCHANGED images
    BY <1>5 DEF Worker, Calls, GetCloudFromSecret, GetCloudFromSecretFails,
         NewImageClient, AuthenticateFails, NewImageClientFails, ClientPanics,
         GetImageIDFound, GetImageIDNone, GetImageIDFails, GetImageFails,
         ImageTimedOut, ImageActive, ImageUnexpected, ImageAwaited, ownVars
  <2> QED
    BY <2>1 DEF Made
<1>6. CASE Runtime \/ Ownership \/ Restart \/ Tick \/ UNCHANGED vars
  <2>1. UNCHANGED images
    BY <1>6 DEF Runtime, Ownership, Restart, Tick, vars, ownVars
  <2> QED
    BY <2>1 DEF Made
<1> QED
  BY <1>1, <1>2, <1>3, <1>4, <1>5, <1>6 DEF Next

LEMMA PromiseInit ==
  ASSUME Init
  PROVE  ImportIsFirst /\ Promise!Init
BY DEF Init, ReconcilerInit, ImportIsFirst, Promise!Init, Promise!Gone, Made,
   AsMade, NoImage, NotMade, Live

(* If no image is hidden from its own lookup, the controller implements    *)
(* ImageImport: whatever is lost, retried, deleted or restarted, it makes  *)
(* one image of a name at most, and requests no import a second time.      *)
THEOREM PromiseKept ==
  ASSUME Hidden = {}
  PROVE  Spec => KeepsPromise
<1>1. TypeOK /\ ImportIsFirst /\ [Next]_vars => ImportIsFirst'
  BY FirstStep
<1>2. UniqueInv /\ ImportIsFirst /\ [Next]_vars => [Promise!Next]_Made
  BY PromiseStep
<1> QED
  BY <1>1, <1>2, PromiseInit, UniqueInvariant, PTL
     DEF Spec, UniqueInv, KeepsPromise, Promise!Spec
=============================================================================
