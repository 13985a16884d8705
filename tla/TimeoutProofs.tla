---------------------------- MODULE TimeoutProofs ----------------------------
(* While nobody deletes images, NodeImageRelease measures its import       *)
(* timeout on the import it waits for, for every value of its constants.   *)
(* The argument: whatever copy of a release says that an import has        *)
(* started, there is an image of that release whose import was requested   *)
(* then or earlier; and an image that getImageID finds is the only one.    *)
EXTENDS ImageImportProofs

Started == "OpenStackImageImportStarted"

-----------------------------------------------------------------------------
(* The invariant.                                                          *)

(* The import of an image of this release was requested at minute t or     *)
(* earlier, by this controller.                                            *)
RequestedBy(r, t) ==
  \E k \in ImageIDs : /\ OwnLive(k) /\ images[k].name = ImageOf[r]
                      /\ 0 <= images[k].imported /\ images[k].imported <= t

Honest(r, o) ==
  IsTrue(o.conds, Started) => RequestedBy(r, o.conds[Started].since)

HonestVersions(r) == {o \in Object : Honest(r, o)}

VersionsAreHonest == \A r \in Releases : VersionsIn(r, HonestVersions(r))

(* Reconcile has set the condition False before it creates an image, and   *)
(* requests the import of the image it has created.                        *)
ImportsItsOwn ==
  /\ pc \in {"create", "import"} => ~IsTrue(obj.conds, Started)
  /\ pc = "import" => /\ imageID \in ImageIDs /\ OwnLive(imageID)
                      /\ images[imageID].name = ImageOf[cur]

(* The image it has found is the one whose import it has started.          *)
FoundIsImported ==
  pc = "get" => /\ imageID \in ImageIDs
                /\ IsTrue(obj.conds, Started) =>
                     images[imageID].imported <= obj.conds[Started].since

TimeInv ==
  /\ VersionsAreHonest
  /\ Honest(cur, obj)
  /\ \A k \in ImageIDs : images[k].imported <= now
  /\ ImportsItsOwn
  /\ FoundIsImported

-----------------------------------------------------------------------------
(* What steps do to the images.                                            *)

(* An image keeps its name, its maker and the time of its import, but for  *)
(* the one whose import is being requested, and for places that are empty  *)
(* before or after.                                                        *)
LEMMA ImageSteps ==
  ASSUME TypeOK, [Next]_vars, NEW k \in ImageIDs
  PROVE  \/ /\ images'[k].name = images[k].name
            /\ images'[k].own = images[k].own
            /\ \/ images'[k].imported = images[k].imported
               \/ pc = "import" /\ k = imageID /\ images'[k].imported = now
         \/ (Free(k) \/ images'[k] = NoImage) /\ images'[k].imported = -1
<1>1. CASE UNCHANGED images
  BY <1>1
<1>2. ASSUME NEW i \in ImageIDs, NEW v, v.imported = -1, Free(i) \/ v = NoImage,
             images' = [images EXCEPT ![i] = v]
      PROVE  \/ images'[k] = images[k]
             \/ (Free(k) \/ images'[k] = NoImage) /\ images'[k].imported = -1
  BY <1>2 DEF TypeOK
<1>3. ASSUME NEW i \in ImageIDs, \E s : images' = [images EXCEPT ![i].status = s]
      PROVE  /\ images'[k].name = images[k].name
             /\ images'[k].own = images[k].own
             /\ images'[k].imported = images[k].imported
  BY <1>3 DEF TypeOK, Image
<1>4. CASE Calls /\ ~UNCHANGED images
  <2>1. CASE CreateImage \/ CreateImageFails
    <3>1. Created.imported = -1
      BY DEF Created
    <3> QED
      BY <1>2, <1>4, <2>1, <3>1 DEF CreateImage, CreateImageFails
  <2>2. CASE pc = "import" /\ RequestImport(imageID)
    BY <2>2 DEF RequestImport, TypeOK, Image
  <2> QED
    BY <1>4, <2>1, <2>2 DEF Calls, GetCloudFromSecret, GetCloudFromSecretFails,
       NewImageClient, AuthenticateFails, NewImageClientFails, ClientPanics,
       GetImageIDFound, GetImageIDNone, GetImageIDFails, ImportImage,
       ImportImageFails, GetImageFails, ImageTimedOut, ImageActive,
       ImageUnexpected, ImageAwaited, ownVars
<1>5. CASE Glance
  <2>1. PICK i \in ImageIDs :
          \/ ImportProceeds(i) \/ ImportAborts(i) \/ Deactivate(i) \/ DeleteImage(i)
          \/ Expunge(i) \/ \E n \in Names : ForeignUpload(i, n)
    BY <1>5 DEF Glance
  <2>2. CASE Expunge(i)
    BY <1>2, <2>2 DEF Expunge, NoImage
  <2>3. CASE \E n \in Names : ForeignUpload(i, n)
    <3>1. PICK n \in Names : ForeignUpload(i, n)
      BY <2>3
    <3> DEFINE v == [status |-> "active", name |-> n, own |-> FALSE, imported |-> -1]
    <3>2. /\ v.imported = -1 /\ Free(i)
          /\ images' = [images EXCEPT ![i] = v]
      BY <3>1 DEF ForeignUpload
    <3> QED
      BY <1>2, <3>2
  <2> QED
    BY <1>3, <2>1, <2>2, <2>3 DEF ImportProceeds, ImportAborts, Deactivate,
       DeleteImage, Becomes
<1>6. CASE (Patch /\ UNCHANGED images) \/ Runtime \/ Ownership \/ Restart \/ Tick
           \/ UNCHANGED vars
  BY <1>1, <1>6 DEF Runtime, Ownership, Restart, Tick, vars, ownVars
<1> QED
  BY <1>1, <1>4, <1>5, <1>6 DEF Next, Worker

(* While nobody deletes images, one that is alive stays alive.             *)
LEMMA LiveImagesStay ==
  ASSUME TypeOK, [Next]_vars, ImagesStay,
         NEW k \in ImageIDs, images[k].status \in Live
  PROVE  /\ images'[k].status \in Live
         /\ images'[k].name = images[k].name
         /\ images'[k].own = images[k].own
         /\ \/ images'[k].imported = images[k].imported
            \/ pc = "import" /\ k = imageID /\ images'[k].imported = now
<1>1. ~Free(k) /\ images'[k].status \in Live
  BY DEF Free, Live, ImagesStay
<1>2. NoImage.status \notin Live
  BY DEF NoImage, Live
<1> QED
  BY <1>1, <1>2, ImageSteps

(* So what has been requested of an own image has been requested for good. *)
LEMMA RequestedForGood ==
  ASSUME TypeOK, ImportIsFirst, [Next]_vars, ImagesStay,
         NEW r \in Releases, NEW t \in Int, RequestedBy(r, t)
  PROVE  RequestedBy(r, t)'
<1>1. PICK k \in ImageIDs : /\ OwnLive(k) /\ images[k].name = ImageOf[r]
                            /\ 0 <= images[k].imported /\ images[k].imported <= t
  BY DEF RequestedBy
<1>2. ~(pc = "import" /\ k = imageID)
  BY <1>1 DEF ImportIsFirst, OwnLive, TypeOK, Image
<1>3. /\ images'[k].status \in Live /\ images'[k].name = images[k].name
      /\ images'[k].own = images[k].own
      /\ images'[k].imported = images[k].imported
  BY <1>1, <1>2, LiveImagesStay DEF OwnLive
<1> QED
  BY <1>1, <1>3 DEF RequestedBy, OwnLive

LEMMA RequestedLater ==
  ASSUME TypeOK, NEW r \in Releases, NEW t \in Int, NEW u \in Int,
         RequestedBy(r, t), t <= u
  PROVE  RequestedBy(r, u)
BY DEF RequestedBy, TypeOK, Image

(* No import has been requested in the future.                             *)
LEMMA RequestsArePast ==
  ASSUME TypeOK, [Next]_vars, \A k \in ImageIDs : images[k].imported <= now
  PROVE  now <= now' /\ \A k \in ImageIDs : images'[k].imported <= now'
<1>1. now \in Nat /\ \A k \in ImageIDs : images[k].imported \in Int
  BY DEF TypeOK, ReconcilerTypeOK, Image
<1>2. now' = now \/ now' = now + 1
  BY DEF Next, Worker, Calls, GetCloudFromSecret, GetCloudFromSecretFails,
     NewImageClient, AuthenticateFails, NewImageClientFails, ClientPanics,
     GetImageIDFound, GetImageIDNone, GetImageIDFails, CreateImage,
     CreateImageFails, ImportImage, ImportImageFails, GetImageFails,
     ImageTimedOut, ImageActive, ImageUnexpected, ImageAwaited, Goto, Return,
     Patch, PatchConditionsZero, PatchConditions, PatchConditionsFails,
     PatchStatusZero, PatchStatus, PatchStatusFails, ConditionsDone, Finish,
     Runtime, Deliver, TimerFires, ReconcileMissing, ReconcileStart, Resync,
     Ownership, CreateObject, ChangeMetadata, DeleteObject, Restart, Crash,
     EndPanic, StartAgain, Glance, ImportProceeds, ImportAborts, Deactivate,
     DeleteImage, Becomes, Expunge, ForeignUpload, Tick, vars
<1> QED
  BY <1>1, <1>2, ImageSteps

-----------------------------------------------------------------------------
(* What steps do to the condition.                                         *)

(* Marking another condition, and the summary, leave it as it is.          *)
LEMMA OtherMarks ==
  ASSUME NEW o \in Object, NEW t \in Types \ {Started}, NEW s
  PROVE  /\ True(o, t).conds[Started] = o.conds[Started]
         /\ False(o, t, s).conds[Started] = o.conds[Started]
<1>1. Started \in Types
  BY TypesAre DEF Started
<1> QED
  BY <1>1, ObjectTypes DEF True, False, MarkTrue, MarkFalse, Set, Conds

LEMMA ReturnKeeps ==
  ASSUME NEW o \in Object, NEW res, Return(o, res)
  PROVE  obj'.conds[Started] = o.conds[Started]
<1>1. Started \in Types /\ Started # "Ready"
  BY TypesAre DEF Started
<1> QED
  BY <1>1, ObjectTypes DEF Return, SetSummary, Set, Conds

(* Only the lookup that found no image and importImage change it.          *)
LEMMA CallsKeepStarted ==
  ASSUME TypeOK, Calls, ~GetImageIDNone, ~ImportImage
  PROVE  obj'.conds[Started] = obj.conds[Started]
<1>1. /\ obj \in Object
      /\ {"CloudAvailable", "OpenStackImageReady",
          "OpenStackImageServiceClientAvailable"} \subseteq Types \ {Started}
  BY TypesAre DEF TypeOK, ReconcilerTypeOK, Started
<1>2. ASSUME NEW t \in {"CloudAvailable", "OpenStackImageReady",
                        "OpenStackImageServiceClientAvailable"}
      PROVE  /\ True(obj, t) \in Object
             /\ True(obj, t).conds[Started] = obj.conds[Started]
             /\ \A s \in States :
                  /\ False(obj, t, s) \in Object
                  /\ False(obj, t, s).conds[Started] = obj.conds[Started]
  <2>1. t \in Types \ {Started} /\ obj \in Object
    BY <1>1
  <2>2. True(obj, t) \in Object /\ \A s \in States : False(obj, t, s) \in Object
    BY <2>1, MarkTypes
  <2> QED
    BY <2>1, <2>2, OtherMarks
<1>3. /\ Issue(obj) \in Object
      /\ Issue(obj).conds[Started] = obj.conds[Started]
  BY <1>2, ReasonsKnown DEF Issue
<1>4. \A o \in Object, b \in BOOLEAN :
        [o EXCEPT !.ready = b] \in Object /\ [o EXCEPT !.ready = b].conds = o.conds
  BY DEF Object
<1>5. ASSUME NEW label, Goto(label, obj)
      PROVE  obj' = obj
  BY <1>5 DEF Goto
<1>6. ASSUME NEW o \in Object, o.conds[Started] = obj.conds[Started],
             (\E res : Return(o, res)) \/ (\E label : Goto(label, o))
      PROVE  obj'.conds[Started] = obj.conds[Started]
  BY <1>6, ReturnKeeps DEF Goto
<1>7. CASE GetCloudFromSecret \/ GetCloudFromSecretFails
  BY <1>2, <1>6, <1>7, ReasonsKnown DEF GetCloudFromSecret, GetCloudFromSecretFails
<1>8. CASE \/ NewImageClient \/ AuthenticateFails \/ NewImageClientFails
           \/ ClientPanics
  BY <1>1, <1>2, <1>6, <1>8, ReasonsKnown DEF NewImageClient, AuthenticateFails,
     NewImageClientFails, ClientPanics
<1>9. CASE \/ GetImageIDFound \/ GetImageIDFails \/ CreateImage
           \/ CreateImageFails \/ ImportImageFails \/ GetImageFails
  BY <1>1, <1>3, <1>6, <1>9 DEF GetImageIDFound, GetImageIDFails, CreateImage,
     CreateImageFails, ImportImageFails, GetImageFails
<1>10. CASE ImageTimedOut
  BY <1>2, <1>6, <1>10, ReasonsKnown DEF ImageTimedOut
<1>11. CASE ImageUnexpected
  <2>1. Return([Issue(obj) EXCEPT !.ready = FALSE], "done")
    BY <1>11 DEF ImageUnexpected
  <2>2. /\ [Issue(obj) EXCEPT !.ready = FALSE] \in Object
        /\ [Issue(obj) EXCEPT !.ready = FALSE].conds[Started] = obj.conds[Started]
    BY <1>3, <1>4
  <2> QED
    BY <1>6, <2>1, <2>2
<1>12. CASE ImageActive
  <2>1. True(obj, "OpenStackImageReady") \in Object
    BY <1>2
  <2> QED
    BY <1>2, <1>4, <1>6, <1>12, <2>1 DEF ImageActive
<1>13. CASE ImageAwaited
  <2>1. False(obj, "OpenStackImageReady", "OpenStackImageNotImportedYet") \in Object
    BY <1>2, ReasonsKnown
  <2> QED
    BY <1>2, <1>4, <1>6, <1>13, <2>1, ReasonsKnown DEF ImageAwaited
<1> QED
  BY <1>7, <1>8, <1>9, <1>10, <1>11, <1>12, <1>13 DEF Calls

LEMMA NoneFoundMarks ==
  ASSUME TypeOK, GetImageIDNone
  PROVE  ~IsTrue(obj'.conds, Started)
<1> DEFINE s == "OpenStackImageNotCreatedYet"
           o == False(obj, "OpenStackImageReady", s)
<1>1. o \in Object
  BY MarkTypes, TypesAre, ReasonsKnown DEF TypeOK, ReconcilerTypeOK
<1> HIDE DEF o
<1>2. False(o, Started, "OpenStackImageImportNotStart").conds[Started].state # "True"
  BY <1>1, TypesAre, ObjectTypes DEF False, MarkFalse, Set, Conds, Started
<1>3. obj' = [False(o, Started, "OpenStackImageImportNotStart") EXCEPT !.ready = FALSE]
  BY DEF GetImageIDNone, Goto, o, Started
<1> QED
  BY <1>2, <1>3 DEF IsTrue, False

LEMMA ImportMarks ==
  ASSUME TypeOK, ImportImage, ~IsTrue(obj.conds, Started)
  PROVE  obj'.conds[Started].since = now
<1>1. obj \in Object /\ now \in Nat /\ Started \in Types
  BY TypesAre DEF TypeOK, ReconcilerTypeOK, Started
<1>2. /\ True(obj, Started) \in Object
      /\ True(obj, Started).conds[Started].since = now
  BY <1>1, MarkTypes, ObjectTypes DEF True, MarkTrue, Set, IsTrue, Conds, Started
<1> QED
  BY <1>2, ReturnKeeps DEF ImportImage, Started

(* Which call leads to which.                                              *)
LEMMA CallsGoOn ==
  ASSUME Calls
  PROVE  /\ cur' = cur
         /\ pc' = "create" => GetImageIDNone
         /\ pc' = "import" => CreateImage
         /\ pc' = "get" => GetImageIDFound
BY DEF Calls, GetCloudFromSecret, GetCloudFromSecretFails, NewImageClient,
   AuthenticateFails, NewImageClientFails, ClientPanics, GetImageIDFound,
   GetImageIDNone, GetImageIDFails, CreateImage, CreateImageFails, ImportImage,
   ImportImageFails, GetImageFails, ImageTimedOut, ImageActive, ImageUnexpected,
   ImageAwaited, Goto, Return

(* The other steps drop Reconcile's copy of the object, take a new one     *)
(* from the cache, or leave it alone.                                      *)
LEMMA OtherSteps ==
  ASSUME [Next]_vars, ~Calls
  PROVE  \/ UNCHANGED <<pc, cur, obj, imageID>>
         \/ /\ cur' = cur /\ obj' \in {obj, NoObject}
            /\ pc' \notin {"create", "import", "get"}
         \/ cur' \in Releases /\ obj' = cache[cur'] /\ pc' = "secret"
<1>1. CASE Patch
  BY <1>1 DEF Patch, PatchConditionsZero, PatchConditions, PatchConditionsFails,
     PatchStatusZero, PatchStatus, PatchStatusFails, ConditionsDone, Finish, Forget
<1>2. CASE Runtime
  BY <1>2 DEF Runtime, Deliver, TimerFires, ReconcileMissing, ReconcileStart,
     Resync, workerVars, ownVars
<1>3. CASE Ownership \/ Restart
  BY <1>3 DEF Ownership, DeleteObject, CreateObject, ChangeMetadata, workerVars,
     Restart, Crash, EndPanic, StartAgain, Forget, ownVars
<1>4. CASE Glance \/ Tick \/ UNCHANGED vars
  BY <1>4 DEF Glance, ImportProceeds, ImportAborts, Deactivate, DeleteImage,
     Becomes, Expunge, ForeignUpload, Tick, vars, runtimeVars, ownVars
<1> QED
  BY <1>1, <1>2, <1>3, <1>4 DEF Next, Worker

-----------------------------------------------------------------------------
(* The invariant is preserved.                                             *)

LEMMA HonestForGood ==
  ASSUME TypeOK, ImportIsFirst, [Next]_vars, ImagesStay,
         NEW r \in Releases, NEW o \in Object, Honest(r, o)
  PROVE  Honest(r, o)'
<1>1. o.conds[Started].since \in Int
  BY TypesAre, ObjectTypes DEF Started, Conds, Condition
<1> QED
  BY <1>1, RequestedForGood DEF Honest

LEMMA SameIsHonest ==
  ASSUME NEW r, NEW o, NEW p, Honest(r, o), p.conds[Started] = o.conds[Started]
  PROVE  Honest(r, p)
BY DEF Honest, IsTrue

LEMMA BlankIsHonest ==
  /\ \A b \in BOOLEAN, m \in Owners : ~IsTrue(Blank(b, m).conds, Started)
  /\ ~IsTrue(NoObject.conds, Started)
BY TypesAre, ConstantsAssumption
   DEF Blank, NoObject, NoConditions, Absent, IsTrue, Started

(* What the deferred patch writes is the cached condition, Reconcile's     *)
(* own, or one that claims a start at this minute.                         *)
LEMMA MergedIsHonest ==
  ASSUME TypeOK, TimeInv
  PROVE  Merged \in Object /\ Honest(cur, Merged)
<1>1. /\ cur \in Releases /\ cache[cur] \in Object /\ obj \in Object
      /\ before \in Object /\ now \in Nat /\ Started \in Types
  BY TypesAre DEF TypeOK, ReconcilerTypeOK, Started
<1>2. Apply(cache[cur].conds, before.conds, obj.conds, now) \in Conds
  <2>1. /\ cache[cur].conds \in Conds /\ before.conds \in Conds
        /\ obj.conds \in Conds /\ now \in Int
    BY <1>1, ObjectTypes
  <2> QED
    BY <2>1, ApplyType
<1>3. Merged \in Object
        /\ Merged.conds = Apply(cache[cur].conds, before.conds, obj.conds, now)
  BY <1>1, <1>2, ObjectTypes DEF Merged
<1>4. Honest(cur, cache[cur]) /\ Honest(cur, obj)
  BY <1>1 DEF TimeInv, VersionsAreHonest, VersionsIn, HonestVersions
<1>5. CASE Merged.conds[Started] = cache[cur].conds[Started]
  BY <1>3, <1>4, <1>5, SameIsHonest
<1>6. CASE Merged.conds[Started] = obj.conds[Started]
  BY <1>3, <1>4, <1>6, SameIsHonest
<1>7. CASE Merged.conds[Started] = [state |-> obj.conds[Started].state, since |-> now]
  <2>1. IsTrue(obj.conds, Started) => RequestedBy(cur, now)
    BY <1>1, <1>4 DEF Honest, RequestedBy, TimeInv
  <2> QED
    BY <1>3, <1>7, <2>1 DEF Honest, IsTrue
<1> QED
  BY <1>1, <1>3, <1>5, <1>6, <1>7 DEF Apply, Started

LEMMA VersionsStayHonest ==
  ASSUME TypeOK, ImportIsFirst, TimeInv, [Next]_vars, ImagesStay
  PROVE  VersionsAreHonest'
<1> SUFFICES ASSUME NEW r \in Releases
             PROVE  VersionsIn(r, HonestVersions(r))'
  BY DEF VersionsAreHonest
<1>1. PICK S : S = HonestVersions(r)'
  OBVIOUS
<1>2. \A o \in Object : Honest(r, o) => o \in S
  BY <1>1, HonestForGood DEF HonestVersions
<1>3. VersionsIn(r, S)
  <2>1. VersionsIn(r, HonestVersions(r))
    BY DEF TimeInv, VersionsAreHonest
  <2>2. HonestVersions(r) \subseteq S
    BY <1>2 DEF HonestVersions
  <2> QED
    BY <2>1, <2>2, VersionsInMore
<1>4. \A b \in BOOLEAN, m \in Owners : Blank(b, m) \in S
  BY <1>2, BlankIsHonest, ObjectTypes DEF Honest
<1>5. stored[r] \in Object /\ Honest(r, stored[r])
  BY DEF TimeInv, VersionsAreHonest, VersionsIn, HonestVersions
<1>6. \A m \in Owners : [stored[r] EXCEPT !.meta = m] \in S
  BY <1>2, <1>5, SameIsHonest DEF Object
<1>7. [stored[r] EXCEPT !.ready = obj.ready] \in S
  <2>1. obj.ready \in BOOLEAN
    BY DEF Object, TypeOK, ReconcilerTypeOK
  <2> QED
    BY <1>2, <1>5, <2>1, SameIsHonest DEF Object
<1>8. cur = r => Merged \in S
  BY <1>2, MergedIsHonest
<1>9. VersionsIn(r, S)'
  BY <1>3, <1>4, <1>6, <1>7, <1>8, VersionsStep
<1> QED
  BY <1>1, <1>9 DEF VersionsIn

(* The image that is about to be imported is the release's own.            *)
LEMMA ImportIsRequested ==
  ASSUME TypeOK, TimeInv, ImportImage
  PROVE  RequestedBy(cur, now)'
<1>1. /\ imageID \in ImageIDs /\ images[imageID].own
      /\ images[imageID].name = ImageOf[cur]
  BY DEF TimeInv, ImportsItsOwn, ImportImage, OwnLive
<1>2. /\ images'[imageID].own /\ images'[imageID].name = ImageOf[cur]
      /\ images'[imageID].status = "importing" /\ images'[imageID].imported = now
  BY <1>1 DEF ImportImage, RequestImport, TypeOK, Image
<1>3. UNCHANGED <<now, cur>> /\ now \in Nat /\ "importing" \in Live
  BY DEF ImportImage, Return, TypeOK, ReconcilerTypeOK, Live, Statuses, Waiting
<1> QED
  BY <1>1, <1>2, <1>3 DEF RequestedBy, OwnLive

LEMMA ObjStaysHonest ==
  ASSUME TypeOK, ImportIsFirst, TimeInv, [Next]_vars, ImagesStay
  PROVE  Honest(cur, obj)'
<1>1. /\ cur \in Releases /\ obj \in Object
      /\ \A r \in Releases : cache[r] \in Object /\ Honest(r, cache[r])
  BY DEF TypeOK, ReconcilerTypeOK, TimeInv, VersionsAreHonest, VersionsIn,
         HonestVersions
<1>2. \A r \in Releases, o \in Object : Honest(r, o) => Honest(r, o)'
  BY HonestForGood
<1>3. CASE Calls /\ ~GetImageIDNone /\ ~ImportImage
  <2>1. cur' = cur /\ obj'.conds[Started] = obj.conds[Started]
    BY <1>3, CallsGoOn, CallsKeepStarted
  <2>2. PICK o \in Object : o = obj
    BY <1>1
  <2>3. Honest(cur, o)'
    <3>1. PICK r \in Releases : r = cur
      BY <1>1
    <3> QED
      BY <1>2, <2>1, <2>2, <3>1 DEF TimeInv, Honest, IsTrue
  <2> QED
    BY <2>1, <2>2, <2>3 DEF Honest, IsTrue
<1>4. CASE GetImageIDNone
  BY <1>4, NoneFoundMarks DEF Honest
<1>5. CASE ImportImage
  <2>1. ~IsTrue(obj.conds, Started)
    BY <1>5 DEF TimeInv, ImportsItsOwn, ImportImage
  <2>2. obj'.conds[Started].since = now
    BY <1>5, <2>1, ImportMarks
  <2>3. now' = now
    BY <1>5 DEF ImportImage, Return
  <2> QED
    BY <1>5, <2>2, <2>3, ImportIsRequested DEF Honest, RequestedBy
<1>6. CASE ~Calls
  <2>1. CASE cur' = cur /\ obj' \in {obj, NoObject}
    <3>1. PICK r \in Releases : r = cur
      BY <1>1
    <3>2. PICK o \in Object : o = obj
      BY <1>1
    <3>3. Honest(r, o)'
      BY <1>2, <3>1, <3>2 DEF TimeInv
    <3> QED
      BY <2>1, <3>1, <3>2, <3>3, BlankIsHonest DEF Honest
  <2>2. CASE cur' \in Releases /\ obj' = cache[cur']
    <3>1. PICK r \in Releases : r = cur'
      BY <2>2
    <3>2. PICK o \in Object : o = cache[r]
      BY <1>1
    <3>3. Honest(r, o)'
      BY <1>1, <1>2, <3>2
    <3> QED
      BY <2>2, <3>1, <3>2, <3>3 DEF Honest
  <2> QED
    BY <1>6, <2>1, <2>2, OtherSteps
<1> QED
  BY <1>3, <1>4, <1>5, <1>6

(* createImage makes the image that importImage is called for.             *)
LEMMA ImportsStayOwn ==
  ASSUME TypeOK, TimeInv, [Next]_vars, ImagesStay
  PROVE  ImportsItsOwn'
<1>1. CASE GetImageIDNone
  BY <1>1, NoneFoundMarks DEF ImportsItsOwn, GetImageIDNone, Goto
<1>2. CASE CreateImage
  <2>1. PICK i \in ImageIDs : images' = [images EXCEPT ![i] = Created] /\ imageID' = i
    BY <1>2 DEF CreateImage
  <2>2. images'[i] = Created
    BY <2>1 DEF TypeOK
  <2>3. Created.own /\ Created.status \in Live /\ Created.name = ImageOf[cur]
    BY DEF Created, Live, Statuses, Waiting
  <2>4. UNCHANGED <<obj, cur>> /\ pc = "create"
    BY <1>2 DEF CreateImage, Goto
  <2> QED
    BY <2>1, <2>2, <2>3, <2>4 DEF ImportsItsOwn, OwnLive, TimeInv
<1>3. CASE Calls /\ ~GetImageIDNone /\ ~CreateImage
  BY <1>3, CallsGoOn DEF ImportsItsOwn
<1>4. CASE ~Calls /\ UNCHANGED <<pc, cur, obj, imageID>>
  <2>1. ASSUME pc = "import"
        PROVE  /\ images'[imageID].status \in Live
               /\ images'[imageID].name = images[imageID].name
               /\ images'[imageID].own = images[imageID].own
    BY <2>1, LiveImagesStay DEF TimeInv, ImportsItsOwn, OwnLive
  <2> QED
    BY <1>4, <2>1 DEF TimeInv, ImportsItsOwn, OwnLive
<1>5. CASE ~Calls /\ ~UNCHANGED <<pc, cur, obj, imageID>>
  BY <1>5, OtherSteps DEF ImportsItsOwn
<1> QED
  BY <1>1, <1>2, <1>3, <1>4, <1>5

(* What a lookup finds is the image whose import the condition is about:   *)
(* that one is alive and of the name, and the lookup found only one.       *)
LEMMA FoundStaysImported ==
  ASSUME TypeOK, ImportIsFirst, TimeInv, [Next]_vars, ImagesStay
  PROVE  FoundIsImported'
<1>1. obj \in Object /\ cur \in Releases
  BY DEF TypeOK, ReconcilerTypeOK
<1>2. CASE GetImageIDFound
  <2>1. PICK i \in ImageIDs : Found = {i} /\ imageID' = i
    BY <1>2 DEF GetImageIDFound, Found, Listed
  <2>2. UNCHANGED <<obj, images>>
    BY <1>2 DEF GetImageIDFound, Goto
  <2>3. ASSUME IsTrue(obj.conds, Started)
        PROVE  images[i].imported <= obj.conds[Started].since
    <3>1. PICK k \in ImageIDs : /\ OwnLive(k) /\ images[k].name = ImageOf[cur]
                                /\ images[k].imported <= obj.conds[Started].since
      BY <2>3 DEF TimeInv, Honest, RequestedBy
    <3>2. i \in Found
      BY <2>1
    <3>3. k \in Found
      BY <3>1, <3>2 DEF Found, Listed, OwnLive
    <3> QED
      BY <2>1, <3>1, <3>3
  <2> QED
    BY <2>1, <2>2, <2>3 DEF FoundIsImported
<1>3. CASE Calls /\ ~GetImageIDFound
  BY <1>3, CallsGoOn DEF FoundIsImported
<1>4. CASE ~Calls /\ UNCHANGED <<pc, cur, obj, imageID>>
  <2> SUFFICES ASSUME pc = "get", IsTrue(obj.conds, Started)
               PROVE  images'[imageID].imported <= obj.conds[Started].since
    BY <1>4 DEF TimeInv, FoundIsImported
  <2>1. imageID \in ImageIDs /\ images[imageID].imported <= obj.conds[Started].since
    BY DEF TimeInv, FoundIsImported
  <2>2. -1 <= obj.conds[Started].since
    <3>1. obj.conds[Started].since \in Int
      BY <1>1, TypesAre, ObjectTypes DEF Started, Conds, Condition
    <3> QED
      BY <1>1, <3>1 DEF TimeInv, Honest, RequestedBy, TypeOK, Image
  <2>3. \/ images'[imageID].imported = images[imageID].imported
        \/ images'[imageID].imported = -1
    BY <2>1, ImageSteps
  <2> QED
    BY <2>1, <2>2, <2>3
<1>5. CASE ~Calls /\ ~UNCHANGED <<pc, cur, obj, imageID>>
  BY <1>5, OtherSteps DEF FoundIsImported
<1> QED
  BY <1>2, <1>3, <1>4, <1>5

LEMMA TimeStep ==
  ASSUME TypeOK, ImportIsFirst, TimeInv, [Next]_vars, ImagesStay
  PROVE  TimeInv'
BY VersionsStayHonest, ObjStaysHonest, RequestsArePast, ImportsStayOwn,
   FoundStaysImported DEF TimeInv

LEMMA TimeInit ==
  ASSUME Init
  PROVE  TimeInv
<1>1. cur \in Releases /\ obj = NoObject /\ pc = "idle"
  BY DEF Init, ReconcilerInit
<1>2. \A r \in Releases : VersionsIn(r, HonestVersions(r))
  <2>1. \A r \in Releases : Honest(r, NoObject)
    BY BlankIsHonest DEF Honest
  <2> QED
    BY <2>1, ObjectTypes, EmptySeq
       DEF Init, ReconcilerInit, VersionsIn, HonestVersions
<1>3. \A k \in ImageIDs : images[k].imported <= now
  BY DEF Init, ReconcilerInit, NoImage
<1> QED
  BY <1>1, <1>2, <1>3, BlankIsHonest
     DEF TimeInv, VersionsAreHonest, Honest, ImportsItsOwn, FoundIsImported

(* While nobody deletes images, an import is declared timed out only when  *)
(* the import of that very image has lasted longer than the timeout: lost  *)
(* patches, stale caches, crashes, failed calls, releases that share an    *)
(* image and images of other people's do not mislead the controller.       *)
THEOREM TimeoutIsFair ==
  Spec /\ [][ImagesStay]_vars => []TimeoutMeasuresThisImport
<1>1. Init => ImportIsFirst
  BY DEF Init, ReconcilerInit, ImportIsFirst
<1>2. TypeOK /\ ImportIsFirst /\ [Next]_vars => ImportIsFirst'
  BY FirstStep
<1>3. TypeOK /\ ImportIsFirst /\ TimeInv /\ [Next]_vars /\ [ImagesStay]_vars
        => TimeInv'
  <2>1. ASSUME TimeInv, UNCHANGED vars
        PROVE  TimeInv'
    BY <2>1 DEF TimeInv, VersionsAreHonest, VersionsIn, HonestVersions, Honest,
       RequestedBy, OwnLive, ImportsItsOwn, FoundIsImported, IsTrue, vars,
       runtimeVars, ownVars
  <2> QED
    BY <2>1, TimeStep
<1>4. TypeOK /\ TimeInv => TimeoutMeasuresThisImport
  <2> SUFFICES ASSUME TypeOK, TimeInv, Got(Waiting), TimedOut
               PROVE  ImportAge > ImageImportTimeout
    BY DEF TimeoutMeasuresThisImport
  <2>1. /\ imageID \in ImageIDs
        /\ images[imageID].imported <= obj.conds[Started].since
        /\ now - obj.conds[Started].since > ImageImportTimeout
    BY DEF TimeInv, FoundIsImported, Got, TimedOut, ElapsedTime, Started
  <2>2. /\ images[imageID].imported \in Int /\ now \in Int
        /\ obj.conds[Started].since \in Int
    BY <2>1, TypesAre, ObjectTypes
       DEF TypeOK, ReconcilerTypeOK, Image, Started, Conds, Condition
  <2> QED
    BY <2>1, <2>2, ConstantsAssumption DEF ImportAge
<1> QED
  BY <1>1, <1>2, <1>3, <1>4, TimeInit, TypeCorrect, PTL DEF Spec
=============================================================================
