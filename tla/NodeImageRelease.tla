-------------------------- MODULE NodeImageRelease --------------------------
(***************************************************************************)
(* The OpenStackNodeImageRelease controller: it brings the image of every  *)
(* node image release into an OpenStack project and reports when it is     *)
(* usable.  Reconcile talks to OpenStack's image service (Glance) in       *)
(* several calls, each a step of its own here; between two of them Glance  *)
(* and people change the images, time passes, and the manager may crash.   *)
(*                                                                         *)
(* Bounds: MaxTime (clock), MaxImages (image quota), and those of module   *)
(* Reconciler.                                                             *)
(***************************************************************************)
EXTENDS Integers, Sequences, FiniteSets

CONSTANTS
  Releases,           (* OpenStackNodeImageRelease objects.                *)
  Names,              (* Images as getImageID looks them up: name and tags.*)
  ImageOf,            (* spec.image.createOpts of every release.           *)
  Hidden,             (* Names whose createOpts set os_hidden.             *)
  Unusable,           (* Releases from whose cloud no client can be built. *)
  Owners, NoOwners,   (* Owner references, which this controller carries   *)
                      (* along; those of no object.                        *)
  ImageImportTimeout, (* --image-import-timeout, in minutes.               *)
  MaxTime, MaxImages, MaxFaults, MaxLag

ASSUME ConstantsAssumption ==
  /\ Releases # {} /\ Names # {}
  /\ ImageOf \in [Releases -> Names]
  /\ Hidden \subseteq Names /\ Unusable \subseteq Releases
  /\ NoOwners \in Owners
  /\ ImageImportTimeout \in Int
  /\ MaxTime \in Nat /\ MaxImages \in Nat /\ MaxFaults \in Nat
  /\ MaxLag \in Nat \ {0}

(* By the names of the constants, in the order of their values: the value  *)
(* of OpenStackImageReadyCondition is "OpenStackImageActive".              *)
Kinds == <<"CloudAvailable", "OpenStackImageReady",
           "OpenStackImageImportStarted",
           "OpenStackImageServiceClientAvailable">>

Errors == {"SecretNotFound", "CloudNotSet", "OpenStackImageServiceClientNotSet",
           "OpenStackImageImportTimeOut", "IssueWithOpenStackImage"}

InfosForgotten ==   \* mutant: a reason missing from its list
  {"OpenStackImageNotCreatedYet", "OpenStackImageImportNotStart"}

Infos == {"OpenStackImageNotCreatedYet", "OpenStackImageImportNotStart",
          "OpenStackImageNotImportedYet"}

VARIABLES
  stored, feed, cache, queued, delayed, pc, cur, before, obj, result, now,
  faults,   (* See module Reconciler.                                      *)
  imageID,  (* The image Reconcile found or created.                       *)
  images    (* The images of the OpenStack project.                        *)

INSTANCE Reconciler WITH Objects <- Releases,
                         Metadata <- Owners, NoMetadata <- NoOwners,
                         Timed <- {"OpenStackImageImportStarted"}

runtimeVars == <<stored, feed, cache, queued, delayed, pc, cur, before, obj, result>>
ownVars     == <<imageID, images>>
vars        == <<runtimeVars, ownVars, now, faults>>

-----------------------------------------------------------------------------
Waiting  == {"queued", "saving", "deleted", "pending_delete", "importing"}
Statuses == Waiting \cup {"none", "active", "deactivated", "killed", "uploading"}
Live     == Statuses \ {"none", "deleted"}

(* own: made by this controller; imported: when its import was requested.  *)
Image == [status : Statuses, name : Names, own : BOOLEAN, imported : Int]

NoImage == [status |-> "none", name |-> CHOOSE n \in Names : TRUE,
            own |-> FALSE, imported |-> -1]

ImageIDs == 1..MaxImages

PCs == {"idle", "secret", "client", "list", "create", "import", "get",
        "conditions", "status", "panic"}

TypeOK ==
  /\ ReconcilerTypeOK
  /\ pc \in PCs
  /\ imageID \in 0..MaxImages
  /\ images \in [ImageIDs -> Image]

Init ==
  /\ ReconcilerInit
  /\ imageID = 0
  /\ images = [i \in ImageIDs |-> NoImage]

Tick ==
  /\ now < MaxTime
  /\ now' = now + 1
  /\ UNCHANGED <<runtimeVars, ownVars, faults>>

-----------------------------------------------------------------------------
(* Reconcile.                                                              *)

Issue(o) == False(o, "OpenStackImageReady", "IssueWithOpenStackImage")

GetCloudFromSecret ==
  /\ pc = "secret"
  /\ Goto("client", True(obj, "CloudAvailable"))
  /\ NoFault /\ UNCHANGED ownVars

GetCloudFromSecretFails ==
  /\ pc = "secret" /\ Fault
  /\ \/ Return(False(obj, "CloudAvailable", "SecretNotFound"), "after")
     \/ Return(False(obj, "CloudAvailable", "CloudNotSet"), "error")
  /\ UNCHANGED ownVars

Usable == pc = "client" /\ cur \notin Unusable

NewImageClient ==
  /\ Usable
  /\ Goto("list", True(obj, "OpenStackImageServiceClientAvailable"))
  /\ NoFault /\ UNCHANGED ownVars

(* Authentication fails: no condition says so and nothing is requeued.     *)
AuthenticateFails ==
  /\ Usable /\ Fault
  /\ Return(obj, "done")
  /\ UNCHANGED ownVars

NewImageClientFails ==
  /\ Usable /\ Fault
  /\ Return(False(obj, "OpenStackImageServiceClientAvailable",
                  "OpenStackImageServiceClientNotSet"), "done")
  /\ UNCHANGED ownVars

(* AuthOptions or NewClient returns nil, because the cloud is unusable or, *)
(* as a fault, was so for a while; their errors are not looked at.         *)
ClientPanics ==
  /\ pc = "client"
  /\ \/ NoFault /\ cur \in Unusable
     \/ Fault
  /\ Return(obj, "panic")
  /\ UNCHANGED ownVars

ListedActive(n) ==   \* mutant: the lookup asks for active images only
  {i \in ImageIDs : images[i].name = n /\ images[i].status = "active"}

(* What Glance lists for a name.                                           *)
Listed(n) == {i \in ImageIDs : /\ images[i].name = n /\ n \notin Hidden
                               /\ images[i].status \in Live}

Found == Listed(ImageOf[cur])

GetImageIDFoundImports ==   \* mutant: an image found queued is imported
  /\ pc = "list"
  /\ \E i \in Found :
       /\ Found = {i} /\ imageID' = i
       /\ Goto(IF images[i].status = "queued" THEN "import" ELSE "get", obj)
  /\ NoFault /\ UNCHANGED images

GetImageIDFound ==
  /\ pc = "list"
  /\ \E i \in Found : Found = {i} /\ imageID' = i
  /\ Goto("get", obj)
  /\ NoFault /\ UNCHANGED images

GetImageIDNoneOnce ==   \* mutant: an image imported once is not created again
  /\ pc = "list" /\ Found = {}
  /\ IF IsTrue(obj.conds, "OpenStackImageImportStarted")
     THEN Return(Issue(obj), "after")
     ELSE Goto("create", [False(obj, "OpenStackImageReady", "OpenStackImageNotCreatedYet")
                          EXCEPT !.ready = FALSE])
  /\ NoFault /\ UNCHANGED ownVars

GetImageIDNone ==
  /\ pc = "list" /\ Found = {}
  /\ Goto("create",
          [False(False(obj, "OpenStackImageReady", "OpenStackImageNotCreatedYet"),
                 "OpenStackImageImportStarted", "OpenStackImageImportNotStart")
           EXCEPT !.ready = FALSE])
  /\ NoFault /\ UNCHANGED ownVars

(* The list call fails, or finds more than one image.                      *)
GetImageIDFails ==
  /\ pc = "list"
  /\ \/ Fault
     \/ NoFault /\ (\E i, j \in Found : i # j)
  /\ Return(Issue(obj), "done")
  /\ UNCHANGED ownVars

Created == [status |-> "queued", name |-> ImageOf[cur], own |-> TRUE,
            imported |-> -1]

Free(i) == images[i].status = "none"

CreateImage ==
  /\ pc = "create"
  /\ \E i \in ImageIDs :
       /\ Free(i)
       /\ images' = [images EXCEPT ![i] = Created]
       /\ imageID' = i
  /\ Goto("import", obj)
  /\ NoFault

CreateImageRetries ==   \* mutant: createImage is called again after a failure
  /\ pc = "create" /\ Fault
  /\ \E i \in ImageIDs : Free(i) /\ images' = [images EXCEPT ![i] = Created]
  /\ Goto("create", obj)
  /\ UNCHANGED imageID

(* The quota is reached, or the call fails, having created the image or    *)
(* not.                                                                    *)
CreateImageFails ==
  /\ pc = "create"
  /\ \/ NoFault /\ UNCHANGED images /\ (\A i \in ImageIDs : ~Free(i))
     \/ Fault /\ UNCHANGED images
     \/ /\ Fault
        /\ \E i \in ImageIDs : Free(i) /\ images' = [images EXCEPT ![i] = Created]
  /\ Return(Issue(obj), "done")
  /\ UNCHANGED imageID

RequestImport(i) ==
  images' = [images EXCEPT ![i].status = "importing", ![i].imported = now]

ImportImage ==
  /\ pc = "import" /\ images[imageID].status = "queued"
  /\ RequestImport(imageID)
  /\ Return(True(obj, "OpenStackImageImportStarted"), "requeue")
  /\ NoFault /\ UNCHANGED imageID

(* The image is not queued any more, or the call fails, having started the *)
(* import or not.                                                          *)
ImportImageFails ==
  /\ pc = "import"
  /\ \/ NoFault /\ images[imageID].status # "queued" /\ UNCHANGED images
     \/ Fault /\ UNCHANGED images
     \/ Fault /\ images[imageID].status = "queued" /\ RequestImport(imageID)
  /\ Return(Issue(obj), "done")
  /\ UNCHANGED imageID

GetImageFails ==
  /\ pc = "get"
  /\ \/ Fault
     \/ NoFault /\ images[imageID].status = "none"
  /\ Return(Issue(obj), "done")
  /\ UNCHANGED ownVars

Status == images[imageID].status

ElapsedTime == now - obj.conds["OpenStackImageImportStarted"].since

TimedOutEarly ==   \* mutant: off by one
  /\ ImageImportTimeout > 0
  /\ IsTrue(obj.conds, "OpenStackImageImportStarted")
  /\ Status # "active"
  /\ ElapsedTime >= ImageImportTimeout

TimedOut ==
  /\ ImageImportTimeout > 0
  /\ IsTrue(obj.conds, "OpenStackImageImportStarted")
  /\ Status # "active"
  /\ ElapsedTime > ImageImportTimeout

(* images.Get answers with an image in one of these statuses.              *)
Got(statuses) == pc = "get" /\ Status \in statuses

ImageTimedOut ==
  /\ Got(Statuses \ {"none"}) /\ TimedOut
  /\ Return(False(obj, "OpenStackImageReady", "OpenStackImageImportTimeOut"), "done")
  /\ NoFault /\ UNCHANGED ownVars

ImageActiveSilent ==   \* mutant: status.ready is not set
  /\ Got({"active"})
  /\ Return(True(obj, "OpenStackImageReady"), "done")
  /\ NoFault /\ UNCHANGED ownVars

ImageActive ==
  /\ Got({"active"})
  /\ Return([True(obj, "OpenStackImageReady") EXCEPT !.ready = TRUE], "done")
  /\ NoFault /\ UNCHANGED ownVars

ImageUnexpectedKept ==   \* mutant: status.ready is not reset
  /\ Got({"deactivated", "killed", "uploading"}) /\ ~TimedOut
  /\ Return(Issue(obj), "done")
  /\ NoFault /\ UNCHANGED ownVars

(* "deactivated" and "killed" are unexpected, "uploading" is not known.    *)
ImageUnexpected ==
  /\ Got({"deactivated", "killed", "uploading"}) /\ ~TimedOut
  /\ Return([Issue(obj) EXCEPT !.ready = FALSE], "done")
  /\ NoFault /\ UNCHANGED ownVars

ImageAwaited ==
  /\ Got(Waiting) /\ ~TimedOut
  /\ Return([False(obj, "OpenStackImageReady", "OpenStackImageNotImportedYet")
             EXCEPT !.ready = FALSE], "after")
  /\ NoFault /\ UNCHANGED ownVars

-----------------------------------------------------------------------------
(* Glance, and people at work in the same project.                         *)

Becomes(i, statuses) ==
  /\ \E s \in statuses : images' = [images EXCEPT ![i].status = s]
  /\ UNCHANGED <<runtimeVars, imageID, now>>

ImportProceeds(i) ==
  /\ \/ images[i].status = "importing" /\ Becomes(i, {"uploading", "saving"})
     \/ images[i].status \in {"uploading", "saving"} /\ Becomes(i, {"active"})
  /\ NoFault

ImportAborts(i) ==
  /\ images[i].status \in {"importing", "uploading", "saving"}
  /\ Becomes(i, {"killed", "queued"}) /\ Fault

Deactivate(i) ==
  images[i].status = "active" /\ Becomes(i, {"deactivated"}) /\ Fault

DeleteImage(i) ==
  /\ images[i].status \in Live \ {"pending_delete"}
  /\ Becomes(i, {"pending_delete", "deleted"}) /\ Fault

Expunge(i) ==
  /\ images[i].status \in {"pending_delete", "deleted"}
  /\ images' = [images EXCEPT ![i] = NoImage]
  /\ NoFault /\ UNCHANGED <<runtimeVars, imageID, now>>

(* Somebody else uploads an image under one of the names.                  *)
ForeignUpload(i, n) ==
  /\ Free(i) /\ Fault
  /\ images' = [images EXCEPT ![i] = [status |-> "active", name |-> n,
                                      own |-> FALSE, imported |-> -1]]
  /\ UNCHANGED <<runtimeVars, imageID, now>>

-----------------------------------------------------------------------------
Calls ==
  \/ GetCloudFromSecret \/ GetCloudFromSecretFails
  \/ NewImageClient \/ AuthenticateFails \/ NewImageClientFails \/ ClientPanics
  \/ GetImageIDFound \/ GetImageIDNone \/ GetImageIDFails
  \/ CreateImage \/ CreateImageFails \/ ImportImage \/ ImportImageFails
  \/ GetImageFails \/ ImageTimedOut \/ ImageActive \/ ImageUnexpected
  \/ ImageAwaited

(* imageID is a local of Reconcile the deferred function does not use.     *)
Worker ==
  \/ Calls
  \/ Patch /\ imageID' = 0 /\ UNCHANGED images

(* What happens to the objects outside of Reconcile, and its beginning.    *)
Runtime ==
  /\ \/ \E r \in Releases : \/ Deliver(r) \/ TimerFires(r)
                             \/ ReconcileMissing(r) \/ ReconcileStart(r, "secret")
     \/ Resync
  /\ UNCHANGED ownVars

Ownership ==
  /\ \E r \in Releases :
       \/ DeleteObject(r)
       \/ \E m \in Owners : CreateObject(r, m) \/ ChangeMetadata(r, m)
  /\ UNCHANGED ownVars

Restart == (Crash \/ EndPanic) /\ imageID' = 0 /\ UNCHANGED images

Glance ==
  \E i \in ImageIDs : \/ ImportProceeds(i) \/ ImportAborts(i) \/ Deactivate(i)
                      \/ DeleteImage(i) \/ Expunge(i)
                      \/ \E n \in Names : ForeignUpload(i, n)

Next == Worker \/ Runtime \/ Ownership \/ Restart \/ Glance \/ Tick

Spec == Init /\ [][Next]_vars

(* The worker runs; the queue is first in, first out, so a queued release  *)
(* is started again and again; watch, timers and resync make progress; a   *)
(* process that ended is started again.                                    *)
(* Glance gets on with an import; people and faults owe us nothing.        *)
Fairness ==
  /\ WF_vars(Worker)
  /\ WF_vars(Resync /\ UNCHANGED ownVars)
  /\ WF_vars(EndPanic /\ imageID' = 0 /\ UNCHANGED images)
  /\ \A r \in Releases :
       /\ WF_vars(Deliver(r) /\ UNCHANGED ownVars)
       /\ WF_vars(TimerFires(r) /\ UNCHANGED ownVars)
       /\ SF_vars(/\ ReconcileMissing(r) \/ ReconcileStart(r, "secret")
                  /\ UNCHANGED ownVars)
  /\ \A i \in ImageIDs : WF_vars(ImportProceeds(i)) /\ WF_vars(Expunge(i))

FairSpec == Spec /\ Fairness

(* Nobody deletes an image in Glance.                                      *)
ImagesStay == \A i \in ImageIDs : Free(i) \/ images'[i].status \in Live

-----------------------------------------------------------------------------
(* Properties.                                                             *)

(* Two live images of one name that this controller made.                  *)
OwnTwins(i, j) ==
  /\ i # j /\ images[i].name = images[j].name
  /\ images[i].own /\ images[j].own
  /\ images[i].status \in Live /\ images[j].status \in Live

(* Whatever is lost, deleted, retried or shared between releases, the      *)
(* controller never has two live images of one name in the project: the    *)
(* getImageID/createImage pair is not atomic, and a second image would     *)
(* make every later lookup fail with "too many images".                    *)
AtMostOneOwnImage == \A i, j \in ImageIDs : ~OwnTwins(i, j)

(* From the moment the lookup found no image until createImage is called,  *)
(* no live image of that name by this controller exists: nobody else can   *)
(* have created it in between, because one worker serves all releases.     *)
CreateIsSafe ==
  pc = "create" =>
    ~ \E i \in ImageIDs : /\ images[i].own /\ images[i].name = ImageOf[cur]
                          /\ images[i].status \in Live

(* What Glance holds for a release is one image, in one of these statuses. *)
Only(r, statuses) ==
  /\ stored[r].exists
  /\ \E i \in ImageIDs : /\ Listed(ImageOf[r]) = {i}
                         /\ images[i].status \in statuses

ReportsReady(r) ==
  stored[r].ready /\ IsTrue(stored[r].conds, "OpenStackImageReady")

(* Once a release's image is there and stays active, the release becomes   *)
(* ready for good, in status.ready and in its conditions, through lost     *)
(* patches, failed calls, crashes, stale reads and dropped requeues.       *)
ActiveBecomesReady ==
  \A r \in Releases : <>[]Only(r, {"active"}) => <>[]ReportsReady(r)

(* A release whose image stays deactivated or killed ends up not ready:    *)
(* the cluster stack release above must not go on using it.                *)
UnusableBecomesNotReady ==
  \A r \in Releases :
    <>[]Only(r, {"deactivated", "killed"}) => <>[](~stored[r].ready)

(* While a release exists its image does not stay missing: whatever call   *)
(* failed, a later reconcile creates it, as long as the quota allows.      *)
MissingImageIsCreated ==
  \A r \in Releases :
    []<>(\/ ~stored[r].exists \/ Listed(ImageOf[r]) # {}
         \/ \A i \in ImageIDs : ~Free(i))

ImportAge == now - images[imageID].imported

Imported == images[imageID].imported >= 0

(* An import is declared timed out only when the import of that very image *)
(* has lasted longer than --image-import-timeout.                          *)
TimeoutMeasuresThisImport ==
  Got(Waiting) /\ Imported /\ TimedOut => ImportAge > ImageImportTimeout

(* With --image-import-timeout set, Reconcile does not go on waiting for   *)
(* an import that has lasted longer.                                       *)
ImportTimeIsBounded ==
  /\ ImageImportTimeout > 0
  /\ Got({"importing", "saving"}) /\ ImportAge > ImageImportTimeout
  => TimedOut

(* Reconcile waits for a queued image of its own because an import of it   *)
(* has been requested.                                                     *)
QueuedIsBeingImported ==
  Got({"queued"}) /\ images[imageID].own /\ ~TimedOut => Imported

(* A release whose cloud no client can be built from ends up with a        *)
(* condition that says so.                                                 *)
UnusableCloudIsReported ==
  \A r \in Unusable :
    <>[]stored[r].exists => <>[](stored[r].conds["CloudAvailable"].state = "CloudNotSet")

-----------------------------------------------------------------------------
(* What the controller promises about the images it makes.                 *)

Phase(s) ==
  CASE s \in {"none", "deleted"} -> "gone"
    [] s = "queued" -> "queued"
    [] s \in {"importing", "uploading", "saving"} -> "importing"
    [] s = "active" -> "active"
    [] s \in {"deactivated", "killed"} -> "unusable"
    [] s = "pending_delete" -> "deleting"

NotMade == [phase |-> "gone", name |-> CHOOSE n \in Names : TRUE,
            requested |-> FALSE]

AsMade(image) ==
  IF image.own /\ image.status \in Live
  THEN [phase |-> Phase(image.status), name |-> image.name,
        requested |-> image.imported >= 0]
  ELSE NotMade

Made == [i \in ImageIDs |-> AsMade(images[i])]

Promise == INSTANCE ImageImport WITH made <- Made

(* Every step of this controller, of Glance and of people is a step of     *)
(* ImageImport or none: of one name one image is made at most, and no      *)
(* image is imported a second time, not even one whose import failed and   *)
(* which Glance holds queued again.                                        *)
KeepsPromise == Promise!Spec
=============================================================================
