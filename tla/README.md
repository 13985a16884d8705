# Verification of the cluster stack provider OpenStack (CSPO)

TLA+ modules, TLC configurations and TLAPS proofs about the program in this
repository. Line numbers refer to the sources at the commit this directory
stands beside. `PROJECT.json` maps every definition to the lines it models and
lists runs, mutants, findings, hazards and theorems.

## 1. The system

CSPO is a Kubernetes operator. One process (`cmd/main.go`, the *manager*) runs
two controllers, each with one worker, against the API server, an OpenStack
project's image service (Glance) and a host of release assets.

| Component | State it keeps | Operations | Made correct by |
|---|---|---|---|
| **OpenStackNodeImageRelease controller** (`internal/controller/openstacknodeimagerelease_controller.go`) | `status.ready` and conditions of each node image release; images in Glance | read credentials, build a client, look the image up, create it, request its import, read its status, time the import out | at most one image per name; readiness follows the image; the timeout measures the import |
| **OpenStackClusterStackRelease controller** (`internal/controller/openstackclusterstackrelease_controller.go`) | `status.ready` and conditions of each cluster stack release; its release directory; existence and owner references of node image releases | download assets, read `node-images.yaml`, create or own node image releases, list them, report readiness | no owner is lost; all node images are owned in the end; readiness follows theirs |
| **Status conditions** (cluster-api `util/conditions`) | conditions with their transition times | set, summarise in `Ready`, three-way merge | `Ready` is the summary |
| **Patch helper** (cluster-api `util/patch`) | the copy read at the start | patch conditions under an optimistic lock, then the rest of the status | no update of another step is undone |
| **Controller runtime** (controller-runtime, client-go) | cache, work queue, timers | watch, enqueue, resync every 5 minutes, requeue, back off | no object is forgotten |
| **Release assets** (cluster-stack-operator `pkg/release`, `pkg/clusterstack`, `pkg/assetsclient`) | files below `--release-dir` | parse a tag, examine a directory, download | a directory is complete or absent; names do not collide |
| **API types** (`api/v1alpha1`) | object types, condition types, reasons | deep copy (generated) | |
| Release template type, release notes tool, manifests, images, scripts | none at run time | | |

How they interact. Another operator (CSO) creates cluster stack releases, and may
delete one and create it again under its name, with a new UID. The cluster stack
release controller creates node image releases, adds itself to the owners of those
that exist, and reads their
`status.ready` from the manager's cache. It watches only its own kind, so what
the other controller writes reaches it through its own requeue (30 s) while not
ready, and the resync once ready. Both controllers read objects from the cache,
which follows the API server through a watch, and write to the API server. Each
write of a status comes back as an event that enqueues the object again: no
predicate filters events. Nobody deletes a node image release but people and the
garbage collector of Kubernetes, which compares the UIDs in owner references with
those of the owners that exist; the controller itself compares names.

What is hard. Lookup and creation in Glance are not atomic. Any call may fail
before or after its effect. Most failures return neither an error nor a requeue
and count on the next event. Copies are stale and are merged back later.
Conditions and `status.ready` are two calls. Releases share images. The manager
may die between two calls, or of a panic it meets again after every restart, and
people delete or deactivate images meanwhile.
`PROJECT.json` lists the hazards at their lines.

## 2. Modules

```
Conditions                      conditions: set, summary, three-way merge
  Reconciler                    API server, watch, cache, queue, timers, patch, crash
    NodeImageRelease            controller + Glance
      MCNodeImageRelease          instances for TLC
      NodeImageReleaseProofs      types, one image per name
        ImageImportProofs         NodeImageRelease implements ImageImport
          TimeoutProofs             the timeout measures the import it is about
    ClusterStackRelease         controller + node image releases + garbage collector
      MCClusterStackRelease       instances for TLC
      ClusterStackReleaseProofs   types
        OwnersProofs              owners are kept
    Cspo                        both controllers, INSTANCE of each with its proofs
      MCCspo                      instance for TLC
      CspoProofs                  what the controllers promise, of the whole program
ImageImport                     abstract: what happens to the images of the controller
ReleaseTag                      tags and names
  ReleaseTagProofs                what a name says
```

The two controllers take `Reconciler`, and `Reconciler` takes `Conditions`, by
INSTANCE or EXTENDS with the kinds, reasons and objects of their own. A definition
with `\* mutant` in its line is a plausible bug, used to see that a property notices
it; nothing else refers to it.

**Conditions.** A condition is its state (`Absent`, `True`, or the reason it is
False) and its transition time. Severity is a function of the reason, and the
message is left out: within one reason it differs only in the text of an error.
Transition times are kept only for the one condition whose time the program
reads, `OpenStackImageImportStarted`; the others stay 0, which keeps the state
space small and changes no decision. `Apply` is `NewPatch` followed by
`Patch.Apply`, without the options the controllers do not use.

**Reconciler.** What both controllers share. `stored` is the API server, `feed`
the events of the watch under way, `cache` the manager's cache, `queued` and
`delayed` the work queue and its timers. One worker: `pc` is the next remote call
of the running Reconcile, `before` the patch helper's copy, `obj` the copy it
changes, `result` what it will return. `Return` is the deferred function's
`SetSummary`; `PatchConditions*` and `PatchStatus*` are the two calls of
`Helper.Patch`. The optimistic lock holds iff the cache has caught up with the
API server; a lock that fails five times gives up, which is `~CanPatch`.
`Finish` is `reconcileHandler`. An error, a requeue and a requeue after some time
all arm a timer; how long it runs is abstracted. A panic still runs the deferred
patch, and then ends the process (`RecoverPanic` is not set): `pc = "panic"`, left by
`EndPanic`. `Crash` and `EndPanic` lose everything in memory and fill the cache anew.
Of an object's metadata the model keeps one value, `meta`: its UID for cluster stack
releases, its owner references for node image releases. A deleted object leaves it
behind, so that a later one gets a new UID.

**NodeImageRelease.** Each remote call of `Reconcile` is one action and one value of
`pc`: `secret`, `client`, `list`, `create`, `import`, `get`, then `conditions` and
`status`. A failed call either did nothing or took effect and lost its answer.
Glance and people at work are actions of their own. An image remembers whether
this controller made it and when its import was requested, which only the
properties read. `uploading` and `none` (a free place in the quota) are statuses
the program has no name for. Glance is assumed to list what it has
(`pending_delete` included, `deleted` and hidden images not). A cloud in `Unusable` is
one from which no client can be built (no `auth_url`, or one that is no URL): `opts`
or `providerClient` is nil and line 138 or 160 panics (`ClientPanics`). `Ownership` is
what the controller above and the garbage collector do to the objects: each changes
the resourceVersion, and so the lock, under a reconcile that is under way.

**ImageImport.** The abstract specification: a controller that makes at most one image
of a name, asks for its import once, and otherwise lets Glance and people act. The
refinement mapping `Made` keeps of `images` those the controller made and Glance
lists, and maps their statuses to phases. `KeepsPromise` is
`ImageImport!Spec` under that mapping: all of credentials, lookups, lost answers,
conditions and crashes must be stutters.

**ClusterStackRelease.** `dirs` is what a release directory holds as far as
`release.New` and `getNodeImagesFromLocal` tell apart. `nirs`, `nirFeed` and
`nirCache` are the node image releases at the API server, under way and in the
cache. Events of different node image releases may overtake each other here, those
of one may not; the one watch of the program allows fewer orders. The owner
references of a node image release are a UID for each name (0 for none): `EnsureOwner`
replaces the reference of that name in the cached copy and writes it under the lock,
`Owned` looks at names. `CollectGarbage` is the garbage collector on the stored
objects: references whose owner is gone are dangling; with no solid one left the
object is deleted, otherwise they are dropped. The loop over node images follows
`todo`. A restart either loses the release directory (a new container: the manifests
of `config/manager` mount no volume) or keeps it, with what an interrupted download
had got to (`docs/develop.md:63`).

**Cspo.** The program: `main` starts both controllers in one process. The node image
releases of the one are the objects of the other, so `nirs`, `nirFeed` and `nirCache`
take the place of `stored`, `feed` and `cache` of `NodeImageRelease`. One watch fills
the cache both read, and wakes the node image release controller only; a restart ends
both. The instances are of the proof modules, which extend the controllers' own, so that
`CspoProofs` can cite their lemmas as `N!...` and `C!...`. `HasBeenActive` speaks of
images that are active or deactivated now: whether a deleted one ever had data, Glance
no longer says, which is why `ReadyMeansImported` is about images that stay
(`ImportedStay`).

**ReleaseTag.** A name is the sequence of its parts between dashes. `Accepted` is what
`release.New` lets pass, `CutVersion` and `OSNIRName` are how the controller names a node
image release. `ClusterStackRelease` takes the result as its constant `Needs`.

## 3. Runs

`tlc -config X.cfg M` with the module named in `PROJECT.json`.

### Passing

| Run | Shows |
|---|---|
| `NodeImageRelease` | types; at most one own live image per name; creation only when there is none, with any two faults |
| `NodeImageReleaseTimeout` | while nobody deletes images, a timeout is declared only after the import's own time is over |
| `NodeImageReleaseLiveness` | after one fault readiness follows the image both ways, a missing image gets created, `Ready` settles to the summary; and the controller implements `ImageImport` |
| `ClusterStackRelease` | two releases racing for a node image release keep each other's owner reference, through restarts, and releases and node image releases deleted and made again |
| `ClusterStackReleaseLiveness` | types; every node image owned by the right UID in the end; readiness follows the node images both ways; nothing stays when the owners are gone |
| `Cspo` | end to end: while nobody deletes an image that was imported, a cluster stack release is ready only if its image has been active in Glance |

### Disagreements between the code and what it says

Each run violates one property; `findings` in `PROJECT.json` quotes the text.

| Run | What happens |
|---|---|
| `NodeImageReleaseReimport` | A deleted image is imported again with the old start time and times out early: one reconcile sets the condition False and True again, and the merge keeps the time of an unchanged state. |
| `NodeImageReleaseLostStart` | The record of the import's start is lost; the timeout never applies. |
| `NodeImageReleaseUnusable` | With a timeout set, an image deactivated long after its import is reported as an import timeout and `status.ready` stays true. |
| `NodeImageReleasePanic` | A cloud without a usable `auth_url` makes Reconcile panic and the process end, again after every restart; no condition says so. |
| `NodeImageReleaseQueued` | After a failed import request the queued image is waited for, and the import is never requested again. |
| `ClusterStackReleaseEarly` | A release is ready before a node image release it has just created is even in the cache. |

The model also shows the following, which no run of the list is spent on:

- `uploading`, which the comment at
  `internal/controller/openstacknodeimagerelease_controller.go:306` says is waited for,
  falls into the default branch: a failure is reported and nothing is requeued. The
  release recovers when the image becomes active (`ActiveBecomesReady`).
- A panic for one release takes the other releases' reconciles down with it. In the
  model it costs them time only: the order in which a restarted process enqueues the
  objects is random, so their turn comes (the strong fairness of `ReconcileStart`).
- An image created with `os_hidden` is not found by the lookup and is created
  again and again: with `Hidden = {x}` the run `NodeImageRelease` violates
  `AtMostOneOwnImage`.
- A failed authentication sets no condition, so `Ready` is the summary of
  `CloudAvailable` alone and True, before any image was looked for.
  `status.ready` stays false.
- A reconcile that read a stale copy leaves a failed condition under a `Ready` that
  is True, until a later one (`SummarySettles`).
- A download that failed and could not be removed, or that a restart interrupted
  in a directory that survives it, counts as done and is never repeated: the
  premise `Stays` of the liveness properties.

### Bounds

- `MaxFaults` 0 to 2. Two faults suffice for every pair of failed call, crash and
  intervention, such as an image created without an answer and then a crash. The
  others allow one: after the last fault the system must recover from whatever
  state it left, and the safety run shows that the second adds no new kind of image.
- `ClusterStackRelease` has two releases that share one of two node images, and of
  the faults only those that bear on owners: restarts, deletions of releases (which
  may come again under their name) and of node image releases (`NoCallFails`). A
  failed call is a shorter prefix of the same loop. Node image releases do not become
  ready there (`NoneReady`): owner references do not depend on it.
- `LateEnqueues`, there and in `Cspo`: a step that does nothing but put an object into
  the queue is taken when the worker is idle, and the resync when nothing else is to
  be done. The worker looks at the queue only when it is idle, and the queue is a
  set, so every order of reconciles stays possible.
- `Cspo` has one release, one node image release and one image, and as its fault a
  restart, or the deletion of a node image release whose owner is ready
  (`SharedFaults`): what the two controllers do to each other. Failed calls are the
  business of the runs of each. Its specification `KeptSpec` leaves out the deletion of
  imported images, and only that: with a deletion the property is false at once.
  A release that needs several node images may be ready before all of them are
  (`ClusterStackReleaseEarly`), so it needs one.
- `MaxLag` and `MaxEvents` 1 or 2 undelivered events of an object: stale by one write
  and by both writes of a patch. A write that finds no room waits for the watch. At 1
  the second call of a patch waits for the event of the first, which removes lag but
  no order of the calls. `ClusterStackRelease` allows 2 events of a node image release:
  there a write computed from a cache that lags is what matters.
- `MaxImages` 1 or 2: two is the smallest number with duplicates, or an image
  deleted while its successor exists; one reaches the quota at once.
- `MaxTime` 2 with a timeout of 1: below, at and above the boundary. Where time
  does not matter it is 0.
- One or two releases and one or two node images. Objects of a kind meet only
  in the queue and in what they share. The theorems of section 4 have no bounds.
- `NodeImageReleaseTimeout` has two values of owner references, so that other writes
  than the controller's own move the resourceVersion.

### Fairness

`WF(Worker)`: the worker goes on, and every call returns (contexts and clients
end). `WF` of `Deliver` and `TimerFires`: watch and timers make progress.
`WF(Resync)`: the 5 minute `SyncPeriod` of `main.go:88`. `SF(ReconcileStart)` per
object: the queue is first in, first out, so an object in it has its turn
although another may be ahead each time. `WF` of `ImportProceeds` and `Expunge`:
Glance gets on with its own work. `WF(EndPanic)`: a process that ended is started
again. `WF(CollectGarbage)`: the garbage collector gets around to every object. No
fairness for faults, people, the creation or
the deletion of objects, the clock, or node image releases becoming ready.

`NodeImageReleaseTimeout` has the action constraint `ImagesStay`: no image is deleted
in Glance. Without it
`NodeImageReleaseReimport` applies.
The liveness run of node image releases has no import timeout; with one,
`NodeImageReleaseUnusable` applies.

## 4. Proofs

All proofs hold for every value of the constants that satisfies the assumptions of
their modules (`ConstantsAssumption`, `ClustersAssumption`, `CspoAssumption`, each
evaluated by TLC in every run of its module): any number of objects, names, faults,
and undelivered events. Three theorems have a hypothesis about people (`ImagesStay`,
`ImportedStay`): the steps it leaves out are those after which the property may be
false.

### The node image release controller

- `TypeCorrect`: `Spec => []TypeOK`. The lemmas follow the modules: the condition
  operators map conditions to conditions, `Return` and `Write` keep objects objects,
  then one lemma for the calls, one for the patch, one for the runtime and one for
  the environment.
- `OneImagePerName` and `LookupStaysTrue`: if no image is hidden, `AtMostOneOwnImage`
  and `CreateIsSafe` always hold. `AtMostOneOwnImage` is not inductive: nothing in it
  keeps a reconcile that is about to call `createImage` from doing so while another
  image exists. `UniqueInv` adds `CreateIsSafe`, that no own live image of the name
  exists while `pc = "create"`. It is established by the lookup, which is where
  `Hidden = {}` is needed (without it the property is false, section 3). It is
  kept because only this one worker creates own images, an expunged place is not
  own, and no image comes back to life.
- `ImageImportProofs!PromiseKept`: if no image is hidden, the controller implements
  `ImageImport`. Initial states map to initial states; each step of Glance and people
  maps to one step or none; `createImage` maps to `Create`, which `UniqueInv` enables,
  and `importImage` to `Import`, which needs `ImportIsFirst`: while `pc = "import"` the
  image is the one just created, and while it is queued and the controller's, no
  import of it has been requested.
- `TimeoutProofs!TimeoutIsFair`: `Spec /\ [][ImagesStay]_vars =>
  []TimeoutMeasuresThisImport`. `ImagesStay` says that no image is deleted; with a
  deletion `NodeImageReleaseReimport` is a counterexample. The property compares a
  transition time in the copy Reconcile works on with the time of an import in Glance,
  and that copy may be old and is merged back later. So `TimeInv` speaks of every
  version of an object, stored, under way or cached (`VersionsAreHonest`), and of the
  copy: one that says the import has started names a time at which, or before which,
  the import of an own image of that release was requested. Nothing takes that
  away: the request is made once (`ImportIsFirst`) and the image stays. Reconcile is
  the only one to write the condition, and has set it False before it requests an
  import (`ImportsItsOwn`), so that `MarkTrue` puts the present time into it. What a
  merge keeps of the cached version was honest already. The image that `getImageID`
  finds must be the one that was meant (`FoundIsImported`): the lookup fails on two
  of a name.

### The cluster stack release controller

- `ClusterStackReleaseProofs!TypeCorrect`: as above. Types need two facts more: the
  controller never panics, and `todo` is not empty while it ensures node images.
- `OwnersProofs!OwnersKept`: `Spec => OwnersAreKept`. An owner reference may only be
  overwritten with the same UID. `OwnersInv` says why it is: the UIDs of a name grow
  from the cached version through the undelivered ones to the stored one (`UIDsGrow`);
  no reference is newer than the cached version of its owner (`RefsAreOld`) or, for
  the release being reconciled, than the copy Reconcile works on (`CopyIsNewest`);
  and a cache of node image releases with nothing under way is up to date
  (`CacheFollows`), so that a write under the lock drops nobody else. A reference to
  the living owner is as new as the stored release, so copy and cache are too. The
  steps are those of `OpenNext`, in which others may do more than in this module:
  deliver events of node image releases, and write them in any way that only drops
  references (`Drops`). That is what lets the program as a whole reuse it.
- `ReleaseTagProofs`: a tag that `release.New` accepts can be cut
  (`AcceptedTagsAreCut`), which is why `ClusterStackRelease` has no step for that error;
  only versions of one cluster stack share a node image release (`OnlyVersionsShare`),
  and they share it for the same image only (`VersionsShare`).

### The program

Every step of `Cspo` is, to each controller, one of its own steps or one that its
lemmas allow others (`NodeSteps`, `NextIsOpen`). So `CspoProofs` proves again, of both
controllers at work on one API server, one cache and one Glance:

- `OneImageInTheProgram` (`AtMostOneOwnImage` and `CreateIsSafe`) and
  `ProgramKeepsPromise` (the program implements `ImageImport`). The other controller
  touches neither images nor the state of the reconcile.
- `OwnersKeptInTheProgram`. The node image release controller writes whole objects,
  owner references included: its conditions go through the optimistic lock, under which
  the cached object is the stored one (`CacheFollows`), and `status.ready` is patched
  into the stored one (`NodeWritesDrop`).

and, what neither controller could say alone:

- `ReadyHasAnImage`: `Spec /\ [][ImportedStay]_vars => [](ready => SomeImported)`. A
  release that is reported ready has had at least one of its images active.
  `ReadyIsImported`: if every release needs one node image, that is
  `ReadyMeansImported`. For several it is false, because a release may be reported ready
  by a reconcile that sees one of its node image releases only
  (`ClusterStackReleaseEarly`). The invariant `ImportInv` follows the claim from Glance
  to the release: the image a reconcile asks for has the name of its release
  (`AskedIsNamed`), so its copy says ready only if that image has been active
  (`CopiesGood`), and so do all versions of the node image release, stored, under way
  or cached (`NodeVersionsGood`); these also say that an owner needs it, because a
  reconcile only ensures what its release needs (`EnsuresNeeded`). The other
  controller reads cached versions, so its copy and the versions of its own objects are
  good too (`ClusterVersionsGood`). An old version does no harm: what it says of Glance
  was true once and stays true under `ImportedStay`. That hypothesis also says that no
  image is expunged, which stands for Glance not using an image ID again; the model
  uses the place of an expunged image again.

### Not proved

- Liveness (`ActiveBecomesReady`, `UnusableBecomesNotReady`, `MissingImageIsCreated`,
  `SummarySettles` and those of the cluster stack release controller): it rests on
  fairness, and fairness on ENABLED, both beyond the prover. TLC checks them.
- The invariants proved under a hypothesis about people are false without it: the run
  `NodeImageReleaseReimport` shows it for the timeout, and the deletion of an image under
  a ready release for `ReadyMeansImported`.

End to end, readiness follows from two runs: once the image of a node image release
stays active `stored[r].ready` stays true (`ActiveBecomesReady`), which is the premise
`NeedsAreReady` of `ReadyNodeImagesMakeReady` for the release above. The two fairness
conditions are those of one process; neither controller waits for the other, and each
sees the other's writes as those of its environment.

## 5. Assumptions and what is not modelled

- One active manager with one worker per controller (`MaxConcurrentReconciles` is
  not set, one replica, and `config/manager/manager.yaml:43` passes `--leader-elect`,
  which is off by default). Two managers at once are not modelled, and
  `OneImagePerName` would not hold for them. With one worker the download mutex is
  never contended and is left out.
- A call takes effect before its worker's process ends, or not at all. A call that
  reached Glance only after the next process has looked the image up could create a
  second one.
- Deletion of objects is immediate: neither kind has a finalizer.
- A node image release has one specification: the code never updates that of an
  existing one. Lookup by `createOpts.id` is one more way to name an image.
- Varying error texts would change a stored condition, and so cause events, more
  often than the model does.
- `clientconfig.AuthOptions` and `openstack.NewClient` are taken to return nil for a
  cloud without a usable `auth_url`, as their sources in `vendor` do.
- The fake assets client of `--local` succeeds without files; the controller then
  requeues for ever. The model has a client that does download.
- Release directories are never deleted by the program, nor by the model.
- Delays, back-off and the order of the queue are abstracted to "later".

- The release notes tool (`hack/tools/release/notes.go`) formats the output of git once
  and keeps no state; deep copies are generated; the release template type has no
  controller.

## 6. Plan

1. The work queue (dirty, processing, timers) in detail, shown to implement the
   sets `queued` and `delayed`.
2. A changed `node-images.yaml` for a name that exists, that is, specifications as part
   of node image releases.
3. Proofs: the versions section and the type lemmas of the two controllers, which are
   stated in each for its own objects, stated once for `Reconciler`; and what a release
   that needs several node images may say (each of those that its last reconcile saw).
