----------------------------- MODULE Reconciler -----------------------------
(***************************************************************************)
(* What both controllers of this program share: one worker that reconciles *)
(* the objects of one kind, and what lies around it.  The API server holds *)
(* the objects; the manager's cache follows them through a watch and may   *)
(* lag behind; a work queue, timers and the periodic resync name the       *)
(* objects to reconcile; on leaving Reconcile a deferred function sets the *)
(* summary condition and patches conditions and status back.  The manager  *)
(* may crash between any two steps; a panic in Reconcile ends it too, once *)
(* the deferred function has run.                                          *)
(*                                                                         *)
(* A controller instantiates this module, adds the calls its Reconcile     *)
(* makes between "idle" and "conditions", and says what every step does to *)
(* its own variables.                                                      *)
(*                                                                         *)
(* Bounds: MaxFaults (failed calls, crashes and interventions of people),  *)
(* MaxLag (undelivered watch events of one object).                        *)
(***************************************************************************)
EXTENDS Conditions, Sequences

CONSTANTS
  Objects,
  Metadata,   (* The part of an object's metadata that somebody reads: its *)
  NoMetadata, (* UID, or its owner references.                             *)
  MaxFaults, MaxLag

VARIABLES
  stored,   (* The objects as the API server has them.                     *)
  feed,     (* Versions the watch has not delivered yet, oldest first.     *)
  cache,    (* The objects as the manager's cache has them.                *)
  queued,   (* Objects in the work queue.                                  *)
  delayed,  (* Objects a timer will put into the work queue.               *)
  pc,       (* The call the worker makes next.                             *)
  cur,      (* The object being reconciled.                                *)
  before,   (* What Reconcile read: the patch helper's copy.               *)
  obj,      (* The copy Reconcile changes in memory.                       *)
  result,   (* What Reconcile will return.                                 *)
  now,      (* Minutes since the start.                                    *)
  faults    (* Faults so far.                                              *)

apiVars    == <<stored, feed, cache>>
queueVars  == <<queued, delayed>>
workerVars == <<pc, cur, before, obj, result>>

Object == [exists : BOOLEAN, meta : Metadata, ready : BOOLEAN,
           conds : [Types -> Condition]]

Blank(exists, m) ==
  [exists |-> exists, meta |-> m, ready |-> FALSE, conds |-> NoConditions]

NoObject     == Blank(FALSE, NoMetadata)
NewObject(m) == Blank(TRUE, m)

Results == {"done", "requeue", "after", "error", "panic"}

ReconcilerTypeOK ==
  /\ stored \in [Objects -> Object]
  /\ feed \in [Objects -> Seq(Object)]
  /\ cache \in [Objects -> Object]
  /\ queued \subseteq Objects /\ delayed \subseteq Objects
  /\ cur \in Objects
  /\ before \in Object /\ obj \in Object
  /\ result \in Results
  /\ now \in Nat /\ faults \in Nat

ReconcilerInit ==
  /\ stored = [r \in Objects |-> NoObject]
  /\ feed = [r \in Objects |-> <<>>]
  /\ cache = stored
  /\ queued = {} /\ delayed = {}
  /\ pc = "idle" /\ cur \in Objects
  /\ before = NoObject /\ obj = NoObject /\ result = "done"
  /\ now = 0 /\ faults = 0

Fault == faults < MaxFaults /\ faults' = faults + 1

NoFault == UNCHANGED faults

-----------------------------------------------------------------------------
(* The watch, the timers, the resync and the work queue.                   *)

(* A version of r reaches the cache; every event enqueues the object.      *)
Deliver(r) ==
  /\ feed[r] # <<>>
  /\ cache' = [cache EXCEPT ![r] = Head(feed[r])]
  /\ feed' = [feed EXCEPT ![r] = Tail(feed[r])]
  /\ queued' = queued \cup {r}
  /\ UNCHANGED <<stored, delayed, workerVars, now, faults>>

TimerFires(r) ==
  /\ r \in delayed
  /\ delayed' = delayed \ {r}
  /\ queued' = queued \cup {r}
  /\ UNCHANGED <<apiVars, workerVars, now, faults>>

(* Every SyncPeriod the informer hands every cached object out again.      *)
Resync ==
  /\ queued' = queued \cup {r \in Objects : cache[r].exists}
  /\ queued' # queued
  /\ UNCHANGED <<apiVars, delayed, workerVars, now, faults>>

(* A write the API server accepts; one that changes nothing is no event.   *)
Write(r, o) ==
  /\ UNCHANGED cache
  /\ IF o = stored[r] THEN UNCHANGED <<stored, feed>>
     ELSE /\ Len(feed[r]) < MaxLag
          /\ stored' = [stored EXCEPT ![r] = o]
          /\ feed' = [feed EXCEPT ![r] = Append(@, o)]

(* Whoever has use for the objects creates, claims and deletes them.  What *)
(* is deleted leaves its metadata behind: no later object has the same UID.*)
CreateObject(r, m) ==
  /\ ~stored[r].exists /\ Write(r, NewObject(m))
  /\ UNCHANGED <<queueVars, workerVars, now, faults>>

ChangeMetadata(r, m) ==
  /\ stored[r].exists /\ m # stored[r].meta
  /\ Write(r, [stored[r] EXCEPT !.meta = m])
  /\ UNCHANGED <<queueVars, workerVars, now, faults>>

DeleteObject(r) ==
  /\ stored[r].exists /\ Write(r, Blank(FALSE, stored[r].meta)) /\ Fault
  /\ UNCHANGED <<queueVars, workerVars, now>>

-----------------------------------------------------------------------------
(* Reconcile begins and ends.                                              *)

(* The object is gone from the cache: nothing to do.                       *)
ReconcileMissing(r) ==
  /\ pc = "idle" /\ r \in queued /\ ~cache[r].exists
  /\ queued' = queued \ {r}
  /\ UNCHANGED <<apiVars, delayed, workerVars, now, faults>>

(* The object is read from the cache, and label is the first call.         *)
ReconcileStart(r, label) ==
  /\ pc = "idle" /\ r \in queued /\ cache[r].exists
  /\ queued' = queued \ {r}
  /\ pc' = label /\ cur' = r
  /\ before' = cache[r] /\ obj' = cache[r]
  /\ UNCHANGED <<apiVars, delayed, result, now, faults>>

(* What Reconcile does to its own copy of the object.                      *)
True(o, t)          == [o EXCEPT !.conds = MarkTrue(@, t, now)]
False(o, t, reason) == [o EXCEPT !.conds = MarkFalse(@, t, reason, now)]

(* Reconcile goes on to its next call.                                     *)
Goto(label, o) ==
  /\ obj' = o /\ pc' = label
  /\ UNCHANGED <<cur, before, result, apiVars, queueVars, now>>

(* Leaving Reconcile runs the deferred function: the summary is set and    *)
(* the patch helper is called next.                                        *)
Return(o, res) ==
  /\ obj' = [o EXCEPT !.conds = SetSummary(@, now)]
  /\ pc' = "conditions" /\ result' = res
  /\ UNCHANGED <<cur, before, apiVars, queueVars, now>>

(* The deferred patch: conditions first, under an optimistic lock, then    *)
(* status.ready, without one.                                              *)
Unpatched == before.conds # obj.conds

Merged == [cache[cur] EXCEPT !.conds = Apply(@, before.conds, obj.conds, now)]

(* The lock holds while the cached object is the stored one.               *)
CanPatch ==
  /\ Unpatched
  /\ cache[cur].exists
  /\ ~Conflicts(cache[cur].conds, before.conds, obj.conds)
  /\ feed[cur] = <<>>

ConditionsDone(res) ==
  /\ pc' = "status" /\ result' = IF result = "panic" THEN result ELSE res
  /\ UNCHANGED <<cur, before, obj, queueVars, now>>

PatchConditionsZero ==
  /\ pc = "conditions" /\ ~Unpatched
  /\ ConditionsDone(result)
  /\ UNCHANGED apiVars /\ NoFault

PatchConditions ==
  /\ pc = "conditions" /\ CanPatch
  /\ Write(cur, Merged)
  /\ ConditionsDone(result) /\ NoFault

(* A merge conflict, the object gone, five conflicts on the lock in a row, *)
(* or a failed call; the write may have happened all the same.             *)
PatchConditionsFails ==
  /\ pc = "conditions" /\ Unpatched
  /\ \/ ~CanPatch /\ UNCHANGED apiVars /\ NoFault
     \/ Fault /\ UNCHANGED apiVars
     \/ Fault /\ CanPatch /\ Write(cur, Merged)
  /\ ConditionsDone("error")

Forget ==
  UNCHANGED cur /\ before' = NoObject /\ obj' = NoObject /\ result' = "done"

(* Reconcile has returned: an error or a requeue arms a timer, and a panic *)
(* goes on to end the process.                                             *)
Finish(res) ==
  /\ pc' = IF result = "panic" THEN "panic" ELSE "idle"
  /\ delayed' = IF res = "done" \/ result = "panic" THEN delayed
                ELSE delayed \cup {cur}
  /\ Forget /\ UNCHANGED <<queued, now>>

(* Nothing in the status has changed: no call.                             *)
PatchStatusZero ==
  /\ pc = "status" /\ obj = before
  /\ Finish(result)
  /\ UNCHANGED apiVars /\ NoFault

(* The patch names status.ready only if Reconcile changed it.              *)
WriteReady ==
  /\ stored[cur].exists
  /\ Write(cur, IF obj.ready = before.ready THEN stored[cur]
                ELSE [stored[cur] EXCEPT !.ready = obj.ready])

PatchStatus ==
  /\ pc = "status" /\ obj # before
  /\ WriteReady
  /\ Finish(result) /\ NoFault

PatchStatusFails ==
  /\ pc = "status" /\ obj # before
  /\ \/ ~stored[cur].exists /\ UNCHANGED apiVars /\ NoFault
     \/ Fault /\ UNCHANGED apiVars
     \/ Fault /\ WriteReady
  /\ Finish("error")

Patch ==
  \/ PatchConditionsZero \/ PatchConditions \/ PatchConditionsFails
  \/ PatchStatusZero \/ PatchStatus \/ PatchStatusFails

(* The manager starts again: queue, timers and the running reconcile are   *)
(* lost, the cache is filled anew and enqueues everything.                 *)
StartAgain ==
  /\ cache' = stored /\ feed' = [r \in Objects |-> <<>>]
  /\ queued' = {r \in Objects : stored[r].exists} /\ delayed' = {}
  /\ pc' = "idle" /\ Forget /\ UNCHANGED <<stored, now>>

Crash == Fault /\ StartAgain

EndPanic == pc = "panic" /\ NoFault /\ StartAgain

-----------------------------------------------------------------------------
(* Properties of the conditions of any kind of object.                     *)

(* The Ready condition is the summary of the other conditions of the same  *)
(* stored object.  The patch that writes it is computed from one copy and  *)
(* merged into another, so this holds only once things settle.             *)
ReadyConditionIsSummary ==
  \A r \in Objects :
    stored[r].conds["Ready"].state = SummaryState(stored[r].conds)

SummarySettles == <>[]ReadyConditionIsSummary
=============================================================================
