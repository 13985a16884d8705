----------------------------- MODULE Conditions -----------------------------
(***************************************************************************)
(* The status conditions of a custom resource, and the operators both      *)
(* controllers apply to them: setting one, summarising them in the "Ready" *)
(* condition, and the three-way merge with which the patch helper writes   *)
(* them back (cluster-api's util/conditions).                              *)
(*                                                                         *)
(* A condition is a record of its state and of the minute its state last   *)
(* changed.  The state is "Absent", "True", or the Reason of a condition   *)
(* whose status is False: in this program a reason determines status,      *)
(* severity and, up to the wording of an error, the message.               *)
(***************************************************************************)
EXTENDS Integers

CONSTANTS
  Kinds,      (* Condition types, in lexicographic order, without "Ready".  *)
  Errors,     (* Reasons reported with severity Error.                      *)
  Infos,      (* Reasons reported with severity Info.                       *)
  Timed       (* Kinds whose LastTransitionTime the program reads; the time *)
              (* of the others is not kept (it stays 0).                    *)

Types == {Kinds[i] : i \in DOMAIN Kinds} \cup {"Ready"}

States == {"Absent", "True"} \cup Errors \cup Infos

Condition == [state : States, since : Int]

Absent == [state |-> "Absent", since |-> 0]

NoConditions == [t \in Types |-> Absent]

IsTrue(conds, t) == conds[t].state = "True"

(***************************************************************************)
(* Set: a condition whose state does not change keeps its transition time. *)
(***************************************************************************)
Set(conds, t, s, now) ==
  IF conds[t].state = s
  THEN conds
  ELSE [conds EXCEPT ![t] = [state |-> s,
                             since |-> IF t \in Timed THEN now ELSE 0]]

MarkTrue(conds, t, now) == Set(conds, t, "True", now)

MarkFalse(conds, t, reason, now) == Set(conds, t, reason, now)

(***************************************************************************)
(* The state of the summary: the first condition, in lexicographic order,  *)
(* of the group with the highest priority (False with severity Error, then *)
(* False with severity Info, then True).  "Ready" itself is out of scope.  *)
(***************************************************************************)
InGroup(conds, group) == {i \in DOMAIN Kinds : conds[Kinds[i]].state \in group}

First(S) == CHOOSE i \in S : \A j \in S : i <= j

SummaryState(conds) ==
  LET top(group) == conds[Kinds[First(InGroup(conds, group))]].state
  IN  IF InGroup(conds, Errors) # {} THEN top(Errors)
      ELSE IF InGroup(conds, Infos) # {} THEN top(Infos)
      ELSE IF InGroup(conds, {"True"}) # {} THEN "True"
      ELSE conds["Ready"].state

SetSummaryAny(conds, now) ==    \* mutant: one true condition makes Ready true
  Set(conds, "Ready", IF InGroup(conds, {"True"}) # {}
                      THEN "True" ELSE SummaryState(conds), now)

SetSummary(conds, now) == Set(conds, "Ready", SummaryState(conds), now)

(***************************************************************************)
(* NewPatch(before, after) followed by Apply(latest).  A kind that the     *)
(* reconcile left as it was is not part of the patch.  A kind it changed   *)
(* conflicts when latest differs both from before and from the wanted      *)
(* state; one conflict aborts the whole patch.  A kind latest already      *)
(* agrees on keeps the transition time latest has.                         *)
(***************************************************************************)
Conflicts(latest, before, after) ==
  \E t \in Types : /\ after[t] # before[t]
                   /\ latest[t] # before[t]
                   /\ latest[t].state # after[t].state

Apply(latest, before, after, now) ==
  [t \in Types |->
     IF after[t] = before[t] \/ latest[t].state = after[t].state THEN latest[t]
     ELSE IF latest[t] = Absent THEN after[t]
     ELSE [state |-> after[t].state, since |-> IF t \in Timed THEN now ELSE 0]]
=============================================================================
