----------------------------- MODULE ImageImport -----------------------------
(***************************************************************************)
(* What the node image release controller promises about the images it     *)
(* makes, whatever it crashes in, repeats or gets to see too late: of one  *)
(* name it keeps one image at most, and it has the data of an image        *)
(* imported once at most.  All else is up to Glance and to people.         *)
(***************************************************************************)
CONSTANTS Names, ImageIDs

VARIABLE made   (* The images the controller made, as far as Glance has    *)
                (* them.                                                   *)

Phases == {"gone", "queued", "importing", "active", "unusable", "deleting"}

(* requested: the import of this image has been asked for.                 *)
Image == [phase : Phases, name : Names, requested : BOOLEAN]

Gone == [phase |-> "gone", name |-> CHOOSE n \in Names : TRUE,
         requested |-> FALSE]

Init == made = [i \in ImageIDs |-> Gone]

-----------------------------------------------------------------------------
(* The controller.                                                         *)

Create(i, n) ==
  /\ made[i].phase = "gone"
  /\ \A j \in ImageIDs : made[j].name = n => made[j].phase = "gone"
  /\ made' = [made EXCEPT ![i] = [phase |-> "queued", name |-> n,
                                  requested |-> FALSE]]

Import(i) ==
  /\ made[i].phase = "queued" /\ ~made[i].requested
  /\ made' = [made EXCEPT ![i] = [phase |-> "importing", name |-> @.name,
                                  requested |-> TRUE]]

-----------------------------------------------------------------------------
(* Glance and people.                                                      *)

Turns(i, from, to) ==
  /\ made[i].phase \in from
  /\ \E p \in to : made' = [made EXCEPT ![i].phase = p]

Arrives(i) == Turns(i, {"importing"}, {"active"})

Fails(i) == Turns(i, {"importing"}, {"queued", "unusable"})

Deactivated(i) == Turns(i, {"active"}, {"unusable"})

Deleted(i) == Turns(i, Phases \ {"gone"}, {"deleting"})

Vanishes(i) ==
  /\ made[i].phase # "gone"
  /\ made' = [made EXCEPT ![i] = Gone]

Next ==
  \E i \in ImageIDs :
    \/ \E n \in Names : Create(i, n)
    \/ Import(i) \/ Arrives(i) \/ Fails(i) \/ Deactivated(i)
    \/ Deleted(i) \/ Vanishes(i)

Spec == Init /\ [][Next]_made
=============================================================================
