----------------------------- MODULE ReleaseTag -----------------------------
(***************************************************************************)
(* The names this program takes apart and puts together: a cluster stack   *)
(* release is named by its tag, and a node image release by the tag        *)
(* without its version, the name of the image and the version of the node  *)
(* images.  A name is the sequence of its parts, what stands between two   *)
(* dashes; the name of an image may have dashes of its own.                *)
(***************************************************************************)
EXTENDS Naturals, Sequences

CONSTANTS
  Parts,    (* Texts without a dash,                                       *)
  Empty,    (* the empty one,                                              *)
  Numbers,  (* those strconv.Atoi reads,                                   *)
  Majors,   (* those that are "v" and a number,                            *)
  Words     (* and those the pattern \w+ matches.                          *)

Tags == Seq(Parts)

(* What release.New accepts: "openstack-ferrol-1-27-v2", or with a channel *)
(* "openstack-ferrol-1-27-v0-sha-a3baa3a".  All else is an error before    *)
(* any file is looked at.                                                  *)
Accepted(tag) ==
  /\ Len(tag) = 5 \/ (Len(tag) = 7 /\ {tag[6], tag[7]} \subseteq Words)
  /\ Empty \notin {tag[1], tag[2]}
  /\ {tag[3], tag[4]} \subseteq Numbers
  /\ tag[5] \in Majors

(* The cluster stack a release is a version of: provider, name, Kubernetes *)
(* version.                                                                *)
ClusterStack(tag) == <<tag[1], tag[2], tag[3], tag[4]>>

Invalid == <<>>

CutVersion(tag) ==
  IF Len(tag) \in {5, 7} THEN SubSeq(tag, 1, 4) ELSE Invalid

OSNIRName(tag, image, version) == CutVersion(tag) \o image \o version
=============================================================================
