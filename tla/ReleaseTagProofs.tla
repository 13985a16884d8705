-------------------------- MODULE ReleaseTagProofs --------------------------
(* What the names of node image releases say, for every set of texts.      *)
EXTENDS ReleaseTag, SequenceTheorems, TLAPS

-----------------------------------------------------------------------------
(* A tag that release.New accepts can be cut, and gives the cluster stack: *)
(* Reconcile, which cuts the tag once release.New has accepted it, never   *)
(* returns "failed to cut release tag".  The two functions check the form  *)
(* of a tag in different modules of different repositories.                *)
THEOREM AcceptedTagsAreCut ==
  ASSUME NEW tag \in Tags, Accepted(tag)
  PROVE  /\ CutVersion(tag) = ClusterStack(tag)
         /\ CutVersion(tag) \in Seq(Parts) /\ Len(CutVersion(tag)) = 4
         /\ CutVersion(tag) # Invalid
<1>1. Len(tag) \in {5, 7}
  BY DEF Accepted
<1>2. \A i \in 1..4 : tag[i] \in Parts
  BY <1>1, ElementOfSeq DEF Tags
<1>3. CutVersion(tag) = SubSeq(tag, 1, 4)
  BY <1>1 DEF CutVersion
<1>4. /\ CutVersion(tag) \in Seq(Parts) /\ Len(CutVersion(tag)) = 4
      /\ \A i \in 1..4 : CutVersion(tag)[i] = tag[i]
  BY <1>2, <1>3, SubSeqProperties
<1>5. /\ ClusterStack(tag) \in Seq(Parts) /\ Len(ClusterStack(tag)) = 4
      /\ \A i \in 1..4 : ClusterStack(tag)[i] = tag[i]
  BY <1>2 DEF ClusterStack
<1>6. CutVersion(tag) = ClusterStack(tag)
  <2>1. \A i \in 1..Len(CutVersion(tag)) : CutVersion(tag)[i] = ClusterStack(tag)[i]
    BY <1>4, <1>5
  <2> QED
    BY <1>4, <1>5, <2>1, SeqEqual
<1>7. Len(Invalid) = 0
  BY EmptySeq DEF Invalid
<1>8. CutVersion(tag) # Invalid
  BY <1>4, <1>7
<1> QED
  BY <1>4, <1>6, <1>8

(* The parts of a cut tag are the first of the name.                       *)
LEMMA NameBeginsWithStack ==
  ASSUME NEW tag \in Tags, Accepted(tag),
         NEW image \in Seq(Parts), NEW version \in Seq(Parts)
  PROVE  \A k \in 1..4 : OSNIRName(tag, image, version)[k] = CutVersion(tag)[k]
<1> DEFINE cut == CutVersion(tag)
<1>1. cut \in Seq(Parts) /\ Len(cut) = 4
  BY AcceptedTagsAreCut
<1> HIDE DEF cut
<1>2. /\ Len(image) \in Nat /\ Len(version) \in Nat
      /\ cut \o image \in Seq(Parts)
      /\ Len(cut \o image) = 4 + Len(image)
  <2>1. Len(image) \in Nat /\ Len(version) \in Nat
    BY LenProperties
  <2>2. cut \o image \in Seq(Parts) /\ Len(cut \o image) = Len(cut) + Len(image)
    BY <1>1, ConcatProperties
  <2> QED
    BY <1>1, <2>1, <2>2
<1>3. \A k \in 1..4 : (cut \o image)[k] = cut[k]
  BY <1>1, <1>2, ConcatProperties
<1>4. \A k \in 1..4 : ((cut \o image) \o version)[k] = (cut \o image)[k]
  BY <1>2, ConcatProperties
<1> QED
  BY <1>3, <1>4 DEF OSNIRName, cut

(* Only releases of one cluster stack ever share a node image release: the *)
(* dashes in the names of images and in versions do not make the names of  *)
(* node image releases of different cluster stacks meet.  So nobody waits  *)
(* for, or takes ownership of, the images of another cluster stack.        *)
THEOREM OnlyVersionsShare ==
  ASSUME NEW t \in Tags, NEW u \in Tags, Accepted(t), Accepted(u),
         NEW i \in Seq(Parts), NEW j \in Seq(Parts),
         NEW v \in Seq(Parts), NEW w \in Seq(Parts),
         OSNIRName(t, i, v) = OSNIRName(u, j, w)
  PROVE  ClusterStack(t) = ClusterStack(u)
<1>1. \A k \in 1..4 : CutVersion(t)[k] = CutVersion(u)[k]
  <2>1. \A k \in 1..4 : OSNIRName(t, i, v)[k] = CutVersion(t)[k]
    BY NameBeginsWithStack
  <2>2. \A k \in 1..4 : OSNIRName(u, j, w)[k] = CutVersion(u)[k]
    BY NameBeginsWithStack
  <2> QED
    BY <2>1, <2>2
<1>2. /\ CutVersion(t) \in Seq(Parts) /\ Len(CutVersion(t)) = 4
      /\ CutVersion(u) \in Seq(Parts) /\ Len(CutVersion(u)) = 4
  BY AcceptedTagsAreCut
<1>3. CutVersion(t) = CutVersion(u)
  BY <1>1, <1>2, SeqEqual
<1> QED
  BY <1>3, AcceptedTagsAreCut

(* All versions of a cluster stack share the node image release of an      *)
(* image they have with the same version, and no release has one node      *)
(* image release for two of its images.                                    *)
THEOREM VersionsShare ==
  ASSUME NEW t \in Tags, NEW u \in Tags, Accepted(t), Accepted(u),
         ClusterStack(t) = ClusterStack(u),
         NEW i \in Seq(Parts), NEW j \in Seq(Parts), NEW v \in Seq(Parts)
  PROVE  OSNIRName(t, i, v) = OSNIRName(u, j, v) <=> i = j
<1> DEFINE cut == CutVersion(t)
<1>1. cut = CutVersion(u) /\ cut \in Seq(Parts)
  BY AcceptedTagsAreCut
<1>2. cut \o i \in Seq(Parts) /\ cut \o j \in Seq(Parts)
  BY <1>1, ConcatProperties
<1>3. ASSUME (cut \o i) \o v = (cut \o j) \o v
      PROVE  i = j
  <2>1. cut \o i = cut \o j
    BY <1>2, <1>3, ConcatSimplifications
  <2> QED
    BY <1>1, <2>1, ConcatSimplifications
<1> QED
  BY <1>1, <1>3 DEF OSNIRName
=============================================================================
