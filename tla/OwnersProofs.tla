---------------------------- MODULE OwnersProofs ----------------------------
(* ClusterStackRelease keeps the owner references of node image releases,  *)
(* for every value of its constants.  The argument: UIDs grow, the cache   *)
(* gets to see them in that order, and only the worker writes a reference, *)
(* with the UID of its copy.  So a reference to a release is never newer   *)
(* than what the cache holds of the release; and one that is as new as the *)
(* stored release carries the very UID the worker would write.             *)
EXTENDS ClusterStackReleaseProofs

-----------------------------------------------------------------------------
(* Watched versions s between the cached UID m and the stored UID l.       *)

Grows(m, s, l) ==
  /\ \A k \in 1..Len(s) : m <= s[k].meta
  /\ \A j, k \in 1..Len(s) : j <= k => s[j].meta <= s[k].meta
  /\ IF s = <<>> THEN m = l ELSE s[Len(s)].meta = l

LEMMA GrowsBound ==
  ASSUME NEW m \in Nat, NEW l \in Nat, NEW s \in Seq(Object), Grows(m, s, l)
  PROVE  m <= l
<1>1. CASE s = <<>>
  BY <1>1 DEF Grows
<1>2. CASE s # <<>>
  <2>1. Len(s) \in 1..Len(s)
    BY <1>2, LenProperties, EmptySeq
  <2> QED
    BY <1>2, <2>1 DEF Grows
<1> QED
  BY <1>1, <1>2

(* A write of a UID that is not older.                                     *)
LEMMA GrowsAppend ==
  ASSUME NEW m \in Nat, NEW l \in Nat, NEW s \in Seq(Object), Grows(m, s, l),
         NEW o \in Object, l <= o.meta
  PROVE  Grows(m, Append(s, o), o.meta)
<1> DEFINE n == Len(s)
           t == Append(s, o)
<1>1. /\ n \in Nat /\ Len(t) = n + 1 /\ t[n + 1] = o /\ t # <<>>
      /\ \A k \in 1..n : t[k] = s[k]
  BY LenProperties, AppendProperties
<1>2. \A k \in 1..n : s[k].meta \in Nat
  <2>1. \A k \in 1..n : s[k] \in Object
    BY ElementOfSeq
  <2> QED
    BY <2>1, ObjectTypes
<1>3. o.meta \in Nat /\ m <= l
  BY ObjectTypes, GrowsBound
<1>4. \A k \in 1..n : s[k].meta <= l
  <2> SUFFICES ASSUME NEW k \in 1..n
               PROVE  s[k].meta <= l
    OBVIOUS
  <2>1. n \in 1..n /\ k <= n /\ s # <<>>
    BY <1>1, EmptySeq
  <2> QED
    BY <2>1 DEF Grows
<1> HIDE DEF n, t
<1>5. \A k \in 1..(n + 1) : k \in 1..n \/ k = n + 1
  BY <1>1
<1>6. \A k \in 1..(n + 1) : m <= t[k].meta /\ t[k].meta <= o.meta
  <2>1. \A k \in 1..n : m <= s[k].meta
    BY DEF Grows, n
  <2> QED
    BY <1>1, <1>2, <1>3, <1>4, <1>5, <2>1
<1>7. ASSUME NEW j \in 1..(n + 1), NEW k \in 1..(n + 1), j <= k
      PROVE  t[j].meta <= t[k].meta
  <2>1. CASE k = n + 1
    BY <1>1, <1>6, <2>1
  <2>2. CASE k \in 1..n
    <3>1. j \in 1..n
      BY <1>1, <1>7, <2>2
    <3>2. s[j].meta <= s[k].meta
      BY <1>7, <2>2, <3>1 DEF Grows, n
    <3> QED
      BY <1>1, <2>2, <3>1, <3>2
  <2> QED
    BY <1>5, <2>1, <2>2
<1> QED
  BY <1>1, <1>6, <1>7 DEF Grows, t

(* The watch delivers the oldest version.                                  *)
LEMMA GrowsDeliver ==
  ASSUME NEW m \in Nat, NEW l \in Nat, NEW s \in Seq(Object), Grows(m, s, l),
         s # <<>>
  PROVE  Grows(Head(s).meta, Tail(s), l) /\ m <= Head(s).meta
<1> DEFINE n == Len(s)
           t == Tail(s)
<1>1. /\ n \in Nat \ {0} /\ Len(t) = n - 1 /\ Head(s) = s[1]
      /\ \A k \in 1..(n - 1) : t[k] = s[k + 1]
      /\ t \in Seq(Object)
  BY LenProperties, EmptySeq, HeadTailProperties
<1>2. t = <<>> <=> n = 1
  <2>1. t = <<>> <=> Len(t) = 0
    BY <1>1, EmptySeq
  <2> QED
    BY <1>1, <2>1
<1> HIDE DEF t
<1>3. \A k \in 1..(n - 1) : k + 1 \in 1..n /\ 1 \in 1..n /\ 1 <= k + 1
  BY <1>1
<1>4. \A k \in 1..(n - 1) : s[1].meta <= t[k].meta
  BY <1>1, <1>3 DEF Grows
<1>5. \A j, k \in 1..(n - 1) : j <= k => t[j].meta <= t[k].meta
  <2>1. \A j, k \in 1..(n - 1) : j <= k => j + 1 <= k + 1
    OBVIOUS
  <2> QED
    BY <1>1, <1>3, <2>1 DEF Grows
<1>6. IF t = <<>> THEN s[1].meta = l ELSE t[Len(t)].meta = l
  <2>1. CASE n = 1
    BY <1>2, <2>1 DEF Grows
  <2>2. CASE n # 1
    <3>1. n - 1 \in 1..(n - 1) /\ (n - 1) + 1 = n
      BY <1>1, <2>2
    <3>2. t[n - 1] = s[n]
      BY <1>1, <3>1
    <3> QED
      BY <1>1, <1>2, <2>2, <3>2 DEF Grows
  <2> QED
    BY <2>1, <2>2
<1>7. m <= s[1].meta
  BY <1>1 DEF Grows
<1> QED
  BY <1>1, <1>4, <1>5, <1>6, <1>7 DEF Grows, t

-----------------------------------------------------------------------------
(* The invariant.                                                          *)

UIDsGrow ==
  \A c \in Clusters : Grows(cache[c].meta, feed[c], stored[c].meta)

(* Once all is delivered the cache of node image releases is up to date.   *)
CacheFollows ==
  \A i \in NodeImages :
    IF nirFeed[i] = <<>> THEN nirCache[i] = nirs[i]
    ELSE nirFeed[i][Len(nirFeed[i])] = nirs[i]

RefsAreOld ==
  \A i \in NodeImages, c \in Clusters : nirs[i].meta[c] <= cache[c].meta

CopyIsNewest ==
  pc # "idle" => /\ obj.meta <= cache[cur].meta
                 /\ \A i \in NodeImages : nirs[i].meta[cur] <= obj.meta

OwnersInv == UIDsGrow /\ CacheFollows /\ RefsAreOld /\ CopyIsNewest

LEMMA ObjectsTyped ==
  ASSUME TypeInv
  PROVE  /\ \A c \in Clusters :
              /\ stored[c] \in Object /\ cache[c] \in Object
              /\ feed[c] \in Seq(Object)
              /\ stored[c].meta \in Nat /\ cache[c].meta \in Nat
         /\ obj.meta \in Nat /\ cur \in Clusters
         /\ \A i \in NodeImages :
              /\ nirs[i] \in NodeImageRelease /\ nirCache[i] \in NodeImageRelease
              /\ nirFeed[i] \in Seq(NodeImageRelease)
              /\ nirs[i].meta \in OwnerReferences
              /\ nirCache[i].meta \in OwnerReferences
BY ObjectTypes DEF TypeInv, TypeOK, ReconcilerTypeOK, NodeImageRelease

-----------------------------------------------------------------------------
(* The steps the argument is about.  What it takes of the others who write *)
(* node image releases is only that they drop references, so it also holds *)
(* with the actual node image release controller at work.                  *)

(* Others than the worker drop references, and only to owners that are     *)
(* gone unless the node image release goes too.                            *)
Drops(i) ==
  \E n \in NodeImageRelease :
    /\ WriteNodeImageRelease(i, n)
    /\ \A c \in Clusters :
         /\ n.meta[c] = nirs[i].meta[c] \/ n.meta[c] = 0
         /\ n.exists /\ c \in Solid(i) => n.meta[c] = nirs[i].meta[c]

Others ==
  /\ UNCHANGED <<runtimeVars, dirs, todo, now>>
  /\ \/ UNCHANGED nirVars
     \/ \E i \in NodeImages : DeliverNodeImageRelease(i) \/ Drops(i)

OpenNext == Worker \/ Runtime \/ Restart \/ Others

LEMMA NodeImageReleasesDrop ==
  ASSUME TypeInv, NodeImageReleases
  PROVE  \E i \in NodeImages : DeliverNodeImageRelease(i) \/ Drops(i)
<1>1. PICK i \in NodeImages :
        \/ BecomesReady(i) \/ BecomesNotReady(i) \/ DeleteNodeImageRelease(i)
        \/ CollectGarbage(i) \/ DeliverNodeImageRelease(i)
  BY DEF NodeImageReleases
<1>2. nirs[i] \in NodeImageRelease /\ nirs[i].meta \in OwnerReferences
  BY ObjectsTyped
<1>3. CASE BecomesReady(i) \/ BecomesNotReady(i)
  <2>1. PICK b \in BOOLEAN :
          WriteNodeImageRelease(i, [nirs[i] EXCEPT !.ready = b])
    BY <1>3 DEF BecomesReady, BecomesNotReady
  <2>2. /\ [nirs[i] EXCEPT !.ready = b] \in NodeImageRelease
        /\ [nirs[i] EXCEPT !.ready = b].meta = nirs[i].meta
    BY <1>2 DEF NodeImageRelease
  <2> QED
    BY <2>1, <2>2 DEF Drops
<1>4. ASSUME WriteNodeImageRelease(i, NoNodeImageRelease)
      PROVE  Drops(i)
  <2>1. /\ ~NoNodeImageRelease.exists
        /\ \A c \in Clusters : NoNodeImageRelease.meta[c] = 0
    BY DEF NoNodeImageRelease, NoOwners
  <2> QED
    BY <1>4, <2>1, NodeImageReleaseTypes DEF Drops
<1>5. CASE DeleteNodeImageRelease(i)
  BY <1>4, <1>5 DEF DeleteNodeImageRelease
<1>6. CASE CollectGarbage(i)
  <2> DEFINE left == [c \in Clusters |-> IF c \in Solid(i) THEN nirs[i].meta[c] ELSE 0]
             n    == [nirs[i] EXCEPT !.meta = left]
  <2>1. left \in OwnerReferences
    BY <1>2 DEF OwnerReferences
  <2>2. n \in NodeImageRelease /\ n.meta = left
    BY <1>2, <2>1 DEF NodeImageRelease
  <2>3. WriteNodeImageRelease(i, NoNodeImageRelease) \/ WriteNodeImageRelease(i, n)
    BY <1>6 DEF CollectGarbage
  <2>4. \A c \in Clusters : left[c] = IF c \in Solid(i) THEN nirs[i].meta[c] ELSE 0
    OBVIOUS
  <2> HIDE DEF n, left
  <2>5. WriteNodeImageRelease(i, n) => Drops(i)
    BY <2>2, <2>4 DEF Drops
  <2> QED
    BY <1>4, <2>3, <2>5
<1> QED
  BY <1>1, <1>3, <1>5, <1>6

LEMMA NextIsOpen ==
  ASSUME TypeInv, [Next]_vars
  PROVE  OpenNext
<1>1. CASE NodeImageReleases
  BY <1>1, NodeImageReleasesDrop DEF NodeImageReleases, Elsewhere, OpenNext, Others
<1>2. CASE UNCHANGED vars
  BY <1>2 DEF OpenNext, Others, vars, ownVars
<1> QED
  BY <1>1, <1>2 DEF Next, OpenNext

-----------------------------------------------------------------------------
(* What steps do to the cluster stack releases.                            *)

NewUID(r) == \E o \in Object : Write(r, o) /\ o.meta >= stored[r].meta

LEMMA ApiSteps ==
  ASSUME TypeInv, UIDsGrow, OpenNext
  PROVE  \/ UNCHANGED apiVars
         \/ \E r \in Clusters : Deliver(r)
         \/ \E r \in Clusters : NewUID(r)
         \/ StartAgain
<1>1. CASE Calls
  BY <1>1 DEF Calls, AssetsMissing, AssetsPresent, AssetsUnusable,
     NewAssetsClient, NewAssetsClientFails, Download, DownloadFails,
     GetNodeImages, GetNodeImagesFails, CreateOrUpdate, CreateOrUpdateFails,
     NotReadyYet, AllReady, Goto, Return
<1>2. CASE Patch
  <2>1. cur \in Clusters /\ stored[cur].meta \in Nat /\ TypeOK
    BY ObjectsTyped DEF TypeInv
  <2>2. CASE WriteReady
    <3>1. PICK o \in Object : Write(cur, o) /\ o.meta = stored[cur].meta
      BY <2>1, <2>2, PatchWrites
    <3> QED
      BY <2>1, <3>1 DEF NewUID
  <2>3. CASE CanPatch /\ Write(cur, Merged)
    <3>1. cache[cur].meta = stored[cur].meta
      BY <2>1, <2>3 DEF CanPatch, UIDsGrow, Grows
    <3>2. Merged \in Object /\ Merged.meta >= stored[cur].meta
      BY <2>1, <3>1, PatchWrites
    <3> QED
      BY <2>1, <2>3, <3>2 DEF NewUID
  <2>4. UNCHANGED apiVars \/ WriteReady \/ (CanPatch /\ Write(cur, Merged))
    BY <1>2 DEF Patch, PatchConditionsZero, PatchConditions,
       PatchConditionsFails, PatchStatusZero, PatchStatus, PatchStatusFails
  <2> QED
    BY <2>2, <2>3, <2>4
<1>3. CASE Runtime
  <2>1. CASE \/ Resync
             \/ \E c \in Clusters : \/ TimerFires(c) \/ ReconcileMissing(c)
                                    \/ ReconcileStart(c, "new")
    BY <2>1 DEF Resync, TimerFires, ReconcileMissing, ReconcileStart
  <2>2. ASSUME NEW c \in Clusters,
               CreateObject(c, stored[c].meta + 1) \/ DeleteObject(c)
        PROVE  NewUID(c)
    <3> DEFINE m == stored[c].meta
    <3>1. m \in Nat
      BY ObjectsTyped
    <3>2. CASE CreateObject(c, m + 1)
      <4>1. NewObject(m + 1) \in Object /\ NewObject(m + 1).meta = m + 1
        BY <3>1, ObjectTypes DEF NewObject, Blank
      <4> QED
        BY <3>1, <3>2, <4>1 DEF NewUID, CreateObject
    <3>3. CASE DeleteObject(c)
      <4>1. Blank(FALSE, m) \in Object /\ Blank(FALSE, m).meta = m
        BY <3>1, ObjectTypes DEF Blank
      <4>2. Write(c, Blank(FALSE, m))
        BY <3>3 DEF DeleteObject
      <4>3. Blank(FALSE, m).meta >= stored[c].meta
        BY <3>1 DEF Blank
      <4> QED
        BY <4>1, <4>2, <4>3 DEF NewUID
    <3> QED
      BY <2>2, <3>2, <3>3
  <2> QED
    BY <1>3, <2>1, <2>2 DEF Runtime
<1>4. CASE Restart
  BY <1>4 DEF Restart
<1>5. CASE Others
  BY <1>5 DEF Others, runtimeVars, apiVars
<1> QED
  BY <1>1, <1>2, <1>3, <1>4, <1>5 DEF OpenNext, Worker

(* UIDs keep growing, and the cached ones never go back.                   *)
LEMMA UIDsGrowStep ==
  ASSUME TypeInv, UIDsGrow, OpenNext
  PROVE  /\ UIDsGrow'
         /\ \A c \in Clusters : cache[c].meta <= cache'[c].meta
<1>1. CASE UNCHANGED apiVars
  BY <1>1, ObjectsTyped DEF apiVars, UIDsGrow
<1>2. ASSUME NEW r \in Clusters, NEW c \in Clusters, Deliver(r)
      PROVE  /\ Grows(cache'[c].meta, feed'[c], stored'[c].meta)
             /\ cache[c].meta <= cache'[c].meta
  <2>1. Grows(cache[c].meta, feed[c], stored[c].meta)
    BY DEF UIDsGrow
  <2>2. stored' = stored
    BY <1>2 DEF Deliver
  <2>3. CASE c # r
    <3>1. cache'[c] = cache[c] /\ feed'[c] = feed[c]
      BY <1>2, <2>3 DEF Deliver, TypeInv, TypeOK, ReconcilerTypeOK
    <3> QED
      BY <2>1, <2>2, <3>1, ObjectsTyped
  <2>4. CASE c = r
    <3>1. /\ cache'[c] = Head(feed[c]) /\ feed'[c] = Tail(feed[c])
          /\ feed[c] # <<>>
      BY <1>2, <2>4 DEF Deliver, TypeInv, TypeOK, ReconcilerTypeOK
    <3> QED
      BY <2>1, <2>2, <3>1, ObjectsTyped, GrowsDeliver
  <2> QED
    BY <2>3, <2>4
<1>3. ASSUME NEW r \in Clusters, NEW c \in Clusters, NewUID(r)
      PROVE  /\ Grows(cache'[c].meta, feed'[c], stored'[c].meta)
             /\ cache[c].meta <= cache'[c].meta
  <2>1. Grows(cache[c].meta, feed[c], stored[c].meta)
    BY DEF UIDsGrow
  <2>2. PICK o \in Object : Write(r, o) /\ o.meta >= stored[r].meta
    BY <1>3 DEF NewUID
  <2>3. cache' = cache
    BY <2>2 DEF Write
  <2>4. \/ stored'[c] = stored[c] /\ feed'[c] = feed[c]
        \/ c = r /\ stored'[c] = o /\ feed'[c] = Append(feed[c], o)
    BY <2>2 DEF Write, TypeInv, TypeOK, ReconcilerTypeOK
  <2>5. ASSUME c = r, stored'[c] = o, feed'[c] = Append(feed[c], o)
        PROVE  Grows(cache'[c].meta, feed'[c], stored'[c].meta)
    <3>1. stored[c].meta <= o.meta
      BY <2>2, <2>5, ObjectsTyped, ObjectTypes
    <3> QED
      BY <2>1, <2>3, <2>5, <3>1, ObjectsTyped, GrowsAppend
  <2> QED
    BY <2>1, <2>3, <2>4, <2>5, ObjectsTyped
<1>4. ASSUME NEW c \in Clusters, StartAgain
      PROVE  /\ Grows(cache'[c].meta, feed'[c], stored'[c].meta)
             /\ cache[c].meta <= cache'[c].meta
  <2>1. cache'[c] = stored[c] /\ feed'[c] = <<>> /\ stored'[c] = stored[c]
    BY <1>4 DEF StartAgain
  <2>2. Grows(cache'[c].meta, feed'[c], stored'[c].meta)
    BY <2>1, EmptySeq DEF Grows
  <2>3. cache[c].meta <= stored[c].meta
    BY ObjectsTyped, GrowsBound DEF UIDsGrow
  <2> QED
    BY <2>1, <2>2, <2>3
<1> QED
  BY <1>1, <1>2, <1>3, <1>4, ApiSteps DEF UIDsGrow

-----------------------------------------------------------------------------
(* What steps do to the node image releases.                               *)

(* The worker writes the UID of its copy, and keeps the rest.              *)
Refers(i) ==
  /\ pc # "idle" /\ cache' = cache
  /\ \E n \in NodeImageRelease :
       /\ WriteNodeImageRelease(i, n)
       /\ n.meta[cur] = obj.meta
       /\ nirs[i].exists => \A c \in Clusters \ {cur} : n.meta[c] = nirs[i].meta[c]
       /\ \A c \in Clusters \ {cur} : n.meta[c] = nirs[i].meta[c] \/ n.meta[c] = 0

LEMMA EnsuredRefers ==
  ASSUME TypeInv, CacheFollows, NEW i \in NodeImages, Ensured(i),
         pc # "idle", cache' = cache
  PROVE  Refers(i)
<1> DEFINE kept  == [nirCache[i].meta EXCEPT ![cur] = obj.meta]
           fresh == [NoOwners EXCEPT ![cur] = obj.meta]
<1>1. /\ cur \in Clusters /\ obj.meta \in Nat
      /\ nirs[i] \in NodeImageRelease /\ nirCache[i].meta \in OwnerReferences
  BY ObjectsTyped
<1>2. CASE EnsureOwner(i)
  <2> DEFINE n == [nirs[i] EXCEPT !.meta = kept]
  <2>1. nirCache[i] = nirs[i]
    BY <1>2 DEF EnsureOwner, LockHolds, CacheFollows
  <2>2. /\ kept \in OwnerReferences /\ kept[cur] = obj.meta
        /\ \A c \in Clusters \ {cur} : kept[c] = nirs[i].meta[c]
    BY <1>1, <2>1 DEF OwnerReferences
  <2>3. n \in NodeImageRelease /\ n.meta = kept
    BY <1>1, <2>2 DEF NodeImageRelease
  <2>4. WriteNodeImageRelease(i, n)
    BY <1>2 DEF EnsureOwner
  <2> HIDE DEF n, kept
  <2> QED
    BY <2>2, <2>3, <2>4 DEF Refers
<1>3. CASE CreateNodeImageRelease(i)
  <2> DEFINE n == [NoNodeImageRelease EXCEPT !.exists = TRUE, !.meta[cur] = obj.meta]
  <2>1. /\ fresh \in OwnerReferences /\ fresh[cur] = obj.meta
        /\ \A c \in Clusters \ {cur} : fresh[c] = 0
    BY <1>1 DEF NoOwners, OwnerReferences
  <2>2. n \in NodeImageRelease /\ n.meta = fresh
    BY <2>1, ClustersAssumption DEF NoNodeImageRelease, NodeImageRelease
  <2>3. WriteNodeImageRelease(i, n) /\ ~nirs[i].exists
    BY <1>3 DEF CreateNodeImageRelease
  <2> HIDE DEF n, fresh
  <2> QED
    BY <2>1, <2>2, <2>3 DEF Refers
<1> QED
  BY <1>2, <1>3 DEF Ensured

LEMMA NodeSteps ==
  ASSUME TypeInv, CacheFollows, OpenNext
  PROVE  \/ UNCHANGED nirVars
         \/ \E i \in NodeImages : \/ DeliverNodeImageRelease(i)
                                  \/ Refers(i) \/ Drops(i)
         \/ Restart
<1>1. CASE Calls
  <2>1. CASE CreateOrUpdate \/ CreateOrUpdateFails
    <3>1. pc = "ensure" /\ Head(todo) \in NodeImages
      BY <2>1, HeadTailProperties DEF CreateOrUpdate, CreateOrUpdateFails,
         TypeInv, TypeOK
    <3>2. Ensured(Head(todo)) \/ UNCHANGED nirVars
      BY <2>1 DEF CreateOrUpdate, CreateOrUpdateFails
    <3>3. cache' = cache
      BY <2>1 DEF CreateOrUpdate, CreateOrUpdateFails, Goto, Return, apiVars
    <3> QED
      BY <3>1, <3>2, <3>3, EnsuredRefers
  <2>2. CASE ~(CreateOrUpdate \/ CreateOrUpdateFails)
    BY <1>1, <2>2 DEF Calls, AssetsMissing, AssetsPresent, AssetsUnusable,
       NewAssetsClient, NewAssetsClientFails, Download, DownloadFails,
       DirBecomes, GetNodeImages, GetNodeImagesFails, NotReadyYet, AllReady,
       ownVars, nirVars
  <2> QED
    BY <2>1, <2>2
<1>2. CASE (Patch /\ UNCHANGED ownVars) \/ Runtime
  BY <1>2 DEF Runtime, ownVars
<1>3. CASE Others
  BY <1>3 DEF Others
<1> QED
  BY <1>1, <1>2, <1>3 DEF OpenNext, Worker

LEMMA CacheFollowsStep ==
  ASSUME TypeInv, CacheFollows, OpenNext
  PROVE  CacheFollows'
<1>1. CASE UNCHANGED nirVars
  BY <1>1 DEF nirVars, CacheFollows
<1>2. CASE Restart
  BY <1>2 DEF Restart, CacheFollows
<1>3. ASSUME NEW i \in NodeImages, NEW j \in NodeImages, NEW n,
             WriteNodeImageRelease(i, n)
      PROVE  IF nirFeed'[j] = <<>> THEN nirCache'[j] = nirs'[j]
             ELSE nirFeed'[j][Len(nirFeed'[j])] = nirs'[j]
  <2>1. \/ /\ nirFeed'[j] = nirFeed[j] /\ nirs'[j] = nirs[j]
           /\ nirCache'[j] = nirCache[j]
        \/ nirFeed'[j] = Append(nirFeed[j], n) /\ nirs'[j] = n
    BY <1>3 DEF WriteNodeImageRelease, TypeInv, TypeOK
  <2>2. nirFeed[j] \in Seq(NodeImageRelease)
    BY ObjectsTyped
  <2>3. ASSUME nirFeed'[j] = Append(nirFeed[j], n), nirs'[j] = n
        PROVE  nirFeed'[j] # <<>> /\ nirFeed'[j][Len(nirFeed'[j])] = nirs'[j]
    <3>1. \A s \in Seq(NodeImageRelease) :
            Append(s, n) # <<>> /\ Append(s, n)[Len(Append(s, n))] = n
      OBVIOUS
    <3> QED
      BY <2>2, <2>3, <3>1
  <2> QED
    BY <2>1, <2>3 DEF CacheFollows
<1>4. ASSUME NEW i \in NodeImages, NEW j \in NodeImages,
             DeliverNodeImageRelease(i)
      PROVE  IF nirFeed'[j] = <<>> THEN nirCache'[j] = nirs'[j]
             ELSE nirFeed'[j][Len(nirFeed'[j])] = nirs'[j]
  <2>1. \/ /\ nirFeed'[j] = nirFeed[j] /\ nirCache'[j] = nirCache[j]
        \/ /\ nirFeed[j] # <<>> /\ nirFeed'[j] = Tail(nirFeed[j])
           /\ nirCache'[j] = Head(nirFeed[j])
    BY <1>4 DEF DeliverNodeImageRelease, TypeInv, TypeOK
  <2>2. nirFeed[j] \in Seq(NodeImageRelease) /\ nirs' = nirs
    BY <1>4, ObjectsTyped DEF DeliverNodeImageRelease
  <2>3. CASE /\ nirFeed[j] # <<>> /\ nirFeed'[j] = Tail(nirFeed[j])
             /\ nirCache'[j] = Head(nirFeed[j])
    <3> DEFINE s == nirFeed[j]
               n == Len(s)
    <3>1. s[n] = nirs[j]
      BY <2>3 DEF CacheFollows
    <3>2. /\ n \in Nat \ {0} /\ Len(Tail(s)) = n - 1 /\ Head(s) = s[1]
          /\ \A k \in 1..(n - 1) : Tail(s)[k] = s[k + 1]
          /\ Tail(s) \in Seq(NodeImageRelease)
      BY <2>2, <2>3, EmptySeq, HeadTailProperties
    <3>3. Tail(s) = <<>> <=> Len(Tail(s)) = 0
      BY <3>2, EmptySeq
    <3>4. CASE n = 1
      <4>1. Tail(s) = <<>>
        BY <3>2, <3>4, <3>3
      <4> QED
        BY <2>2, <2>3, <3>1, <3>2, <3>4, <4>1
    <3>5. CASE n # 1
      <4>1. Tail(s) # <<>> /\ n - 1 \in 1..(n - 1) /\ (n - 1) + 1 = n
        BY <3>2, <3>5, <3>3
      <4>2. Tail(s)[n - 1] = s[n]
        BY <3>2, <4>1
      <4> QED
        BY <2>2, <2>3, <3>1, <3>2, <4>1, <4>2
    <3> QED
      BY <3>4, <3>5
  <2> QED
    BY <2>1, <2>2, <2>3 DEF CacheFollows
<1>5. CASE \E i \in NodeImages : Refers(i) \/ Drops(i)
  BY <1>3, <1>5 DEF Refers, Drops, CacheFollows
<1>6. CASE \E i \in NodeImages : DeliverNodeImageRelease(i)
  BY <1>4, <1>6 DEF CacheFollows
<1> QED
  BY <1>1, <1>2, <1>5, <1>6, NodeSteps

-----------------------------------------------------------------------------
(* References and the worker's copy.                                       *)

(* What a step makes of the reference of one node image release.           *)
LEMMA ReferenceSteps ==
  ASSUME TypeInv, CacheFollows, OpenNext,
         NEW i \in NodeImages, NEW c \in Clusters
  PROVE  \/ nirs'[i].meta[c] = nirs[i].meta[c]
         \/ /\ nirs'[i].meta[c] = 0
            /\ nirs[i].exists /\ nirs'[i].exists => c \notin Solid(i)
         \/ /\ nirs'[i].meta[c] = obj.meta
            /\ c = cur /\ pc # "idle" /\ cache' = cache
<1>1. CASE UNCHANGED nirs
  BY <1>1
<1>2. ASSUME NEW j \in NodeImages, NEW n, WriteNodeImageRelease(j, n)
      PROVE  nirs'[i] = nirs[i] \/ (i = j /\ nirs'[i] = n)
  BY <1>2 DEF WriteNodeImageRelease, TypeInv, TypeOK
<1>3. CASE \E j \in NodeImages : Drops(j)
  BY <1>2, <1>3 DEF Drops
<1>4. CASE \E j \in NodeImages : Refers(j)
  <2>1. PICK j \in NodeImages : Refers(j)
    BY <1>4
  <2>2. PICK n \in NodeImageRelease :
          /\ WriteNodeImageRelease(j, n)
          /\ n.meta[cur] = obj.meta
          /\ nirs[j].exists => \A d \in Clusters \ {cur} : n.meta[d] = nirs[j].meta[d]
          /\ \A d \in Clusters \ {cur} : n.meta[d] = nirs[j].meta[d] \/ n.meta[d] = 0
    BY <2>1 DEF Refers
  <2>3. pc # "idle" /\ cache' = cache
    BY <2>1 DEF Refers
  <2> QED
    BY <1>2, <2>2, <2>3
<1> QED
  BY <1>1, <1>3, <1>4, NodeSteps DEF nirVars, DeliverNodeImageRelease, Restart

LEMMA RefsAreOldStep ==
  ASSUME TypeInv, TypeInv', OwnersInv, OpenNext
  PROVE  RefsAreOld'
<1> SUFFICES ASSUME NEW i \in NodeImages, NEW c \in Clusters
             PROVE  nirs'[i].meta[c] <= cache'[c].meta
  BY DEF RefsAreOld
<1>1. TypeInv'
  OBVIOUS
<1>2. cache[c].meta \in Nat /\ cache'[c].meta \in Nat
  BY <1>1, ObjectTypes, ObjectsTyped DEF TypeInv, TypeOK, ReconcilerTypeOK
<1>3. nirs[i].meta[c] \in Nat /\ obj.meta \in Nat
  BY ObjectsTyped DEF OwnerReferences
<1>4. cache[c].meta <= cache'[c].meta
  BY UIDsGrowStep DEF OwnersInv
<1>5. nirs[i].meta[c] <= cache[c].meta
  BY DEF OwnersInv, RefsAreOld
<1>6. CASE nirs'[i].meta[c] = nirs[i].meta[c] \/ nirs'[i].meta[c] = 0
  BY <1>2, <1>3, <1>4, <1>5, <1>6
<1>7. CASE nirs'[i].meta[c] = obj.meta /\ c = cur /\ pc # "idle"
  <2>1. obj.meta <= cache[c].meta
    BY <1>7 DEF OwnersInv, CopyIsNewest
  <2> QED
    BY <1>2, <1>3, <1>4, <1>7, <2>1
<1> QED
  BY <1>6, <1>7, ReferenceSteps DEF OwnersInv

(* What a step does to the worker's copy.                                  *)
LEMMA CopySteps ==
  ASSUME TypeInv, OpenNext
  PROVE  \/ pc' = "idle"
         \/ pc # "idle" /\ cur' = cur /\ obj'.meta = obj.meta
         \/ \E c \in Clusters :
              /\ cur' = c /\ obj' = cache[c]
              /\ UNCHANGED cache /\ UNCHANGED nirs
<1>1. CASE Calls
  <2>1. obj'.meta = obj.meta
    BY <1>1, ReconcileType
  <2>2. pc # "idle" /\ cur' = cur
    BY <1>1 DEF Calls, AssetsMissing, AssetsPresent, AssetsUnusable,
       NewAssetsClient, NewAssetsClientFails, Download, DownloadFails,
       GetNodeImages, GetNodeImagesFails, CreateOrUpdate, CreateOrUpdateFails,
       NotReadyYet, AllReady, Goto, Return
  <2> QED
    BY <2>1, <2>2
<1>2. CASE Patch
  <2>1. CASE PatchConditionsZero \/ PatchConditions \/ PatchConditionsFails
    BY <2>1 DEF PatchConditionsZero, PatchConditions, PatchConditionsFails,
                ConditionsDone
  <2>2. CASE PatchStatusZero \/ PatchStatus \/ PatchStatusFails
    BY <2>2 DEF PatchStatusZero, PatchStatus, PatchStatusFails, Finish, TypeInv
  <2> QED
    BY <1>2, <2>1, <2>2 DEF Patch
<1>3. CASE Runtime
  <2>1. CASE \E c \in Clusters : ReconcileStart(c, "new")
    BY <1>3, <2>1 DEF Runtime, ReconcileStart, apiVars, ownVars, nirVars
  <2>2. CASE ~\E c \in Clusters : ReconcileStart(c, "new")
    <3>1. UNCHANGED workerVars
      BY <1>3, <2>2 DEF Runtime, Deliver, TimerFires, ReconcileMissing,
         CreateObject, DeleteObject, Resync
    <3> QED
      BY <3>1 DEF workerVars
  <2> QED
    BY <2>1, <2>2
<1>4. CASE Restart
  BY <1>4 DEF Restart, StartAgain
<1>5. CASE Others
  BY <1>5 DEF Others, runtimeVars
<1> QED
  BY <1>1, <1>2, <1>3, <1>4, <1>5 DEF OpenNext, Worker

LEMMA CopyIsNewestStep ==
  ASSUME TypeInv, TypeInv', OwnersInv, OpenNext
  PROVE  CopyIsNewest'
<1>1. TypeInv' /\ cur \in Clusters
  BY ObjectsTyped
<1>2. \A c \in Clusters : cache[c].meta \in Nat /\ cache'[c].meta \in Nat
  BY <1>1, ObjectTypes, ObjectsTyped DEF TypeInv, TypeOK, ReconcilerTypeOK
<1>3. \A i \in NodeImages, c \in Clusters : nirs[i].meta[c] \in Nat
  BY ObjectsTyped DEF OwnerReferences
<1>4. CASE pc # "idle" /\ cur' = cur /\ obj'.meta = obj.meta
  <2>1. obj.meta \in Nat /\ obj.meta <= cache[cur].meta
    BY <1>4, ObjectsTyped DEF OwnersInv, CopyIsNewest
  <2>2. cache[cur].meta <= cache'[cur].meta
    BY <1>1, UIDsGrowStep DEF OwnersInv
  <2>3. obj.meta <= cache'[cur].meta
    BY <1>1, <1>2, <2>1, <2>2
  <2>4. ASSUME NEW i \in NodeImages
        PROVE  nirs'[i].meta[cur] <= obj.meta
    <3>1. nirs[i].meta[cur] <= obj.meta
      BY <1>4 DEF OwnersInv, CopyIsNewest
    <3>2. nirs'[i].meta[cur] \in {nirs[i].meta[cur], 0, obj.meta}
      BY <1>1, ReferenceSteps DEF OwnersInv
    <3> QED
      BY <2>1, <3>1, <3>2
  <2> QED
    BY <1>4, <2>3, <2>4 DEF CopyIsNewest
<1>5. ASSUME NEW c \in Clusters, cur' = c, obj' = cache[c],
             UNCHANGED cache, UNCHANGED nirs
      PROVE  CopyIsNewest'
  BY <1>2, <1>5 DEF OwnersInv, RefsAreOld, CopyIsNewest
<1> QED
  BY <1>4, <1>5, CopySteps DEF CopyIsNewest

-----------------------------------------------------------------------------
LEMMA OwnersInit ==
  ASSUME Init
  PROVE  OwnersInv
<1>1. \A c \in Clusters : /\ cache[c].meta = 0 /\ stored[c].meta = 0
                          /\ feed[c] = <<>>
  BY DEF Init, ReconcilerInit, NoObject, Blank
<1>2. UIDsGrow
  BY <1>1, EmptySeq DEF UIDsGrow, Grows
<1>3. \A i \in NodeImages : /\ nirFeed[i] = <<>> /\ nirCache[i] = nirs[i]
                            /\ \A c \in Clusters : nirs[i].meta[c] = 0
  BY DEF Init, NoNodeImageRelease, NoOwners
<1>4. CacheFollows /\ RefsAreOld
  BY <1>1, <1>3 DEF CacheFollows, RefsAreOld
<1>5. CopyIsNewest
  BY DEF Init, ReconcilerInit, CopyIsNewest
<1> QED
  BY <1>2, <1>4, <1>5 DEF OwnersInv

LEMMA OwnersStep ==
  ASSUME TypeInv, TypeInv', OwnersInv, OpenNext
  PROVE  OwnersInv'
BY UIDsGrowStep, CacheFollowsStep, RefsAreOldStep, CopyIsNewestStep DEF OwnersInv

(* A reference as new as the stored release is the one the worker would    *)
(* write.                                                                  *)
LEMMA ReferencesStay ==
  ASSUME TypeInv, OwnersInv, OpenNext,
         NEW i \in NodeImages, nirs[i].exists, nirs'[i].exists,
         NEW c \in Solid(i)
  PROVE  nirs'[i].meta[c] = nirs[i].meta[c]
<1>1. c \in Clusters /\ nirs[i].meta[c] = stored[c].meta
  BY DEF Solid
<1>2. CASE nirs'[i].meta[c] = obj.meta /\ c = cur /\ pc # "idle"
  <2>1. obj.meta <= cache[c].meta /\ nirs[i].meta[c] <= obj.meta
    BY <1>2 DEF OwnersInv, CopyIsNewest
  <2>2. /\ cache[c].meta \in Nat /\ stored[c].meta \in Nat /\ obj.meta \in Nat
        /\ feed[c] \in Seq(Object)
    BY <1>1, ObjectsTyped
  <2>3. cache[c].meta <= stored[c].meta
    BY <1>1, <2>2, GrowsBound DEF OwnersInv, UIDsGrow
  <2> QED
    BY <1>1, <1>2, <2>1, <2>2, <2>3
<1> QED
  BY <1>1, <1>2, ReferenceSteps DEF OwnersInv

LEMMA OwnersInvariant == Spec => []OwnersInv
<1>1. TypeInv /\ TypeInv' /\ OwnersInv /\ [Next]_vars => OwnersInv'
  BY NextIsOpen, OwnersStep
<1> QED
  BY <1>1, OwnersInit, TypeInvariant, PTL DEF Spec

(* While it exists, a node image release loses no reference to an owner    *)
(* that lives: however many releases share it, however often they are      *)
(* deleted and created again, and whatever the caches have seen of it.     *)
THEOREM OwnersKept == Spec => OwnersAreKept
<1>1. TypeInv /\ OwnersInv /\ [Next]_vars
        => [\A i \in NodeImages : nirs[i].exists /\ nirs'[i].exists
              => \A c \in Solid(i) : nirs'[i].meta[c] = nirs[i].meta[c]]_vars
  BY NextIsOpen, ReferencesStay
<1> QED
  BY <1>1, TypeInvariant, OwnersInvariant, PTL DEF Spec, OwnersAreKept
=============================================================================
