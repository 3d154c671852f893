------------------------- MODULE ExtentCacheProofs --------------------------
(***************************************************************************)
(* Proofs about ExtentCache, for any clients, extents and contents.        *)
(***************************************************************************)
EXTENDS ExtentCache, FiniteSetTheorems, TLAPS

(***************************************************************************)
(* CacheShape is inductive together with RemovedOnce: a get or put erases  *)
(* one entry of removed_extents, which leaves none only if there was one.  *)
(***************************************************************************)
ShapeInv == TypeOK /\ CacheShape /\ RemovedOnce

(***************************************************************************)
(* The calls that fail in a flush are at most two, and when none is        *)
(* counted, none has failed.                                               *)
(***************************************************************************)
LEMMA FailedCalls ==
    ASSUME NEW S \in SUBSET {"put", "remove"}
    PROVE  Cardinality(S) \in Nat /\ (Cardinality(S) = 0 => S = {})
<1>1. IsFiniteSet({"put"})
  BY FS_Singleton, Zenon
<1>2. IsFiniteSet({"put"} \cup {"remove"})
  BY <1>1, FS_AddElement, Zenon
<1>3. IsFiniteSet(S)
  BY <1>2, FS_Subset, {"put", "remove"} = {"put"} \cup {"remove"}, Zenon
<1> QED
  BY <1>3, FS_CardinalityType, FS_EmptySet, Zenon

(***************************************************************************)
(* A client whose extent_mutex is held has read an extent.                 *)
(***************************************************************************)
LEMMA FetchingType ==
    ASSUME TypeOK, NEW c \in Client, ~ MutexFree(c)
    PROVE  fetching[c].eid \in Eid /\ fetching[c].buf \in Data
BY Zenon DEF TypeOK, MutexFree

(***************************************************************************)
(* The cache is empty at first.                                            *)
(***************************************************************************)
LEMMA InitShape == Init => ShapeInv
BY DEF Init, ServerInit, ShapeInv, TypeOK, ServerTypeOK, CacheShape, RemovedOnce, Contents,
       NoFetch

(***************************************************************************)
(* Every operation of the extent client keeps maps and lists in step.      *)
(***************************************************************************)
LEMMA NextShape == ShapeInv /\ [Next]_vars => ShapeInv'
<1> SUFFICES ASSUME ShapeInv, [Next]_vars PROVE ShapeInv'
  BY Zenon
<1> USE ExtentAssumption, CacheAssumption
<1>1. ASSUME NEW c \in Client, NEW e \in Eid, Acquire(c, e) PROVE ShapeInv'
  BY <1>1, Zenon DEF Acquire, ShapeInv, TypeOK, ServerTypeOK, CacheShape, RemovedOnce, serverVars,
              cacheVars
<1>2. ASSUME NEW c \in Client, NEW e \in Eid, FetchData(c, e) PROVE ShapeInv'
  BY <1>2 DEF FetchData, getOK, ShapeInv, TypeOK, ServerTypeOK, CacheShape, RemovedOnce,
              Contents, serverVars, cacheVars
<1>3. ASSUME NEW c \in Client, NEW e \in Eid, NEW d \in Data, Put(c, e, d) PROVE ShapeInv'
  <2>1. TypeOK'
    BY <1>3 DEF Put, AddToModified, ShapeInv, TypeOK, ServerTypeOK, Contents, serverVars,
                Flushed
  <2>2. CacheShape' /\ RemovedOnce'
    BY <1>3 DEF Put, AddToModified, ShapeInv, TypeOK, CacheShape, RemovedOnce
  <2> QED
    BY <2>1, <2>2, Zenon DEF ShapeInv
<1>4. ASSUME NEW c \in Client, NEW e \in Eid, Remove(c, e) PROVE ShapeInv'
  <2>1. TypeOK'
    BY <1>4 DEF Remove, ShapeInv, TypeOK, ServerTypeOK, Contents, serverVars, Flushed
  <2>2. CacheShape' /\ RemovedOnce'
    BY <1>4 DEF Remove, ShapeInv, TypeOK, CacheShape, RemovedOnce
  <2> QED
    BY <2>1, <2>2, Zenon DEF ShapeInv
<1>5. ASSUME NEW c \in Client, NEW e \in Eid, NEW failed \in SUBSET {"put", "remove"},
             Flush(c, e, failed)
      PROVE  ShapeInv'
  <2>1. Cardinality(failed) \in Nat
    BY FailedCalls, Zenon
  <2>a. \/ FlushPut(c, e)
        \/ UNCHANGED <<extents, extent_attrs, modified, modifiedAttrs>>
    BY <1>5, Zenon DEF Flush
  <2>b. \/ put(e, NoData, NoData)
        \/ put(e, extents[c][e], extent_attrs[c][e])
        \/ UNCHANGED serverVars
    BY <1>5, Zenon DEF Flush, FlushServer
  <2>c. PICK n \in {0, removed[c][e]} : removed' = [removed EXCEPT ![c][e] = n]
    BY <1>5, Zenon DEF Flush
  <2>d. NoData \in Contents /\ extents[c][e] \in Contents /\ extent_attrs[c][e] \in Contents
    BY DEF Contents, ShapeInv, TypeOK
  <2>2. TypeOK'
    <3>1. late' \subseteq Flushed
      BY <1>5 DEF Flush, FlushRequest, ShapeInv, TypeOK, Flushed
    <3>2. ServerTypeOK'
      <4>1. CASE put(e, NoData, NoData)
        BY <4>1, Zenon DEF put, ShapeInv, TypeOK, ServerTypeOK, Contents
      <4>2. CASE put(e, extents[c][e], extent_attrs[c][e])
        BY <4>2, <2>d, Zenon DEF put, ShapeInv, TypeOK, ServerTypeOK, Contents
      <4>3. CASE UNCHANGED serverVars
        BY <4>3, Zenon DEF serverVars, ShapeInv, TypeOK, ServerTypeOK, Contents
      <4> QED
        BY <2>b, <4>1, <4>2, <4>3, Zenon
    <3>3. /\ extents' \in [Client -> [Eid -> Contents]]
          /\ extent_attrs' \in [Client -> [Eid -> Contents]]
          /\ modified' \in [Client -> SUBSET Eid]
          /\ modifiedAttrs' \in [Client -> SUBSET Eid]
      <4>1. CASE FlushPut(c, e)
        BY <4>1, Zenon DEF FlushPut, ShapeInv, TypeOK, Contents
      <4>2. CASE UNCHANGED <<extents, extent_attrs, modified, modifiedAttrs>>
        BY <4>2, Zenon DEF ShapeInv, TypeOK, Contents
      <4> QED
        BY <2>a, <4>1, <4>2, Zenon
    <3>4. /\ removed' \in [Client -> [Eid -> Nat]]
          /\ lockOwner' \in [Eid -> Client \cup {NoClient}]
          /\ failures' \in Nat
      BY <1>5, <2>1, <2>c DEF Flush, ShapeInv, TypeOK
    <3> QED
      BY <1>5, <3>1, <3>2, <3>3, <3>4, Zenon DEF Flush, ShapeInv, TypeOK
  <2>3. CacheShape' /\ RemovedOnce'
    BY <2>a, <2>c DEF FlushPut, ShapeInv, TypeOK, CacheShape, RemovedOnce
  <2> QED
    BY <2>2, <2>3, Zenon DEF ShapeInv
<1>6. ASSUME NEW c \in Client, FetchAttr(c) PROVE ShapeInv'
  <2>1. fetching[c].eid \in Eid /\ fetching[c].buf \in Data
    BY <1>6, FetchingType, Zenon DEF FetchAttr, ShapeInv
  <2>2. CASE ~ getattrOK(fetching[c].eid)
    BY <1>6, <2>2 DEF FetchAttr, ShapeInv, TypeOK, ServerTypeOK, CacheShape, RemovedOnce,
                      serverVars, cacheVars
  <2>3. CASE getattrOK(fetching[c].eid)
    <3>1. PICK e \in Eid, d \in Data, a \in Data :
             /\ extents' = [extents EXCEPT ![c][e] = d]
             /\ extent_attrs' = [extent_attrs EXCEPT ![c][e] = a]
             /\ AddToModified(c, e)
      BY <1>6, <2>1, <2>3, ZenonT(30) DEF FetchAttr, getattrOK, ShapeInv, TypeOK, ServerTypeOK, Contents
    <3>2. TypeOK'
      BY <1>6, <3>1 DEF FetchAttr, AddToModified, ShapeInv, TypeOK, ServerTypeOK, Contents,
                        serverVars
    <3>3. CacheShape' /\ RemovedOnce'
      BY <3>1 DEF AddToModified, ShapeInv, TypeOK, CacheShape, RemovedOnce
    <3> QED
      BY <3>2, <3>3, Zenon DEF ShapeInv
  <2> QED
    BY <2>2, <2>3, Zenon
<1>7. ASSUME NEW c \in Client, FetchFails(c) PROVE ShapeInv'
  BY <1>7 DEF FetchFails, ShapeInv, TypeOK, ServerTypeOK, CacheShape, RemovedOnce, serverVars,
              cacheVars
<1>8. ASSUME NEW m \in late, LateFlush(m) PROVE ShapeInv'
  <2>1. TypeOK'
    BY <1>8, Zenon DEF LateFlush, put, remove, ShapeInv, TypeOK, ServerTypeOK, Contents, serverVars,
                cacheVars, Flushed
  <2>2. CacheShape' /\ RemovedOnce'
    BY <1>8 DEF LateFlush, ShapeInv, CacheShape, RemovedOnce, cacheVars
  <2> QED
    BY <2>1, <2>2, Zenon DEF ShapeInv
<1>9. CASE UNCHANGED vars
  BY <1>9 DEF vars, ShapeInv, TypeOK, ServerTypeOK, CacheShape, RemovedOnce, serverVars,
              cacheVars
<1> QED
  BY <1>1, <1>2, <1>3, <1>4, <1>5, <1>6, <1>7, <1>8, <1>9, Zenon DEF Next, Get, Probe

(***************************************************************************)
(* The maps and lists of every extent client agree for ever, whatever is   *)
(* probed without a lock, reused, or lost by failing RPCs.                 *)
(***************************************************************************)
THEOREM CacheShapeHolds == Spec => [](CacheShape /\ RemovedOnce)
<1>1. ShapeInv => CacheShape /\ RemovedOnce
  BY Zenon DEF ShapeInv
<1> QED
  BY <1>1, InitShape, NextShape, PTL DEF Spec
-----------------------------------------------------------------------------
(***************************************************************************)
(* Why the owner of a lock reads what was last written, when every call is *)
(* made under the lock, nothing removed is used again and no RPC fails.    *)
(* What the server has is the latest, unless the lock's owner has the      *)
(* extent cached or is to remove it; what a client has cached, or is in    *)
(* the middle of fetching, is the latest, and the client is the owner.     *)
(***************************************************************************)
Quiescent == failures = 0 /\ late = {}

OwnerCaches ==
    \A c \in Client, e \in Eid :
       extents[c][e] # NoData => lockOwner[e] = c /\ extents[c][e] = latest[e]

RemovedIsGone ==
    /\ \A c \in Client, e \in Eid : removed[c][e] > 0 => e \in gone
    /\ \A e \in gone : latest[e] = NoData

StoreLatest ==
    \A e \in Eid :
       \/ store[e] = latest[e]
       \/ \E c \in Client : /\ lockOwner[e] = c
                            /\ extents[c][e] # NoData \/ removed[c][e] > 0

FetchCurrent ==
    \A c \in Client : ~ MutexFree(c) =>
       LET e == fetching[c].eid IN
       /\ lockOwner[e] = c
       /\ fetching[c].buf = store[e]
       /\ removed[c][e] = 0
       /\ extents[c][e] = NoData

CoherenceInv ==
    /\ ShapeInv
    /\ Quiescent
    /\ AttrDescribesData
    /\ OwnerCaches
    /\ RemovedIsGone
    /\ StoreLatest
    /\ FetchCurrent

(***************************************************************************)
(* Every step keeps CoherenceInv, in the use that the theorem is about.    *)
(***************************************************************************)
LEMMA NextCoherence ==
    ASSUME ~ Probing, ~ Reusing, MaxFailures = 0
    PROVE  CoherenceInv /\ [Next]_vars => CoherenceInv'
<1> SUFFICES ASSUME CoherenceInv, [Next]_vars PROVE CoherenceInv'
  BY Zenon
<1> USE ExtentAssumption, CacheAssumption
<1>0. ShapeInv /\ ShapeInv' /\ TypeOK
  BY NextShape, Zenon DEF CoherenceInv, ShapeInv
<1>1. ASSUME NEW c \in Client, NEW e \in Eid, Acquire(c, e) PROVE CoherenceInv'
  <2>1. Quiescent' /\ AttrDescribesData' /\ RemovedIsGone'
    BY <1>1, Zenon DEF Acquire, CoherenceInv, Quiescent, AttrDescribesData, RemovedIsGone, serverVars,
                cacheVars
  <2>2. OwnerCaches' /\ StoreLatest'
    BY <1>0, <1>1 DEF Acquire, CoherenceInv, OwnerCaches, StoreLatest, TypeOK, serverVars,
                      cacheVars
  <2>3. FetchCurrent'
    BY <1>0, <1>1 DEF Acquire, CoherenceInv, FetchCurrent, MutexFree, TypeOK, serverVars,
                      cacheVars
  <2> QED
    BY <1>0, <2>1, <2>2, <2>3, Zenon DEF CoherenceInv
<1>2. ASSUME NEW c \in Client, NEW e \in Eid, Get(c, e) PROVE CoherenceInv'
  <2>1. /\ Quiescent' /\ AttrDescribesData' /\ RemovedIsGone'
        /\ OwnerCaches' /\ StoreLatest'
    BY <1>2, SMTT(30) DEF Get, FetchData, CoherenceInv, Quiescent, AttrDescribesData, RemovedIsGone,
                OwnerCaches, StoreLatest, serverVars, cacheVars
  <2>2. FetchCurrent'
    BY <1>0, <1>2 DEF Get, Locked, FetchData, CoherenceInv, FetchCurrent, MutexFree, TypeOK,
                      serverVars, cacheVars
  <2> QED
    BY <1>0, <2>1, <2>2, Zenon DEF CoherenceInv
<1>3. ASSUME NEW c \in Client, NEW e \in Eid, NEW d \in Data, Put(c, e, d)
      PROVE  CoherenceInv'
  <2>1. Quiescent' /\ AttrDescribesData'
    BY <1>0, <1>3 DEF Put, CoherenceInv, Quiescent, AttrDescribesData, TypeOK, serverVars
  <2>2. OwnerCaches'
    BY <1>0, <1>3 DEF Put, Locked, CoherenceInv, OwnerCaches, TypeOK
  <2>3. RemovedIsGone'
    BY <1>0, <1>3 DEF Put, AddToModified, CoherenceInv, RemovedIsGone, TypeOK
  <2>4. StoreLatest'
    BY <1>0, <1>3 DEF Put, Locked, AddToModified, CoherenceInv, StoreLatest, TypeOK, serverVars
  <2>5. FetchCurrent'
    BY <1>0, <1>3 DEF Put, Locked, AddToModified, CoherenceInv, FetchCurrent, MutexFree, TypeOK,
                      serverVars
  <2> QED
    BY <1>0, <2>1, <2>2, <2>3, <2>4, <2>5, Zenon DEF CoherenceInv
<1>4. ASSUME NEW c \in Client, NEW e \in Eid, Remove(c, e) PROVE CoherenceInv'
  <2>1. Quiescent' /\ AttrDescribesData'
    BY <1>0, <1>4 DEF Remove, CoherenceInv, Quiescent, AttrDescribesData, TypeOK, serverVars
  <2>2. OwnerCaches'
    BY <1>0, <1>4 DEF Remove, Locked, CoherenceInv, OwnerCaches, TypeOK
  <2>3. RemovedIsGone'
    BY <1>0, <1>4 DEF Remove, CoherenceInv, RemovedIsGone, TypeOK
  <2>4. StoreLatest'
    BY <1>0, <1>4 DEF Remove, Locked, CoherenceInv, StoreLatest, TypeOK, serverVars
  <2>5. FetchCurrent'
    BY <1>0, <1>4 DEF Remove, Locked, CoherenceInv, FetchCurrent, MutexFree, TypeOK, serverVars
  <2> QED
    BY <1>0, <2>1, <2>2, <2>3, <2>4, <2>5, Zenon DEF CoherenceInv
<1>5. ASSUME NEW c \in Client, NEW e \in Eid, NEW failed \in SUBSET {"put", "remove"},
             Flush(c, e, failed)
      PROVE  CoherenceInv'
  <2>1. failed = {}
    <3>1. Cardinality(failed) \in Nat
      BY FailedCalls, Zenon
    <3>2. Cardinality(failed) = 0
      BY <1>5, <3>1 DEF Flush, CoherenceInv, Quiescent
    <3> QED
      BY <3>2, FailedCalls, Zenon
  <2>2. Quiescent'
    BY <1>5, <2>1, FS_EmptySet DEF Flush, CoherenceInv, Quiescent
  <2>3. /\ lockOwner[e] = c /\ MutexFree(c)
        /\ lockOwner' = [lockOwner EXCEPT ![e] = NoClient]
        /\ UNCHANGED <<fetching, latest, gone>>
    BY <1>5, Zenon DEF Flush, Locked
  <2>4. CASE extents[c][e] # NoData
    <3>1. e \in modified[c] /\ removed[c][e] = 0
      BY <1>0, <2>4, Zenon DEF ShapeInv, CacheShape
    <3>2. /\ FlushPut(c, e)
          /\ put(e, extents[c][e], extent_attrs[c][e])
          /\ removed' = removed
      BY <1>0, <1>5, <2>1, <3>1 DEF Flush, FlushCalls, FlushServer, TypeOK
    <3>3. extents[c][e] = latest[e]
      BY <2>4, Zenon DEF CoherenceInv, OwnerCaches
    <3>4. AttrDescribesData'
      BY <1>0, <3>2 DEF FlushPut, put, CoherenceInv, AttrDescribesData, TypeOK, ServerTypeOK
    <3>5. OwnerCaches' /\ RemovedIsGone'
      BY <1>0, <2>3, <3>2 DEF FlushPut, CoherenceInv, OwnerCaches, RemovedIsGone, TypeOK
    <3>6. StoreLatest'
      BY <1>0, <2>3, <3>2, <3>3 DEF FlushPut, put, CoherenceInv, StoreLatest, TypeOK, ServerTypeOK
    <3>7. FetchCurrent'
      BY <1>0, <2>3, <3>2 DEF FlushPut, put, CoherenceInv, FetchCurrent, MutexFree, TypeOK,
                              ServerTypeOK
    <3> QED
      BY <1>0, <2>2, <3>4, <3>5, <3>6, <3>7, Zenon DEF CoherenceInv
  <2>5. CASE extents[c][e] = NoData
    <3>1. e \notin modified[c]
      BY <1>0, <2>5, Zenon DEF ShapeInv, CacheShape
    <3>2. UNCHANGED <<extents, extent_attrs>>
      BY <1>5, <3>1, Zenon DEF Flush, FlushCalls
    <3>3. PICK n \in {0, removed[c][e]} : removed' = [removed EXCEPT ![c][e] = n]
      BY <1>5, Zenon DEF Flush
    <3>4. /\ store' = [store EXCEPT ![e] = latest[e]]
          /\ storeAttr' = [storeAttr EXCEPT ![e] = latest[e]]
      <4>1. CASE removed[c][e] = 0
        <5>1. store[e] = latest[e] /\ storeAttr[e] = latest[e]
          BY <2>3, <2>5, <4>1 DEF CoherenceInv, StoreLatest, AttrDescribesData
        <5>2. UNCHANGED serverVars
          BY <1>5, <3>1, <4>1 DEF Flush, FlushCalls, FlushServer
        <5> QED
          BY <1>0, <5>1, <5>2, Zenon DEF serverVars, TypeOK, ServerTypeOK
      <4>2. CASE removed[c][e] > 0
        <5>1. latest[e] = NoData
          BY <4>2, Zenon DEF CoherenceInv, RemovedIsGone
        <5>2. CASE removeOK(e)
          BY <1>5, <2>1, <3>1, <4>2, <5>1, <5>2, Zenon DEF Flush, FlushCalls, FlushServer, put
        <5>3. CASE ~ removeOK(e)
          <6>1. store[e] = NoData /\ storeAttr[e] = NoData
            BY <5>3, Zenon DEF removeOK, CoherenceInv, AttrDescribesData
          <6>2. UNCHANGED serverVars
            BY <1>5, <3>1, <5>3, Zenon DEF Flush, FlushCalls, FlushServer
          <6> QED
            BY <1>0, <5>1, <6>1, <6>2, Zenon DEF serverVars, TypeOK, ServerTypeOK
        <5> QED
          BY <5>2, <5>3, Zenon
      <4> QED
        BY <1>0, <4>1, <4>2 DEF TypeOK
    <3>5. AttrDescribesData'
      BY <1>0, <3>2, <3>4, Zenon DEF CoherenceInv, AttrDescribesData, TypeOK, ServerTypeOK
    <3>6. OwnerCaches' /\ RemovedIsGone'
      BY <1>0, <2>3, <2>5, <3>2, <3>3 DEF CoherenceInv, OwnerCaches, RemovedIsGone, TypeOK
    <3>7. StoreLatest'
      BY <1>0, <2>3, <3>2, <3>3, <3>4 DEF CoherenceInv, StoreLatest, TypeOK, ServerTypeOK
    <3>8. FetchCurrent'
      BY <1>0, <2>3, <3>2, <3>3, <3>4 DEF CoherenceInv, FetchCurrent, MutexFree, TypeOK,
                                          ServerTypeOK
    <3> QED
      BY <1>0, <2>2, <3>5, <3>6, <3>7, <3>8, Zenon DEF CoherenceInv
  <2> QED
    BY <2>4, <2>5, Zenon
<1>6. ASSUME NEW c \in Client, FetchAttr(c) PROVE CoherenceInv'
  <2> DEFINE e == fetching[c].eid
  <2>1. e \in Eid /\ fetching[c].buf \in Data
    BY <1>0, <1>6, FetchingType, Zenon DEF FetchAttr
  <2>2. /\ lockOwner[e] = c /\ fetching[c].buf = store[e]
        /\ removed[c][e] = 0 /\ extents[c][e] = NoData
    BY <1>6, Zenon DEF FetchAttr, CoherenceInv, FetchCurrent
  <2>3. store[e] = latest[e] /\ storeAttr[e] = store[e]
    BY <2>1, <2>2 DEF CoherenceInv, StoreLatest, AttrDescribesData
  <2>4. /\ extents' = [extents EXCEPT ![c][e] = latest[e]]
        /\ extent_attrs' = [extent_attrs EXCEPT ![c][e] = latest[e]]
        /\ removed' = removed
        /\ fetching' = [fetching EXCEPT ![c] = NoFetch]
        /\ UNCHANGED <<store, storeAttr, lockOwner, latest, gone, failures, late>>
    BY <1>0, <1>6, <2>1, <2>2, <2>3 DEF FetchAttr, getattrOK, AddToModified, TypeOK, serverVars
  <2> HIDE DEF e
  <2>5. Quiescent' /\ AttrDescribesData' /\ RemovedIsGone'
    BY <1>0, <2>1, <2>4 DEF CoherenceInv, Quiescent, AttrDescribesData, RemovedIsGone, TypeOK
  <2>6. OwnerCaches'
    BY <1>0, <2>1, <2>2, <2>4 DEF CoherenceInv, OwnerCaches, TypeOK
  <2>7. StoreLatest'
    BY <1>0, <2>1, <2>3, <2>4 DEF CoherenceInv, StoreLatest, TypeOK
  <2>8. FetchCurrent'
    BY <1>0, <2>1, <2>2, <2>4 DEF CoherenceInv, FetchCurrent, MutexFree, TypeOK, NoFetch
  <2> QED
    BY <1>0, <2>5, <2>6, <2>7, <2>8, Zenon DEF CoherenceInv
<1>7. ASSUME NEW c \in Client, FetchFails(c) PROVE FALSE
  BY <1>7 DEF FetchFails, CoherenceInv, Quiescent
<1>8. late = {}
  BY Zenon DEF CoherenceInv, Quiescent
<1>9. CASE UNCHANGED vars
  BY <1>0, <1>9 DEF vars, serverVars, cacheVars, CoherenceInv, Quiescent, AttrDescribesData,
                    OwnerCaches, RemovedIsGone, StoreLatest, FetchCurrent, MutexFree
<1> QED
  BY <1>1, <1>2, <1>3, <1>4, <1>5, <1>6, <1>7, <1>8, <1>9 DEF Next, Probe

(***************************************************************************)
(* The owner of an extent's lock reads what the last put or remove left,   *)
(* for any clients and extents, if generate_unique_inum draws no inum in   *)
(* use, removed extents are not used again and no RPC fails.               *)
(***************************************************************************)
THEOREM CoherenceHolds ==
    ASSUME ~ Probing, ~ Reusing, MaxFailures = 0
    PROVE  Spec => [](Coherence /\ CachedUnderLock /\ AttrDescribesData)
<1>1. Init => CoherenceInv
  <2> SUFFICES ASSUME Init PROVE CoherenceInv
    BY Zenon
  <2>1. ShapeInv
    BY InitShape, Zenon
  <2> QED
    BY <2>1 DEF Init, ServerInit, CoherenceInv, Quiescent, AttrDescribesData, OwnerCaches,
                RemovedIsGone, StoreLatest, FetchCurrent, MutexFree
<1>2. CoherenceInv /\ [Next]_vars => CoherenceInv'
  BY NextCoherence, Zenon
<1>3. CoherenceInv => Coherence /\ CachedUnderLock /\ AttrDescribesData
  BY DEF CoherenceInv, Coherence, View, Locked, CachedUnderLock, OwnerCaches, StoreLatest,
         ShapeInv, TypeOK
<1> QED
  BY <1>1, <1>2, <1>3, PTL DEF Spec

(***************************************************************************)
(* removed_extents holds an identifier at most once: extent_client::remove *)
(* and the reuse of an identifier never leave a second entry behind.       *)
(***************************************************************************)
COROLLARY RemovedOnceHolds == Spec => []RemovedOnce
BY CacheShapeHolds, PTL

(***************************************************************************)
(* The containers of extent_client and the server's map have their types.  *)
(***************************************************************************)
COROLLARY TypesHold == Spec => []TypeOK
<1>1. ShapeInv => TypeOK
  BY Zenon DEF ShapeInv
<1> QED
  BY <1>1, InitShape, NextShape, PTL DEF Spec

(***************************************************************************)
(* flush in dorelease leaves nothing behind: a client has an extent cached *)
(* only while it has the lock.                                             *)
(***************************************************************************)
COROLLARY CachedUnderLockHolds ==
    ASSUME ~ Probing, ~ Reusing, MaxFailures = 0
    PROVE  Spec => []CachedUnderLock
BY CoherenceHolds, PTL

(***************************************************************************)
(* getattr describes the contents that get returns.                        *)
(***************************************************************************)
COROLLARY AttrDescribesDataHolds ==
    ASSUME ~ Probing, ~ Reusing, MaxFailures = 0
    PROVE  Spec => []AttrDescribesData
BY CoherenceHolds, PTL
=============================================================================
