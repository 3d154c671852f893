---------------------------- MODULE ExtentCache -----------------------------
(***************************************************************************)
(* extent_client.cc over extent_server.cc: the write-back cache of extents *)
(* that every yfs client keeps, used under one lock per extent.            *)
(*                                                                         *)
(* extent_mutex is held through an operation, its RPCs included, so the    *)
(* operations of one client do not overlap and the lists waiting_threads   *)
(* are empty whenever the mutex is free.  An operation that stays in the   *)
(* client is one step.  A get or getattr that misses makes two RPCs, and   *)
(* other clients may run between them: it is two steps.                    *)
(*                                                                         *)
(* The lock service is external here and does what ExclusiveLock says, for *)
(* clients: a client owns the lock of an extent alone, keeps it over many  *)
(* operations, and calls dorelease, that is flush, before it gives it up.  *)
(***************************************************************************)
EXTENDS ExtentServer, Naturals, FiniteSets

CONSTANTS
    Client,       \* yfs clients
    NoClient,     \* nobody
    Probing,      \* does generate_unique_inum draw inums that are in use?
    Reusing,      \* are removed extents read by the remover or put again?
    MaxFailures   \* bound on the RPCs that fail

ASSUME CacheAssumption ==
    /\ NoClient \notin Client
    /\ Probing \in BOOLEAN
    /\ Reusing \in BOOLEAN
    /\ MaxFailures \in Nat

VARIABLES
    extents,        \* extents[c][e]: the cached contents at client c
    extent_attrs,   \* extent_attrs at client c
    modified,       \* modified_extents at client c
    modifiedAttrs,  \* modified_extent_attributes at client c
    removed,        \* how often e is in the list removed_extents of client c
    fetching,       \* the get RPC has answered and getattr is to be called
    lockOwner,      \* external: the client that owns the lock of e
    latest,         \* what the last put or remove under the lock left in e
    gone,           \* the extents that a remove has ever left
    failures,       \* RPCs that have failed
    late            \* flush RPCs that failed at the client and may still run

cacheVars == <<extents, extent_attrs, modified, modifiedAttrs, removed>>
vars == <<serverVars, cacheVars, fetching, lockOwner, latest, gone, failures, late>>

NoFetch == [eid |-> NoData, buf |-> NoData]
Flushed == [op : {"put"}, eid : Eid, buf : Contents, attr : Contents]
           \cup [op : {"remove"}, eid : Eid]

Init ==
    /\ ServerInit
    /\ extents = [c \in Client |-> [e \in Eid |-> NoData]]
    /\ extent_attrs = [c \in Client |-> [e \in Eid |-> NoData]]
    /\ modified = [c \in Client |-> {}]
    /\ modifiedAttrs = [c \in Client |-> {}]
    /\ removed = [c \in Client |-> [e \in Eid |-> 0]]
    /\ fetching = [c \in Client |-> NoFetch]
    /\ lockOwner = [e \in Eid |-> NoClient]
    /\ latest = [e \in Eid |-> NoData]
    /\ gone = {}
    /\ failures = 0
    /\ late = {}

TypeOK ==
    /\ ServerTypeOK
    /\ extents \in [Client -> [Eid -> Contents]]
    /\ extent_attrs \in [Client -> [Eid -> Contents]]
    /\ modified \in [Client -> SUBSET Eid]
    /\ modifiedAttrs \in [Client -> SUBSET Eid]
    /\ removed \in [Client -> [Eid -> Nat]]
    /\ fetching \in [Client -> {NoFetch} \cup [eid : Eid, buf : Data]]
    /\ lockOwner \in [Eid -> Client \cup {NoClient}]
    /\ latest \in [Eid -> Contents]
    /\ gone \subseteq Eid
    /\ failures \in Nat
    /\ late \subseteq Flushed

(***************************************************************************)
(* The client calls of yfs_client.cc are made under the extent's lock and  *)
(* wait for extent_mutex.                                                  *)
(***************************************************************************)
MutexFree(c) == fetching[c] = NoFetch
Locked(c, e) == lockOwner[e] = c /\ MutexFree(c)

Acquire(c, e) ==
    /\ lockOwner[e] = NoClient
    /\ lockOwner' = [lockOwner EXCEPT ![e] = c]
    /\ UNCHANGED <<serverVars, cacheVars, fetching, latest, gone, failures, late>>

(***************************************************************************)
(* add_extent_to_modified_queues: one entry of removed_extents is erased.  *)
(***************************************************************************)
\* Faulty: erases without having found the extent.
AddToModifiedErasesAny(c, e) ==
    /\ modified' = [modified EXCEPT ![c] = @ \cup {e}]
    /\ modifiedAttrs' = [modifiedAttrs EXCEPT ![c] = @ \cup {e}]
    /\ removed' = [removed EXCEPT ![c][e] = @ - 1]

\* Faulty: the removal stays pending.
AddToModifiedStillRemoved(c, e) ==
    /\ modified' = [modified EXCEPT ![c] = @ \cup {e}]
    /\ modifiedAttrs' = [modifiedAttrs EXCEPT ![c] = @ \cup {e}]
    /\ UNCHANGED removed

AddToModified(c, e) ==
    /\ modified' = [modified EXCEPT ![c] = @ \cup {e}]
    /\ modifiedAttrs' = [modifiedAttrs EXCEPT ![c] = @ \cup {e}]
    /\ removed' = [removed EXCEPT ![c][e] = IF @ > 0 THEN @ - 1 ELSE @]

(***************************************************************************)
(* get and getattr on an extent that is not cached.  A hit, or a miss for  *)
(* an extent the server does not have, changes nothing.                    *)
(***************************************************************************)
FetchData(c, e) ==
    /\ MutexFree(c)
    /\ extents[c][e] = NoData
    /\ getOK(e)
    /\ fetching' = [fetching EXCEPT ![c] = [eid |-> e, buf |-> store[e]]]
    /\ UNCHANGED <<serverVars, cacheVars, lockOwner, latest, gone, failures, late>>

Get(c, e) ==
    /\ Locked(c, e)
    /\ removed[c][e] = 0 \/ Reusing
    /\ FetchData(c, e)

(***************************************************************************)
(* generate_unique_inum calls get without the lock of the inum it drew.    *)
(***************************************************************************)
Probe(c, e) ==
    /\ Probing
    /\ lockOwner[e] # c
    /\ FetchData(c, e)

FetchAttr(c) ==
    LET e == fetching[c].eid IN
    /\ ~ MutexFree(c)
    /\ fetching' = [fetching EXCEPT ![c] = NoFetch]
    /\ IF getattrOK(e)
       THEN /\ extents' = [extents EXCEPT ![c][e] = fetching[c].buf]
            /\ extent_attrs' = [extent_attrs EXCEPT ![c][e] = storeAttr[e]]
            /\ AddToModified(c, e)
       ELSE UNCHANGED cacheVars
    /\ UNCHANGED <<serverVars, lockOwner, latest, gone, failures, late>>

FetchFails(c) ==
    /\ ~ MutexFree(c)
    /\ failures < MaxFailures
    /\ failures' = failures + 1
    /\ fetching' = [fetching EXCEPT ![c] = NoFetch]
    /\ UNCHANGED <<serverVars, cacheVars, lockOwner, latest, gone, late>>

\* Faulty: the attributes of a cached extent are kept.
PutOldAttr(c, e, d) ==
    /\ Locked(c, e)
    /\ e \notin gone \/ Reusing
    /\ extents' = [extents EXCEPT ![c][e] = d]
    /\ extent_attrs' = [extent_attrs EXCEPT ![c][e] = IF @ = NoData THEN d ELSE @]
    /\ AddToModified(c, e)
    /\ latest' = [latest EXCEPT ![e] = d]
    /\ UNCHANGED <<serverVars, fetching, lockOwner, gone, failures, late>>

Put(c, e, d) ==
    /\ Locked(c, e)
    /\ e \notin gone \/ Reusing
    /\ extents' = [extents EXCEPT ![c][e] = d]
    /\ extent_attrs' = [extent_attrs EXCEPT ![c][e] = d]
    /\ AddToModified(c, e)
    /\ latest' = [latest EXCEPT ![e] = d]
    /\ UNCHANGED <<serverVars, fetching, lockOwner, gone, failures, late>>

(***************************************************************************)
(* remove of a cached extent.  For one that is not cached it returns NOENT *)
(* and changes nothing, here or at the server.                             *)
(***************************************************************************)
\* Faulty: the extent stays in modified_extents.
RemoveStillModified(c, e) ==
    /\ Locked(c, e)
    /\ extents[c][e] # NoData
    /\ extents' = [extents EXCEPT ![c][e] = NoData]
    /\ extent_attrs' = [extent_attrs EXCEPT ![c][e] = NoData]
    /\ removed' = [removed EXCEPT ![c][e] = @ + 1]
    /\ modifiedAttrs' = [modifiedAttrs EXCEPT ![c] = @ \ {e}]
    /\ latest' = [latest EXCEPT ![e] = NoData]
    /\ gone' = gone \cup {e}
    /\ UNCHANGED <<serverVars, modified, fetching, lockOwner, failures, late>>

Remove(c, e) ==
    /\ Locked(c, e)
    /\ extents[c][e] # NoData
    /\ extents' = [extents EXCEPT ![c][e] = NoData]
    /\ extent_attrs' = [extent_attrs EXCEPT ![c][e] = NoData]
    /\ removed' = [removed EXCEPT ![c][e] = @ + 1]
    /\ modified' = [modified EXCEPT ![c] = @ \ {e}]
    /\ modifiedAttrs' = [modifiedAttrs EXCEPT ![c] = @ \ {e}]
    /\ latest' = [latest EXCEPT ![e] = NoData]
    /\ gone' = gone \cup {e}
    /\ UNCHANGED <<serverVars, fetching, lockOwner, failures, late>>

(***************************************************************************)
(* dorelease and the release of the lock: flush puts a modified extent to  *)
(* the server and forgets it, then asks the server to remove a removed     *)
(* one.  The two calls are one step, since nobody else uses the extent     *)
(* between them.  A call in failed has not been answered and may run       *)
(* later; whatever the calls return, the lock is given up.                 *)
(***************************************************************************)
FlushCalls(c, e) ==
    {op \in {"put", "remove"} :
        IF op = "put" THEN e \in modified[c] ELSE removed[c][e] > 0}

FlushRequest(c, e, op) ==
    IF op = "put"
    THEN [op |-> "put", eid |-> e, buf |-> extents[c][e], attr |-> extent_attrs[c][e]]
    ELSE [op |-> "remove", eid |-> e]

\* Faulty: the flushed extent stays in the cache.
FlushPutKeeps(c, e) ==
    /\ modified' = [modified EXCEPT ![c] = @ \ {e}]
    /\ modifiedAttrs' = [modifiedAttrs EXCEPT ![c] = @ \ {e}]
    /\ UNCHANGED <<extents, extent_attrs>>

FlushPut(c, e) ==
    /\ extents' = [extents EXCEPT ![c][e] = NoData]
    /\ extent_attrs' = [extent_attrs EXCEPT ![c][e] = NoData]
    /\ modified' = [modified EXCEPT ![c] = @ \ {e}]
    /\ modifiedAttrs' = [modifiedAttrs EXCEPT ![c] = @ \ {e}]

\* Faulty: an extent the server has is not written again.
FlushServerOnce(c, e, isPut, isRemoved) ==
    IF isRemoved THEN put(e, NoData, NoData)
    ELSE IF isPut /\ ~ removeOK(e) THEN put(e, extents[c][e], extent_attrs[c][e])
    ELSE UNCHANGED serverVars

FlushServer(c, e, isPut, isRemoved) ==
    IF isRemoved THEN put(e, NoData, NoData)
    ELSE IF isPut THEN put(e, extents[c][e], extent_attrs[c][e])
    ELSE UNCHANGED serverVars

Flush(c, e, failed) ==
    LET done      == FlushCalls(c, e) \ failed
        isPut     == "put" \in done
        isRemoved == "remove" \in done /\ (isPut \/ removeOK(e))
    IN  /\ Locked(c, e)
        /\ failed \subseteq FlushCalls(c, e)
        /\ failures' = failures + Cardinality(failed)
        /\ failures' <= MaxFailures
        /\ late' = late \cup {FlushRequest(c, e, op) : op \in failed}
        /\ IF isPut THEN FlushPut(c, e)
           ELSE UNCHANGED <<extents, extent_attrs, modified, modifiedAttrs>>
        /\ removed' = [removed EXCEPT ![c][e] = IF isRemoved THEN 0 ELSE @]
        /\ FlushServer(c, e, isPut, isRemoved)
        /\ lockOwner' = [lockOwner EXCEPT ![e] = NoClient]
        /\ UNCHANGED <<fetching, latest, gone>>

LateFlush(m) ==
    /\ late' = late \ {m}
    /\ IF m.op = "put" THEN put(m.eid, m.buf, m.attr) ELSE remove(m.eid)
    /\ UNCHANGED <<cacheVars, fetching, lockOwner, latest, gone, failures>>

Next ==
    \/ \E c \in Client, e \in Eid :
          \/ Acquire(c, e)
          \/ Get(c, e)
          \/ Probe(c, e)
          \/ \E d \in Data : Put(c, e, d)
          \/ Remove(c, e)
          \/ \E failed \in SUBSET {"put", "remove"} : Flush(c, e, failed)
    \/ \E c \in Client : FetchAttr(c) \/ FetchFails(c)
    \/ \E m \in late : LateFlush(m)

Spec == Init /\ [][Next]_vars
-----------------------------------------------------------------------------
(***************************************************************************)
(* The maps and lists of a client agree: an extent is cached with its      *)
(* attributes or not at all, it is in both modified lists exactly while it *)
(* is cached, and while it is cached no removal of it is pending.  So the  *)
(* extents[eid] of flush never makes up an empty extent, and flush never   *)
(* removes at the server what it has just put there.                       *)
(***************************************************************************)
CacheShape ==
    \A c \in Client, e \in Eid :
       /\ e \in modified[c] <=> extents[c][e] # NoData
       /\ e \in modifiedAttrs[c] <=> extents[c][e] # NoData
       /\ extent_attrs[c][e] # NoData <=> extents[c][e] # NoData
       /\ extents[c][e] # NoData => removed[c][e] = 0

(***************************************************************************)
(* removed_extents has an extent at most once although remove appends to   *)
(* it without looking: a second copy would survive the erase of a put, and *)
(* the next flush would delete the extent that was put.                    *)
(***************************************************************************)
RemovedOnce == \A c \in Client, e \in Eid : removed[c][e] <= 1

(***************************************************************************)
(* A client has an extent cached only while it owns the lock of the        *)
(* extent, if no RPC fails: two caches never hold the same extent.         *)
(***************************************************************************)
CachedUnderLock ==
    failures = 0 => \A c \in Client, e \in Eid :
                       extents[c][e] # NoData => lockOwner[e] = c

(***************************************************************************)
(* The attributes at the server and in every cache are those of the        *)
(* contents beside them, although get and getattr are two RPCs.            *)
(***************************************************************************)
AttrDescribesData ==
    /\ \A e \in Eid : storeAttr[e] = store[e]
    /\ \A c \in Client, e \in Eid : extent_attrs[c][e] = extents[c][e]

(***************************************************************************)
(* What get returns to the owner of an extent's lock is what the last put  *)
(* or remove under that lock, at whichever client, left there.             *)
(***************************************************************************)
View(c, e) == IF extents[c][e] # NoData THEN extents[c][e] ELSE store[e]

Coherence ==
    \A c \in Client, e \in Eid :
       Locked(c, e) /\ removed[c][e] = 0 => View(c, e) = latest[e]
=============================================================================
