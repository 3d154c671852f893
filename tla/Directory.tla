----------------------------- MODULE Directory -----------------------------
(***************************************************************************)
(* The file system operations: the FUSE handlers (fuse.cc) over yfs_client *)
(* (yfs_client.cc), on several clients.  A handler is a sequence of calls  *)
(* to yfs_client, each under the lock of the inum it works on; a daemon    *)
(* serves one request at a time (fuse_session_loop).                       *)
(*                                                                         *)
(* A directory is the sequence of its entries, a file the sequence of its  *)
(* bytes.  Locks are exclusive and caches coherent here: the client that   *)
(* owns a lock keeps it, and the extent in its cache, until another client *)
(* acquires the lock.  A number of yfs_client::generate_unique_inum is one *)
(* that was never drawn; the unlocked read of one that was is in           *)
(* ExtentCache.  Calls to the extent server do not fail here.              *)
(***************************************************************************)
EXTENDS Naturals, Sequences, Functions, FiniteSets

CONSTANTS Client,     \* the yfs clients
          NoClient,
          Dir,        \* inums of directories
          File,       \* inums of files: the top bit is set
          Root,       \* inum 1
          Name,
          Byte,
          None,       \* no extent
          MaxSize,    \* bound on the size of a file
          MaxRequests \* bound on the requests of a client

ASSUME DirectoryAssumption ==
  /\ NoClient \notin Client /\ Root \in Dir /\ Dir \intersect File = {}
  /\ 0 \in Byte /\ 0 \notin Dir \union File
  /\ None \notin Seq(Byte) \union Seq([inum : Dir \union File, name : Name])
  /\ MaxSize \in Nat /\ MaxRequests \in Nat

VARIABLES fs,       \* the locks and the extents
          held,     \* held[i]: the client that holds lock i from step to step
          op,       \* op[c]: what client c does
          used,     \* the inums that have been drawn
          requests, \* requests[c]: number of requests of c
          lost      \* has an unlink not found its name?

vars == <<fs, held, op, used, requests, lost>>

Inum == Dir \union File
Idle == [at |-> "idle"]

Init ==
  /\ fs = [owner |-> [i \in Inum |-> NoClient], store |-> [i \in Inum |-> None],
           cache |-> [i \in Inum |-> None], dead |-> {}]
  /\ held = [i \in Inum |-> NoClient]
  /\ op = [c \in Client |-> [at |-> "start"]]
  /\ used = {Root}
  /\ requests = [c \in Client |-> 0]
  /\ lost = FALSE

----------------------------------------------------------------------------
(* The extents of the clients: an extent is cached at the owner of its     *)
(* lock; a removed one is in dead until the lock changes hands.            *)

Has(f, i) == f.cache[i] # None

flushed(f, i) ==
  IF Has(f, i) THEN f.cache[i] ELSE IF i \in f.dead THEN None ELSE f.store[i]

acquireUnflushed(f, c, i) ==   \* faulty: the cache is dropped and not flushed
  IF f.owner[i] = c THEN f
  ELSE [f EXCEPT !.owner[i] = c, !.cache[i] = None, !.dead = @ \ {i}]

acquire(f, c, i) ==
  IF f.owner[i] = c THEN f
  ELSE [f EXCEPT !.owner[i] = c, !.store[i] = flushed(f, i), !.cache[i] = None,
                 !.dead = @ \ {i}]

\* Also an extent that is in dead is fetched again if the server has it.
get(f, i) ==
  IF Has(f, i) \/ f.store[i] = None THEN f
  ELSE [f EXCEPT !.cache[i] = f.store[i], !.dead = @ \ {i}]

put(f, i, d) == [f EXCEPT !.cache[i] = d, !.dead = @ \ {i}]

remove(f, i) ==
  IF Has(f, i) THEN [f EXCEPT !.cache[i] = None, !.dead = @ \union {i}] ELSE f

\* Locked and read: getfile, getdir, and the beginning of the other calls.
Opened(c, i) == get(acquire(fs, c, i), i)

----------------------------------------------------------------------------
(* Contents. *)

\* The first entry of the name.
ilookup(dir, nm) ==
  LET here == {k \in DOMAIN dir : dir[k].name = nm}
  IN IF here = {} THEN 0 ELSE dir[CHOOSE k \in here : \A j \in here : k <= j].inum

resize(buf, n) == [i \in 1..n |-> IF i <= Len(buf) THEN buf[i] ELSE 0]

writtenShort(buf, d, off) ==   \* faulty: the buffer is cut behind what is written
  [i \in 1..(off + Len(d)) |-> IF i > off THEN d[i - off]
                               ELSE resize(buf, off + Len(d))[i]]

written(buf, d, off) ==
  LET b == IF off + Len(d) > Len(buf) THEN resize(buf, off + Len(d)) ELSE buf
  IN [i \in DOMAIN b |-> IF i \in (off + 1)..(off + Len(d)) THEN d[i - off] ELSE b[i]]

----------------------------------------------------------------------------
(* Calls that are one locked section, as a step of client c. *)

Free(i) == held[i] = NoClient

Becomes(c, o) == op' = [op EXCEPT ![c] = o]

\* The constructor of yfs_client.
yfs_client(c) ==
  LET f == Opened(c, Root)
  IN /\ op[c].at = "start" /\ Free(Root)
     /\ fs' = IF Has(f, Root) THEN f ELSE put(f, Root, <<>>)
     /\ Becomes(c, Idle)
     /\ UNCHANGED <<held, used, requests, lost>>

Asks(c) ==
  /\ op[c].at = "idle" /\ requests[c] < MaxRequests
  /\ requests' = [requests EXCEPT ![c] = @ + 1]

\* A handler that only reads.
Reads(c, i) ==
  /\ Asks(c) /\ Free(i)
  /\ fs' = Opened(c, i)
  /\ UNCHANGED <<held, op, used, lost>>

fuseserver_getattr(c, i) == Reads(c, i)

fuseserver_open(c, i) == i \in File /\ Reads(c, i)

fuseserver_read(c, i) == i \in File /\ Reads(c, i)

fuseserver_readdir(c, i) == i \in Dir /\ Reads(c, i)

fuseserver_write(c, i, d, off) ==
  LET f == Opened(c, i)
  IN /\ Asks(c) /\ Free(i)
     /\ fs' = IF Has(f, i) THEN put(f, i, written(f.cache[i], d, off)) ELSE f
     /\ UNCHANGED <<held, op, used, lost>>

\* setsize, then getattr.
fuseserver_setattr(c, i, n) ==
  LET f == Opened(c, i)
  IN /\ Asks(c) /\ Free(i)
     /\ fs' = IF Has(f, i) THEN put(f, i, resize(f.cache[i], n)) ELSE f
     /\ Becomes(c, IF Has(f, i) THEN [at |-> "getattr", i |-> i] ELSE Idle)
     /\ UNCHANGED <<held, used, lost>>

\* The getattr that ends other handlers.
getattr(c) ==
  /\ op[c].at = "getattr" /\ Free(op[c].i)
  /\ fs' = Opened(c, op[c].i)
  /\ Becomes(c, Idle)
  /\ UNCHANGED <<held, used, requests, lost>>

----------------------------------------------------------------------------
(* Handlers on names. *)

\* create, mknod and mkdir begin with getdir, lookup and unlink with ilookup.
Request(c, h, d, nm) ==
  /\ Asks(c)
  /\ Becomes(c, [at |-> IF h \in {"create", "mkdir"} THEN "getdir" ELSE "ilookup",
                 h |-> h, i |-> d, name |-> nm])
  /\ UNCHANGED <<fs, held, used, lost>>

getdir(c) ==
  LET f == Opened(c, op[c].i)
  IN /\ op[c].at = "getdir" /\ Free(op[c].i)
     /\ fs' = f
     /\ Becomes(c, IF Has(f, op[c].i) THEN [op[c] EXCEPT !.at = "ilookup"] ELSE Idle)
     /\ UNCHANGED <<held, used, requests, lost>>

\* What the handlers do with the answer of ilookup.
fuseserver_createhelper(c, inum) ==
  /\ op[c].h = "create"
  /\ Becomes(c, IF inum = 0 THEN [op[c] EXCEPT !.at = "add_entry"]
                ELSE [at |-> "getattr", i |-> inum])

\* A mkdir that finds the name ends, and sends no reply.
fuseserver_mkdir(c, inum) ==
  /\ op[c].h = "mkdir"
  /\ Becomes(c, IF inum = 0 THEN [op[c] EXCEPT !.at = "add_entry"] ELSE Idle)

fuseserver_lookup(c, inum) ==
  /\ op[c].h = "lookup"
  /\ Becomes(c, IF inum = 0 THEN Idle ELSE [at |-> "getattr", i |-> inum])

fuseserver_unlink(c, inum) ==
  /\ op[c].h = "unlink"
  /\ Becomes(c, IF inum = 0 THEN Idle ELSE [op[c] EXCEPT !.at = "unlink"])

Lookup(c) ==
  LET f == Opened(c, op[c].i)
      inum == IF Has(f, op[c].i) THEN ilookup(f.cache[op[c].i], op[c].name) ELSE 0
  IN /\ op[c].at = "ilookup" /\ Free(op[c].i)
     /\ fs' = f
     /\ \/ fuseserver_createhelper(c, inum)
        \/ fuseserver_mkdir(c, inum)
        \/ fuseserver_lookup(c, inum)
        \/ fuseserver_unlink(c, inum)
     /\ UNCHANGED <<held, used, requests, lost>>

NewInums(h) == (IF h = "create" THEN File ELSE Dir) \ used

addedOnly(f, d, nm, i) ==   \* faulty: the new extent is not put
  put(f, d, Append(f.cache[d], [inum |-> i, name |-> nm]))

added(f, d, nm, i) ==
  put(put(f, d, Append(f.cache[d], [inum |-> i, name |-> nm])), i, <<>>)

\* The locks of the directory and of the new inum, which nobody else knows, are
\* held to the end.  Where no entry is made create returns the error; mkdir goes
\* on to getattr with an inum it never set.
add_entry_to_filesystem(c) ==
  LET o == op[c]
      f == Opened(c, o.i)
  IN /\ o.at = "add_entry" /\ Free(o.i)
     /\ \/ \E i \in NewInums(o.h) :
             /\ Has(f, o.i)
             /\ fs' = added(acquire(f, c, i), o.i, o.name, i)
             /\ used' = used \union {i}
             /\ Becomes(c, [at |-> "getattr", i |-> i])
        \/ /\ ~Has(f, o.i) \/ NewInums(o.h) = {}
           /\ fs' = f
           /\ IF o.h = "create" THEN Becomes(c, Idle)
              ELSE \E i \in Inum : Becomes(c, [at |-> "getattr", i |-> i])
           /\ UNCHANGED used
     /\ UNCHANGED <<held, requests, lost>>

\* unlink up to the second lock.  A name that is not there any more leaves
\* n2i's result unset.  If the directory is gone a lock that was never acquired
\* is released, and the client does not go on in this model.
unlink(c) ==
  LET o == op[c]
      f == Opened(c, o.i)
      dir == f.cache[o.i]
      here == {k \in DOMAIN dir : dir[k].name = o.name}
      last == {k \in here : \A j \in here : j <= k}
  IN /\ o.at = "unlink" /\ Free(o.i)
     /\ fs' = f
     /\ IF Has(f, o.i)
        THEN /\ held' = [held EXCEPT ![o.i] = c]
             /\ lost' = (lost \/ here = {})
             /\ \E i \in IF here = {} THEN Inum ELSE {dir[k].inum : k \in last} :
                  Becomes(c, [at |-> "remove", i |-> o.i, name |-> o.name, target |-> i])
        ELSE /\ Becomes(c, [at |-> "undefined"])
             /\ UNCHANGED <<held, lost>>
     /\ UNCHANGED <<used, requests>>

\* The entries at the positions of K, in their order.
kept(dir, K) ==
  [j \in 1..Cardinality(K) |->
     dir[CHOOSE k \in K : Cardinality({x \in K : x <= k}) = j]]

\* Entries of the name are dropped, all of them.
unlinked(dir, nm) == kept(dir, {k \in DOMAIN dir : dir[k].name # nm})

unlinkRemoveKeeps(c) ==   \* faulty: the lock of the directory is not released
  LET o == op[c]
      f == acquire(fs, c, o.target)
  IN /\ o.at = "remove" /\ Free(o.target)
     /\ fs' = remove(put(f, o.i, unlinked(f.cache[o.i], o.name)), o.target)
     /\ Becomes(c, Idle)
     /\ UNCHANGED <<held, used, requests, lost>>

\* The rest of unlink, with both locks.
unlinkRemove(c) ==
  LET o == op[c]
      f == acquire(fs, c, o.target)
  IN /\ o.at = "remove" /\ Free(o.target)
     /\ fs' = remove(put(f, o.i, unlinked(f.cache[o.i], o.name)), o.target)
     /\ held' = [held EXCEPT ![o.i] = NoClient]
     /\ Becomes(c, Idle)
     /\ UNCHANGED <<used, requests, lost>>

----------------------------------------------------------------------------
Step(c) ==
  \/ yfs_client(c) \/ getdir(c) \/ Lookup(c) \/ add_entry_to_filesystem(c)
  \/ getattr(c) \/ unlink(c) \/ unlinkRemove(c)

Next ==
  \E c \in Client :
    \/ Step(c)
    \/ \E h \in {"create", "mkdir", "lookup", "unlink"}, d \in Dir \intersect used, nm \in Name :
         Request(c, h, d, nm)
    \/ \E i \in used : \/ fuseserver_getattr(c, i) \/ fuseserver_open(c, i)
                       \/ fuseserver_read(c, i) \/ fuseserver_readdir(c, i)
    \/ \E i \in File \intersect used, off \in 0..(MaxSize - 1), b \in Byte :
         fuseserver_write(c, i, <<b>>, off)
    \/ \E i \in File \intersect used, n \in 0..MaxSize : fuseserver_setattr(c, i, n)

Spec == Init /\ [][Next]_vars

\* A daemon goes on with its request.
FairSpec == Spec /\ \A c \in Client : WF_vars(Step(c))

----------------------------------------------------------------------------
(* Properties. *)

\* What the next client to read i sees.
Visible(i) == flushed(fs, i)

Entries(d) == IF d \in File \/ Visible(d) = None THEN {} ELSE Range(Visible(d))

\* The directories that can be reached from the root.
Reached ==
  {d \in Dir : \A S \in SUBSET Dir :
     Root \in S /\ (\A x \in S : {e.inum : e \in Entries(x)} \intersect Dir \subseteq S)
       => d \in S}

\* A name never leads nowhere: while the creations and removals of several
\* clients, of names that other clients remove and make again, are under way, the
\* inum of every entry has an extent.  Only an unlink that does not find its name
\* may remove the extent of another entry, n2i's result being unset.
EntryHasExtent ==
  lost \/ \A d \in Reached : \A e \in Entries(d) : Visible(e.inum) # None

\* No update of a directory is lost although each client works on its own copy:
\* an entry stays until an unlink of its name ends, or the directory goes; and
\* what appears is an entry of an inum not used before.
EntriesStay ==
  [][\A d \in Dir : Visible(d) # None /\ Visible(d)' # None =>
       /\ \A e \in Entries(d) \ Entries(d)' :
            \E c \in Client : /\ op[c].at = "remove" /\ op'[c].at = "idle"
                              /\ op[c].i = d /\ op[c].name = e.name
       /\ \A e \in Entries(d)' \ Entries(d) : e.inum \notin used]_vars

\* new is old with d written at off: byte by byte.
Overwritten(old, new, d, off) ==
  LET end == off + Len(d)
  IN /\ Len(new) = IF end > Len(old) THEN end ELSE Len(old)
     /\ \A i \in DOMAIN new :
          new[i] = IF off < i /\ i <= end THEN d[i - off]
                   ELSE IF i <= Len(old) THEN old[i] ELSE 0

Resized(old, new) ==
  \A i \in DOMAIN new : new[i] = IF i <= Len(old) THEN old[i] ELSE 0

\* A file that stays changes only by a write, which leaves every byte outside its
\* range alone and fills a gap with zeros, or by a change of its size; never when
\* its lock goes to another client.
FileBytes ==
  [][\A i \in File : Visible(i) # None /\ Visible(i)' \notin {None, Visible(i)} =>
       \/ \E b \in Byte, off \in 0..(MaxSize - 1) :
            Overwritten(Visible(i), Visible(i)', <<b>>, off)
       \/ Resized(Visible(i), Visible(i)')]_vars

\* Every request comes to its end: unlink, which waits for a lock while it holds
\* another, never waits in a circle, unless it locks what n2i left unset.
RequestsEnd ==
  \A c \in Client : op[c].at # "idle" ~> op[c].at \in {"idle", "undefined"} \/ lost

\* A directory has no two entries of one name: the tests of the file system look
\* for a file that "occurs twice in directory" after concurrent creations.
UniqueNames ==
  \A d \in Reached : Visible(d) # None =>
    Cardinality({e.name : e \in Entries(d)}) = Len(Visible(d))
=============================================================================
